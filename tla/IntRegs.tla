------------------------------- MODULE IntRegs ------------------------------
(***************************************************************************)
(* What the mpz functions of mini-gmp promise: registers that hold         *)
(* mathematical integers.  A call is a record that names its function f,   *)
(* the registers it stores to (q, r, s, t) and those it reads (a, b, e),   *)
(* the numbers it is given (k, j, base, mode, ...) and the result res it   *)
(* returns; a register may be in both roles.  Means says how the registers *)
(* after a call follow from those before it, with no mention of limbs;     *)
(* Undefined lists the calls on which the library must abort.              *)
(***************************************************************************)
EXTENDS IntMath

CONSTANTS Regs,        \* the registers
          NoReg,       \* a destination the caller leaves out
          WordBits,    \* bits of an unsigned long
          ByteBits     \* bits of an unsigned char

VARIABLES val, call, count, dead

Words(x) == IF x = 0 THEN 0 ELSE CHOOSE n \in 1 .. 6 : Absolute(x) \div 2 ^ (WordBits * (n - 1))
                                                         \in 1 .. 2 ^ WordBits - 1

-----------------------------------------------------------------------------
(* Functions of one destination. *)

Stored(c, old) ==
    LET A == old[c.a]
        Y == old[c.b]
        R == old[c.r]
        k == c.k
    IN  CASE c.f \in {"mpz_set", "mpz_init_set"} -> A
          [] c.f = "mpz_abs"       -> Absolute(A)
          [] c.f = "mpz_neg"       -> -A
          [] c.f = "mpz_com"       -> -A - 1
          [] c.f \in {"mpz_set_ui", "mpz_set_si"} -> k
          [] c.f = "mpz_init2"     -> 0
          [] c.f = "mpz_realloc2"  -> IF Words(R) <= 1 + ((Max({k, 1}) - 1) \div WordBits) THEN R ELSE 0
          [] c.f = "mpz_add"       -> A + Y
          [] c.f = "mpz_sub"       -> A - Y
          [] c.f = "mpz_add_ui"    -> A + k
          [] c.f = "mpz_sub_ui"    -> A - k
          [] c.f = "mpz_ui_sub"    -> k - A
          [] c.f = "mpz_mul"       -> A * Y
          [] c.f \in {"mpz_mul_ui", "mpz_mul_si"} -> A * k
          [] c.f = "mpz_mul_2exp"  -> A * 2 ^ k
          [] c.f = "mpz_addmul"    -> R + A * Y
          [] c.f = "mpz_submul"    -> R - A * Y
          [] c.f = "mpz_addmul_ui" -> R + A * k
          [] c.f = "mpz_submul_ui" -> R - A * k
          [] c.f = "mpz_mod"       -> A % Absolute(Y)
          [] c.f = "mpz_divexact"  -> Quotient(A, Y, "FLOOR")
          [] c.f = "mpz_divexact_ui" -> A \div k
          [] c.f = "mpz_div_q_2exp" -> Quotient(A, 2 ^ k, c.mode)
          [] c.f = "mpz_div_r_2exp" -> Remainder(A, 2 ^ k, c.mode)
          [] c.f = "mpz_gcd"       -> Gcd(A, Y)
          [] c.f = "mpz_lcm"       -> Lcm(A, Y)
          [] c.f = "mpz_lcm_ui"    -> Lcm(A, k)
          [] c.f = "mpz_setbit"    -> R + 2 ^ k * (1 - BitOf(R, k))
          [] c.f = "mpz_clrbit"    -> R - 2 ^ k * BitOf(R, k)
          [] c.f = "mpz_combit"    -> R + 2 ^ k * (1 - 2 * BitOf(R, k))
          [] c.f = "mpz_pow_ui"    -> Power(A, k)
          [] c.f = "mpz_ui_pow_ui" -> Power(k, c.j)
          [] c.f = "mpz_fac_ui"    -> Falling(k, k)
          [] c.f = "mpz_bin_uiui"  -> IF c.j > k THEN 0 ELSE Falling(k, c.j) \div Falling(c.j, c.j)
          [] c.f = "mpz_limbs_finish" -> (IF c.neg THEN -1 ELSE 1) * Number(c.limbs, 2 ^ WordBits)
          [] c.f = "mpz_import"    -> Number(c.bytes, 2 ^ ByteBits)

(* Functions that only return a result. *)

Returned(c, old) ==
    LET A == old[c.a]
        Y == old[c.b]
        k == c.k
    IN  CASE c.f = "mpz_sgn"          -> Sign(A)
          [] c.f = "mpz_odd_p"        -> A % 2
          [] c.f = "mpz_size"         -> Words(A)
          [] c.f = "mpz_fits_slong_p" -> Truth(A \in -(2 ^ (WordBits - 1)) .. 2 ^ (WordBits - 1) - 1)
          [] c.f = "mpz_fits_ulong_p" -> Truth(A \in 0 .. 2 ^ WordBits - 1)
          [] c.f = "mpz_get_ui"       -> Absolute(A) % 2 ^ WordBits
          [] c.f = "mpz_getlimbn"     -> (Absolute(A) \div 2 ^ (k * WordBits)) % 2 ^ WordBits
          [] c.f = "mpz_get_si"       -> IF A >= 0 THEN A % 2 ^ (WordBits - 1)
                                         ELSE -1 - ((-1 - A) % 2 ^ (WordBits - 1))
          [] c.f = "mpz_popcount"     -> Distance(0, A)
          [] c.f = "mpz_hamdist"      -> Distance(A, Y)
          [] c.f = "mpz_cmp"          -> Compare(A, Y)
          [] c.f = "mpz_cmpabs"       -> Compare(Absolute(A), Absolute(Y))
          [] c.f \in {"mpz_cmp_ui", "mpz_cmp_si"} -> Compare(A, k)
          [] c.f = "mpz_cmpabs_ui"    -> Compare(Absolute(A), k)
          [] c.f = "mpz_divisible_p"  -> Truth(Divides(Y, A))
          [] c.f = "mpz_congruent_p"  -> Truth(Divides(old[c.e], A - Y))
          [] c.f = "mpz_tstbit"       -> BitOf(A, k)
          [] c.f = "mpz_scan1"        -> ScanBit(A, k, 1)
          [] c.f = "mpz_scan0"        -> ScanBit(A, k, 0)
          [] c.f = "mpz_sizeinbase"   -> Len(Digits(Absolute(A), k))
          [] c.f = "mpz_perfect_square_p" -> Truth(\E x \in 0 .. 5000 : x * x = A)
          [] c.f = "mpz_divisible_ui_p" -> Truth(Divides(k, A))

(* The other functions, by the relation between old and new registers. *)

Related(c, old, new) ==
    LET A == old[c.a]
        Y == old[c.b]
        N == new[c.r]
        Wanted(x, y) == x # NoReg => new[x] = y
    IN  CASE c.f = "mpz_swap" -> new[c.r] = old[c.q] /\ new[c.q] = old[c.r]
          [] c.f = "mpz_and"  -> Bitwise2(N, A, Y, LAMBDA x, y : x * y)
          [] c.f = "mpz_ior"  -> Bitwise2(N, A, Y, LAMBDA x, y : Max({x, y}))
          [] c.f = "mpz_xor"  -> Bitwise2(N, A, Y, LAMBDA x, y : (x + y) % 2)
          [] c.f = "mpz_div_qr" ->
                /\ Wanted(c.q, Quotient(A, Y, c.mode)) /\ Wanted(c.r, Remainder(A, Y, c.mode))
          [] c.f = "mpz_div_qr_ui" ->
                /\ Wanted(c.q, Quotient(A, c.k, c.mode)) /\ Wanted(c.r, Remainder(A, c.k, c.mode))
                /\ c.res = Absolute(Remainder(A, c.k, c.mode))
          [] c.f = "mpz_gcd_ui" ->
                /\ Wanted(c.r, Gcd(A, c.k))
                /\ c.res = IF c.k = 0 THEN 0 ELSE Gcd(A, c.k)
          [] c.f = "mpz_gcdext" ->
                /\ N = Gcd(A, Y)
                /\ Divides(Y, N - A * new[c.s])
                /\ Wanted(c.t, IF Y = 0 THEN 0 ELSE Quotient(N - A * new[c.s], Y, "FLOOR"))
          [] c.f = "mpz_invert" ->
                LET ok == A # 0 /\ Absolute(Y) > 1 /\ Gcd(A, Y) = 1
                IN  /\ c.res = Truth(ok)
                    /\ IF ok THEN N \in 0 .. Absolute(Y) - 1 /\ Divides(Y, A * N - 1) ELSE N = old[c.r]
          [] c.f \in {"mpz_powm", "mpz_powm_ui"} ->
                LET e == IF c.f = "mpz_powm" THEN old[c.e] ELSE c.k
                    m == Absolute(Y)
                    p == PowMod(A % m, Absolute(e), m)
                IN  IF e = 0 THEN N = 1
                    ELSE N \in 0 .. m - 1 /\ IF e > 0 THEN N = p ELSE Divides(m, N * p - 1)
          [] c.f = "mpz_rootrem" ->
                LET x == new[c.q]
                IN  /\ Sign(A) * x >= 0
                    /\ Absolute(x) ^ c.k <= Absolute(A) /\ Absolute(A) < (Absolute(x) + 1) ^ c.k
                    /\ Wanted(c.r, A - x ^ c.k)
          [] c.f = "mpz_root" ->
                LET x == new[c.q]
                IN  /\ Sign(A) * x >= 0
                    /\ Absolute(x) ^ c.k <= Absolute(A) /\ Absolute(A) < (Absolute(x) + 1) ^ c.k
                    /\ c.res = Truth(A = x ^ c.k)
          [] c.f = "mpz_get_str" ->
                LET base == IF Absolute(c.base) <= 1 THEN 10 ELSE Absolute(c.base)
                IN  IF base > 36 THEN c.null
                    ELSE ~c.null /\ c.out = Signed10(A, Digits(Absolute(A), base))
          [] c.f = "mpz_set_str" ->
                IF c.valid THEN c.res = 0 /\ N = c.x ELSE c.res = -1 /\ N = 0
          [] c.f = "mpz_export" ->
                IF A = 0 THEN c.n = 0
                ELSE LET ds == Digits(Absolute(A), 2 ^ ByteBits)
                         n  == (Len(ds) + c.size - 1) \div c.size
                         padded == [i \in 1 .. n * c.size - Len(ds) |-> 0] \o ds
                     IN  c.n = n /\ c.out = Layout(padded, c.order, c.size, c.endian)

-----------------------------------------------------------------------------

\* The calls that have no result.
Undefined(c, old) ==
    \/ /\ c.f \in {"mpz_div_qr", "mpz_mod", "mpz_divexact", "mpz_divisible_p"}
       /\ old[c.b] = 0
    \/ /\ c.f \in {"mpz_powm", "mpz_powm_ui"}
       /\ \/ old[c.b] = 0
          \/ /\ c.f = "mpz_powm" /\ old[c.e] < 0
             /\ Absolute(old[c.b]) = 1 \/ old[c.a] = 0 \/ Gcd(old[c.a], old[c.b]) # 1
    \/ /\ c.f \in {"mpz_rootrem", "mpz_root"}
       /\ c.k = 0 \/ (c.k % 2 = 0 /\ old[c.a] < 0)

Destinations(c) == {c[x] : x \in {"q", "r", "s", "t"} \cap DOMAIN c}

Means(c, old, new) ==
    /\ \A v \in Regs \ Destinations(c) : new[v] = old[v]
    /\ CASE c.kind = "store"  -> new[c.r] = Stored(c, old)
         [] c.kind = "result" -> c.res = Returned(c, old)
         [] c.kind = "relate" -> Related(c, old, new)

Init == val \in [Regs -> Int] /\ count = 0 /\ dead = FALSE

Next == /\ ~dead
        /\ count' = count + 1
        /\ IF Undefined(call', val) THEN dead' ELSE ~dead' /\ Means(call', val, val')

Spec == Init /\ [][Next]_<<val, count, dead>>
=============================================================================
