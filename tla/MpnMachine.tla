----------------------------- MODULE MpnMachine -----------------------------
(***************************************************************************)
(* A program that calls the mpn functions of mini-gmp.h, and the macros    *)
(* under them, on arrays of limbs: a of AN limbs, b of BN limbs and out,   *)
(* which nobody wrote yet.  Where the mpz functions rely on an overlap of  *)
(* destination and operand, the calls overlap in the same way.             *)
(*                                                                         *)
(* call is the last call: its function f, the source arrays (a, n) and     *)
(* (b, k), a word v, the destination (r, rn) and the result ret.           *)
(***************************************************************************)
EXTENDS MpzPow

CONSTANTS AN, BN,            \* limbs of the two arrays
          ALimbs, BLimbs,    \* the limbs they hold
          Words              \* one-word arguments

VARIABLES mem, call

vars == <<mem, call>>

ap == <<1, 0>>
bp == <<2, 0>>
out == <<3, 0>>

Locals == {"mpz_mul.t"} \cup DivLocals \cup PowLocals

Init ==
    /\ \E a \in [0 .. AN - 1 -> ALimbs], b \in [0 .. BN - 1 -> BLimbs] :
          mem = [blk |-> [k \in 1 .. BlockBound |->
                             CASE k = 1 -> a
                               [] k = 2 -> b
                               [] k = 3 -> [i \in 0 .. AN + BN - 1 |-> B - 1]
                               [] OTHER -> NoBlock],
                 z |-> [v \in Locals |-> NoStruct],
                 junk |-> B - 1, ok |-> TRUE, die |-> FALSE, ret |-> 0]
    /\ call = [f |-> "none"]

\* A call that returns a word through ret of the memory m.
Call(f, a, n, b, k, v, r, rn, m) ==
    /\ mem' = Ret(m, 0)
    /\ call' = [f |-> f, a |-> a, n |-> n, b |-> b, k |-> k, v |-> v, r |-> r, rn |-> rn, ret |-> m.ret]

\* One that only reads.
Ask(f, a, n, b, k, v, res) == Call(f, a, n, b, k, v, NULL, 0, Ret(mem, res))

-----------------------------------------------------------------------------

\* Towards lower addresses from the low end, towards higher ones from the high end.
Copies(n, k) ==
    LET up == At(ap, k)
    IN  \/ Call("mpn_copyi", up, n, NULL, 0, 0, ap, n, mpn_copyi(mem, ap, up, n))
        \/ Call("mpn_copyd", ap, n, NULL, 0, 0, up, n, mpn_copyd(mem, up, ap, n))
        \/ Call("mpn_zero", NULL, 0, NULL, 0, 0, up, n, mpn_zero(mem, up, n))

Shifts(n, k, c) ==
    LET up == At(ap, k)
    IN  \/ Call("mpn_rshift", up, n, NULL, 0, c, ap, n, mpn_rshift(mem, ap, up, n, c))
        \/ Call("mpn_lshift", ap, n, NULL, 0, c, up, n, mpn_lshift(mem, up, ap, n, c))

\* The destination is the operand or another array.
WordSteps(r, n, v) ==
    \/ Call("mpn_add_1", ap, n, NULL, 0, v, r, n, mpn_add_1(mem, r, ap, n, v))
    \/ Call("mpn_sub_1", ap, n, NULL, 0, v, r, n, mpn_sub_1(mem, r, ap, n, v))
    \/ Call("mpn_mul_1", ap, n, NULL, 0, v, r, n, mpn_mul_1(mem, r, ap, n, v))
    \/ Call("mpn_addmul_1", ap, n, NULL, 0, v, r, n, mpn_addmul_1(mem, r, ap, n, v))
    \/ Call("mpn_submul_1", ap, n, NULL, 0, v, r, n, mpn_submul_1(mem, r, ap, n, v))

Sums(r, n, k) ==
    \/ Call("mpn_add", ap, n, bp, k, 0, r, n, mpn_add(mem, r, ap, n, bp, k))
    \/ Call("mpn_sub", ap, n, bp, k, 0, r, n, mpn_sub(mem, r, ap, n, bp, k))

Complements(r, n) ==
    \/ Call("mpn_com", ap, n, NULL, 0, 0, r, n, mpn_com(mem, r, ap, n))
    \/ Call("mpn_neg", ap, n, NULL, 0, 0, r, n, mpn_neg(mem, r, ap, n))

Product(n, k) == Call("mpn_mul", ap, n, bp, k, 0, out, n + k, mpn_mul(mem, out, ap, n, bp, k))

\* The divisor's high limb is not zero; the remainder replaces the numerator.
Division(q, n, k) ==
    /\ Ld(mem, bp, k - 1) # 0
    /\ Call("mpn_div_qr", ap, n, bp, k, 0, q, IF q = NULL THEN 0 ELSE n - k + 1,
            mpn_div_qr(mem, q, ap, n, bp, k))

WordDivision(q, n, v) ==
    /\ v # 0
    /\ Call("mpn_div_qr_1", ap, n, NULL, 0, v, q, IF q = NULL THEN 0 ELSE n, mpn_div_qr_1(mem, q, ap, n, v))

SquareRoot(n) ==
    /\ Ld(mem, ap, n - 1) # 0
    /\ Call("mpn_sqrtrem", ap, n, bp, BN, 0, out, (n + 1) \div 2, mpn_sqrtrem(mem, out, bp, ap, n))

Comparisons(n, k) ==
    \/ Ask("mpn_cmp", ap, k, bp, k, 0, mpn_cmp(mem, ap, bp, k))
    \/ /\ Ld(mem, ap, n - 1) # 0 /\ Ld(mem, bp, k - 1) # 0
       /\ Ask("mpn_cmp4", ap, n, bp, k, 0, mpn_cmp4(mem, ap, n, bp, k))

Scans(n) ==
    \/ Ask("mpn_zero_p", ap, n, NULL, 0, 0, Bit(mpn_zero_p(mem, ap, n)))
    \/ Ask("mpn_popcount", ap, n, NULL, 0, 0, mpn_popcount(mem, ap, n))
    \/ \E v \in 0 .. n * LimbBits - 1, bit \in 0 .. 1 :
          /\ \E i \in v .. n * LimbBits - 1 : Shr(Ld(mem, ap, i \div LimbBits), i % LimbBits) % 2 = bit
          /\ Call(IF bit = 1 THEN "mpn_scan1" ELSE "mpn_scan0", ap, n, NULL, 0, v, NULL, 0,
                  IF bit = 1 THEN mpn_scan1(mem, ap, v) ELSE mpn_scan0(mem, ap, v))

-----------------------------------------------------------------------------
(* Macros and helpers on words; u and v are limbs of the arrays. *)

Word(f, args, res) ==
    /\ call' = [f |-> f, r |-> NULL, rn |-> 0, a |-> NULL, n |-> 0, k |-> 0, w |-> args, ret |-> res]
    /\ UNCHANGED mem

WordOps(u, v) ==
    \/ Word("gmp_umul_ppmm", <<u, v>>, gmp_umul_ppmm(u, v))
    \/ \E c \in 1 .. LimbBits - 1 : Word("lsld64", <<u, c>>, lsld64(u, 2 ^ c))
    \/ u + v > 0 /\ Word("mpn_gcd_11", <<u, v>>, mpn_gcd_11(mem, u, v).ret)
    \/ \E w \in Words : Word("add64_3", <<u, v, w>>, add64_3(u, v, w))
    \/ \E c \in 0 .. 1 : Word("add64_with_carry", <<u, v, c>>, add64_with_carry(u, v, c))
    \/ \E c \in 0 .. 1 : Word("sub64_with_borrow", <<u, v, c>>, sub64_with_borrow(u, v, c))

\* d1 has its high bit set and the numerator is less than the divisor times B.
WordDivisions(n2, n1, n0, d1, d0) ==
    /\ d1 >= GMP_LIMB_HIGHBIT
    /\ \/ Word("mpn_invert_3by2", <<d1, d0>>, mpn_invert_3by2(d1, d0))
       \/ /\ n1 < d1
          /\ Word("gmp_udiv_qrnnd_preinv", <<n1, n0, d1>>,
                  gmp_udiv_qrnnd_preinv(n1, n0, d1, mpn_invert_limb(d1)))
       \/ n1 < d1 /\ Word("div64_2by1", <<n1, n0, d1>>, div64_2by1(n0, n1, d1))
       \/ /\ n2 * B + n1 < d1 * B + d0
          /\ Word("gmp_udiv_qr_3by2", <<n2, n1, n0, d1, d0>>,
                  gmp_udiv_qr_3by2(n2, n1, n0, d1, d0, mpn_invert_3by2(d1, d0)))

-----------------------------------------------------------------------------

Next ==
    /\ call.f = "none"
    /\ \/ \E n \in 1 .. AN, k \in 0 .. AN - 1 :
             n + k <= AN /\ (Copies(n, k) \/ \E c \in 1 .. LimbBits - 1 : Shifts(n, k, c))
       \/ \E r \in {ap, out}, n \in 1 .. AN :
             \/ Complements(r, n)
             \/ \E v \in Words : WordSteps(r, n, v)
             \/ \E k \in 1 .. BN : k <= n /\ Sums(r, n, k)
       \/ \E n \in 1 .. BN, k \in 1 .. BN : k <= n /\ Sums(bp, n, k)
       \/ \E n \in 1 .. AN, k \in 1 .. BN :
             k <= n /\ (Product(n, k) \/ Comparisons(n, k) \/ \E q \in {NULL, out} : Division(q, n, k))
       \/ \E q \in {NULL, ap, out}, n \in 1 .. AN, v \in Words : WordDivision(q, n, v)
       \/ Scans(AN) \/ \E n \in 1 .. AN : SquareRoot(n)
       \/ WordOps(Ld(mem, ap, 0), Ld(mem, bp, 0))
       \/ WordDivisions(Ld(mem, ap, 2), Ld(mem, ap, 1), Ld(mem, ap, 0), Ld(mem, bp, 1), Ld(mem, bp, 0))

Spec == Init /\ [][Next]_vars

-----------------------------------------------------------------------------
(* Properties. *)

\* What a function of mini-gmp leaves in the limbs of its destination (R) and
\* returns, in terms of the values of its operands before the call.
Stored(c, m, new) ==
    LET A  == ValueN(m, c.a, c.n)
        Y  == ValueN(m, c.b, c.k)
        R0 == ValueN(m, c.r, c.rn)
        R  == ValueN(new, c.r, c.rn)
        W  == B ^ c.n
    IN  CASE c.f \in {"mpn_copyi", "mpn_copyd"} -> R = A
          [] c.f = "mpn_zero"     -> R = 0
          [] c.f = "mpn_lshift"   -> R + W * c.ret = A * 2 ^ c.v
          [] c.f = "mpn_rshift"   -> R * B + c.ret = A * 2 ^ (LimbBits - c.v)
          [] c.f = "mpn_add_1"    -> R + W * c.ret = A + c.v
          [] c.f = "mpn_sub_1"    -> R = A - c.v + W * c.ret
          [] c.f = "mpn_mul_1"    -> R + W * c.ret = A * c.v
          [] c.f = "mpn_addmul_1" -> R + W * c.ret = R0 + A * c.v
          [] c.f = "mpn_submul_1" -> R = R0 - A * c.v + W * c.ret
          [] c.f = "mpn_add"      -> R + W * c.ret = A + Y
          [] c.f = "mpn_sub"      -> R = A - Y + W * c.ret
          [] c.f = "mpn_com"      -> R = W - 1 - A
          [] c.f = "mpn_neg"      -> R + A = W * c.ret
          [] c.f = "mpn_mul"      -> R = A * Y
          [] c.f = "mpn_div_qr"   -> /\ c.r # NULL => R = A \div Y
                                     /\ ValueN(new, c.a, c.k) = A % Y
          [] c.f = "mpn_div_qr_1" -> /\ c.r # NULL => R = A \div c.v
                                     /\ c.ret = A % c.v
          [] c.f = "mpn_sqrtrem"  -> LET rest == ValueN(new, c.b, c.ret)
                                     IN  R * R + rest = A /\ rest <= 2 * R
          [] c.f \in {"mpn_cmp", "mpn_cmp4"} -> c.ret = GMP_CMP(A, Y)
          [] c.f = "mpn_zero_p"   -> c.ret = Bit(A = 0)
          [] c.f = "mpn_popcount" -> c.ret = Cardinality({i \in 0 .. c.n * LimbBits - 1 : (A \div 2 ^ i) % 2 = 1})
          [] c.f = "mpn_scan1"    -> /\ (A \div 2 ^ c.ret) % 2 = 1 /\ c.ret >= c.v
                                     /\ \A i \in c.v .. c.ret - 1 : (A \div 2 ^ i) % 2 = 0
          [] c.f = "mpn_scan0"    -> /\ (A \div 2 ^ c.ret) % 2 = 0 /\ c.ret >= c.v
                                     /\ \A i \in c.v .. c.ret - 1 : (A \div 2 ^ i) % 2 = 1

\* The same for the macros on words.
Computed(f, w, ret) ==
    CASE f = "gmp_umul_ppmm"     -> ret.hi * B + ret.lo = w[1] * w[2]
      [] f = "lsld64"            -> ret.hi * B + ret.lo = w[1] * 2 ^ w[2]
      [] f = "mpn_gcd_11"        -> ret = Max({d \in 1 .. B - 1 : w[1] % d = 0 /\ w[2] % d = 0})
      [] f \in {"add64_3", "add64_with_carry"} -> ret.cy * B + ret.limb = w[1] + w[2] + w[3]
      [] f = "sub64_with_borrow" -> ret.limb = w[1] - w[2] - w[3] + ret.cy * B
      [] f = "mpn_invert_3by2"   -> ret = (B ^ 3 - 1) \div (w[1] * B + w[2]) - B
      [] f = "gmp_udiv_qrnnd_preinv" -> w[1] * B + w[2] = ret.q * w[3] + ret.r /\ ret.r < w[3]
      [] f = "div64_2by1"        -> ret = (w[1] * B + w[2]) \div w[3]
      [] f = "gmp_udiv_qr_3by2"  -> LET d == w[4] * B + w[5]
                                        r == ret.r1 * B + ret.r0
                                    IN  w[1] * B * B + w[2] * B + w[3] = ret.q * d + r /\ r < d

\* Every mpn function computes the exact result, carries, borrows and
\* remainders included, also where its destination overlaps an operand.
ExactLimbs ==
    [][IF "w" \in DOMAIN call' THEN Computed(call'.f, call'.w, call'.ret) ELSE Stored(call', mem, mem')]_vars

\* The limbs a call may write: those of its destination; a division also
\* overwrites the numerator, mpn_sqrtrem the limbs of its remainder.
Writable(c) ==
    {<<c.r[1], c.r[2] + i>> : i \in 0 .. c.rn - 1} \cup
    (CASE c.f = "mpn_div_qr"  -> {<<c.a[1], c.a[2] + i>> : i \in 0 .. c.n - 1}
       [] c.f = "mpn_sqrtrem" -> {<<c.b[1], c.b[2] + i>> : i \in 0 .. c.ret - 1}
       [] OTHER -> {})

\* A call writes nothing but its destination: operands survive, no limb before
\* or after the destination changes, every temporary block is freed and every
\* local struct is gone; it stores nowhere outside a live block and fails no
\* assert.
Frame ==
    [][/\ mem'.ok /\ \A v \in Locals : mem'.z[v] = NoStruct
       /\ \A k \in 1 .. BlockBound :
             /\ DOMAIN mem'.blk[k] = DOMAIN mem.blk[k]
             /\ \A i \in DOMAIN mem.blk[k] :
                   <<k, i>> \in Writable(call') \/ mem'.blk[k][i] = mem.blk[k][i]]_vars
=============================================================================
