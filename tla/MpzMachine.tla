----------------------------- MODULE MpzMachine -----------------------------
(***************************************************************************)
(* A program that calls the mpz functions of mini-gmp.h on three variables *)
(* x, y and z.  mem is the memory of LimbMem; call is the last call, in    *)
(* the form IntRegs describes; count is the number of calls so far.        *)
(*                                                                         *)
(* A run starts from variables that hold the values and the spare limbs of *)
(* Starts, as mpz_init2, mpz_realloc2 and the assignments leave them: limbs*)
(* above the value are unwritten.  The first operand of a call is x, the   *)
(* second x or y, the destination any variable, so every pattern of        *)
(* aliasing occurs up to a renaming of the variables.                      *)
(***************************************************************************)
EXTENDS MpzText

CONSTANTS Starts,      \* [x, y, z : values, spare : limbs allocated in excess, junk : limb]
          ULongs,      \* unsigned long arguments
          BitCounts,   \* mp_bitcnt_t arguments
          Bases,       \* bases of texts
          LimbBound,   \* limbs of a product (Value must stay a TLC integer)
          CallBound    \* calls in a run

VARIABLES mem, call, count

vars == <<mem, call, count>>

Regs == {"x", "y", "z"}
Locals == MpzLocals \cup DivLocals \cup GcdLocals \cup Range(GcdextLocals) \cup PowLocals
Dests == Regs \cup {NoVar}
SLongs == (ULongs \cup {-k : k \in ULongs}) \cap (-GMP_LIMB_HIGHBIT) .. (GMP_LIMB_HIGHBIT - 1)

RECURSIVE LimbsOf(_)
LimbsOf(x) == IF x = 0 THEN <<>> ELSE <<x % B>> \o LimbsOf(x \div B)

BlockOf == [x |-> 1, y |-> 2, z |-> 3]

\* The memory in which every variable holds st[v].
Memory(st) ==
    LET limbs == [v \in Regs |-> LimbsOf(GMP_ABS(st[v]))]
        alloc == [v \in Regs |-> Len(limbs[v]) + st.spare]
        held  == {v \in Regs : alloc[v] > 0}
    IN  [blk |-> [k \in 1 .. BlockBound |->
                     IF \E v \in held : BlockOf[v] = k
                     THEN LET v == CHOOSE v \in held : BlockOf[v] = k
                          IN  [i \in 0 .. alloc[v] - 1 |->
                                  IF i < Len(limbs[v]) THEN limbs[v][i + 1] ELSE st.junk]
                     ELSE NoBlock],
         z |-> [v \in Regs \cup Locals |->
                   IF v \in Regs THEN [alloc |-> alloc[v], size |-> Signed(st[v] < 0, Len(limbs[v])),
                                       d |-> IF v \in held THEN BlockOf[v] ELSE 0]
                   ELSE NoStruct],
         junk |-> st.junk, ok |-> TRUE, die |-> FALSE, ret |-> 0]

Init == /\ \E st \in Starts : mem = Memory(st)
        /\ call = [f |-> "none"]
        /\ count = 0

\* The reference: integers in place of limbs.
R == INSTANCE IntRegs WITH val <- [v \in Regs |-> Value(mem, v)], dead <- mem.die, NoReg <- NoVar,
                           WordBits <- LimbBits, ByteBits <- CHAR_BIT

-----------------------------------------------------------------------------
(* A call that stores to variables, one that returns a result, and one     *)
(* that does both.                                                         *)

Ready == ~mem.die /\ count < CallBound

Do(c, m) == /\ mem' = Ret(m, 0)
            /\ call' = c
            /\ count' = count + 1

Store(f, args, m) == Do([f |-> f, kind |-> "store"] @@ args, m)
Result(f, args, m, res) == Do([f |-> f, kind |-> "result", res |-> res] @@ args, m)
Query(f, args, m) == Result(f, args, m, m.ret)
Relate(f, args, m) == Do([f |-> f, kind |-> "relate", res |-> m.ret] @@ args, m)

Fits(a, b) == Num(mem, a) + Num(mem, b) <= LimbBound

-----------------------------------------------------------------------------

Assignments(r, a) ==
    LET ra == [r |-> r, a |-> a]
    IN  \/ Store("mpz_set", ra, mpz_set(mem, r, a))
        \/ Store("mpz_abs", ra, mpz_abs(mem, r, a))
        \/ Store("mpz_neg", ra, mpz_neg(mem, r, a))
        \/ Store("mpz_com", ra, mpz_com(mem, r, a))
        \/ Relate("mpz_swap", [r |-> r, q |-> a], mpz_swap(mem, r, a))
        \/ r # a /\ Store("mpz_init_set", ra, mpz_init_set(mpz_clear(mem, r), r, a))

Constants(r) ==
    \/ \E k \in ULongs : Store("mpz_set_ui", [r |-> r, k |-> k], mpz_set_ui(mem, r, k))
    \/ \E k \in SLongs : Store("mpz_set_si", [r |-> r, k |-> k], mpz_set_si(mem, r, k))
    \/ \E k \in BitCounts : Store("mpz_realloc2", [r |-> r, k |-> k], mpz_realloc2(mem, r, k))
    \/ \E k \in BitCounts : Store("mpz_init2", [r |-> r, k |-> k], mpz_init2(mpz_clear(mem, r), r, k))
    \/ \E k \in ULongs : k <= 10 /\ Store("mpz_fac_ui", [r |-> r, k |-> k], mpz_fac_ui(mem, r, k))
    \/ \E k, j \in ULongs :
          /\ k <= 10
          /\ Store("mpz_bin_uiui", [r |-> r, k |-> k, j |-> j], mpz_bin_uiui(mem, r, k, j))
    \/ \E k, j \in ULongs :
          /\ k <= 3 \/ j <= 3
          /\ k <= 1 \/ j <= 10
          /\ Store("mpz_ui_pow_ui", [r |-> r, k |-> k, j |-> j], mpz_ui_pow_ui(mem, r, k, j))

Sums(r, a, b) ==
    LET rab == [r |-> r, a |-> a, b |-> b]
    IN  \/ Store("mpz_add", rab, mpz_add(mem, r, a, b))
        \/ Store("mpz_sub", rab, mpz_sub(mem, r, a, b))

WordSums(r, a, k) ==
    LET rak == [r |-> r, a |-> a, k |-> k]
    IN  \/ Store("mpz_add_ui", rak, mpz_add_ui(mem, r, a, k))
        \/ Store("mpz_sub_ui", rak, mpz_sub_ui(mem, r, a, k))
        \/ Store("mpz_ui_sub", rak, mpz_ui_sub(mem, r, k, a))

Products(r, a, b) ==
    LET rab == [r |-> r, a |-> a, b |-> b]
    IN  /\ Fits(a, b)
        /\ \/ Store("mpz_mul", rab, mpz_mul(mem, r, a, b))
           \/ Store("mpz_addmul", rab, mpz_addmul(mem, r, a, b))
           \/ Store("mpz_submul", rab, mpz_submul(mem, r, a, b))

WordProducts(r, a, k) ==
    LET rak == [r |-> r, a |-> a, k |-> k]
    IN  \/ Store("mpz_mul_ui", rak, mpz_mul_ui(mem, r, a, k))
        \/ k \in SLongs /\ Store("mpz_mul_si", rak, mpz_mul_si(mem, r, a, k))
        \/ -k \in SLongs /\ Store("mpz_mul_si", [rak EXCEPT !.k = -k], mpz_mul_si(mem, r, a, -k))
        \/ Store("mpz_addmul_ui", rak, mpz_addmul_ui(mem, r, a, k))
        \/ Store("mpz_submul_ui", rak, mpz_submul_ui(mem, r, a, k))

Shifts(r, a, k) ==
    LET rak == [r |-> r, a |-> a, k |-> k]
    IN  \/ /\ Num(mem, a) * LimbBits + k <= LimbBound * LimbBits
           /\ Store("mpz_mul_2exp", rak, mpz_mul_2exp(mem, r, a, k))
        \/ \E mode \in Modes :
              Store("mpz_div_q_2exp", [mode |-> mode] @@ rak, mpz_div_q_2exp(mem, r, a, k, mode))
        \/ \E mode \in Modes :
              Store("mpz_div_r_2exp", [mode |-> mode] @@ rak, mpz_div_r_2exp(mem, r, a, k, mode))

\* Quotient and remainder go to different variables.
Divisions(q, r, a, b) ==
    LET qr == [q |-> q, r |-> r, a |-> a, b |-> b]
    IN  /\ q # r \/ q = NoVar
        /\ \E mode \in Modes :
              Relate("mpz_div_qr", [mode |-> mode] @@ qr, mpz_div_qr(mem, q, r, a, b, mode))

WordDivisions(q, r, a, k) ==
    LET qr == [q |-> q, r |-> r, a |-> a, k |-> k]
    IN  /\ k > 0
        /\ q # r \/ q = NoVar
        /\ \E mode \in Modes :
              Relate("mpz_div_qr_ui", [mode |-> mode] @@ qr, mpz_div_qr_ui(mem, q, r, a, k, mode))

ExactDivisions(r, a, b) ==
    LET rab == [r |-> r, a |-> a, b |-> b]
    IN  \/ Store("mpz_mod", rab, mpz_mod(mem, r, a, b))
        \/ /\ R!Divides(Value(mem, b), Value(mem, a))
           /\ Store("mpz_divexact", rab, mpz_divexact(mem, r, a, b))
        \/ \E k \in ULongs \ {0} :
              /\ Value(mem, a) % k = 0
              /\ Store("mpz_divexact_ui", [r |-> r, a |-> a, k |-> k], mpz_divexact_ui(mem, r, a, k))

Divisors(r, a, b) ==
    LET rab == [r |-> r, a |-> a, b |-> b]
    IN  /\ Fits(a, b)
        /\ \/ Store("mpz_gcd", rab, mpz_gcd(mem, r, a, b))
           \/ Store("mpz_lcm", rab, mpz_lcm(mem, r, a, b))
           \/ Relate("mpz_invert", rab, mpz_invert(mem, r, a, b))
           \/ \E s \in Regs \ {r} : \E t \in Dests \ {r, s} :
                 Relate("mpz_gcdext", [s |-> s, t |-> t] @@ rab, mpz_gcdext(mem, r, s, t, a, b))

WordDivisors(r, a, k) ==
    LET rak == [r |-> r, a |-> a, k |-> k]
    IN  \/ Store("mpz_lcm_ui", rak, mpz_lcm_ui(mem, r, a, k))
        \/ Relate("mpz_gcd_ui", rak, mpz_gcd_ui(mem, r, a, k))
        \/ Relate("mpz_gcd_ui", [rak EXCEPT !.r = NoVar], mpz_gcd_ui(mem, NoVar, a, k))

Powers(r, a, b) ==
    \/ \E k \in ULongs :
          /\ k <= 10
          /\ k * Num(mem, a) <= LimbBound \/ Value(mem, a) \in -3 .. 3
          /\ Store("mpz_pow_ui", [r |-> r, a |-> a, k |-> k], mpz_pow_ui(mem, r, a, k))
    \/ /\ 2 * Num(mem, b) <= LimbBound
       /\ \E e \in Regs :
             Relate("mpz_powm", [r |-> r, a |-> a, e |-> e, b |-> b], mpz_powm(mem, r, a, e, b))
    \/ /\ 2 * Num(mem, b) <= LimbBound
       /\ \E k \in ULongs :
             Relate("mpz_powm_ui", [r |-> r, a |-> a, k |-> k, b |-> b], mpz_powm_ui(mem, r, a, k, b))

Roots(q, r, a) ==
    \E k \in ULongs :
        /\ k <= 7
        /\ \/ /\ q # r
              /\ Relate("mpz_rootrem", [q |-> q, r |-> r, a |-> a, k |-> k], mpz_rootrem(mem, q, r, a, k))
           \/ Relate("mpz_root", [q |-> q, a |-> a, k |-> k], mpz_root(mem, q, a, k))

Logic(r, a, b) ==
    LET rab == [r |-> r, a |-> a, b |-> b]
    IN  \/ Relate("mpz_and", rab, mpz_and(mem, r, a, b))
        \/ Relate("mpz_ior", rab, mpz_ior(mem, r, a, b))
        \/ Relate("mpz_xor", rab, mpz_xor(mem, r, a, b))

Bits(r, k) ==
    \/ Store("mpz_setbit", [r |-> r, k |-> k], mpz_setbit(mem, r, k))
    \/ Store("mpz_clrbit", [r |-> r, k |-> k], mpz_clrbit(mem, r, k))
    \/ Store("mpz_combit", [r |-> r, k |-> k], mpz_combit(mem, r, k))

Comparisons(a, b) ==
    LET ab == [a |-> a, b |-> b]
    IN  \/ Result("mpz_cmp", ab, mem, mpz_cmp(mem, a, b))
        \/ Result("mpz_cmpabs", ab, mem, mpz_cmpabs(mem, a, b))
        \/ Query("mpz_hamdist", ab, mpz_hamdist(mem, a, b))
        \/ Query("mpz_divisible_p", ab, mpz_divisible_p(mem, a, b))
        \/ \E e \in Regs : Query("mpz_congruent_p", [e |-> e] @@ ab, mpz_congruent_p(mem, a, b, e))

WordComparisons(a, k) ==
    LET ak == [a |-> a, k |-> k]
    IN  \/ Result("mpz_cmp_ui", ak, mem, mpz_cmp_ui(mem, a, k))
        \/ k \in SLongs /\ Result("mpz_cmp_si", ak, mem, mpz_cmp_si(mem, a, k))
        \/ -k \in SLongs /\ Result("mpz_cmp_si", [ak EXCEPT !.k = -k], mem, mpz_cmp_si(mem, a, -k))
        \/ Result("mpz_cmpabs_ui", ak, mem, mpz_cmpabs_ui(mem, a, k))
        \/ k > 0 /\ Result("mpz_divisible_ui_p", ak, mem, Bit(mpz_tdiv_ui(mem, a, k) = 0))

Queries(a) ==
    \/ Result("mpz_sgn", [a |-> a], mem, mpz_sgn(mem, a))
    \/ Result("mpz_odd_p", [a |-> a], mem, Bit(mpz_odd_p(mem, a)))
    \/ Result("mpz_size", [a |-> a], mem, Num(mem, a))
    \/ Result("mpz_fits_slong_p", [a |-> a], mem, Bit(mpz_fits_slong_p(mem, a)))
    \/ Result("mpz_fits_ulong_p", [a |-> a], mem, Bit(mpz_fits_ulong_p(mem, a)))
    \/ Result("mpz_get_ui", [a |-> a], mem, mpz_get_ui(mem, a))
    \/ Result("mpz_get_si", [a |-> a], mem, mpz_get_si(mem, a))
    \/ \E k \in 0 .. 4 : Result("mpz_getlimbn", [a |-> a, k |-> k], mem, mpz_getlimbn(mem, a, k))
    \/ Result("mpz_popcount", [a |-> a], mem, mpz_popcount(mem, a))
    \/ Query("mpz_perfect_square_p", [a |-> a], mpz_perfect_square_p(mem, a))
    \/ \E k \in BitCounts :
          \/ Result("mpz_tstbit", [a |-> a, k |-> k], mem, mpz_tstbit(mem, a, k))
          \/ Query("mpz_scan1", [a |-> a, k |-> k], mpz_scan1(mem, a, k))
          \/ Query("mpz_scan0", [a |-> a, k |-> k], mpz_scan0(mem, a, k))
    \/ \E base \in Bases : Query("mpz_sizeinbase", [a |-> a, k |-> base], mpz_sizeinbase(mem, a, base))

-----------------------------------------------------------------------------
(* Texts and words.  The texts given to mpz_set_str are ways to write the  *)
(* value of a variable, or are malformed.                                  *)

RadixPrefixes == {<<>>, <<0>>, <<0, LetterX>>, <<0, LetterB>>}

Malformed(base) ==
    {<<>>, <<Space>>, <<Minus>>, <<Space, Minus, Space>>, <<1, Other>>, <<1, Minus>>, <<1, base>>}
    \cup IF base = 0 THEN {<<0, LetterX>>, <<0, LetterB, 2>>, <<0, 8>>} ELSE {}

Text(a, base, g) == Relate("mpz_get_str", [a |-> a, base |-> base, null |-> g.null, out |-> g.out], g.m)

GetStr(a) ==
    \E base \in Bases \cup {-b : b \in Bases} \cup {0, 37} : Text(a, base, mpz_get_str(mem, base, a))

SetStr(r, a) ==
    \E base \in Bases \cup {0} : \E pre \in IF base = 0 THEN RadixPrefixes ELSE {<<>>} :
        \E lead \in {0, 2}, gap \in BOOLEAN :
            Relate("mpz_set_str", [r |-> r, base |-> base, x |-> Value(mem, a), valid |-> TRUE],
                   mpz_set_str(mem, r, R!Written(Value(mem, a), base, pre, lead, gap), base))

SetBadStr(r) ==
    \E base \in Bases \cup {0} : \E sp \in Malformed(base) :
        /\ ~(base = 0 /\ sp = <<1, base>>)
        /\ Relate("mpz_set_str", [r |-> r, base |-> base, sp |-> sp, valid |-> FALSE],
                  mpz_set_str(mem, r, sp, base))

\* The value of a, in enough bytes and in one zero word more.
Import(r, a) ==
    \E order \in {1, -1}, size \in 1 .. 3, endian \in {1, 0, -1}, more \in {0, 1} :
        LET ds == R!Digits(GMP_ABS(Value(mem, a)), 2 ^ CHAR_BIT)
            n  == (Len(ds) + size - 1) \div size + more
            bytes == [i \in 1 .. n * size - Len(ds) |-> 0] \o ds
            src == R!Layout(bytes, order, size, Endian(endian))
        IN  Store("mpz_import", [r |-> r, bytes |-> bytes],
                  mpz_import(mem, r, n, order, size, endian, src))

Export(a) ==
    \E order \in {1, -1}, size \in 1 .. 4, endian \in {1, 0, -1} :
        LET g == mpz_export(mem, order, size, endian, a)
        IN  Relate("mpz_export", [a |-> a, order |-> order, size |-> size, endian |-> Endian(endian),
                                  n |-> g.count, out |-> g.out], g.m)

\* mpz_limbs_write, stores through the pointer and mpz_limbs_finish.
Limbs_(r) ==
    \E limbs \in {<<0>>, <<0, 0>>, <<5, 0>>, <<0, B - 1>>, <<1, 2, 3>>}, neg \in BOOLEAN :
        LET n  == Len(limbs)
            m0 == MPZ_REALLOC(mem, r, n)
            m1 == For(n, m0, LAMBDA m, i : St(m, Ptr(m, r), i, limbs[n - i]))
        IN  Store("mpz_limbs_finish", [r |-> r, limbs |-> limbs, neg |-> neg],
                  mpz_limbs_finish(m1, r, Signed(neg, n)))

-----------------------------------------------------------------------------

Next ==
    /\ Ready
    /\ \/ \E r \in Regs : \/ Assignments(r, "x") \/ Constants(r) \/ Limbs_(r)
                          \/ SetStr(r, "x") \/ SetBadStr(r) \/ Import(r, "x")
       \/ \E r \in Regs, b \in {"x", "y"} :
             \/ Sums(r, "x", b) \/ Products(r, "x", b) \/ ExactDivisions(r, "x", b)
             \/ Divisors(r, "x", b) \/ Powers(r, "x", b) \/ Logic(r, "x", b)
       \/ \E r \in Regs, k \in ULongs : WordSums(r, "x", k) \/ WordProducts(r, "x", k) \/ WordDivisors(r, "x", k)
       \/ \E r \in Regs, k \in BitCounts : Shifts(r, "x", k) \/ Bits(r, k)
       \/ \E q, r \in Dests, b \in {"x", "y"} : Divisions(q, r, "x", b)
       \/ \E q, r \in Dests, k \in ULongs : WordDivisions(q, r, "x", k)
       \/ \E q, r \in Regs : Roots(q, r, "x")
       \/ \E b \in {"x", "y"} : Comparisons("x", b)
       \/ \E k \in ULongs : WordComparisons("x", k)
       \/ Queries("x") \/ GetStr("x") \/ Export("x")

Spec == Init /\ [][Next]_vars

-----------------------------------------------------------------------------
(* Properties. *)

\* Every call of a mini-gmp function computes what its mathematical meaning
\* says, whatever the overlap of destination and operands and whatever the
\* limbs above a value hold; it leaves other variables alone, and it aborts
\* (gmp_die) exactly when there is no result.
ImplementsIntegers == R!Spec

\* Every variable stays canonical: its limbs are within the allocation, which
\* is the length of its block, and the highest one is not zero.
Canonical ==
    ~mem.die => \A v \in Regs :
        /\ Num(mem, v) <= mem.z[v].alloc
        /\ mem.z[v].alloc > 0 => DOMAIN mem.blk[mem.z[v].d] = 0 .. mem.z[v].alloc - 1
        /\ Num(mem, v) > 0 => Limb(mem, v, Num(mem, v) - 1) # 0

\* No call stores outside a live block, frees one twice, or fails an assert.
NoFault == mem.ok

\* When a call returns its temporaries are gone and every block belongs to
\* exactly one variable: nothing leaks, and no two variables share limbs.
BlocksOwned ==
    ~mem.die => /\ \A v \in Locals : mem.z[v] = NoStruct
                /\ \A k \in 1 .. BlockBound :
                      mem.blk[k] # NoBlock => Cardinality({v \in Regs : mem.z[v].d = k}) = 1
=============================================================================
