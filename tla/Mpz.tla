-------------------------------- MODULE Mpz ---------------------------------
(***************************************************************************)
(* The mpz layer of mini-gmp.c: signed integers with automatic allocation. *)
(* M.z maps the name of every mpz_t in scope, variables of the caller and  *)
(* locals of the library alike, to its struct; alloc = 0 goes with the     *)
(* constant dummy limb, which no block holds.  Arguments are names, so the *)
(* destination of a call may be one of its operands.  NoVar is a NULL      *)
(* mpz_t.  Locals carry the name of their function.                        *)
(***************************************************************************)
EXTENDS MpnDiv

NoVar == "NULL"

\* An mpz_t that is out of scope.
NoStruct == [alloc |-> 0, size |-> 0, d |-> -1]

GMP_ABS(x) == IF x >= 0 THEN x ELSE -x
GMP_CMP(a, b) == Bit(a > b) - Bit(a < b)
Signed(neg, n) == IF neg THEN -n ELSE n

Siz(M, v) == M.z[v].size
Num(M, v) == GMP_ABS(Siz(M, v))
Ptr(M, v) == <<M.z[v].d, 0>>
Limb(M, v, i) == Ld(M, Ptr(M, v), i)
SetSize(M, v, s) == IF v = NoVar THEN M ELSE [M EXCEPT !.z[v].size = s]
SameSign(M, a, b) == (Siz(M, a) < 0) = (Siz(M, b) < 0)

\* The operand with more limbs, and the other.
Longer(M, u, v) == IF Num(M, u) < Num(M, v) THEN v ELSE u
Shorter(M, u, v) == IF Num(M, u) < Num(M, v) THEN u ELSE v

\* A store through an mpz_t that may be NULL.
Opt(M, v, m) == IF v = NoVar THEN M ELSE m

-----------------------------------------------------------------------------
(* Initialisation and allocation. *)

mpz_init(M, r) == [M EXCEPT !.z[r] = [alloc |-> 0, size |-> 0, d |-> 0]]

LimbsFor(bits) == 1 + (bits - Bit(bits # 0)) \div LimbBits

mpz_init2(M, r, bits) ==
    Let(gmp_xalloc_limbs(M, LimbsFor(bits)), LAMBDA m :
        [m EXCEPT !.z[r] = [alloc |-> LimbsFor(bits), size |-> 0, d |-> m.ret]])

mpz_clear(M, r) ==
    Let(IF M.z[r].alloc > 0 THEN gmp_free(M, M.z[r].d) ELSE M, LAMBDA m : [m EXCEPT !.z[r] = NoStruct])

mpz_realloc(M, r, size0) ==
    Let(Max({size0, 1}), LAMBDA size :
    Let(IF M.z[r].alloc > 0 THEN gmp_xrealloc_limbs(M, M.z[r].d, size) ELSE gmp_xalloc_limbs(M, size), LAMBDA m :
        [m EXCEPT !.z[r] = [alloc |-> size, d |-> m.ret,
                            size |-> IF GMP_ABS(@.size) > size THEN 0 ELSE @.size]]))

MPZ_REALLOC(M, r, n) == IF n > M.z[r].alloc THEN mpz_realloc(M, r, n) ELSE M

mpz_realloc2(M, x, n) == mpz_realloc(M, x, LimbsFor(n))

mpz_swap(M, u, v) == [M EXCEPT !.z = [@ EXCEPT ![u] = M.z[v], ![v] = M.z[u]]]

-----------------------------------------------------------------------------
(* Assignment and conversions. *)

\* MPZ_REALLOC (r, 1)[0] = x
StoreLimb(M, r, x) == Let(MPZ_REALLOC(M, r, 1), LAMBDA m : St(m, Ptr(m, r), 0, x))

mpz_set_ui(M, r, x) ==
    IF x > 0 THEN StoreLimb(SetSize(M, r, 1), r, x) ELSE SetSize(M, r, 0)

mpz_set_si(M, r, x) ==
    IF x >= 0 THEN mpz_set_ui(M, r, x) ELSE StoreLimb(SetSize(M, r, -1), r, Wrap(-x))

mpz_set(M, r, x) ==
    IF r = x THEN M
    ELSE Let(MPZ_REALLOC(M, r, Num(M, x)), LAMBDA m :
             SetSize(mpn_copyi(m, Ptr(m, r), Ptr(m, x), Num(m, x)), r, Siz(m, x)))

mpz_init_set_ui(M, r, x) == mpz_set_ui(mpz_init(M, r), r, x)
mpz_init_set(M, r, x) == mpz_set(mpz_init(M, r), r, x)

mpz_fits_slong_p(M, u) ==
    CASE Siz(M, u) = 1  -> Limb(M, u, 0) < GMP_LIMB_HIGHBIT
      [] Siz(M, u) = -1 -> Limb(M, u, 0) <= GMP_LIMB_HIGHBIT
      [] OTHER          -> Siz(M, u) = 0

mpz_fits_ulong_p(M, u) == Siz(M, u) = Bit(Siz(M, u) > 0)

mpz_get_ui(M, u) == IF Siz(M, u) = 0 THEN 0 ELSE Limb(M, u, 0)

mpz_get_si(M, u) ==
    IF Siz(M, u) < 0 THEN -1 - (Wrap(Limb(M, u, 0) - 1) % GMP_LIMB_HIGHBIT)
                     ELSE mpz_get_ui(M, u) % GMP_LIMB_HIGHBIT

mpz_getlimbn(M, u, n) == IF n \in 0 .. Num(M, u) - 1 THEN Limb(M, u, n) ELSE 0

mpz_limbs_finish(M, x, xs) ==
    SetSize(M, x, Signed(xs < 0, mpn_normalized_size(M, Ptr(M, x), GMP_ABS(xs))))

\* A read-only mpz_t over limbs that the caller keeps.
mpz_roinit_n(M, x, xp, xs) ==
    mpz_limbs_finish([M EXCEPT !.z[x] = [alloc |-> 0, size |-> 0, d |-> xp[1]]], x, xs)

-----------------------------------------------------------------------------
(* Comparison. *)

mpz_sgn(M, u) == GMP_CMP(Siz(M, u), 0)

mpz_cmp_ui(M, u, v) ==
    CASE Siz(M, u) > 1 -> 1
      [] Siz(M, u) < 0 -> -1
      [] OTHER         -> GMP_CMP(mpz_get_ui(M, u), v)

mpz_cmp_si(M, u, v) ==
    CASE Siz(M, u) < -1               -> -1
      [] Siz(M, u) >= -1 /\ v >= 0    -> mpz_cmp_ui(M, u, v)
      [] Siz(M, u) >= 0 /\ v < 0      -> 1
      [] Siz(M, u) = -1 /\ v < 0      -> GMP_CMP(Wrap(-v), Limb(M, u, 0))

mpz_cmp(M, a, b) ==
    CASE Siz(M, a) # Siz(M, b) -> IF Siz(M, a) < Siz(M, b) THEN -1 ELSE 1
      [] Siz(M, a) = Siz(M, b) /\ Siz(M, a) >= 0 -> mpn_cmp(M, Ptr(M, a), Ptr(M, b), Siz(M, a))
      [] OTHER -> mpn_cmp(M, Ptr(M, b), Ptr(M, a), -Siz(M, a))

mpz_cmpabs_ui(M, u, v) == IF Num(M, u) > 1 THEN 1 ELSE GMP_CMP(mpz_get_ui(M, u), v)

mpz_cmpabs(M, u, v) == mpn_cmp4(M, Ptr(M, u), Num(M, u), Ptr(M, v), Num(M, v))

mpz_abs(M, r, u) == Let(mpz_set(M, r, u), LAMBDA m : SetSize(m, r, Num(m, r)))
mpz_neg(M, r, u) == Let(mpz_set(M, r, u), LAMBDA m : SetSize(m, r, -Siz(m, r)))

-----------------------------------------------------------------------------
(* What the struct of v represents. *)

Value(M, v) == Signed(Siz(M, v) < 0, ValueN(M, Ptr(M, v), Num(M, v)))
=============================================================================
