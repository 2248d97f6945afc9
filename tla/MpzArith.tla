------------------------------ MODULE MpzArith ------------------------------
(***************************************************************************)
(* Addition, subtraction and multiplication of mpz_t in mini-gmp.c.  The   *)
(* limbs of the destination, which may be an operand, are reallocated      *)
(* before the operands are read.                                           *)
(***************************************************************************)
EXTENDS Mpz

MpzLocals == {"mpz_mul.t", "mpz_addmul.t"}

(* The mpz_abs_ functions store the limbs and return the new size. *)

\* The carry in ret becomes limb n of r.
PutCarry(M, r, n) == Ret(St(M, Ptr(M, r), n, M.ret), n + M.ret)

mpz_abs_add_ui(M, r, a, b) ==
    IF Siz(M, a) = 0 THEN Ret(StoreLimb(M, r, b), Bit(b > 0))
    ELSE Let(MPZ_REALLOC(M, r, Num(M, a) + 1), LAMBDA m :
             PutCarry(mpn_add_1(m, Ptr(m, r), Ptr(m, a), Num(M, a), b), r, Num(M, a)))

\* mutant: high limbs that became zero are kept
MutNormalized(M, r, n) == Ret(gmp_assert_nocarry(M), n)

\* n limbs of r were computed without a borrow.
Normalized(M, r, n) == Ret(gmp_assert_nocarry(M), mpn_normalized_size(M, Ptr(M, r), n))

\* The size is -1 when b was the larger.
mpz_abs_sub_ui(M, r, a, b) ==
    IF Siz(M, a) = 0 THEN Ret(StoreLimb(M, r, b), -Bit(b > 0))
    ELSE Let(MPZ_REALLOC(M, r, Num(M, a)), LAMBDA m :
             IF Num(M, a) = 1 /\ Limb(m, a, 0) < b
             THEN Ret(St(m, Ptr(m, r), 0, b - Limb(m, a, 0)), -1)
             ELSE Normalized(mpn_sub_1(m, Ptr(m, r), Ptr(m, a), Num(M, a), b), r, Num(M, a)))

\* mpz_add_ui if add, else mpz_sub_ui.
AddOrSubUi(M, r, a, b, add) ==
    Let(IF (Siz(M, a) >= 0) = add THEN mpz_abs_add_ui(M, r, a, b) ELSE mpz_abs_sub_ui(M, r, a, b),
        LAMBDA m : SetSize(m, r, Signed(Siz(M, a) < 0, m.ret)))

mpz_add_ui(M, r, a, b) == AddOrSubUi(M, r, a, b, TRUE)
mpz_sub_ui(M, r, a, b) == AddOrSubUi(M, r, a, b, FALSE)

mpz_ui_sub(M, r, a, b) ==
    Let(IF Siz(M, b) < 0 THEN mpz_abs_add_ui(M, r, b, a) ELSE mpz_abs_sub_ui(M, r, b, a),
        LAMBDA m : SetSize(m, r, Signed(Siz(M, b) >= 0, m.ret)))

\* mutant: no room for the carry
MutAbsSum(M, r, a, b) ==
    Let(MPZ_REALLOC(M, r, Num(M, a)), LAMBDA m :
        PutCarry(mpn_add(m, Ptr(m, r), Ptr(m, a), Num(M, a), Ptr(m, b), Num(M, b)), r, Num(M, a)))

AbsSum(M, r, a, b) ==
    Let(MPZ_REALLOC(M, r, Num(M, a) + 1), LAMBDA m :
        PutCarry(mpn_add(m, Ptr(m, r), Ptr(m, a), Num(M, a), Ptr(m, b), Num(M, b)), r, Num(M, a)))

mpz_abs_add(M, r, a, b) == AbsSum(M, r, Longer(M, a, b), Shorter(M, a, b))

AbsDiff(M, r, a, b) ==
    Let(MPZ_REALLOC(M, r, Num(M, a)), LAMBDA m :
        Normalized(mpn_sub(m, Ptr(m, r), Ptr(m, a), Num(M, a), Ptr(m, b), Num(M, b)), r, Num(M, a)))

mpz_abs_sub(M, r, a, b) ==
    Let(mpz_cmpabs(M, a, b), LAMBDA cmp :
        IF cmp = 0 THEN Ret(M, 0)
        ELSE Let(AbsDiff(M, r, IF cmp > 0 THEN a ELSE b, IF cmp > 0 THEN b ELSE a), LAMBDA m :
                 Ret(m, Signed(cmp < 0, m.ret))))

\* mutant: the sign is read from b
MutAddOrSub(M, r, a, b, add) ==
    Let(IF SameSign(M, a, b) = add THEN mpz_abs_add(M, r, a, b) ELSE mpz_abs_sub(M, r, a, b),
        LAMBDA m : SetSize(m, r, Signed(Siz(m, b) < 0, m.ret)))

\* mpz_add if add, else mpz_sub.  The sign is read from a after the limbs of r,
\* which may be a, were stored.
AddOrSub(M, r, a, b, add) ==
    Let(IF SameSign(M, a, b) = add THEN mpz_abs_add(M, r, a, b) ELSE mpz_abs_sub(M, r, a, b),
        LAMBDA m : SetSize(m, r, Signed(Siz(m, a) < 0, m.ret)))

mpz_add(M, r, a, b) == AddOrSub(M, r, a, b, TRUE)
mpz_sub(M, r, a, b) == AddOrSub(M, r, a, b, FALSE)

-----------------------------------------------------------------------------
(* Multiplication. *)

mpz_mul_ui(M, r, u, v) ==
    IF Siz(M, u) = 0 \/ v = 0 THEN SetSize(M, r, 0)
    ELSE Let(MPZ_REALLOC(M, r, Num(M, u) + 1), LAMBDA m :
         Let(mpn_mul_1(m, Ptr(m, r), Ptr(m, u), Num(M, u), v), LAMBDA k :
             SetSize(PutTop(k, Ptr(k, r), Num(M, u)), r, Signed(Siz(M, u) < 0, Num(M, u) + Bit(k.ret > 0)))))

mpz_mul_si(M, r, u, v) ==
    IF v < 0 THEN mpz_neg(mpz_mul_ui(M, r, u, Wrap(-v)), r, r) ELSE mpz_mul_ui(M, r, u, v)

\* The product is computed in t, which then becomes r.
MulLimbs(M, t, u, v) == mpn_mul(M, Ptr(M, t), Ptr(M, u), Num(M, u), Ptr(M, v), Num(M, v))

\* mutant: the old limbs of r are not freed
MutMul(M, r, u, v) ==
    LET n == Num(M, u) + Num(M, v)
        t == "mpz_mul.t"
    IN  IF Siz(M, u) = 0 \/ Siz(M, v) = 0 THEN SetSize(M, r, 0)
        ELSE Let(MulLimbs(mpz_init2(M, t, n * LimbBits), t, Longer(M, u, v), Shorter(M, u, v)), LAMBDA m :
                 mpz_swap(SetSize(m, t, Signed(~SameSign(M, u, v), n - Bit(Limb(m, t, n - 1) = 0))), r, t))

mpz_mul(M, r, u, v) ==
    LET n == Num(M, u) + Num(M, v)
        t == "mpz_mul.t"
    IN  IF Siz(M, u) = 0 \/ Siz(M, v) = 0 THEN SetSize(M, r, 0)
        ELSE Let(MulLimbs(mpz_init2(M, t, n * LimbBits), t, Longer(M, u, v), Shorter(M, u, v)), LAMBDA m :
             Let(SetSize(m, t, Signed(~SameSign(M, u, v), n - Bit(Limb(m, t, n - 1) = 0))), LAMBDA k :
                 mpz_clear(mpz_swap(k, r, t), t)))

ShiftLimbs(M, rp, u, un, limbs, shift) ==
    IF shift = 0 THEN Ret(mpn_copyd(M, At(rp, limbs), Ptr(M, u), un), 1)
    ELSE Let(mpn_lshift(M, At(rp, limbs), Ptr(M, u), un, shift), LAMBDA m : PutTop(m, rp, un + limbs))

mpz_mul_2exp(M, r, u, bits) ==
    LET limbs == bits \div LimbBits
        shift == bits % LimbBits
        rn    == Num(M, u) + limbs + Bit(shift > 0)
    IN  IF Siz(M, u) = 0 THEN SetSize(M, r, 0)
        ELSE Let(MPZ_REALLOC(M, r, rn), LAMBDA m :
             Let(ShiftLimbs(m, Ptr(m, r), u, Num(M, u), limbs, shift), LAMBDA k :
                 SetSize(mpn_zero(k, Ptr(k, r), limbs), r, Signed(Siz(k, u) < 0, rn - Bit(k.ret = 0)))))

\* r +- u * v through a local for the product.
Accumulate(M, r, add, Product(_, _)) ==
    LET t == "mpz_addmul.t"
    IN  Let(Product(mpz_init(M, t), t), LAMBDA m :
            mpz_clear(AddOrSub(m, r, r, t, add), t))

mpz_addmul_ui(M, r, u, v) == Accumulate(M, r, TRUE, LAMBDA m, t : mpz_mul_ui(m, t, u, v))
mpz_submul_ui(M, r, u, v) == Accumulate(M, r, FALSE, LAMBDA m, t : mpz_mul_ui(m, t, u, v))
mpz_addmul(M, r, u, v) == Accumulate(M, r, TRUE, LAMBDA m, t : mpz_mul(m, t, u, v))
mpz_submul(M, r, u, v) == Accumulate(M, r, FALSE, LAMBDA m, t : mpz_mul(m, t, u, v))
=============================================================================
