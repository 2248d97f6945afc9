------------------------------- MODULE MpzDiv -------------------------------
(***************************************************************************)
(* Division of mpz_t in mini-gmp.c, in its three rounding modes: by an     *)
(* mpz_t, by an unsigned long and by a power of two.                       *)
(***************************************************************************)
EXTENDS MpzArith

Modes == {"FLOOR", "CEIL", "TRUNC"}

DivLocals == {"mpz_div_qr.tr", "mpz_div_qr.tq", "mpz_congruent_p.t"}

\* The mode that rounds a quotient of that sign away from zero.
Away(neg) == IF neg THEN "FLOOR" ELSE "CEIL"

\* |n| < |d|: the truncated quotient is zero.
DivSmall(M, q, r, n, d, away, neg) ==
    Let(CASE r = NoVar -> M
          [] r # NoVar /\ ~away -> mpz_set(M, r, n)
          [] OTHER -> AddOrSub(M, r, n, d, neg), LAMBDA m :
        Ret(Opt(m, q, mpz_set_si(m, q, IF ~away THEN 0 ELSE Signed(neg, 1))), 1))

\* div_tr starts as a copy of n, so that q and r may be n or d; the limb division
\* turns it into the remainder, and div_tq receives the quotient.
div_tr == "mpz_div_qr.tr"
div_tq == "mpz_div_qr.tq"

\* Rounded away from zero: the quotient takes one more, the remainder d less.
DivAdjust(M, q, r, d, neg) ==
    Let(Opt(M, q, AddOrSubUi(M, div_tq, div_tq, 1, ~neg)), LAMBDA m :
        Opt(m, r, AddOrSub(m, div_tr, div_tr, d, neg)))

DivResult(M, q, r, inexact) ==
    Let(Opt(M, q, mpz_clear(mpz_swap(M, div_tq, q), div_tq)), LAMBDA m :
        Ret(mpz_clear(Opt(m, r, mpz_swap(m, div_tr, r)), div_tr), Bit(inexact)))

DivSizes(M, q, qn, rn, qneg, rneg) ==
    Let(Opt(M, q, SetSize(M, div_tq, Signed(qneg, qn - Bit(Limb(M, div_tq, qn - 1) = 0)))), LAMBDA m :
        SetSize(m, div_tr, Signed(rneg, rn)))

DivLarge(M, q, r, n, d, away, neg) ==
    LET nn == Num(M, n)
        dn == Num(M, d)
        qn == nn - dn + 1
    IN  Then(mpz_init_set(M, div_tr, n), LAMBDA m1 :
        Then(Opt(m1, q, mpz_init2(m1, div_tq, qn * LimbBits)), LAMBDA m2 :
        Then(mpn_div_qr(m2, IF q = NoVar THEN NULL ELSE Ptr(m2, div_tq), Ptr(m2, div_tr), nn, Ptr(m2, d), dn),
             LAMBDA m3 :
        Let(mpn_normalized_size(m3, Ptr(m3, div_tr), dn), LAMBDA rn :
        Then(DivSizes(m3, q, qn, rn, neg, Siz(M, n) < 0), LAMBDA m4 :
             DivResult(IF away /\ rn # 0 THEN DivAdjust(m4, q, r, d, neg) ELSE m4, q, r, rn # 0))))))

\* ret is 1 iff the truncated division leaves a remainder.
mpz_div_qr(M, q, r, n, d, mode) ==
    LET neg == ~SameSign(M, n, d)
        away == mode = Away(neg)
    IN  CASE Siz(M, d) = 0 -> gmp_die(M)
          [] Siz(M, d) # 0 /\ Siz(M, n) = 0 -> Ret(SetSize(SetSize(M, q, 0), r, 0), 0)
          [] Siz(M, d) # 0 /\ Num(M, n) \in 1 .. Num(M, d) - 1 -> DivSmall(M, q, r, n, d, away, neg)
          [] OTHER -> DivLarge(M, q, r, n, d, away, neg)

mpz_mod(M, r, n, d) ==
    mpz_div_qr(M, NoVar, r, n, d, IF Siz(M, d) >= 0 THEN "FLOOR" ELSE "CEIL")

mpz_divexact(M, q, n, d) == gmp_assert_nocarry(mpz_div_qr(M, q, NoVar, n, d, "TRUNC"))

mpz_divisible_p(M, n, d) ==
    Let(mpz_div_qr(M, NoVar, NoVar, n, d, "TRUNC"), LAMBDA m : Ret(m, Bit(m.ret = 0)))

mpz_congruent_p(M, a, b, c) ==
    LET t == "mpz_congruent_p.t"
    IN  IF mpz_sgn(M, c) = 0 THEN Ret(M, Bit(mpz_cmp(M, a, b) = 0))
        ELSE mpz_clear(mpz_divisible_p(mpz_sub(mpz_init(M, t), t, a, b), t, c), t)

-----------------------------------------------------------------------------
(* By a power of two. *)

\* qn limbs of u from cnt on, shifted right; q may be u.
ShiftDown(M, q, up, qn, bit) ==
    IF bit = 0 THEN SetSize(mpn_copyi(M, Ptr(M, q), up, qn), q, qn)
    ELSE Let(mpn_rshift(M, Ptr(M, q), up, qn, bit), LAMBDA m :
             SetSize(m, q, qn - Bit(Limb(m, q, qn - 1) = 0)))

mpz_div_q_2exp(M, q, u, bit_index, mode) ==
    LET neg == Siz(M, u) < 0
        cnt == bit_index \div LimbBits
        bit == bit_index % LimbBits
        qn  == Num(M, u) - cnt
        adjust == /\ mode = Away(neg)
                  /\ \/ qn <= 0
                     \/ ~mpn_zero_p(M, Ptr(M, u), cnt)
                     \/ Limb(M, u, cnt) % 2 ^ bit # 0
    IN  IF Siz(M, u) = 0 THEN SetSize(M, q, 0)
        ELSE Let(IF qn <= 0 THEN SetSize(M, q, 0)
                 ELSE Let(MPZ_REALLOC(M, q, qn), LAMBDA m : ShiftDown(m, q, At(Ptr(m, u), cnt), qn, bit)),
                 LAMBDA m1 :
             Let(IF adjust THEN mpz_add_ui(m1, q, q, 1) ELSE m1, LAMBDA m2 :
                 IF neg THEN mpz_neg(m2, q, q) ELSE m2))

mpz_div_r_2exp(M, r, u, bit_index, mode) ==
    LET us   == Siz(M, u)
        un   == Num(M, u)
        rn   == (bit_index + LimbBits - 1) \div LimbBits
        mask == Shr(B - 1, rn * LimbBits - bit_index)
        away == mode = Away(us < 0)
        Copy(m, n) == IF r = u THEN m ELSE mpn_copyi(m, Ptr(m, r), Ptr(m, u), n)
        \* shorter than rn: sign-extend the two's complement, or copy
        Ones(m, rp) == For(rn - 1 - un, Assert_(m, m.ret # 0), LAMBDA x, i : St(x, rp, un + i, B - 1))
        Extend(m, rp) == St(Ones(mpn_neg(m, rp, Ptr(m, u), un), rp), rp, rn - 1, mask)
        \* rn limbs, the highest one masked
        Low(m, rp) == Let(Copy(m, rn - 1), LAMBDA x : St(x, rp, rn - 1, Limb(x, u, rn - 1) & mask))
        MaskTop(m, rp) == St(m, rp, rn - 1, Ld(m, rp, rn - 1) & mask)
        Remain(m, rp) ==
            CASE rn > un /\ away    -> Extend(m, rp)
              [] rn > un /\ ~away   -> Copy(m, un)
              [] rn <= un /\ away   -> MaskTop(mpn_neg(Low(m, rp), rp, rp, rn), rp)
              [] rn <= un /\ ~away  -> Low(m, rp)
        Sized(m, n) == SetSize(m, r, Signed((us < 0) # away, mpn_normalized_size(m, Ptr(m, r), n)))
    IN  IF us = 0 \/ bit_index = 0 THEN SetSize(M, r, 0)
        ELSE Let(MPZ_REALLOC(M, r, rn), LAMBDA m :
                 Sized(Remain(m, Ptr(m, r)), IF rn > un /\ ~away THEN un ELSE rn))

-----------------------------------------------------------------------------
(* By an unsigned long.  ret is the absolute value of the remainder. *)

UiQuotient(M, q, qp, qn, neg) ==
    Let(qn - Bit(Ld(M, qp, qn - 1) = 0), LAMBDA k :
        SetSize(Assert_(M, k = 0 \/ Ld(M, qp, k - 1) > 0), q, Signed(neg, k)))

UiRemainder(M, r, rl, neg) == Opt(M, r, SetSize(StoreLimb(M, r, rl), r, Signed(neg, Bit(rl > 0))))

UiIncrement(M, qp, qn) == gmp_assert_nocarry(mpn_add_1(M, qp, qp, qn, 1))

UiDivide(M, q, r, n, d, mode, qp) ==
    LET neg == Siz(M, n) < 0
        qn  == Num(M, n)
    IN  Let(mpn_div_qr_1(M, qp, Ptr(M, n), qn, d), LAMBDA m :
        Let(m.ret > 0 /\ mode = Away(neg), LAMBDA away :
        Let(IF away THEN d - m.ret ELSE m.ret, LAMBDA rl :
        Let(Assert_(m, m.ret < d), LAMBDA m1 :
        Let(UiRemainder(IF away THEN Opt(m1, q, UiIncrement(m1, qp, qn)) ELSE m1, r, rl, neg # away), LAMBDA m2 :
            Ret(Opt(m2, q, UiQuotient(m2, q, qp, qn, neg)), rl))))))

mpz_div_qr_ui(M, q, r, n, d, mode) ==
    CASE Siz(M, n) = 0 -> Ret(SetSize(SetSize(M, q, 0), r, 0), 0)
      [] OTHER -> Let(Opt(M, q, MPZ_REALLOC(M, q, Num(M, n))), LAMBDA m :
                      UiDivide(m, q, r, n, d, mode, IF q = NoVar THEN NULL ELSE Ptr(m, q)))

mpz_tdiv_q(M, q, n, d) == mpz_div_qr(M, q, NoVar, n, d, "TRUNC")
mpz_tdiv_ui(M, n, d) == mpz_div_qr_ui(M, NoVar, NoVar, n, d, "TRUNC").ret
mpz_divexact_ui(M, q, n, d) == gmp_assert_nocarry(mpz_div_qr_ui(M, q, NoVar, n, d, "TRUNC"))
mpz_tdiv_q_2exp(M, q, u, cnt) == mpz_div_q_2exp(M, q, u, cnt, "TRUNC")
mpz_tdiv_q_ui(M, q, n, d) == mpz_div_qr_ui(M, q, NoVar, n, d, "TRUNC")
=============================================================================
