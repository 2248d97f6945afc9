------------------------------- MODULE MpzPow -------------------------------
(***************************************************************************)
(* Powers, roots and combinatorial functions of mini-gmp.c.                *)
(***************************************************************************)
EXTENDS MpzGcd

PowLocals == {"mpz_pow_ui.tr", "mpz_ui_pow_ui.b", "mpz_powm.base", "mpz_powm.tr", "mpz_powm_ui.e",
              "mpz_rootrem.t", "mpz_rootrem.u", "mpz_rootrem.v", "mpz_root.r",
              "mpn_sqrtrem.s", "mpn_sqrtrem.r", "mpn_sqrtrem.u", "mpz_bin_uiui.t"}

\* Step for every bit of a word, from the highest.
BitsDown(M, w, Step(_, _)) == For(LimbBits, M, LAMBDA m, i : Step(m, Shr(w, LimbBits - 1 - i) % 2))

\* tr := tr^2, times b if the bit is set.
SquareMultiply(M, tr, b, bit) ==
    Then(mpz_mul(M, tr, tr, tr), LAMBDA m : IF bit = 1 THEN mpz_mul(m, tr, tr, b) ELSE m)

mpz_pow_ui(M, r, b, e) ==
    LET tr == "mpz_pow_ui.tr"
    IN  Then(BitsDown(mpz_init_set_ui(M, tr, 1), e, LAMBDA m, bit : SquareMultiply(m, tr, b, bit)),
             LAMBDA m : mpz_clear(mpz_swap(m, r, tr), tr))

\* A read-only mpz_t over a word on the stack.
WithWord(M, x, w, Call(_)) ==
    LET Release(m, k) == gmp_free([m EXCEPT !.z[x] = NoStruct], k)
    IN  Let(gmp_xalloc_limbs(M, 1), LAMBDA m :
            Release(Call(mpz_roinit_n(St(m, <<m.ret, 0>>, 0, w), x, <<m.ret, 0>>, 1)), m.ret))

mpz_ui_pow_ui(M, r, blimb, e) ==
    WithWord(M, "mpz_ui_pow_ui.b", blimb, LAMBDA m : mpz_pow_ui(m, r, "mpz_ui_pow_ui.b", e))

NormalizeTo(M, r, n) == SetSize(M, r, mpn_normalized_size(M, Ptr(M, r), n))

FromModulus(M, base, bn, mp, mn) ==
    NormalizeTo(gmp_assert_nocarry(mpn_sub(M, Ptr(M, base), mp, mn, Ptr(M, base), bn)), base, mn)

\* |b| mod the normalised modulus mp, or mp minus that.
PowmBase(M, base, b, mp, mn, minv) ==
    Let(mpz_abs(M, base, b), LAMBDA m1 :
    Let(Min({Siz(m1, base), mn}), LAMBDA bn :
    Let(IF Siz(m1, base) < mn THEN m1
        ELSE mpn_div_qr_preinv(m1, NULL, Ptr(m1, base), Siz(m1, base), mp, mn, minv), LAMBDA m2 :
        IF Siz(M, b) < 0 THEN FromModulus(MPZ_REALLOC(m2, base, mn), base, bn, mp, mn)
                         ELSE NormalizeTo(m2, base, bn))))

\* tr mod mp, in place.
Reduce(M, tr, mp, mn, minv) ==
    NormalizeTo(mpn_div_qr_preinv(M, NULL, Ptr(M, tr), Siz(M, tr), mp, mn, minv), tr, mn)

\* m_ and e are not zero; a holds the modulus mp of mn limbs, shifted, its
\* inverse, and that inverse without the shift.
pow_base == "mpz_powm.base"
pow_tr == "mpz_powm.tr"

PowmSquare(M, a, bit) ==
    Then(SquareMultiply(M, pow_tr, pow_base, bit), LAMBDA m :
         IF Siz(m, pow_tr) > a.mn THEN Reduce(m, pow_tr, a.mp, a.mn, a.inv0) ELSE m)

PowmRaise(M, a, e) ==
    Then(For(Num(M, e), mpz_init_set_ui(M, pow_tr, 1), LAMBDA m, i :
             BitsDown(m, Limb(m, e, Num(M, e) - 1 - i), LAMBDA k, bit : PowmSquare(k, a, bit))), LAMBDA m :
         IF Siz(m, pow_tr) >= a.mn THEN Reduce(m, pow_tr, a.mp, a.mn, a.inv) ELSE m)

PowmMain(M, r, b, e, m_, a, c) ==
    Then(mpz_init(gmp_assert_nocarry(c.m), pow_base), LAMBDA m0 :
    Then(IF Siz(M, e) < 0 THEN mpz_invert(m0, pow_base, b, m_)
         ELSE Ret(PowmBase(m0, pow_base, b, a.mp, a.mn, a.inv0), 1), LAMBDA m1 :
    IF m1.ret = 0 THEN gmp_die(m1)
    ELSE Then(FreeCopy(PowmRaise(m1, a, e), c, a.inv.shift), LAMBDA m2 :
              ClearAll(mpz_swap(m2, r, pow_tr), <<pow_tr, pow_base>>))))

mpz_powm(M, r, b, e, m_) ==
    CASE Siz(M, m_) = 0 -> gmp_die(M)
      [] Siz(M, m_) # 0 /\ Siz(M, e) = 0 -> mpz_set_ui(M, r, 1)
      [] OTHER -> Then(mpn_div_qr_invert(M, Ptr(M, m_), Num(M, m_)), LAMBDA minv :
                  Then(ShiftedCopy(M, Ptr(M, m_), Num(M, m_), minv.shift), LAMBDA c :
                       PowmMain(M, r, b, e, m_, [mp |-> c.p, mn |-> Num(M, m_), inv |-> minv,
                                                 inv0 |-> [minv EXCEPT !.shift = 0]], c)))

mpz_powm_ui(M, r, b, elimb, m_) ==
    WithWord(M, "mpz_powm_ui.e", elimb, LAMBDA m : mpz_powm(m, r, b, "mpz_powm_ui.e", m_))

-----------------------------------------------------------------------------
(* Roots, by Newton's iteration from above in absolute value. *)

\* Division of tp by the base until it is 0, counted.
CountDigits(M, tp, un0, binv) ==
    While([m |-> M, un |-> un0, n |-> 0], LAMBDA s : s.un > 0, LAMBDA s :
          Let(mpn_div_qr_1_preinv(s.m, tp, tp, s.un, binv), LAMBDA d :
              [m |-> d, un |-> s.un - Bit(Ld(d, tp, s.un - 1) = 0), n |-> s.n + 1]))

\* Digits of |u|; for a base that is no power of two, those of a copy.
mpz_sizeinbase(M, u, base) ==
    LET un == Num(M, u)
        k  == mpn_base_power_of_two_p(base)
    IN  CASE un = 0 -> Ret(M, 1)
          [] un # 0 /\ k # 0 ->
                Ret(M, ((un - 1) * LimbBits + mpn_limb_size_in_base_2(Limb(M, u, un - 1)) + k - 1) \div k)
          [] OTHER -> Let(gmp_xalloc_limbs(M, un), LAMBDA m :
                      Let(CountDigits(mpn_copyi(m, <<m.ret, 0>>, Ptr(m, u), un), <<m.ret, 0>>, un,
                                      mpn_div_qr_1_invert(base)), LAMBDA t :
                          Ret(gmp_free(t.m, m.ret), t.n)))

\* The locals of mpz_rootrem: the next iterate, the current one, a product.
root_t == "mpz_rootrem.t"
root_u == "mpz_rootrem.u"
root_v == "mpz_rootrem.v"

SqrtStep(M, y) ==
    Then(mpz_add(mpz_tdiv_q(M, root_t, y, root_u), root_t, root_t, root_u), LAMBDA m :
         mpz_tdiv_q_2exp(m, root_t, root_t, 1))

RootStep(M, y, z) ==
    Then(mpz_pow_ui(M, root_t, root_u, z - 1), LAMBDA m1 :
    Then(mpz_mul_ui(mpz_tdiv_q(m1, root_t, y, root_t), root_v, root_u, z - 1), LAMBDA m2 :
         mpz_tdiv_q_ui(mpz_add(m2, root_t, root_t, root_v), root_t, root_t, z)))

RootLoop(M, y, z) ==
    While([m |-> M, more |-> TRUE], LAMBDA s : s.more, LAMBDA s :
          Then(mpz_swap(s.m, root_u, root_t), LAMBDA m :
          Then(IF z = 2 THEN SqrtStep(m, y) ELSE RootStep(m, y, z), LAMBDA k :
               [m |-> k, more |-> mpz_cmpabs(k, root_t, root_u) < 0]))).m

RootMain(M, x, r, y, z, locals) ==
    Then(mpz_setbit(InitAll(M, locals), root_t, mpz_sizeinbase(M, y, 2).ret \div z + 1), LAMBDA m1 :
    Then(RootLoop(IF z # 2 /\ Siz(M, y) < 0 THEN mpz_neg(m1, root_t, root_t) ELSE m1, y, z), LAMBDA m2 :
    Then(IF r = NoVar THEN m2 ELSE mpz_sub(mpz_pow_ui(m2, root_t, root_u, z), r, y, root_t), LAMBDA m3 :
         ClearAll(Opt(m3, x, mpz_swap(m3, x, root_u)), locals))))

mpz_rootrem(M, x, r, y, z) ==
    LET bad == z = 0 \/ (Siz(M, y) < 0 /\ z % 2 = 0)
    IN  CASE bad -> gmp_die(M)
          [] ~bad /\ mpz_cmpabs_ui(M, y, 1) <= 0 ->
                Let(Opt(M, x, mpz_set(M, x, y)), LAMBDA m : Opt(m, r, SetSize(m, r, 0)))
          [] OTHER -> RootMain(M, x, r, y, z,
                               IF z = 2 THEN <<root_u, root_t>> ELSE <<root_u, root_t, root_v>>)

\* ret tells whether the root is exact.
mpz_root(M, x, y, z) ==
    LET r == "mpz_root.r"
    IN  Let(mpz_rootrem(mpz_init(M, r), x, r, y, z), LAMBDA m : mpz_clear(Ret(m, Bit(Siz(m, r) = 0)), r))

mpz_perfect_square_p(M, u) ==
    IF Siz(M, u) <= 0 THEN Ret(M, Bit(Siz(M, u) = 0)) ELSE mpz_root(M, NoVar, u, 2)

\* Of n limbs: the root goes to sp, the remainder to rp; ret is its size.
mpn_sqrtrem(M, sp, rp, p, n) ==
    LET s == "mpn_sqrtrem.s"
        r == "mpn_sqrtrem.r"
        u == "mpn_sqrtrem.u"
    IN  Then(mpz_roinit_n(InitAll(Assert_(M, n > 0 /\ Ld(M, p, n - 1) # 0), <<r, s>>), u, p, n), LAMBDA m1 :
        Then(mpz_rootrem(m1, s, r, u, 2), LAMBDA m2 :
        Then(mpn_copyd(Assert_(m2, Siz(m2, s) = (n + 1) \div 2), sp, Ptr(m2, s), Siz(m2, s)), LAMBDA m3 :
        Then(IF rp = NULL THEN m3 ELSE mpn_copyd(m3, rp, Ptr(m3, r), Siz(m3, r)), LAMBDA m4 :
            Ret(ClearAll([m4 EXCEPT !.z[u] = NoStruct], <<s, r>>), Siz(m2, r))))))

-----------------------------------------------------------------------------

mpz_fac_ui(M, x, n) ==
    For(n - 2, mpz_set_ui(M, x, n + Bit(n = 0)), LAMBDA m, i : mpz_mul_ui(m, x, x, n - 1 - i))

mpz_bin_uiui(M, r, n, k0) ==
    LET t == "mpz_bin_uiui.t"
        k == IF k0 <= n \div 2 THEN k0 ELSE IF k0 <= n THEN n - k0 ELSE 0
    IN  Let(mpz_fac_ui(mpz_init(mpz_set_ui(M, r, Bit(k0 <= n)), t), t, k), LAMBDA m1 :
        Let(For(k, m1, LAMBDA m, i : mpz_mul_ui(m, r, r, n - i)), LAMBDA m2 :
            mpz_clear(mpz_divexact(m2, r, r, t), t)))
=============================================================================
