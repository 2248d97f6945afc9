------------------------------- MODULE MpzGcd -------------------------------
(***************************************************************************)
(* Greatest common divisors of mini-gmp.c (binary algorithms that keep tu  *)
(* and tv odd), and what is built on them.                                 *)
(***************************************************************************)
EXTENDS MpzBits

GcdLocals == {"mpz_gcd.tu", "mpz_gcd.tv", "mpz_lcm.g", "mpz_invert.g", "mpz_invert.tr"}

\* Halved until odd.
OddPart(x) == Shr(x, gmp_ctz(x))

mpn_gcd_11(M, u, v) ==
    LET shift == gmp_ctz(u | v)
        s == While([u |-> OddPart(u), v |-> OddPart(v)], LAMBDA t : t.u # t.v,
                   LAMBDA t : IF t.u > t.v THEN [t EXCEPT !.u = OddPart(t.u - t.v)]
                                           ELSE [t EXCEPT !.v = OddPart(t.v - t.u)])
    IN  Ret(Assert_(M, (u | v) > 0), CASE u = 0 -> v
                                       [] v = 0 /\ u # 0 -> u
                                       [] OTHER -> Shl(s.u, shift))

mpz_gcd_ui(M, g, u, v) ==
    LET Answer(m, w) == Ret(Opt(m, g, mpz_set_ui(m, g, w)), w)
    IN  CASE v = 0 -> Ret(Opt(M, g, mpz_abs(M, g, u)), 0)
          [] v # 0 /\ Num(M, u) = 0 -> Answer(M, v)
          [] OTHER -> Let(mpn_div_qr_1(M, NULL, Ptr(M, u), Num(M, u), v), LAMBDA m :
                      Let(mpn_gcd_11(m, m.ret, v), LAMBDA w : Answer(w, w.ret)))

\* ret is the number of trailing zero bits removed.
mpz_make_odd(M, r) ==
    Let(mpn_common_scan(Assert_(M, Siz(M, r) > 0), Limb(M, r, 0), 0, Ptr(M, r), 0, 0), LAMBDA m :
        Ret(mpz_tdiv_q_2exp(m, r, r, m.ret), m.ret))

mpz_odd_p(M, x) == Siz(M, x) # 0 /\ Limb(M, x, 0) % 2 = 1

ClearAll(M, vs) == For(Len(vs), M, LAMBDA m, i : mpz_clear(m, vs[i + 1]))
InitAll(M, vs) == For(Len(vs), M, LAMBDA m, i : mpz_init(m, vs[i + 1]))

\* The locals of mpz_gcd, odd.
gcd_tu == "mpz_gcd.tu"
gcd_tv == "mpz_gcd.tv"

\* tv has one limb: the rest is done on words.
GcdWord(M, g, vl) == Let(mpn_gcd_11(M, mpz_tdiv_ui(M, gcd_tu, vl), vl), LAMBDA m : mpz_set_ui(m, g, m.ret))

\* One round of the binary algorithm on tu > 0.
GcdRound(s, g) ==
    Let(mpz_make_odd(s.m, gcd_tu), LAMBDA m :
    Let(mpz_cmp(m, gcd_tu, gcd_tv), LAMBDA c :
        IF c = 0 THEN [m |-> mpz_swap(m, g, gcd_tu), done |-> TRUE]
        ELSE Let(IF c < 0 THEN mpz_swap(m, gcd_tu, gcd_tv) ELSE m, LAMBDA k :
                 IF Siz(k, gcd_tv) = 1 THEN [m |-> GcdWord(k, g, Limb(k, gcd_tv, 0)), done |-> TRUE]
                 ELSE [m |-> mpz_sub(k, gcd_tu, gcd_tu, gcd_tv), done |-> FALSE])))

GcdMain(M, g, u, v) ==
    Then(mpz_make_odd(mpz_abs(InitAll(M, <<gcd_tu, gcd_tv>>), gcd_tu, u), gcd_tu), LAMBDA m1 :
    Then(mpz_make_odd(mpz_abs(m1, gcd_tv, v), gcd_tv), LAMBDA m2 :
    Then(IF Siz(m2, gcd_tu) < Siz(m2, gcd_tv) THEN mpz_swap(m2, gcd_tu, gcd_tv) ELSE m2, LAMBDA m3 :
    Then(mpz_div_qr(m3, NoVar, gcd_tu, gcd_tu, gcd_tv, "TRUNC"), LAMBDA m4 :
    Then(IF Siz(m4, gcd_tu) = 0 THEN mpz_swap(m4, g, gcd_tv)
         ELSE While([m |-> m4, done |-> FALSE], LAMBDA s : ~s.done, LAMBDA s : GcdRound(s, g)).m, LAMBDA m5 :
    Then(ClearAll(m5, <<gcd_tu, gcd_tv>>), LAMBDA m6 :
    mpz_mul_2exp(m6, g, g, Min({m1.ret, m2.ret}))))))))

mpz_gcd(M, g, u, v) ==
    CASE Siz(M, u) = 0 -> mpz_abs(M, g, v)
      [] Siz(M, v) = 0 /\ Siz(M, u) # 0 -> mpz_abs(M, g, u)
      [] OTHER -> GcdMain(M, g, u, v)

-----------------------------------------------------------------------------
(* Extended gcd.  The locals keep u = t0 tu + t1 tv and v = s0 tu + s1 tv, *)
(* with determinant 2^power; then g = s u + t v is reached by halving.     *)

xtu == "mpz_gcdext.tu"
xtv == "mpz_gcdext.tv"
xs0 == "mpz_gcdext.s0"
xs1 == "mpz_gcdext.s1"
xt0 == "mpz_gcdext.t0"
xt1 == "mpz_gcdext.t1"
GcdextLocals == <<xtu, xtv, xs0, xs1, xt0, xt1>>

\* The larger of tu and tv loses the other and its factors of two.
GcdextRound(c) ==
    LET less == mpz_cmp(c.m, xtu, xtv) < 0
        x  == IF less THEN xtv ELSE xtu
        y  == IF less THEN xtu ELSE xtv
        tx == IF less THEN xt1 ELSE xt0
        ty == IF less THEN xt0 ELSE xt1
        sx == IF less THEN xs1 ELSE xs0
        sy == IF less THEN xs0 ELSE xs1
    IN  Then(mpz_add(mpz_sub(c.m, x, x, y), ty, xt0, xt1), LAMBDA m :
        Then(mpz_make_odd(mpz_add(m, sy, xs0, xs1), x), LAMBDA n :
        [m |-> mpz_mul_2exp(mpz_mul_2exp(n, tx, tx, n.ret), sx, sx, n.ret), power |-> c.power + n.ret]))

\* From odd tu, tv to tv = gcd; uz and vz are the factors of two of u and v
\* that are not common.
GcdextRounds(M, power) ==
    Then(mpz_make_odd(M, xtu), LAMBDA n :
    Then(mpz_mul_2exp(mpz_mul_2exp(n, xt0, xt0, n.ret), xs0, xs0, n.ret), LAMBDA k :
    While([m |-> k, power |-> power + n.ret], LAMBDA c : mpz_cmp(c.m, xtu, xtv) # 0, GcdextRound)))

GcdextReduce(M, uz, vz) ==
    Then(mpz_div_qr(mpz_setbit(M, xt0, uz), xt1, xtu, xtu, xtv, "TRUNC"), LAMBDA m1 :
    Then(mpz_setbit(mpz_mul_2exp(m1, xt1, xt1, uz), xs1, vz), LAMBDA m2 :
    IF Siz(m2, xtu) = 0 THEN [m |-> m2, power |-> uz + vz] ELSE GcdextRounds(m2, uz + vz)))

\* One factor of two of 2^p g = s0 u + t0 v.
HalveCofactors(M) ==
    Let(IF mpz_odd_p(M, xs0) \/ mpz_odd_p(M, xt0)
        THEN mpz_add(mpz_sub(M, xs0, xs0, xs1), xt0, xt0, xt1) ELSE M,
        LAMBDA m : mpz_divexact_ui(mpz_divexact_ui(m, xs0, xs0, 2), xt0, xt0, 2))

\* The cofactors of g = tv, with s next to zero.
GcdextCofactors(M, u, v, power) ==
    Then(mpz_abs(mpz_divexact(mpz_neg(M, xs0, xs0), xs1, v, xtv), xs1, xs1), LAMBDA m1 :
    Then(mpz_abs(mpz_divexact(m1, xt1, u, xtv), xt1, xt1), LAMBDA m2 :
    Then(For(power, m2, LAMBDA m, i : HalveCofactors(m)), LAMBDA m3 :
    Then(mpz_add(m3, xs1, xs0, xs1), LAMBDA m4 :
    IF mpz_cmpabs(m4, xs0, xs1) > 0 THEN mpz_sub(mpz_swap(m4, xs0, xs1), xt0, xt0, xt1) ELSE m4))))

\* y takes the sign of x; r, if not NULL, takes the value of x.
NegateAs(M, x, y) == IF Siz(M, x) < 0 THEN mpz_neg(M, y, y) ELSE M
Give(M, r, x) == Opt(M, r, mpz_swap(M, r, x))

GcdextFinish(M, g, s, t, u, v) ==
    Let(mpz_swap(NegateAs(NegateAs(M, u, xs0), v, xt0), g, xtv), LAMBDA m :
        ClearAll(Give(Give(m, s, xs0), t, xt0), GcdextLocals))

\* u and v are not zero, and |u| is not the smaller; uz and vz are their
\* factors of two, and tu and tv their odd parts.
GcdextOrdered(M, g, s, t, u, v, uz, vz) ==
    LET gz == Min({uz, vz})
    IN  Then(GcdextReduce(M, uz - gz, vz - gz), LAMBDA c :
        Then(GcdextCofactors(mpz_mul_2exp(c.m, xtv, xtv, gz), u, v, c.power), LAMBDA m :
        GcdextFinish(m, g, s, t, u, v)))

GcdextMain(M, g, s, t, u, v) ==
    Then(mpz_make_odd(mpz_abs(InitAll(M, GcdextLocals), xtu, u), xtu), LAMBDA a1 :
    Then(mpz_make_odd(mpz_abs(a1, xtv, v), xtv), LAMBDA a2 :
    Let(Siz(a2, xtu) < Siz(a2, xtv), LAMBDA swap :
        GcdextOrdered(IF swap THEN mpz_swap(a2, xtu, xtv) ELSE a2, g,
                      IF swap THEN t ELSE s, IF swap THEN s ELSE t,
                      IF swap THEN v ELSE u, IF swap THEN u ELSE v,
                      IF swap THEN a2.ret ELSE a1.ret, IF swap THEN a1.ret ELSE a2.ret))))

CofactorIs(M, x, k) == Opt(M, x, mpz_set_si(M, x, k))

mpz_gcdext(M, g, s, t, u, v) ==
    LET Trivial(x, sval, tval) == CofactorIs(CofactorIs(mpz_abs(M, g, x), s, sval), t, tval)
    IN  CASE Siz(M, u) = 0 -> Trivial(v, 0, mpz_sgn(M, v))
          [] Siz(M, v) = 0 /\ Siz(M, u) # 0 -> Trivial(u, mpz_sgn(M, u), 0)
          [] OTHER -> GcdextMain(M, g, s, t, u, v)

-----------------------------------------------------------------------------

mpz_lcm(M, r, u, v) ==
    LET g == "mpz_lcm.g"
    IN  IF Siz(M, u) = 0 \/ Siz(M, v) = 0 THEN SetSize(M, r, 0)
        ELSE Then(mpz_gcd(mpz_init(M, g), g, u, v), LAMBDA m :
             Then(mpz_divexact(m, g, u, g), LAMBDA m1 :
             mpz_abs(mpz_clear(mpz_mul(m1, r, g, v), g), r, r)))

mpz_lcm_ui(M, r, u, v) ==
    IF v = 0 \/ Siz(M, u) = 0 THEN SetSize(M, r, 0)
    ELSE Let(mpz_gcd_ui(M, NoVar, u, v), LAMBDA m : mpz_abs(mpz_mul_ui(m, r, u, v \div m.ret), r, r))

\* ret tells whether u has an inverse; r is left alone when it has none.
mpz_invert(M, r, u, m_) ==
    LET g  == "mpz_invert.g"
        tr == "mpz_invert.tr"
    IN  IF Siz(M, u) = 0 \/ mpz_cmpabs_ui(M, m_, 1) <= 0 THEN Ret(M, 0)
        ELSE Then(mpz_gcdext(InitAll(M, <<g, tr>>), g, tr, NoVar, u, m_), LAMBDA m :
             IF mpz_cmp_ui(m, g, 1) # 0 THEN Ret(ClearAll(m, <<g, tr>>), 0)
             ELSE Then(IF Siz(m, tr) >= 0 THEN m ELSE AddOrSub(m, tr, tr, m_, Siz(m, m_) >= 0), LAMBDA k :
                       Ret(ClearAll(mpz_swap(k, r, tr), <<g, tr>>), 1)))
=============================================================================
