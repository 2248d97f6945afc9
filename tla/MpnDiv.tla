------------------------------- MODULE MpnDiv -------------------------------
(***************************************************************************)
(* Division and base conversion of the mpn layer of mini-gmp.c.  A struct  *)
(* gmp_div_inverse is a record; a string of digits is a sequence, most     *)
(* significant first, so only the limbs are in memory.                     *)
(***************************************************************************)
EXTENDS Mpn, SequencesExt

(* Inverses: the divisor is shifted so that its high bit is set. *)

mpn_invert_limb(x) == mpn_invert_3by2(x, 0)

Inverse1(s, d1) == [shift |-> s, d1 |-> d1, d0 |-> 0, di |-> mpn_invert_limb(d1)]
Shifted1(d, s) == Inverse1(s, Shl(d, s))
mpn_div_qr_1_invert(d) == Shifted1(d, gmp_clz(d))

\* The two high limbs of a divisor, with the bits that the shift brings in.
Inverse2(s, d1, d0) == [shift |-> s, d1 |-> d1, d0 |-> d0, di |-> mpn_invert_3by2(d1, d0)]
Shifted2(d1, d0, below, s) ==
    Inverse2(s, Shl(d1, s) + Shr(d0, LimbBits - s), Shl(d0, s) + Shr(below, LimbBits - s))
mpn_div_qr_2_invert(d1, d0, below) == Shifted2(d1, d0, below, gmp_clz(d1))

mpn_div_qr_invert(M, dp, dn) ==
    IF dn = 1 THEN mpn_div_qr_1_invert(Ld(M, dp, 0))
    ELSE mpn_div_qr_2_invert(Ld(M, dp, dn - 1), Ld(M, dp, dn - 2),
                             IF dn = 2 THEN 0 ELSE Ld(M, dp, dn - 3))

-----------------------------------------------------------------------------
(* Division.  The remainder replaces the numerator; qp may be NULL. *)

PutQ(M, qp, i, q) == IF qp = NULL THEN M ELSE St(M, qp, i, q)

\* A copy of n limbs shifted left, to be freed; ret is what was shifted out.
ShiftedCopy(M, np, nn, shift) ==
    IF shift = 0 THEN [m |-> Ret(M, 0), p |-> np]
    ELSE Let(gmp_xalloc_limbs(M, nn), LAMBDA m :
             [m |-> mpn_lshift(m, <<m.ret, 0>>, np, nn, shift), p |-> <<m.ret, 0>>])

\* mutant: the copy is not freed
MutFreeCopy(M, c, shift) == M

FreeCopy(M, c, shift) == IF shift = 0 THEN M ELSE gmp_free(M, c.p[1])

\* One limb of the quotient; ret is the remainder so far.
Digit1(M, qp, i, e) == Ret(PutQ(M, qp, i, e.q), e.r)

Digits1(M, qp, np, nn, inv) ==
    For(nn, M, LAMBDA m, k :
        Digit1(m, qp, nn - 1 - k, gmp_udiv_qrnnd_preinv(m.ret, Ld(m, np, nn - 1 - k), inv.d1, inv.di)))

Unshift1(M, shift) == Ret(M, Shr(M.ret, shift))

mpn_div_qr_1_preinv(M, qp, np, nn, inv) ==
    Let(ShiftedCopy(M, np, nn, inv.shift), LAMBDA c :
        Unshift1(FreeCopy(Digits1(c.m, qp, c.p, nn, inv), c, inv.shift), inv.shift))

mpn_div_qr_1(M, qp, np, nn, d) ==
    LET m == Assert_(M, d > 0)
        r == Ld(M, np, 0) % d
    IN  IF d \notin {2 ^ k : k \in 0 .. LimbBits - 1}
        THEN mpn_div_qr_1_preinv(m, qp, np, nn, mpn_div_qr_1_invert(d))
        ELSE IF qp = NULL THEN Ret(m, r)
        ELSE IF d = 1 THEN Ret(mpn_copyi(m, qp, np, nn), r)
        ELSE Ret(mpn_rshift(m, qp, np, nn, gmp_ctz(d)), r)

Digit2(M, qp, i, e) == [m |-> PutQ(M, qp, i, e.q), r1 |-> e.r1, r0 |-> e.r0]

Digits2(M, qp, np, nn, inv) ==
    For(nn - 1, [m |-> M, r1 |-> M.ret, r0 |-> Ld(M, np, nn - 1)], LAMBDA s, k :
        Digit2(s.m, qp, nn - 2 - k,
               gmp_udiv_qr_3by2(s.r1, s.r0, Ld(s.m, np, nn - 2 - k), inv.d1, inv.d0, inv.di)))

Unshift2(M, rp, r1, r0, sh) ==
    St(St(Assert_(M, r0 % 2 ^ sh = 0), rp, 1, Shr(r1, sh)), rp, 0, Shr(r0, sh) + Shl(r1, LimbBits - sh))

mpn_div_qr_2_preinv(M, qp, rp, np, nn, inv) ==
    Let(ShiftedCopy(Assert_(M, nn >= 2), np, nn, inv.shift), LAMBDA c :
    Let(Digits2(c.m, qp, c.p, nn, inv), LAMBDA t :
        Unshift2(FreeCopy(t.m, c, inv.shift), rp, t.r1, t.r0, inv.shift)))

\* Schoolbook division by three limbs or more: each quotient limb is estimated
\* from the high limbs and corrected when the subtraction borrows.
\* c holds the arguments; i is the position of the quotient limb, np = c.np + i.
PiLargest(M, c, i) == [m |-> PutQ(M, c.qp, i, B - 1), n1 |-> Ld(M, At(c.np, i), c.dn - 1)]

\* The borrow was not covered: the divisor was added back.
PiBack(M, c, i, q, n1) == [m |-> PutQ(M, c.qp, i, Wrap(q - 1)), n1 |-> Wrap(n1 + c.d1 + M.ret)]

PiHigh(M, c, i, q, hi) ==
    IF hi.cy = 0 THEN [m |-> PutQ(M, c.qp, i, q), n1 |-> hi.limb]
    ELSE PiBack(mpn_add_n(M, At(c.np, i), At(c.np, i), c.dp, c.dn - 1), c, i, q, hi.limb)

PiLow(M, c, i, e, lo) == PiHigh(St(M, At(c.np, i), c.dn - 2, lo.limb), c, i, e.q, Sub1Step(e.r1, lo.cy))

PiEstimated(M, c, i, e) ==
    Let(mpn_submul_1(M, At(c.np, i), c.dp, c.dn - 2, e.q), LAMBDA m :
        PiLow(m, c, i, e, Sub1Step(e.r0, m.ret)))

PiDigit(M, c, n1, n0, i) ==
    IF n1 = c.d1 /\ n0 = c.d0 THEN PiLargest(mpn_submul_1(M, At(c.np, i), c.dp, c.dn, B - 1), c, i)
    ELSE PiEstimated(M, c, i, gmp_udiv_qr_3by2(n1, n0, Ld(M, At(c.np, i), c.dn - 2), c.d1, c.d0, c.di))

PiLoop(M, c, nn, nh) ==
    Let(For(nn - c.dn + 1, [m |-> Assert_(M, c.dn > 2 /\ nn >= c.dn /\ c.d1 >= GMP_LIMB_HIGHBIT), n1 |-> nh],
            LAMBDA s, k : PiDigit(s.m, c, s.n1, Ld(s.m, c.np, nn - 1 - k), nn - c.dn - k)),
        LAMBDA t : St(t.m, c.np, c.dn - 1, t.n1))

mpn_div_qr_pi1(M, qp, np, nn, nh, dp, dn, dinv) ==
    PiLoop(M, [qp |-> qp, np |-> np, dp |-> dp, dn |-> dn, di |-> dinv,
               d1 |-> Ld(M, dp, dn - 1), d0 |-> Ld(M, dp, dn - 2)], nn, nh)

\* Three limbs or more: the numerator is shifted, and the remainder back.
mpn_div_qr_shifted(M, qp, np, nn, dp, dn, inv) ==
    Let(IF inv.shift = 0 THEN Ret(M, 0) ELSE mpn_lshift(M, np, np, nn, inv.shift), LAMBDA m :
    Let(mpn_div_qr_pi1(m, qp, np, nn, m.ret, dp, dn, inv.di), LAMBDA k :
        IF inv.shift = 0 THEN k ELSE gmp_assert_nocarry(mpn_rshift(k, np, np, dn, inv.shift))))

mpn_div_qr_preinv(M, qp, np, nn, dp, dn, inv) ==
    Let(Assert_(M, dn > 0 /\ nn >= dn), LAMBDA m :
        CASE dn = 1 -> Let(mpn_div_qr_1_preinv(m, qp, np, nn, inv), LAMBDA k : St(k, np, 0, k.ret))
          [] dn = 2 -> mpn_div_qr_2_preinv(m, qp, np, np, nn, inv)
          [] OTHER  -> mpn_div_qr_shifted(Assert_(m, /\ inv.d1 = Ld(M, dp, dn - 1)
                                                     /\ inv.d0 = Ld(M, dp, dn - 2)),
                                          qp, np, nn, dp, dn, inv))

mpn_div_qr(M, qp, np, nn, dp, dn) ==
    Let(mpn_div_qr_invert(M, dp, dn), LAMBDA inv :
    Let(IF dn > 2 THEN inv.shift ELSE 0, LAMBDA sh :
    Let(ShiftedCopy(Assert_(M, dn > 0 /\ nn >= dn), dp, dn, sh), LAMBDA c :
        FreeCopy(mpn_div_qr_preinv(gmp_assert_nocarry(c.m), qp, np, nn, c.p, dn, inv), c, sh))))

-----------------------------------------------------------------------------
(* Base conversion. *)

mpn_base_power_of_two_p(b) ==
    IF \E k \in 1 .. 8 : b = 2 ^ k THEN CHOOSE k \in 1 .. 8 : b = 2 ^ k ELSE 0

mpn_get_base_info(b) ==
    While([exp |-> 1, bb |-> b], LAMBDA s : s.bb <= (B - 1) \div b,
          LAMBDA s : [exp |-> s.exp + 1, bb |-> Wrap(s.bb * b)])

mpn_limb_size_in_base_2(u) == LimbBits - gmp_clz(u)

\* Digits of bits bits each; one may straddle two limbs.
mpn_get_str_bits(M, bits, up, un) ==
    LET sn == ((un - 1) * LimbBits + mpn_limb_size_in_base_2(Ld(M, up, un - 1)) + bits - 1) \div bits
        Digit(s, k) ==
            LET shift == s.shift + bits
                next  == shift >= LimbBits
                both  == next /\ s.i + 1 < un
                low   == Shr(Ld(M, up, s.i), s.shift)
                high  == Ld(M, up, s.i + 1) * 2 ^ (bits - (shift - LimbBits))
            IN  [i |-> s.i + Bit(next), shift |-> IF both THEN shift - LimbBits ELSE shift,
                 out |-> <<(IF both THEN low | high ELSE low) % 2 ^ bits>> \o s.out]
    IN  For(sn, [i |-> 0, shift |-> 0, out |-> <<>>], Digit).out

\* The digits of one limb, least significant first.
mpn_limb_get_str(M, w0, binv) ==
    While([m |-> M, w |-> w0, out |-> <<>>], LAMBDA s : s.w > 0, LAMBDA s :
          Let(gmp_udiv_qrnnd_preinv(Shr(s.w, LimbBits - binv.shift), Shl(s.w, binv.shift), binv.d1, binv.di),
              LAMBDA e : [m |-> Assert_(s.m, Shl(e.r, LimbBits - binv.shift) = 0), w |-> e.q,
                          out |-> Append(s.out, Shr(e.r, binv.shift))]))

\* The limbs are divided in place by the largest power of the base that fits
\* one; every group of digits but the highest is padded to exp digits.
PadDigits(g, n) == g \o [k \in 1 .. n - Len(g) |-> 0]

mpn_get_str_other(M, base, info, up, un0) ==
    Let(mpn_div_qr_1_invert(base), LAMBDA binv :
    Let(mpn_div_qr_1_invert(info.bb), LAMBDA bbinv :
    Let(While([m |-> M, un |-> un0, out |-> <<>>], LAMBDA s : s.un > 1, LAMBDA s :
              Let(mpn_div_qr_1_preinv(s.m, up, up, s.un, bbinv), LAMBDA m :
              Let(mpn_limb_get_str(m, m.ret, binv), LAMBDA w :
                  [m |-> w.m, un |-> s.un - Bit(Ld(m, up, s.un - 1) = 0),
                   out |-> s.out \o PadDigits(w.out, info.exp)]))), LAMBDA t :
    Let(mpn_limb_get_str(t.m, Ld(t.m, up, 0), binv), LAMBDA w :
        [m |-> w.m, out |-> Reverse(t.out \o w.out)]))))

mpn_get_str(M, base, up, un) ==
    LET bits == mpn_base_power_of_two_p(base)
        m == Assert_(M, un > 0 /\ Ld(M, up, un - 1) > 0)
    IN  IF bits > 0 THEN [m |-> m, out |-> mpn_get_str_bits(m, bits, up, un)]
        ELSE mpn_get_str_other(m, base, mpn_get_base_info(base), up, un)

\* ret is the number of limbs written.
mpn_set_str_bits(M, rp, sp, bits) ==
    LET \* d joins the current limb, and what does not fit starts the next one
        Join(s, m, d, shift) ==
            CASE shift < LimbBits -> [m |-> m, rn |-> s.rn, shift |-> shift]
              [] shift = LimbBits -> [m |-> m, rn |-> s.rn, shift |-> 0]
              [] OTHER -> [m |-> St(m, rp, s.rn, Shr(d, bits - (shift - LimbBits))), rn |-> s.rn + 1,
                           shift |-> shift - LimbBits]
        Digit(s, d) ==
            IF s.shift = 0 THEN [m |-> St(s.m, rp, s.rn, d), rn |-> s.rn + 1, shift |-> bits]
            ELSE Join(s, St(s.m, rp, s.rn - 1, Ld(s.m, rp, s.rn - 1) | Shl(d, s.shift)), d, s.shift + bits)
    IN  Let(For(Len(sp), [m |-> M, rn |-> 0, shift |-> 0], LAMBDA s, k : Digit(s, sp[Len(sp) - k])),
            LAMBDA t : Ret(t.m, mpn_normalized_size(t.m, rp, t.rn)))

\* The value of some digits, accumulated in a limb.
LimbOfDigits(b, ds) == For(Len(ds), 0, LAMBDA w, i : Wrap(w * b + ds[i + 1]))

\* rp * bb + w, rn limbs and perhaps one more.
PushWord(M, rp, rn, bb, w) ==
    Let(mpn_mul_1(M, rp, rp, rn, bb), LAMBDA m1 :
    Let(mpn_add_1(m1, rp, rp, rn, w), LAMBDA m2 :
    Let(Wrap(m1.ret + m2.ret), LAMBDA cy : IF cy > 0 THEN Ret(St(m2, rp, rn, cy), rn + 1) ELSE Ret(m2, rn))))

mpn_set_str_other(M, rp, sp, b, info) ==
    LET sn == Len(sp)
        k0 == 1 + ((sn - 1) % info.exp)
        Word(j, n) == LimbOfDigits(b, SubSeq(sp, j + 1, j + n))
    IN  For((sn - k0) \div info.exp, Ret(St(Assert_(M, sn > 0), rp, 0, Word(0, k0)), 1),
            LAMBDA m, g : PushWord(m, rp, m.ret, info.bb, Word(k0 + g * info.exp, info.exp)))

mpn_set_str(M, rp, sp, base) ==
    LET bits == mpn_base_power_of_two_p(base)
    IN  IF sp = <<>> THEN Ret(M, 0)
        ELSE IF bits > 0 THEN mpn_set_str_bits(M, rp, sp, bits)
        ELSE mpn_set_str_other(M, rp, sp, base, mpn_get_base_info(base))
=============================================================================
