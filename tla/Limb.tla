-------------------------------- MODULE Limb --------------------------------
(***************************************************************************)
(* One-limb arithmetic: the macros at the top of mini-gmp.c, the bodies of *)
(* the carry loops of its mpn functions, and the same primitives of        *)
(* overlays/uint64gmp.h.  A limb is an unsigned word: every sum, difference *)
(* and product the code stores in an mp_limb_t is taken modulo B.  H is    *)
(* GMP_HLIMB_BIT, the base of half a limb, and B = H * H, so that the      *)
(* theorems of LimbProofs hold for every word width.                       *)
(***************************************************************************)
EXTENDS Integers

CONSTANT H

ASSUME HalfLimbAssumption == H \in Nat /\ H >= 2

B == H * H
Limbs == 0 .. B - 1

\* An assignment to an mp_limb_t, and a comparison used as an integer.
Wrap(x) == x % B
Bit(c) == IF c THEN 1 ELSE 0

-----------------------------------------------------------------------------
(* Two-limb sums, differences and products. *)

gmp_add_ssaaaa(ah, al, bh, bl) ==
    LET x == Wrap(al + bl)
    IN  [hi |-> Wrap(ah + bh + Bit(x < al)), lo |-> x]

gmp_sub_ddmmss(ah, al, bh, bl) ==
    [hi |-> Wrap(ah - bh - Bit(al < bl)), lo |-> Wrap(al - bl)]

gmp_umul_ppmm(u, v) ==
    LET ul == u % H
        uh == u \div H
        vl == v % H
        vh == v \div H
        x0 == ul * vl
        x2 == uh * vl
        x1 == Wrap(Wrap(ul * vh + x0 \div H) + x2)
        x3 == Wrap(uh * vh + (IF x1 < x2 THEN H ELSE 0))
    IN  [hi |-> Wrap(x3 + x1 \div H), lo |-> Wrap(Wrap(x1 * H) + (x0 % H))]

-----------------------------------------------------------------------------
(* The bodies of the carry loops: the limb stored and the carry kept. *)

\* mutant: a carry is seen where there is none
MutAdd1Step(a, b) ==
    LET r == Wrap(a + b) IN [limb |-> r, cy |-> Bit(r <= b)]

Add1Step(a, b) ==
    LET r == Wrap(a + b) IN [limb |-> r, cy |-> Bit(r < b)]

AddStep(a, b, cy) ==
    LET s == Wrap(a + cy)
        r == Wrap(s + b)
    IN  [limb |-> r, cy |-> Bit(s < cy) + Bit(r < b)]

Sub1Step(a, b) == [limb |-> Wrap(a - b), cy |-> Bit(a < b)]

SubStep(a, b, cy) ==
    LET t == Wrap(b + cy)
    IN  [limb |-> Wrap(a - t), cy |-> Bit(t < cy) + Bit(a < t)]

AddCarry(p, cl) ==
    LET l == Wrap(p.lo + cl) IN [limb |-> l, cy |-> Wrap(Bit(l < cl) + p.hi)]

MulStep(ul, vl, cl) == AddCarry(gmp_umul_ppmm(ul, vl), cl)

\* mutant: a carry is counted when nothing was added
MutAddProduct(rl, p) ==
    LET l == Wrap(rl + p.limb) IN [limb |-> l, cy |-> Wrap(p.cy + Bit(l <= rl))]

AddProduct(rl, p) ==
    LET l == Wrap(rl + p.limb) IN [limb |-> l, cy |-> Wrap(p.cy + Bit(l < rl))]

AddmulStep(rl, ul, vl, cl) == AddProduct(rl, MulStep(ul, vl, cl))

SubProduct(rl, p) ==
    LET l == Wrap(rl - p.limb) IN [limb |-> l, cy |-> Wrap(p.cy + Bit(l > rl))]

SubmulStep(rl, ul, vl, cl) == SubProduct(rl, MulStep(ul, vl, cl))

-----------------------------------------------------------------------------
(* Division by an invariant limb, or pair of limbs, through its inverse:   *)
(* an estimate of the quotient from a product, then its corrections.       *)

Correct2by1(q, ql, r, d) ==
    LET big == r > ql
        s   == IF big THEN Wrap(r + d) ELSE r
    IN  IF s >= d THEN [q |-> Wrap(q - Bit(big) + 1), r |-> s - d]
                  ELSE [q |-> Wrap(q - Bit(big)), r |-> s]

Estimate2by1(e, nl, d) == Correct2by1(e.hi, e.lo, Wrap(nl - e.hi * d), d)

Estimate(p, bh, bl) == gmp_add_ssaaaa(p.hi, p.lo, bh, bl)

\* <<nh, nl>> by d, which has its high bit set and the 2/1 inverse di.
gmp_udiv_qrnnd_preinv(nh, nl, d, di) ==
    Estimate2by1(Estimate(gmp_umul_ppmm(nh, di), Wrap(nh + 1), nl), nl, d)

Correct3by2(q, r, d1, d0) ==
    IF r.hi > d1 \/ (r.hi = d1 /\ r.lo >= d0)
    THEN LET s == gmp_sub_ddmmss(r.hi, r.lo, d1, d0) IN [q |-> Wrap(q + 1), r1 |-> s.hi, r0 |-> s.lo]
    ELSE [q |-> q, r1 |-> r.hi, r0 |-> r.lo]

Adjust3by2(e, r, d1, d0) ==
    IF r.hi >= e.lo THEN Correct3by2(e.hi, gmp_add_ssaaaa(r.hi, r.lo, d1, d0), d1, d0)
                    ELSE Correct3by2(Wrap(e.hi + 1), r, d1, d0)

Subtract(x, y) == gmp_sub_ddmmss(x.hi, x.lo, y.hi, y.lo)

Estimate3by2(e, n1, n0, d1, d0) ==
    Adjust3by2(e, Subtract(gmp_sub_ddmmss(Wrap(n1 - d1 * e.hi), n0, d1, d0), gmp_umul_ppmm(d0, e.hi)), d1, d0)

\* <<n2, n1, n0>> by <<d1, d0>>, whose 3/2 inverse is dinv.
gmp_udiv_qr_3by2(n2, n1, n0, d1, d0, dinv) ==
    Estimate3by2(Estimate(gmp_umul_ppmm(n2, dinv), n2, n1), n1, n0, d1, d0)

\* The adjustment steps of udiv_qrnnd_c: r is short of p, so q goes down, twice
\* unless adding d overflowed.
HalfQuotient(q, r, p, d) ==
    LET r2 == Wrap(r + d)
    IN  IF r >= p THEN [q |-> q, r |-> r - p]
        ELSE IF r2 >= d /\ r2 < p THEN [q |-> q - 2, r |-> Wrap(Wrap(r2 + d) - p)]
        ELSE [q |-> q - 1, r |-> Wrap(r2 - p)]

InvertHigh(u1, q) ==
    HalfQuotient(q, Wrap(Wrap(B - 1 - u1 - q * (u1 \div H)) * H) + H - 1, Wrap(q * (u1 % H)), u1)

\* The low half of the 2/1 inverse: q and r come from the high half.
InvertFix(q, ql, r, p, u1) ==
    LET back == r >= Wrap(p * H)
        m    == Wrap(q * H + ql - Bit(back))
        r2   == IF back THEN Wrap(r + u1) ELSE r
    IN  IF r2 >= u1 THEN [m |-> Wrap(m + 1), r |-> r2 - u1] ELSE [m |-> m, r |-> r2]

InvertEstimate(h, ql, p, u1) == InvertFix(h.q, ql, Wrap(Wrap(h.r * H) + H - 1 - ql * u1), p, u1)
InvertLow(h, p, u1) == InvertEstimate(h, p \div H + 1, p, u1)
InvertHalves(h, u1) == InvertLow(h, Wrap((h.r \div H) * h.q + h.r), u1)

\* The 2/1 inverse of u1 and the remainder that goes with it.
InvertLimb(u1) == InvertHalves(InvertHigh(u1, ((B - 1 - u1) \div (u1 \div H)) % H), u1)

\* From the 2/1 inverse to the 3/2 inverse.
Fix3by2(m, r, t, u1, u0) ==
    LET s == Wrap(r + t.hi)
    IN  IF s >= t.hi THEN m ELSE Wrap(m - 1 - Bit(s > u1 \/ (s = u1 /\ t.lo > u0)))

Refine3by2(m, r, u1, u0) == Fix3by2(m, r, gmp_umul_ppmm(u0, m), u1, u0)

Lower3by2(m, r, u1, u0) ==
    IF r >= u0 THEN Refine3by2(m, r, u1, u0)
    ELSE IF r >= u1 THEN Refine3by2(Wrap(m - 2), Wrap(r - u1 - u1), u1, u0)
    ELSE Refine3by2(Wrap(m - 1), Wrap(r - u1), u1, u0)

Invert3by2(i, u1, u0) == IF u0 = 0 THEN i.m ELSE Lower3by2(i.m, Wrap(B - 1 - i.r + u0), u1, u0)

mpn_invert_3by2(u1, u0) == Invert3by2(InvertLimb(u1), u1, u0)

-----------------------------------------------------------------------------
(* overlays/uint64gmp.h: what extracted code calls for these primitives. *)

add64_with_carry(x, y, c) ==
    LET r == Wrap(x + y + c)
    IN  [limb |-> r, cy |-> IF r = x THEN c ELSE Bit(r < x)]

sub64_with_borrow(x, y, b) ==
    LET r == Wrap(x - y - b)
    IN  [limb |-> r, cy |-> IF r > x THEN 1 ELSE IF r = x THEN b ELSE 0]

add64_3(x, y, z) ==
    LET r == Wrap(x + y)
        s == Wrap(r + z)
    IN  [limb |-> s, cy |-> Bit(r < y) + Bit(s < z)]

\* One half of __udiv_qrnnd_c: <<n, half limb l>> by d.
DivHalf(n, l, q, d) ==
    HalfQuotient(q, Wrap(Wrap(n - q * (d \div H)) * H) + l, Wrap(q * (d % H)), d)

DivLow(h, l, d) ==
    LET q == h.r \div (d \div H)
    IN  Wrap(h.q * H) + DivHalf(h.r, l, q, d).q      \* "|" of operands that share no bit

div64_2by1(ul, uh, d) == DivLow(DivHalf(uh, ul \div H, uh \div (d \div H), d), ul % H, d)

\* cnt in 1 .. 63, given as the power p of two; H * H \div p is the power of 64 - cnt.
lsld64(x, p) == [hi |-> x \div (B \div p), lo |-> Wrap(x * p)]
=============================================================================
