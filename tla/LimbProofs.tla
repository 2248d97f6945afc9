----------------------------- MODULE LimbProofs -----------------------------
(***************************************************************************)
(* The loop bodies of Limb are exact for every word size: each limb and    *)
(* carry they produce represent the sum, difference or product they are    *)
(* named for.  Products of unknowns are beyond the solver unless each one  *)
(* is a name of its own, so the proofs name them and hide the definitions. *)
(***************************************************************************)
EXTENDS Limb, TLAPS

\* The base of a limb is a number of at least four.
LEMMA BPositive == B \in Nat /\ B >= 4 /\ B = H * H
<1>1. H \in Nat /\ H >= 2 BY HalfLimbAssumption
<1>2. H * H >= 2 * H BY <1>1
<1> QED BY <1>1, <1>2 DEF B

\* Division with remainder by a positive number.
LEMMA DivMod ==
  ASSUME NEW x \in Int, NEW m \in Nat, m > 0
  PROVE  /\ x \div m \in Int /\ x % m \in 0 .. m - 1
         /\ x = (x \div m) * m + (x % m)
OBVIOUS

\* A larger factor makes a product larger by at least the other factor.
LEMMA MulMonotone ==
  ASSUME NEW a \in Int, NEW b \in Int, NEW m \in Nat, a < b
  PROVE  a * m + m <= b * m
<1>1. a + 1 <= b OBVIOUS
<1>2. (b - (a + 1)) * m >= 0 BY <1>1
<1>3. (b - (a + 1)) * m = b * m - a * m - m OBVIOUS
<1> QED BY <1>2, <1>3

\* Quotient and remainder are unique.
LEMMA DivUnique ==
  ASSUME NEW m \in Nat, m > 0, NEW q \in Int, NEW k \in Int, NEW r \in 0 .. m - 1, NEW s \in 0 .. m - 1,
         q * m + r = k * m + s
  PROVE  q = k /\ r = s
<1>1. q * m \in Int /\ k * m \in Int OBVIOUS
<1>2. CASE q < k BY <1>1, <1>2, MulMonotone
<1>3. CASE k < q BY <1>1, <1>3, MulMonotone
<1>4. CASE q = k BY <1>1, <1>4
<1> QED BY <1>2, <1>3, <1>4

\* An assignment to a limb drops every multiple of the base.
LEMMA WrapUnique ==
  ASSUME NEW k \in Int, NEW r \in Limbs
  PROVE  Wrap(k * B + r) = r
<1>1. B \in Nat /\ B > 0 BY BPositive
<1>2. r \in 0 .. B - 1 BY DEF Limbs
<1> DEFINE x == k * B + r
<1>3. x \in Int BY <1>1, <1>2
<1>4. /\ x \div B \in Int /\ x % B \in 0 .. B - 1
      /\ x = (x \div B) * B + (x % B)
  BY <1>1, <1>3, DivMod
<1> HIDE DEF x
<1>5. (x \div B) * B + (x % B) = k * B + r BY <1>4 DEF x
<1>6. x % B = r BY <1>1, <1>2, <1>4, <1>5, DivUnique
<1> QED BY <1>6 DEF Wrap, x

\* A sum of two limbs wraps at most once,
LEMMA WrapTwo ==
  ASSUME NEW x \in Int, x >= 0, x < 2 * B
  PROVE  Wrap(x) = IF x < B THEN x ELSE x - B
BY BPositive DEF Wrap

\* and so does a difference.
LEMMA WrapNeg ==
  ASSUME NEW x \in Int, x >= -B, x < B
  PROVE  Wrap(x) = IF x >= 0 THEN x ELSE x + B
BY BPositive DEF Wrap

\* The body of mpn_add_n: the limb stored and the carry kept are the sum of the
\* two limbs and the carry, although the carry is recovered by comparing sums that
\* may have wrapped.
THEOREM AddStepExact ==
  ASSUME NEW a \in Limbs, NEW b \in Limbs, NEW cy \in 0 .. 1
  PROVE  LET s == AddStep(a, b, cy) IN s.limb \in Limbs /\ s.cy \in 0 .. 1 /\ s.limb + B * s.cy = a + b + cy
<1>0. B \in Nat /\ B >= 4 BY BPositive
<1>1. a \in Nat /\ a < B /\ b \in Nat /\ b < B BY <1>0 DEF Limbs
<1>2. Wrap(a + cy) = IF a + cy < B THEN a + cy ELSE a + cy - B BY <1>0, <1>1, WrapTwo
<1> DEFINE s == Wrap(a + cy)
<1>3. s \in Nat /\ s < B BY <1>0, <1>1, <1>2
<1>4. Wrap(s + b) = IF s + b < B THEN s + b ELSE s + b - B BY <1>0, <1>1, <1>3, WrapTwo
<1> QED BY <1>0, <1>1, <1>2, <1>4 DEF AddStep, Bit, Limbs

\* What it means to be a limb.
LEMMA LimbRange == ASSUME NEW a \in Limbs PROVE a \in Nat /\ a < B
BY BPositive DEF Limbs

\* The body of mpn_sub_n: limb and borrow are the difference, also where the
\* borrow makes the subtrahend wrap to zero.
THEOREM SubStepExact ==
  ASSUME NEW a \in Limbs, NEW b \in Limbs, NEW cy \in 0 .. 1
  PROVE  LET s == SubStep(a, b, cy) IN s.limb \in Limbs /\ s.cy \in 0 .. 1 /\ s.limb = a - b - cy + B * s.cy
<1>0. B \in Nat /\ B >= 4 BY BPositive
<1>1. a \in Nat /\ a < B /\ b \in Nat /\ b < B BY LimbRange
<1>2. Wrap(b + cy) = IF b + cy < B THEN b + cy ELSE b + cy - B BY <1>0, <1>1, WrapTwo
<1> DEFINE t == Wrap(b + cy)
<1>3. t \in Nat /\ t < B BY <1>0, <1>1, <1>2
<1>4. Wrap(a - t) = IF a - t >= 0 THEN a - t ELSE a - t + B BY <1>0, <1>1, <1>3, WrapNeg
<1> QED BY <1>0, <1>1, <1>2, <1>4 DEF SubStep, Bit, Limbs

\* The body of mpn_add_1 is exact.
THEOREM Add1StepExact ==
  ASSUME NEW a \in Limbs, NEW b \in Limbs
  PROVE  LET s == Add1Step(a, b) IN s.limb \in Limbs /\ s.cy \in 0 .. 1 /\ s.limb + B * s.cy = a + b
<1>0. B \in Nat /\ B >= 4 BY BPositive
<1>1. a \in Nat /\ a < B /\ b \in Nat /\ b < B BY LimbRange
<1>2. Wrap(a + b) = IF a + b < B THEN a + b ELSE a + b - B BY <1>0, <1>1, WrapTwo
<1> QED BY <1>0, <1>1, <1>2 DEF Add1Step, Bit, Limbs

\* The body of mpn_sub_1 is exact.
THEOREM Sub1StepExact ==
  ASSUME NEW a \in Limbs, NEW b \in Limbs
  PROVE  LET s == Sub1Step(a, b) IN s.limb \in Limbs /\ s.cy \in 0 .. 1 /\ s.limb = a - b + B * s.cy
<1>0. B \in Nat /\ B >= 4 BY BPositive
<1>1. a \in Nat /\ a < B /\ b \in Nat /\ b < B BY LimbRange
<1>2. Wrap(a - b) = IF a - b >= 0 THEN a - b ELSE a - b + B BY <1>0, <1>1, WrapNeg
<1> QED BY <1>0, <1>1, <1>2 DEF Sub1Step, Bit, Limbs

\* A limb is made of two half limbs.
LEMMA Halves ==
  ASSUME NEW u \in Limbs
  PROVE  /\ u \div H \in 0 .. H - 1 /\ u % H \in 0 .. H - 1
         /\ u = (u \div H) * H + (u % H)
<1>0. H \in Nat /\ H >= 2 /\ B = H * H BY HalfLimbAssumption, BPositive
<1>1. u \in Nat /\ u < H * H BY <1>0, LimbRange
<1>2. /\ u \div H \in Int /\ u % H \in 0 .. H - 1
      /\ u = (u \div H) * H + (u % H) BY <1>0, <1>1, DivMod
<1> DEFINE q == u \div H
<1> HIDE DEF q
<1>3. q \in Int /\ q * H \in Int /\ q * H <= u /\ u < q * H + H BY <1>0, <1>2 DEF q
<1>4. ~(q < 0) BY <1>0, <1>1, <1>3, MulMonotone
<1>5. ~(H - 1 < q) BY <1>0, <1>1, <1>3, MulMonotone
<1>6. q \in 0 .. H - 1 BY <1>0, <1>3, <1>4, <1>5
<1> QED BY <1>2, <1>6 DEF q

\* The largest product of two numbers below m.
LEMMA ProductBound ==
  ASSUME NEW m \in Nat, m > 0, NEW a \in 0 .. m - 1, NEW b \in 0 .. m - 1
  PROVE  a * b \in Nat /\ a * b <= m * m - 2 * m + 1
<1>1. (m - 1 - a) * b >= 0 OBVIOUS
<1>2. (m - 1) * (m - 1 - b) >= 0 OBVIOUS
<1>3. (m - 1 - a) * b = (m - 1) * b - a * b OBVIOUS
<1>4. (m - 1) * (m - 1 - b) = (m - 1) * (m - 1) - (m - 1) * b OBVIOUS
<1>5. (m - 1) * (m - 1) = m * m - 2 * m + 1 OBVIOUS
<1> QED BY <1>1, <1>2, <1>3, <1>4, <1>5

\* gmp_umul_ppmm: the two limbs built from four half products are the product of
\* the two limbs, and the middle sum overflows exactly when the code adds the half
\* limb to the high part.
THEOREM UmulExact ==
  ASSUME NEW u \in Limbs, NEW v \in Limbs
  PROVE  LET p == gmp_umul_ppmm(u, v) IN
         p.hi \in Limbs /\ p.lo \in Limbs /\ p.hi * B + p.lo = u * v
<1>0. H \in Nat /\ H >= 2 /\ B = H * H /\ B \in Nat /\ B >= 4 BY HalfLimbAssumption, BPositive
<1> DEFINE ul == u % H
           uh == u \div H
           vl == v % H
           vh == v \div H
           x0 == ul * vl
           x2 == uh * vl
           y  == ul * vh
           z  == uh * vh
           a  == x0 \div H
           b  == x0 % H
           t  == y + a
           x1 == Wrap(Wrap(t) + x2)
           c  == IF x1 < x2 THEN 1 ELSE 0
           g  == x1 \div H
           l  == x1 % H
           hi == z + c * H + g
           lo == l * H + b
<1>1. ul \in 0 .. H - 1 /\ uh \in 0 .. H - 1 /\ vl \in 0 .. H - 1 /\ vh \in 0 .. H - 1
      /\ u = uh * H + ul /\ v = vh * H + vl
  BY Halves
<1> HIDE DEF ul, uh, vl, vh
<1>2. /\ x0 \in Nat /\ x0 <= B - 2 * H + 1
      /\ x2 \in Nat /\ x2 <= B - 2 * H + 1
      /\ y \in Nat /\ y <= B - 2 * H + 1
      /\ z \in Nat /\ z <= B - 2 * H + 1
  BY <1>0, <1>1, ProductBound
<1>3. u * v = z * B + (y + x2) * H + x0
  <2>1. u * v = (uh * H + ul) * (vh * H + vl) BY <1>1
  <2>2. (uh * H + ul) * (vh * H + vl) = (uh * vh) * (H * H) + (ul * vh + uh * vl) * H + ul * vl
    BY <1>0, <1>1
  <2> QED BY <1>0, <2>1, <2>2
<1> HIDE DEF x0, x2, y, z
<1>4. x0 \in Limbs BY <1>0, <1>2 DEF Limbs
<1>5. a \in 0 .. H - 1 /\ b \in 0 .. H - 1 /\ x0 = a * H + b BY <1>4, Halves
<1> HIDE DEF a, b
<1>6. t \in Nat /\ t < B /\ Wrap(t) = t BY <1>0, <1>2, <1>5, WrapTwo
<1> HIDE DEF t
<1>7. x1 \in Nat /\ x1 < B /\ t + x2 = x1 + c * B
  <2>1. x1 = IF t + x2 < B THEN t + x2 ELSE t + x2 - B BY <1>0, <1>2, <1>6, WrapTwo
  <2> QED BY <1>0, <1>2, <1>6, <2>1
<1>8. c \in 0 .. 1 OBVIOUS
<1> HIDE DEF x1, c
<1>9. g \in 0 .. H - 1 /\ l \in 0 .. H - 1 /\ x1 = g * H + l
  <2>1. x1 \in Limbs BY <1>0, <1>7 DEF Limbs
  <2> QED BY <2>1, Halves
<1> HIDE DEF g, l
<1>10. u * v = hi * B + lo
  <2>1. y + a + x2 = g * H + l + c * B BY <1>7, <1>9 DEF t
  <2>2. u * v = z * B + (y + x2 + a) * H + b
    <3>1. (y + x2 + a) * H = (y + x2) * H + a * H BY <1>0, <1>2, <1>5
    <3> QED BY <1>0, <1>2, <1>3, <1>5, <3>1
  <2>3. (y + x2 + a) * H = (g * H + l + c * B) * H
    <3>1. y + x2 + a = g * H + l + c * B BY <1>2, <1>5, <2>1
    <3> QED BY <3>1
  <2>4. (g * H + l + c * B) * H = g * (H * H) + l * H + (c * H) * B BY <1>0, <1>8, <1>9
  <2>5. hi * B = z * B + (c * H) * B + g * B BY <1>0, <1>2, <1>8, <1>9
  <2>6. u * v = z * B + (g * (H * H) + l * H + (c * H) * B) + b BY <2>2, <2>3, <2>4
  <2>7. z * B \in Int /\ g * B \in Int /\ (c * H) * B \in Int /\ l * H \in Int /\ b \in Int
    BY <1>0, <1>2, <1>5, <1>8, <1>9
  <2>8. g * (H * H) = g * B BY <1>0
  <2> QED BY <2>5, <2>6, <2>7, <2>8
<1>11. lo \in Limbs
  <2>1. l * H + H <= H * H
    <3>1. CASE l = H - 1 BY <1>0, <1>9, <3>1
    <3>2. CASE l < H - 1 BY <1>0, <1>9, <3>2, MulMonotone
    <3> QED BY <1>0, <1>9, <3>1, <3>2
  <2>2. l * H \in Nat BY <1>0, <1>9
  <2> QED BY <1>0, <1>5, <2>1, <2>2 DEF Limbs
<1>12. hi \in Nat /\ hi < B
  <2>1. u \in 0 .. B - 1 /\ v \in 0 .. B - 1 BY DEF Limbs
  <2>2. u * v \in Nat /\ u * v < B * B BY <1>0, <2>1, ProductBound
  <2>3. hi \in Nat BY <1>0, <1>2, <1>8, <1>9
  <2>4. hi * B \in Nat /\ hi * B < B * B BY <1>0, <1>10, <1>11, <2>2, <2>3 DEF Limbs
  <2>5. ~(B - 1 < hi)
    <3>1. (B - 1) * B = B * B - B BY <1>0
    <3> QED BY <1>0, <2>3, <2>4, <3>1, MulMonotone
  <2> QED BY <1>0, <2>3, <2>5
<1>13. /\ c * H \in Nat /\ c * H = IF x1 < x2 THEN H ELSE 0
       /\ z + c * H \in Nat /\ z + c * H <= hi
  BY <1>0, <1>2, <1>8, <1>9 DEF c
<1>14. Wrap(z + (IF x1 < x2 THEN H ELSE 0)) = z + c * H BY <1>0, <1>12, <1>13, WrapTwo
<1>15. Wrap(z + c * H + g) = hi BY <1>0, <1>12, WrapTwo
<1>16. Wrap(x1 * H) = l * H
  <2>1. x1 * H = g * B + l * H
    <3>1. (g * H + l) * H = g * (H * H) + l * H BY <1>0, <1>9
    <3> QED BY <1>0, <1>9, <3>1
  <2>2. l * H \in Limbs BY <1>0, <1>5, <1>9, <1>11 DEF Limbs
  <2> QED BY <1>9, <2>1, <2>2, WrapUnique
<1>17. Wrap(l * H + b) = lo BY <1>0, <1>11, WrapTwo DEF Limbs
<1>18. gmp_umul_ppmm(u, v) = [hi |-> hi, lo |-> lo]
  <2>1. gmp_umul_ppmm(u, v) = [hi |-> Wrap(Wrap(z + (IF x1 < x2 THEN H ELSE 0)) + g), lo |-> Wrap(Wrap(x1 * H) + b)]
    BY DEF gmp_umul_ppmm, x1, t, x0, x2, y, z, a, b, g, ul, uh, vl, vh
  <2> QED BY <2>1, <1>14, <1>15, <1>16, <1>17
<1> HIDE DEF hi, lo
<1>19. hi \in Limbs BY <1>0, <1>12 DEF Limbs
<1> QED BY <1>10, <1>11, <1>18, <1>19

\* Two-limb numbers compare by their high limbs.
LEMMA HighLimb ==
  ASSUME NEW h \in Int, NEW l \in Nat, NEW k \in Int, h * B + l < k * B
  PROVE  h < k
<1>0. B \in Nat /\ B >= 4 BY BPositive
<1>1. h * B \in Int /\ k * B \in Int BY <1>0
<1>2. CASE k < h BY <1>0, <1>1, <1>2, MulMonotone
<1>3. CASE k = h BY <1>1, <1>3
<1> QED BY <1>2, <1>3

\* The body of mpn_mul_1: the high limb of a product has room for the carry.
THEOREM MulStepExact ==
  ASSUME NEW u \in Limbs, NEW v \in Limbs, NEW cl \in Limbs
  PROVE  LET s == MulStep(u, v, cl) IN
         s.limb \in Limbs /\ s.cy \in Limbs /\ s.limb + B * s.cy = u * v + cl
<1>0. B \in Nat /\ B >= 4 BY BPositive
<1> DEFINE p == gmp_umul_ppmm(u, v)
           hi == p.hi
           lo == p.lo
           w  == u * v
<1>1. hi \in Limbs /\ lo \in Limbs /\ hi * B + lo = w BY UmulExact
<1>2. w \in Nat /\ w <= B * B - 2 * B + 1
  <2>1. u \in 0 .. B - 1 /\ v \in 0 .. B - 1 BY DEF Limbs
  <2> QED BY <1>0, <2>1, ProductBound
<1>3. MulStep(u, v, cl) = [limb |-> Wrap(lo + cl), cy |-> Wrap(Bit(Wrap(lo + cl) < cl) + hi)]
  BY DEF MulStep, AddCarry
<1> HIDE DEF p, hi, lo, w
<1>4. hi \in Nat /\ hi < B /\ lo \in Nat /\ lo < B /\ cl \in Nat /\ cl < B BY <1>1, LimbRange
<1>5. Wrap(lo + cl) = IF lo + cl < B THEN lo + cl ELSE lo + cl - B BY <1>0, <1>4, WrapTwo
<1>6. hi < B - 1
  <2>1. (B - 1) * B = B * B - B BY <1>0
  <2>2. hi * B + lo < (B - 1) * B BY <1>0, <1>1, <1>2, <2>1
  <2> QED BY <1>0, <1>4, <2>2, HighLimb
<1> DEFINE c == Bit(Wrap(lo + cl) < cl)
<1>7. c \in 0 .. 1 /\ Wrap(lo + cl) + B * c = lo + cl BY <1>0, <1>4, <1>5 DEF Bit
<1> DEFINE l == Wrap(lo + cl)
<1>8. l \in Limbs BY <1>0, <1>4, <1>5 DEF Limbs
<1> HIDE DEF c, l
<1>9. Wrap(c + hi) = c + hi /\ c + hi \in Limbs BY <1>0, <1>4, <1>6, <1>7, WrapTwo DEF Limbs
<1>10. l + B * (c + hi) = w + cl
  <2>1. B * (c + hi) = B * c + hi * B BY <1>0, <1>4, <1>7
  <2>2. l \in Int /\ B * c \in Int /\ hi * B \in Int BY <1>0, <1>4, <1>7, <1>8 DEF Limbs
  <2> QED BY <1>1, <1>4, <1>7, <2>1, <2>2 DEF l
<1> QED BY <1>3, <1>8, <1>9, <1>10 DEF l, c, w

\* The body of mpn_addmul_1: it has room for a second one as well.
THEOREM AddmulStepExact ==
  ASSUME NEW r \in Limbs, NEW u \in Limbs, NEW v \in Limbs, NEW cl \in Limbs
  PROVE  LET s == AddmulStep(r, u, v, cl) IN
         s.limb \in Limbs /\ s.cy \in Limbs /\ s.limb + B * s.cy = r + u * v + cl
<1>0. B \in Nat /\ B >= 4 BY BPositive
<1> DEFINE p == MulStep(u, v, cl)
           cy == p.cy
           m  == p.limb
           w  == u * v
           l  == Wrap(r + m)
           c  == Bit(l < r)
<1>1. m \in Limbs /\ cy \in Limbs /\ m + B * cy = w + cl BY MulStepExact
<1>2. w \in Nat /\ w <= B * B - 2 * B + 1
  <2>1. u \in 0 .. B - 1 /\ v \in 0 .. B - 1 BY DEF Limbs
  <2> QED BY <1>0, <2>1, ProductBound
<1>3. AddmulStep(r, u, v, cl) = [limb |-> l, cy |-> Wrap(cy + c)] BY DEF AddmulStep, AddProduct
<1> HIDE DEF p, cy, m, w
<1>4. /\ m \in Nat /\ m < B /\ cy \in Nat /\ cy < B /\ r \in Nat /\ r < B /\ cl \in Nat /\ cl < B
  BY <1>1, LimbRange
<1>5. l = IF r + m < B THEN r + m ELSE r + m - B BY <1>0, <1>4, WrapTwo
<1>6. l \in Limbs /\ c \in 0 .. 1 /\ l + B * c = r + m BY <1>0, <1>4, <1>5 DEF Bit, Limbs
<1> HIDE DEF l, c
<1>7. l + B * (cy + c) = r + w + cl
  <2>1. B * (cy + c) = B * cy + B * c BY <1>0, <1>4, <1>6
  <2>2. l \in Int /\ B * c \in Int /\ B * cy \in Int BY <1>0, <1>4, <1>6 DEF Limbs
  <2> QED BY <1>1, <1>2, <1>4, <1>6, <2>1, <2>2
<1>8. cy + c < B
  <2>1. (cy + c) * B = B * (cy + c) /\ (cy + c) * B \in Int BY <1>0, <1>4, <1>6
  <2>2. B * B \in Int BY <1>0
  <2>3. (cy + c) * B + l < B * B BY <1>0, <1>2, <1>4, <1>6, <1>7, <2>1, <2>2 DEF Limbs
  <2>4. l \in Nat BY <1>0, <1>6 DEF Limbs
  <2> QED BY <1>0, <1>4, <1>6, <2>3, <2>4, HighLimb
<1>9. Wrap(cy + c) = cy + c /\ cy + c \in Limbs BY <1>0, <1>4, <1>6, <1>8, WrapTwo DEF Limbs
<1> QED BY <1>3, <1>6, <1>7, <1>9 DEF w

\* The body of mpn_submul_1: product, borrow and high limb fit in a limb.
THEOREM SubmulStepExact ==
  ASSUME NEW r \in Limbs, NEW u \in Limbs, NEW v \in Limbs, NEW cl \in Limbs
  PROVE  LET s == SubmulStep(r, u, v, cl) IN
         s.limb \in Limbs /\ s.cy \in Limbs /\ s.limb = r - u * v - cl + B * s.cy
<1>0. B \in Nat /\ B >= 4 BY BPositive
<1> DEFINE p == MulStep(u, v, cl)
           cy == p.cy
           m  == p.limb
           w  == u * v
           l  == Wrap(r - m)
           c  == Bit(l > r)
<1>1. m \in Limbs /\ cy \in Limbs /\ m + B * cy = w + cl BY MulStepExact
<1>2. w \in Nat /\ w <= B * B - 2 * B + 1
  <2>1. u \in 0 .. B - 1 /\ v \in 0 .. B - 1 BY DEF Limbs
  <2> QED BY <1>0, <2>1, ProductBound
<1>3. SubmulStep(r, u, v, cl) = [limb |-> l, cy |-> Wrap(cy + c)] BY DEF SubmulStep, SubProduct
<1> HIDE DEF p, cy, m, w
<1>4. /\ m \in Nat /\ m < B /\ cy \in Nat /\ cy < B /\ r \in Nat /\ r < B /\ cl \in Nat /\ cl < B
  BY <1>1, LimbRange
<1>5. l = IF r - m >= 0 THEN r - m ELSE r - m + B BY <1>0, <1>4, WrapNeg
<1>6. l \in Limbs /\ c \in 0 .. 1 /\ l = r - m + B * c BY <1>0, <1>4, <1>5 DEF Bit, Limbs
<1>7. c = 1 => m > 0 BY <1>0, <1>4, <1>5 DEF Bit
<1> HIDE DEF l, c
<1>8. l = r - w - cl + B * (cy + c)
  <2>1. B * (cy + c) = B * cy + B * c BY <1>0, <1>4, <1>6
  <2>2. l \in Int /\ B * c \in Int /\ B * cy \in Int BY <1>0, <1>4, <1>6 DEF Limbs
  <2> QED BY <1>1, <1>2, <1>4, <1>6, <2>1, <2>2
<1>9. cy + c < B
  <2>1. CASE c = 0 BY <1>4, <2>1
  <2>2. CASE c = 1
    <3>1. (B - 1) * B = B * B - B /\ B * B \in Int BY <1>0
    <3>2. cy * B = B * cy /\ B * cy \in Int BY <1>0, <1>4
    <3>3. cy * B + 0 < (B - 1) * B BY <1>0, <1>1, <1>2, <1>4, <1>7, <2>2, <3>1, <3>2
    <3>4. cy < B - 1 BY <1>0, <1>4, <3>3, HighLimb
    <3> QED BY <1>0, <1>4, <2>2, <3>4
  <2> QED BY <1>6, <2>1, <2>2
<1>10. Wrap(cy + c) = cy + c /\ cy + c \in Limbs BY <1>0, <1>4, <1>6, <1>9, WrapTwo DEF Limbs
<1> QED BY <1>3, <1>6, <1>8, <1>10 DEF w

=============================================================================
