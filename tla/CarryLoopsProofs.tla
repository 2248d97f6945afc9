-------------------------- MODULE CarryLoopsProofs --------------------------
(***************************************************************************)
(* CarryExact is an inductive invariant of CarryLoops.                     *)
(***************************************************************************)
EXTENDS CarryLoops, LimbProofs

\* Storing one more limb keeps the number below the next weight.
LEMMA StoredRange ==
  ASSUME NEW P \in Nat, P > 0, NEW R \in 0 .. P - 1, NEW l \in Limbs
  PROVE  P * B \in Nat \ {0} /\ R + P * l \in 0 .. P * B - 1
<1>0. B \in Nat /\ B >= 4 /\ l \in Nat /\ l < B BY BPositive, LimbRange
<1>1. l * P + P <= B * P BY <1>0, MulMonotone
<1>2. l * P = P * l /\ B * P = P * B BY <1>0
<1>3. P * l \in Nat /\ P * B \in Nat BY <1>0
<1> QED BY <1>1, <1>2, <1>3

\* Before the first iteration the equations of the loops hold.
THEOREM CarryInit == LoopInit => CarryExact
<1> SUFFICES ASSUME LoopInit PROVE CarryExact OBVIOUS
<1>1. 0 \in Limbs /\ vlimb \in Nat BY BPositive, LimbRange DEF Limbs, LoopInit
<1>2. Ranges BY <1>1 DEF LoopInit, Ranges, CarryIsOperand, CarryBit, CarryLimb
<1>3. Equation BY <1>1 DEF LoopInit, Equation, CarryIsOperand
<1> QED BY <1>2, <1>3 DEF CarryExact

\* One iteration of any of the loops preserves them: one case for each function,
\* which is the theorem about its body multiplied by the weight of the position.
THEOREM CarryStep ==
  ASSUME CarryExact, NEW u \in Limbs, NEW v \in Limbs, Iterate(u, v)
  PROVE  CarryExact'
<1> DEFINE l == Body(u, v).limb
           d == Body(u, v).cy
<1>0. B \in Nat /\ B >= 4 BY BPositive
<1>1. Ranges /\ Equation BY DEF CarryExact
<1>2. /\ u \in Nat /\ v \in Nat /\ cl \in Nat /\ vlimb \in Nat
      /\ weight \in Nat /\ weight > 0 /\ rval \in Int /\ uval \in Int /\ vval \in Int /\ nlimbs \in Nat
  BY <1>1, LimbRange DEF Ranges
<1>3. /\ nlimbs' = nlimbs + 1 /\ weight' = weight * B /\ uval' = uval + weight * u /\ vval' = vval + weight * v
      /\ rval' = rval + weight * l /\ cl' = d /\ loop' = loop /\ vlimb' = vlimb
  BY DEF Iterate
<1>4. /\ weight * u \in Int /\ weight * v \in Int /\ uval * vlimb \in Int /\ u * vlimb \in Int
      /\ weight * (u * vlimb) \in Int /\ (weight * B) \in Int /\ weight * cl \in Int
  BY <1>0, <1>2
<1>5. uval' * vlimb = uval * vlimb + weight * (u * vlimb) BY <1>2, <1>3
<1>6. SUFFICES /\ l \in Limbs /\ d \in Limbs
               /\ loop \in CarryBit \cup CarryIsOperand => d \in 0 .. 1
               /\ Equation'
  <2>1. weight * B \in Nat \ {0} /\ rval + weight * l \in 0 .. weight * B - 1 BY <1>1, <1>2, <1>6, StoredRange DEF Ranges
  <2>2. uval' \in Int /\ vval' \in Int BY <1>2, <1>3, <1>4
  <2>3. Ranges' BY <1>1, <1>2, <1>3, <1>6, <2>1, <2>2 DEF Ranges
  <2> QED BY <1>6, <2>3 DEF CarryExact
<1>7. CASE loop = "mpn_add_n"
  <2>1. Body(u, v) = AddStep(u, v, cl) BY <1>7 DEF Body
  <2>2. cl \in 0 .. 1 BY <1>1, <1>7 DEF Ranges, CarryBit
  <2>3. l \in Limbs /\ d \in 0 .. 1 /\ l + B * d = u + v + cl BY <2>1, <2>2, AddStepExact
  <2> HIDE DEF l, d
  <2>4. l \in Nat /\ d \in Nat /\ d \in Limbs BY <1>0, <2>3, LimbRange DEF Limbs
  <2>5. rval + weight * cl = uval + vval BY <1>1, <1>7 DEF Equation
  <2>6. weight * (l + B * d) = weight * (u + v + cl) BY <2>3
  <2>7. /\ weight * l \in Int /\ (weight * B) * d \in Int
        /\ weight * (l + B * d) = weight * l + (weight * B) * d
    BY <1>0, <1>2, <2>4
  <2>8. weight * (u + v + cl) = weight * u + weight * v + weight * cl BY <1>2, <1>4
  <2>9. (rval + weight * l) + (weight * B) * d = (uval + weight * u) + (vval + weight * v)
    BY <1>2, <1>4, <2>5, <2>6, <2>7, <2>8
  <2>10. Equation' BY <1>3, <1>7, <2>9 DEF Equation
  <2> QED BY <2>3, <2>4, <2>10
<1>8. CASE loop = "mpn_sub_n"
  <2>1. Body(u, v) = SubStep(u, v, cl) BY <1>8 DEF Body
  <2>2. cl \in 0 .. 1 BY <1>1, <1>8 DEF Ranges, CarryBit
  <2>3. l \in Limbs /\ d \in 0 .. 1 /\ l = u - v - cl + B * d BY <2>1, <2>2, SubStepExact
  <2> HIDE DEF l, d
  <2>4. l \in Nat /\ d \in Nat /\ d \in Limbs BY <1>0, <2>3, LimbRange DEF Limbs
  <2>5. rval = uval - vval + weight * cl BY <1>1, <1>8 DEF Equation
  <2>6. weight * (l - B * d) = weight * (u - v - cl)
    <3>1. l - B * d = u - v - cl BY <1>0, <1>2, <1>4, <2>3, <2>4
    <3> QED BY <3>1
  <2>7. /\ weight * l \in Int /\ (weight * B) * d \in Int
        /\ weight * (l - B * d) = weight * l - (weight * B) * d
    BY <1>0, <1>2, <2>4
  <2>8. weight * (u - v - cl) = weight * u - weight * v - weight * cl BY <1>2, <1>4
  <2>9. (rval + weight * l) = (uval + weight * u) - (vval + weight * v) + (weight * B) * d
    BY <1>2, <1>4, <2>5, <2>6, <2>7, <2>8
  <2>10. Equation' BY <1>3, <1>8, <2>9 DEF Equation
  <2> QED BY <2>3, <2>4, <2>10
<1>9. CASE loop = "mpn_add_1"
  <2>1. Body(u, v) = Add1Step(u, cl) BY <1>9 DEF Body
  <2>2. cl \in Limbs BY <1>1, <1>9 DEF Ranges
  <2>3. l \in Limbs /\ d \in 0 .. 1 /\ l + B * d = u + cl BY <2>1, <2>2, Add1StepExact
  <2> HIDE DEF l, d
  <2>4. l \in Nat /\ d \in Nat /\ d \in Limbs BY <1>0, <2>3, LimbRange DEF Limbs
  <2>5. rval + weight * cl = uval + vlimb BY <1>1, <1>9 DEF Equation
  <2>6. weight * (l + B * d) = weight * (u + cl) BY <2>3
  <2>7. /\ weight * l \in Int /\ (weight * B) * d \in Int
        /\ weight * (l + B * d) = weight * l + (weight * B) * d
    BY <1>0, <1>2, <2>4
  <2>8. weight * (u + cl) = weight * u + weight * cl BY <1>2, <1>4
  <2>9. (rval + weight * l) + (weight * B) * d = (uval + weight * u) + vlimb
    BY <1>2, <1>4, <2>5, <2>6, <2>7, <2>8
  <2>10. Equation' BY <1>3, <1>9, <2>9 DEF Equation
  <2> QED BY <2>3, <2>4, <2>10
<1>10. CASE loop = "mpn_sub_1"
  <2>1. Body(u, v) = Sub1Step(u, cl) BY <1>10 DEF Body
  <2>2. cl \in Limbs BY <1>1, <1>10 DEF Ranges
  <2>3. l \in Limbs /\ d \in 0 .. 1 /\ l = u - cl + B * d BY <2>1, <2>2, Sub1StepExact
  <2> HIDE DEF l, d
  <2>4. l \in Nat /\ d \in Nat /\ d \in Limbs BY <1>0, <2>3, LimbRange DEF Limbs
  <2>5. rval = uval - vlimb + weight * cl BY <1>1, <1>10 DEF Equation
  <2>6. weight * (l - B * d) = weight * (u - cl)
    <3>1. l - B * d = u - cl BY <1>0, <1>2, <1>4, <2>3, <2>4
    <3> QED BY <3>1
  <2>7. /\ weight * l \in Int /\ (weight * B) * d \in Int
        /\ weight * (l - B * d) = weight * l - (weight * B) * d
    BY <1>0, <1>2, <2>4
  <2>8. weight * (u - cl) = weight * u - weight * cl BY <1>2, <1>4
  <2>9. (rval + weight * l) = (uval + weight * u) - vlimb + (weight * B) * d
    BY <1>2, <1>4, <2>5, <2>6, <2>7, <2>8
  <2>10. Equation' BY <1>3, <1>10, <2>9 DEF Equation
  <2> QED BY <2>3, <2>4, <2>10
<1>11. CASE loop = "mpn_mul_1"
  <2>1. Body(u, v) = MulStep(u, vlimb, cl) BY <1>11 DEF Body
  <2>2. cl \in Limbs /\ vlimb \in Limbs BY <1>1, <1>11 DEF Ranges
  <2>3. l \in Limbs /\ d \in Limbs /\ l + B * d = u * vlimb + cl BY <2>1, <2>2, MulStepExact
  <2> HIDE DEF l, d
  <2>4. l \in Nat /\ d \in Nat /\ d \in Limbs BY <1>0, <2>3, LimbRange DEF Limbs
  <2>5. rval + weight * cl = uval * vlimb BY <1>1, <1>11 DEF Equation
  <2>6. weight * (l + B * d) = weight * (u * vlimb + cl) BY <2>3
  <2>7. /\ weight * l \in Int /\ (weight * B) * d \in Int
        /\ weight * (l + B * d) = weight * l + (weight * B) * d
    BY <1>0, <1>2, <2>4
  <2>8. weight * (u * vlimb + cl) = weight * (u * vlimb) + weight * cl BY <1>2, <1>4
  <2>9. (rval + weight * l) + (weight * B) * d = (uval * vlimb + weight * (u * vlimb))
    BY <1>2, <1>4, <2>5, <2>6, <2>7, <2>8
  <2>10. Equation' BY <1>3, <1>5, <1>11, <2>9 DEF Equation
  <2> QED BY <1>11, <2>3, <2>4, <2>10 DEF CarryBit, CarryIsOperand
<1>12. CASE loop = "mpn_addmul_1"
  <2>1. Body(u, v) = AddmulStep(v, u, vlimb, cl) BY <1>12 DEF Body
  <2>2. cl \in Limbs /\ vlimb \in Limbs BY <1>1, <1>12 DEF Ranges
  <2>3. l \in Limbs /\ d \in Limbs /\ l + B * d = v + u * vlimb + cl BY <2>1, <2>2, AddmulStepExact
  <2> HIDE DEF l, d
  <2>4. l \in Nat /\ d \in Nat /\ d \in Limbs BY <1>0, <2>3, LimbRange DEF Limbs
  <2>5. rval + weight * cl = vval + uval * vlimb BY <1>1, <1>12 DEF Equation
  <2>6. weight * (l + B * d) = weight * (v + u * vlimb + cl) BY <2>3
  <2>7. /\ weight * l \in Int /\ (weight * B) * d \in Int
        /\ weight * (l + B * d) = weight * l + (weight * B) * d
    BY <1>0, <1>2, <2>4
  <2>8. weight * (v + u * vlimb + cl) = weight * v + weight * (u * vlimb) + weight * cl BY <1>2, <1>4
  <2>9. (rval + weight * l) + (weight * B) * d = (vval + weight * v) + (uval * vlimb + weight * (u * vlimb))
    BY <1>2, <1>4, <2>5, <2>6, <2>7, <2>8
  <2>10. Equation' BY <1>3, <1>5, <1>12, <2>9 DEF Equation
  <2> QED BY <1>12, <2>3, <2>4, <2>10 DEF CarryBit, CarryIsOperand
<1>13. CASE loop = "mpn_submul_1"
  <2>1. Body(u, v) = SubmulStep(v, u, vlimb, cl) BY <1>13 DEF Body
  <2>2. cl \in Limbs /\ vlimb \in Limbs BY <1>1, <1>13 DEF Ranges
  <2>3. l \in Limbs /\ d \in Limbs /\ l = v - u * vlimb - cl + B * d BY <2>1, <2>2, SubmulStepExact
  <2> HIDE DEF l, d
  <2>4. l \in Nat /\ d \in Nat /\ d \in Limbs BY <1>0, <2>3, LimbRange DEF Limbs
  <2>5. rval = vval - uval * vlimb + weight * cl BY <1>1, <1>13 DEF Equation
  <2>6. weight * (l - B * d) = weight * (v - u * vlimb - cl)
    <3>1. l - B * d = v - u * vlimb - cl BY <1>0, <1>2, <1>4, <2>3, <2>4
    <3> QED BY <3>1
  <2>7. /\ weight * l \in Int /\ (weight * B) * d \in Int
        /\ weight * (l - B * d) = weight * l - (weight * B) * d
    BY <1>0, <1>2, <2>4
  <2>8. weight * (v - u * vlimb - cl) = weight * v - weight * (u * vlimb) - weight * cl BY <1>2, <1>4
  <2>9. (rval + weight * l) = (vval + weight * v) - (uval * vlimb + weight * (u * vlimb)) + (weight * B) * d
    BY <1>2, <1>4, <2>5, <2>6, <2>7, <2>8
  <2>10. Equation' BY <1>3, <1>5, <1>13, <2>9 DEF Equation
  <2> QED BY <1>13, <2>3, <2>4, <2>10 DEF CarryBit, CarryIsOperand
<1> QED BY <1>1, <1>7, <1>8, <1>9, <1>10, <1>11, <1>12, <1>13 DEF Ranges, CarryBit, CarryIsOperand, CarryLimb

\* The seven carry loops of mini-gmp.c compute exactly what they should, for every
\* word size and every number of limbs.
THEOREM CarryAlwaysExact == LoopSpec => []CarryExact
<1>1. LoopInit => CarryExact BY CarryInit
<1>2. CarryExact /\ [LoopNext]_loopVars => CarryExact'
  <2> SUFFICES ASSUME CarryExact, [LoopNext]_loopVars PROVE CarryExact' OBVIOUS
  <2>1. CASE LoopNext BY <2>1, CarryStep DEF LoopNext
  <2>2. CASE UNCHANGED loopVars BY <2>2 DEF loopVars, CarryExact, Ranges, Equation
  <2> QED BY <2>1, <2>2
<1> QED BY <1>1, <1>2, PTL DEF LoopSpec
=============================================================================
