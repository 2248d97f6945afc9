----------------------------- MODULE CarryLoops -----------------------------
(***************************************************************************)
(* The loops of mini-gmp.c that carry a limb along: mpn_add_n, mpn_sub_n,  *)
(* mpn_add_1, mpn_sub_1, mpn_mul_1, mpn_addmul_1 and mpn_submul_1, one     *)
(* iteration per step.  Mpn runs the same bodies on memory, with their     *)
(* reads, stores and overlaps; here an operand is the value of the limbs   *)
(* read so far, and `weight` the value of the next position, so that what  *)
(* the loops compute can be stated, and proved, for every word size and    *)
(* every number of limbs.                                                  *)
(***************************************************************************)
EXTENDS Limb

CONSTANT MaxLimbs  \* bound: iterations of a loop

VARIABLES
  loop,    \* the function that is running
  vlimb,   \* its limb operand, where it has one
  nlimbs,  \* iterations done
  weight,  \* B to the power nlimbs
  uval,    \* value of the limbs read from the first operand
  vval,    \* value of those of the second one, or of those rp held before
  rval,    \* value of the limbs stored
  cl       \* the carry, borrow or high limb that goes into the next iteration

loopVars == <<loop, vlimb, nlimbs, weight, uval, vval, rval, cl>>

CarryBit == {"mpn_add_n", "mpn_sub_n"}
CarryIsOperand == {"mpn_add_1", "mpn_sub_1"}
CarryLimb == {"mpn_mul_1", "mpn_addmul_1", "mpn_submul_1"}

\* mpn_add_1 and mpn_sub_1 start with their operand as the carry.
LoopInit ==
  /\ loop \in CarryBit \cup CarryIsOperand \cup CarryLimb
  /\ vlimb \in Limbs
  /\ nlimbs = 0 /\ weight = 1
  /\ uval = 0 /\ vval = 0 /\ rval = 0
  /\ cl = IF loop \in CarryIsOperand THEN vlimb ELSE 0

\* The body of the loop on the limbs u and v of the operands.
Body(u, v) ==
  CASE loop = "mpn_add_n"    -> AddStep(u, v, cl)
    [] loop = "mpn_sub_n"    -> SubStep(u, v, cl)
    [] loop = "mpn_add_1"    -> Add1Step(u, cl)
    [] loop = "mpn_sub_1"    -> Sub1Step(u, cl)
    [] loop = "mpn_mul_1"    -> MulStep(u, vlimb, cl)
    [] loop = "mpn_addmul_1" -> AddmulStep(v, u, vlimb, cl)
    [] loop = "mpn_submul_1" -> SubmulStep(v, u, vlimb, cl)

Iterate(u, v) ==
  /\ nlimbs < MaxLimbs
  /\ nlimbs' = nlimbs + 1
  /\ weight' = weight * B
  /\ uval' = uval + weight * u
  /\ vval' = vval + weight * v
  /\ rval' = rval + weight * Body(u, v).limb
  /\ cl' = Body(u, v).cy
  /\ UNCHANGED <<loop, vlimb>>

LoopNext == \E u, v \in Limbs : Iterate(u, v)

LoopSpec == LoopInit /\ [][LoopNext]_loopVars

-----------------------------------------------------------------------------
(* Properties *)

Ranges ==
  /\ loop \in CarryBit \cup CarryIsOperand \cup CarryLimb
  /\ vlimb \in Limbs /\ cl \in Limbs
  /\ nlimbs \in Nat /\ weight \in Nat \ {0}
  /\ uval \in Int /\ vval \in Int
  /\ rval \in 0 .. weight - 1
  /\ loop \in CarryBit => cl \in 0 .. 1
  /\ loop \in CarryIsOperand /\ nlimbs > 0 => cl \in 0 .. 1

Equation ==
  /\ loop = "mpn_add_n"    => rval + weight * cl = uval + vval
  /\ loop = "mpn_sub_n"    => rval = uval - vval + weight * cl
  /\ loop = "mpn_add_1"    => rval + weight * cl = uval + vlimb
  /\ loop = "mpn_sub_1"    => rval = uval - vlimb + weight * cl
  /\ loop = "mpn_mul_1"    => rval + weight * cl = uval * vlimb
  /\ loop = "mpn_addmul_1" => rval + weight * cl = vval + uval * vlimb
  /\ loop = "mpn_submul_1" => rval = vval - uval * vlimb + weight * cl

\* After any number of iterations, the limbs stored and the carry make up
\* exactly the sum, difference or product of the limbs read: no carry is lost or
\* counted twice where the code compares after a sum that wrapped, a high limb
\* has room for the carry added to it, and what the additions and subtractions
\* return is a single bit.
CarryExact == Ranges /\ Equation
=============================================================================
