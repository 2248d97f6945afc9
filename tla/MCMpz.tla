------------------------------- MODULE MCMpz --------------------------------
EXTENDS MpzMachine

MCSmall == {0, 1, 2, 3, 63, 64, 4095}
MCValues == MCSmall \cup {-v : v \in MCSmall}

\* The limbs nobody wrote, and how many of them, go with the values.
MCStarts == {[x |-> v, y |-> w, z |-> -65, spare |-> (v + w) % 2, junk |-> IF v < w THEN 0 ELSE B - 1] :
                v, w \in MCValues}
=============================================================================
