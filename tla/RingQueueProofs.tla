--------------------------- MODULE RingQueueProofs ---------------------------
(***************************************************************************)
(* Proofs about queue.c: for every element set and every initial capacity, *)
(* the circular buffer is well formed, never yields an unwritten cell, and *)
(* implements the first-in first-out queue.                                *)
(***************************************************************************)
EXTENDS RingQueue, TLAPS

\* Below twice the capacity, a wrapped index is at most one subtraction away.
LEMMA CellWrap ==
  ASSUME NEW c \in Nat \ {0}, NEW p \in 0 .. c - 1, NEW k \in 0 .. c
  PROVE  Cell(p, k, c) = IF p + k < c THEN p + k ELSE p + k - c
<1>1. p + k \in Nat /\ p + k < 2 * c
  OBVIOUS
<1>2. CASE p + k < c
  BY <1>1, <1>2 DEF Cell
<1>3. CASE ~ (p + k < c)
  <2>1. p + k - c \in 0 .. c - 1 /\ p + k = c * 1 + (p + k - c)
    BY <1>1, <1>3
  <2> QED BY <1>3, <2>1 DEF Cell
<1> QED BY <1>2, <1>3

\* The invariant of the circular buffer: well formed, and no occupied cell is
\* a cell that was never written.  The first conjunct alone is not inductive:
\* a queue_pop of a garbage cell would return something else than an element.
RingInv == RingTypeOK /\ NoGarbageQueued

\* What l occupied cells of an array d represent is a sequence of l elements.
LEMMA ContentsSeq ==
  ASSUME NEW d, NEW p, NEW c, NEW l \in Nat,
         \A k \in 0 .. l - 1 : d[Cell(p, k, c)] \in Elements,
         NEW s, s = [k \in 1 .. l |-> d[Cell(p, k - 1, c)]]
  PROVE  /\ s \in Seq(Elements)
         /\ Len(s) = l
         /\ \A k \in 1 .. l : s[k] = d[Cell(p, k - 1, c)]
<1>1. \A k \in 1 .. l : d[Cell(p, k - 1, c)] \in Elements
  <2> SUFFICES ASSUME NEW k \in 1 .. l PROVE d[Cell(p, k - 1, c)] \in Elements
    OBVIOUS
  <2>1. k - 1 \in 0 .. l - 1
    OBVIOUS
  <2> QED BY <2>1
<1>2. s \in [1 .. l -> Elements]
  BY <1>1
<1> QED BY <1>2

LEMMA RingInitInv == InitQueue => RingInv
BY CapacityAssumption DEF InitQueue, RingInv, RingTypeOK, NoGarbageQueued

\* queue_pop advances the pointer by one cell modulo the capacity, so that
\* the k-th element becomes the (k-1)-th.
LEMMA PopShifts ==
  ASSUME RingInv, QueuePop
  PROVE  /\ RingTypeOK'
         /\ len' = len - 1 /\ len > 0
         /\ popped' = data[Cell(pointer, 0, capacity)]
         /\ \A k \in 0 .. len' - 1 :
              data'[Cell(pointer', k, capacity')] = data[Cell(pointer, k + 1, capacity)]
<1> USE DEF RingInv, RingTypeOK
<1>1. /\ capacity' = capacity /\ data' = data /\ len' = len - 1
      /\ popped' = data[pointer] /\ len > 0
  BY DEF QueuePop
<1>2. pointer' = IF pointer + 1 < capacity THEN pointer + 1 ELSE 0
  <2>1. Cell(pointer, 1, capacity)
          = IF pointer + 1 < capacity THEN pointer + 1 ELSE pointer + 1 - capacity
    BY CellWrap
  <2> QED BY <2>1 DEF QueuePop
<1>3. Cell(pointer, 0, capacity) = pointer
  BY CellWrap
<1>4. data[pointer] \in Elements
  BY <1>1, <1>3 DEF NoGarbageQueued
<1>5. RingTypeOK'
  BY <1>1, <1>2, <1>4
<1>6. ASSUME NEW k \in 0 .. len' - 1
      PROVE  data'[Cell(pointer', k, capacity')] = data[Cell(pointer, k + 1, capacity)]
  <2>1. pointer' \in 0 .. capacity - 1 /\ k \in 0 .. capacity /\ k + 1 \in 0 .. capacity
    BY <1>1, <1>2
  <2>2. Cell(pointer', k, capacity)
          = IF pointer' + k < capacity THEN pointer' + k ELSE pointer' + k - capacity
    BY <2>1, CellWrap
  <2>3. Cell(pointer, k + 1, capacity)
          = IF pointer + (k + 1) < capacity THEN pointer + (k + 1)
            ELSE pointer + (k + 1) - capacity
    BY <2>1, CellWrap
  <2>4. Cell(pointer', k, capacity) = Cell(pointer, k + 1, capacity)
    BY <1>2, <2>1, <2>2, <2>3
  <2> QED BY <1>1, <2>4
<1> QED BY <1>1, <1>3, <1>5, <1>6

\* queue_push, with or without a resize, leaves the occupied cells with their
\* contents in place and puts the new element right after them.
LEMMA PushAppends ==
  ASSUME RingInv, NEW e \in Elements, QueuePush(e)
  PROVE  /\ RingTypeOK'
         /\ len' = len + 1 /\ popped' = popped
         /\ data'[Cell(pointer', len, capacity')] = e
         /\ \A k \in 0 .. len - 1 :
              data'[Cell(pointer', k, capacity')] = data[Cell(pointer, k, capacity)]
<1> USE DEF RingInv, RingTypeOK
<1>1. CASE len # capacity
  <2>1. /\ data' = [data EXCEPT ![Cell(pointer, len, capacity)] = e]
        /\ len' = len + 1 /\ pointer' = pointer /\ capacity' = capacity
        /\ popped' = popped
    BY <1>1 DEF QueuePush, SimplePush
  <2>2. len \in 0 .. capacity - 1
    BY <1>1
  <2>3. \A k \in 0 .. capacity :
          Cell(pointer, k, capacity)
            = IF pointer + k < capacity THEN pointer + k ELSE pointer + k - capacity
    BY CellWrap
  <2>4. Cell(pointer, len, capacity) \in 0 .. capacity - 1
    BY <2>2, <2>3
  <2>5. ASSUME NEW k \in 0 .. len - 1
        PROVE  Cell(pointer, k, capacity) # Cell(pointer, len, capacity)
    BY <2>2, <2>3
  <2>6. ASSUME NEW k \in 0 .. len - 1
        PROVE  Cell(pointer, k, capacity) \in 0 .. capacity - 1
    BY <2>2, <2>3
  <2> QED BY <2>1, <2>2, <2>4, <2>5, <2>6
<1>2. CASE len = capacity
  <2>1. /\ data' = [ResizedData EXCEPT ![Cell(ResizedPointer, len, ResizedCapacity)] = e]
        /\ len' = len + 1 /\ pointer' = ResizedPointer /\ capacity' = ResizedCapacity
        /\ popped' = popped
    BY <1>2 DEF QueuePush, SimplePush
  <2>2. /\ ResizedCapacity = 2 * capacity
        /\ ResizedPointer = capacity + pointer
        /\ ResizedPointer \in 0 .. ResizedCapacity - 1
        /\ ResizedCapacity \in Nat \ {0}
    BY DEF ResizedCapacity, ResizedPointer
  <2>3. \A k \in 0 .. ResizedCapacity :
          Cell(ResizedPointer, k, ResizedCapacity)
            = IF ResizedPointer + k < ResizedCapacity THEN ResizedPointer + k
              ELSE ResizedPointer + k - ResizedCapacity
    BY <2>2, CellWrap
  <2>4. \A k \in 0 .. capacity :
          Cell(pointer, k, capacity)
            = IF pointer + k < capacity THEN pointer + k ELSE pointer + k - capacity
    BY CellWrap
  <2>5. Cell(ResizedPointer, len, ResizedCapacity) = pointer
    BY <1>2, <2>2, <2>3
  <2>6. \A i \in 0 .. ResizedCapacity - 1 :
          ResizedData[i] = IF i >= ResizedPointer THEN data[i - ResizedPointer + pointer]
                           ELSE IF i < capacity THEN data[i] ELSE Garbage
    BY DEF ResizedData
  <2>7. ResizedData \in [0 .. ResizedCapacity - 1 -> Elements \cup {Garbage}]
    <3>1. \A i \in 0 .. ResizedCapacity - 1 : ResizedData[i] \in Elements \cup {Garbage}
      BY <2>2, <2>6
    <3> QED BY <3>1 DEF ResizedData
  <2>8. ASSUME NEW k \in 0 .. len - 1
        PROVE  data'[Cell(ResizedPointer, k, ResizedCapacity)] = data[Cell(pointer, k, capacity)]
    <3>1. CASE pointer + k < capacity
      <4>1. Cell(ResizedPointer, k, ResizedCapacity) = ResizedPointer + k
        BY <1>2, <2>2, <2>3, <3>1
      <4>2. ResizedData[ResizedPointer + k] = data[pointer + k]
        BY <1>2, <2>2, <2>6, <3>1
      <4> QED BY <1>2, <2>1, <2>2, <2>4, <2>5, <2>7, <3>1, <4>1, <4>2
    <3>2. CASE ~ (pointer + k < capacity)
      <4>1. Cell(ResizedPointer, k, ResizedCapacity) = pointer + k - capacity
        BY <1>2, <2>2, <2>3, <3>2
      <4>2. ResizedData[pointer + k - capacity] = data[pointer + k - capacity]
        BY <1>2, <2>2, <2>6, <3>2
      <4> QED BY <1>2, <2>1, <2>2, <2>4, <2>5, <2>7, <3>2, <4>1, <4>2
    <3> QED BY <3>1, <3>2
  <2> QED BY <1>2, <2>1, <2>2, <2>5, <2>7, <2>8
<1> QED BY <1>1, <1>2

LEMMA RingStepInv == RingInv /\ [RingNext]_ringVars => RingInv'
<1> SUFFICES ASSUME RingInv, [RingNext]_ringVars PROVE RingInv'
  OBVIOUS
<1>1. CASE QueuePop
  <2>1. \A k \in 0 .. len' - 1 : data'[Cell(pointer', k, capacity')] \in Elements
    <3> SUFFICES ASSUME NEW k \in 0 .. len' - 1
                 PROVE  data'[Cell(pointer', k, capacity')] \in Elements
      OBVIOUS
    <3>1. /\ len' = len - 1
          /\ data'[Cell(pointer', k, capacity')] = data[Cell(pointer, k + 1, capacity)]
      BY <1>1, PopShifts
    <3>2. k + 1 \in 0 .. len - 1
      <4>1. len \in Nat
        BY DEF RingInv, RingTypeOK
      <4> QED BY <3>1, <4>1
    <3> QED BY <3>1, <3>2 DEF RingInv, NoGarbageQueued
  <2> QED BY <1>1, <2>1, PopShifts DEF RingInv, NoGarbageQueued
<1>2. ASSUME NEW e \in Elements, QueuePush(e) PROVE RingInv'
  <2>1. \A k \in 0 .. len' - 1 : k \in 0 .. len - 1 \/ k = len
    BY <1>2, PushAppends DEF RingInv, RingTypeOK
  <2>2. \A k \in 0 .. len' - 1 : data'[Cell(pointer', k, capacity')] \in Elements
    BY <1>2, <2>1, PushAppends DEF RingInv, NoGarbageQueued
  <2> QED BY <1>2, <2>2, PushAppends DEF RingInv, NoGarbageQueued
<1>3. CASE UNCHANGED ringVars
  BY <1>3 DEF ringVars, RingInv, RingTypeOK, NoGarbageQueued
<1> QED BY <1>1, <1>2, <1>3 DEF RingNext

\* In every reachable state of queue.c the pointer and the length stay within
\* the array, and every occupied cell holds an element that was pushed.
THEOREM RingSafe == RingSpec => [](RingTypeOK /\ NoGarbageQueued)
<1>1. RingInv => RingTypeOK /\ NoGarbageQueued
  BY DEF RingInv
<1> QED BY <1>1, RingInitInv, RingStepInv, PTL DEF RingSpec

\* A step of queue.c is a step of the abstract queue.
LEMMA RingStepRefines ==
  RingInv /\ RingInv' /\ [RingNext]_ringVars
    => [AbstractFifo!FifoNext]_(AbstractFifo!fifoVars)
<1> SUFFICES ASSUME RingInv, RingInv', [RingNext]_ringVars
             PROVE  [AbstractFifo!FifoNext]_(AbstractFifo!fifoVars)
  OBVIOUS
<1> USE DEF AbstractFifo!FifoNext, AbstractFifo!fifoVars
<1>1. /\ Contents \in Seq(Elements) /\ Len(Contents) = len
      /\ \A k \in 1 .. len : Contents[k] = data[Cell(pointer, k - 1, capacity)]
  BY ContentsSeq DEF Contents, RingInv, RingTypeOK, NoGarbageQueued
<1>2. /\ Contents' \in Seq(Elements) /\ Len(Contents') = len'
      /\ \A k \in 1 .. len' : Contents'[k] = data'[Cell(pointer', k - 1, capacity')]
  <2>1. len' \in Nat
    BY DEF RingInv, RingTypeOK
  <2>2. \A k \in 0 .. len' - 1 : data'[Cell(pointer', k, capacity')] \in Elements
    BY DEF RingInv, NoGarbageQueued
  <2>3. Contents' = [k \in 1 .. len' |-> data'[Cell(pointer', k - 1, capacity')]]
    BY DEF Contents
  <2> DEFINE s == Contents'
             d == data'
             p == pointer'
             l == len'
             c == capacity'
  <2>4. l \in Nat /\ (\A k \in 0 .. l - 1 : d[Cell(p, k, c)] \in Elements)
        /\ s = [k \in 1 .. l |-> d[Cell(p, k - 1, c)]]
    BY <2>1, <2>2, <2>3
  <2> HIDE DEF s, d, p, l, c
  <2>5. s \in Seq(Elements) /\ Len(s) = l /\ \A k \in 1 .. l : s[k] = d[Cell(p, k - 1, c)]
    BY <2>4, ContentsSeq
  <2> QED BY <2>5 DEF s, d, p, l, c
<1>3. len \in Nat /\ len' \in Nat
  BY DEF RingInv, RingTypeOK
<1>4. CASE QueuePop
  <2>1. len' = len - 1 /\ len > 0 /\ popped' = data[Cell(pointer, 0, capacity)]
    BY <1>4, PopShifts
  <2>2. Contents # <<>> /\ popped' = Head(Contents)
    BY <1>1, <1>3, <2>1
  <2>3. \A k \in 1 .. len' : Contents'[k] = Contents[k + 1]
    <3> SUFFICES ASSUME NEW k \in 1 .. len' PROVE Contents'[k] = Contents[k + 1]
      OBVIOUS
    <3>1. k - 1 \in 0 .. len' - 1 /\ k + 1 \in 1 .. len /\ (k - 1) + 1 = (k + 1) - 1
      BY <1>3, <2>1
    <3>2. data'[Cell(pointer', k - 1, capacity')] = data[Cell(pointer, (k - 1) + 1, capacity)]
      BY <1>4, <3>1, PopShifts
    <3> QED BY <1>1, <1>2, <3>1, <3>2
  <2>4. Contents' = Tail(Contents)
    BY <1>1, <1>2, <1>3, <2>1, <2>2, <2>3
  <2> QED BY <2>2, <2>4 DEF AbstractFifo!FifoPop
<1>5. ASSUME NEW e \in Elements, QueuePush(e) PROVE AbstractFifo!FifoPush(e)
  <2>1. len' = len + 1 /\ popped' = popped
        /\ data'[Cell(pointer', len, capacity')] = e
    BY <1>5, PushAppends
  <2>2. \A k \in 1 .. len : Contents'[k] = Contents[k]
    <3> SUFFICES ASSUME NEW k \in 1 .. len PROVE Contents'[k] = Contents[k]
      OBVIOUS
    <3>1. k - 1 \in 0 .. len - 1 /\ k \in 1 .. len'
      BY <1>3, <2>1
    <3>2. data'[Cell(pointer', k - 1, capacity')] = data[Cell(pointer, k - 1, capacity)]
      BY <1>5, <3>1, PushAppends
    <3> QED BY <1>1, <1>2, <3>1, <3>2
  <2>3. Contents'[len + 1] = e
    <3>1. len + 1 \in 1 .. len' /\ (len + 1) - 1 = len
      BY <1>3, <2>1
    <3> QED BY <1>2, <2>1, <3>1
  <2>4. Contents' = Append(Contents, e)
    BY <1>1, <1>2, <1>3, <2>1, <2>2, <2>3
  <2> QED BY <2>1, <2>4 DEF AbstractFifo!FifoPush
<1>6. CASE UNCHANGED ringVars
  BY <1>6 DEF ringVars, Contents
<1> QED BY <1>4, <1>5, <1>6 DEF RingNext

\* queue.c is a first-in first-out queue for every element type, every initial
\* capacity and every number of resizes.
THEOREM RingImplementsFifo == RingSpec => ImplementsFifo
<1>1. InitQueue => AbstractFifo!FifoInit
  BY DEF InitQueue, AbstractFifo!FifoInit, Contents
<1>2. RingSpec => []RingInv
  BY RingInitInv, RingStepInv, PTL DEF RingSpec
<1> QED BY <1>1, <1>2, RingStepRefines, PTL DEF RingSpec, ImplementsFifo, AbstractFifo!FifoSpec

=============================================================================
