------------------------------ MODULE RingQueue ------------------------------
(***************************************************************************)
(* src/server/queue.c: the growing circular buffer behind the request      *)
(* queue and the write queues.  The cells are numbered 0 .. capacity-1;    *)
(* the oldest element is in cell pointer and the elements wrap around the  *)
(* end of the array.  Cells that malloc or realloc has just handed out     *)
(* hold Garbage, which is not an element: reading one is what a wrong      *)
(* index computation would show.                                           *)
(***************************************************************************)
EXTENDS Integers, Sequences

CONSTANTS
  Elements,     \* what a void* in the queue may point to
  Garbage,      \* contents of a cell never written
  NoElement,    \* "queue_pop has not returned anything yet"
  InitCapacity, \* the argument of init_queue
  MaxLen        \* bound: queue_push is called only below this length

ASSUME CapacityAssumption == InitCapacity \in Nat \ {0}
ASSUME BoundAssumption == MaxLen \in Nat
ASSUME GarbageAssumption == Garbage \notin Elements /\ NoElement \notin Elements

VARIABLES
  data,      \* q->data
  pointer,   \* q->pointer
  len,       \* q->len
  capacity,  \* q->capacity
  popped     \* the value returned by the last queue_pop

ringVars == <<data, pointer, len, capacity, popped>>

\* The cell k places after cell p in a circular array of c cells.
Cell(p, k, c) == (p + k) % c

\* init_queue
InitQueue ==
  /\ capacity = InitCapacity
  /\ len = 0
  /\ pointer = 0
  /\ data = [i \in 0 .. InitCapacity - 1 |-> Garbage]
  /\ popped = NoElement

\* queue_pop: the assertion len > 0 is the guard
QueuePop ==
  /\ len > 0
  /\ popped' = data[pointer]
  /\ len' = len - 1
  /\ pointer' = Cell(pointer, 1, capacity)
  /\ UNCHANGED <<data, capacity>>

\* simple_push on a buffer d whose oldest element is in cell p of c cells
SimplePush(d, p, c, e) ==
  /\ data' = [d EXCEPT ![Cell(p, len, c)] = e]
  /\ len' = len + 1
  /\ pointer' = p
  /\ capacity' = c

\* resize_queue: the array doubles and the cells pointer .. capacity-1 are
\* copied to the end of the new array (the copied cells keep their old value)
ResizedCapacity == 2 * capacity
ResizedPointer == ResizedCapacity - capacity + pointer
MutHalfResizedData ==
  [i \in 0 .. ResizedCapacity - 1 |->
     IF i >= ResizedPointer THEN data[pointer]
     ELSE IF i < capacity THEN data[i]
     ELSE Garbage]

ResizedData ==
  [i \in 0 .. ResizedCapacity - 1 |->
     IF i >= ResizedPointer THEN data[i - ResizedPointer + pointer]
     ELSE IF i < capacity THEN data[i]
     ELSE Garbage]

\* queue_push
QueuePush(e) ==
  /\ len < MaxLen
  /\ IF len = capacity
     THEN SimplePush(ResizedData, ResizedPointer, ResizedCapacity, e)
     ELSE SimplePush(data, pointer, capacity, e)
  /\ UNCHANGED popped

RingNext == QueuePop \/ \E e \in Elements : QueuePush(e)

RingSpec == InitQueue /\ [][RingNext]_ringVars

-----------------------------------------------------------------------------
RingTypeOK ==
  /\ capacity \in Nat \ {0}
  /\ pointer \in 0 .. capacity - 1
  /\ len \in 0 .. capacity
  /\ data \in [0 .. capacity - 1 -> Elements \cup {Garbage}]
  /\ popped \in Elements \cup {NoElement}

\* The queue that the buffer represents: the len cells from pointer on,
\* wrapping around the end of the array.
Contents == [k \in 1 .. len |-> data[Cell(pointer, k - 1, capacity)]]

\* Every cell that counts as occupied holds an element that was pushed: no
\* resize exposes a cell of the freshly allocated part (queue.c:43-55).
NoGarbageQueued == \A k \in 0 .. len - 1 : data[Cell(pointer, k, capacity)] \in Elements

\* queue.c implements the abstract queue: elements come out once each, in the
\* order in which they went in, whatever the mixture of pushes, pops and
\* resizes with a wrapped-around content.
AbstractFifo == INSTANCE Fifo WITH contents <- Contents

ImplementsFifo == AbstractFifo!FifoSpec

=============================================================================
