-------------------------------- MODULE Fifo --------------------------------
(***************************************************************************)
(* What the users of queue.c (the request queue of the server, the write   *)
(* queue of a client) rely on: an unbounded first-in first-out queue.      *)
(***************************************************************************)
EXTENDS Naturals, Sequences

CONSTANTS
  Elements,  \* what a void* in the queue may point to
  NoElement  \* "queue_pop has not returned anything yet"

VARIABLES
  contents,  \* the queued elements, oldest first
  popped     \* the value the last queue_pop returned

fifoVars == <<contents, popped>>

FifoInit ==
  /\ contents = <<>>
  /\ popped = NoElement

FifoPush(e) ==
  /\ contents' = Append(contents, e)
  /\ UNCHANGED popped

FifoPop ==
  /\ contents # <<>>
  /\ popped' = Head(contents)
  /\ contents' = Tail(contents)

FifoNext == FifoPop \/ \E e \in Elements : FifoPush(e)

FifoSpec == FifoInit /\ [][FifoNext]_fifoVars

=============================================================================
