----------------------------- MODULE WriteQueue -----------------------------
(***************************************************************************)
(* writebuf.c on top of queue.c: the answers that wait behind the current  *)
(* one are in the circular buffer, so that one call of push_write_data is  *)
(* a step of both, and so is a call of have_written that ends a message.   *)
(***************************************************************************)
EXTENDS RingQueue, WriteBuf

composedVars == <<ringVars, bufVars>>

InitComposed == InitQueue /\ InitWritebuf

\* push_write_data: queue_push, unless the message becomes the current one
PushBoth(m) ==
  /\ PushWriteData(m)
  /\ IF has_write_data THEN QueuePush(m) ELSE UNCHANGED ringVars

\* mutant: a message is taken from the queue after every write
MutWrittenBoth(k) ==
  /\ HaveWritten(k)
  /\ IF len > 0 THEN QueuePop ELSE UNCHANGED ringVars

\* have_written: queue_pop when a message is finished and another one waits
WrittenBoth(k) ==
  /\ HaveWritten(k)
  /\ IF wpointer + k >= wlen /\ len > 0 THEN QueuePop ELSE UNCHANGED ringVars

ComposedNext ==
  \/ PrepareWrite /\ UNCHANGED ringVars
  \/ \E k \in 0 .. wlen - wpointer : WrittenBoth(k)
  \/ \E m \in Messages : PushBoth(m)

ComposedSpec == InitComposed /\ [][ComposedNext]_composedVars

-----------------------------------------------------------------------------
HeldInRing == IF has_write_data THEN <<wdata>> \o Contents ELSE <<>>

\* The current message followed by what is in the cells of the circular buffer
\* is a first-in first-out queue: push_write_data and have_written call
\* queue_push and queue_pop exactly when a message starts or stops to wait.
ComposedBuffer ==
  INSTANCE Fifo WITH Elements <- Messages, NoElement <- NoData,
                     contents <- HeldInRing, popped <- written

WritesInOrderThroughRing == ComposedBuffer!FifoSpec

=============================================================================
