------------------------------ MODULE WriteBuf ------------------------------
(***************************************************************************)
(* src/server/writebuf.c: the answers for one client on their way to its   *)
(* socket.  The buffer is a queue of messages plus the one being written;  *)
(* write may take any part of what is left of it, and messages may be      *)
(* pushed between prepare_write and have_written.  Byte(m, i) is the i-th  *)
(* byte of message m.  The fields data, len and pointer have a w in front, *)
(* to be told from those of queue.c in WriteQueue.                         *)
(***************************************************************************)
EXTENDS Integers, Sequences

CONSTANTS
  Messages,   \* the messages the server sends
  Size,       \* Size[m]: strlen of m; every message has at least its newline
  NoData,     \* the NULL of field data
  MaxQueued,  \* bound: messages waiting in the buffer
  MaxWire     \* bound: bytes written before the model stops pushing

ASSUME SizeAssumption == Size \in [Messages -> Nat \ {0}]
ASSUME NoDataAssumption == NoData \notin Messages
ASSUME WriteBoundAssumption == MaxQueued \in Nat /\ MaxWire \in Nat

VARIABLES
  wdata,       \* the message being written, or NoData
  wlen,        \* its length
  wpointer,    \* how many bytes of it have been written
  is_writing,  \* between prepare_write and have_written
  writequeue,  \* the messages after it
  wire,        \* every byte that write has accepted
  written      \* the last message that was written completely

bufVars == <<wdata, wlen, wpointer, is_writing, writequeue, wire, written>>

InitWritebuf ==
  /\ wdata = NoData
  /\ wlen = 0
  /\ wpointer = 0
  /\ is_writing = FALSE
  /\ writequeue = <<>>
  /\ wire = <<>>
  /\ written = NoData

Byte(m, i) == [msg |-> m, pos |-> i]

has_write_data == wdata # NoData
can_write == ~is_writing

PrepareWrite ==
  /\ can_write
  /\ has_write_data
  /\ is_writing' = TRUE
  /\ UNCHANGED <<wdata, wlen, wpointer, writequeue, wire, written>>

\* the next message becomes the current one
NextMessage ==
  /\ wpointer' = 0
  /\ written' = wdata
  /\ IF writequeue # <<>>
     THEN /\ wdata' = Head(writequeue)
          /\ writequeue' = Tail(writequeue)
          /\ wlen' = Size[wdata']
     ELSE wdata' = NoData /\ wlen' = 0 /\ UNCHANGED writequeue

Advance(k) ==
  IF wpointer + k < wlen
  THEN wpointer' = wpointer + k /\ UNCHANGED <<wdata, wlen, writequeue, written>>
  ELSE NextMessage

\* write has accepted k bytes
HaveWritten(k) ==
  /\ is_writing
  /\ is_writing' = FALSE
  /\ wire' = wire \o [i \in 1 .. k |-> Byte(wdata, wpointer + i)]
  /\ Advance(k)

PushWriteData(m) ==
  /\ Len(writequeue) < MaxQueued /\ Len(wire) < MaxWire
  /\ IF has_write_data
     THEN writequeue' = Append(writequeue, m) /\ UNCHANGED <<wdata, wlen, wpointer>>
     ELSE wdata' = m /\ wpointer' = 0 /\ wlen' = Size[m] /\ UNCHANGED writequeue
  /\ UNCHANGED <<is_writing, wire, written>>

WriteNext ==
  \/ PrepareWrite
  \/ \E k \in 0 .. wlen - wpointer : HaveWritten(k)
  \/ \E m \in Messages : PushWriteData(m)

WriteSpec == InitWritebuf /\ [][WriteNext]_bufVars

-----------------------------------------------------------------------------
Bytes == {b \in [msg : Messages, pos : Nat] : b.pos \in 1 .. Size[b.msg]}

\* The fields agree: there is something to write exactly when there is a
\* current message that is not completely written, which is what the callers
\* of has_write_data and the assertions of prepare_write and have_written use.
WriteTypeOK ==
  /\ wdata \in Messages \cup {NoData}
  /\ writequeue \in Seq(Messages)
  /\ is_writing \in BOOLEAN
  /\ wire \in Seq(Bytes)
  /\ written \in Messages \cup {NoData}
  /\ IF has_write_data
     THEN wlen = Size[wdata] /\ wpointer \in 0 .. wlen - 1
     ELSE wlen = 0 /\ wpointer = 0 /\ ~is_writing

\* A message waits in the queue only behind a current message: when
\* has_write_data is false, and write_to_client takes back POLLOUT, nothing is
\* left in the buffer.
NothingStuck == ~has_write_data => writequeue = <<>>

Follows(b, a) ==
  \/ b.msg = a.msg /\ b.pos = a.pos + 1
  \/ a.pos = Size[a.msg] /\ b.pos = 1

\* What the client receives is whole messages one after the other: however the
\* writes are cut, have_written resumes at the byte after the last one written
\* and no byte is skipped, sent twice or sent inside another message.
WireContiguous ==
  /\ wire # <<>> => wire[1].pos = 1
  /\ \A n \in 1 .. Len(wire) - 1 : Follows(wire[n + 1], wire[n])

\* The messages that the buffer holds, the current one first.
Held == IF has_write_data THEN <<wdata>> \o writequeue ELSE <<>>

\* The buffer is a first-in first-out queue of messages: each is written once,
\* in the order of the calls of push_write_data.
AbstractBuffer ==
  INSTANCE Fifo WITH Elements <- Messages, NoElement <- NoData,
                     contents <- Held, popped <- written

WritesInOrder == AbstractBuffer!FifoSpec

=============================================================================
