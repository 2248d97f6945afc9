--------------------------- MODULE WriteBufProofs ---------------------------
(***************************************************************************)
(* Proofs about writebuf.c: for any messages and any way in which write    *)
(* cuts them, the buffer sends whole messages in order and never keeps one *)
(* back.                                                                   *)
(***************************************************************************)
EXTENDS WriteBuf, TLAPS

\* Where the wire stands: at byte wpointer of the current message, or at the
\* end of some message.  WireContiguous alone is not inductive: it does not
\* say that the next write resumes where the last one ended.
WireAtPointer ==
  IF wire = <<>> THEN wpointer = 0
  ELSE IF wpointer > 0 THEN wire[Len(wire)].msg = wdata /\ wire[Len(wire)].pos = wpointer
  ELSE wire[Len(wire)].pos = Size[wire[Len(wire)].msg]

WriteInv == WriteTypeOK /\ NothingStuck /\ WireContiguous /\ WireAtPointer

LEMMA BytesOf ==
  ASSUME NEW m, NEW i
  PROVE  /\ Byte(m, i).msg = m /\ Byte(m, i).pos = i
         /\ m \in Messages /\ i \in 1 .. Size[m] => Byte(m, i) \in Bytes
<1>1. m \in Messages => Size[m] \in Nat
  BY SizeAssumption
<1> QED BY <1>1 DEF Byte, Bytes

LEMMA FunctionIsSeq ==
  ASSUME NEW S, NEW n \in Nat, NEW f \in [1 .. n -> S]
  PROVE  f \in Seq(S) /\ Len(f) = n
OBVIOUS

LEMMA NonEmpty == \A S : \A s \in Seq(S) : s # <<>> <=> Len(s) > 0
OBVIOUS

LEMMA ConcatOf ==
  ASSUME NEW S, NEW s \in Seq(S), NEW t \in Seq(S)
  PROVE  /\ s \o t \in Seq(S)
         /\ Len(s \o t) = Len(s) + Len(t)
         /\ \A n \in 1 .. Len(s) : (s \o t)[n] = s[n]
         /\ \A i \in 1 .. Len(t) : (s \o t)[Len(s) + i] = t[i]
         /\ Len(t) = 0 => s \o t = s
OBVIOUS

LEMMA InitWriteInv == InitWritebuf => WriteInv
<1> SUFFICES ASSUME InitWritebuf PROVE WriteInv
  OBVIOUS
<1>1. wire \in Seq(Bytes) /\ writequeue \in Seq(Messages) /\ Len(wire) = 0
  BY DEF InitWritebuf
<1>2. WriteTypeOK
  BY <1>1 DEF InitWritebuf, WriteTypeOK, has_write_data
<1>3. NothingStuck /\ WireAtPointer
  BY DEF InitWritebuf, NothingStuck, WireAtPointer
<1>4. WireContiguous
  BY <1>1 DEF InitWritebuf, WireContiguous
<1> QED BY <1>2, <1>3, <1>4 DEF WriteInv

\* the sequences of the operations
LEMMA QueueOps ==
  ASSUME NEW S, NEW q \in Seq(S)
  PROVE  /\ q # <<>> => Head(q) \in S /\ Tail(q) \in Seq(S) /\ q = <<Head(q)>> \o Tail(q)
         /\ \A m \in S : Append(q, m) \in Seq(S)
         /\ \A m \in S : <<m>> \o q \in Seq(S) /\ Head(<<m>> \o q) = m
                         /\ Tail(<<m>> \o q) = q /\ <<m>> \o q # <<>>
         /\ \A m, n \in S : <<m>> \o Append(q, n) = Append(<<m>> \o q, n)
         /\ \A m \in S : Append(<<>>, m) = <<m>> \o <<>>
OBVIOUS

\* What a write of k bytes adds to the wire.
LEMMA WireGrows ==
  ASSUME WriteInv, has_write_data, NEW k \in 0 .. wlen - wpointer,
         wire' = wire \o [i \in 1 .. k |-> Byte(wdata, wpointer + i)]
  PROVE  /\ wire' \in Seq(Bytes)
         /\ WireContiguous'
         /\ k = 0 => wire' = wire
         /\ k > 0 => /\ wire' # <<>>
                     /\ wire'[Len(wire')].msg = wdata /\ wire'[Len(wire')].pos = wpointer + k
<1> DEFINE new == [i \in 1 .. k |-> Byte(wdata, wpointer + i)]
<1>1. /\ k \in Nat /\ wlen = Size[wdata] /\ wpointer \in Nat /\ wpointer + k <= wlen
      /\ wlen \in Nat /\ wdata \in Messages /\ wpointer < wlen
  BY SizeAssumption DEF WriteInv, WriteTypeOK, has_write_data
<1>2. \A i \in 1 .. k : Byte(wdata, wpointer + i) \in Bytes
  <2> SUFFICES ASSUME NEW i \in 1 .. k PROVE Byte(wdata, wpointer + i) \in Bytes
    OBVIOUS
  <2>1. wpointer + i \in 1 .. Size[wdata]
    BY <1>1
  <2> QED BY <1>1, <2>1, BytesOf
<1>3. new \in Seq(Bytes) /\ Len(new) = k /\ \A i \in 1 .. k : new[i] = Byte(wdata, wpointer + i)
  <2>1. new \in [1 .. k -> Bytes] /\ \A i \in 1 .. k : new[i] = Byte(wdata, wpointer + i)
    BY <1>2
  <2> QED BY <1>1, <2>1, FunctionIsSeq
<1>4. wire \in Seq(Bytes) /\ Len(wire) \in Nat
  BY DEF WriteInv, WriteTypeOK
<1>5. wire' = wire \o new
  OBVIOUS
<1> HIDE DEF new
<1>6. /\ wire' \in Seq(Bytes) /\ Len(wire') = Len(wire) + k
      /\ \A n \in 1 .. Len(wire) : wire'[n] = wire[n]
      /\ \A i \in 1 .. k : wire'[Len(wire) + i] = new[i]
  BY <1>3, <1>4, <1>5, ConcatOf
<1>7. \A n \in 1 .. Len(wire') : n <= Len(wire) \/ n - Len(wire) \in 1 .. k
  BY <1>1, <1>4, <1>6
<1>8. k > 0 => /\ wire' # <<>>
               /\ wire'[Len(wire')].msg = wdata /\ wire'[Len(wire')].pos = wpointer + k
  <2> SUFFICES ASSUME k > 0 PROVE /\ wire' # <<>>
                                  /\ wire'[Len(wire')].msg = wdata
                                  /\ wire'[Len(wire')].pos = wpointer + k
    OBVIOUS
  <2>1. k \in 1 .. k /\ Len(wire') = Len(wire) + k /\ Len(wire') > 0
    BY <1>1, <1>4, <1>6
  <2>2. wire' # <<>>
    BY <1>6, <2>1, NonEmpty
  <2>3. wire'[Len(wire')] = Byte(wdata, wpointer + k)
    BY <1>3, <1>6, <2>1
  <2>4. Byte(wdata, wpointer + k).msg = wdata /\ Byte(wdata, wpointer + k).pos = wpointer + k
    BY BytesOf
  <2> QED BY <2>2, <2>3, <2>4
<1>9. k = 0 => wire' = wire
  BY <1>3, <1>4, <1>5, ConcatOf
<1>10. wire' # <<>> => wire'[1].pos = 1
  <2>1. CASE wire # <<>>
    <3>1. 1 \in 1 .. Len(wire)
      BY <1>4, <2>1
    <3> QED BY <1>6, <2>1, <3>1 DEF WriteInv, WireContiguous
  <2>2. CASE wire = <<>>
    <3>1. wpointer = 0 /\ Len(wire) = 0
      BY <2>2 DEF WriteInv, WireAtPointer
    <3>2. CASE k = 0
      BY <1>9, <2>2, <3>2
    <3>3. CASE k > 0
      <4>1. wire'[1] = Byte(wdata, 1)
        BY <1>1, <1>3, <1>6, <3>1, <3>3
      <4> QED BY <4>1, BytesOf
    <3> QED BY <1>1, <3>2, <3>3
  <2> QED BY <2>1, <2>2
<1>11. ASSUME NEW n \in 1 .. Len(wire') - 1
       PROVE  Follows(wire'[n + 1], wire'[n])
  <2>1. CASE n + 1 <= Len(wire)
    <3>1. n \in 1 .. Len(wire) - 1 /\ n \in 1 .. Len(wire) /\ n + 1 \in 1 .. Len(wire)
      BY <1>4, <1>6, <1>1, <2>1
    <3> QED BY <1>6, <3>1 DEF WriteInv, WireContiguous
  <2>2. CASE n > Len(wire)
    <3> DEFINE i == n - Len(wire)
    <3>1. i \in 1 .. k /\ n = Len(wire) + i /\ i + 1 \in 1 .. k
      BY <1>1, <1>4, <1>6, <2>2
    <3> HIDE DEF i
    <3>2. n + 1 = Len(wire) + (i + 1)
      BY <1>4, <3>1
    <3>3. wire'[n] = Byte(wdata, wpointer + i) /\ wire'[n + 1] = Byte(wdata, wpointer + (i + 1))
      BY <1>3, <1>6, <3>1, <3>2
    <3>4. wpointer + (i + 1) = wpointer + i + 1
      BY <1>1, <3>1
    <3> QED BY <3>3, <3>4, BytesOf DEF Follows
  <2>3. CASE n = Len(wire)
    <3>1. 1 \in 1 .. k /\ n \in 1 .. Len(wire) /\ wire # <<>>
      BY <1>1, <1>4, <1>6, <2>3
    <3>2. wire'[n + 1] = Byte(wdata, wpointer + 1) /\ wire'[n] = wire[Len(wire)]
      BY <1>3, <1>6, <2>3, <3>1
    <3>3. CASE wpointer > 0
      <4>1. wire[Len(wire)].msg = wdata /\ wire[Len(wire)].pos = wpointer
        BY <3>1, <3>3 DEF WriteInv, WireAtPointer
      <4> QED BY <3>2, <4>1, BytesOf DEF Follows
    <3>4. CASE wpointer = 0
      <4>1. wire[Len(wire)].pos = Size[wire[Len(wire)].msg]
        BY <3>1, <3>4 DEF WriteInv, WireAtPointer
      <4>2. Byte(wdata, wpointer + 1).pos = 1
        <5>1. Byte(wdata, wpointer + 1).pos = wpointer + 1
          BY BytesOf
        <5> QED BY <3>4, <5>1
      <4> QED BY <3>2, <4>1, <4>2 DEF Follows
    <3>5. wpointer > 0 \/ wpointer = 0
      BY <1>1
    <3> QED BY <3>3, <3>4, <3>5
  <2> QED BY <1>1, <1>4, <1>6, <2>1, <2>2, <2>3
<1>12. WireContiguous'
  BY <1>10, <1>11 DEF WireContiguous
<1> QED BY <1>6, <1>8, <1>9, <1>12

LEMMA NextWriteInv == WriteInv /\ [WriteNext]_bufVars => WriteInv'
<1> SUFFICES ASSUME WriteInv, [WriteNext]_bufVars PROVE WriteInv'
  OBVIOUS
<1> USE DEF has_write_data, can_write
<1>1. CASE PrepareWrite
  BY <1>1
  DEF PrepareWrite, WriteInv, WriteTypeOK, NothingStuck, WireContiguous, WireAtPointer
<1>2. ASSUME NEW k \in 0 .. wlen - wpointer, HaveWritten(k) PROVE WriteInv'
  <2>1. wdata \in Messages /\ wdata # NoData /\ wlen = Size[wdata] /\ wpointer \in 0 .. wlen - 1
        /\ wlen \in Nat
    BY <1>2, SizeAssumption DEF HaveWritten, WriteInv, WriteTypeOK
  <2>2. /\ wire' \in Seq(Bytes)
        /\ WireContiguous'
        /\ k = 0 => wire' = wire
        /\ k > 0 => /\ wire' # <<>>
                    /\ wire'[Len(wire')].msg = wdata /\ wire'[Len(wire')].pos = wpointer + k
    BY <1>2, <2>1, WireGrows DEF HaveWritten
  <2>3. is_writing' = FALSE /\ Advance(k)
    BY <1>2 DEF HaveWritten
  <2>4. CASE wpointer + k < wlen
    <3>1. wpointer' = wpointer + k /\ UNCHANGED <<wdata, wlen, writequeue, written>>
      BY <2>3, <2>4 DEF Advance
    <3>2. WriteTypeOK'
      <4>1. wpointer' \in 0 .. wlen' - 1 /\ wlen' = Size[wdata'] /\ wdata' # NoData
        BY <2>1, <2>4, <3>1
      <4>2. /\ wdata' \in Messages \cup {NoData} /\ writequeue' \in Seq(Messages)
            /\ written' \in Messages \cup {NoData} /\ is_writing' \in BOOLEAN
        BY <2>3, <3>1 DEF WriteInv, WriteTypeOK
      <4> QED BY <2>2, <4>1, <4>2 DEF WriteTypeOK
    <3>3. NothingStuck'
      BY <2>1, <3>1 DEF NothingStuck
    <3>4. WireAtPointer'
      BY <2>1, <2>2, <3>1 DEF WriteInv, WireAtPointer
    <3> QED BY <2>2, <3>2, <3>3, <3>4 DEF WriteInv
  <2>5. CASE ~(wpointer + k < wlen)
    <3>1. NextMessage /\ k > 0 /\ wpointer + k = wlen
      BY <2>1, <2>3, <2>5 DEF Advance
    <3>2. wire' # <<>> /\ wire'[Len(wire')].msg = wdata /\ wire'[Len(wire')].pos = wlen
      BY <2>2, <3>1
    <3>3. wpointer' = 0 /\ WireAtPointer'
      BY <2>1, <3>1, <3>2 DEF NextMessage, WireAtPointer
    <3>4. writequeue \in Seq(Messages)
      BY DEF WriteInv, WriteTypeOK
    <3>5. CASE writequeue # <<>>
      <4>1. /\ wdata' \in Messages /\ writequeue' \in Seq(Messages) /\ wlen' = Size[wdata']
            /\ written' = wdata
        BY <3>1, <3>4, <3>5, QueueOps DEF NextMessage
      <4>2. wlen' \in Nat \ {0} /\ wdata' # NoData
        BY <4>1, SizeAssumption, NoDataAssumption
      <4>3. WriteTypeOK'
        <5>1. wpointer' \in 0 .. wlen' - 1
          <6>1. \A l \in Nat \ {0} : 0 \in 0 .. l - 1
            OBVIOUS
          <6> QED BY <3>3, <4>2, <6>1
        <5> QED BY <2>1, <2>2, <2>3, <4>1, <4>2, <5>1 DEF WriteTypeOK
      <4> QED BY <2>2, <3>3, <4>2, <4>3 DEF WriteInv, NothingStuck
    <3>6. CASE writequeue = <<>>
      <4>1. wdata' = NoData /\ wlen' = 0 /\ writequeue' = <<>> /\ written' = wdata
        BY <3>1, <3>6 DEF NextMessage
      <4>2. WriteTypeOK'
        BY <2>1, <2>2, <2>3, <3>3, <3>4, <3>6, <4>1 DEF WriteTypeOK
      <4> QED BY <2>2, <3>3, <4>1, <4>2 DEF WriteInv, NothingStuck
    <3> QED BY <3>5, <3>6
  <2> QED BY <2>4, <2>5
<1>3. ASSUME NEW m \in Messages, PushWriteData(m) PROVE WriteInv'
  <2>1. UNCHANGED <<is_writing, wire, written>> /\ writequeue \in Seq(Messages)
    BY <1>3 DEF PushWriteData, WriteInv, WriteTypeOK
  <2>2. CASE wdata # NoData
    <3>1. UNCHANGED <<wdata, wlen, wpointer>> /\ writequeue' \in Seq(Messages)
      BY <1>3, <2>1, <2>2, QueueOps DEF PushWriteData
    <3> QED BY <2>1, <2>2, <3>1
        DEF WriteInv, WriteTypeOK, NothingStuck, WireContiguous, WireAtPointer
  <2>3. CASE wdata = NoData
    <3>1. wdata' = m /\ wlen' = Size[m] /\ wpointer' = 0 /\ writequeue' = writequeue
      BY <1>3, <2>3 DEF PushWriteData
    <3>2. m # NoData /\ Size[m] \in Nat \ {0} /\ wpointer = 0
      BY <2>3, SizeAssumption, NoDataAssumption DEF WriteInv, WriteTypeOK
    <3> QED BY <2>1, <2>3, <3>1, <3>2
        DEF WriteInv, WriteTypeOK, NothingStuck, WireContiguous, WireAtPointer
  <2> QED BY <2>2, <2>3
<1>4. CASE UNCHANGED bufVars
  BY <1>4
  DEF bufVars, WriteInv, WriteTypeOK, NothingStuck, WireContiguous, WireAtPointer
<1> QED BY <1>1, <1>2, <1>3, <1>4 DEF WriteNext

LEMMA WriteInvAlways == WriteSpec => []WriteInv
BY InitWriteInv, NextWriteInv, PTL DEF WriteSpec

\* The fields of the buffer agree and nothing is left in its queue when
\* has_write_data says that there is nothing to write.
THEOREM WriteBufferSafe == WriteSpec => [](WriteTypeOK /\ NothingStuck)
BY WriteInvAlways, PTL DEF WriteInv

\* The bytes on the wire are those of whole messages, in a row, for any way in
\* which the calls of write cut them.
THEOREM WireIsContiguous == WriteSpec => []WireContiguous
BY WriteInvAlways, PTL DEF WriteInv

LEMMA WriteStepIsFifoStep ==
  ASSUME WriteInv, [WriteNext]_bufVars
  PROVE  [AbstractBuffer!FifoNext]_(AbstractBuffer!fifoVars)
<1> USE DEF has_write_data, can_write
<1>0. /\ writequeue \in Seq(Messages)
      /\ wdata # NoData => wdata \in Messages
      /\ wdata = NoData => writequeue = <<>>
  BY DEF WriteInv, WriteTypeOK, NothingStuck
<1>1. ASSUME UNCHANGED <<wdata, writequeue, written>>
      PROVE  UNCHANGED AbstractBuffer!fifoVars
  BY <1>1 DEF AbstractBuffer!fifoVars, Held
<1>2. CASE PrepareWrite
  BY <1>1, <1>2 DEF PrepareWrite
<1>3. ASSUME NEW k \in 0 .. wlen - wpointer, HaveWritten(k)
      PROVE  [AbstractBuffer!FifoNext]_(AbstractBuffer!fifoVars)
  <2>1. wdata # NoData /\ Advance(k)
    BY <1>3 DEF HaveWritten, WriteInv, WriteTypeOK
  <2>2. CASE wpointer + k < wlen
    BY <1>1, <2>1, <2>2 DEF Advance
  <2>3. CASE ~(wpointer + k < wlen)
    <3>1. NextMessage
      BY <2>1, <2>3 DEF Advance
    <3>2. Held = <<wdata>> \o writequeue /\ Held # <<>> /\ Head(Held) = wdata
          /\ Tail(Held) = writequeue
      BY <1>0, <2>1, QueueOps DEF Held
    <3>3. Held' = writequeue
      <4>1. CASE writequeue # <<>>
        <5>1. Head(writequeue) \in Messages /\ writequeue = <<Head(writequeue)>> \o Tail(writequeue)
          BY <1>0, <4>1, QueueOps
        <5>2. wdata' = Head(writequeue) /\ writequeue' = Tail(writequeue)
          BY <3>1, <4>1 DEF NextMessage
        <5> QED BY <5>1, <5>2, NoDataAssumption DEF Held
      <4>2. CASE writequeue = <<>>
        BY <3>1, <4>2 DEF NextMessage, Held
      <4> QED BY <4>1, <4>2
    <3>4. written' = wdata
      BY <3>1 DEF NextMessage
    <3>5. AbstractBuffer!FifoPop
      BY <3>2, <3>3, <3>4 DEF AbstractBuffer!FifoPop
    <3> QED BY <3>5 DEF AbstractBuffer!FifoNext
  <2> QED BY <2>2, <2>3
<1>4. ASSUME NEW m \in Messages, PushWriteData(m)
      PROVE  [AbstractBuffer!FifoNext]_(AbstractBuffer!fifoVars)
  <2>1. Held' = Append(Held, m)
    <3>1. CASE wdata # NoData
      <4>1. wdata' = wdata /\ writequeue' = Append(writequeue, m)
        BY <1>4, <3>1 DEF PushWriteData
      <4> QED BY <1>0, <3>1, <4>1, QueueOps DEF Held
    <3>2. CASE wdata = NoData
      <4>1. wdata' = m /\ writequeue' = <<>>
        BY <1>0, <1>4, <3>2 DEF PushWriteData
      <4>2. m # NoData
        BY NoDataAssumption
      <4>3. Append(<<>>, m) = <<m>> \o <<>>
        BY <1>0, QueueOps
      <4> QED BY <3>2, <4>1, <4>2, <4>3 DEF Held
    <3> QED BY <3>1, <3>2
  <2>2. written' = written
    BY <1>4 DEF PushWriteData
  <2>3. AbstractBuffer!FifoPush(m)
    BY <2>1, <2>2 DEF AbstractBuffer!FifoPush
  <2> QED BY <2>3 DEF AbstractBuffer!FifoNext
<1>5. CASE UNCHANGED bufVars
  BY <1>1, <1>5 DEF bufVars
<1> QED BY <1>2, <1>3, <1>4, <1>5 DEF WriteNext

\* writebuf.c implements a queue of messages: what push_write_data is given is
\* written once and in the order of the calls.
THEOREM WriteBufImplementsFifo == WriteSpec => WritesInOrder
<1>1. InitWritebuf => AbstractBuffer!FifoInit
  BY DEF InitWritebuf, AbstractBuffer!FifoInit, Held, has_write_data
<1>2. WriteInv /\ [WriteNext]_bufVars => [AbstractBuffer!FifoNext]_(AbstractBuffer!fifoVars)
  BY WriteStepIsFifoStep
<1> QED BY <1>1, <1>2, WriteInvAlways, PTL
    DEF WriteSpec, WritesInOrder, AbstractBuffer!FifoSpec

=============================================================================
