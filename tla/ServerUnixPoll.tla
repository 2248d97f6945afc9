--------------------------- MODULE ServerUnixPoll ---------------------------
(***************************************************************************)
(* Every step of ServerUnix keeps the array of poll in step with the       *)
(* clients and their answers.                                              *)
(***************************************************************************)
EXTENDS ServerUnixTypes

-----------------------------------------------------------------------------
(* The array of poll stays in step with the clients and their answers *)

\* the first two conjuncts of WriteInterest, when no descriptor changes
LEMMA SameFds ==
  ASSUME WriteInterest, clients' = clients, DOMAIN poll_list' = DOMAIN poll_list,
         \A i \in DOMAIN poll_list : poll_list'[i].fd = poll_list[i].fd
  PROVE  /\ \A g \in Fds :
              clients'[g] # NoClient <=> \E i \in DOMAIN poll_list' : poll_list'[i].fd = g
         /\ \A i, j \in DOMAIN poll_list' :
              poll_list'[i].fd = poll_list'[j].fd /\ poll_list'[i].fd # Gone => i = j
BY DEF WriteInterest

LEMMA WroteKeeps ==
  ASSUME IInv, NEW f \in Fds, clients[f] # NoClient, Wrote(f),
         UNCHANGED <<clients, cpipe, pc, idx, removing>>
  PROVE  WriteInterest' /\ PollOK'
<1>0. WriteInterest /\ PollOK /\ DOMAIN poll_list' = DOMAIN poll_list
  BY DEF IInv, Wrote
<1>1. WriteInterest'
  <2>1. \A g \in Fds :
          clients'[g] # NoClient <=> \E i \in DOMAIN poll_list' : poll_list'[i].fd = g
    <3>1. \A i \in DOMAIN poll_list : poll_list'[i].fd = poll_list[i].fd
      BY DEF Wrote
    <3> QED BY <1>0, <3>1 DEF WriteInterest
  <2>2. \A i, j \in DOMAIN poll_list' :
          poll_list'[i].fd = poll_list'[j].fd /\ poll_list'[i].fd # Gone => i = j
    BY <1>0 DEF WriteInterest, Wrote
  <2>3. ASSUME NEW i \in DOMAIN poll_list', poll_list'[i].fd \in Fds
        PROVE  /\ poll_list'[i].out <=> writebuf'[poll_list'[i].fd] # <<>>
               /\ "OUT" \in poll_list'[i].revents /\ pc' = "dispatch" /\ i >= idx'
                    => writebuf'[poll_list'[i].fd] # <<>>
    <3>1. /\ poll_list'[i].fd = poll_list[i].fd /\ poll_list[i].fd \in Fds
          /\ poll_list'[i].revents = poll_list[i].revents
          /\ poll_list'[i].out <=> poll_list[i].out \/ poll_list[i].fd = f
      BY <1>0, <2>3 DEF Wrote
    <3>2. CASE poll_list[i].fd = f
      BY <3>1, <3>2 DEF Wrote
    <3>3. CASE poll_list[i].fd # f
      BY <1>0, <3>1, <3>3 DEF Wrote, WriteInterest
    <3> QED BY <3>2, <3>3
  <2> QED BY <2>1, <2>2, <2>3 DEF WriteInterest
<1>2. PollOK'
  BY ZenonT(30) DEF IInv, PollOK, Pending, Current, Wrote, TypeOK
<1> QED BY <1>1, <1>2

\* a step that changes none of clients, write buffers and array
LEMMA QuietKeeps ==
  ASSUME IInv, UNCHANGED <<clients, writebuf, poll_list>>,
         \/ pc' \in {"schedule", "clean", "poll", "exit", "sigpipe"}
         \/ /\ pc' = pc
            /\ UNCHANGED <<idx, removing>>
            /\ cpipe' \in Nat /\ cpipe' >= cpipe
         \/ /\ pc' = "dispatch" /\ idx' = idx + 1 /\ cpipe' = cpipe
            /\ pc \in {"dispatch", "reap", "lines", "remove"}
         \/ /\ pc = "dispatch" /\ pc' = "reap" /\ idx' = idx /\ idx \in DOMAIN poll_list
            /\ Current.fd = cpipe_0
         \/ /\ pc = "dispatch" /\ pc' = "lines" /\ idx' = idx /\ idx \in DOMAIN poll_list
            /\ Current.fd \in Fds /\ cpipe' = cpipe
         \/ /\ pc \in {"dispatch", "lines"} /\ pc' = "remove" /\ idx' = idx
            /\ idx \in DOMAIN poll_list /\ cpipe' = cpipe
            /\ Current.fd \in Fds /\ removing'.key = Current.fd
         \/ /\ pc = "remove" /\ pc' = "lines" /\ idx' = idx /\ cpipe' = cpipe
  PROVE  WriteInterest' /\ PollOK'
<1> USE DEF IInv
<1>1. CASE pc' \in {"schedule", "clean", "poll", "exit", "sigpipe"}
  BY <1>1 DEF WriteInterest, PollOK, Pending
<1>2. CASE pc' = pc /\ UNCHANGED <<idx, removing>> /\ cpipe' \in Nat /\ cpipe' >= cpipe
  <2>1. \A i \in DOMAIN poll_list : Pending(i)' => Pending(i)
    BY <1>2 DEF Pending
  <2>2. WriteInterest'
    BY <1>2 DEF WriteInterest
  <2>3. cpipe > 0 => cpipe' > 0
    BY <1>2 DEF TypeOK
  <2>4. PollOK'
    BY <1>2, <2>1, <2>3 DEF PollOK, Current
  <2> QED BY <2>2, <2>4
<1>3. CASE /\ pc' = "dispatch" /\ idx' = idx + 1 /\ cpipe' = cpipe
           /\ pc \in {"dispatch", "reap", "lines", "remove"}
  <2>1. \A i \in DOMAIN poll_list : Pending(i)' => Pending(i)
    BY <1>3, CurrentOf DEF Pending, TypeOK
  <2>2. PollOK'
    BY <1>3, <2>1 DEF PollOK
  <2>3. WriteInterest'
    BY <1>3, <2>2 DEF PollOK, Pending, WriteInterest
  <2> QED BY <2>2, <2>3
<1>4. CASE /\ pc = "dispatch" /\ pc' = "reap" /\ idx' = idx /\ idx \in DOMAIN poll_list
           /\ Current.fd = cpipe_0
  <2>1. \A i \in DOMAIN poll_list : Pending(i)' => Pending(i) /\ i # idx
    BY <1>4, CurrentOf DEF Pending, TypeOK
  <2>2. \A i \in DOMAIN poll_list : i # idx => poll_list[i].fd # cpipe_0
    BY <1>4 DEF WriteInterest, Current, cpipe_0, Gone
  <2>3. WriteInterest'
    BY <1>4 DEF WriteInterest
  <2>4. PollOK'
    BY <1>4, <2>1, <2>2 DEF PollOK, Current
  <2> QED BY <2>3, <2>4
<1>5. CASE /\ pc = "dispatch" /\ pc' = "lines" /\ idx' = idx /\ idx \in DOMAIN poll_list
           /\ Current.fd \in Fds /\ cpipe' = cpipe
  <2>1. \A i \in DOMAIN poll_list : Pending(i)' => Pending(i)
    BY <1>5, CurrentOf DEF Pending, TypeOK
  <2>2. WriteInterest'
    BY <1>5, ZenonT(30) DEF WriteInterest
  <2>3. PollOK'
    BY <1>5, <2>1 DEF PollOK, Current
  <2> QED BY <2>2, <2>3
<1>6. CASE /\ pc \in {"dispatch", "lines"} /\ pc' = "remove" /\ idx' = idx
           /\ idx \in DOMAIN poll_list /\ cpipe' = cpipe
           /\ Current.fd \in Fds /\ removing'.key = Current.fd
  <2>1. \A i \in DOMAIN poll_list : Pending(i)' => Pending(i)
    BY <1>6, CurrentOf DEF Pending, TypeOK
  <2>2. WriteInterest'
    BY <1>6, ZenonT(30) DEF WriteInterest
  <2>3. PollOK'
    BY <1>6, <2>1 DEF PollOK, Current
  <2> QED BY <2>2, <2>3
<1>7. CASE pc = "remove" /\ pc' = "lines" /\ idx' = idx /\ cpipe' = cpipe
  <2>1. \A i \in DOMAIN poll_list : Pending(i)' => Pending(i)
    BY <1>7, CurrentOf DEF Pending, TypeOK
  <2>2. WriteInterest'
    BY <1>7, ZenonT(30) DEF WriteInterest
  <2>3. PollOK'
    BY <1>7, <2>1 DEF PollOK, Current
  <2> QED BY <2>2, <2>3
<1> QED BY <1>1, <1>2, <1>3, <1>4, <1>5, <1>6, <1>7

LEMMA CleanKeepsPoll ==
  ASSUME IInv, PollListClean
  PROVE  WriteInterest' /\ PollOK'
<1>1. PICK i \in Holes :
        poll_list' = SubSeq([poll_list EXCEPT ![i] = poll_list[Len(poll_list)]],
                            1, Len(poll_list) - 1)
  BY DEF PollListClean
<1>2. /\ pc = "clean" /\ pc' = "clean"
      /\ UNCHANGED <<clients, writebuf>>
  BY DEF PollListClean, ctlVars
<1>3. i \in DOMAIN poll_list /\ poll_list[i].fd = Gone
  BY DEF Holes
<1>4. Len(poll_list) \in Nat /\ DOMAIN poll_list = 1 .. Len(poll_list)
  BY CurrentOf
<1> DEFINE n == Len(poll_list)
<1>5. /\ DOMAIN poll_list' = 1 .. n - 1
      /\ \A k \in DOMAIN poll_list' : poll_list'[k] = IF k = i THEN poll_list[n] ELSE poll_list[k]
  BY <1>1, <1>3, CleanOf DEF IInv, TypeOK
<1>6. \A f \in Fds : f # Gone
  BY FdsAssumption DEF Gone
<1>7. WriteInterest
  BY DEF IInv
<1>8. \A f \in Fds :
        (\E k \in DOMAIN poll_list : poll_list[k].fd = f)
          <=> \E k \in DOMAIN poll_list' : poll_list'[k].fd = f
  <2>1. ASSUME NEW f \in Fds, NEW k \in DOMAIN poll_list, poll_list[k].fd = f
        PROVE  \E m \in DOMAIN poll_list' : poll_list'[m].fd = f
    <3>1. k # i
      BY <1>3, <1>6, <2>1
    <3>2. CASE k = n
      <4>1. i \in 1 .. n - 1
        BY <1>3, <1>4, <2>1, <3>1, <3>2
      <4>2. i \in DOMAIN poll_list' /\ poll_list'[i] = poll_list[n]
        BY <1>5, <4>1
      <4> QED BY <2>1, <3>2, <4>2
    <3>3. CASE k # n
      <4>1. k \in 1 .. n - 1
        BY <1>4, <2>1, <3>3
      <4>2. k \in DOMAIN poll_list' /\ poll_list'[k] = poll_list[k]
        BY <1>5, <3>1, <4>1
      <4> QED BY <2>1, <4>2
    <3> QED BY <3>2, <3>3
  <2>2. ASSUME NEW f \in Fds, NEW k \in DOMAIN poll_list', poll_list'[k].fd = f
        PROVE  \E m \in DOMAIN poll_list : poll_list[m].fd = f
    BY <1>3, <1>4, <1>5, <2>2
  <2> QED BY <2>1, <2>2
<1>9. WriteInterest'
  <2>1. \A f \in Fds :
          clients'[f] # NoClient <=> \E k \in DOMAIN poll_list' : poll_list'[k].fd = f
    BY <1>2, <1>7, <1>8 DEF WriteInterest
  <2>2. \A k, m \in DOMAIN poll_list' :
          poll_list'[k].fd = poll_list'[m].fd /\ poll_list'[k].fd # Gone => k = m
    BY <1>3, <1>4, <1>5, <1>7 DEF WriteInterest
  <2>3. \A k \in DOMAIN poll_list' :
          poll_list'[k].fd \in Fds =>
            (poll_list'[k].out <=> writebuf'[poll_list'[k].fd] # <<>>)
    BY <1>2, <1>3, <1>4, <1>5, <1>7 DEF WriteInterest
  <2> QED BY <1>2, <2>1, <2>2, <2>3 DEF WriteInterest
<1>10. PollOK'
  BY <1>2 DEF IInv, PollOK, Pending
<1> QED BY <1>9, <1>10

LEMMA PollKeepsPoll ==
  ASSUME IInv, Poll
  PROVE  WriteInterest' /\ PollOK'
<1>1. /\ pc' = "dispatch" /\ idx' = 1
      /\ poll_list' = [i \in DOMAIN poll_list |->
                         [poll_list[i] EXCEPT !.revents = Revents(poll_list[i])]]
      /\ UNCHANGED <<clients, writebuf, cpipe>>
  BY DEF Poll, childVars
<1>2. \A i \in DOMAIN poll_list : poll_list[i] \in PollEntries
  BY CurrentOf, SeqIsFunction DEF IInv, TypeOK
<1>3. \A e \in PollEntries :
        LET x == [e EXCEPT !.revents = Revents(e)] IN
        x.fd = e.fd /\ x.out = e.out /\ x.revents = Revents(e)
  BY DEF PollEntries
<1>4. /\ DOMAIN poll_list' = DOMAIN poll_list
      /\ \A i \in DOMAIN poll_list :
           /\ poll_list'[i].fd = poll_list[i].fd
           /\ poll_list'[i].out = poll_list[i].out
           /\ poll_list'[i].revents = Revents(poll_list[i])
  BY <1>1, <1>2, <1>3, ZenonT(30)
<1>5. \A i \in DOMAIN poll_list :
        poll_list[i].fd \in Fds /\ "OUT" \in Revents(poll_list[i]) =>
          writebuf[poll_list[i].fd] # <<>>
  <2>1. \A f \in Fds : f # server_sock /\ f # cpipe_0
    BY FdsAssumption DEF server_sock, cpipe_0
  <2>2. \A e \in PollEntries : e.fd \in Fds /\ "OUT" \in Revents(e) => e.out
    BY <2>1 DEF Revents
  <2> QED BY <1>2, <2>2, ZenonT(30) DEF IInv, WriteInterest
<1>6. \A i \in DOMAIN poll_list :
        poll_list[i].fd = cpipe_0 /\ Revents(poll_list[i]) # {} => cpipe > 0
  BY DEF Revents, cpipe_0, server_sock
<1>7. WriteInterest'
  <2>1. \A f \in Fds :
          clients'[f] # NoClient <=> \E k \in DOMAIN poll_list' : poll_list'[k].fd = f
    BY <1>1, <1>4, SameFds DEF IInv
  <2>2. \A k, m \in DOMAIN poll_list' :
          poll_list'[k].fd = poll_list'[m].fd /\ poll_list'[k].fd # Gone => k = m
    BY <1>1, <1>4, SameFds DEF IInv
  <2>3. \A k \in DOMAIN poll_list' :
          poll_list'[k].fd \in Fds =>
            /\ poll_list'[k].out <=> writebuf'[poll_list'[k].fd] # <<>>
            /\ "OUT" \in poll_list'[k].revents /\ pc' = "dispatch" /\ k >= idx'
                 => writebuf'[poll_list'[k].fd] # <<>>
    BY <1>1, <1>4, <1>5 DEF IInv, WriteInterest
  <2> QED BY <2>1, <2>2, <2>3 DEF WriteInterest
<1>8. PollOK'
  BY <1>1, <1>4, <1>5, <1>6 DEF IInv, PollOK, Pending
<1> QED BY <1>7, <1>8

LEMMA AcceptKeepsPoll ==
  ASSUME IInv, ServerAcceptClient
  PROVE  WriteInterest' /\ PollOK'
<1>1. PICK c \in Clients, f \in FreeFds :
        /\ clients' = [clients EXCEPT ![f] = c]
        /\ poll_list' = Append(poll_list, Entry(f))
  BY ZenonT(30) DEF ServerAcceptClient
<1>2. /\ idx' = idx + 1 /\ pc = "dispatch" /\ idx \in Nat
      /\ UNCHANGED <<writebuf, cpipe, pc>>
  BY DEF ServerAcceptClient, Dispatching, childVars, IInv, TypeOK
<1>3. /\ f \in Fds /\ clients[f] = NoClient /\ c # NoClient /\ f # Gone
      /\ \A g \in Fds : clients'[g] = IF g = f THEN c ELSE clients[g]
  BY <1>1, ClientsAssumption, FdsAssumption DEF FreeFds, IInv, TypeOK, Gone
<1>4. poll_list \in Seq(PollEntries) /\ Entry(f) \in PollEntries
  BY <1>3 DEF IInv, TypeOK, Entry, PollEntries
<1> DEFINE n == Len(poll_list)
<1>5. /\ DOMAIN poll_list = 1 .. n /\ n \in Nat
      /\ DOMAIN poll_list' = 1 .. n + 1
      /\ \A i \in 1 .. n : poll_list'[i] = poll_list[i]
      /\ poll_list'[n + 1] = Entry(f)
  BY <1>1, <1>4
<1>6. Entry(f).fd = f /\ ~Entry(f).out /\ Entry(f).revents = {}
  BY DEF Entry
<1>7. writebuf[f] = <<>> /\ \A i \in DOMAIN poll_list : poll_list[i].fd # f
  BY <1>3 DEF IInv, PollOK, WriteInterest
<1>8. \A i \in DOMAIN poll_list' :
        \/ i \in DOMAIN poll_list /\ poll_list'[i] = poll_list[i]
        \/ i = n + 1 /\ poll_list'[i] = Entry(f)
  BY <1>5
<1>9. WriteInterest'
  <2>1. \A g \in Fds :
          clients'[g] # NoClient <=> \E k \in DOMAIN poll_list' : poll_list'[k].fd = g
    <3>1. ASSUME NEW g \in Fds, g # f
          PROVE  clients'[g] # NoClient <=> \E k \in DOMAIN poll_list' : poll_list'[k].fd = g
      BY <1>3, <1>5, <1>6, <1>8, <3>1 DEF IInv, WriteInterest
    <3>2. clients'[f] # NoClient /\ n + 1 \in DOMAIN poll_list' /\ poll_list'[n + 1].fd = f
      BY <1>3, <1>5, <1>6
    <3> QED BY <3>1, <3>2
  <2>2. \A k, m \in DOMAIN poll_list' :
          poll_list'[k].fd = poll_list'[m].fd /\ poll_list'[k].fd # Gone => k = m
    BY <1>6, <1>7, <1>8 DEF IInv, WriteInterest
  <2>3. \A k \in DOMAIN poll_list' :
          poll_list'[k].fd \in Fds =>
            /\ poll_list'[k].out <=> writebuf'[poll_list'[k].fd] # <<>>
            /\ "OUT" \in poll_list'[k].revents /\ pc' = "dispatch" /\ k >= idx'
                 => writebuf'[poll_list'[k].fd] # <<>>
    BY <1>2, <1>5, <1>6, <1>7, <1>8 DEF IInv, WriteInterest
  <2> QED BY <2>1, <2>2, <2>3 DEF WriteInterest
<1>10. PollOK'
  <2>1. \A k \in DOMAIN poll_list : Pending(k)' => Pending(k)
    BY <1>2, <1>5 DEF Pending
  <2>2. \A k \in DOMAIN poll_list' :
          /\ Pending(k)' /\ poll_list'[k].fd = cpipe_0 /\ poll_list'[k].revents # {}
               => cpipe' > 0
          /\ Pending(k)' /\ poll_list'[k].fd \in Fds /\ "OUT" \in poll_list'[k].revents
               => writebuf'[poll_list'[k].fd] # <<>>
    BY <1>2, <1>6, <1>8, <2>1 DEF IInv, PollOK
  <2>3. \A g \in Fds : clients'[g] = NoClient => writebuf'[g] = <<>>
    BY <1>2, <1>3 DEF IInv, PollOK
  <2> QED BY <1>2, <2>2, <2>3 DEF PollOK
<1> QED BY <1>9, <1>10

LEMMA WriteKeepsPoll ==
  ASSUME IInv, WriteToClient
  PROVE  WriteInterest' /\ PollOK'
<1> DEFINE f == Current.fd
           c == clients[f]
<1>1. idx \in DOMAIN poll_list /\ f \in Fds /\ c \in Clients /\ pc = "dispatch"
  BY CurrentOf DEF WriteToClient, DispatchingClient, Dispatching
<1>2. CASE HungUp(c)
  <2>1. pc' = "sigpipe" /\ UNCHANGED <<clients, writebuf, poll_list>>
    BY <1>2 DEF WriteToClient
  <2> QED BY <2>1, QuietKeeps
<1>3. CASE ~HungUp(c)
  <2>1. /\ writebuf' = [writebuf EXCEPT ![f] = Tail(@)]
        /\ poll_list' = [poll_list EXCEPT ![idx].out = Tail(writebuf[f]) # <<>>]
        /\ idx' = idx + 1
        /\ UNCHANGED <<pc, clients, cpipe>>
    BY <1>3, ZenonT(30) DEF WriteToClient, childVars
  <2>2. \A i \in DOMAIN poll_list : poll_list[i] \in PollEntries
    BY CurrentOf, SeqIsFunction DEF IInv, TypeOK
  <2>3. /\ DOMAIN poll_list' = DOMAIN poll_list
        /\ \A i \in DOMAIN poll_list : i # idx => poll_list'[i] = poll_list[i]
        /\ poll_list'[idx] = [poll_list[idx] EXCEPT !.out = Tail(writebuf[f]) # <<>>]
    BY <1>1, <2>1
  <2>4. /\ poll_list'[idx].fd = f
        /\ poll_list'[idx].out <=> Tail(writebuf[f]) # <<>>
    BY <1>1, <2>2, <2>3, ZenonT(30) DEF PollEntries, Current
  <2>5. /\ writebuf'[f] = Tail(writebuf[f])
        /\ \A g \in Fds : g # f => writebuf'[g] = writebuf[g]
    BY <1>1, <2>1 DEF IInv, TypeOK
  <2>6. poll_list[idx].fd = f /\ f # Gone
    BY <1>1, FdsAssumption DEF Current, Gone
  <2>7. \A i \in DOMAIN poll_list : i # idx => poll_list[i].fd # f
    BY <1>1, <2>6 DEF IInv, WriteInterest
  <2>8. \A i \in DOMAIN poll_list : poll_list'[i].fd = poll_list[i].fd
    BY <2>3, <2>4, <2>6, ZenonT(30)
  <2>a. /\ idx \in Nat /\ idx' = idx + 1 /\ pc' = "dispatch" /\ cpipe' = cpipe
        /\ clients' = clients /\ DOMAIN poll_list \subseteq Nat
    <3>1. idx' = idx + 1 /\ pc' = "dispatch" /\ cpipe' = cpipe /\ clients' = clients
      BY <1>1, <2>1
    <3>2. idx \in Nat /\ DOMAIN poll_list \subseteq Nat
      BY CurrentOf DEF IInv, TypeOK
    <3> QED BY <3>1, <3>2
  <2>b. c # NoClient /\ c = clients[f]
    BY <1>1, ClientsAssumption
  <2> HIDE DEF f, c
  <2>9. WriteInterest'
    <3>1. \A g \in Fds :
            clients'[g] # NoClient <=> \E k \in DOMAIN poll_list' : poll_list'[k].fd = g
      BY <2>1, <2>3, <2>8, SameFds DEF IInv
    <3>2. \A k, m \in DOMAIN poll_list' :
            poll_list'[k].fd = poll_list'[m].fd /\ poll_list'[k].fd # Gone => k = m
      BY <2>1, <2>3, <2>8, SameFds DEF IInv
    <3>3. ASSUME NEW k \in DOMAIN poll_list', poll_list'[k].fd \in Fds
          PROVE  /\ poll_list'[k].out <=> writebuf'[poll_list'[k].fd] # <<>>
                 /\ "OUT" \in poll_list'[k].revents /\ pc' = "dispatch" /\ k >= idx'
                      => writebuf'[poll_list'[k].fd] # <<>>
      <4>1. CASE k = idx
        <5>1. poll_list'[k].out <=> writebuf'[poll_list'[k].fd] # <<>>
          BY <2>4, <2>5, <4>1, ZenonT(30)
        <5>2. ~(k >= idx')
          BY <2>a, <4>1
        <5> QED BY <5>1, <5>2
      <4>2. CASE k # idx
        <5>1. poll_list'[k] = poll_list[k] /\ k \in DOMAIN poll_list /\ poll_list[k].fd # f
          BY <2>3, <2>7, <4>2
        <5>2. writebuf'[poll_list[k].fd] = writebuf[poll_list[k].fd]
          BY <2>5, <3>3, <5>1
        <5>3. k >= idx' => k >= idx
          BY <2>a, <5>1
        <5> QED BY <1>1, <2>a, <3>3, <5>1, <5>2, <5>3 DEF IInv, WriteInterest
      <4> QED BY <4>1, <4>2
    <3> QED BY <3>1, <3>2, <3>3 DEF WriteInterest
  <2>10. PollOK'
    <3>1. \A k \in DOMAIN poll_list : Pending(k)' => Pending(k) /\ k # idx
      BY <1>1, <2>a DEF Pending
    <3>2. \A k \in DOMAIN poll_list' :
            /\ Pending(k)' /\ poll_list'[k].fd = cpipe_0 /\ poll_list'[k].revents # {}
                 => cpipe' > 0
            /\ Pending(k)' /\ poll_list'[k].fd \in Fds /\ "OUT" \in poll_list'[k].revents
                 => writebuf'[poll_list'[k].fd] # <<>>
      BY <2>a, <2>3, <2>5, <2>7, <3>1 DEF IInv, PollOK
    <3>3. \A g \in Fds : clients'[g] = NoClient => writebuf'[g] = <<>>
      BY <2>a, <2>b, <2>5 DEF IInv, PollOK
    <3> QED BY <2>a, <3>2, <3>3 DEF PollOK
  <2> QED BY <2>9, <2>10
<1> QED BY <1>2, <1>3

LEMMA CloseKeepsPoll ==
  ASSUME IInv, CloseClient
  PROVE  WriteInterest' /\ PollOK'
<1> DEFINE f == removing.key
<1>1. /\ pc = "remove" /\ idx \in DOMAIN poll_list /\ f \in Fds /\ poll_list[idx].fd = f
      /\ f # Gone
  BY FdsAssumption DEF CloseClient, IInv, PollOK, Current, Gone
<1>2. /\ clients' = [clients EXCEPT ![f] = NoClient]
      /\ writebuf' = [writebuf EXCEPT ![f] = <<>>]
      /\ poll_list' = [poll_list EXCEPT ![idx].fd = Gone, ![idx].revents = {}]
      /\ cpipe' = cpipe
      /\ pc' = "exit" \/ (pc' = "dispatch" /\ idx' = idx + 1)
  BY DEF CloseClient
<1>3. \A i \in DOMAIN poll_list : poll_list[i] \in PollEntries
  BY CurrentOf, SeqIsFunction DEF IInv, TypeOK
<1>4. /\ DOMAIN poll_list' = DOMAIN poll_list
      /\ \A i \in DOMAIN poll_list : i # idx => poll_list'[i] = poll_list[i]
      /\ poll_list'[idx] = [poll_list[idx] EXCEPT !.fd = Gone, !.revents = {}]
  BY <1>1, <1>2
<1>5. poll_list'[idx].fd = Gone
  BY <1>1, <1>3, <1>4 DEF PollEntries
<1>6. /\ \A g \in Fds : clients'[g] = IF g = f THEN NoClient ELSE clients[g]
      /\ \A g \in Fds : writebuf'[g] = IF g = f THEN <<>> ELSE writebuf[g]
  BY <1>1, <1>2 DEF IInv, TypeOK
<1>7. \A i \in DOMAIN poll_list : i # idx => poll_list[i].fd # f
  BY <1>1 DEF IInv, WriteInterest
<1>8. \A g \in Fds : g # Gone
  BY FdsAssumption DEF Gone
<1>9. \A k \in DOMAIN poll_list : (pc' = "dispatch" /\ idx' <= k) => Pending(k) /\ k # idx
  BY <1>1, <1>2, CurrentOf DEF Pending, IInv, TypeOK
<1>10. WriteInterest'
  <2>1. \A g \in Fds :
          clients'[g] # NoClient <=> \E k \in DOMAIN poll_list' : poll_list'[k].fd = g
    <3>1. ASSUME NEW g \in Fds, g # f
          PROVE  clients'[g] # NoClient <=> \E k \in DOMAIN poll_list' : poll_list'[k].fd = g
      <4>1. \A k \in DOMAIN poll_list : poll_list'[k].fd = g <=> poll_list[k].fd = g
        BY <1>1, <1>4, <1>5, <1>8, <3>1, ZenonT(30)
      <4>2. clients'[g] = clients[g] /\ DOMAIN poll_list' = DOMAIN poll_list
        BY <1>4, <1>6, <3>1
      <4>3. clients[g] # NoClient <=> \E k \in DOMAIN poll_list : poll_list[k].fd = g
        BY DEF IInv, WriteInterest
      <4> QED BY <4>1, <4>2, <4>3
    <3>2. clients'[f] = NoClient /\ \A k \in DOMAIN poll_list' : poll_list'[k].fd # f
      <4>1. clients'[f] = NoClient
        BY <1>1, <1>6
      <4>2. ASSUME NEW k \in DOMAIN poll_list', k # idx PROVE poll_list'[k].fd # f
        BY <1>4, <1>7, <4>2
      <4>3. poll_list'[idx].fd # f
        BY <1>1, <1>5
      <4> QED BY <4>1, <4>2, <4>3
    <3> QED BY <3>1, <3>2
  <2>2. \A k, m \in DOMAIN poll_list' :
          poll_list'[k].fd = poll_list'[m].fd /\ poll_list'[k].fd # Gone => k = m
    BY <1>4, <1>5, ZenonT(30) DEF IInv, WriteInterest
  <2>3. ASSUME NEW k \in DOMAIN poll_list', poll_list'[k].fd \in Fds
        PROVE  /\ poll_list'[k].out <=> writebuf'[poll_list'[k].fd] # <<>>
               /\ "OUT" \in poll_list'[k].revents /\ pc' = "dispatch" /\ k >= idx'
                    => writebuf'[poll_list'[k].fd] # <<>>
    <3>1. k # idx /\ k \in DOMAIN poll_list /\ poll_list'[k] = poll_list[k] /\ poll_list[k].fd # f
      BY <1>4, <1>5, <1>7, <1>8, <2>3, ZenonT(30)
    <3>2. poll_list'[k].out <=> writebuf'[poll_list'[k].fd] # <<>>
      BY <1>6, <2>3, <3>1 DEF IInv, WriteInterest
    <3>3. "OUT" \in poll_list'[k].revents /\ pc' = "dispatch" /\ idx' <= k
                    => writebuf'[poll_list'[k].fd] # <<>>
      BY <1>6, <1>9, <2>3, <3>1 DEF IInv, PollOK
    <3>4. (idx' \in Nat /\ k \in Nat) \/ pc' # "dispatch"
      BY <1>1, <1>2, <3>1, CurrentOf DEF IInv, TypeOK
    <3> QED BY <3>2, <3>3, <3>4
  <2> QED BY <2>1, <2>2, <2>3 DEF WriteInterest
<1>11. PollOK'
  <2>1. \A k \in DOMAIN poll_list' :
          /\ Pending(k)' /\ poll_list'[k].fd = cpipe_0 /\ poll_list'[k].revents # {}
               => cpipe' > 0
          /\ Pending(k)' /\ poll_list'[k].fd \in Fds /\ "OUT" \in poll_list'[k].revents
               => writebuf'[poll_list'[k].fd] # <<>>
    <3>1. \A k \in DOMAIN poll_list : Pending(k)' => Pending(k) /\ k # idx
      BY <1>2, <1>9 DEF Pending
    <3> QED BY <1>2, <1>4, <1>6, <1>7, <3>1 DEF IInv, PollOK
  <2>2. \A g \in Fds : clients'[g] = NoClient => writebuf'[g] = <<>>
    BY <1>6 DEF IInv, PollOK
  <2> QED BY <1>2, <2>1, <2>2 DEF PollOK
<1> QED BY <1>10, <1>11

LEMMA MainLoopPoll ==
  ASSUME IInv, MainLoop
  PROVE  WriteInterest' /\ PollOK'
<1> USE DEF childVars, memVars, ctlVars
<1>0. cpipe \in Nat /\ TypeOK /\ ChildrenRegistered
  BY CapsAssumption DEF IInv, TypeOK
<1>1. CASE ScheduleNewJobs
  <2>1. Head(queue) \in Jobs /\ RunRequest(Head(queue)) /\ Head(queue) = queue[1] /\ 1 \in DOMAIN queue
    BY <1>1, TailOf DEF ScheduleNewJobs, IInv, TypeOK
  <2>2. Head(queue).key \in Fds /\ clients[Head(queue).key] # NoClient
    BY <2>1, ClientsAssumption DEF IInv, QueuedHaveClients, Jobs
  <2>3. UNCHANGED <<clients, cpipe, pc, idx, removing>>
    BY <1>1 DEF ScheduleNewJobs
  <2> QED BY <1>0, <2>1, <2>2, <2>3, RunRequestOf, WroteKeeps
<1>2. CASE ScheduleDone \/ PollListCleaned \/ DispatchDone
  BY <1>2, QuietKeeps DEF ScheduleDone, PollListCleaned, DispatchDone
<1>3. CASE DispatchIdle \/ ChildEventsDone \/ LinesDone
  BY <1>3, QuietKeeps DEF DispatchIdle, ChildEventsDone, LinesDone
<1>4. CASE ReadPipe
  <2>1. pc = "dispatch" /\ pc' = "reap" /\ idx' = idx /\ idx \in DOMAIN poll_list
        /\ Current.fd = cpipe_0
    BY <1>4, CurrentOf DEF ReadPipe, Dispatching
  <2>2. UNCHANGED <<clients, writebuf, poll_list>>
    BY <1>4 DEF ReadPipe
  <2> QED BY <2>1, <2>2, QuietKeeps
<1>5. CASE HandleChildEvent
  <2>1. PICK q \in processes :
          IF clients[q.key] # NoClient
          THEN QueueWrite(q.key, Finished(q, children[q.pid].how # "exit",
                                          children[q.pid].how))
          ELSE UNCHANGED <<writebuf, poll_list>>
    BY <1>5 DEF HandleChildEvent
  <2>2. q.pid \in Pids /\ q.key \in Fds /\ q.id \in Ids /\ q.owner \in Clients
    BY <1>0, <2>1 DEF TypeOK, Procs
  <2>3. children[q.pid].how \in Causes /\ (children[q.pid].how # "exit") \in BOOLEAN
    BY <1>0, <2>2 DEF TypeOK, Causes
  <2>4. Finished(q, children[q.pid].how # "exit", children[q.pid].how) \in Answers
    BY <2>2, <2>3, AnswersTyped, ZenonT(30)
  <2>5. UNCHANGED <<clients, cpipe, pc, idx, removing>>
    BY <1>5 DEF HandleChildEvent
  <2>6. CASE clients[q.key] # NoClient
    <3>1. Wrote(q.key)
      BY <1>0, <2>1, <2>2, <2>4, <2>6, QueueWriteOf
    <3> QED BY <2>2, <2>5, <2>6, <3>1, WroteKeeps
  <2>7. CASE clients[q.key] = NoClient
    <3>1. UNCHANGED <<writebuf, poll_list>>
      BY <2>1, <2>7
    <3> QED BY <1>0, <2>5, <3>1, QuietKeeps
  <2> QED BY <2>6, <2>7
<1>6. CASE ClientError \/ ReadEndOfFile
  <2>1. /\ pc = "dispatch" /\ pc' = "remove" /\ idx' = idx /\ cpipe' = cpipe
        /\ idx \in DOMAIN poll_list /\ Current.fd \in Fds /\ removing'.key = Current.fd
    BY <1>6, CurrentOf
    DEF ClientError, ReadEndOfFile, Reading, DispatchingClient, Dispatching, StartRemoving
  <2>2. UNCHANGED <<clients, writebuf, poll_list>>
    BY <1>6 DEF ClientError, ReadEndOfFile
  <2> QED BY <2>1, <2>2, QuietKeeps
<1>7. CASE ReadOnClient
  <2>1. /\ pc = "dispatch" /\ pc' = "lines" /\ idx' = idx /\ cpipe' = cpipe
        /\ idx \in DOMAIN poll_list /\ Current.fd \in Fds
    BY <1>7, CurrentOf DEF ReadOnClient, Reading, DispatchingClient, Dispatching
  <2>2. UNCHANGED <<clients, writebuf, poll_list>>
    BY <1>7 DEF ReadOnClient
  <2> QED BY <2>1, <2>2, QuietKeeps
<1>8. CASE HandleRunNow
  <2>1. LineJob \in Jobs /\ RunRequest(LineJob) /\ clients[LineJob.key] = LineJob.owner
    BY <1>8, LineJobTyped DEF HandleRunNow
  <2>2. LineJob.key \in Fds /\ clients[LineJob.key] # NoClient
    BY <2>1, ClientsAssumption DEF Jobs
  <2>3. UNCHANGED <<clients, cpipe, pc, idx, removing>>
    BY <1>8 DEF HandleRunNow
  <2>4. Wrote(LineJob.key)
    BY <1>0, <2>1, RunRequestOf
  <2> QED BY <2>2, <2>3, <2>4, WroteKeeps
<1>9. CASE HandleRunLater \/ HandleParallel \/ RemoveKeeps
  <2>1. UNCHANGED <<clients, writebuf, poll_list, cpipe, pc, idx, removing>>
    BY <1>9 DEF HandleRunLater, HandleParallel, RemoveKeeps
  <2> QED BY <1>0, <2>1, QuietKeeps
<1>10. CASE HandleInterrupt
  <2>1. /\ pc = "lines" /\ pc' = "remove" /\ idx' = idx /\ cpipe' = cpipe
        /\ idx \in DOMAIN poll_list /\ Current.fd \in Fds /\ removing'.key = Current.fd
    BY <1>10, CurrentOf DEF HandleInterrupt, HandlingLine, StartRemoving, IInv, PollOK
  <2>2. UNCHANGED <<clients, writebuf, poll_list>>
    BY <1>10 DEF HandleInterrupt
  <2> QED BY <2>1, <2>2, QuietKeeps
<1>11. CASE RemoveDrops
  <2>1. Head(queue) \in Jobs
    BY <1>0, <1>11, TailOf DEF RemoveDrops, TypeOK
  <2>2. Finished(Head(queue), FALSE, "removed") \in Answers
    BY <2>1, AnswersTyped, ZenonT(30) DEF Jobs, Causes
  <2>3. removing.key \in Fds /\ idx \in DOMAIN poll_list /\ poll_list[idx].fd = removing.key
    BY <1>11 DEF RemoveDrops, IInv, PollOK, Current
  <2>4. clients[removing.key] # NoClient
    BY <2>3 DEF IInv, WriteInterest
  <2>5. UNCHANGED <<clients, cpipe, pc, idx, removing>>
    BY <1>11 DEF RemoveDrops
  <2>6. CASE removing.id # AllIds
    <3>1. Wrote(removing.key)
      BY <1>0, <1>11, <2>2, <2>3, <2>6, QueueWriteOf, ZenonT(30) DEF RemoveDrops
    <3> QED BY <2>3, <2>4, <2>5, <3>1, WroteKeeps
  <2>7. CASE removing.id = AllIds
    <3>1. UNCHANGED <<writebuf, poll_list>>
      BY <1>11, <2>7 DEF RemoveDrops
    <3> QED BY <1>0, <2>5, <3>1, QuietKeeps
  <2> QED BY <2>6, <2>7
<1>12. CASE InterruptKills
  <2>1. /\ pc = "remove" /\ pc' = "lines" /\ idx' = idx /\ cpipe' = cpipe
        /\ UNCHANGED <<clients, writebuf, poll_list>>
    BY <1>12 DEF InterruptKills
  <2> QED BY <2>1, QuietKeeps
<1> QED BY <1>1, <1>2, <1>3, <1>4, <1>5, <1>6, <1>7, <1>8, <1>9, <1>10, <1>11,
           <1>12, CleanKeepsPoll, PollKeepsPoll, AcceptKeepsPoll, WriteKeepsPoll,
           CloseKeepsPoll
    DEF MainLoop

LEMMA EnvironmentPoll ==
  ASSUME IInv, Environment
  PROVE  WriteInterest' /\ PollOK'
<1> USE DEF netVars, childVars, memVars, ctlVars
<1>0. cpipe \in Nat
  BY CapsAssumption DEF IInv, TypeOK
<1>1. CASE ForkFails \/ SigtermHandler
  BY <1>1, QuietKeeps DEF ForkFails, SigtermHandler
<1>2. CASE SigchldHandle
  <2>1. UNCHANGED <<clients, writebuf, poll_list, pc, idx, removing>>
    BY <1>2 DEF SigchldHandle
  <2>2. cpipe' \in Nat /\ cpipe' >= cpipe
    BY <1>0, <1>2 DEF SigchldHandle
  <2> QED BY <2>1, <2>2, QuietKeeps
<1>3. ASSUME NEW p \in Pids, ChildStep(p) PROVE WriteInterest' /\ PollOK'
  <2>1. UNCHANGED <<clients, writebuf, poll_list, cpipe, pc, idx, removing>>
    BY <1>3 DEF ChildStep, ChildSetpgid, ChildExits, ChildDies
  <2> QED BY <1>0, <2>1, QuietKeeps
<1>4. ASSUME NEW c \in Clients, ClientStep(c) PROVE WriteInterest' /\ PollOK'
  <2>1. UNCHANGED <<clients, writebuf, poll_list, cpipe, pc, idx, removing>>
    BY <1>4 DEF ClientStep, Connect, Send, Receive, Hangup
  <2> QED BY <1>0, <2>1, QuietKeeps
<1> QED BY <1>1, <1>2, <1>3, <1>4 DEF Environment

=============================================================================
