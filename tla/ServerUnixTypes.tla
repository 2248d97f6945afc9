-------------------------- MODULE ServerUnixTypes ---------------------------
(***************************************************************************)
(* The inductive invariant of ServerUnix, and the proof that every step    *)
(* keeps the types.  For any number of clients, descriptors, processes and *)
(* requests.                                                               *)
(***************************************************************************)
EXTENDS ServerUnix, TLAPS

-----------------------------------------------------------------------------
(* The inductive invariant *)

\* entry i of poll_list is still to be treated in this round
Pending(i) ==
  \/ pc = "dispatch" /\ idx <= i
  \/ pc \in {"reap", "lines", "remove"} /\ idx < i

\* The entry being treated is what the handlers take it for, an event that is
\* still to be treated has its reason, and a free descriptor has no answers.
PollOK ==
  /\ pc \in {"reap", "lines", "remove"} => idx \in DOMAIN poll_list
  /\ pc = "lines" => Current.fd \in Fds
  /\ pc = "remove" => removing.key \in Fds /\ Current.fd = removing.key
  /\ pc = "reap" => Current.fd = cpipe_0
  /\ \A i \in DOMAIN poll_list :
       /\ Pending(i) /\ poll_list[i].fd = cpipe_0 /\ poll_list[i].revents # {} => cpipe > 0
       /\ Pending(i) /\ poll_list[i].fd \in Fds /\ "OUT" \in poll_list[i].revents
            => writebuf[poll_list[i].fd] # <<>>
  /\ \A f \in Fds : clients[f] = NoClient => writebuf[f] = <<>>

\* remove_from_queue: what is set aside in tmp belongs to other clients, when
\* all the requests of a client are removed.
TmpOK ==
  /\ pc \notin {"remove", "exit"} => tmp = <<>>
  /\ pc = "remove" /\ removing.id = AllIds =>
       \A i \in DOMAIN tmp : tmp[i].key # removing.key

IInv ==
  /\ TypeOK
  /\ WriteInterest
  /\ PollOK
  /\ TmpOK
  /\ QueuedHaveClients
  /\ ChildrenRegistered
  /\ NoLostWakeup

-----------------------------------------------------------------------------
(* Lemmas about sequences *)

LEMMA FunctionIsSeq ==
  ASSUME NEW S, NEW n \in Nat, NEW f \in [1 .. n -> S]
  PROVE  f \in Seq(S) /\ Len(f) = n /\ DOMAIN f = 1 .. n
OBVIOUS

LEMMA SeqIsFunction ==
  ASSUME NEW S, NEW s \in Seq(S)
  PROVE  Len(s) \in Nat /\ DOMAIN s = 1 .. Len(s) /\ \A i \in 1 .. Len(s) : s[i] \in S
OBVIOUS

LEMMA EmptySeqTyped == \A S : <<>> \in Seq(S)
OBVIOUS

LEMMA TailOf ==
  ASSUME NEW S, NEW s \in Seq(S), s # <<>>
  PROVE  /\ Tail(s) \in Seq(S)
         /\ Head(s) \in S /\ Head(s) = s[1] /\ 1 \in DOMAIN s
         /\ \A i \in DOMAIN Tail(s) : i + 1 \in DOMAIN s /\ Tail(s)[i] = s[i + 1]
OBVIOUS

LEMMA AppendOf ==
  ASSUME NEW S, NEW s \in Seq(S), NEW e \in S
  PROVE  /\ Append(s, e) \in Seq(S)
         /\ Append(s, e) # <<>>
         /\ Len(Append(s, e)) = Len(s) + 1
         /\ \A i \in DOMAIN Append(s, e) :
              \/ i \in DOMAIN s /\ Append(s, e)[i] = s[i]
              \/ i = Len(s) + 1 /\ Append(s, e)[i] = e
         /\ \A i \in DOMAIN s : i \in DOMAIN Append(s, e)
         /\ Len(s) + 1 \in DOMAIN Append(s, e)
OBVIOUS

LEMMA SubSeqOf ==
  ASSUME NEW S, NEW s \in Seq(S), NEW m \in 1 .. Len(s) + 1, NEW n \in 0 .. Len(s)
  PROVE  SubSeq(s, m, n) \in Seq(S)
OBVIOUS

\* the array after one step of poll_list_clean
LEMMA CleanOf ==
  ASSUME NEW S, NEW s \in Seq(S), NEW i \in DOMAIN s
  PROVE  LET t == SubSeq([s EXCEPT ![i] = s[Len(s)]], 1, Len(s) - 1) IN
         /\ t \in Seq(S)
         /\ DOMAIN t = 1 .. Len(s) - 1
         /\ \A k \in DOMAIN t : t[k] = IF k = i THEN s[Len(s)] ELSE s[k]
<1>1. Len(s) \in Nat \ {0} /\ DOMAIN s = 1 .. Len(s)
  OBVIOUS
<1> DEFINE u == [s EXCEPT ![i] = s[Len(s)]]
<1>2. u \in Seq(S) /\ Len(u) = Len(s) /\ \A k \in 1 .. Len(s) : u[k] = IF k = i THEN s[Len(s)] ELSE s[k]
  BY <1>1
<1> HIDE DEF u
<1>3. SubSeq(u, 1, Len(s) - 1) \in Seq(S)
  BY <1>1, <1>2
<1>4. DOMAIN SubSeq(u, 1, Len(s) - 1) = 1 .. Len(s) - 1
  BY <1>1, <1>2
<1>5. \A k \in 1 .. Len(s) - 1 : SubSeq(u, 1, Len(s) - 1)[k] = u[k]
  BY <1>1, <1>2
<1> QED BY <1>1, <1>2, <1>3, <1>4, <1>5 DEF u

-----------------------------------------------------------------------------
(* What the helpers of the handlers do *)

LEMMA AnswersTyped ==
  ASSUME NEW j, j.id \in Ids, j.owner \in Clients
  PROVE  /\ Started(j) \in Answers
         /\ \A t \in BOOLEAN, c \in Causes : Finished(j, t, c) \in Answers
BY DEF Started, Finished, Answers, Causes

\* the effect of queue_write on the write buffers and on the array of poll
Wrote(f) ==
  /\ writebuf' \in [Fds -> Seq(Answers)]
  /\ writebuf'[f] # <<>>
  /\ \A g \in Fds \ {f} : writebuf'[g] = writebuf[g]
  /\ poll_list' \in Seq(PollEntries)
  /\ DOMAIN poll_list' = DOMAIN poll_list
  /\ Len(poll_list') = Len(poll_list)
  /\ \A i \in DOMAIN poll_list :
       /\ poll_list'[i].fd = poll_list[i].fd
       /\ poll_list'[i].revents = poll_list[i].revents
       /\ poll_list'[i].out <=> poll_list[i].out \/ poll_list[i].fd = f

LEMMA QueueWriteOf ==
  ASSUME TypeOK, NEW f \in Fds, NEW m \in Answers, QueueWrite(f, m)
  PROVE  Wrote(f)
<1>1. writebuf' = [writebuf EXCEPT ![f] = Append(@, m)]
  BY DEF QueueWrite
<1>2. writebuf' \in [Fds -> Seq(Answers)] /\ writebuf'[f] = Append(writebuf[f], m)
      /\ \A g \in Fds \ {f} : writebuf'[g] = writebuf[g]
  BY <1>1 DEF TypeOK
<1>3. writebuf'[f] # <<>>
  <2>1. writebuf[f] \in Seq(Answers)
    BY DEF TypeOK
  <2> QED BY <1>2, <2>1, AppendOf
<1>4. Len(poll_list) \in Nat /\ DOMAIN poll_list = 1 .. Len(poll_list)
      /\ \A i \in 1 .. Len(poll_list) : poll_list[i] \in PollEntries
  BY SeqIsFunction DEF TypeOK
<1>5. \A e \in PollEntries :
        /\ [e EXCEPT !.out = TRUE] \in PollEntries
        /\ [e EXCEPT !.out = TRUE].fd = e.fd
        /\ [e EXCEPT !.out = TRUE].revents = e.revents
        /\ [e EXCEPT !.out = TRUE].out = TRUE
  BY ZenonT(30) DEF PollEntries
<1>6. poll_list' = [i \in DOMAIN poll_list |->
                     IF poll_list[i].fd = f THEN [poll_list[i] EXCEPT !.out = TRUE]
                                            ELSE poll_list[i]]
  BY DEF QueueWrite
<1>7. poll_list' \in [1 .. Len(poll_list) -> PollEntries]
  BY <1>4, <1>5, <1>6
<1>8. \A i \in DOMAIN poll_list :
        poll_list'[i] = IF poll_list[i].fd = f THEN [poll_list[i] EXCEPT !.out = TRUE]
                                               ELSE poll_list[i]
  BY <1>4, <1>6
<1>9. poll_list' \in Seq(PollEntries) /\ Len(poll_list') = Len(poll_list)
  BY <1>4, <1>7, FunctionIsSeq
<1>10. \A i \in DOMAIN poll_list :
         /\ poll_list'[i].fd = poll_list[i].fd
         /\ poll_list'[i].revents = poll_list[i].revents
         /\ poll_list'[i].out <=> poll_list[i].out \/ poll_list[i].fd = f
  BY <1>4, <1>5, <1>8, ZenonT(30)
<1> QED BY <1>2, <1>3, <1>4, <1>7, <1>9, <1>10 DEF Wrote

ChildStates ==
  [st : {"free", "forked", "running", "dying", "zombie"},
   how : {"exit", "crash", "cpulimit", "killed"}]

\* a killed child remains a child until it is waited for
LEMMA KilledOf ==
  ASSUME TypeOK, NEW P
  PROVE  /\ Killed(P) \in [Pids -> ChildStates]
         /\ \A p \in Pids : /\ Killed(P)[p].st = "zombie" <=> children[p].st = "zombie"
                            /\ Killed(P)[p].st = "free" <=> children[p].st = "free"
BY DEF TypeOK, Killed, ChildStates

LEMMA RunRequestOf ==
  ASSUME TypeOK, ChildrenRegistered, NEW j \in Jobs, RunRequest(j)
  PROVE  /\ children' \in [Pids -> ChildStates]
         /\ processes' \in SUBSET Procs
         /\ \A p \in Pids : children'[p].st = "zombie" <=> children[p].st = "zombie"
         /\ ChildrenRegistered'
         /\ Wrote(j.key)
<1>1. j.key \in Fds /\ j.id \in Ids /\ j.owner \in Clients
  BY DEF Jobs
<1>2. Started(j) \in Answers /\ QueueWrite(j.key, Started(j))
  BY <1>1, AnswersTyped DEF RunRequest
<1>3. PICK p \in Pids :
        /\ children[p].st = "free"
        /\ children' = [children EXCEPT ![p] = [st |-> "forked", how |-> "exit"]]
        /\ processes' = processes \cup
             {[pid |-> p, key |-> j.key, id |-> j.id, owner |-> j.owner]}
  BY ZenonT(30) DEF RunRequest
<1>4. children' \in [Pids -> ChildStates]
  BY <1>3 DEF TypeOK, ChildStates
<1>5. processes' \in SUBSET Procs
  BY <1>1, <1>3 DEF TypeOK, Procs
<1>6. \A q \in Pids : children'[q].st = IF q = p THEN "forked" ELSE children[q].st
  BY <1>3 DEF TypeOK
<1>7. ChildrenRegistered'
  <2>1. \A q \in processes : q.pid # p
    BY <1>3 DEF ChildrenRegistered
  <2>2. {q \in Pids : children'[q].st # "free"} = {q.pid : q \in processes'}
    <3>1. {q \in Pids : children'[q].st # "free"}
            = {q \in Pids : children[q].st # "free"} \cup {p}
      BY <1>6
    <3>2. {q.pid : q \in processes'} = {q.pid : q \in processes} \cup {p}
      <4> DEFINE r == [pid |-> p, key |-> j.key, id |-> j.id, owner |-> j.owner]
      <4>1. r.pid = p /\ processes' = processes \cup {r}
        BY <1>3
      <4> HIDE DEF r
      <4> QED BY <4>1
    <3> QED BY <3>1, <3>2 DEF ChildrenRegistered
  <2>3. \A q, r \in processes' : q.pid = r.pid => q = r
    BY <1>3, <2>1 DEF ChildrenRegistered
  <2> QED BY <2>2, <2>3 DEF ChildrenRegistered
<1> QED BY <1>1, <1>2, <1>3, <1>4, <1>5, <1>6, <1>7, QueueWriteOf

-----------------------------------------------------------------------------
(* The steps of the server preserve the types *)

\* what the entry and the line being treated are
LEMMA CurrentOf ==
  ASSUME IInv
  PROVE  /\ Len(poll_list) \in Nat /\ DOMAIN poll_list = 1 .. Len(poll_list)
         /\ Dispatching => idx \in DOMAIN poll_list
         /\ idx \in DOMAIN poll_list => Current \in PollEntries
         /\ DispatchingClient \/ pc = "lines" =>
              Current.fd \in Fds /\ clients[Current.fd] \in Clients
         /\ Dispatching /\ Current.fd = cpipe_0 => cpipe > 0
         /\ DispatchingClient /\ "OUT" \in Current.revents => writebuf[Current.fd] # <<>>
         /\ readbuf # <<>> => Head(readbuf) \in Requests /\ Tail(readbuf) \in Seq(Requests)
<1>1. Len(poll_list) \in Nat /\ DOMAIN poll_list = 1 .. Len(poll_list)
      /\ \A i \in 1 .. Len(poll_list) : poll_list[i] \in PollEntries
  BY SeqIsFunction DEF IInv, TypeOK
<1>2. Dispatching => idx \in DOMAIN poll_list
  BY <1>1 DEF IInv, TypeOK, Dispatching
<1>3. DispatchingClient \/ pc = "lines" => idx \in DOMAIN poll_list /\ Current.fd \in Fds
  BY <1>2 DEF IInv, PollOK, DispatchingClient
<1>4. DispatchingClient \/ pc = "lines" => clients[Current.fd] \in Clients
  BY <1>3 DEF IInv, WriteInterest, TypeOK, Current
<1>5. readbuf # <<>> => Head(readbuf) \in Requests /\ Tail(readbuf) \in Seq(Requests)
  BY TailOf DEF IInv, TypeOK
<1>6. Dispatching => Pending(idx) /\ Current.revents # {}
  BY DEF Dispatching, Pending, IInv, TypeOK
<1>7. Dispatching /\ Current.fd = cpipe_0 => cpipe > 0
  BY <1>2, <1>6 DEF IInv, PollOK, Current
<1>8. DispatchingClient /\ "OUT" \in Current.revents => writebuf[Current.fd] # <<>>
  BY <1>2, <1>6 DEF IInv, PollOK, Current, DispatchingClient
<1> QED BY <1>1, <1>2, <1>3, <1>4, <1>5, <1>7, <1>8 DEF Current

LEMMA LineJobTyped ==
  ASSUME IInv, HandlingLine("run")
  PROVE  LineJob \in Jobs /\ clients[LineJob.key] = LineJob.owner
<1>1. Head(readbuf) \in Requests /\ Head(readbuf).op = "run"
  BY CurrentOf DEF HandlingLine
<1>2. Head(readbuf).arg \in Ids
  BY <1>1 DEF Requests, Run, Interrupt, Parallel
<1>3. Current.fd \in Fds /\ clients[Current.fd] \in Clients
  BY CurrentOf DEF HandlingLine
<1> QED BY <1>2, <1>3 DEF LineJob, Jobs

LEMMA MainLoopType ==
  ASSUME IInv, MainLoop
  PROVE  TypeOK'
<1> USE DEF netVars, childVars, memVars, ctlVars, ChildStates
<1>0. TypeOK
  BY DEF IInv
<1>1. CASE ScheduleNewJobs
  <2>1. Head(queue) \in Jobs /\ Tail(queue) \in Seq(Jobs)
    BY <1>0, <1>1, TailOf DEF ScheduleNewJobs, TypeOK
  <2>2. RunRequest(Head(queue)) /\ ChildrenRegistered
    BY <1>1 DEF ScheduleNewJobs, IInv
  <2> QED BY <1>0, <1>1, <2>1, <2>2, RunRequestOf DEF ScheduleNewJobs, Wrote, TypeOK
<1>2. CASE ScheduleDone
  BY <1>0, <1>2 DEF ScheduleDone, TypeOK
<1>3. CASE PollListClean
  <2>1. PICK i \in Holes :
          poll_list' = SubSeq([poll_list EXCEPT ![i] = poll_list[Len(poll_list)]],
                              1, Len(poll_list) - 1)
    BY <1>3 DEF PollListClean
  <2>2. poll_list' \in Seq(PollEntries)
    BY <1>0, <2>1, CleanOf DEF TypeOK, Holes
  <2> QED BY <1>0, <1>3, <2>2 DEF PollListClean, TypeOK
<1>4. CASE PollListCleaned
  BY <1>0, <1>4 DEF PollListCleaned, TypeOK
<1>5. CASE Poll
  <2>1. \A e \in PollEntries : [e EXCEPT !.revents = Revents(e)] \in PollEntries
    BY DEF Revents, PollEntries
  <2>2. poll_list' \in [1 .. Len(poll_list) -> PollEntries]
    BY <1>5, <2>1, CurrentOf, SeqIsFunction, <1>0 DEF Poll, TypeOK
  <2>3. poll_list' \in Seq(PollEntries)
    BY <2>2, CurrentOf, FunctionIsSeq
  <2> QED BY <1>0, <1>5, <2>3 DEF Poll, TypeOK
<1>6. CASE DispatchIdle
  BY <1>0, <1>6 DEF DispatchIdle, TypeOK
<1>7. CASE DispatchDone
  BY <1>0, <1>7 DEF DispatchDone, TypeOK
<1>8. CASE ReadPipe
  <2>1. cpipe > 0
    BY <1>8, CurrentOf DEF ReadPipe
  <2> QED BY <1>0, <1>8, <2>1, CapsAssumption DEF ReadPipe, TypeOK
<1>9. CASE HandleChildEvent
  <2>1. PICK q \in processes :
          /\ children[q.pid].st = "zombie"
          /\ children' = [children EXCEPT ![q.pid] = FreeChild]
          /\ processes' = processes \ {q}
          /\ IF clients[q.key] # NoClient
             THEN QueueWrite(q.key, Finished(q, children[q.pid].how # "exit",
                                             children[q.pid].how))
             ELSE UNCHANGED <<writebuf, poll_list>>
    BY <1>9, ZenonT(30) DEF HandleChildEvent
  <2>2. q.pid \in Pids /\ q.key \in Fds /\ q.id \in Ids /\ q.owner \in Clients
    BY <1>0, <2>1 DEF TypeOK, Procs
  <2>3. children[q.pid].how \in Causes /\ (children[q.pid].how # "exit") \in BOOLEAN
    BY <1>0, <2>2 DEF TypeOK, Causes
  <2>4. Finished(q, children[q.pid].how # "exit", children[q.pid].how) \in Answers
    BY <2>2, <2>3, AnswersTyped, ZenonT(30)
  <2>5. writebuf' \in [Fds -> Seq(Answers)] /\ poll_list' \in Seq(PollEntries)
    BY <1>0, <2>1, <2>2, <2>4, QueueWriteOf DEF Wrote, TypeOK
  <2> QED BY <1>0, <1>9, <2>1, <2>2, <2>5 DEF HandleChildEvent, TypeOK, FreeChild
<1>10. CASE ChildEventsDone
  BY <1>0, <1>10 DEF ChildEventsDone, TypeOK
<1>11. CASE ServerAcceptClient
  <2>1. PICK c \in Clients, f \in FreeFds :
          /\ clients' = [clients EXCEPT ![f] = c]
          /\ poll_list' = Append(poll_list, Entry(f))
          /\ link' = [link EXCEPT ![c] = IF @ = "backlog" THEN "open" ELSE "closed"]
    BY <1>11, ZenonT(30) DEF ServerAcceptClient
  <2>2. f \in Fds /\ Entry(f) \in PollEntries
    BY DEF FreeFds, Entry, PollEntries
  <2>3. poll_list' \in Seq(PollEntries)
    BY <1>0, <2>1, <2>2, AppendOf DEF TypeOK
  <2>4. clients' \in [Fds -> Clients \cup {NoClient}]
    BY <1>0, <2>1, <2>2 DEF TypeOK
  <2>5. link' \in [Clients -> {"idle", "backlog", "lostbacklog", "open", "closed",
                              "reset", "gone"}]
    BY <1>0, <2>1 DEF TypeOK
  <2>6. /\ idx' = idx + 1
        /\ UNCHANGED <<up, down, sent, got, childVars, readbuf, writebuf, queue, tmp,
                        processes, parallel, pc, removing>>
    BY <1>11 DEF ServerAcceptClient
  <2> QED BY <1>0, <2>3, <2>4, <2>5, <2>6 DEF TypeOK
<1>12. CASE ClientError
  <2>1. Current.fd \in Fds
    BY <1>12 DEF ClientError, DispatchingClient
  <2> QED BY <1>0, <1>12, <2>1 DEF ClientError, StartRemoving, TypeOK
<1>13. CASE WriteToClient
  <2> DEFINE f == Current.fd
             c == clients[f]
  <2>1. idx \in DOMAIN poll_list /\ f \in Fds /\ c \in Clients
    BY <1>13, CurrentOf DEF WriteToClient, DispatchingClient
  <2>2. CASE HungUp(c)
    BY <1>0, <1>13, <2>1, <2>2 DEF WriteToClient, TypeOK
  <2>3. CASE ~HungUp(c)
    <3>1. writebuf[f] \in Seq(Answers) /\ writebuf[f] # <<>>
      BY <1>0, <1>13, <2>1, CurrentOf DEF WriteToClient, TypeOK
    <3>2. Head(writebuf[f]) \in Answers /\ Tail(writebuf[f]) \in Seq(Answers)
      BY <3>1, TailOf
    <3>3. down' = [down EXCEPT ![c] = Append(@, Head(writebuf[f]))]
          /\ writebuf' = [writebuf EXCEPT ![f] = Tail(@)]
          /\ poll_list' = [poll_list EXCEPT ![idx].out = Tail(writebuf[f]) # <<>>]
          /\ idx' = idx + 1 /\ pc' = pc
      BY <1>13, <2>3 DEF WriteToClient
    <3>4. down' \in [Clients -> Seq(Answers)] /\ writebuf' \in [Fds -> Seq(Answers)]
      <4>1. down[c] \in Seq(Answers) /\ Append(down[c], Head(writebuf[f])) \in Seq(Answers)
        BY <1>0, <2>1, <3>2, AppendOf DEF TypeOK
      <4> QED BY <1>0, <2>1, <3>2, <3>3, <4>1, ZenonT(30) DEF TypeOK
    <3>5. poll_list' \in Seq(PollEntries)
      <4>1. poll_list[idx] \in PollEntries
        BY <2>1, CurrentOf DEF Current
      <4>2. [poll_list[idx] EXCEPT !.out = Tail(writebuf[f]) # <<>>] \in PollEntries
        BY <4>1, ZenonT(30) DEF PollEntries
      <4>3. poll_list' = [poll_list EXCEPT ![idx] =
                            [poll_list[idx] EXCEPT !.out = Tail(writebuf[f]) # <<>>]]
        BY <3>3
      <4> QED BY <1>0, <2>1, <4>2, <4>3 DEF TypeOK
    <3>6. UNCHANGED <<link, up, sent, got, childVars, clients, readbuf, queue, tmp,
                      processes, parallel, removing>>
      BY <1>13 DEF WriteToClient
    <3>7. idx' = idx + 1 /\ pc' = pc
      BY <3>3
    <3> QED BY <1>0, <3>4, <3>5, <3>6, <3>7 DEF TypeOK
  <2> QED BY <2>2, <2>3
<1>14. CASE ReadOnClient
  <2> DEFINE c == clients[Current.fd]
  <2>1. c \in Clients
    BY <1>14, CurrentOf DEF ReadOnClient, Reading
  <2>2. PICK n \in 1 .. Len(up[c]) :
          /\ readbuf' = SubSeq(up[c], 1, n)
          /\ up' = [up EXCEPT ![c] = SubSeq(up[c], n + 1, Len(up[c]))]
    BY <1>14, ZenonT(30) DEF ReadOnClient
  <2>3. up[c] \in Seq(Requests) /\ Len(up[c]) \in Nat
    BY <1>0, <2>1 DEF TypeOK
  <2>4. readbuf' \in Seq(Requests) /\ SubSeq(up[c], n + 1, Len(up[c])) \in Seq(Requests)
    BY <2>2, <2>3, SubSeqOf
  <2>5. up' \in [Clients -> Seq(Requests)]
    BY <1>0, <2>1, <2>2, <2>4 DEF TypeOK
  <2> QED BY <1>0, <1>14, <2>4, <2>5, ZenonT(30) DEF ReadOnClient, TypeOK
<1>15. CASE ReadEndOfFile
  <2>1. Current.fd \in Fds
    BY <1>15 DEF ReadEndOfFile, Reading, DispatchingClient
  <2> QED BY <1>0, <1>15, <2>1 DEF ReadEndOfFile, StartRemoving, TypeOK
<1>16. CASE HandleRunNow
  <2>1. LineJob \in Jobs /\ RunRequest(LineJob) /\ ChildrenRegistered
    BY <1>16, LineJobTyped DEF HandleRunNow, IInv
  <2>2. Tail(readbuf) \in Seq(Requests)
    BY <1>16, CurrentOf DEF HandleRunNow, HandlingLine
  <2> QED BY <1>0, <1>16, <2>1, <2>2, RunRequestOf DEF HandleRunNow, Wrote, TypeOK
<1>17. CASE HandleRunLater
  <2>1. LineJob \in Jobs
    BY <1>17, LineJobTyped DEF HandleRunLater
  <2>2. Tail(readbuf) \in Seq(Requests)
    BY <1>17, CurrentOf DEF HandleRunLater, HandlingLine
  <2>3. queue' \in Seq(Jobs)
    BY <1>0, <1>17, <2>1, AppendOf DEF HandleRunLater, TypeOK
  <2> QED BY <1>0, <1>17, <2>2, <2>3 DEF HandleRunLater, TypeOK
<1>18. CASE HandleParallel
  <2>1. Head(readbuf) \in Requests /\ Head(readbuf).op = "parallel"
        /\ Tail(readbuf) \in Seq(Requests)
    BY <1>18, CurrentOf DEF HandleParallel, HandlingLine
  <2>2. Head(readbuf).arg \in Nat
    BY <2>1, ParallelAssumption DEF Requests, Run, Interrupt, Parallel
  <2>3. parallel' \in Nat \ {0}
    BY <1>0, <1>18, <2>2 DEF HandleParallel, TypeOK
  <2> QED BY <1>0, <1>18, <2>1, <2>3 DEF HandleParallel, TypeOK
<1>19. CASE HandleInterrupt
  <2>1. Head(readbuf) \in Requests /\ Head(readbuf).op = "interrupt"
        /\ Tail(readbuf) \in Seq(Requests) /\ Current.fd \in Fds
    BY <1>19, CurrentOf DEF HandleInterrupt, HandlingLine
  <2>2. Head(readbuf).arg \in Ids
    BY <2>1 DEF Requests, Run, Interrupt, Parallel
  <2> QED BY <1>0, <1>19, <2>1, <2>2 DEF HandleInterrupt, StartRemoving, TypeOK
<1>20. CASE LinesDone
  BY <1>0, <1>20 DEF LinesDone, TypeOK
<1>21. CASE RemoveKeeps
  <2>1. Head(queue) \in Jobs /\ Tail(queue) \in Seq(Jobs)
    BY <1>0, <1>21, TailOf DEF RemoveKeeps, TypeOK
  <2>2. tmp' \in Seq(Jobs)
    BY <1>0, <1>21, <2>1, AppendOf DEF RemoveKeeps, TypeOK
  <2> QED BY <1>0, <1>21, <2>1, <2>2 DEF RemoveKeeps, TypeOK
<1>22. CASE RemoveDrops
  <2>1. Head(queue) \in Jobs /\ Tail(queue) \in Seq(Jobs)
    BY <1>0, <1>22, TailOf DEF RemoveDrops, TypeOK
  <2>2. Finished(Head(queue), FALSE, "removed") \in Answers
    BY <2>1, AnswersTyped, ZenonT(30) DEF Jobs, Causes
  <2>3. removing.key \in Fds
    BY <1>22 DEF RemoveDrops, IInv, PollOK
  <2>4. writebuf' \in [Fds -> Seq(Answers)] /\ poll_list' \in Seq(PollEntries)
    BY <1>0, <1>22, <2>2, <2>3, QueueWriteOf, ZenonT(30) DEF RemoveDrops, Wrote, TypeOK
  <2> QED BY <1>0, <1>22, <2>1, <2>4 DEF RemoveDrops, TypeOK
<1>23. CASE InterruptKills
  <2>1. children' \in [Pids -> ChildStates]
    BY <1>0, <1>23, KilledOf DEF InterruptKills, KillProcesses
  <2> QED BY <1>0, <1>23, <2>1 DEF InterruptKills, TypeOK
<1>24. CASE CloseClient
  <2>1. children' \in [Pids -> ChildStates]
    BY <1>0, <1>24, KilledOf DEF CloseClient, KillProcesses
  <2>2. removing.key \in Fds /\ idx \in DOMAIN poll_list
    BY <1>24 DEF CloseClient, IInv, PollOK
  <2>3. poll_list[idx] \in PollEntries
    BY <2>2, CurrentOf DEF Current
  <2>4. [poll_list[idx] EXCEPT !.fd = Gone, !.revents = {}] \in PollEntries
    BY <2>3, ZenonT(30) DEF PollEntries
  <2>5. poll_list' = [poll_list EXCEPT ![idx] =
                        [poll_list[idx] EXCEPT !.fd = Gone, !.revents = {}]]
    BY <1>0, <1>24, <2>2, ZenonT(30) DEF CloseClient, TypeOK
  <2>6. poll_list' \in Seq(PollEntries)
    BY <1>0, <2>2, <2>4, <2>5 DEF TypeOK
  <2>7. /\ clients' \in [Fds -> Clients \cup {NoClient}]
        /\ writebuf' \in [Fds -> Seq(Answers)]
        /\ link' \in [Clients -> {"idle", "backlog", "lostbacklog", "open", "closed",
                                 "reset", "gone"}]
        /\ up' \in [Clients -> Seq(Requests)]
    <3>1. /\ clients' = [clients EXCEPT ![removing.key] = NoClient]
          /\ writebuf' = [writebuf EXCEPT ![removing.key] = <<>>]
          /\ link' = [link EXCEPT ![clients[removing.key]] = "gone"]
          /\ up' = [up EXCEPT ![clients[removing.key]] = <<>>]
      BY <1>24 DEF CloseClient
    <3>2. clients' \in [Fds -> Clients \cup {NoClient}]
      BY <1>0, <3>1, ZenonT(30) DEF TypeOK
    <3>3. writebuf' \in [Fds -> Seq(Answers)]
      BY <1>0, <3>1, EmptySeqTyped, ZenonT(30) DEF TypeOK
    <3>4. link' \in [Clients -> {"idle", "backlog", "lostbacklog", "open", "closed",
                               "reset", "gone"}]
      BY <1>0, <3>1, ZenonT(30) DEF TypeOK
    <3>5. up' \in [Clients -> Seq(Requests)]
      BY <1>0, <3>1, EmptySeqTyped, ZenonT(30) DEF TypeOK
    <3> QED BY <3>2, <3>3, <3>4, <3>5
  <2>8. /\ idx' \in {idx, idx + 1} /\ pc' \in {"exit", "dispatch"}
        /\ queue' = tmp /\ tmp' = <<>>
        /\ UNCHANGED <<down, sent, got, sigchld, cpipe, readbuf, processes, parallel,
                        removing>>
    BY <1>24 DEF CloseClient
  <2> QED BY <1>0, <2>1, <2>6, <2>7, <2>8 DEF TypeOK
<1> QED BY <1>1, <1>2, <1>3, <1>4, <1>5, <1>6, <1>7, <1>8, <1>9, <1>10, <1>11, <1>12,
           <1>13, <1>14, <1>15, <1>16, <1>17, <1>18, <1>19, <1>20, <1>21, <1>22,
           <1>23, <1>24 DEF MainLoop

Environment ==
  \/ ForkFails \/ SigtermHandler \/ SigchldHandle
  \/ \E p \in Pids : ChildStep(p)
  \/ \E c \in Clients : ClientStep(c)

LEMMA EnvironmentType ==
  ASSUME TypeOK, Environment
  PROVE  TypeOK'
<1> USE DEF netVars, childVars, memVars, ctlVars, ChildStates
<1>1. CASE ForkFails
  BY <1>1 DEF ForkFails, TypeOK
<1>2. CASE SigtermHandler
  <2>1. children' \in [Pids -> ChildStates]
    BY <1>2, KilledOf DEF SigtermHandler
  <2> QED BY <1>2, <2>1, ZenonT(30) DEF SigtermHandler, TypeOK
<1>3. CASE SigchldHandle
  <2>1. cpipe' \in 0 .. PipeCap
    BY <1>3, CapsAssumption DEF SigchldHandle, TypeOK
  <2> QED BY <1>3, <2>1, ZenonT(30) DEF SigchldHandle, TypeOK
<1>4. ASSUME NEW p \in Pids, ChildStep(p) PROVE TypeOK'
  <2>1. CASE ChildSetpgid(p)
    BY <2>1, ZenonT(30) DEF ChildSetpgid, TypeOK
  <2>2. CASE ChildExits(p)
    BY <2>2, ExitAssumption DEF ChildExits, TypeOK
  <2>3. CASE ChildDies(p)
    BY <2>3, ZenonT(30) DEF ChildDies, TypeOK
  <2> QED BY <1>4, <2>1, <2>2, <2>3 DEF ChildStep
<1>5. ASSUME NEW c \in Clients, ClientStep(c) PROVE TypeOK'
  <2>1. CASE Connect(c)
    BY <2>1 DEF Connect, TypeOK
  <2>2. ASSUME NEW r \in Requests, Send(c, r) PROVE TypeOK'
    <3>1. up[c] \in Seq(Requests) /\ Append(up[c], r) \in Seq(Requests)
      BY AppendOf DEF TypeOK
    <3> QED BY <2>2, <3>1 DEF Send, TypeOK
  <2>3. CASE Receive(c)
    <3>1. down[c] \in Seq(Answers) /\ got[c] \in Seq(Answers) /\ down[c] # <<>>
      BY <2>3 DEF Receive, TypeOK
    <3>2. Tail(down[c]) \in Seq(Answers) /\ Append(got[c], Head(down[c])) \in Seq(Answers)
      BY <3>1, TailOf, AppendOf
    <3> QED BY <2>3, <3>2 DEF Receive, TypeOK
  <2>4. CASE Hangup(c)
    <3>1. link' \in [Clients -> {"idle", "backlog", "lostbacklog", "open", "closed",
                               "reset", "gone"}]
      BY <2>4 DEF Hangup, TypeOK
    <3>2. down' \in [Clients -> Seq(Answers)]
      BY <2>4, EmptySeqTyped DEF Hangup, TypeOK
    <3>3. UNCHANGED <<up, sent, got, childVars, memVars, ctlVars>>
      BY <2>4 DEF Hangup
    <3> QED BY <3>1, <3>2, <3>3 DEF TypeOK
  <2> QED BY <1>5, <2>1, <2>2, <2>3, <2>4 DEF ClientStep
<1> QED BY <1>1, <1>2, <1>3, <1>4, <1>5 DEF Environment

=============================================================================
