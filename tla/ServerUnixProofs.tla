-------------------------- MODULE ServerUnixProofs --------------------------
(***************************************************************************)
(* The theorems about ServerUnix, for any number of clients, descriptors,  *)
(* processes and requests.                                                 *)
(***************************************************************************)
EXTENDS ServerUnixPoll

-----------------------------------------------------------------------------
(* The queue *)

\* nothing that matters for the queue changes
LEMMA QueueQuiet ==
  ASSUME TmpOK, QueuedHaveClients,
         UNCHANGED <<clients, queue, tmp>>,
         \/ UNCHANGED <<pc, removing>>
         \/ pc # "remove" /\ pc' # "remove" /\ (pc = "exit" => pc' = "exit")
         \/ pc' = "exit"
         \/ pc \notin {"remove", "exit"}
  PROVE  TmpOK' /\ QueuedHaveClients'
BY DEF TmpOK, QueuedHaveClients

LEMMA MainLoopQueue ==
  ASSUME IInv, MainLoop
  PROVE  TmpOK' /\ QueuedHaveClients'
<1> USE DEF childVars, memVars, ctlVars
<1>0. TypeOK /\ TmpOK /\ QueuedHaveClients /\ queue \in Seq(Jobs) /\ tmp \in Seq(Jobs)
  BY DEF IInv, TypeOK
<1>a. (\A i \in DOMAIN queue : queue[i] \in Jobs) /\ (\A i \in DOMAIN tmp : tmp[i] \in Jobs)
  BY <1>0, SeqIsFunction
<1>b. \A j \in Jobs : j.key \in Fds /\ j.owner # NoClient
  BY ClientsAssumption DEF Jobs
<1>1. CASE ScheduleNewJobs
  <2>1. queue' = Tail(queue) /\ queue # <<>> /\ UNCHANGED <<clients, tmp, pc, removing>>
    BY <1>1 DEF ScheduleNewJobs
  <2>2. \A i \in DOMAIN queue' : i + 1 \in DOMAIN queue /\ queue'[i] = queue[i + 1]
    BY <1>0, <2>1, TailOf
  <2> QED BY <1>0, <2>1, <2>2 DEF TmpOK, QueuedHaveClients
<1>2. CASE \/ ScheduleDone \/ PollListClean \/ PollListCleaned \/ Poll \/ DispatchIdle
           \/ DispatchDone \/ ReadPipe \/ HandleChildEvent \/ ChildEventsDone
  BY <1>0, <1>2, QueueQuiet
  DEF ScheduleDone, PollListClean, PollListCleaned, Poll, DispatchIdle, DispatchDone,
      ReadPipe, HandleChildEvent, ChildEventsDone, Dispatching
<1>3. CASE \/ ClientError \/ WriteToClient \/ ReadOnClient \/ ReadEndOfFile
           \/ HandleRunNow \/ HandleParallel \/ HandleInterrupt \/ LinesDone
  BY <1>0, <1>3, QueueQuiet
  DEF ClientError, WriteToClient, ReadOnClient, ReadEndOfFile, HandleRunNow,
      HandleParallel, HandleInterrupt, LinesDone, HandlingLine, Reading,
      DispatchingClient, Dispatching, StartRemoving
<1>4. CASE ServerAcceptClient
  <2>1. PICK c \in Clients, f \in FreeFds : clients' = [clients EXCEPT ![f] = c]
    BY <1>4, ZenonT(30) DEF ServerAcceptClient
  <2>2. UNCHANGED <<queue, tmp, pc, removing>>
    BY <1>4 DEF ServerAcceptClient
  <2>3. \A g \in Fds : clients[g] # NoClient => clients'[g] = clients[g]
    BY <1>0, <2>1 DEF TypeOK, FreeFds
  <2>4. /\ \A i \in DOMAIN queue : queue[i].key \in Fds /\ queue[i].owner # NoClient
        /\ \A i \in DOMAIN tmp : tmp[i].key \in Fds /\ tmp[i].owner # NoClient
    BY <1>a, <1>b
  <2> QED BY <1>0, <2>2, <2>3, <2>4 DEF TmpOK, QueuedHaveClients
<1>5. CASE HandleRunLater
  <2>1. LineJob \in Jobs /\ clients[LineJob.key] = LineJob.owner
    BY <1>5, LineJobTyped DEF HandleRunLater
  <2>2. queue' = Append(queue, LineJob) /\ UNCHANGED <<clients, tmp, pc, removing>>
    BY <1>5 DEF HandleRunLater
  <2>3. \A i \in DOMAIN queue' :
          (i \in DOMAIN queue /\ queue'[i] = queue[i]) \/ queue'[i] = LineJob
    BY <1>0, <2>1, <2>2, AppendOf
  <2> HIDE DEF LineJob
  <2> QED BY <1>0, <2>1, <2>2, <2>3 DEF TmpOK, QueuedHaveClients
<1>6. CASE RemoveKeeps
  <2>1. /\ queue' = Tail(queue) /\ queue # <<>> /\ tmp' = Append(tmp, Head(queue))
        /\ UNCHANGED <<clients, pc, removing>> /\ pc = "remove" /\ ~Removed(Head(queue))
    BY <1>6 DEF RemoveKeeps
  <2>2. /\ \A i \in DOMAIN queue' : i + 1 \in DOMAIN queue /\ queue'[i] = queue[i + 1]
        /\ 1 \in DOMAIN queue /\ Head(queue) = queue[1] /\ Head(queue) \in Jobs
    BY <1>0, <2>1, TailOf
  <2>3. \A i \in DOMAIN tmp' :
          (i \in DOMAIN tmp /\ tmp'[i] = tmp[i]) \/ tmp'[i] = queue[1]
    BY <1>0, <2>1, <2>2, AppendOf
  <2>4. QueuedHaveClients'
    BY <1>0, <2>1, <2>2, <2>3 DEF QueuedHaveClients
  <2>5. removing.id = AllIds => queue[1].key # removing.key
    BY <2>1, <2>2 DEF Removed, Matches
  <2> QED BY <1>0, <2>1, <2>3, <2>4, <2>5 DEF TmpOK
<1>7. CASE RemoveDrops
  <2>1. queue' = Tail(queue) /\ queue # <<>> /\ UNCHANGED <<clients, tmp, pc, removing>>
    BY <1>7 DEF RemoveDrops
  <2>2. \A i \in DOMAIN queue' : i + 1 \in DOMAIN queue /\ queue'[i] = queue[i + 1]
    BY <1>0, <2>1, TailOf
  <2> QED BY <1>0, <2>1, <2>2 DEF TmpOK, QueuedHaveClients
<1>8. CASE InterruptKills
  <2>1. queue' = tmp /\ tmp' = <<>> /\ clients' = clients
    BY <1>8 DEF InterruptKills
  <2>2. DOMAIN tmp' = {}
    BY <2>1
  <2> QED BY <1>0, <2>1, <2>2 DEF TmpOK, QueuedHaveClients
<1>9. CASE CloseClient
  <2>1. /\ queue' = tmp /\ tmp' = <<>> /\ pc = "remove" /\ removing.id = AllIds
        /\ clients' = [clients EXCEPT ![removing.key] = NoClient]
    BY <1>9 DEF CloseClient
  <2>2. DOMAIN tmp' = {}
    BY <2>1
  <2>3. \A i \in DOMAIN tmp : tmp[i].key \in Fds /\ tmp[i].key # removing.key
    BY <1>0, <1>a, <1>b, <2>1 DEF TmpOK
  <2>4. \A f \in Fds : f # removing.key => clients'[f] = clients[f]
    BY <1>0, <2>1 DEF TypeOK
  <2> QED BY <1>0, <2>1, <2>2, <2>3, <2>4 DEF TmpOK, QueuedHaveClients
<1> QED BY <1>1, <1>2, <1>3, <1>4, <1>5, <1>6, <1>7, <1>8, <1>9 DEF MainLoop

LEMMA EnvironmentQueue ==
  ASSUME IInv, Environment
  PROVE  TmpOK' /\ QueuedHaveClients'
BY QueueQuiet
DEF IInv, Environment, ForkFails, SigtermHandler, SigchldHandle, ChildStep, ChildSetpgid,
    ChildExits, ChildDies, ClientStep, Connect, Send, Receive, Hangup,
    childVars, memVars, ctlVars

-----------------------------------------------------------------------------
(* The children *)

\* the set of existing children and the list of processes do not change
LEMMA ChildrenQuiet ==
  ASSUME ChildrenRegistered, processes' = processes,
         \A p \in Pids : children'[p].st = "free" <=> children[p].st = "free"
  PROVE  ChildrenRegistered'
<1>1. {p \in Pids : children'[p].st # "free"} = {p \in Pids : children[p].st # "free"}
  OBVIOUS
<1> QED BY <1>1 DEF ChildrenRegistered

LEMMA MainLoopChildren ==
  ASSUME IInv, MainLoop
  PROVE  ChildrenRegistered' /\ NoLostWakeup'
<1> USE DEF childVars, memVars, ctlVars
<1>0. TypeOK /\ ChildrenRegistered /\ NoLostWakeup
  BY DEF IInv
<1>1. ASSUME NEW j \in Jobs, RunRequest(j), UNCHANGED <<sigchld, cpipe, pc>>
      PROVE  ChildrenRegistered' /\ NoLostWakeup'
  BY <1>0, <1>1, RunRequestOf DEF NoLostWakeup, Up
<1>2. CASE ScheduleNewJobs
  <2>1. Head(queue) \in Jobs
    BY <1>0, <1>2, TailOf DEF ScheduleNewJobs, TypeOK
  <2> QED BY <1>1, <1>2, <2>1 DEF ScheduleNewJobs
<1>3. CASE HandleRunNow
  BY <1>1, <1>3, LineJobTyped DEF HandleRunNow
<1>4. CASE HandleChildEvent
  <2>1. PICK q \in processes :
          /\ children' = [children EXCEPT ![q.pid] = FreeChild]
          /\ processes' = processes \ {q}
    BY <1>4, ZenonT(30) DEF HandleChildEvent
  <2>2. q.pid \in Pids
    BY <1>0, <2>1 DEF TypeOK, Procs
  <2>3. \A p \in Pids : children'[p].st = IF p = q.pid THEN "free" ELSE children[p].st
    BY <1>0, <2>1, <2>2 DEF TypeOK, FreeChild
  <2>4. {p \in Pids : children'[p].st # "free"}
          = {p \in Pids : children[p].st # "free"} \ {q.pid}
    BY <2>3
  <2>5. {r.pid : r \in processes'} = {r.pid : r \in processes} \ {q.pid}
    BY <1>0, <2>1 DEF ChildrenRegistered
  <2>6. ChildrenRegistered'
    BY <1>0, <2>1, <2>4, <2>5 DEF ChildrenRegistered
  <2> QED BY <1>4, <2>6 DEF HandleChildEvent, NoLostWakeup
<1>5. CASE InterruptKills \/ CloseClient
  <2>1. PICK P : children' = Killed(P)
    BY <1>5 DEF InterruptKills, CloseClient, KillProcesses
  <2>2. \A p \in Pids : /\ children'[p].st = "zombie" <=> children[p].st = "zombie"
                        /\ children'[p].st = "free" <=> children[p].st = "free"
    BY <1>0, <2>1, KilledOf
  <2>3. UNCHANGED <<processes, sigchld, cpipe>> /\ pc = "remove" /\ pc' # "reap"
    BY <1>5 DEF InterruptKills, CloseClient
  <2> QED BY <1>0, <2>2, <2>3, ChildrenQuiet DEF NoLostWakeup, Up
<1>6. CASE ReadPipe
  BY <1>0, <1>6, ChildrenQuiet DEF ReadPipe, NoLostWakeup
<1>7. CASE ChildEventsDone
  BY <1>0, <1>7, ChildrenQuiet DEF ChildEventsDone, NoLostWakeup
<1>8. ASSUME UNCHANGED <<children, processes, sigchld, cpipe>>,
             pc # "reap", pc \in {"exit", "sigpipe"} => pc' \in {"exit", "sigpipe"}
      PROVE  ChildrenRegistered' /\ NoLostWakeup'
  BY <1>0, <1>8, ChildrenQuiet DEF NoLostWakeup, Up
<1>9. CASE \/ ScheduleDone \/ PollListClean \/ PollListCleaned \/ Poll \/ DispatchIdle
           \/ DispatchDone \/ ServerAcceptClient
  BY <1>8, <1>9
  DEF ScheduleDone, PollListClean, PollListCleaned, Poll, DispatchIdle, DispatchDone,
      ServerAcceptClient, Dispatching
<1>10. CASE \/ ClientError \/ WriteToClient \/ ReadOnClient \/ ReadEndOfFile
            \/ HandleRunLater \/ HandleParallel \/ HandleInterrupt \/ LinesDone
            \/ RemoveKeeps \/ RemoveDrops
  BY <1>8, <1>10, ZenonT(30)
  DEF ClientError, WriteToClient, ReadOnClient, ReadEndOfFile, HandleRunLater,
      HandleParallel, HandleInterrupt, LinesDone, RemoveKeeps, RemoveDrops, HandlingLine,
      Reading, DispatchingClient, Dispatching, StartRemoving
<1> QED BY <1>2, <1>3, <1>4, <1>5, <1>6, <1>7, <1>9, <1>10 DEF MainLoop

LEMMA EnvironmentChildren ==
  ASSUME IInv, Environment
  PROVE  ChildrenRegistered' /\ NoLostWakeup'
<1> USE DEF netVars, childVars, memVars, ctlVars
<1>0. TypeOK /\ ChildrenRegistered /\ NoLostWakeup /\ cpipe \in Nat
  BY CapsAssumption DEF IInv, TypeOK
<1>1. CASE ForkFails
  BY <1>0, <1>1, ChildrenQuiet DEF ForkFails, NoLostWakeup, Up
<1>2. CASE SigtermHandler
  <2>1. PICK P : children' = Killed(P)
    BY <1>2 DEF SigtermHandler
  <2>2. \A p \in Pids : children'[p].st = "free" <=> children[p].st = "free"
    BY <1>0, <2>1, KilledOf
  <2>3. processes' = processes /\ pc' = "exit"
    BY <1>2 DEF SigtermHandler
  <2> QED BY <1>0, <2>2, <2>3, ChildrenQuiet DEF NoLostWakeup, Up
<1>3. CASE SigchldHandle
  <2>1. cpipe' > 0
    BY <1>0, <1>3, CapsAssumption DEF SigchldHandle, TypeOK
  <2>2. UNCHANGED <<children, processes>>
    BY <1>3 DEF SigchldHandle
  <2> QED BY <1>0, <2>1, <2>2, ChildrenQuiet DEF NoLostWakeup
<1>4. ASSUME NEW p \in Pids, ChildStep(p)
      PROVE  ChildrenRegistered' /\ NoLostWakeup'
  <2>1. processes' = processes /\ UNCHANGED <<cpipe, pc>>
    BY <1>4 DEF ChildStep, ChildSetpgid, ChildExits, ChildDies
  <2>2. CASE ChildSetpgid(p)
    <3>1. \A q \in Pids : children'[q].st = IF q = p THEN "running" ELSE children[q].st
      BY <1>0, <2>2 DEF TypeOK, ChildSetpgid
    <3>2. children[p].st = "forked" /\ sigchld' = sigchld
      BY <2>2 DEF ChildSetpgid
    <3> QED BY <1>0, <2>1, <3>1, <3>2, ChildrenQuiet DEF NoLostWakeup, Up
  <2>3. CASE ChildExits(p) \/ ChildDies(p)
    <3>1. \A q \in Pids : children'[q].st = IF q = p THEN "zombie" ELSE children[q].st
      <4>0. DOMAIN children = Pids /\ "st" \in DOMAIN children[p]
        BY <1>0 DEF TypeOK
      <4>1. CASE ChildExits(p)
        BY <4>0, <4>1 DEF ChildExits
      <4>2. CASE ChildDies(p)
        BY <4>0, <4>2 DEF ChildDies
      <4> QED BY <2>3, <4>1, <4>2
    <3>2. children[p].st # "free" /\ sigchld'
      BY <2>3 DEF ChildExits, ChildDies
    <3>3. \A q \in Pids : children'[q].st = "free" <=> children[q].st = "free"
      BY <3>1, <3>2
    <3> QED BY <1>0, <2>1, <3>2, <3>3, ChildrenQuiet DEF NoLostWakeup
  <2> QED BY <1>4, <2>2, <2>3 DEF ChildStep
<1>5. ASSUME NEW c \in Clients, ClientStep(c)
      PROVE  ChildrenRegistered' /\ NoLostWakeup'
  <2>1. UNCHANGED <<children, processes, sigchld, cpipe, pc>>
    BY <1>5 DEF ClientStep, Connect, Send, Receive, Hangup
  <2> QED BY <1>0, <2>1, ChildrenQuiet DEF NoLostWakeup, Up
<1> QED BY <1>1, <1>2, <1>3, <1>4, <1>5 DEF Environment

-----------------------------------------------------------------------------
(* The theorems *)

LEMMA InitIInv == Init => IInv
<1> SUFFICES ASSUME Init PROVE IInv
  OBVIOUS
<1>0. /\ clients = [f \in Fds |-> NoClient]
      /\ writebuf = [f \in Fds |-> <<>>]
      /\ queue = <<>> /\ tmp = <<>>
      /\ children = [p \in Pids |-> FreeChild] /\ processes = {}
      /\ poll_list = <<Entry(server_sock), Entry(cpipe_0)>>
      /\ pc = "schedule"
  BY DEF Init
<1>1. poll_list \in Seq(PollEntries) /\ Len(poll_list) = 2 /\ DOMAIN poll_list = 1 .. 2
      /\ poll_list[1].fd = 4 /\ poll_list[2].fd = 3
  BY <1>0 DEF PollEntries, Entry, server_sock, cpipe_0
<1>2. DOMAIN queue = {} /\ DOMAIN tmp = {}
  BY <1>0
<1>3. TypeOK
  <2> USE DEF Init
  <2>1. <<>> \in Seq(Requests) /\ <<>> \in Seq(Answers) /\ <<>> \in Seq(Jobs)
    BY EmptySeqTyped
  <2>2. /\ link \in [Clients -> {"idle", "backlog", "lostbacklog", "open", "closed",
                                "reset", "gone"}]
        /\ up \in [Clients -> Seq(Requests)]
        /\ down \in [Clients -> Seq(Answers)]
        /\ sent \in [Clients -> SUBSET Requests]
        /\ got \in [Clients -> Seq(Answers)]
    BY <2>1
  <2>3. /\ children \in [Pids -> ChildStates]
        /\ sigchld \in BOOLEAN
        /\ cpipe \in 0 .. PipeCap
    <3>1. FreeChild \in ChildStates
      BY DEF ChildStates, FreeChild
    <3>2. children \in [Pids -> ChildStates]
      BY <3>1
    <3>3. sigchld \in BOOLEAN
      BY Zenon
    <3>4. cpipe \in 0 .. PipeCap
      BY CapsAssumption
    <3> QED BY <3>2, <3>3, <3>4
  <2>4. /\ clients \in [Fds -> Clients \cup {NoClient}]
        /\ readbuf \in Seq(Requests)
        /\ writebuf \in [Fds -> Seq(Answers)]
        /\ queue \in Seq(Jobs)
        /\ tmp \in Seq(Jobs)
        /\ processes \in SUBSET Procs
        /\ parallel \in Nat \ {0}
    <3>1. clients \in [Fds -> Clients \cup {NoClient}] /\ writebuf \in [Fds -> Seq(Answers)]
      BY <2>1
    <3>2. readbuf \in Seq(Requests) /\ queue \in Seq(Jobs) /\ tmp \in Seq(Jobs)
      BY <2>1
    <3>3. processes \in SUBSET Procs /\ parallel \in Nat \ {0}
      BY ParallelAssumption
    <3> QED BY <3>1, <3>2, <3>3
  <2>5. /\ pc \in {"schedule", "clean", "poll", "dispatch", "reap", "lines", "remove",
                   "exit", "sigpipe"}
        /\ idx \in Nat \ {0}
        /\ removing \in [key : Fds \cup {Gone}, id : Ids \cup {AllIds}]
    OBVIOUS
  <2> QED BY <1>1, <2>2, <2>3, <2>4, <2>5 DEF TypeOK, ChildStates
<1>4. \A i \in DOMAIN poll_list : poll_list[i].fd \notin Fds
  BY <1>1, FdsAssumption
<1>5. WriteInterest
  <2>1. \A i, j \in DOMAIN poll_list : poll_list[i].fd = poll_list[j].fd => i = j
    BY <1>1
  <2>2. \A f \in Fds : clients[f] = NoClient
    BY <1>0
  <2> QED BY <1>4, <2>1, <2>2 DEF WriteInterest
<1>6. PollOK
  <2>1. pc = "schedule" /\ \A f \in Fds : writebuf[f] = <<>>
    BY <1>0
  <2>2. \A i : ~Pending(i)
    BY <2>1 DEF Pending
  <2> QED BY <2>1, <2>2 DEF PollOK
<1>7. TmpOK /\ QueuedHaveClients
  <2>1. pc = "schedule" /\ tmp = <<>>
    BY <1>0
  <2> QED BY <1>2, <2>1 DEF TmpOK, QueuedHaveClients
<1>8. ChildrenRegistered /\ NoLostWakeup
  <2>1. processes = {} /\ \A p \in Pids : children[p].st = "free"
    BY <1>0 DEF FreeChild
  <2> QED BY <2>1 DEF ChildrenRegistered, NoLostWakeup
<1> QED BY <1>3, <1>5, <1>6, <1>7, <1>8 DEF IInv

LEMMA NextIInv == IInv /\ [Next]_vars => IInv'
<1> SUFFICES ASSUME IInv, [Next]_vars PROVE IInv'
  OBVIOUS
<1>1. CASE MainLoop
  BY <1>1, MainLoopType, MainLoopPoll, MainLoopQueue, MainLoopChildren DEF IInv
<1>2. CASE Environment
  BY <1>2, EnvironmentType, EnvironmentPoll, EnvironmentQueue, EnvironmentChildren DEF IInv
<1>3. CASE UNCHANGED vars
  <2>1. UNCHANGED <<netVars, childVars, memVars, ctlVars>>
    BY <1>3 DEF vars
  <2>2. /\ UNCHANGED <<clients, writebuf, queue, tmp, processes, readbuf, parallel>>
        /\ UNCHANGED <<children, sigchld, cpipe, poll_list, pc, idx, removing>>
    BY <2>1 DEF childVars, memVars, ctlVars
  <2>3. TypeOK'
    BY <2>1 DEF IInv, TypeOK, netVars, childVars, memVars, ctlVars
  <2>4. WriteInterest'
    BY <2>2, ZenonT(30) DEF IInv, WriteInterest
  <2>5. PollOK'
    BY <2>2 DEF IInv, PollOK, Pending, Current
  <2>6. TmpOK' /\ QueuedHaveClients'
    BY <2>2, ZenonT(30) DEF IInv, TmpOK, QueuedHaveClients
  <2>7. ChildrenRegistered' /\ NoLostWakeup'
    BY <2>2 DEF IInv, ChildrenRegistered, NoLostWakeup, Up
  <2> QED BY <2>3, <2>4, <2>5, <2>6, <2>7 DEF IInv
<1> QED BY <1>1, <1>2, <1>3 DEF Next, Environment

\* The inductive invariant holds in every state that why3server can reach.
THEOREM Inductive == Spec => []IInv
BY InitIInv, NextIInv, PTL DEF Spec

\* main, server_accept_client, read_on_client and the handlers keep the types
\* of the server's data: lookups in the list of clients succeed where they are
\* made, and the write buffer is never read when it is empty.
THEOREM ServerTypes == Spec => []TypeOK
BY Inductive, PTL DEF IInv

\* A terminated prover is never left unnoticed by the self pipe of
\* setup_child_pipe, for any size of the pipe and any number of provers.
THEOREM ServerNoLostWakeup == Spec => []NoLostWakeup
BY Inductive, PTL DEF IInv

\* Every child that handle_child_events waits for is in the list of processes,
\* once.
THEOREM ServerChildrenRegistered == Spec => []ChildrenRegistered
BY Inductive, PTL DEF IInv

\* run_request and handle_queue_remove find the client that sent the request,
\* although descriptors are reused.
THEOREM ServerQueuedHaveClients == Spec => []QueuedHaveClients
BY Inductive, PTL DEF IInv

\* POLLOUT is requested for a client exactly when its write buffer holds an
\* answer, and every connected client has one entry in the array of poll.
THEOREM ServerWriteInterest == Spec => []WriteInterest
BY Inductive, PTL DEF IInv

=============================================================================
