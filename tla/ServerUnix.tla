----------------------------- MODULE ServerUnix -----------------------------
(***************************************************************************)
(* why3server on Unix: src/server/server-unix.c with the parts of          *)
(* request.c, proc.c and writebuf.c that it drives.  The server is one     *)
(* thread: the main loop around poll().  pc is the place of that thread.   *)
(* The other actors are the kernel (sockets, SIGCHLD, the self pipe), the  *)
(* forked provers and the clients; they act between any two steps of the   *)
(* server.  Messages are whole lines here; how the bytes of a line reach   *)
(* the server and leave it in several pieces is in WriteBuf and ReadBuf.   *)
(***************************************************************************)
EXTENDS Integers, Sequences, FiniteSets

CONSTANTS
  Clients,      \* the client programs, each connecting once
  Ids,          \* the identifiers a client gives to its requests
  Pids,         \* process ids of the provers (reused once reaped)
  Fds,          \* descriptors accept may return
  NoClient,     \* "no client on this descriptor"
  InitParallel, \* option -j
  ParallelArgs, \* the numbers clients send with "parallel;n"
  SingleClient, \* option --single-client
  Faults,       \* what may go wrong: "fork", "sigterm", "hangup"
  ExitKinds,    \* how a prover that is left alone ends: "exit", "crash", "cpulimit"
  SockCap,      \* bound: lines that one direction of a socket holds
  PipeCap       \* bound: bytes that the self pipe holds

ASSUME FdsAssumption == Fds \subseteq Nat \ {3, 4}
ASSUME ClientsAssumption == NoClient \notin Clients
ASSUME ParallelAssumption ==
  /\ InitParallel \in Nat \ {0}
  /\ ParallelArgs \subseteq Nat
ASSUME CapsAssumption == SockCap \in Nat \ {0} /\ PipeCap \in Nat \ {0}
ASSUME IdsAssumption == Ids \subseteq Nat \ {0}
ASSUME SingleAssumption == SingleClient \in BOOLEAN
ASSUME ExitAssumption == ExitKinds \subseteq {"exit", "crash", "cpulimit"}

VARIABLES
  \* the clients and the sockets
  link,      \* link[c]: state of the client's end of its connection
  up,        \* up[c]: requests written by c, not yet read by the server
  down,      \* down[c]: answers written by the server, not yet read by c
  sent,      \* sent[c]: every request c has sent
  got,       \* got[c]: every answer c has read
  \* the provers and their signals
  children,  \* children[p]: state of process p
  sigchld,   \* SIGCHLD is pending for the server
  cpipe,     \* bytes in the self pipe
  \* the memory of the server
  clients,   \* clients[f]: the client connected on descriptor f
  readbuf,   \* the lines read from the current client, not yet handled
  writebuf,  \* writebuf[f]: answers queued for descriptor f
  queue,     \* the request queue
  tmp,       \* the queue tmp of remove_from_queue
  processes, \* the list of processes
  parallel,  \* how many provers may run at once
  poll_list, \* the array given to poll()
  \* the thread of the server
  pc, idx, removing

netVars == <<link, up, down, sent, got>>
childVars == <<children, sigchld, cpipe>>
memVars == <<clients, readbuf, writebuf, queue, tmp, processes,
             parallel, poll_list>>
ctlVars == <<pc, idx, removing>>
vars == <<netVars, childVars, memVars, ctlVars>>

-----------------------------------------------------------------------------
server_sock == 4
cpipe_0 == 3
Gone == -1     \* fd of a poll_list entry whose client is closed
AllIds == 0    \* the NULL id of remove_from_queue and kill_processes

Run(i) == [op |-> "run", arg |-> i]
Interrupt(i) == [op |-> "interrupt", arg |-> i]
Parallel(n) == [op |-> "parallel", arg |-> n]
Requests ==
  {Run(i) : i \in Ids} \cup {Interrupt(i) : i \in Ids}
    \cup {Parallel(n) : n \in ParallelArgs}

\* Jobs: a queued request and a running process know the key (descriptor) and
\* the id; owner is the client that sent the request, which the code does not
\* store.
Jobs == [key : Fds, id : Ids, owner : Clients]
Procs == [pid : Pids, key : Fds, id : Ids, owner : Clients]

\* Answers: S;id and F;id;...;timeout;... .  owner and cause are not part of
\* the message: the client that sent the request, and what really happened.
Causes == {"start", "exit", "crash", "cpulimit", "killed", "removed"}
Answers == [tag : {"S", "F"}, id : Ids, timeout : BOOLEAN,
            owner : Clients, cause : Causes]
Started(j) ==
  [tag |-> "S", id |-> j.id, timeout |-> FALSE, owner |-> j.owner, cause |-> "start"]
Finished(j, timeout, cause) ==
  [tag |-> "F", id |-> j.id, timeout |-> timeout, owner |-> j.owner, cause |-> cause]

PollEntries == [fd : Fds \cup {server_sock, cpipe_0, Gone}, out : BOOLEAN,
                revents : SUBSET {"IN", "OUT", "ERR"}]
Entry(f) == [fd |-> f, out |-> FALSE, revents |-> {}]

FreeChild == [st |-> "free", how |-> "exit"]

Init ==
  /\ link = [c \in Clients |-> "idle"]
  /\ up = [c \in Clients |-> <<>>]
  /\ down = [c \in Clients |-> <<>>]
  /\ sent = [c \in Clients |-> {}]
  /\ got = [c \in Clients |-> <<>>]
  /\ children = [p \in Pids |-> FreeChild]
  /\ sigchld = FALSE
  /\ cpipe = 0
  /\ clients = [f \in Fds |-> NoClient]
  /\ readbuf = <<>>
  /\ writebuf = [f \in Fds |-> <<>>]
  /\ queue = <<>>
  /\ tmp = <<>>
  /\ processes = {}
  /\ parallel = InitParallel
  /\ poll_list = <<Entry(server_sock), Entry(cpipe_0)>>
  /\ pc = "schedule"
  /\ idx = 1
  /\ removing = [key |-> Gone, id |-> AllIds]

-----------------------------------------------------------------------------
(* Helpers of the handlers *)

\* queue_write: the message goes to the write buffer and POLLOUT is requested.
QueueWrite(f, m) ==
  /\ writebuf' = [writebuf EXCEPT ![f] = Append(@, m)]
  /\ poll_list' = [i \in DOMAIN poll_list |->
                     IF poll_list[i].fd = f THEN [poll_list[i] EXCEPT !.out = TRUE]
                                            ELSE poll_list[i]]

\* kill(-pid, SIGKILL) reaches the process group of the child, which exists
\* only once the child has called setpgid; before that it fails with ESRCH.
Killed(pids) ==
  [p \in Pids |-> IF p \in pids /\ children[p].st = "running"
                  THEN [st |-> "dying", how |-> "killed"]
                  ELSE children[p]]

\* mutant: the key is ignored when all the requests of a client are meant
MutMatches(j, key, id) == id = AllIds \/ (j.key = key /\ j.id = id)

Matches(j, key, id) == j.key = key /\ id \in {AllIds, j.id}

\* kill_processes
KillProcesses(key, id) ==
  children' = Killed({q.pid : q \in {x \in processes : Matches(x, key, id)}})

\* mutant: one process too many
MutHasSlot == Cardinality(processes) <= parallel

HasSlot == Cardinality(processes) < parallel

\* run_request for a job whose client is known (there is no other, see
\* QueuedHaveClients): fork, register the process, announce it.
RunRequest(j) ==
  \E p \in Pids :
    /\ children[p].st = "free"
    /\ children' = [children EXCEPT ![p] = [st |-> "forked", how |-> "exit"]]
    /\ processes' = processes \cup
         {[pid |-> p, key |-> j.key, id |-> j.id, owner |-> j.owner]}
    /\ QueueWrite(j.key, Started(j))

\* create_process when fork fails: shutdown_with_msg
ForkFails ==
  /\ "fork" \in Faults
  /\ HasSlot
  /\ \/ pc = "schedule" /\ queue # <<>>
     \/ pc = "lines" /\ readbuf # <<>> /\ Head(readbuf).op = "run"
  /\ pc' = "exit"
  /\ UNCHANGED <<netVars, childVars, memVars, idx, removing>>

-----------------------------------------------------------------------------
(* The main loop: schedule_new_jobs, poll_list_clean, poll, dispatch *)

\* one turn of the loop of schedule_new_jobs
ScheduleNewJobs ==
  /\ pc = "schedule"
  /\ HasSlot
  /\ queue # <<>>
  /\ queue' = Tail(queue)
  /\ RunRequest(Head(queue))
  /\ UNCHANGED <<netVars, sigchld, cpipe, clients, readbuf, tmp, parallel, ctlVars>>

ScheduleDone ==
  /\ pc = "schedule"
  /\ ~(HasSlot /\ queue # <<>>)
  /\ pc' = "clean"
  /\ UNCHANGED <<netVars, childVars, memVars, idx, removing>>

Holes == {i \in DOMAIN poll_list : poll_list[i].fd = Gone}

\* one turn of the loop of poll_list_clean that finds a closed entry: the last
\* entry takes its place
PollListClean ==
  /\ pc = "clean"
  /\ \E i \in Holes :
       /\ \A j \in Holes : i <= j
       /\ poll_list' = SubSeq([poll_list EXCEPT ![i] = poll_list[Len(poll_list)]],
                              1, Len(poll_list) - 1)
  /\ UNCHANGED <<netVars, childVars, clients, readbuf, writebuf, queue, tmp,
                 processes, parallel, ctlVars>>

PollListCleaned ==
  /\ pc = "clean"
  /\ Holes = {}
  /\ pc' = "poll"
  /\ UNCHANGED <<netVars, childVars, memVars, idx, removing>>

HungUp(c) == link[c] \in {"closed", "reset"}

\* What poll() reports on an entry.  A client that closes its socket with
\* answers unread makes the server's end report an error as well.
Revents(e) ==
  CASE e.fd = server_sock ->
         IF \E c \in Clients : link[c] \in {"backlog", "lostbacklog"}
         THEN {"IN"} ELSE {}
    [] e.fd = cpipe_0 -> IF cpipe > 0 THEN {"IN"} ELSE {}
    [] OTHER ->
         LET c == clients[e.fd] IN
         (IF up[c] # <<>> \/ HungUp(c) THEN {"IN"} ELSE {})
           \cup (IF e.out /\ (Len(down[c]) < SockCap \/ HungUp(c)) THEN {"OUT"} ELSE {})
           \cup (IF link[c] = "reset" THEN {"ERR"} ELSE {})

\* poll() returns: something happened on at least one descriptor
Poll ==
  /\ pc = "poll"
  /\ \E i \in DOMAIN poll_list : Revents(poll_list[i]) # {}
  /\ poll_list' = [i \in DOMAIN poll_list |->
                     [poll_list[i] EXCEPT !.revents = Revents(poll_list[i])]]
  /\ pc' = "dispatch"
  /\ idx' = 1
  /\ UNCHANGED <<netVars, childVars, clients, readbuf, writebuf, queue, tmp,
                 processes, parallel, removing>>

Current == poll_list[idx]

\* the body of the for loop is about to treat entry idx, which had an event
Dispatching ==
  /\ pc = "dispatch"
  /\ idx <= Len(poll_list)
  /\ Current.revents # {}

DispatchingClient == Dispatching /\ Current.fd \in Fds

\* mutant: continue does not advance the index
MutDispatchIdle ==
  /\ pc = "dispatch"
  /\ idx <= Len(poll_list)
  /\ Current.revents = {}
  /\ UNCHANGED vars

DispatchIdle ==
  /\ pc = "dispatch"
  /\ idx <= Len(poll_list)
  /\ Current.revents = {}
  /\ idx' = idx + 1
  /\ UNCHANGED <<netVars, childVars, memVars, pc, removing>>

\* mutant: schedule_new_jobs is called once, before the loop
MutDispatchDone ==
  /\ pc = "dispatch"
  /\ idx > Len(poll_list)
  /\ pc' = "clean"
  /\ UNCHANGED <<netVars, childVars, memVars, idx, removing>>

DispatchDone ==
  /\ pc = "dispatch"
  /\ idx > Len(poll_list)
  /\ pc' = "schedule"
  /\ UNCHANGED <<netVars, childVars, memVars, idx, removing>>

-----------------------------------------------------------------------------
(* A child has terminated *)

\* one byte is read from the pipe before handle_child_events
ReadPipe ==
  /\ Dispatching
  /\ Current.fd = cpipe_0
  /\ cpipe' = cpipe - 1
  /\ pc' = "reap"
  /\ UNCHANGED <<netVars, children, sigchld, memVars, idx, removing>>

\* mutant: the process stays in the list
MutHandleChildEvent ==
  /\ pc = "reap"
  /\ \E q \in processes :
       /\ children[q.pid].st = "zombie"
       /\ children' = [children EXCEPT ![q.pid] = FreeChild]
       /\ IF clients[q.key] # NoClient
          THEN QueueWrite(q.key, Finished(q, children[q.pid].how # "exit",
                                          children[q.pid].how))
          ELSE UNCHANGED <<writebuf, poll_list>>
  /\ UNCHANGED <<netVars, sigchld, cpipe, clients, readbuf, queue, tmp, processes,
                 parallel, ctlVars>>

\* one turn of the loop of handle_child_events: wait3 returns a zombie.  Any
\* death by signal is reported as a timeout.
HandleChildEvent ==
  /\ pc = "reap"
  /\ \E q \in processes :
       /\ children[q.pid].st = "zombie"
       /\ children' = [children EXCEPT ![q.pid] = FreeChild]
       /\ processes' = processes \ {q}
       /\ IF clients[q.key] # NoClient
          THEN QueueWrite(q.key, Finished(q, children[q.pid].how # "exit",
                                          children[q.pid].how))
          ELSE UNCHANGED <<writebuf, poll_list>>
  /\ UNCHANGED <<netVars, sigchld, cpipe, clients, readbuf, queue, tmp, parallel,
                 ctlVars>>

\* mutant: wait3 is not called in a loop
MutChildEventsDone ==
  /\ pc = "reap"
  /\ pc' = "dispatch"
  /\ idx' = idx + 1
  /\ UNCHANGED <<netVars, childVars, memVars, removing>>

\* wait3 finds no terminated child
ChildEventsDone ==
  /\ pc = "reap"
  /\ \A p \in Pids : children[p].st # "zombie"
  /\ pc' = "dispatch"
  /\ idx' = idx + 1
  /\ UNCHANGED <<netVars, childVars, memVars, removing>>

-----------------------------------------------------------------------------
(* An incoming client *)

FreeFds == {f \in Fds : clients[f] = NoClient}

\* accept returns the lowest free descriptor
ServerAcceptClient ==
  /\ Dispatching
  /\ Current.fd = server_sock
  /\ \E c \in Clients, f \in FreeFds :
       /\ link[c] \in {"backlog", "lostbacklog"}
       /\ \A g \in FreeFds : f <= g
       /\ clients' = [clients EXCEPT ![f] = c]
       /\ poll_list' = Append(poll_list, Entry(f))
       /\ link' = [link EXCEPT ![c] = IF @ = "backlog" THEN "open" ELSE "closed"]
  /\ idx' = idx + 1
  /\ UNCHANGED <<up, down, sent, got, childVars, readbuf, writebuf, queue, tmp,
                 processes, parallel, pc, removing>>

-----------------------------------------------------------------------------
(* Events on the socket of a client *)

\* close_client, and the case of handle_msg for an interrupt, start with
\* remove_from_queue.  removing holds its arguments.
StartRemoving(key, id) ==
  /\ pc' = "remove"
  /\ removing' = [key |-> key, id |-> id]

\* POLLERR: close_client
ClientError ==
  /\ DispatchingClient
  /\ "ERR" \in Current.revents
  /\ StartRemoving(Current.fd, AllIds)
  /\ UNCHANGED <<netVars, childVars, memVars, idx>>

\* mutant: POLLOUT is given up although messages are left
MutWriteToClient ==
  /\ DispatchingClient
  /\ "ERR" \notin Current.revents
  /\ "OUT" \in Current.revents
  /\ ~HungUp(clients[Current.fd])
  /\ down' = [down EXCEPT ![clients[Current.fd]] = Append(@, Head(writebuf[Current.fd]))]
  /\ writebuf' = [writebuf EXCEPT ![Current.fd] = Tail(@)]
  /\ poll_list' = [poll_list EXCEPT ![idx].out = FALSE]
  /\ idx' = idx + 1
  /\ UNCHANGED <<link, up, sent, got, childVars, clients, readbuf, queue, tmp,
                 processes, parallel, pc, removing>>

\* write_to_client.  The server installs no handler for SIGPIPE: writing to a
\* client that is gone ends it.
WriteToClient ==
  /\ DispatchingClient
  /\ "ERR" \notin Current.revents
  /\ "OUT" \in Current.revents
  /\ LET f == Current.fd
         c == clients[f]
     IN \/ /\ HungUp(c)
           /\ pc' = "sigpipe"
           /\ UNCHANGED <<down, writebuf, poll_list, idx>>
        \/ /\ ~HungUp(c)
           /\ down' = [down EXCEPT ![c] = Append(@, Head(writebuf[f]))]
           /\ writebuf' = [writebuf EXCEPT ![f] = Tail(@)]
           /\ poll_list' = [poll_list EXCEPT ![idx].out = Tail(writebuf[f]) # <<>>]
           /\ idx' = idx + 1
           /\ UNCHANGED pc
  /\ UNCHANGED <<link, up, sent, got, childVars, clients, readbuf, queue, tmp,
                 processes, parallel, removing>>

\* read_on_client is called for a client that has an event other than POLLERR
\* and POLLOUT
Reading ==
  /\ DispatchingClient
  /\ Current.revents = {"IN"}

\* read returns data: at least one line, at most what the client has sent
ReadOnClient ==
  /\ Reading
  /\ LET c == clients[Current.fd] IN
     \E n \in 1 .. Len(up[c]) :
       /\ readbuf' = SubSeq(up[c], 1, n)
       /\ up' = [up EXCEPT ![c] = SubSeq(up[c], n + 1, Len(up[c]))]
  /\ pc' = "lines"
  /\ UNCHANGED <<link, down, sent, got, childVars, clients, writebuf, queue, tmp,
                 processes, parallel, poll_list, idx, removing>>

\* read returns 0: close_client.  It does not return -1 here: an end that was
\* reset was reported as an error by the same poll, unless the client reset it
\* since, and then there is data left to read.
ReadEndOfFile ==
  /\ Reading
  /\ up[clients[Current.fd]] = <<>>
  /\ link[clients[Current.fd]] = "closed"
  /\ StartRemoving(Current.fd, AllIds)
  /\ UNCHANGED <<netVars, childVars, memVars, idx>>

-----------------------------------------------------------------------------
(* handle_msg: one step per line of the read buffer *)

HandlingLine(op) == pc = "lines" /\ readbuf # <<>> /\ Head(readbuf).op = op

\* the job that the current line asks for
LineJob == [key |-> Current.fd, id |-> Head(readbuf).arg, owner |-> clients[Current.fd]]

\* REQ_RUN with a free slot: the request overtakes the queue
HandleRunNow ==
  /\ HandlingLine("run")
  /\ HasSlot
  /\ RunRequest(LineJob)
  /\ readbuf' = Tail(readbuf)
  /\ UNCHANGED <<netVars, sigchld, cpipe, clients, queue, tmp, parallel, ctlVars>>

HandleRunLater ==
  /\ HandlingLine("run")
  /\ ~HasSlot
  /\ queue' = Append(queue, LineJob)
  /\ readbuf' = Tail(readbuf)
  /\ UNCHANGED <<netVars, childVars, clients, writebuf, tmp, processes, parallel,
                 poll_list, ctlVars>>

\* parse_request executes the command itself; a number below 1 is ignored
HandleParallel ==
  /\ HandlingLine("parallel")
  /\ parallel' = IF Head(readbuf).arg >= 1 THEN Head(readbuf).arg ELSE parallel
  /\ readbuf' = Tail(readbuf)
  /\ UNCHANGED <<netVars, childVars, clients, writebuf, queue, tmp, processes,
                 poll_list, ctlVars>>

HandleInterrupt ==
  /\ HandlingLine("interrupt")
  /\ StartRemoving(Current.fd, Head(readbuf).arg)
  /\ readbuf' = Tail(readbuf)
  /\ UNCHANGED <<netVars, childVars, clients, writebuf, queue, tmp, processes,
                 parallel, poll_list, idx>>

LinesDone ==
  /\ pc = "lines"
  /\ readbuf = <<>>
  /\ pc' = "dispatch"
  /\ idx' = idx + 1
  /\ UNCHANGED <<netVars, childVars, memVars, removing>>

-----------------------------------------------------------------------------
(* remove_from_queue, and what its two callers do after it *)

\* mutant: the id NULL matches no request
MutRemoved(j) == j.key = removing.key /\ j.id = removing.id

Removed(j) == Matches(j, removing.key, removing.id)

RemoveKeeps ==
  /\ pc = "remove"
  /\ queue # <<>>
  /\ ~Removed(Head(queue))
  /\ tmp' = Append(tmp, Head(queue))
  /\ queue' = Tail(queue)
  /\ UNCHANGED <<netVars, childVars, clients, readbuf, writebuf, processes, parallel,
                 poll_list, ctlVars>>

\* mutant: no callback
MutRemoveDrops ==
  /\ pc = "remove"
  /\ queue # <<>>
  /\ Removed(Head(queue))
  /\ queue' = Tail(queue)
  /\ UNCHANGED <<netVars, childVars, clients, readbuf, writebuf, poll_list, tmp,
                 processes, parallel, ctlVars>>

\* only handle_msg passes a callback, handle_queue_remove, which sends an F
RemoveDrops ==
  /\ pc = "remove"
  /\ queue # <<>>
  /\ Removed(Head(queue))
  /\ queue' = Tail(queue)
  /\ IF removing.id # AllIds
     THEN QueueWrite(removing.key, Finished(Head(queue), FALSE, "removed"))
     ELSE UNCHANGED <<writebuf, poll_list>>
  /\ UNCHANGED <<netVars, childVars, clients, readbuf, tmp, processes, parallel, ctlVars>>

\* the end of the case REQ_INTERRUPT
InterruptKills ==
  /\ pc = "remove"
  /\ queue = <<>>
  /\ removing.id # AllIds
  /\ queue' = tmp
  /\ tmp' = <<>>
  /\ KillProcesses(removing.key, removing.id)
  /\ pc' = "lines"
  /\ UNCHANGED <<netVars, sigchld, cpipe, clients, readbuf, writebuf, processes,
                 parallel, poll_list, idx, removing>>

\* the end of close_client
CloseClient ==
  /\ pc = "remove"
  /\ queue = <<>>
  /\ removing.id = AllIds
  /\ queue' = tmp
  /\ tmp' = <<>>
  /\ KillProcesses(removing.key, AllIds)
  /\ clients' = [clients EXCEPT ![removing.key] = NoClient]
  /\ writebuf' = [writebuf EXCEPT ![removing.key] = <<>>]
  /\ poll_list' = [poll_list EXCEPT ![idx].fd = Gone, ![idx].revents = {}]
  /\ LET c == clients[removing.key] IN
       /\ link' = [link EXCEPT ![c] = "gone"]
       /\ up' = [up EXCEPT ![c] = <<>>]
  /\ IF SingleClient /\ \A f \in Fds : clients'[f] = NoClient
     THEN pc' = "exit" /\ UNCHANGED idx
     ELSE pc' = "dispatch" /\ idx' = idx + 1
  /\ UNCHANGED <<down, sent, got, sigchld, cpipe, readbuf, processes, parallel, removing>>

-----------------------------------------------------------------------------
(* Signals, provers and clients *)

Up == pc \notin {"exit", "sigpipe"}

\* sigchld_handle runs between any two instructions; a write to a full pipe
\* fails with EAGAIN and is ignored
SigchldHandle ==
  /\ Up
  /\ sigchld
  /\ sigchld' = FALSE
  /\ cpipe' = IF cpipe < PipeCap THEN cpipe + 1 ELSE cpipe
  /\ UNCHANGED <<netVars, children, memVars, ctlVars>>

\* sigterm_handler, for SIGTERM, SIGHUP and SIGINT
SigtermHandler ==
  /\ Up
  /\ "sigterm" \in Faults
  /\ children' = Killed({q.pid : q \in processes})
  /\ pc' = "exit"
  /\ UNCHANGED <<netVars, sigchld, cpipe, memVars, idx, removing>>

\* the child calls setpgid(0, 0), then sets its limits and executes the prover
ChildSetpgid(p) ==
  /\ children[p].st = "forked"
  /\ children' = [children EXCEPT ![p].st = "running"]
  /\ UNCHANGED <<netVars, sigchld, cpipe, memVars, ctlVars>>

\* the prover ends by itself or by its limits
ChildExits(p) ==
  /\ children[p].st = "running"
  /\ \E how \in ExitKinds :
       children' = [children EXCEPT ![p] = [st |-> "zombie", how |-> how]]
  /\ sigchld' = TRUE
  /\ UNCHANGED <<netVars, cpipe, memVars, ctlVars>>

ChildDies(p) ==
  /\ children[p].st = "dying"
  /\ children' = [children EXCEPT ![p].st = "zombie"]
  /\ sigchld' = TRUE
  /\ UNCHANGED <<netVars, cpipe, memVars, ctlVars>>

Connect(c) ==
  /\ Up
  /\ link[c] = "idle"
  /\ link' = [link EXCEPT ![c] = "backlog"]
  /\ UNCHANGED <<up, down, sent, got, childVars, memVars, ctlVars>>

\* A client uses an id for one run request, and interrupts only what it has
\* asked to run (Call_provers.gen_id and interrupt_call).
MaySend(c, r) ==
  /\ r \notin sent[c]
  /\ r.op = "interrupt" => Run(r.arg) \in sent[c]

Send(c, r) ==
  /\ Up
  /\ link[c] \in {"backlog", "open"}
  /\ Len(up[c]) < SockCap
  /\ MaySend(c, r)
  /\ up' = [up EXCEPT ![c] = Append(@, r)]
  /\ sent' = [sent EXCEPT ![c] = @ \cup {r}]
  /\ UNCHANGED <<link, down, got, childVars, memVars, ctlVars>>

Receive(c) ==
  /\ link[c] = "open"
  /\ down[c] # <<>>
  /\ got' = [got EXCEPT ![c] = Append(@, Head(down[c]))]
  /\ down' = [down EXCEPT ![c] = Tail(@)]
  /\ UNCHANGED <<link, up, sent, childVars, memVars, ctlVars>>

\* the client exits, or calls Prove_client.disconnect
Hangup(c) ==
  /\ Up
  /\ "hangup" \in Faults
  /\ link[c] \in {"backlog", "open"}
  /\ link' = [link EXCEPT ![c] = CASE @ = "backlog" -> "lostbacklog"
                                   [] down[c] # <<>> -> "reset"
                                   [] OTHER -> "closed"]
  /\ down' = [down EXCEPT ![c] = <<>>]
  /\ UNCHANGED <<up, sent, got, childVars, memVars, ctlVars>>

-----------------------------------------------------------------------------
(* The specification *)

MainLoop ==
  \/ ScheduleNewJobs \/ ScheduleDone \/ PollListClean \/ PollListCleaned
  \/ Poll \/ DispatchIdle \/ DispatchDone
  \/ ReadPipe \/ HandleChildEvent \/ ChildEventsDone
  \/ ServerAcceptClient
  \/ ClientError \/ WriteToClient \/ ReadOnClient \/ ReadEndOfFile
  \/ HandleRunNow \/ HandleRunLater \/ HandleParallel \/ HandleInterrupt \/ LinesDone
  \/ RemoveKeeps \/ RemoveDrops \/ InterruptKills \/ CloseClient

ChildStep(p) == ChildSetpgid(p) \/ ChildExits(p) \/ ChildDies(p)

ClientStep(c) ==
  Connect(c) \/ (\E r \in Requests : Send(c, r)) \/ Receive(c) \/ Hangup(c)

Next ==
  \/ MainLoop
  \/ ForkFails \/ SigtermHandler \/ SigchldHandle
  \/ \E p \in Pids : ChildStep(p)
  \/ \E c \in Clients : ClientStep(c)

Spec == Init /\ [][Next]_vars

\* The server thread runs whenever it can, a pending signal is delivered, a
\* prover ends (its time is limited) and a client reads what it is sent.
Fairness ==
  /\ WF_vars(MainLoop)
  /\ WF_vars(SigchldHandle)
  /\ \A p \in Pids : WF_vars(ChildStep(p))
  /\ \A c \in Clients : WF_vars(Receive(c))

FairSpec == Spec /\ Fairness

-----------------------------------------------------------------------------
(* Properties *)

\* Every variable keeps its type; in particular the queue and the process list
\* only hold requests of clients, and the array of poll only known descriptors.
TypeOK ==
  /\ link \in [Clients -> {"idle", "backlog", "lostbacklog", "open", "closed",
                           "reset", "gone"}]
  /\ up \in [Clients -> Seq(Requests)]
  /\ down \in [Clients -> Seq(Answers)]
  /\ sent \in [Clients -> SUBSET Requests]
  /\ got \in [Clients -> Seq(Answers)]
  /\ children \in [Pids -> [st : {"free", "forked", "running", "dying", "zombie"},
                            how : {"exit", "crash", "cpulimit", "killed"}]]
  /\ sigchld \in BOOLEAN
  /\ cpipe \in 0 .. PipeCap
  /\ clients \in [Fds -> Clients \cup {NoClient}]
  /\ readbuf \in Seq(Requests)
  /\ writebuf \in [Fds -> Seq(Answers)]
  /\ queue \in Seq(Jobs)
  /\ tmp \in Seq(Jobs)
  /\ processes \in SUBSET Procs
  /\ parallel \in Nat \ {0}
  /\ poll_list \in Seq(PollEntries)
  /\ pc \in {"schedule", "clean", "poll", "dispatch", "reap", "lines", "remove",
             "exit", "sigpipe"}
  /\ idx \in Nat \ {0}
  /\ removing \in [key : Fds \cup {Gone}, id : Ids \cup {AllIds}]

Connected == {c \in Clients : \E f \in Fds : clients[f] = c}

\* The self pipe trick (setup_child_pipe, sigchld_handle, main): as long as the
\* server runs, a terminated child that has not been waited for is going to be
\* noticed, although the signals of several children are merged, writes to a
\* full pipe are dropped and one byte is read per round.
NoLostWakeup ==
  (Up /\ \E p \in Pids : children[p].st = "zombie") =>
     sigchld \/ cpipe > 0 \/ pc = "reap"

\* The processes the kernel knows are those of the process list, each once, so
\* that in handle_child_events the lookup of a child wait3 returned succeeds.
ChildrenRegistered ==
  /\ {p \in Pids : children[p].st # "free"} = {q.pid : q \in processes}
  /\ \A q, r \in processes : q.pid = r.pid => q = r

\* A queued request belongs to the client that is connected on its descriptor:
\* close_client takes the requests of a client out of the queue before the
\* descriptor can be given to another client, so that run_request and
\* handle_queue_remove find the client that sent the request.
QueuedHaveClients ==
  /\ \A i \in DOMAIN queue : clients[queue[i].key] = queue[i].owner
  /\ \A i \in DOMAIN tmp : clients[tmp[i].key] = tmp[i].owner

\* queue_write, write_to_client and close_client keep the array of poll in step
\* with the write buffers: a connected client has exactly one entry, and that
\* entry asks for POLLOUT exactly when there is something to write.  An answer
\* is never forgotten in its buffer, and the assertion has_write_data of
\* prepare_write holds.
WriteInterest ==
  /\ \A f \in Fds : clients[f] # NoClient <=> \E i \in DOMAIN poll_list : poll_list[i].fd = f
  /\ \A i, j \in DOMAIN poll_list :
       poll_list[i].fd = poll_list[j].fd /\ poll_list[i].fd # Gone => i = j
  /\ \A i \in DOMAIN poll_list :
       poll_list[i].fd \in Fds =>
         /\ poll_list[i].out <=> writebuf[poll_list[i].fd] # <<>>
         /\ "OUT" \in poll_list[i].revents /\ pc = "dispatch" /\ i >= idx
              => writebuf[poll_list[i].fd] # <<>>

\* When poll() blocks there is nothing the server could do: every slot is taken
\* by a process that has not terminated, or no request waits.
BlockedOnlyWhenIdle ==
  pc = "poll" /\ (\A i \in DOMAIN poll_list : Revents(poll_list[i]) = {}) /\ ~sigchld =>
    \/ queue = <<>>
    \/ Cardinality({p \in Pids : children[p].st \in {"forked", "running", "dying"}})
         >= parallel

\* The number of processes never exceeds the largest number of option -j and of
\* the commands "parallel" received.
SlotBound ==
  \E n \in ParallelArgs \cup {InitParallel} : Cardinality(processes) <= n

Conversation(f) == got[clients[f]] \o down[clients[f]] \o writebuf[f]

About(s, c, i) == SelectSeq(s, LAMBDA m : m.owner = c /\ m.id = i)

Unread(f, i) ==
  \/ \E n \in DOMAIN up[clients[f]] : up[clients[f]][n] = Run(i)
  \/ \E n \in DOMAIN readbuf : readbuf[n] = Run(i) /\ Current.fd = f

Waiting(c, i) ==
  Cardinality({n \in DOMAIN queue : queue[n].owner = c /\ queue[n].id = i})
    + Cardinality({n \in DOMAIN tmp : tmp[n].owner = c /\ tmp[n].id = i})

Working(c, i) == Cardinality({q \in processes : q.owner = c /\ q.id = i})

\* What a client that stays connected is told about one of its run requests is
\* at any time what the server has done with it: nothing while the request is
\* on its way or queued, S once it runs, S then one F once it is over, and a
\* single F when it was taken out of the queue by an interrupt.  No request is
\* lost, forgotten, run twice or answered twice.
AnswerProtocol ==
  \A f \in Fds, i \in Ids :
    LET c == clients[f] IN
    (c \in Clients /\ ~HungUp(c)) =>
      LET told == About(Conversation(f), c, i)
          tags == [n \in DOMAIN told |-> told[n].tag]
      IN CASE Run(i) \notin sent[c] \/ Unread(f, i) ->
                tags = <<>> /\ Waiting(c, i) = 0 /\ Working(c, i) = 0
           [] OTHER ->
                \/ tags = <<>> /\ Waiting(c, i) = 1 /\ Working(c, i) = 0
                \/ tags = <<"S">> /\ Waiting(c, i) = 0 /\ Working(c, i) = 1
                \/ /\ Waiting(c, i) = 0 /\ Working(c, i) = 0
                   /\ \/ tags = <<"S", "F">> /\ told[2].cause # "removed"
                      \/ tags = <<"F">> /\ told[1].cause = "removed"

Left(c) == link[c] \notin {"backlog", "open"}

Answered(c, i) ==
  \E n \in DOMAIN got[c] : got[c][n].tag = "F" /\ got[c][n].owner = c /\ got[c][n].id = i

\* Every run request is answered, unless the client or the server goes away.
EveryRunAnswered ==
  \A c \in Clients, i \in Ids :
    Run(i) \in sent[c] ~> Answered(c, i) \/ ~Up \/ Left(c)

-----------------------------------------------------------------------------
(* What README.server says and the server does not keep *)

\* README.server, on the answers S and F: they are sent "to the client who sent
\* the 'run' request".
AnswersToOwner ==
  \A c \in Clients : \A n \in DOMAIN got[c] : got[c][n].owner = c

\* README.server, on interrupt: it "will stop the process of the given id,
\* killing it if it was already running", and the client gets an F.
InterruptStops ==
  \A c \in Clients, i \in Ids :
    Interrupt(i) \in sent[c] ~> Answered(c, i) \/ ~Up \/ Left(c)

\* README.server: when the executable has terminated the server sends F to the
\* client.  What another client does has no part in it.
AnsweredWhateverOthersDo ==
  \A c \in Clients, i \in Ids :
    Run(i) \in sent[c] ~> Answered(c, i) \/ Left(c)

=============================================================================
