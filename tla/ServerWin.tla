----------------------------- MODULE ServerWin ------------------------------
(***************************************************************************)
(* why3server on Windows: src/server/server-win.c with the parts of        *)
(* request.c, proc.c and writebuf.c that it drives.  The server is one     *)
(* thread that takes completion packets from a port: a client connected, a *)
(* read or a write that was started has ended, a job has something to say  *)
(* about its process.  Nothing else touches its memory, so that treating a *)
(* packet is one step; the kernel, the provers and the clients act between *)
(* the steps.                                                              *)
(***************************************************************************)
EXTENDS Integers, Sequences, FiniteSets

CONSTANTS
  Clients,      \* the client programs, each connecting once
  Ids,          \* the identifiers a client gives to its requests
  LongIds,      \* the ids whose run request is longer than READ_ONCE
  NoClient,     \* "nobody has connected to this pipe instance"
  InitParallel, \* option -j, and the number of pipe instances
  ParallelArgs, \* the numbers clients send with "parallel;n"
  SingleClient, \* option --single-client
  Faults,       \* what may happen besides: "create", "memory", "hangup"
  SockCap,      \* bound: messages that one direction of a pipe holds
  MaxSent       \* bound: requests that a client sends

ASSUME WinAssumption ==
  /\ NoClient \notin Clients
  /\ Ids \subseteq Nat \ {0} /\ LongIds \subseteq Ids
  /\ InitParallel \in Nat \ {0}
  /\ ParallelArgs \subseteq Nat \ {0}
  /\ SingleClient \in BOOLEAN
  /\ SockCap \in Nat \ {0} /\ MaxSent \in Nat
ASSUME FiniteAssumption == IsFiniteSet(Clients) /\ IsFiniteSet(Ids)

VARIABLES
  \* the clients and the kernel's side of the pipes
  link,       \* link[c]: state of the client's end of its pipe
  peer,       \* peer[k]: the client connected to the pipe instance of key k
  up,         \* up[k]: messages written by the client of k, not yet read
  taken,      \* taken[k]: how many pieces of the first of them have been read
  down,       \* down[k]: answers written by the server, not yet read
  sent, got,  \* every request a client has sent, every answer it has read
  pstate,     \* pstate[k]: state of the process of key k
  port,       \* the packets of the completion port
  listening,  \* the keys whose pipe instance waits for a client
  \* the memory of the server
  server_key, \* the keys of the listening pipe instances
  gen_key,    \* the next key
  clients,    \* the keys of the list of clients
  reading,    \* reading[k]: where the read of client k is
  writing,    \* writing[k]: where the write of client k is; is_writing unless "no"
  readbuf,    \* readbuf[k]: the pieces in the read buffer
  writebuf,   \* writebuf[k]: the answers in the write buffer
  queue, processes, parallel,
  pc, at      \* the place of the thread, and its local key and socket_num

clientVars == <<link, peer, down, sent, got>>
readVars == <<reading, readbuf, up, taken>>
writeVars == <<writing, writebuf>>
sockVars == <<server_key, listening, clients>>
jobVars == <<queue, processes, parallel, pstate, gen_key>>
vars == <<clientVars, readVars, writeVars, sockVars, jobVars, port, pc, at>>

-----------------------------------------------------------------------------
\* bound: keygen is called for each pipe instance, client and process
MaxKey == InitParallel + Cardinality(Clients) + Cardinality(Clients) * Cardinality(Ids)
Keys == 1 .. MaxKey

Run(i) == [op |-> "run", arg |-> i]
Interrupt(i) == [op |-> "interrupt", arg |-> i]
Parallel(n) == [op |-> "parallel", arg |-> n]
Requests ==
  {Run(i) : i \in Ids} \cup {Interrupt(i) : i \in Ids}
    \cup {Parallel(n) : n \in ParallelArgs}

\* a message longer than READ_ONCE is read in two pieces
Pieces(r) == IF r.op = "run" /\ r.arg \in LongIds
             THEN <<[req |-> r, n |-> 1], [req |-> r, n |-> 2]>>
             ELSE <<[req |-> r, n |-> 1]>>

Jobs == [key : Keys, id : Ids]
Procs == [pid : Keys, key : Keys, id : Ids]
Answers == [tag : {"S", "F"}, id : Ids]

NoPiece == [req |-> Parallel(0), n |-> 0]
Packet(op, k, res, piece) == [op |-> op, key |-> k, res |-> res, piece |-> piece]
Event(op, k, res) == Packet(op, k, res, NoPiece)

AllIds == 0    \* the NULL id of remove_from_queue and kill_processes
NoKey == 0     \* no key: keygen starts at 1

Init ==
  /\ link = [c \in Clients |-> "idle"]
  /\ peer = [k \in Keys |-> NoClient]
  /\ up = [k \in Keys |-> <<>>]
  /\ taken = [k \in Keys |-> 0]
  /\ down = [k \in Keys |-> <<>>]
  /\ sent = [c \in Clients |-> {}]
  /\ got = [c \in Clients |-> <<>>]
  /\ pstate = [k \in Keys |-> "none"]
  /\ port = <<>>
  /\ listening = {}
  /\ server_key = <<1>>
  /\ gen_key = 2
  /\ clients = {}
  /\ reading = [k \in Keys |-> "no"]
  /\ writing = [k \in Keys |-> "no"]
  /\ readbuf = [k \in Keys |-> <<>>]
  /\ writebuf = [k \in Keys |-> <<>>]
  /\ queue = <<>>
  /\ processes = {}
  /\ parallel = InitParallel
  /\ pc = "listen"
  /\ at = [key |-> NoKey, num |-> 1]

-----------------------------------------------------------------------------
(* Reading and writing on a pipe *)

\* the client of the pipe instance k has closed its end
HungUp(k) == peer[k] # NoClient /\ link[peer[k]] = "closed"

\* ReadFile on a pipe whose client has gone fails at once when nothing is left
\* in it, and then no packet follows
DoRead(k) ==
  reading' = [reading EXCEPT ![k] = IF HungUp(k) /\ up[k] = <<>> THEN "dead" ELSE "io"]

\* mutant: try_write without can_write
MutTryWrite(k, b, w) ==
  IF b # <<>> THEN IF HungUp(k) THEN "dead" ELSE "io" ELSE w

\* where the write of client k is once try_write has been called with buffer b
TryWrite(k, b, w) ==
  IF w = "no" /\ b # <<>> THEN IF HungUp(k) THEN "dead" ELSE "io" ELSE w

\* push_write_data and try_write for each of the answers s
SendToClient(k, s) ==
  /\ writebuf' = [writebuf EXCEPT ![k] = @ \o s]
  /\ writing' = [writing EXCEPT ![k] = TryWrite(k, writebuf[k] \o s, @)]

Started(i) == [tag |-> "S", id |-> i]
Finished(i) == [tag |-> "F", id |-> i]

-----------------------------------------------------------------------------
(* Pipe instances and clients *)

\* create_server_socket up to ConnectNamedPipe; k is the client being accepted
CreateServerSocket(i, k) ==
  /\ server_key' = [j \in DOMAIN server_key \cup {i} |-> IF j = i THEN gen_key ELSE server_key[j]]
  /\ gen_key' = gen_key + 1
  /\ pc' = "listen"
  /\ at' = [key |-> k, num |-> i]

\* ConnectNamedPipe: a client may have connected since CreateNamedPipe, and then
\* the call fails with ERROR_PIPE_CONNECTED and no packet follows
ConnectNamedPipe ==
  listening' = listening \cup {k \in {server_key[at.num]} : peer[k] = NoClient}

\* the loop of init
ListenAtStart ==
  /\ pc = "listen" /\ at.key = NoKey
  /\ ConnectNamedPipe
  /\ IF at.num < InitParallel
     THEN CreateServerSocket(at.num + 1, NoKey)
     ELSE /\ pc' = "loop" /\ at' = [key |-> NoKey, num |-> 0]
          /\ UNCHANGED <<server_key, gen_key>>
  /\ UNCHANGED <<clientVars, readVars, writeVars, clients, queue, processes, parallel,
                 pstate, port>>

\* mutant: one slot is kept free
MutHasSlot == Cardinality(processes) + 1 < parallel

HasSlot == Cardinality(processes) < parallel

\* schedule_new_jobs has nothing to do, and the next packet is p
Dequeued(op) ==
  /\ pc = "loop" /\ ~(HasSlot /\ queue # <<>>)
  /\ port # <<>> /\ Head(port).op \in op

get_server_num(k) ==
  IF \E i \in DOMAIN server_key : i <= parallel /\ server_key[i] = k
  THEN CHOOSE i \in DOMAIN server_key : i <= parallel /\ server_key[i] = k
  ELSE -1

\* accept_client up to the middle of create_server_socket
AcceptClient ==
  /\ Dequeued({"connect"})
  /\ LET k == Head(port).key IN
     /\ get_server_num(k) # -1
     /\ CreateServerSocket(get_server_num(k), k)
  /\ port' = Tail(port)
  /\ UNCHANGED <<clientVars, readVars, writeVars, listening, clients, queue, processes,
                 parallel, pstate>>

\* the rest of create_server_socket and of accept_client
ClientAccepted ==
  /\ pc = "listen" /\ at.key # NoKey
  /\ ConnectNamedPipe
  /\ clients' = clients \cup {at.key}
  /\ DoRead(at.key)
  /\ pc' = "loop" /\ at' = [key |-> NoKey, num |-> 0]
  /\ UNCHANGED <<clientVars, readbuf, up, taken, writeVars, server_key, jobVars, port>>

\* get_server_num reads beyond server_key once parallel exceeds its length, and
\* what it finds there may be equal to the key
ServerNumUndefined ==
  /\ Dequeued({"connect", "read", "write"})
  /\ get_server_num(Head(port).key) = -1
  /\ parallel > Len(server_key)
  /\ pc' = "undefined"
  /\ UNCHANGED <<clientVars, readVars, writeVars, sockVars, jobVars, port, at>>

\* a packet of a pipe that is neither listened to nor a client's
IgnorePipe ==
  /\ Dequeued({"connect", "read", "write"})
  /\ get_server_num(Head(port).key) = -1
  /\ Head(port).key \notin clients
  /\ port' = Tail(port)
  /\ UNCHANGED <<clientVars, readVars, writeVars, sockVars, jobVars, pc, at>>

-----------------------------------------------------------------------------
(* Requests *)

Job(k, i) == [key |-> k, id |-> i]

\* CreateProcess fails: the client is told that the request is finished
CreateFails(j, rest) ==
  /\ "create" \in Faults
  /\ SendToClient(j.key, <<Finished(j.id)>>)
  /\ port' = rest
  /\ UNCHANGED <<processes, pstate, gen_key>>

\* the job is associated with the port before its process is resumed, and posts
\* that it has a new process
CreateWorks(j, rest) ==
  /\ processes' = processes \cup {[pid |-> gen_key, key |-> j.key, id |-> j.id]}
  /\ pstate' = [pstate EXCEPT ![gen_key] = "running"]
  /\ gen_key' = gen_key + 1
  /\ SendToClient(j.key, <<Started(j.id)>>)
  /\ port' = Append(rest, Event("process", gen_key, "new"))

RunRequest(j, rest) ==
  IF j.key \in clients
  THEN CreateFails(j, rest) \/ CreateWorks(j, rest)
  ELSE port' = rest /\ UNCHANGED <<processes, pstate, gen_key, writeVars>>

\* one turn of the loop of schedule_new_jobs
ScheduleNewJobs ==
  /\ pc = "loop" /\ HasSlot /\ queue # <<>>
  /\ RunRequest(Head(queue), port)
  /\ queue' = Tail(queue)
  /\ UNCHANGED <<clientVars, readVars, sockVars, parallel, pc, at>>

Matches(j, k, i) == j.key = k /\ (i = AllIds \/ j.id = i)

RemovedFromQueue(k, i) == SelectSeq(queue, LAMBDA j : Matches(j, k, i))

\* mutant: the NULL id is not understood as all ids
MutRemoveFromQueue(k, i) == queue' = SelectSeq(queue, LAMBDA j : ~(j.key = k /\ j.id = i))

RemoveFromQueue(k, i) == queue' = SelectSeq(queue, LAMBDA j : ~Matches(j, k, i))

\* TerminateJobObject ends the processes of the job; it is harmless when they
\* have ended
KillProcesses(k, i) ==
  LET killed == {q.pid : q \in {q \in processes : Matches(q, k, i)}} IN
  pstate' = [p \in Keys |-> IF p \in killed /\ pstate[p] # "ended" THEN "killed" ELSE pstate[p]]

HandleRun(k, i, rest) ==
  /\ UNCHANGED parallel
  /\ IF HasSlot
     THEN RunRequest(Job(k, i), rest) /\ UNCHANGED queue
     ELSE /\ queue' = Append(queue, Job(k, i))
          /\ port' = rest
          /\ UNCHANGED <<processes, pstate, gen_key, writeVars>>

HandleInterrupt(k, i, rest) ==
  LET out == RemovedFromQueue(k, i) IN
  /\ RemoveFromQueue(k, i)
  /\ SendToClient(k, [n \in DOMAIN out |-> Finished(out[n].id)])
  /\ KillProcesses(k, i)
  /\ port' = rest
  /\ UNCHANGED <<processes, parallel, gen_key>>

HandleParallel(n, rest) ==
  /\ parallel' = n
  /\ port' = rest
  /\ UNCHANGED <<queue, processes, pstate, gen_key, writeVars>>

\* parse_request: what is not one request is none
ParseRequest(b) == IF b = Pieces(b[1].req) THEN b[1].req ELSE NoPiece.req

HandleMsg(k, b, rest) ==
  LET r == ParseRequest(b) IN
  CASE r.op = "run" -> HandleRun(k, r.arg, rest)
    [] r.op = "interrupt" -> HandleInterrupt(k, r.arg, rest)
    [] OTHER -> HandleParallel(IF r.arg >= 1 THEN r.arg ELSE parallel, rest)

\* a packet for an operation on the pipe of a client
DequeuedIO(op, k) ==
  /\ Dequeued({op})
  /\ Head(port).key = k /\ k \in clients /\ get_server_num(k) = -1

\* READOP with the end of a message: handle_msg, clear_readbuf, do_read
ReadMessage(k) ==
  /\ DequeuedIO("read", k) /\ Head(port).res = "whole"
  /\ HandleMsg(k, Append(readbuf[k], Head(port).piece), Tail(port))
  /\ readbuf' = [readbuf EXCEPT ![k] = <<>>]
  /\ DoRead(k)
  /\ UNCHANGED <<clientVars, up, taken, sockVars, pc, at>>

\* READOP with ERROR_MORE_DATA
ReadMore(k) ==
  /\ DequeuedIO("read", k) /\ Head(port).res = "part"
  /\ readbuf' = [readbuf EXCEPT ![k] = Append(@, Head(port).piece)]
  /\ DoRead(k)
  /\ port' = Tail(port)
  /\ UNCHANGED <<clientVars, up, taken, writeVars, sockVars, jobVars, pc, at>>

\* READOP with ERROR_BROKEN_PIPE.  Closing the handle cancels a write that is
\* still in the kernel; its packet comes when the client is gone.
CloseClient(k) ==
  /\ DequeuedIO("read", k) /\ Head(port).res = "broken"
  /\ RemoveFromQueue(k, AllIds)
  /\ KillProcesses(k, AllIds)
  /\ clients' = clients \ {k}
  /\ reading' = [reading EXCEPT ![k] = "no"]
  /\ writing' = [writing EXCEPT ![k] = "no"]
  /\ readbuf' = [readbuf EXCEPT ![k] = <<>>]
  /\ writebuf' = [writebuf EXCEPT ![k] = <<>>]
  /\ port' = Tail(port) \o IF writing[k] = "io" THEN <<Event("write", k, "failed")>> ELSE <<>>
  /\ pc' = IF SingleClient /\ clients = {k} THEN "exit" ELSE "loop"
  /\ UNCHANGED <<clientVars, up, taken, server_key, listening, processes, parallel, gen_key, at>>

\* WRITEOP: have_written and try_write
WriteDone(k) ==
  /\ DequeuedIO("write", k)
  /\ LET b == IF Head(port).res = "done" THEN Tail(writebuf[k]) ELSE writebuf[k] IN
     /\ writebuf' = [writebuf EXCEPT ![k] = b]
     /\ writing' = [writing EXCEPT ![k] = TryWrite(k, b, "no")]
  /\ port' = Tail(port)
  /\ UNCHANGED <<clientVars, readVars, sockVars, jobVars, pc, at>>

-----------------------------------------------------------------------------
(* Processes that end *)

Listed(p) == {q \in processes : q.pid = p}

\* handle_child_event is called with an event other than NEW_PROCESS, and waits
HandleChildEvent(p) ==
  /\ Dequeued({"process"}) /\ Head(port).key = p /\ Head(port).res # "new"
  /\ \E q \in Listed(p) : q.key \in clients
  /\ port' = Tail(port)
  /\ pc' = "wait" /\ at' = [key |-> p, num |-> 0]
  /\ UNCHANGED <<clientVars, readVars, writeVars, sockVars, jobVars>>

\* mutant: list_remove is forgotten
MutChildEnded ==
  /\ pc = "wait" /\ pstate[at.key] = "ended"
  /\ \E q \in Listed(at.key) : SendToClient(q.key, <<Finished(q.id)>>)
  /\ pc' = "loop" /\ at' = [key |-> NoKey, num |-> 0]
  /\ UNCHANGED <<clientVars, readVars, sockVars, queue, processes, parallel, pstate, gen_key, port>>

\* WaitForSingleObject returns; the rest of handle_child_event
ChildEnded ==
  /\ pc = "wait" /\ pstate[at.key] = "ended"
  /\ \E q \in Listed(at.key) :
       /\ processes' = processes \ {q}
       /\ SendToClient(q.key, <<Finished(q.id)>>)
  /\ pc' = "loop" /\ at' = [key |-> NoKey, num |-> 0]
  /\ UNCHANGED <<clientVars, readVars, sockVars, queue, parallel, pstate, gen_key, port>>

\* mutant: the events of the normal exit are missing in the switch
MutIgnoreProcess ==
  /\ Dequeued({"process"})
  /\ \/ Head(port).res # "limit"
     \/ ~ \E q \in Listed(Head(port).key) : q.key \in clients
  /\ port' = Tail(port)
  /\ UNCHANGED <<clientVars, readVars, writeVars, sockVars, jobVars, pc, at>>

\* NEW_PROCESS, or the process or its client is not in its list
IgnoreProcess ==
  /\ Dequeued({"process"})
  /\ \/ Head(port).res = "new"
     \/ ~ \E q \in Listed(Head(port).key) : q.key \in clients
  /\ port' = Tail(port)
  /\ UNCHANGED <<clientVars, readVars, writeVars, sockVars, jobVars, pc, at>>

\* shutdown_with_msg closes the port and the pipes
Up == pc \notin {"exit", "undefined"}

-----------------------------------------------------------------------------
(* The kernel and the processes *)

Post(s) == port' = port \o s

ReadCompletes(k) ==
  /\ Up /\ reading[k] = "io" /\ up[k] # <<>>
  /\ LET pieces == Pieces(Head(up[k]))
         n == taken[k] + 1
         last == n = Len(pieces)
     IN /\ Post(<<Packet("read", k, IF last THEN "whole" ELSE "part", pieces[n])>>)
        /\ up' = [up EXCEPT ![k] = IF last THEN Tail(@) ELSE @]
        /\ taken' = [taken EXCEPT ![k] = IF last THEN 0 ELSE n]
  /\ reading' = [reading EXCEPT ![k] = "port"]
  /\ UNCHANGED <<clientVars, readbuf, writeVars, sockVars, jobVars, pc, at>>

ReadBreaks(k) ==
  /\ Up /\ reading[k] = "io" /\ up[k] = <<>> /\ HungUp(k)
  /\ Post(<<Event("read", k, "broken")>>)
  /\ reading' = [reading EXCEPT ![k] = "port"]
  /\ UNCHANGED <<clientVars, readbuf, up, taken, writeVars, sockVars, jobVars, pc, at>>

WriteCompletes(k) ==
  /\ Up /\ writing[k] = "io" /\ ~HungUp(k) /\ Len(down[k]) < SockCap
  /\ down' = [down EXCEPT ![k] = Append(@, Head(writebuf[k]))]
  /\ Post(<<Event("write", k, "done")>>)
  /\ writing' = [writing EXCEPT ![k] = "port"]
  /\ UNCHANGED <<link, peer, sent, got, readVars, writebuf, sockVars, jobVars, pc, at>>

WriteBreaks(k) ==
  /\ Up /\ writing[k] = "io" /\ HungUp(k)
  /\ Post(<<Event("write", k, "failed")>>)
  /\ writing' = [writing EXCEPT ![k] = "port"]
  /\ UNCHANGED <<clientVars, readVars, writebuf, sockVars, jobVars, pc, at>>

\* a process ends by itself, at its time limit or killed: its job posts the exit
\* and then that no process is left
ProcessEnds(p) ==
  /\ Up /\ pstate[p] \in {"running", "over", "killed"}
  /\ pstate' = [pstate EXCEPT ![p] = "ended"]
  /\ Post(<<Event("process", p, "exit"), Event("process", p, "zero")>>)
  /\ UNCHANGED <<clientVars, readVars, writeVars, sockVars, queue, processes, parallel, gen_key, pc, at>>

\* PROCESS_MEMORY_LIMIT is posted for an allocation that fails, and the process
\* goes on; END_OF_PROCESS_TIME likewise comes before the process has ended
MemoryLimit(p) ==
  /\ Up /\ "memory" \in Faults /\ pstate[p] = "running"
  /\ pstate' = [pstate EXCEPT ![p] = "over"]
  /\ Post(<<Event("process", p, "limit")>>)
  /\ UNCHANGED <<clientVars, readVars, writeVars, sockVars, queue, processes, parallel, gen_key, pc, at>>

-----------------------------------------------------------------------------
(* The clients *)

\* a client opens a free pipe instance; there is a packet if it was waited for
Connect(c, k) ==
  /\ Up /\ link[c] = "idle" /\ (\E i \in DOMAIN server_key : server_key[i] = k) /\ peer[k] = NoClient
  /\ link' = [link EXCEPT ![c] = "open"]
  /\ peer' = [peer EXCEPT ![k] = c]
  /\ IF k \in listening THEN Post(<<Event("connect", k, "done")>>) ELSE UNCHANGED port
  /\ listening' = listening \ {k}
  /\ UNCHANGED <<down, sent, got, readVars, writeVars, server_key, clients, jobVars, pc, at>>

\* gen_id numbers the run requests of a client, and each is interrupted after it
MaySend(c, r) ==
  /\ r \notin sent[c] /\ Cardinality(sent[c]) < MaxSent
  /\ r.op = "run" => \A i \in Ids : i < r.arg => Run(i) \in sent[c]
  /\ r.op = "interrupt" => Run(r.arg) \in sent[c]

Send(k, r) ==
  /\ Up /\ peer[k] # NoClient /\ ~HungUp(k) /\ MaySend(peer[k], r)
  /\ Len(up[k]) < SockCap
  /\ up' = [up EXCEPT ![k] = Append(@, r)]
  /\ sent' = [sent EXCEPT ![peer[k]] = @ \cup {r}]
  /\ UNCHANGED <<link, peer, down, got, taken, reading, readbuf, writeVars, sockVars, jobVars, port, pc, at>>

Receive(k) ==
  /\ peer[k] # NoClient /\ ~HungUp(k) /\ down[k] # <<>>
  /\ got' = [got EXCEPT ![peer[k]] = Append(@, Head(down[k]))]
  /\ down' = [down EXCEPT ![k] = Tail(@)]
  /\ UNCHANGED <<link, peer, sent, readVars, writeVars, sockVars, jobVars, port, pc, at>>

Hangup(c) ==
  /\ "hangup" \in Faults /\ link[c] = "open"
  /\ link' = [link EXCEPT ![c] = "closed"]
  /\ UNCHANGED <<peer, down, sent, got, readVars, writeVars, sockVars, jobVars, port, pc, at>>

-----------------------------------------------------------------------------
MainLoop ==
  \/ ListenAtStart \/ AcceptClient \/ ClientAccepted
  \/ ServerNumUndefined \/ IgnorePipe \/ IgnoreProcess
  \/ ScheduleNewJobs \/ ChildEnded
  \/ \E k \in Keys : ReadMessage(k) \/ ReadMore(k) \/ CloseClient(k) \/ WriteDone(k) \/ HandleChildEvent(k)

Environment ==
  \/ \E k \in Keys :
       \/ ReadCompletes(k) \/ ReadBreaks(k) \/ WriteCompletes(k) \/ WriteBreaks(k)
       \/ ProcessEnds(k) \/ MemoryLimit(k) \/ Receive(k)
       \/ \E r \in Requests : Send(k, r)
       \/ \E c \in Clients : Connect(c, k)
  \/ \E c \in Clients : Hangup(c)

Next == MainLoop \/ Environment

Spec == Init /\ [][Next]_vars

\* The thread runs, the kernel completes what it can, provers end at their
\* limits, and a client reads what it is sent.  Each of these happens a bounded
\* number of times, so that fairness for some key is fairness for every key.
FairSpec ==
  /\ Spec /\ WF_vars(MainLoop)
  /\ WF_vars(\E k \in Keys : ReadCompletes(k) \/ ReadBreaks(k))
  /\ WF_vars(\E k \in Keys : WriteCompletes(k) \/ WriteBreaks(k))
  /\ WF_vars(\E k \in Keys : ProcessEnds(k))
  /\ WF_vars(\E k \in Keys : Receive(k))

-----------------------------------------------------------------------------
(* Properties *)

InPort(op, k) == Cardinality({n \in DOMAIN port : port[n].op = op /\ port[n].key = k})
OnePacketIf(b) == IF b THEN 1 ELSE 0

\* A client's pipe has at any time one read and, exactly while answers are in the
\* write buffer, one write: in the kernel or as one packet in the port.  No
\* read is forgotten or started twice into the same buffer, no answer stays
\* behind, and have_written is called only while is_writing holds.  An operation
\* that failed at once, of which no packet follows, is on a pipe whose client
\* has gone.
IoInStep ==
  \A k \in clients :
    /\ reading[k] # "no"
    /\ writing[k] # "no" <=> writebuf[k] # <<>>
    /\ InPort("read", k) = OnePacketIf(reading[k] = "port")
    /\ InPort("write", k) = OnePacketIf(writing[k] = "port")
    /\ "dead" \in {reading[k], writing[k]} => HungUp(k)

\* A client that has been closed leaves nothing behind to be started or running:
\* close_client takes its requests out of the queue and kills its processes, and
\* no later step of the server starts one of them.
GoneClientsStopped ==
  /\ \A n \in DOMAIN queue : queue[n].key \in clients
  /\ \A q \in processes : q.key \notin clients => pstate[q.pid] \in {"killed", "ended"}

Notified(q) ==
  \/ pstate[q.pid] # "ended"
  \/ InPort("process", q.pid) > 0
  \/ pc = "wait" /\ at.key = q.pid

\* As long as its client is connected, a process in the list is alive, or a
\* packet of its job is still to come, or handle_child_event is at it: the
\* several packets of one job never use up the last notice before the F is sent.
ListedUntilAnswered ==
  \A q \in processes : q.key \in clients => Notified(q)

\* handle_msg says that there is "no need to clean up the list of processes ...
\* this will be done when we get notified of the end of the child process": a
\* process in the list is alive or its end is still to be notified.
CleanedWhenNotified == \A q \in processes : Notified(q)

\* what has been written to the pipe is in the buffer until its packet is treated
Conversation(k) ==
  got[peer[k]] \o down[k] \o (IF writing[k] = "port" THEN Tail(writebuf[k]) ELSE writebuf[k])

Unread(k, i) ==
  \/ \E n \in DOMAIN up[k] : up[k][n] = Run(i)
  \/ \E n \in DOMAIN port :
       port[n].key = k /\ port[n].res = "whole" /\ port[n].piece.req = Run(i)

\* What a connected client is told about a run request is what the server
\* has done with it: nothing while it is unread or queued, S while it runs, S
\* and one F when it is over, although a job posts several packets, and a single
\* F when it was never started.  A request longer than one read is treated once.
WinAnswerProtocol ==
  \A k \in clients, i \in Ids :
    ~HungUp(k) =>
      LET told == SelectSeq(Conversation(k), LAMBDA m : m.id = i)
          tags == [n \in DOMAIN told |-> told[n].tag]
          waits == Cardinality({n \in DOMAIN queue : queue[n] = Job(k, i)})
          works == Cardinality({q \in processes : q.key = k /\ q.id = i})
      IN IF Run(i) \notin sent[peer[k]] \/ Unread(k, i)
         THEN tags = <<>> /\ waits = 0 /\ works = 0
         ELSE \/ tags = <<>> /\ waits = 1 /\ works = 0
              \/ tags = <<"S">> /\ waits = 0 /\ works = 1
              \/ tags \in {<<"S", "F">>, <<"F">>} /\ waits = 0 /\ works = 0

Accepted(c) == \E k \in clients : peer[k] = c

Answered(c, i) == \E n \in DOMAIN got[c] : got[c][n] = Finished(i)

\* Every run request of an accepted client is answered by an F, unless the client
\* hangs up or get_server_num has read beyond its array.
WinRunAnswered ==
  \A c \in Clients, i \in Ids :
    (Accepted(c) /\ Run(i) \in sent[c]) ~> (Answered(c, i) \/ link[c] = "closed" \/ ~Up)

\* create_server_socket says of a client that was faster than ConnectNamedPipe
\* "connection works, ignore": a client that connects is accepted.
EveryClientAccepted ==
  \A c \in Clients : (link[c] = "open") ~> (Accepted(c) \/ link[c] = "closed" \/ ~Up)

=============================================================================
