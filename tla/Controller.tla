----------------------------- MODULE Controller -----------------------------
(***************************************************************************)
(* The proof scheduler of a session (controller_itp.ml) on the event loop  *)
(* of unix_scheduler.ml, and its calls of provers (call_provers.ml).  All  *)
(* of it is one thread: the loop runs one handler after another.  What is  *)
(* concurrent is the prover server, whose answers come when they come.     *)
(*                                                                         *)
(* ctl holds the tables of the controller, as a record, since a handler    *)
(* calls callbacks that change them again: a handler is a function on ctl, *)
(* and so is each callback.  An attempt is its index in ctl.att, and goals *)
(* are numbered as they are created.  Igoto of a strategy is left out: it  *)
(* goes on at its target in the same call.                                 *)
(***************************************************************************)
EXTENDS Integers, SequencesExt

CONSTANTS
  NumRoots,     \* goals that the user works on
  NumSubGoals,  \* goals that the transformation makes of a goal
  Provers,
  Strategy,     \* instructions: Calls(provers) or Transform(pcsuccess)
  MaxTasks,     \* session_max_tasks
  Multiplier,   \* S.multiplier
  MaxCommands      \* bound: commands of the user

Calls(provers) == [call |-> TRUE, provers |-> provers]
Transform(pcsuccess) == [call |-> FALSE, pcsuccess |-> pcsuccess]

Roots == 1 .. NumRoots

VARIABLES
  ctl,     \* the controller
  saved,   \* ids in saved_data
  jobs,    \* what the server knows of each attempt: queued, running or over
  answers, \* answers on their way to the client
  commands    \* commands of the user so far

ctlVars == <<ctl, saved, jobs, answers, commands>>

CtlInit ==
    /\ ctl = [goals       |-> NumRoots, \* number of goals
              att         |-> <<>>,   \* [goal, prover, step, status] of each attempt
              steps       |-> <<>>,   \* [goal, pc, already_done, moved] of each Icall_prover executed
              scheduled   |-> <<>>,   \* scheduled_proof_attempts
              progress    |-> {},     \* prover_tasks_in_progress
              started     |-> {},     \* those with tp_started
              running     |-> 0,      \* number_of_running_provers
              idle        |-> FALSE,  \* idle_handler_running
              next        |-> <<>>,   \* the other functions to call on idle
              stop        |-> {},     \* interrupts on their way to the server
              busy        |-> EmptyBag, \* controller_running_proof_attempts
              nodes       |-> {},     \* proof attempts in the session
              valid       |-> {}]     \* those whose result is Valid
    /\ saved = {} /\ jobs = <<>> /\ answers = <<>> /\ commands = 0

Final == {"Valid", "Failed", "Interrupted", "InternalFailure"}
Pa(c, n) == <<c.att[n].goal, c.att[n].prover>>
OnIdle(c, goal, pc, trans) == [c EXCEPT !.next = Append(@, [goal |-> goal, pc |-> pc, trans |-> trans])]

-----------------------------------------------------------------------------
(* Callbacks *)

\* the callback of schedule_proof_attempt, before it calls its caller's
StatusChanged(c, n, status) ==
    [c EXCEPT !.att[n].status = status,
              !.busy = IF status \in Final THEN @ (-) SetToBag({Pa(c, n)}) ELSE @,
              !.valid = CASE status = "Valid"  -> @ \cup {Pa(c, n)}
                          [] status = "Failed" -> @ \ {Pa(c, n)}
                          [] OTHER -> @]

\* an attempt outside of a strategy has step 0
SetAlreadyDone(c, k, v) == IF k = 0 THEN c ELSE [c EXCEPT !.steps[k].already_done = v]

\* Done with another answer than Valid, or InternalFailure.
CallbackFailed(c, n, status) ==
    LET k == c.att[n].step
        d == SetAlreadyDone(StatusChanged(c, n, status), k, IF k = 0 THEN 0 ELSE c.steps[k].already_done - 1)
    IN IF k # 0 /\ d.steps[k].already_done = 0
       THEN OnIdle([d EXCEPT !.steps[k].moved = @ + 1], d.steps[k].goal, d.steps[k].pc + 1, FALSE)
       ELSE d

\* mutant: an interrupted attempt counts as one that failed
MutCallbackInterrupted(c, n) == CallbackFailed(c, n, "Interrupted")

CallbackInterrupted(c, n) == SetAlreadyDone(StatusChanged(c, n, "Interrupted"), c.att[n].step, 0)

InterruptAll(c, S) == FoldSet(LAMBDA n, d : CallbackInterrupted(d, n), c, S)

\* mutant: number_of_running_provers stays
MutStopped(c, S) ==
    InterruptAll([c EXCEPT !.stop = @ \cup S, !.progress = @ \ S, !.started = @ \ S], S)

\* The attempts S in progress are interrupted, and what the server will still
\* say of them is not for them any more.
Stopped(c, S) ==
    InterruptAll([c EXCEPT !.stop = @ \cup S, !.running = @ - Cardinality(S \cap c.started),
                           !.progress = @ \ S, !.started = @ \ S], S)

interrupt_proof_attempts_for_goal(c, g) ==
    LET OnGoal(n) == c.att[n].goal = g
        d == Stopped(c, {n \in c.progress : OnGoal(n)})
    IN [InterruptAll(d, {n \in Range(c.scheduled) : OnGoal(n)})
          EXCEPT !.scheduled = SelectSeq(@, LAMBDA n : ~OnGoal(n))]

\* remove_subtree of proof attempts
RemovePas(c, pas) == [c EXCEPT !.nodes = @ \ (pas \ BagToSet(c.busy)),
                               !.valid = @ \ (pas \ BagToSet(c.busy))]

CallbackValid(c, n) ==
    LET d == StatusChanged(c, n, "Valid")
        g == c.att[n].goal
        e == interrupt_proof_attempts_for_goal(d, g)
    IN IF c.att[n].step = 0 THEN d
       ELSE SetAlreadyDone(RemovePas(e, {pa \in e.nodes \ e.valid : pa[1] = g}), c.att[n].step, 0)

-----------------------------------------------------------------------------
(* Scheduling *)

schedule_proof_attempt(c, goal, prover, step) ==
    LET pa == <<goal, prover>> IN
    [c EXCEPT !.att = Append(@, [goal |-> goal, prover |-> prover, step |-> step, status |-> "Scheduled"]),
              !.scheduled = Append(@, Len(c.att) + 1),
              !.nodes = @ \cup {pa}, !.valid = @ \ {pa},
              !.busy = @ (+) SetToBag({pa}),
              !.idle = TRUE]

exec_strategy(c, goal, pc) ==
    CASE pc > Len(Strategy) -> c
      [] pc <= Len(Strategy) /\ Strategy[pc].call ->
           LET is == Strategy[pc].provers
               k == Len(c.steps) + 1
           IN FoldLeft(LAMBDA d, p : schedule_proof_attempt(d, goal, p, k),
                       [c EXCEPT !.steps = Append(@, [goal |-> goal, pc |-> pc, already_done |-> Len(is), moved |-> 0])],
                       is)
      [] OTHER -> OnIdle(c, goal, pc, TRUE)

\* commands of the user
MayCommand == commands < MaxCommands /\ commands' = commands + 1 /\ UNCHANGED <<saved, jobs, answers>>

RunStrategy(g) == MayCommand /\ ctl' = exec_strategy(ctl, g, 1)

Prove(g, p) == MayCommand /\ ctl' = schedule_proof_attempt(ctl, g, p, 0)

RemoveNode(pa) == MayCommand /\ pa \in ctl.nodes /\ ctl' = RemovePas(ctl, {pa})

Interrupt ==
    /\ MayCommand
    /\ ctl' = [InterruptAll(Stopped(ctl, ctl.progress), Range(ctl.scheduled))
                 EXCEPT !.running = 0, !.scheduled = <<>>]

-----------------------------------------------------------------------------
(* The handlers that the loop calls *)

\* build_prover_call, which sends the request or fails.  What a failed send
\* has left in saved_data no answer ever asks for: it is left out.
ProverCalled(n) ==
    \/ /\ ctl' = [ctl EXCEPT !.scheduled = Tail(@), !.progress = @ \cup {n}]
       /\ saved' = saved \cup {n}
       /\ jobs' = (n :> "queued") @@ jobs
    \/ /\ ctl' = CallbackFailed([ctl EXCEPT !.scheduled = Tail(@)], n, "InternalFailure")
       /\ UNCHANGED <<saved, jobs>>

\* mutant: the handler ends when there is no room
MutIdleHandler ==
    /\ ctl.idle
    /\ IF ctl.scheduled # <<>> /\ Cardinality(ctl.progress) < Multiplier * MaxTasks
       THEN ProverCalled(Head(ctl.scheduled))
       ELSE ctl' = [ctl EXCEPT !.idle = FALSE] /\ UNCHANGED <<saved, jobs>>
    /\ UNCHANGED <<answers, commands>>

\* It stays registered while there is no room for another task.
idle_handler ==
    /\ ctl.idle
    /\ Cardinality(ctl.progress) < Multiplier * MaxTasks
    /\ IF ctl.scheduled = <<>>
       THEN ctl' = [ctl EXCEPT !.idle = FALSE] /\ UNCHANGED <<saved, jobs>>
       ELSE ProverCalled(Head(ctl.scheduled))
    /\ UNCHANGED <<answers, commands>>

\* run_next and apply_trans, whose priority is lower
run_next ==
    /\ ~ctl.idle /\ ctl.next # <<>>
    /\ LET h == Head(ctl.next)
           c == [ctl EXCEPT !.next = Tail(@)]
       IN \/ ~h.trans /\ ctl' = exec_strategy(c, h.goal, h.pc)
          \/ h.trans /\ ctl' = c                                        \* TSfatal
          \/ h.trans /\ ctl' = OnIdle(c, h.goal, h.pc + 1, FALSE)       \* TSfailed
          \/ h.trans /\ ctl' = FoldLeft(LAMBDA d, i : OnIdle(d, c.goals + i, Strategy[h.pc].pcsuccess, FALSE),
                                        [c EXCEPT !.goals = @ + NumSubGoals], [i \in 1 .. NumSubGoals |-> i])
    /\ UNCHANGED <<saved, jobs, answers, commands>>

\* one result of get_new_results
Update(c, a) ==
    IF a.id \notin c.progress THEN c
    ELSE IF a.started
    THEN [StatusChanged(c, a.id, "Running") EXCEPT !.running = @ + 1, !.started = @ \cup {a.id}]
    ELSE LET d == [c EXCEPT !.progress = @ \ {a.id}, !.started = @ \ {a.id},
                            !.running = IF a.id \in c.started THEN @ - 1 ELSE @]
         IN IF a.valid THEN CallbackValid(d, a.id) ELSE CallbackFailed(d, a.id, "Failed")

\* result_buffer keeps the order of arrival within a bucket of the hash table,
\* hence for each id; get_new_results goes from bucket to bucket.
Results(batch, bucket) ==
    FlattenSeq([i \in DOMAIN batch |-> SelectSeq(batch, LAMBDA a : bucket[a.id] = i)])

fetch_new_results(k) == ctl.progress # {} /\ answers' = SubSeq(answers, k + 1, Len(answers))

timeout_handler ==
    /\ \E k \in DOMAIN answers :
         LET batch == SubSeq(answers, 1, k) IN
         /\ fetch_new_results(k)
         /\ saved' = saved \ {a.id : a \in {b \in Range(batch) : ~b.started}}
         /\ LET ids == {a.id : a \in Range(batch)} IN
            \E bucket \in [ids -> 1 .. Cardinality(ids)] :
               ctl' = FoldLeft(Update, ctl, Results(batch, bucket))
    /\ UNCHANGED <<jobs, commands>>

-----------------------------------------------------------------------------
(* The prover server, as a client may rely on it *)

Say(n, started, valid) == answers' = Append(answers, [id |-> n, started |-> started, valid |-> valid])
Job(n, to) == jobs' = [jobs EXCEPT ![n] = to]

ServerStarts(n) ==
    /\ jobs[n] = "queued" /\ Cardinality({m \in DOMAIN jobs : jobs[m] = "running"}) < MaxTasks
    /\ Job(n, "running") /\ Say(n, TRUE, FALSE)
    /\ UNCHANGED <<ctl, saved, commands>>

ServerEnds(n) ==
    /\ jobs[n] = "running"
    /\ Job(n, "over") /\ \E valid \in BOOLEAN : Say(n, FALSE, valid)
    /\ UNCHANGED <<ctl, saved, commands>>

\* an interrupt arrives: a request that is over is not known any more
ServerStops(n) ==
    /\ n \in ctl.stop
    /\ ctl' = [ctl EXCEPT !.stop = @ \ {n}]
    /\ IF jobs[n] = "over" THEN UNCHANGED <<jobs, answers>> ELSE Job(n, "over") /\ Say(n, FALSE, FALSE)
    /\ UNCHANGED <<saved, commands>>

Server == \E n \in DOMAIN jobs : ServerStarts(n) \/ ServerEnds(n) \/ ServerStops(n)
\* timeout_handler is the only action that takes answers away, and can whenever
\* Fetch can: fairness of Fetch is fairness of timeout_handler.
Fetch == \E k \in DOMAIN answers : fetch_new_results(k)

Loop == idle_handler \/ run_next
User == \/ \E g \in Roots : RunStrategy(g)
        \/ \E g \in Roots, p \in Provers : Prove(g, p)
        \/ \E pa \in Roots \X Provers : RemoveNode(pa)
        \/ Interrupt
CtlNext == Server \/ Loop \/ timeout_handler \/ User

CtlSpec == CtlInit /\ [][CtlNext]_ctlVars
           /\ WF_ctlVars(Loop) /\ WF_answers(Fetch) /\ WF_ctlVars(Server)

-----------------------------------------------------------------------------
(* Properties *)

\* The tables of the controller agree, whatever is interrupted while its answer
\* is on the way: an attempt without a final status is in exactly one of them
\* and its node is in the session; the number of running provers and the
\* counts that protect nodes from removal are right; every answer that comes
\* has its saved data, and no task is told twice that it has started.
TablesAgree ==
    LET open == {n \in DOMAIN ctl.att : ctl.att[n].status \notin Final} IN
    /\ Range(ctl.scheduled) \cup ctl.progress = open
    /\ Range(ctl.scheduled) \cap ctl.progress = {} /\ IsInjective(ctl.scheduled)
    /\ ctl.running = Cardinality(ctl.started) /\ ctl.started \subseteq ctl.progress
    /\ ctl.started = {n \in open : ctl.att[n].status = "Running"}
    /\ BagToSet(ctl.busy) = {Pa(ctl, n) : n \in open} /\ BagToSet(ctl.busy) \subseteq ctl.nodes
    /\ \A pa \in BagToSet(ctl.busy) : ctl.busy[pa] = Cardinality({n \in open : Pa(ctl, n) = pa})
    /\ \A a \in Range(answers) : a.id \in saved /\ (a.started => a.id \notin ctl.started)

\* A strategy goes on to the next instruction exactly once if all its provers
\* failed, and not at all if one of them succeeded or was interrupted; once one
\* succeeded, none of the others remains scheduled or running.
MovesOnWhenAllFailed ==
    \A k \in DOMAIN ctl.steps :
        LET stats == {ctl.att[n].status : n \in {m \in DOMAIN ctl.att : ctl.att[m].step = k}} IN
        /\ ctl.steps[k].moved = IF stats \subseteq {"Failed", "InternalFailure"} THEN 1 ELSE 0
        /\ "Valid" \in stats => stats \subseteq Final

\* Whatever the user started comes to an end: every attempt gets a final
\* status and no function is left to call, provided the server answers.
ComesToRest == []<>(ctl.next = <<>> /\ \A n \in DOMAIN ctl.att : ctl.att[n].status \in Final)
=============================================================================
