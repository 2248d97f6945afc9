------------------------------ MODULE CpuLimit ------------------------------
(***************************************************************************)
(* why3cpulimit on Unix (cpulimit-unix.c): a process that limits the CPU   *)
(* time and the memory of a command and, if it forks for that, stays to    *)
(* wait for it, to kill it at a wallclock limit, and to end as it ended.   *)
(*                                                                         *)
(* pc[p] is where a process stands in main: the parent waits, the child    *)
(* (or the only process) sets limits and execs.  An outcome is an exit     *)
(* code or the signal that ended a process.  opts are the arguments that   *)
(* matter, and whether the caller left SIGCHLD ignored, which exec keeps.  *)
(***************************************************************************)
EXTENDS Naturals

CONSTANTS ExitCodes,   \* exit codes of commands
          Signals      \* signals that may end a command

EXIT_FAILURE == "1"
Running == [by |-> "nothing", what |-> ""]
Exited(n) == [by |-> "exit", what |-> n]
Signaled(s) == [by |-> "signal", what |-> s]
Outcomes == {Exited(n) : n \in ExitCodes \cup {EXIT_FAILURE}}
            \cup {Signaled(s) : s \in Signals \cup {"SIGKILL", "SIGTERM"}}

VARIABLES opts, pc, end, limits, alarm, status

cpuVars == <<opts, pc, end, limits, alarm, status>>

Processes == {"parent", "child"}

CpuInit ==
    /\ opts \in [usage : BOOLEAN, time : BOOLEAN, mem : BOOLEAN, show : BOOLEAN, nochld : BOOLEAN]
    /\ pc = [p \in Processes |-> IF p = "parent" THEN "main" ELSE "none"]
    /\ end = [p \in Processes |-> Running]
    /\ limits = [p \in Processes |-> {}]
    /\ alarm = "off"
    /\ status = Running

Goto(p, l) == pc' = [pc EXCEPT ![p] = l]
Finish(p, o) == Goto(p, "ended") /\ end' = [end EXCEPT ![p] = o]

\* Arguments and fork.
Usage == /\ pc["parent"] = "main" /\ opts.usage
         /\ Finish("parent", Exited(EXIT_FAILURE))
         /\ UNCHANGED <<opts, limits, alarm, status>>

Fork == /\ pc["parent"] = "main" /\ ~opts.usage /\ (opts.show \/ opts.time)
        /\ \/ /\ pc' = [parent |-> IF opts.time THEN "alarm" ELSE "waitpid", child |-> "limits"]
              /\ UNCHANGED end
           \/ Finish("parent", Exited(EXIT_FAILURE))
        /\ UNCHANGED <<opts, limits, alarm, status>>

NoFork == /\ pc["parent"] = "main" /\ ~opts.usage /\ ~opts.show /\ ~opts.time
          /\ Goto("parent", "limits")
          /\ UNCHANGED <<opts, end, limits, alarm, status>>

\* mutant: the wallclock limit is not set
MutSetAlarm == /\ pc["parent"] = "alarm"
               /\ Goto("parent", "waitpid")
               /\ UNCHANGED <<opts, end, limits, alarm, status>>

\* The wallclock limit is at least a minute: the parent waits before it expires.
SetAlarm == /\ pc["parent"] = "alarm"
            /\ alarm' = "set"
            /\ Goto("parent", "waitpid")
            /\ UNCHANGED <<opts, end, limits, status>>

\* waitpid reaps a child that ended; if SIGCHLD is ignored the kernel reaped it
\* and waitpid fails.
Waitpid(l, fail) ==
    /\ pc["parent"] = l /\ pc["child"] = "ended"
    /\ IF opts.nochld THEN Goto("parent", fail) /\ UNCHANGED status
                      ELSE Goto("parent", "relay") /\ status' = end["child"]
    /\ UNCHANGED <<opts, end, limits, alarm>>

\* mutant: the command is not killed
MutExpire == /\ pc["parent"] = "waitpid" /\ alarm = "set"
             /\ alarm' = "expired"
             /\ Goto("parent", "giveup")
             /\ UNCHANGED <<opts, end, limits, status>>

\* The handler of SIGALRM returns and waitpid fails with EINTR.
Expire == /\ pc["parent"] = "waitpid" /\ alarm = "set"
          /\ alarm' = "expired"
          /\ Goto("parent", "kill")
          /\ UNCHANGED <<opts, end, limits, status>>

\* Any later the handler only prints.
ExpireLate == /\ pc["parent"] \in {"kill", "waitpid2", "relay"} /\ alarm = "set"
              /\ alarm' = "expired"
              /\ UNCHANGED <<opts, pc, end, limits, status>>

Kill == /\ pc["parent"] = "kill"
        /\ IF end["child"] = Running
           THEN /\ end' = [end EXCEPT !["child"] = Signaled("SIGKILL")]
                /\ pc' = [parent |-> "waitpid2", child |-> "ended"]
           ELSE Goto("parent", "waitpid2") /\ UNCHANGED end
        /\ UNCHANGED <<opts, limits, alarm, status>>

\* mutant: waitpid with WNOHANG returns 0 for a command that runs
MutWait1 ==
    \/ Waitpid("waitpid", "kill")
    \/ /\ pc["parent"] = "waitpid" /\ pc["child"] # "ended"
       /\ Goto("parent", "kill")
       /\ UNCHANGED <<opts, end, limits, alarm, status>>

Wait1 == Waitpid("waitpid", "kill")
Wait2 == Waitpid("waitpid2", "giveup")

GiveUp == /\ pc["parent"] = "giveup"
          /\ Finish("parent", Signaled("SIGTERM"))
          /\ UNCHANGED <<opts, limits, alarm, status>>

\* A SIGALRM the parent sends itself runs its own handler, if it has one.
Relay == /\ pc["parent"] = "relay"
         /\ Finish("parent", IF status = Signaled("SIGALRM") /\ opts.time
                             THEN Signaled("SIGTERM") ELSE status)
         /\ UNCHANGED <<opts, limits, alarm, status>>

Requested == {r \in {"cpu", "mem"} : IF r = "cpu" THEN opts.time ELSE opts.mem}

SetLimits(p) == /\ pc[p] = "limits"
                /\ limits' = [limits EXCEPT ![p] = Requested \cup IF Requested = {} THEN {} ELSE {"core"}]
                /\ Goto(p, "exec")
                /\ UNCHANGED <<opts, end, alarm, status>>

Exec(p) == /\ pc[p] = "exec"
           /\ (Goto(p, "command") /\ UNCHANGED end) \/ Finish(p, Exited(EXIT_FAILURE))
           /\ UNCHANGED <<opts, limits, alarm, status>>

\* The command ends as it likes, or by a signal such as SIGXCPU.
Command(p) == /\ pc[p] = "command"
              /\ \E o \in {Exited(n) : n \in ExitCodes} \cup {Signaled(s) : s \in Signals} : Finish(p, o)
              /\ UNCHANGED <<opts, limits, alarm, status>>

CpuParent == Usage \/ Fork \/ NoFork \/ SetAlarm \/ Wait1 \/ Expire \/ ExpireLate \/ Kill \/ Wait2 \/ GiveUp \/ Relay
CpuStart(p) == SetLimits(p) \/ Exec(p)
CpuNext == CpuParent \/ \E p \in Processes : CpuStart(p) \/ Command(p)

\* Processes that can run do, and a clock that is set expires; a command need
\* not end.
CpuFairness == WF_cpuVars(CpuParent) /\ \A p \in Processes : WF_cpuVars(CpuStart(p))

CpuSpec == CpuInit /\ [][CpuNext]_cpuVars /\ CpuFairness

-----------------------------------------------------------------------------
(* Properties. *)

Ended(p) == pc[p] = "ended"
Forked == pc["child"] # "none"

\* When the process that the prover server started has ended, so has the
\* command, whether it ended alone, was killed at the wallclock limit, or ended
\* while it was about to be killed; and the process ends as the command did
\* (exit code or signal, SIGKILL once the wallclock limit expired).  Two cases
\* are lost: a status the kernel threw away because SIGCHLD is ignored, and
\* SIGALRM, which is caught.
EndsAsCommand ==
    Ended("parent") /\ Forked =>
        /\ Ended("child")
        /\ \/ end["parent"] = end["child"]
           \/ end["parent"] = Signaled("SIGTERM") /\ (opts.nochld \/ end["child"] = Signaled("SIGALRM"))

\* The command is killed only when the wallclock limit has expired, never
\* because waitpid failed for another reason while it still runs.
KilledOnlyLate ==
    [][end["child"] = Running /\ end'["child"] = Signaled("SIGKILL") => alarm = "expired"]_cpuVars

\* With a time limit, why3cpulimit always ends, even if the command uses no CPU
\* time and never ends by itself.
AlwaysEnds == opts.time ~> Ended("parent")
=============================================================================
