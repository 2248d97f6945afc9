----------------------------- MODULE CpuLimitWin ----------------------------
(***************************************************************************)
(* why3cpulimit on Windows (cpulimit-win.c): main puts the limits on a job *)
(* object, creates the command suspended, assigns it to the job, resumes   *)
(* it, waits for it and returns its exit code.  ConsoleHandler runs in a   *)
(* thread of its own, at any point of main: it kills the command and       *)
(* closes the same handles, one call after the other, with steps of main   *)
(* in between.  A second event waits until the first one is handled.       *)
(*                                                                         *)
(* wpc is where main stands and hpc where the handler does, cmd the state  *)
(* of the command; handles are the open ones of pi.hProcess, pi.hThread    *)
(* and ghJob; ex is the variable main returns.  A call on a handle that is *)
(* not open fails and stores nothing.                                      *)
(***************************************************************************)
EXTENDS Naturals

CONSTANTS WinCodes,    \* exit codes of commands
          Garbled      \* the value of an uninitialised unsigned

Failure == 1           \* EXIT_FAILURE
Killed == 10           \* the exit code terminates gives
LimitHit == 11         \* the exit code of a command that the job ends

VARIABLES wopts, wpc, cmd, code, job, handles, hpc, ex, console

winCpuVars == <<wopts, wpc, cmd, code, job, handles, hpc, ex, console>>

WinCpuInit ==
    /\ wopts \in [usage : BOOLEAN, time : BOOLEAN, mem : BOOLEAN]
    /\ wpc = "main"
    /\ cmd = "none"                  \* then suspended, running, over
    /\ code = Garbled                \* its exit code once it is over
    /\ job = {}                      \* the limits of the job, "assigned" once the command is in it
    /\ handles = {"job"}
    /\ ex = Garbled
    /\ hpc = "idle"                  \* else the next thing terminates does: kill, or close a handle
    /\ console = FALSE               \* whether there was a console event

WReturn(n) == wpc' = "returned" /\ ex' = n

\* usage, a command line that is too long, or no memory for it.
BadArguments == /\ wpc = "main" /\ wopts.usage
                /\ WReturn(Failure)
                /\ UNCHANGED <<wopts, cmd, code, job, handles, hpc, console>>

JobLimits == {l \in {"cpu", "mem"} : IF l = "cpu" THEN wopts.time ELSE wopts.mem}

SetJobLimits ==
    /\ wpc = "main" /\ ~wopts.usage
    /\ \/ /\ JobLimits = {} \/ "job" \in handles
          /\ job' = JobLimits /\ wpc' = "create" /\ UNCHANGED ex
       \/ JobLimits # {} /\ WReturn(Failure) /\ UNCHANGED job
    /\ UNCHANGED <<wopts, cmd, code, handles, hpc, console>>

\* mutant: without CREATE_SUSPENDED
MutCreateSuspended ==
    /\ wpc = "create"
    /\ \/ /\ cmd' = "running" /\ handles' = handles \cup {"process", "thread"}
          /\ wpc' = "assign" /\ UNCHANGED ex
       \/ WReturn(Failure) /\ UNCHANGED <<cmd, handles>>
    /\ UNCHANGED <<wopts, code, job, hpc, console>>

CreateSuspended ==
    /\ wpc = "create"
    /\ \/ /\ cmd' = "suspended" /\ handles' = handles \cup {"process", "thread"}
          /\ wpc' = "assign" /\ UNCHANGED ex
       \/ WReturn(Failure) /\ UNCHANGED <<cmd, handles>>
    /\ UNCHANGED <<wopts, code, job, hpc, console>>

Assign == /\ wpc = "assign"
          /\ \/ /\ {"job", "process"} \subseteq handles
                /\ job' = job \cup {"assigned"} /\ wpc' = "resume" /\ UNCHANGED ex
             \/ WReturn(Failure) /\ UNCHANGED job
          /\ UNCHANGED <<wopts, cmd, code, handles, hpc, console>>

Resume == /\ wpc = "resume"
          /\ cmd' = IF cmd = "suspended" /\ "thread" \in handles THEN "running" ELSE cmd
          /\ wpc' = "wait"
          /\ UNCHANGED <<wopts, code, job, handles, ex, hpc, console>>

\* The command ends, by itself or because the job ends it.
CommandEnds ==
    /\ cmd = "running" /\ cmd' = "over"
    /\ code' \in WinCodes \cup IF job \cap {"cpu", "mem"} = {} THEN {} ELSE {LimitHit}
    /\ UNCHANGED <<wopts, wpc, job, handles, ex, hpc, console>>

\* WaitForSingleObject fails on a handle that is closed when it is called.
WaitObject == /\ wpc = "wait"
              /\ wpc' = IF "process" \in handles THEN "waiting" ELSE "exitcode"
              /\ UNCHANGED <<wopts, cmd, code, job, handles, ex, hpc, console>>

\* mutant: the wait ends while the command runs
MutWaitEnds == /\ wpc = "waiting"
               /\ wpc' = "exitcode"
               /\ UNCHANGED <<wopts, cmd, code, job, handles, ex, hpc, console>>

\* It returns when the command is over.
WaitEnds == /\ wpc = "waiting" /\ cmd = "over"
            /\ wpc' = "exitcode"
            /\ UNCHANGED <<wopts, cmd, code, job, handles, ex, hpc, console>>

\* What it does when its handle is closed meanwhile is undefined: it may fail,
\* or wait on.
WaitAborted == /\ wpc = "waiting" /\ "process" \notin handles
               /\ wpc' = "exitcode"
               /\ UNCHANGED <<wopts, cmd, code, job, handles, ex, hpc, console>>

GetExitCode == /\ wpc = "exitcode"
               /\ ex' = IF "process" \in handles THEN code ELSE ex
               /\ wpc' = "close"
               /\ UNCHANGED <<wopts, cmd, code, job, handles, hpc, console>>

CloseAll == /\ wpc = "close"
            /\ handles' = {}
            /\ wpc' = "returned"
            /\ UNCHANGED <<wopts, cmd, code, job, ex, hpc, console>>

ConsoleHandler ==
    /\ wpc # "returned" /\ hpc = "idle"
    /\ console' = TRUE
    /\ hpc' = "kill"
    /\ UNCHANGED <<wopts, wpc, cmd, code, job, handles, ex>>

\* mutant: terminates closes the handles and kills nothing
MutTerminateCommand ==
    /\ wpc # "returned" /\ hpc = "kill"
    /\ hpc' = "process"
    /\ UNCHANGED <<wopts, wpc, cmd, code, job, handles, ex, console>>

TerminateCommand ==
    /\ wpc # "returned" /\ hpc = "kill"
    /\ IF "process" \in handles /\ cmd \in {"suspended", "running"}
       THEN cmd' = "over" /\ code' = Killed ELSE UNCHANGED <<cmd, code>>
    /\ hpc' = "process"
    /\ UNCHANGED <<wopts, wpc, job, handles, ex, console>>

CloseHandle ==
    /\ wpc # "returned" /\ hpc \in {"process", "thread", "job"}
    /\ handles' = handles \ {hpc}
    /\ hpc' = CASE hpc = "process" -> "thread" [] hpc = "thread" -> "job" [] hpc = "job" -> "idle"
    /\ UNCHANGED <<wopts, wpc, cmd, code, job, ex, console>>

WinCpuMain == BadArguments \/ SetJobLimits \/ CreateSuspended \/ Assign \/ Resume \/ WaitObject
              \/ WaitEnds \/ GetExitCode \/ CloseAll
WinCpuHandler == TerminateCommand \/ CloseHandle
WinCpuNext == WinCpuMain \/ WaitAborted \/ CommandEnds \/ ConsoleHandler \/ WinCpuHandler

\* Both threads run; neither the command nor the console need do anything, and
\* a wait whose handle is closed need not fail.
WinCpuFairness == WF_winCpuVars(WinCpuMain) /\ WF_winCpuVars(WinCpuHandler)

WinCpuSpec == WinCpuInit /\ [][WinCpuNext]_winCpuVars /\ WinCpuFairness

-----------------------------------------------------------------------------
(* Properties. *)

\* The command executes no instruction outside the job, nor before the job has
\* every limit that was asked for.
RunsInJob == cmd = "running" => {"assigned"} \cup JobLimits \subseteq job

\* Unless the console interrupted it, main returns the exit code of a command
\* that is over, or EXIT_FAILURE and the command never ran.
ReturnsExitCode ==
    wpc = "returned" /\ ~console => IF cmd = "over" THEN ex = code ELSE ex = Failure /\ cmd # "running"

\* When terminates is about to kill, the command exists.
KillFindsCommand == hpc = "kill" /\ "process" \in handles
\* terminates has closed the job before main has put the command into it.
JobClosedEarly == wpc \in {"main", "create", "assign"} /\ "job" \notin handles

\* A console event ends main if terminates finds the command created when it
\* kills, or has closed the job before main has put the command into it, which
\* then fails.  (An event can still miss: main creates the command after the
\* call of TerminateProcess and assigns it before ghJob is closed, and then
\* waits for a command that nobody kills.)
ConsoleEnds == KillFindsCommand \/ JobClosedEarly ~> wpc = "returned"
=============================================================================
