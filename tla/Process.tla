------------------------------ MODULE Process ------------------------------
(***************************************************************************)
(* run_command (process.cpp): karu runs a credential helper through the    *)
(* shell, reads what it prints through a pipe, and has to come back with   *)
(* the output, or without leaving anything behind, whatever the helper     *)
(* does.  The loop of run_command is one actor; the shell, the processes   *)
(* it starts and a process that another thread of the program starts at    *)
(* the same moment are the others, and nothing is assumed of them.         *)
(*                                                                         *)
(* POSIX and Windows take the same steps in the same order and differ in   *)
(* what a read takes and in what a kill reaches.                           *)
(***************************************************************************)
EXTENDS Naturals

CONSTANTS
    Platforms,    \* "posix", "windows"
    OutputLimit,  \* output_limit, in units of output
    Buffer,       \* what one read takes at most (4096 bytes)
    Capacity      \* what a pipe holds

ASSUME ProcessAssumption ==
    /\ Platforms \subseteq {"posix", "windows"}
    /\ OutputLimit \in Nat
    /\ Buffer \in Nat \ {0}
    /\ Capacity \in Nat \ {0}

\* The shell that run_command starts; a process of the shell's group; a process
\* that has left the group for a session of its own; and a process that
\* another thread of the program starts.
Shell == "shell"
Members == {Shell, "helper", "daemon", "other"}
Karu == "karu"

VARIABLES
    env,      \* platform, have_timeout, SIGCHLD ignored, process in a job
    at,       \* the next step of run_command
    proc,     \* state of each process
    writers,  \* processes with the write end of the pipe
    readEnd,  \* whether karu has the read end
    pipe,     \* output in the pipe
    output,   \* result.output
    closed,   \* pipe_closed
    finished, \* child_finished, process_finished
    late,     \* the deadline has passed
    code,     \* how the shell ended
    result    \* what run_command returns

vars == <<env, at, proc, writers, readEnd, pipe, output, closed, finished, late, code,
          result>>

Posix == env.platform = "posix"

Init ==
    /\ env \in [platform : Platforms, timeout : BOOLEAN, reaped : BOOLEAN, job : BOOLEAN]
    /\ Posix => ~env.job
    /\ ~Posix => ~env.reaped
    /\ at = "start"
    /\ proc = [p \in Members |-> "absent"]
    /\ writers = {}
    /\ readEnd = FALSE
    /\ pipe = 0
    /\ output = 0
    /\ closed = FALSE
    /\ finished = FALSE
    /\ late = FALSE
    /\ code = "none"
    /\ result = "none"

(***************************************************************************)
(* What a kill does.  A killed shell stays a zombie until it is waited     *)
(* for, unless SIGCHLD is ignored.                                         *)
(***************************************************************************)
Ended(p) == IF p = Shell /\ ~env.reaped THEN "zombie" ELSE "gone"

\* The group, the job, or the direct child when the job could not be assigned.
Reached ==
    IF Posix THEN {Shell, "helper"}
    ELSE IF env.job THEN {Shell, "helper", "daemon"}
    ELSE {Shell}

KillAll(S) ==
    LET hit == {p \in S : proc[p] = "running"}
    IN  /\ proc' = [p \in Members |-> IF p \in hit THEN Ended(p) ELSE proc[p]]
        /\ writers' = writers \ hit
        /\ code' = IF Shell \in hit THEN "killed" ELSE code

NoKill == UNCHANGED <<proc, writers, code>>

(***************************************************************************)
(* run_command                                                             *)
(***************************************************************************)
GoTo(l) == at' = l

Fail(l, r) == GoTo(l) /\ result' = r

OpenPipe ==
    /\ at = "start"
    /\ \/ /\ GoTo("spawn")
          /\ writers' = {Karu}
          /\ readEnd' = TRUE
          /\ UNCHANGED result
       \/ /\ Fail("returned", "error")
          /\ UNCHANGED <<writers, readEnd>>
    /\ UNCHANGED <<env, proc, pipe, output, closed, finished, late, code>>

\* setup_spawn or posix_spawn fails.
SpawnFails ==
    /\ at = "spawn"
    /\ Fail("close", "error")
    /\ writers' = writers \ {Karu}
    /\ UNCHANGED <<env, proc, readEnd, pipe, output, closed, finished, late, code>>

\* The shell is started in a group of its own (in a job, suspended); karu's copy
\* of the write end is closed; O_NONBLOCK (ResumeThread) may fail.
Spawn ==
    /\ at = "spawn"
    /\ proc' = [proc EXCEPT ![Shell] = "running"]
    /\ writers' = (writers \ {Karu}) \cup {Shell}
    /\ \/ GoTo("drain") /\ UNCHANGED result
       \/ Fail("terminate", "error")
    /\ UNCHANGED <<env, readEnd, pipe, output, closed, finished, late, code>>

\* POSIX reads until the pipe is empty, Windows what PeekNamedPipe announced.
Taken == IF Posix /\ pipe > Buffer THEN Buffer ELSE pipe

Room == OutputLimit - output

\* A loop that reads on regardless of output_limit.
ReadUnlimited ==
    /\ at = "drain" /\ ~closed
    /\ pipe > 0
    /\ pipe' = pipe - Taken
    /\ output' = output
    /\ GoTo(IF Posix THEN "drain" ELSE "reap")
    /\ NoKill
    /\ UNCHANGED <<env, readEnd, closed, finished, late, result>>

Read ==
    /\ at = "drain" /\ ~closed
    /\ pipe > 0
    /\ pipe' = pipe - Taken
    /\ IF Taken > Room
       THEN Fail("terminate", "limit") /\ UNCHANGED output
       ELSE /\ output' = output + Taken
            /\ GoTo(IF Posix THEN "drain" ELSE "reap")
            /\ UNCHANGED result
    /\ NoKill
    /\ UNCHANGED <<env, readEnd, closed, finished, late>>

\* End of file, nothing there (EAGAIN), or an error.
ReadEnds ==
    /\ at = "drain" /\ ~closed
    /\ \/ /\ pipe = 0
          /\ closed' = (writers = {})
          /\ GoTo("reap")
          /\ UNCHANGED result
       \/ Fail("terminate", "error") /\ UNCHANGED closed
    /\ NoKill
    /\ UNCHANGED <<env, readEnd, pipe, output, finished, late>>

DrainDone ==
    /\ at = "drain" /\ closed
    /\ GoTo("reap")
    /\ NoKill
    /\ UNCHANGED <<env, readEnd, pipe, output, closed, finished, late, result>>

\* waitpid(WNOHANG), WaitForSingleObject(0).
Reap ==
    /\ at = "reap"
    /\ proc[Shell] # "gone" \/ finished
    /\ finished' = (proc[Shell] # "running")
    /\ proc' = IF proc[Shell] = "zombie" /\ Posix
               THEN [proc EXCEPT ![Shell] = "gone"] ELSE proc
    /\ GoTo("check")
    /\ UNCHANGED <<env, writers, readEnd, pipe, output, closed, late, code, result>>

\* waitpid answers ECHILD: the program ignores SIGCHLD, so the shell has no
\* status to fetch.  The group is killed without a wait.
ReapFails ==
    /\ at = "reap"
    /\ proc[Shell] = "gone" /\ ~finished
    /\ Fail("close", "error")
    /\ KillAll(Reached)
    /\ UNCHANGED <<env, readEnd, pipe, output, closed, finished, late>>

\* A shell that has ended needs no cleanup.
TimeoutOfChildOnly ==
    /\ at = "check"
    /\ env.timeout /\ late
    /\ Fail(IF finished THEN "close" ELSE "terminate", "timed_out")
    /\ NoKill
    /\ UNCHANGED <<env, readEnd, pipe, output, closed, finished, late>>

\* The deadline comes before the condition of the loop.  When the shell
\* has been waited for, only its group is killed.
Timeout ==
    /\ at = "check"
    /\ env.timeout /\ late
    /\ IF Posix /\ finished
       THEN Fail("close", "timed_out") /\ KillAll(Reached)
       ELSE Fail("terminate", "timed_out") /\ NoKill
    /\ UNCHANGED <<env, readEnd, pipe, output, closed, finished, late>>

\* The shell's end is the end of the output.
CompleteAtExit == finished

Complete == closed /\ finished

Check ==
    /\ at = "check"
    /\ ~(env.timeout /\ late)
    /\ IF Complete THEN Fail("close", "done") ELSE GoTo("poll") /\ UNCHANGED result
    /\ NoKill
    /\ UNCHANGED <<env, readEnd, pipe, output, closed, finished, late>>

\* poll waits for at most 50 ms, Sleep for 10.
Poll ==
    /\ at = "poll"
    /\ GoTo("drain")
    /\ NoKill
    /\ UNCHANGED <<env, readEnd, pipe, output, closed, finished, late, result>>

terminate_process ==
    /\ at = "terminate"
    /\ KillAll(Reached)
    /\ GoTo("wait")
    /\ UNCHANGED <<env, readEnd, pipe, output, closed, finished, late, result>>

wait_for_child ==
    /\ at = "wait"
    /\ proc[Shell] # "running"
    /\ proc' = IF Posix THEN [proc EXCEPT ![Shell] = "gone"] ELSE proc
    /\ GoTo("close")
    /\ UNCHANGED <<env, writers, readEnd, pipe, output, closed, finished, late, code, result>>

\* On Windows the handles of the process and of the job are closed too, and
\* what is still in the job ends (JOB_OBJECT_LIMIT_KILL_ON_JOB_CLOSE).
Close ==
    /\ at = "close"
    /\ readEnd' = FALSE
    /\ GoTo("returned")
    /\ LET hit == {p \in Reached : env.job /\ proc[p] = "running"}
       IN  /\ writers' = writers \ hit
           /\ proc' = [p \in Members |->
                  IF p \in hit \/ (p = Shell /\ proc[p] = "zombie" /\ ~Posix)
                  THEN "gone" ELSE proc[p]]
    /\ UNCHANGED <<env, pipe, output, closed, finished, late, code, result>>

run_command ==
    \/ OpenPipe \/ SpawnFails \/ Spawn
    \/ Read \/ ReadEnds \/ DrainDone
    \/ Reap \/ ReapFails
    \/ Timeout \/ Check \/ Poll
    \/ terminate_process \/ wait_for_child \/ Close

(***************************************************************************)
(* The other processes and the clock                                       *)
(***************************************************************************)
Unmoved == UNCHANGED <<env, at, readEnd, output, closed, finished, result>>

\* A process of the command starts another one, which inherits its stdout.
ForkHelper(p, q) ==
    /\ proc[p] = "running" /\ proc[q] = "absent"
    /\ proc' = [proc EXCEPT ![q] = "running"]
    /\ writers' = writers \cup {r \in {q} : p \in writers}
    /\ UNCHANGED <<pipe, late, code>>
    /\ Unmoved

\* The pipe is not close-on-exec: what another thread starts before karu has
\* closed its write end inherits that end.
Inherit ==
    /\ Karu \in writers /\ proc["other"] = "absent"
    /\ proc' = [proc EXCEPT !["other"] = "running"]
    /\ writers' = writers \cup {"other"}
    /\ UNCHANGED <<pipe, late, code>>
    /\ Unmoved

Write(p) ==
    /\ p \in writers /\ proc[p] = "running"
    /\ p # "other"
    /\ pipe < Capacity
    /\ pipe' = pipe + 1
    /\ UNCHANGED <<proc, writers, late, code>>
    /\ Unmoved

CloseOutput(p) ==
    /\ p \in writers /\ proc[p] = "running"
    /\ writers' = writers \ {p}
    /\ UNCHANGED <<proc, pipe, late, code>>
    /\ Unmoved

Exit(p) ==
    /\ proc[p] = "running"
    /\ proc' = [proc EXCEPT ![p] = Ended(p)]
    /\ writers' = writers \ {p}
    /\ code' \in IF p = Shell THEN {"zero", "nonzero"} ELSE {code}
    /\ UNCHANGED <<pipe, late>>
    /\ Unmoved

Deadline ==
    /\ at # "start" /\ ~late
    /\ late' = TRUE
    /\ UNCHANGED <<proc, writers, pipe, code>>
    /\ Unmoved

Others ==
    \/ \E p \in {Shell, "helper"}, q \in {"helper", "daemon"} : ForkHelper(p, q)
    \/ Inherit
    \/ \E p \in Members : Write(p) \/ CloseOutput(p) \/ Exit(p)
    \/ Deadline

Next == run_command \/ Others

Spec == Init /\ [][Next]_vars

\* karu's thread runs and time passes; the helper need do nothing.
Fairness == WF_vars(run_command) /\ WF_vars(Deadline)

FairSpec == Spec /\ Fairness

(***************************************************************************)
(* Properties                                                              *)
(***************************************************************************)
Returned == at = "returned"

\* run_credential_process (aws_profile.cpp): the one outcome whose output is used.
Accepted == result = "done" /\ code = "zero"

\* Output that is used as credentials is all the helper and its descendants
\* printed, from a shell that ended by itself with status 0: no process
\* has the pipe any more and nothing is left in it.
AcceptedIsComplete ==
    Returned /\ Accepted => pipe = 0 /\ writers = {} /\ proc[Shell] = "gone"

\* A call that fails, exceeds its limit or times out leaves nothing: no
\* process of the group (of the job), no zombie and no descriptor, also when the
\* shell has ended before its descendants.
NothingLeftBehind ==
    Returned => /\ ~readEnd /\ Karu \notin writers
                /\ proc[Shell] \in {"absent", "gone"}
                /\ result # "done" => \A p \in Reached : proc[p] # "running"

\* With a timeout, run_command returns: however the helper and its
\* descendants print, hang, close or keep the pipe, and also when a foreign
\* process has inherited the pipe.  (Nothing happens in run_command after its
\* return: there is always a later moment at which it has returned.)
CommandReturns == []<>(env.timeout => Returned)
=============================================================================
