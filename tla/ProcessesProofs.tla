-------------------------- MODULE ProcessesProofs --------------------------
(***************************************************************************)
(* Proofs about what karu does with processes: run_command against         *)
(* whatever a helper and its descendants do, and a client against fork.    *)
(***************************************************************************)
EXTENDS Process, Client, FiniteSetTheorems, TLAPS

CommandTypeOK ==
    /\ env \in [platform : Platforms, timeout : BOOLEAN, reaped : BOOLEAN, job : BOOLEAN]
    /\ at \in {"start", "spawn", "drain", "reap", "check", "poll", "terminate",
               "wait", "close", "returned"}
    /\ proc \in [Members -> {"absent", "running", "zombie", "gone"}]
    /\ writers \in SUBSET (Members \cup {Karu})
    /\ pipe \in Nat
    /\ closed \in BOOLEAN /\ finished \in BOOLEAN /\ readEnd \in BOOLEAN

\* Before the shell is started no process of the command exists; afterwards it
\* exists until it is waited for.
ShellAgrees ==
    /\ at \in {"start", "spawn"} =>
         /\ \A p \in Members \ {"other"} : proc[p] = "absent"
         /\ ~finished /\ ~closed /\ result = "none"
    /\ at \in {"drain", "reap", "check", "poll", "terminate", "wait"} =>
         proc[Shell] # "absent"
    /\ finished => proc[Shell] \in {"zombie", "gone"} /\ (Posix => proc[Shell] = "gone")

\* The end of the output is final, and karu closes its ends.
PipeAgrees ==
    /\ Karu \in writers => at = "spawn"
    /\ at \in {"start", "returned"} => ~readEnd
    /\ closed => writers = {} /\ pipe = 0

\* A failure ends what a kill reaches before it is returned, and nothing can
\* start it again; success is the end of the output and of the shell.
OutcomeAgrees ==
    /\ at \in {"drain", "reap", "check", "poll"} => result = "none"
    /\ result = "done" => at \in {"close", "returned"} /\ closed /\ finished
    /\ at \in {"wait", "close", "returned"} /\ result # "done" =>
         \A p \in Reached : proc[p] # "running"
    /\ at \in {"close", "returned"} =>
         /\ proc[Shell] # "running"
         /\ Posix \/ at = "returned" => proc[Shell] \in {"absent", "gone"}

CommandInv == CommandTypeOK /\ ShellAgrees /\ PipeAgrees /\ OutcomeAgrees
-----------------------------------------------------------------------------
(***************************************************************************)
(* run_command                                                             *)
(***************************************************************************)

\* The environment of a call does not change, so neither does what a kill reaches.
LEMMA SameReach ==
  ASSUME UNCHANGED env
  PROVE  (Posix <=> Posix') /\ Reached' = Reached /\ Reached \subseteq Members
         /\ Shell \in Reached /\ Shell \in Members
BY DEF Posix, Reached, Members, Shell

LEMMA Killed ==
  ASSUME CommandTypeOK, KillAll(Reached), UNCHANGED env
  PROVE  /\ proc' \in [Members -> {"absent", "running", "zombie", "gone"}]
         /\ \A q \in Reached : proc'[q] # "running"
         /\ \A q \in Members : \/ proc'[q] = proc[q]
                               \/ proc[q] = "running" /\ proc'[q] \in {"zombie", "gone"}
         /\ writers' \subseteq writers
<1>1. \A q \in Members : Ended(q) \in {"zombie", "gone"}
  BY DEF Ended
<1>2. /\ proc' = [q \in Members |->
            IF q \in Reached /\ proc[q] = "running" THEN Ended(q) ELSE proc[q]]
      /\ writers' \subseteq writers
  BY SameReach DEF KillAll
<1> QED
  BY <1>1, <1>2, SameReach DEF CommandTypeOK

\* Up to the start of the shell.
LEMMA CommandStarts ==
  ASSUME CommandInv, OpenPipe \/ SpawnFails \/ Spawn
  PROVE  CommandInv'
<1> USE DEF GoTo, Fail
<1>0. UNCHANGED env /\ CommandTypeOK /\ ShellAgrees /\ PipeAgrees /\ OutcomeAgrees
  BY DEF OpenPipe, SpawnFails, Spawn, CommandInv
<1>1. /\ Posix <=> Posix'
      /\ Reached' = Reached /\ Reached \subseteq Members \ {"other"}
      /\ Shell \in Reached /\ Shell \in Members
  BY <1>0, SameReach DEF Reached, Members, Shell
<1>2. CASE OpenPipe
  <2>1. CommandTypeOK'
    BY <1>0, <1>2 DEF OpenPipe, CommandTypeOK
  <2>2. ShellAgrees'
    BY <1>0, <1>1, <1>2 DEF OpenPipe, ShellAgrees
  <2>3. PipeAgrees'
    BY <1>0, <1>2 DEF OpenPipe, PipeAgrees, ShellAgrees, Karu
  <2>4. OutcomeAgrees'
    BY <1>0, <1>1, <1>2 DEF OpenPipe, OutcomeAgrees, ShellAgrees
  <2> QED
    BY <2>1, <2>2, <2>3, <2>4 DEF CommandInv
<1>3. CASE SpawnFails
  <2>1. CommandTypeOK'
    BY <1>0, <1>3 DEF SpawnFails, CommandTypeOK
  <2>2. ShellAgrees'
    BY <1>0, <1>1, <1>3 DEF SpawnFails, ShellAgrees
  <2>3. PipeAgrees'
    BY <1>0, <1>3 DEF SpawnFails, PipeAgrees, ShellAgrees
  <2>4. OutcomeAgrees'
    BY <1>0, <1>1, <1>3 DEF SpawnFails, OutcomeAgrees, ShellAgrees
  <2> QED
    BY <2>1, <2>2, <2>3, <2>4 DEF CommandInv
<1>4. CASE Spawn
  <2>1. CommandTypeOK'
    BY <1>0, <1>1, <1>4 DEF Spawn, CommandTypeOK
  <2>2. ShellAgrees'
    BY <1>0, <1>1, <1>4 DEF Spawn, ShellAgrees, CommandTypeOK
  <2>3. PipeAgrees'
    BY <1>0, <1>4 DEF Spawn, PipeAgrees, ShellAgrees, Karu, Shell
  <2>4. OutcomeAgrees'
    BY <1>0, <1>1, <1>4 DEF Spawn, OutcomeAgrees, ShellAgrees
  <2> QED
    BY <2>1, <2>2, <2>3, <2>4 DEF CommandInv
<1> QED
  BY <1>2, <1>3, <1>4

\* The loop as long as it kills nobody.
LEMMA CommandLoops ==
  ASSUME CommandInv, Read \/ ReadEnds \/ DrainDone \/ Reap \/ Check \/ Poll
  PROVE  CommandInv'
<1> USE DEF GoTo, Fail, NoKill
<1>0. UNCHANGED env /\ CommandTypeOK /\ ShellAgrees /\ PipeAgrees /\ OutcomeAgrees
  BY DEF Read, ReadEnds, DrainDone, Reap, Check, Poll, CommandInv
<1>1. /\ Posix <=> Posix'
      /\ Reached' = Reached /\ Reached \subseteq Members
      /\ Shell \in Reached /\ Shell \in Members
  BY <1>0, SameReach
<1>2. CASE Read
  <2>1. pipe' \in Nat
    BY <1>0, <1>2, ProcessAssumption DEF Read, Taken, CommandTypeOK
  <2>2. /\ at = "drain" /\ ~closed
        /\ \/ at' \in {"drain", "reap"} /\ UNCHANGED result
           \/ at' = "terminate" /\ result' = "limit"
        /\ UNCHANGED <<proc, writers, readEnd, closed, finished>>
    BY <1>2 DEF Read
  <2>3. CommandTypeOK'
    BY <1>0, <2>1, <2>2 DEF CommandTypeOK
  <2> QED
    BY <1>0, <1>1, <2>2, <2>3 DEF CommandInv, ShellAgrees, PipeAgrees, OutcomeAgrees
<1>3. CASE ReadEnds
  <2>1. /\ at = "drain" /\ ~closed
        /\ \/ /\ pipe = 0 /\ closed' = (writers = {})
              /\ at' = "reap" /\ UNCHANGED result
           \/ at' = "terminate" /\ result' = "error" /\ UNCHANGED closed
        /\ UNCHANGED <<proc, writers, readEnd, pipe, finished>>
    BY <1>3 DEF ReadEnds
  <2>2. closed' \in BOOLEAN /\ (closed' => writers' = {} /\ pipe' = 0)
    <3>1. CASE pipe = 0 /\ closed' = (writers = {})
      <4>1. writers' = writers /\ pipe' = 0
        BY <2>1, <3>1
      <4> QED
        BY <3>1, <4>1, Zenon
    <3>2. CASE UNCHANGED closed
      BY <1>0, <2>1, <3>2 DEF CommandTypeOK
    <3> QED
      BY <2>1, <3>1, <3>2
  <2>3. CommandTypeOK' /\ PipeAgrees'
    BY <1>0, <2>1, <2>2 DEF CommandTypeOK, PipeAgrees
  <2>4. ShellAgrees'
    BY <1>0, <1>1, <2>1 DEF ShellAgrees
  <2>5. OutcomeAgrees'
    BY <1>0, <1>1, <2>1 DEF OutcomeAgrees
  <2> QED
    BY <2>3, <2>4, <2>5 DEF CommandInv
<1>4. CASE DrainDone \/ Poll
  <2>1. /\ at \in {"drain", "poll"} /\ at' \in {"reap", "drain"}
        /\ UNCHANGED <<proc, writers, readEnd, pipe, closed, finished, result>>
    BY <1>4 DEF DrainDone, Poll
  <2> QED
    BY <1>0, <1>1, <2>1 DEF CommandInv, CommandTypeOK, ShellAgrees, PipeAgrees,
                            OutcomeAgrees
<1>5. CASE Reap
  <2>1. /\ at = "reap" /\ at' = "check"
        /\ finished' = (proc[Shell] # "running")
        /\ proc' = IF proc[Shell] = "zombie" /\ Posix
                   THEN [proc EXCEPT ![Shell] = "gone"] ELSE proc
        /\ UNCHANGED <<writers, readEnd, pipe, closed, result>>
    BY <1>5 DEF Reap
  <2>2. /\ proc' \in [Members -> {"absent", "running", "zombie", "gone"}]
        /\ proc'[Shell] = IF proc[Shell] = "zombie" /\ Posix THEN "gone" ELSE proc[Shell]
    BY <1>0, <1>1, <2>1 DEF CommandTypeOK
  <2>3. CommandTypeOK'
    BY <1>0, <2>1, <2>2 DEF CommandTypeOK
  <2>4. ShellAgrees'
    BY <1>0, <1>1, <2>1, <2>2 DEF ShellAgrees, CommandTypeOK
  <2>5. PipeAgrees' /\ OutcomeAgrees'
    BY <1>0, <1>1, <2>1, <2>2 DEF PipeAgrees, OutcomeAgrees
  <2> QED
    BY <2>3, <2>4, <2>5 DEF CommandInv
<1>6. CASE Check
  <2>1. /\ at = "check"
        /\ \/ closed /\ finished /\ at' = "close" /\ result' = "done"
           \/ at' = "poll" /\ UNCHANGED result
        /\ UNCHANGED <<proc, writers, readEnd, pipe, closed, finished>>
    BY <1>6 DEF Check, Complete
  <2> QED
    BY <1>0, <1>1, <2>1 DEF CommandInv, CommandTypeOK, ShellAgrees, PipeAgrees,
                            OutcomeAgrees
<1> QED
  BY <1>2, <1>3, <1>4, <1>5, <1>6

\* The ways out.
LEMMA CommandEnds ==
  ASSUME CommandInv, ReapFails \/ Timeout \/ terminate_process \/ wait_for_child \/ Close
  PROVE  CommandInv'
<1> USE DEF GoTo, Fail, NoKill
<1>0. UNCHANGED env /\ CommandTypeOK /\ ShellAgrees /\ PipeAgrees /\ OutcomeAgrees
  BY DEF ReapFails, Timeout, terminate_process, wait_for_child, Close, CommandInv
<1>1. /\ Posix <=> Posix'
      /\ Reached' = Reached /\ Reached \subseteq Members
      /\ Shell \in Reached /\ Shell \in Members
  BY <1>0, SameReach
<1>2. ASSUME KillAll(Reached), UNCHANGED <<readEnd, pipe, closed, finished>>,
             \/ /\ at \in {"reap", "check"} /\ at' = "close"
                /\ result' \in {"error", "timed_out"} /\ proc[Shell] = "gone"
             \/ at = "terminate" /\ at' = "wait" /\ UNCHANGED result
      PROVE  CommandInv'
  <2>1. /\ proc' \in [Members -> {"absent", "running", "zombie", "gone"}]
        /\ \A q \in Reached : proc'[q] # "running"
        /\ \A q \in Members : \/ proc'[q] = proc[q]
                              \/ proc[q] = "running" /\ proc'[q] \in {"zombie", "gone"}
        /\ writers' \subseteq writers
    BY <1>0, <1>2, Killed
  <2>2. CommandTypeOK'
    BY <1>0, <1>2, <2>1 DEF CommandTypeOK
  <2>3. ShellAgrees'
    BY <1>0, <1>1, <1>2, <2>1 DEF ShellAgrees
  <2>4. PipeAgrees'
    BY <1>0, <1>2, <2>1 DEF PipeAgrees
  <2>5. OutcomeAgrees'
    BY <1>0, <1>1, <1>2, <2>1 DEF OutcomeAgrees
  <2> QED
    BY <2>2, <2>3, <2>4, <2>5 DEF CommandInv
<1>3. CASE ReapFails
  BY <1>2, <1>3 DEF ReapFails
<1>4. CASE terminate_process
  BY <1>2, <1>4 DEF terminate_process
<1>5. CASE Timeout
  <2>1. CASE Posix /\ finished
    <3>1. proc[Shell] = "gone"
      BY <1>0, <2>1 DEF ShellAgrees
    <3> QED
      BY <1>2, <1>5, <2>1, <3>1 DEF Timeout
  <2>2. CASE ~(Posix /\ finished)
    <3>1. /\ at = "check" /\ at' = "terminate" /\ result' = "timed_out"
          /\ UNCHANGED <<proc, writers, readEnd, pipe, closed, finished>>
      BY <1>5, <2>2 DEF Timeout
    <3> QED
      BY <1>0, <1>1, <3>1 DEF CommandInv, CommandTypeOK, ShellAgrees, PipeAgrees,
                              OutcomeAgrees
  <2> QED
    BY <2>1, <2>2
<1>6. CASE wait_for_child
  <2>1. /\ at = "wait" /\ at' = "close" /\ proc[Shell] # "running"
        /\ proc' = IF Posix THEN [proc EXCEPT ![Shell] = "gone"] ELSE proc
        /\ UNCHANGED <<writers, readEnd, pipe, closed, finished, result>>
    BY <1>6 DEF wait_for_child
  <2>2. /\ proc' \in [Members -> {"absent", "running", "zombie", "gone"}]
        /\ \A q \in Members : proc'[q] = IF q = Shell /\ Posix THEN "gone" ELSE proc[q]
    BY <1>0, <1>1, <2>1 DEF CommandTypeOK
  <2>3. CommandTypeOK' /\ PipeAgrees'
    BY <1>0, <2>1, <2>2 DEF CommandTypeOK, PipeAgrees
  <2>4. ShellAgrees'
    BY <1>0, <1>1, <2>1, <2>2 DEF ShellAgrees
  <2>5. OutcomeAgrees'
    BY <1>0, <1>1, <2>1, <2>2 DEF OutcomeAgrees
  <2> QED
    BY <2>3, <2>4, <2>5 DEF CommandInv
<1>7. CASE Close
  <2> DEFINE hit == {q \in Reached : env.job /\ proc[q] = "running"}
  <2>1. /\ at = "close" /\ at' = "returned" /\ readEnd' = FALSE
        /\ writers' = writers \ hit
        /\ proc' = [q \in Members |->
              IF q \in hit \/ (q = Shell /\ proc[q] = "zombie" /\ ~Posix)
              THEN "gone" ELSE proc[q]]
        /\ UNCHANGED <<pipe, closed, finished, result>>
    BY <1>7 DEF Close
  <2>2. \A q \in Members : proc'[q] \in {"gone", proc[q]}
    BY <2>1
  <2>3. CommandTypeOK'
    BY <1>0, <2>1 DEF CommandTypeOK
  <2>4. proc'[Shell] \in {"absent", "gone"}
    <3>1. proc[Shell] \in {"absent", "zombie", "gone"} /\ (Posix => proc[Shell] # "zombie")
      BY <1>0, <1>1, <2>1 DEF OutcomeAgrees, CommandTypeOK
    <3> QED
      BY <1>1, <2>1, <3>1
  <2>5. ShellAgrees'
    BY <1>0, <1>1, <2>1, <2>2, <2>4 DEF ShellAgrees
  <2>6. PipeAgrees'
    BY <1>0, <2>1 DEF PipeAgrees
  <2>7. OutcomeAgrees'
    BY <1>0, <1>1, <2>1, <2>2, <2>4 DEF OutcomeAgrees
  <2> QED
    BY <2>3, <2>5, <2>6, <2>7 DEF CommandInv
<1> QED
  BY <1>3, <1>4, <1>5, <1>6, <1>7

\* Whatever the other processes do.
LEMMA CommandOthers ==
  ASSUME CommandInv, Others \/ UNCHANGED vars
  PROVE  CommandInv'
<1> USE DEF Unmoved
<1>0. CommandTypeOK /\ ShellAgrees /\ PipeAgrees /\ OutcomeAgrees
  BY DEF CommandInv
<1>1. UNCHANGED <<env, at, readEnd, closed, finished, result>>
  BY DEF Others, ForkHelper, Inherit, Write, CloseOutput, Exit, Deadline, vars
<1>2. /\ Posix <=> Posix'
      /\ Reached' = Reached /\ Reached \subseteq Members
      /\ Shell \in Reached /\ Shell \in Members /\ "other" \notin Reached
  BY <1>1, SameReach DEF Reached, Members, Shell
<1>3. ASSUME NEW q \in {Shell, "helper"}, NEW r \in {"helper", "daemon"},
             ForkHelper(q, r)
      PROVE  CommandInv'
  <2>1. /\ proc[q] = "running" /\ proc[r] = "absent" /\ r # Shell
        /\ proc' = [proc EXCEPT ![r] = "running"]
        /\ writers' \subseteq writers \cup {r}
        /\ (writers = {} => writers' = {}) /\ (Karu \notin writers => Karu \notin writers')
        /\ UNCHANGED pipe
    BY <1>3 DEF ForkHelper, Shell, Karu
  <2>2. q \in Members /\ r \in Members /\ q # "other"
    BY DEF Members, Shell
  <2>3. CommandTypeOK'
    BY <1>0, <1>1, <2>1, <2>2 DEF CommandTypeOK
  <2>4. \A p \in Members : proc'[p] = IF p = r THEN "running" ELSE proc[p]
    BY <1>0, <2>1, <2>2 DEF CommandTypeOK
  <2>5. ShellAgrees'
    BY <1>0, <1>1, <1>2, <2>1, <2>2, <2>4 DEF ShellAgrees
  <2>6. PipeAgrees'
    BY <1>0, <1>1, <2>1 DEF PipeAgrees
  <2>7. r \in Reached => q \in Reached
    BY DEF Reached, Shell
  <2>8. OutcomeAgrees'
    BY <1>0, <1>1, <1>2, <2>1, <2>4, <2>7 DEF OutcomeAgrees
  <2> QED
    BY <2>3, <2>5, <2>6, <2>8 DEF CommandInv
<1>4. CASE Inherit
  <2>1. /\ Karu \in writers /\ proc["other"] = "absent"
        /\ proc' = [proc EXCEPT !["other"] = "running"]
        /\ writers' = writers \cup {"other"} /\ UNCHANGED pipe
    BY <1>4 DEF Inherit
  <2>2. "other" \in Members /\ "other" # Shell /\ Karu # "other"
    BY DEF Members, Shell, Karu
  <2>3. \A p \in Members : proc'[p] = IF p = "other" THEN "running" ELSE proc[p]
    BY <1>0, <2>1 DEF CommandTypeOK
  <2>4. CommandTypeOK'
    BY <1>0, <1>1, <2>1, <2>2 DEF CommandTypeOK
  <2>5. ShellAgrees' /\ PipeAgrees'
    BY <1>0, <1>1, <1>2, <2>1, <2>2, <2>3 DEF ShellAgrees, PipeAgrees
  <2>6. OutcomeAgrees'
    BY <1>0, <1>1, <1>2, <2>2, <2>3 DEF OutcomeAgrees
  <2> QED
    BY <2>4, <2>5, <2>6 DEF CommandInv
<1>5. ASSUME NEW p \in Members, Write(p)
      PROVE  CommandInv'
  <2>1. p \in writers /\ pipe' = pipe + 1 /\ UNCHANGED <<proc, writers>>
    BY <1>5 DEF Write
  <2> QED
    BY <1>0, <1>1, <1>2, <2>1
       DEF CommandInv, CommandTypeOK, ShellAgrees, PipeAgrees, OutcomeAgrees
<1>6. ASSUME NEW p \in Members, CloseOutput(p)
      PROVE  CommandInv'
  <2>1. writers' = writers \ {p} /\ UNCHANGED <<proc, pipe>>
    BY <1>6 DEF CloseOutput
  <2> QED
    BY <1>0, <1>1, <1>2, <2>1
       DEF CommandInv, CommandTypeOK, ShellAgrees, PipeAgrees, OutcomeAgrees
<1>7. ASSUME NEW p \in Members, Exit(p)
      PROVE  CommandInv'
  <2>1. /\ proc[p] = "running" /\ proc' = [proc EXCEPT ![p] = Ended(p)]
        /\ writers' = writers \ {p} /\ UNCHANGED pipe
        /\ Ended(p) \in {"zombie", "gone"}
    BY <1>7 DEF Exit, Ended
  <2>2. \A q \in Members : proc'[q] = IF q = p THEN Ended(p) ELSE proc[q]
    BY <1>0, <2>1 DEF CommandTypeOK
  <2>3. CommandTypeOK' /\ PipeAgrees'
    BY <1>0, <1>1, <2>1 DEF CommandTypeOK, PipeAgrees
  <2>4. ShellAgrees'
    BY <1>0, <1>1, <1>2, <2>1, <2>2 DEF ShellAgrees
  <2>5. OutcomeAgrees'
    BY <1>0, <1>1, <1>2, <2>1, <2>2 DEF OutcomeAgrees
  <2> QED
    BY <2>3, <2>4, <2>5 DEF CommandInv
<1>8. CASE Deadline \/ UNCHANGED vars
  <2>1. UNCHANGED <<proc, writers, pipe>>
    BY <1>8 DEF Deadline, vars
  <2> QED
    BY <1>0, <1>1, <1>2, <2>1
       DEF CommandInv, CommandTypeOK, ShellAgrees, PipeAgrees, OutcomeAgrees
<1> QED
  BY <1>3, <1>4, <1>5, <1>6, <1>7, <1>8 DEF Others

LEMMA CommandInvAlways == Spec => []CommandInv
<1>1. Init => CommandInv
  <2> SUFFICES ASSUME Init PROVE CommandInv
    OBVIOUS
  <2>1. CommandTypeOK
    BY DEF Init, CommandTypeOK
  <2>2. ShellAgrees /\ PipeAgrees /\ OutcomeAgrees
    BY DEF Init, ShellAgrees, PipeAgrees, OutcomeAgrees, Members, Shell
  <2> QED
    BY <2>1, <2>2 DEF CommandInv
<1>2. CommandInv /\ [Next]_vars => CommandInv'
  BY CommandStarts, CommandLoops, CommandEnds, CommandOthers DEF Next, run_command
<1> QED
  BY <1>1, <1>2, PTL DEF Spec

\* Output that is used as credentials is complete: whatever descendants of the
\* helper keep the pipe, run_command accepts nothing before the last of them has
\* closed it and everything is read.
THEOREM CompleteOutput == Spec => []AcceptedIsComplete
<1>1. CommandInv => AcceptedIsComplete
  BY DEF CommandInv, ShellAgrees, PipeAgrees, OutcomeAgrees, AcceptedIsComplete,
         Accepted, Returned
<1> QED
  BY <1>1, CommandInvAlways, PTL

\* Whichever way run_command fails, it leaves no process of the group or of the
\* job, no zombie and no descriptor.
THEOREM CleanReturn == Spec => []NothingLeftBehind
<1>1. CommandInv => NothingLeftBehind
  BY DEF CommandInv, PipeAgrees, OutcomeAgrees, NothingLeftBehind, Returned
<1> QED
  BY <1>1, CommandInvAlways, PTL
-----------------------------------------------------------------------------
(***************************************************************************)
(* The client across fork.                                                 *)
(***************************************************************************)
Steps == {"none", "idle", "abandon", "mutex", "engine", "disown", "lock", "make",
          "own", "return", "destroy", "next", "free", "crashed"}

Memory == [owner : Processes \cup {0}, mutex : Objects \cup {Null},
           engine : Objects \cup {Null}, freed : BOOLEAN]

ClientTypeOK ==
    /\ pc \in [Threads -> Steps]
    /\ mem \in [Processes -> Memory]
    /\ held \in [Processes -> [Objects -> Threads \cup {Nobody}]]
    /\ made \in [Processes -> [Objects -> Processes \cup {0}]]
    /\ dead \in [Processes -> SUBSET (Objects \cup {Null})]
    /\ batch \in [Processes -> [owner : Processes \cup {0}, holder : {Nobody, Worker}]]

\* The thread that a process begins with: the one that fork copies.
Root(p) == <<p, 1>>

\* A process that does not exist yet has no threads, and no process knows it or
\* an object that it will make.
Fresh(q) ==
    /\ \A t \in Threads : Of(t) = q => pc[t] = "none"
    /\ \A p \in Processes :
         /\ mem[p].owner # q /\ batch[p].owner # q
         /\ \A o \in Objects : made[p][o] # q
         /\ \A t \in Threads : Of(t) = q =>
              /\ mem[p].mutex # t /\ mem[p].engine # t
              /\ held[p][t] = Nobody /\ made[p][t] = 0

\* A child whose client is still its parent's has one thread, which replaces
\* the mutex and the engine by objects that nobody has used before.
Inherited(p) ==
    /\ \A t \in Threads : Of(t) = p =>
         /\ t # Root(p) => pc[t] = "none"
         /\ held[p][t] = Nobody /\ made[p][t] = 0
    /\ \A o \in Objects : made[p][o] # p
    /\ dead[p] = {} /\ batch[p].owner # p
    /\ pc[Root(p)] \in {"idle", "abandon", "mutex", "engine", "disown"}
    /\ mem[p].freed => pc[Root(p)] = "idle"
    /\ pc[Root(p)] \in {"idle", "abandon"} => mem[p].mutex # Null /\ mem[p].engine # Null
    /\ pc[Root(p)] \in {"mutex", "engine"} => mem[p].engine = Null
    /\ pc[Root(p)] = "mutex" => mem[p].mutex = Null
    /\ pc[Root(p)] \in {"engine", "disown"} => mem[p].mutex = Root(p)
    /\ pc[Root(p)] = "disown" => mem[p].engine = Root(p)

\* A client that is the process's own: its engine is made under its mutex, by
\* the one thread that records the process as the owner.
Proper(p) ==
    /\ mem[p].mutex # Null /\ mem[p].engine # Null
    /\ \A t \in Threads : Of(t) = p =>
         /\ pc[t] \notin {"abandon", "mutex", "engine", "disown", "crashed"}
         /\ pc[t] \in {"make", "own", "return"} => held[p][mem[p].mutex] = t
         /\ pc[t] = "own" => mem[p].owner = 0 /\ made[p][mem[p].engine] = p
         /\ pc[t] = "return" => mem[p].owner = p
         /\ mem[p].freed => pc[t] \in {"none", "idle", "destroy"}
         /\ pc[t] = "destroy" => mem[p].freed
    /\ held[p][mem[p].mutex] # Nobody =>
         /\ Of(held[p][mem[p].mutex]) = p
         /\ pc[held[p][mem[p].mutex]] \in {"make", "own", "return"}
    /\ mem[p].owner = p => made[p][mem[p].engine] = p
    /\ mem[p].owner = 0 /\ made[p][mem[p].engine] # 0 =>
         \E t \in Threads : Of(t) = p /\ pc[t] = "own"
    /\ made[p][mem[p].engine] \in {0, p}
    /\ \A o \in Objects : made[p][o] = p => o = mem[p].engine
    /\ ~mem[p].freed => dead[p] = {}

BatchAgrees(p) ==
    /\ batch[p].owner = 0 => batch[p].holder = Nobody
    /\ \A t \in Threads : Of(t) = p /\ pc[t] \in {"next", "free"} =>
         batch[p].owner \in {0, p}

ClientInv ==
    /\ ClientTypeOK
    /\ \A p \in Processes :
         /\ pc[Root(p)] = "none" => Fresh(p)
         /\ mem[p].owner \notin {0, p} => Inherited(p)
         /\ mem[p].owner \in {0, p} => Proper(p)
         /\ BatchAgrees(p)

\* Threads, objects and the special names are told apart by the process number 0.
LEMMA Names ==
  /\ \A t \in Threads : Of(t) \in Processes /\ t \in Objects
  /\ Null \notin Objects /\ Nobody \notin Threads /\ Nobody # Worker
  /\ First \in Objects /\ First \notin Threads
  /\ \A p \in Processes : Root(p) \in Threads /\ Of(Root(p)) = p /\ p # 0
<1>1. \A t \in Threads : t[1] \in Processes /\ t[1] # 0
  BY ClientAssumption DEF Threads
<1>2. Null[1] = 0 /\ Nobody[1] = 0 /\ First[1] = 0 /\ Null # First /\ Nobody # Worker
  BY DEF Null, Nobody, First, Worker
<1>3. \A p \in Processes : <<p, 1>> \in Threads /\ (<<p, 1>>)[1] = p /\ p # 0
  BY ClientAssumption DEF Threads
<1> QED
  BY <1>1, <1>2, <1>3 DEF Objects, Of, Root

\* A step of process p touches nothing of another process, makes no process up,
\* and uses no object of a process that does not exist yet.
Within(p) ==
    /\ pc[Root(p)] # "none" /\ pc'[Root(p)] # "none"
    /\ \A u \in Threads : Of(u) # p => pc'[u] = pc[u]
    /\ \A r \in Processes \ {p} :
         /\ mem'[r] = mem[r] /\ held'[r] = held[r] /\ made'[r] = made[r]
         /\ dead'[r] = dead[r] /\ batch'[r] = batch[r]
    /\ mem'[p].owner \in {mem[p].owner, 0, p}
    /\ batch'[p].owner \in {batch[p].owner, 0, p}
    /\ mem'[p].mutex \in {mem[p].mutex, Null} \cup {t \in Threads : Of(t) = p}
    /\ mem'[p].engine \in {mem[p].engine, Null} \cup {t \in Threads : Of(t) = p}
    /\ \A o \in Objects :
         /\ made'[p][o] = made[p][o] \/ (o = mem[p].engine /\ made'[p][o] = p)
         /\ held'[p][o] \in {held[p][o], Nobody} \/ o = mem[p].mutex

LEMMA WithinProcess ==
  ASSUME ClientInv, ClientTypeOK', NEW p \in Processes, Within(p),
         mem'[p].owner \notin {0, p} => Inherited(p)',
         mem'[p].owner \in {0, p} => Proper(p)',
         BatchAgrees(p)'
  PROVE  ClientInv'
<1> SUFFICES ASSUME NEW q \in Processes
             PROVE  /\ pc'[Root(q)] = "none" => Fresh(q)'
                    /\ mem'[q].owner \notin {0, q} => Inherited(q)'
                    /\ mem'[q].owner \in {0, q} => Proper(q)'
                    /\ BatchAgrees(q)'
  BY DEF ClientInv
<1>0. ClientTypeOK
  BY DEF ClientInv
<1>1. pc'[Root(q)] = "none" => Fresh(q)'
  <2> SUFFICES ASSUME pc'[Root(q)] = "none" PROVE Fresh(q)'
    OBVIOUS
  <2>1. q # p /\ pc[Root(q)] = "none" /\ Fresh(q)
    BY Names DEF Within, ClientInv
  <2>2. \A t \in Threads : Of(t) = q => pc'[t] = "none"
    BY <2>1 DEF Within, Fresh
  <2>3. ASSUME NEW r \in Processes
        PROVE  /\ mem'[r].owner # q /\ batch'[r].owner # q
               /\ \A o \in Objects : made'[r][o] # q
               /\ \A t \in Threads : Of(t) = q =>
                    /\ mem'[r].mutex # t /\ mem'[r].engine # t
                    /\ held'[r][t] = Nobody /\ made'[r][t] = 0
    <3>1. CASE r # p
      BY <2>1, <3>1 DEF Within, Fresh
    <3>2. CASE r = p
      <4>1. mem'[p].owner # q /\ batch'[p].owner # q
        BY <2>1, Names DEF Within, Fresh
      <4>2. \A o \in Objects : made'[p][o] # q
        BY <2>1 DEF Within, Fresh
      <4>3. \A t \in Threads : Of(t) = q => mem'[p].mutex # t /\ mem'[p].engine # t
        BY <2>1, Names DEF Within, Fresh
      <4>4. \A t \in Threads : Of(t) = q => held'[p][t] = Nobody /\ made'[p][t] = 0
        BY <2>1, Names DEF Within, Fresh
      <4> QED
        BY <3>2, <4>1, <4>2, <4>3, <4>4
    <3> QED
      BY <3>1, <3>2
  <2> QED
    BY <2>2, <2>3 DEF Fresh
<1>2. CASE q = p
  BY <1>1, <1>2
<1>3. CASE q # p
  <2>1. /\ mem'[q] = mem[q] /\ held'[q] = held[q] /\ made'[q] = made[q]
        /\ dead'[q] = dead[q] /\ batch'[q] = batch[q]
        /\ \A u \in Threads : Of(u) = q => pc'[u] = pc[u]
        /\ pc'[Root(q)] = pc[Root(q)]
    BY <1>3, Names DEF Within
  <2>2. mem'[q].owner \notin {0, q} => Inherited(q)'
    BY <2>1 DEF ClientInv, Inherited
  <2>3. mem'[q].owner \in {0, q} => Proper(q)'
    <3> SUFFICES ASSUME mem[q].owner \in {0, q} PROVE Proper(q)'
      BY <2>1
    <3>1. Proper(q)
      BY DEF ClientInv
    <3>2. held[q][mem[q].mutex] # Nobody =>
             pc'[held[q][mem[q].mutex]] = pc[held[q][mem[q].mutex]]
      <4>1. mem[q].mutex \in Objects
        BY <1>0, <3>1 DEF Proper, ClientTypeOK, Memory
      <4>2. held[q][mem[q].mutex] \in Threads \cup {Nobody}
        BY <1>0, <4>1 DEF ClientTypeOK
      <4> QED
        BY <2>1, <3>1, <4>2 DEF Proper
    <3> QED
      BY <2>1, <3>1, <3>2 DEF Proper
  <2>4. BatchAgrees(q)'
    BY <2>1 DEF ClientInv, BatchAgrees
  <2> QED
    BY <1>1, <2>2, <2>3, <2>4
<1> QED
  BY <1>2, <1>3

LEMMA Exists ==
  ASSUME ClientInv, NEW t \in Threads, pc[t] # "none"
  PROVE  Of(t) \in Processes /\ pc[Root(Of(t))] # "none"
BY Names DEF ClientInv, Fresh

\* A thread goes on and changes nothing else.
LEMMA OnlyGoes ==
  ASSUME ClientInv, NEW t \in Threads, NEW p, p = Of(t), NEW l \in Steps \ {"none"},
         Goto(t, l), pc[Root(p)] # "none", UNCHANGED <<mem, held, made, dead, batch>>,
         mem[p].owner \notin {0, p} =>
             /\ t = Root(p) /\ pc[t] = "idle" /\ l \in {"idle", "abandon"}
             /\ mem[p].freed => l = "idle",
         mem[p].owner \in {0, p} =>
             /\ l \notin {"abandon", "mutex", "engine", "disown", "crashed"}
             /\ l \in {"make", "own", "return"} <=> pc[t] \in {"make", "own", "return"}
             /\ l # "own" /\ pc[t] # "own"
             /\ l = "return" => mem[p].owner = p
             /\ l # "destroy" /\ (mem[p].freed => l = "idle"),
         l \in {"next", "free"} => batch[p].owner = p
  PROVE  ClientInv'
<1>0. ClientTypeOK /\ p \in Processes /\ Root(p) \in Threads /\ Of(Root(p)) = p
  BY Names DEF ClientInv
<1>1. \A u \in Threads : pc'[u] = IF u = t THEN l ELSE pc[u]
  BY <1>0 DEF Goto, ClientTypeOK
<1>2. ClientTypeOK'
  BY <1>0 DEF Goto, ClientTypeOK
<1>3. Within(p)
  BY <1>0, <1>1 DEF Within
<1>4. mem'[p].owner \notin {0, p} => Inherited(p)'
  BY <1>0, <1>1 DEF ClientInv, Inherited
<1>5. mem'[p].owner \in {0, p} => Proper(p)'
  <2> SUFFICES ASSUME mem[p].owner \in {0, p} PROVE Proper(p)'
    OBVIOUS
  <2>1. Proper(p)
    BY <1>0 DEF ClientInv
  <2>2. mem[p].mutex \in Objects
    BY <1>0, <2>1 DEF Proper, ClientTypeOK, Memory
  <2>3. held[p][mem[p].mutex] \in Threads \cup {Nobody}
    BY <1>0, <2>2 DEF ClientTypeOK
  <2>4. held[p][mem[p].mutex] # Nobody =>
           pc'[held[p][mem[p].mutex]] \in {"make", "own", "return"}
    BY <1>1, <2>1, <2>3 DEF Proper
  <2>5. \A u \in Threads : pc[u] = "own" => pc'[u] = "own"
    BY <1>1
  <2>6. \A u \in Threads : Of(u) = p =>
         /\ pc'[u] \notin {"abandon", "mutex", "engine", "disown", "crashed"}
         /\ pc'[u] \in {"make", "own", "return"} => held[p][mem[p].mutex] = u
         /\ pc'[u] = "own" => mem[p].owner = 0 /\ made[p][mem[p].engine] = p
         /\ pc'[u] = "return" => mem[p].owner = p
         /\ mem[p].freed => pc'[u] \in {"none", "idle", "destroy"}
         /\ pc'[u] = "destroy" => mem[p].freed
    BY <1>1, <2>1 DEF Proper
  <2> QED
    BY <2>1, <2>4, <2>5, <2>6 DEF Proper
<1>6. BatchAgrees(p)'
  BY <1>0, <1>1 DEF ClientInv, BatchAgrees
<1> QED
  BY <1>0, <1>2, <1>3, <1>4, <1>5, <1>6, WithinProcess

\* Two threads of a process are never both past the lock of its client.
LEMMA OneInside ==
  ASSUME ClientInv, NEW t \in Threads, NEW u \in Threads, Of(u) = Of(t),
         mem[Of(t)].owner \in {0, Of(t)},
         pc[t] \in {"make", "own", "return"}, pc[u] \in {"make", "own", "return"}
  PROVE  t = u
BY Names DEF ClientInv, Proper

\* Calls that only move their thread.
LEMMA ClientGoes ==
  ASSUME ClientInv, QuietChild, NEW t \in Threads,
         \/ LoadOwner(t) \/ Crash(t) \/ BatchNext(t) \/ NextDone(t) \/ BatchFree(t)
         \/ StartThread(t)
         \/ Make(t) /\ pc'[t] = "return"
  PROVE  ClientInv'
<1> DEFINE p == Of(t)
<1>0. /\ ClientTypeOK /\ p \in Processes /\ Root(p) \in Threads /\ BatchAgrees(p)
      /\ mem[p].owner \notin {0, p} => Inherited(p)
      /\ mem[p].owner \in {0, p} => Proper(p)
  BY Names DEF ClientInv
<1>1. pc[t] # "none" => pc[Root(p)] # "none"
  BY Exists
<1> HIDE DEF p
<1>2. CASE LoadOwner(t)
  <2>1. PICK l \in {"abandon", "lock"} :
           /\ pc[t] = "idle" /\ ~mem[p].freed /\ Goto(t, l)
           /\ l = "abandon" <=> mem[p].owner \notin {0, p}
           /\ UNCHANGED <<mem, held, made, dead, batch>>
    BY <1>2 DEF LoadOwner, Begins, Foreign, p
  <2>2. mem[p].owner \notin {0, p} => t = Root(p)
    BY <1>0, <2>1 DEF Inherited, p
  <2> QED
    BY <1>1, <2>1, <2>2, OnlyGoes DEF Steps, p
<1>3. CASE Crash(t)
  <2>1. mem[p].owner \in {0, p}
    BY <1>0, <1>3 DEF Crash, Inherited, p
  <2>2. ~mem[p].freed /\ mem[p].mutex # Null /\ mem[p].engine # Null /\ dead[p] = {}
    BY <1>0, <1>3, <2>1 DEF Crash, Proper, p
  <2> QED
    BY <1>3, <2>2 DEF Crash, Broken, p
<1>4. CASE BatchNext(t) \/ BatchFree(t)
  <2>1. PICK l \in {"idle", "next", "free"} :
           /\ pc[t] = "idle" /\ ~mem[p].freed /\ Goto(t, l)
           /\ l # "idle" => batch[p].owner = p
           /\ UNCHANGED <<mem, held, made, dead, batch>>
    BY <1>4 DEF BatchNext, BatchFree, Begins, inherited, p
  <2>2. mem[p].owner \notin {0, p} => t = Root(p) /\ l = "idle"
    BY <1>0, <2>1 DEF Inherited, p
  <2> QED
    BY <1>1, <2>1, <2>2, OnlyGoes DEF Steps, p
<1>5. CASE NextDone(t)
  <2>1. /\ pc[t] = "next" /\ Goto(t, "idle")
        /\ UNCHANGED <<mem, held, made, dead, batch>>
    BY <1>5 DEF NextDone
  <2>2. mem[p].owner \in {0, p}
    BY <1>0, <2>1 DEF Inherited, p
  <2> QED
    BY <1>1, <2>1, <2>2, OnlyGoes DEF Steps, p
<1>6. CASE StartThread(t)
  <2>1. /\ pc[t] = "none" /\ pc[Root(p)] = "idle" /\ mem[p].owner = p
        /\ Goto(t, "idle") /\ UNCHANGED <<mem, held, made, dead, batch>>
    BY <1>6 DEF StartThread, Settled, Root, p
  <2> QED
    BY <2>1, OnlyGoes DEF Steps, p
<1>7. CASE Make(t) /\ pc'[t] = "return"
  <2>1. pc[t] = "make"
    BY <1>7 DEF Make
  <2>2. mem[p].owner \in {0, p}
    BY <1>0, <2>1 DEF Inherited, p
  <2>3. /\ made[p][mem[p].engine] # 0 /\ Goto(t, "return")
        /\ UNCHANGED <<mem, held, made, dead, batch>>
    BY <1>0, <1>7 DEF Make, Goto, ClientTypeOK, p
  <2>4. mem[p].owner = p
    <3>1. SUFFICES ASSUME mem[p].owner = 0 PROVE FALSE
      BY <2>2
    <3>2. PICK u \in Threads : Of(u) = p /\ pc[u] = "own"
      BY <1>0, <2>2, <2>3, <3>1 DEF Proper
    <3> QED
      BY <2>1, <2>2, <3>2, OneInside DEF p
  <2>5. ~mem[p].freed
    BY <1>0, <2>1, <2>2 DEF Proper, p
  <2> QED
    BY <1>1, <2>1, <2>2, <2>3, <2>4, <2>5, OnlyGoes DEF Steps, p
<1> QED
  BY <1>2, <1>3, <1>4, <1>5, <1>6, <1>7

\* The child replaces what it inherited, with its one thread.
LEMMA ClientReplaces ==
  ASSUME ClientInv, NEW t \in Threads,
         Abandon(t) \/ ReplaceMutex(t) \/ ReplaceEngine(t) \/ Disown(t)
  PROVE  ClientInv'
<1> DEFINE p == Of(t)
<1>0. /\ ClientTypeOK /\ p \in Processes /\ Root(p) \in Threads /\ Of(Root(p)) = p
      /\ BatchAgrees(p) /\ p # 0
  BY Names DEF ClientInv
<1>1. pc[t] \in {"abandon", "mutex", "engine", "disown"}
  BY DEF Abandon, ReplaceMutex, ReplaceEngine, Disown
<1>2. mem[p].owner \notin {0, p} /\ Inherited(p)
  BY <1>0, <1>1 DEF ClientInv, Proper
<1>3. t = Root(p) /\ pc[Root(p)] # "none"
  BY <1>1, <1>2 DEF Inherited
<1>4. t \in Objects /\ Null \notin Objects
  BY Names
<1> HIDE DEF p
<1>5. UNCHANGED <<held, made, batch>>
  BY DEF Abandon, ReplaceMutex, ReplaceEngine, Disown, Replace
<1>6. dead' = dead
  <2>1. CASE Abandon(t) \/ Disown(t)
    BY <2>1 DEF Abandon, Disown
  <2>2. CASE ReplaceMutex(t)
    <3>1. mem[p]["mutex"] = Null
      BY <1>2, <1>3, <2>2 DEF ReplaceMutex, Inherited
    <3> QED
      BY <1>0, <2>2, <3>1 DEF ReplaceMutex, Replace, ClientTypeOK, p
  <2>3. CASE ReplaceEngine(t)
    <3>1. mem[p]["engine"] = Null
      BY <1>2, <1>3, <2>3 DEF ReplaceEngine, Inherited
    <3> QED
      BY <1>0, <2>3, <3>1 DEF ReplaceEngine, Replace, ClientTypeOK, p
  <2> QED
    BY <2>1, <2>2, <2>3
<1>7. PICK l \in {"mutex", "engine", "disown", "lock"} : Goto(t, l)
  BY DEF Abandon, ReplaceMutex, ReplaceEngine, Disown
<1>8. \A u \in Threads : pc'[u] = IF u = t THEN l ELSE pc[u]
  BY <1>0, <1>7 DEF Goto, ClientTypeOK
<1>9. /\ mem' \in [Processes -> Memory]
      /\ \A r \in Processes \ {p} : mem'[r] = mem[r]
      /\ \/ /\ l = "mutex" /\ pc[t] = "abandon"
            /\ mem'[p] = [owner |-> mem[p].owner, mutex |-> Null, engine |-> Null,
                          freed |-> mem[p].freed]
         \/ /\ l = "engine" /\ pc[t] = "mutex"
            /\ mem'[p] = [owner |-> mem[p].owner, mutex |-> t, engine |-> mem[p].engine,
                          freed |-> mem[p].freed]
         \/ /\ l = "disown" /\ pc[t] = "engine"
            /\ mem'[p] = [owner |-> mem[p].owner, mutex |-> mem[p].mutex, engine |-> t,
                          freed |-> mem[p].freed]
         \/ /\ l = "lock" /\ pc[t] = "disown"
            /\ mem'[p] = [owner |-> 0, mutex |-> mem[p].mutex, engine |-> mem[p].engine,
                          freed |-> mem[p].freed]
  <2>0. mem \in [Processes -> Memory]
    BY <1>0 DEF ClientTypeOK
  <2>1. pc'[t] = l
    BY <1>8
  <2>2. CASE Abandon(t)
    <3>1. /\ pc[t] = "abandon" /\ l = "mutex"
          /\ mem' = [mem EXCEPT ![p].mutex = Null, ![p].engine = Null]
      BY <1>0, <2>1, <2>2 DEF Abandon, Goto, ClientTypeOK, p
    <3>2. mem'[p] = [owner |-> mem[p].owner, mutex |-> Null, engine |-> Null,
                     freed |-> mem[p].freed]
      BY <1>0, <2>0, <3>1 DEF Memory
    <3>3. mem' \in [Processes -> Memory] /\ \A r \in Processes \ {p} : mem'[r] = mem[r]
      BY <1>0, <2>0, <3>1 DEF Memory
    <3> QED
      BY <3>1, <3>2, <3>3
  <2>3. CASE ReplaceMutex(t)
    <3>1. /\ pc[t] = "mutex" /\ l = "engine"
          /\ mem' = [mem EXCEPT ![p]["mutex"] = t]
      BY <1>0, <2>1, <2>3 DEF ReplaceMutex, Replace, Goto, ClientTypeOK, p
    <3>2. mem'[p] = [owner |-> mem[p].owner, mutex |-> t, engine |-> mem[p].engine,
                     freed |-> mem[p].freed]
      BY <1>0, <1>4, <2>0, <3>1 DEF Memory
    <3>3. mem' \in [Processes -> Memory] /\ \A r \in Processes \ {p} : mem'[r] = mem[r]
      BY <1>0, <1>4, <2>0, <3>1 DEF Memory
    <3> QED
      BY <3>1, <3>2, <3>3
  <2>4. CASE ReplaceEngine(t)
    <3>1. /\ pc[t] = "engine" /\ l = "disown"
          /\ mem' = [mem EXCEPT ![p]["engine"] = t]
      BY <1>0, <2>1, <2>4 DEF ReplaceEngine, Replace, Goto, ClientTypeOK, p
    <3>2. mem'[p] = [owner |-> mem[p].owner, mutex |-> mem[p].mutex, engine |-> t,
                     freed |-> mem[p].freed]
      BY <1>0, <1>4, <2>0, <3>1 DEF Memory
    <3>3. mem' \in [Processes -> Memory] /\ \A r \in Processes \ {p} : mem'[r] = mem[r]
      BY <1>0, <1>4, <2>0, <3>1 DEF Memory
    <3> QED
      BY <3>1, <3>2, <3>3
  <2>5. CASE Disown(t)
    <3>1. /\ pc[t] = "disown" /\ l = "lock"
          /\ mem' = [mem EXCEPT ![p].owner = 0]
      BY <1>0, <2>1, <2>5 DEF Disown, Goto, ClientTypeOK, p
    <3>2. mem'[p] = [owner |-> 0, mutex |-> mem[p].mutex, engine |-> mem[p].engine,
                     freed |-> mem[p].freed]
      BY <1>0, <2>0, <3>1 DEF Memory
    <3>3. mem' \in [Processes -> Memory] /\ \A r \in Processes \ {p} : mem'[r] = mem[r]
      BY <1>0, <2>0, <3>1 DEF Memory
    <3> QED
      BY <3>1, <3>2, <3>3
  <2> QED
    BY <2>2, <2>3, <2>4, <2>5
<1>10. ClientTypeOK'
  BY <1>0, <1>5, <1>6, <1>7, <1>9 DEF Goto, ClientTypeOK, Steps
<1>11. Within(p)
  BY <1>0, <1>3, <1>5, <1>6, <1>8, <1>9 DEF Within, p
<1>12. mem'[p].owner \notin {0, p} => Inherited(p)'
  BY <1>0, <1>2, <1>3, <1>5, <1>6, <1>8, <1>9 DEF Inherited
<1>13. mem'[p].owner \in {0, p} => Proper(p)'
  <2> SUFFICES ASSUME mem'[p].owner \in {0, p} PROVE Proper(p)'
    OBVIOUS
  <2>1. /\ l = "lock" /\ pc[t] = "disown" /\ mem'[p].owner = 0
        /\ mem'[p].mutex = t /\ mem'[p].engine = t
    BY <1>2, <1>3, <1>9 DEF Inherited
  <2>2. held'[p][t] = Nobody /\ made'[p][t] = 0
    BY <1>2, <1>3, <1>5 DEF Inherited, p
  <2>3. \A u \in Threads : Of(u) = p => pc'[u] \in {"none", "lock"}
    BY <1>2, <1>3, <1>8, <2>1 DEF Inherited
  <2>4. (\A o \in Objects : made'[p][o] # p) /\ dead'[p] = {}
    BY <1>2, <1>5, <1>6 DEF Inherited
  <2>5. ~mem'[p].freed
    BY <1>2, <1>3, <1>9, <2>1 DEF Inherited
  <2> QED
    BY <1>0, <1>4, <2>1, <2>2, <2>3, <2>4, <2>5 DEF Proper
<1>14. BatchAgrees(p)'
  BY <1>0, <1>5, <1>7, <1>8 DEF BatchAgrees
<1> QED
  BY <1>0, <1>10, <1>11, <1>12, <1>13, <1>14, WithinProcess

\* The call that has made the engine records its process.
LEMMA ClientOwns ==
  ASSUME ClientInv, NEW t \in Threads, Own(t)
  PROVE  ClientInv'
<1> DEFINE p == Of(t)
<1>0. /\ ClientTypeOK /\ p \in Processes /\ Root(p) \in Threads /\ Of(Root(p)) = p
      /\ BatchAgrees(p) /\ p # 0
  BY Names DEF ClientInv
<1>1. pc[t] = "own"
  BY DEF Own
<1>2. mem[p].owner \in {0, p} /\ Proper(p)
  BY <1>0, <1>1 DEF ClientInv, Inherited
<1>3. pc[Root(p)] # "none"
  BY <1>1, Exists
<1>4. \A u \in Threads : Of(u) = p /\ pc[u] \in {"make", "own", "return"} => u = t
  BY <1>1, <1>2, OneInside
<1> HIDE DEF p
<1>5. /\ UNCHANGED <<held, made, dead, batch>> /\ Goto(t, "return")
      /\ mem' = [mem EXCEPT ![p].owner = p]
  BY DEF Own, p
<1>6. \A u \in Threads : pc'[u] = IF u = t THEN "return" ELSE pc[u]
  BY <1>0, <1>5 DEF Goto, ClientTypeOK
<1>7. /\ mem' \in [Processes -> Memory] /\ \A r \in Processes \ {p} : mem'[r] = mem[r]
      /\ mem'[p] = [owner |-> p, mutex |-> mem[p].mutex, engine |-> mem[p].engine,
                    freed |-> mem[p].freed]
  BY <1>0, <1>5 DEF Memory, ClientTypeOK
<1>8. ClientTypeOK'
  BY <1>0, <1>5, <1>7 DEF Goto, ClientTypeOK, Steps
<1>9. Within(p)
  BY <1>0, <1>3, <1>5, <1>6, <1>7 DEF Within, p
<1>10. Proper(p)'
  <2>1. held[p][mem[p].mutex] = t /\ made[p][mem[p].engine] = p /\ Of(t) = p
        /\ ~mem[p].freed
    BY <1>1, <1>2 DEF Proper, p
  <2>2. \A u \in Threads : Of(u) = p =>
         /\ pc'[u] \notin {"abandon", "mutex", "engine", "disown", "crashed", "own"}
         /\ pc'[u] \in {"make", "own", "return"} => u = t
         /\ pc'[u] # "destroy"
    BY <1>2, <1>4, <1>6, <2>1 DEF Proper
  <2> QED
    BY <1>0, <1>2, <1>5, <1>6, <1>7, <2>1, <2>2 DEF Proper
<1>11. BatchAgrees(p)'
  BY <1>0, <1>5, <1>6 DEF BatchAgrees
<1> QED
  BY <1>0, <1>7, <1>8, <1>9, <1>10, <1>11, WithinProcess

\* The destructor, and then the members.
LEMMA ClientFrees ==
  ASSUME ClientInv, NEW t \in Threads, FreeClient(t)
  PROVE  ClientInv'
<1> DEFINE p == Of(t)
<1>0. /\ ClientTypeOK /\ p \in Processes /\ Root(p) \in Threads /\ Of(Root(p)) = p
      /\ BatchAgrees(p) /\ p # 0
  BY Names DEF ClientInv
<1>1. pc[t] = "idle"
  BY DEF FreeClient, Begins
<1>2. pc[Root(p)] # "none"
  BY <1>1, Exists
<1>3. \A u \in Threads : Of(u) = p => pc[u] \in {"none", "idle"}
  BY <1>1 DEF FreeClient
<1> HIDE DEF p
<1>4. PICK l \in {"idle", "destroy"} :
         Goto(t, l) /\ (l = "idle" <=> mem[p].owner \notin {0, p})
  BY DEF FreeClient, Begins, Foreign, p
<1>5. /\ UNCHANGED <<held, made, dead, batch>>
      /\ mem' = [mem EXCEPT ![p].freed = TRUE]
  BY DEF FreeClient, p
<1>6. \A u \in Threads : pc'[u] = IF u = t THEN l ELSE pc[u]
  BY <1>0, <1>4 DEF Goto, ClientTypeOK
<1>7. /\ mem' \in [Processes -> Memory] /\ \A r \in Processes \ {p} : mem'[r] = mem[r]
      /\ mem'[p] = [owner |-> mem[p].owner, mutex |-> mem[p].mutex,
                    engine |-> mem[p].engine, freed |-> TRUE]
  BY <1>0, <1>5 DEF Memory, ClientTypeOK
<1>8. ClientTypeOK'
  BY <1>0, <1>4, <1>5, <1>7 DEF Goto, ClientTypeOK, Steps
<1>9. Within(p)
  BY <1>0, <1>2, <1>4, <1>5, <1>6, <1>7 DEF Within, p
<1>10. mem'[p].owner \notin {0, p} => Inherited(p)'
  <2> SUFFICES ASSUME mem[p].owner \notin {0, p} PROVE Inherited(p)'
    BY <1>7
  <2>1. Inherited(p) /\ t = Root(p) /\ l = "idle"
    BY <1>0, <1>1, <1>4 DEF ClientInv, Inherited, p
  <2> QED
    BY <1>0, <1>1, <1>5, <1>6, <1>7, <2>1 DEF Inherited
<1>11. mem'[p].owner \in {0, p} => Proper(p)'
  <2> SUFFICES ASSUME mem[p].owner \in {0, p} PROVE Proper(p)'
    BY <1>7
  <2>1. Proper(p) /\ l = "destroy"
    BY <1>0, <1>4 DEF ClientInv
  <2>2. mem[p].mutex \in Objects
    BY <1>0, <2>1 DEF Proper, ClientTypeOK, Memory
  <2>3. held[p][mem[p].mutex] \in Threads \cup {Nobody}
    BY <1>0, <2>2 DEF ClientTypeOK
  <2>4. held[p][mem[p].mutex] = Nobody
    BY <1>3, <2>1, <2>3 DEF Proper
  <2>5. mem[p].owner = 0 => made[p][mem[p].engine] = 0
    BY <1>3, <2>1 DEF Proper
  <2>6. \A u \in Threads : Of(u) = p => pc'[u] \in {"none", "idle", "destroy"}
    BY <1>3, <1>6
  <2> QED
    BY <1>0, <1>5, <1>7, <2>1, <2>4, <2>5, <2>6 DEF Proper
<1>12. BatchAgrees(p)'
  BY <1>0, <1>4, <1>5, <1>6 DEF BatchAgrees
<1> QED
  BY <1>0, <1>8, <1>9, <1>10, <1>11, <1>12, WithinProcess

LEMMA ClientDestroys ==
  ASSUME ClientInv, NEW t \in Threads, Destroy(t)
  PROVE  ClientInv'
<1> DEFINE p == Of(t)
<1>0. /\ ClientTypeOK /\ p \in Processes /\ Root(p) \in Threads /\ Of(Root(p)) = p
      /\ BatchAgrees(p) /\ p # 0
  BY Names DEF ClientInv
<1>1. pc[t] = "destroy"
  BY DEF Destroy
<1>2. mem[p].owner \in {0, p} /\ Proper(p)
  BY <1>0, <1>1 DEF ClientInv, Inherited
<1>3. pc[Root(p)] # "none"
  BY <1>1, Exists
<1>4. mem[p].freed
  BY <1>1, <1>2 DEF Proper
<1> HIDE DEF p
<1>5. /\ UNCHANGED <<mem, held, made, batch>> /\ Goto(t, "idle")
      /\ dead' = [dead EXCEPT ![p] = @ \cup {mem[p].mutex, mem[p].engine}]
  BY DEF Destroy, p
<1>6. \A u \in Threads : pc'[u] = IF u = t THEN "idle" ELSE pc[u]
  BY <1>0, <1>5 DEF Goto, ClientTypeOK
<1>7. mem[p].mutex \in Objects \cup {Null} /\ mem[p].engine \in Objects \cup {Null}
  BY <1>0 DEF ClientTypeOK, Memory
<1>8. ClientTypeOK'
  BY <1>0, <1>5, <1>7 DEF Goto, ClientTypeOK, Steps
<1>9. Within(p)
  BY <1>0, <1>3, <1>5, <1>6 DEF Within, ClientTypeOK, p
<1>10. Proper(p)'
  <2>1. mem[p].mutex \in Objects
    BY <1>2, <1>7 DEF Proper
  <2>2. held[p][mem[p].mutex] \in Threads \cup {Nobody}
    BY <1>0, <2>1 DEF ClientTypeOK
  <2>3. held[p][mem[p].mutex] = Nobody
    BY <1>2, <1>4, <2>2 DEF Proper
  <2>4. \A u \in Threads : Of(u) = p => pc'[u] \in {"none", "idle", "destroy"}
    BY <1>2, <1>4, <1>6 DEF Proper
  <2>5. mem[p].owner = 0 => made[p][mem[p].engine] = 0
    BY <1>2, <1>4 DEF Proper
  <2> QED
    BY <1>2, <1>4, <1>5, <2>3, <2>4, <2>5 DEF Proper
<1>11. BatchAgrees(p)'
  BY <1>0, <1>5, <1>6 DEF BatchAgrees
<1> QED
  BY <1>0, <1>2, <1>5, <1>8, <1>9, <1>10, <1>11, WithinProcess

\* The lock of the client is taken by a thread of its own process.
LEMMA ClientLocks ==
  ASSUME ClientInv, NEW t \in Threads, Lock(t)
  PROVE  ClientInv'
<1> DEFINE p == Of(t)
<1>0. /\ ClientTypeOK /\ p \in Processes /\ Root(p) \in Threads /\ Of(Root(p)) = p
      /\ BatchAgrees(p) /\ p # 0
  BY Names DEF ClientInv
<1>1. pc[t] = "lock"
  BY DEF Lock
<1>2. mem[p].owner \in {0, p} /\ Proper(p)
  BY <1>0, <1>1 DEF ClientInv, Inherited
<1>3. pc[Root(p)] # "none" /\ mem[p].mutex \in Objects
  BY <1>0, <1>1, <1>2, Exists DEF Proper, ClientTypeOK, Memory
<1> HIDE DEF p
<1>4. /\ held[p][mem[p].mutex] = Nobody
      /\ held' = [held EXCEPT ![p][mem[p].mutex] = t]
      /\ Goto(t, "make") /\ UNCHANGED <<mem, made, dead, batch>>
  BY DEF Lock, p
<1>5. \A u \in Threads : pc'[u] = IF u = t THEN "make" ELSE pc[u]
  BY <1>0, <1>4 DEF Goto, ClientTypeOK
<1>6. /\ held' \in [Processes -> [Objects -> Threads \cup {Nobody}]]
      /\ \A r \in Processes \ {p} : held'[r] = held[r]
      /\ \A o \in Objects : held'[p][o] = IF o = mem[p].mutex THEN t ELSE held[p][o]
  BY <1>0, <1>3, <1>4 DEF ClientTypeOK
<1>7. ClientTypeOK'
  BY <1>0, <1>4, <1>6 DEF Goto, ClientTypeOK, Steps
<1>8. Within(p)
  BY <1>0, <1>3, <1>4, <1>5, <1>6 DEF Within, p
<1>9. Proper(p)'
  <2>1. \A u \in Threads : Of(u) = p => pc[u] \notin {"make", "own", "return"}
    BY <1>2, <1>4, Names DEF Proper
  <2>2. Of(t) = p /\ ~mem[p].freed /\ held'[p][mem[p].mutex] = t
    BY <1>1, <1>2, <1>3, <1>6 DEF Proper, p
  <2>3. mem[p].owner = 0 => made[p][mem[p].engine] = 0
    BY <1>2, <2>1 DEF Proper
  <2>4. \A u \in Threads : Of(u) = p =>
         /\ pc'[u] \notin {"abandon", "mutex", "engine", "disown", "crashed",
                           "own", "return", "destroy"}
         /\ pc'[u] = "make" => u = t
    BY <1>2, <1>5, <2>1, <2>2 DEF Proper
  <2> QED
    BY <1>2, <1>4, <1>5, <2>2, <2>3, <2>4 DEF Proper
<1>10. BatchAgrees(p)'
  BY <1>0, <1>4, <1>5 DEF BatchAgrees
<1> QED
  BY <1>0, <1>2, <1>4, <1>7, <1>8, <1>9, <1>10, WithinProcess

\* The engine is made under the lock, before the owner is recorded.
LEMMA ClientMakes ==
  ASSUME ClientInv, NEW t \in Threads, Make(t), pc'[t] = "own"
  PROVE  ClientInv'
<1> DEFINE p == Of(t)
<1>0. /\ ClientTypeOK /\ p \in Processes /\ Root(p) \in Threads /\ Of(Root(p)) = p
      /\ BatchAgrees(p) /\ p # 0
  BY Names DEF ClientInv
<1>1. pc[t] = "make"
  BY DEF Make
<1>2. mem[p].owner \in {0, p} /\ Proper(p)
  BY <1>0, <1>1 DEF ClientInv, Inherited
<1>3. pc[Root(p)] # "none" /\ mem[p].engine \in Objects
  BY <1>0, <1>1, <1>2, Exists DEF Proper, ClientTypeOK, Memory
<1>4. \A u \in Threads : Of(u) = p /\ pc[u] \in {"make", "own", "return"} => u = t
  BY <1>1, <1>2, OneInside
<1> HIDE DEF p
<1>5. /\ made[p][mem[p].engine] = 0
      /\ made' = [made EXCEPT ![p][mem[p].engine] = p]
      /\ Goto(t, "own") /\ UNCHANGED <<mem, held, dead, batch>>
  BY <1>0 DEF Make, Goto, ClientTypeOK, p
<1>6. \A u \in Threads : pc'[u] = IF u = t THEN "own" ELSE pc[u]
  BY <1>0, <1>5 DEF Goto, ClientTypeOK
<1>7. /\ made' \in [Processes -> [Objects -> Processes \cup {0}]]
      /\ \A r \in Processes \ {p} : made'[r] = made[r]
      /\ \A o \in Objects : made'[p][o] = IF o = mem[p].engine THEN p ELSE made[p][o]
  BY <1>0, <1>3, <1>5 DEF ClientTypeOK
<1>8. ClientTypeOK'
  BY <1>0, <1>5, <1>7 DEF Goto, ClientTypeOK, Steps
<1>9. Within(p)
  BY <1>0, <1>3, <1>5, <1>6, <1>7 DEF Within, p
<1>10. Proper(p)'
  <2>1. /\ mem[p].owner = 0 /\ Of(t) = p /\ ~mem[p].freed
        /\ held[p][mem[p].mutex] = t /\ made'[p][mem[p].engine] = p
    BY <1>0, <1>1, <1>2, <1>3, <1>5, <1>7 DEF Proper, p
  <2>2. \A u \in Threads : Of(u) = p =>
         /\ pc'[u] \notin {"abandon", "mutex", "engine", "disown", "crashed",
                           "make", "return", "destroy"}
         /\ pc'[u] = "own" => u = t
    BY <1>2, <1>4, <1>6, <2>1 DEF Proper
  <2>3. \A o \in Objects : made'[p][o] = p => o = mem[p].engine
    BY <1>2, <1>7 DEF Proper
  <2> QED
    BY <1>0, <1>2, <1>5, <1>6, <2>1, <2>2, <2>3 DEF Proper
<1>11. BatchAgrees(p)'
  BY <1>0, <1>5, <1>6 DEF BatchAgrees
<1> QED
  BY <1>0, <1>2, <1>5, <1>8, <1>9, <1>10, <1>11, WithinProcess

\* The lock is given back, by the constructor that throws or with the engine.
LEMMA ClientUnlocks ==
  ASSUME ClientInv, NEW t \in Threads, Return(t) \/ (Make(t) /\ pc'[t] = "idle")
  PROVE  ClientInv'
<1> DEFINE p == Of(t)
<1>0. /\ ClientTypeOK /\ p \in Processes /\ Root(p) \in Threads /\ Of(Root(p)) = p
      /\ BatchAgrees(p) /\ p # 0
  BY Names DEF ClientInv
<1>1. pc[t] \in {"make", "return"}
  BY DEF Make, Return
<1>2. mem[p].owner \in {0, p} /\ Proper(p)
  BY <1>0, <1>1 DEF ClientInv, Inherited
<1>3. pc[Root(p)] # "none" /\ mem[p].mutex \in Objects
  BY <1>0, <1>1, <1>2, Exists DEF Proper, ClientTypeOK, Memory
<1>4. \A u \in Threads : Of(u) = p /\ pc[u] \in {"make", "own", "return"} => u = t
  BY <1>1, <1>2, OneInside
<1> HIDE DEF p
<1>5. /\ held' = [held EXCEPT ![p] =
                    [o \in Objects |-> IF @[o] = t THEN Nobody ELSE @[o]]]
      /\ Goto(t, "idle") /\ UNCHANGED <<mem, made, dead>>
      /\ pc[t] = "return" \/ made[p][mem[p].engine] = 0
  <2>1. CASE Return(t)
    BY <2>1 DEF Return, Unlocked, p
  <2>2. CASE Make(t) /\ pc'[t] = "idle"
    BY <1>0, <2>2 DEF Make, Unlocked, Goto, ClientTypeOK, p
  <2> QED
    BY <2>1, <2>2
<1>6. \A u \in Threads : pc'[u] = IF u = t THEN "idle" ELSE pc[u]
  BY <1>0, <1>5 DEF Goto, ClientTypeOK
<1>7. /\ held' \in [Processes -> [Objects -> Threads \cup {Nobody}]]
      /\ \A r \in Processes \ {p} : held'[r] = held[r]
      /\ \A o \in Objects : held'[p][o] = IF held[p][o] = t THEN Nobody ELSE held[p][o]
  BY <1>0, <1>5 DEF ClientTypeOK
<1>8. /\ batch' \in [Processes -> [owner : Processes \cup {0}, holder : {Nobody, Worker}]]
      /\ \A r \in Processes \ {p} : batch'[r] = batch[r]
      /\ \/ batch'[p] = batch[p]
         \/ batch'[p].owner = p /\ batch'[p].holder = Nobody
  <2>1. CASE Return(t)
    <3>1. batch' = [batch EXCEPT ![p] =
               IF @.owner = 0 THEN [owner |-> p, holder |-> Nobody] ELSE @]
      BY <2>1 DEF Return, p
    <3>2. batch'[p] = IF batch[p].owner = 0 THEN [owner |-> p, holder |-> Nobody]
                                            ELSE batch[p]
      BY <1>0, <3>1 DEF ClientTypeOK
    <3>3. batch'[p] \in [owner : Processes \cup {0}, holder : {Nobody, Worker}]
      BY <1>0, <3>2 DEF ClientTypeOK
    <3> QED
      BY <1>0, <3>1, <3>2, <3>3 DEF ClientTypeOK
  <2>2. CASE Make(t)
    BY <1>0, <2>2 DEF Make, ClientTypeOK
  <2> QED
    BY <2>1, <2>2
<1>9. ClientTypeOK'
  BY <1>0, <1>5, <1>7, <1>8 DEF Goto, ClientTypeOK, Steps
<1>10. Within(p)
  BY <1>0, <1>3, <1>5, <1>6, <1>7, <1>8 DEF Within, p
<1>11. Proper(p)'
  <2>1. held[p][mem[p].mutex] = t /\ held'[p][mem[p].mutex] = Nobody /\ ~mem[p].freed
    BY <1>1, <1>2, <1>3, <1>7 DEF Proper, p
  <2>2. \A u \in Threads : Of(u) = p =>
         pc'[u] \notin {"abandon", "mutex", "engine", "disown", "crashed", "make",
                        "own", "return", "destroy"}
    BY <1>2, <1>4, <1>6, <2>1 DEF Proper
  <2>3. mem[p].owner = 0 => made[p][mem[p].engine] = 0
    BY <1>0, <1>2, <1>5 DEF Proper, p
  <2> QED
    BY <1>2, <1>5, <2>1, <2>2, <2>3 DEF Proper
<1>12. BatchAgrees(p)'
  BY <1>0, <1>6, <1>8 DEF BatchAgrees
<1> QED
  BY <1>0, <1>2, <1>5, <1>9, <1>10, <1>11, <1>12, WithinProcess

\* Only the batch of process p changes, in a way that its threads may see.
LEMMA ClientBatch ==
  ASSUME ClientInv, NEW p \in Processes, pc[Root(p)] # "none",
         UNCHANGED <<mem, held, made, dead>>,
         ClientTypeOK', \A u \in Threads : Of(u) # p => pc'[u] = pc[u],
         \A u \in Threads : pc'[u] = pc[u] \/ (pc[u] = "free" /\ pc'[u] = "idle"),
         \A r \in Processes \ {p} : batch'[r] = batch[r],
         batch[p].owner \in {0, p}, batch'[p].owner \in {0, p},
         batch'[p].owner = 0 => batch'[p].holder = Nobody,
         mem[p].owner \in {0, p}
  PROVE  ClientInv'
<1>0. /\ ClientTypeOK /\ Root(p) \in Threads /\ Of(Root(p)) = p
      /\ BatchAgrees(p) /\ Proper(p)
  BY Names DEF ClientInv
<1>1. Within(p)
  BY <1>0 DEF Within
<1>2. Proper(p)'
  <2>1. mem[p].mutex \in Objects
    BY <1>0 DEF Proper, ClientTypeOK, Memory
  <2>2. held[p][mem[p].mutex] \in Threads \cup {Nobody}
    BY <1>0, <2>1 DEF ClientTypeOK
  <2>3. \A u \in Threads : pc[u] # "free" => pc'[u] = pc[u]
    OBVIOUS
  <2>4. held[p][mem[p].mutex] # Nobody =>
           pc'[held[p][mem[p].mutex]] \in {"make", "own", "return"}
    BY <1>0, <2>2, <2>3 DEF Proper
  <2>5. mem[p].owner = 0 /\ made[p][mem[p].engine] # 0 =>
           \E u \in Threads : Of(u) = p /\ pc'[u] = "own"
    BY <1>0, <2>3 DEF Proper
  <2>6. \A u \in Threads : Of(u) = p => pc'[u] = pc[u] \/ (pc'[u] = "idle" /\ pc[u] = "free")
    OBVIOUS
  <2> QED
    BY <1>0, <2>4, <2>5, <2>6 DEF Proper
<1>3. BatchAgrees(p)'
  BY DEF BatchAgrees
<1> QED
  BY <1>0, <1>1, <1>2, <1>3, WithinProcess

LEMMA ClientWorkers ==
  ASSUME ClientInv,
         \/ \E t \in Threads : FreeDone(t)
         \/ \E p \in Processes : WorkerLocks(p) \/ WorkerUnlocks(p)
  PROVE  ClientInv'
<1>0. ClientTypeOK
  BY DEF ClientInv
<1>1. ASSUME NEW t \in Threads, FreeDone(t)
      PROVE  ClientInv'
  <2> DEFINE p == Of(t)
  <2>1. /\ p \in Processes /\ pc[t] = "free" /\ Goto(t, "idle")
        /\ batch' = [batch EXCEPT ![p] = NoBatch]
        /\ UNCHANGED <<mem, held, made, dead>>
    BY <1>1, Names DEF FreeDone
  <2>2. /\ mem[p].owner \in {0, p} /\ batch[p].owner \in {0, p}
        /\ pc[Root(p)] # "none"
    BY <2>1, Exists DEF ClientInv, Inherited, BatchAgrees
  <2>3. \A u \in Threads : pc'[u] = IF u = t THEN "idle" ELSE pc[u]
    BY <1>0, <2>1 DEF Goto, ClientTypeOK
  <2>4. NoBatch \in [owner : Processes \cup {0}, holder : {Nobody, Worker}]
    BY DEF NoBatch
  <2>5. /\ batch' \in [Processes -> [owner : Processes \cup {0}, holder : {Nobody, Worker}]]
        /\ \A r \in Processes \ {p} : batch'[r] = batch[r]
        /\ batch'[p] = NoBatch
    BY <1>0, <2>1, <2>4 DEF ClientTypeOK
  <2>6. ClientTypeOK'
    BY <1>0, <2>1, <2>5 DEF ClientTypeOK, Goto, Steps
  <2>7. batch'[p].owner = 0 /\ batch'[p].holder = Nobody
    BY <2>5 DEF NoBatch
  <2> QED
    BY <2>1, <2>2, <2>3, <2>5, <2>6, <2>7, ClientBatch
<1>2. ASSUME NEW p \in Processes, WorkerLocks(p) \/ WorkerUnlocks(p)
      PROVE  ClientInv'
  <2>1. /\ batch[p].owner = p /\ UNCHANGED <<pc, mem, held, made, dead>>
        /\ \E h \in {Nobody, Worker} : batch' = [batch EXCEPT ![p].holder = h]
    BY <1>2 DEF WorkerLocks, WorkerUnlocks
  <2>2. mem[p].owner \in {0, p} /\ pc[Root(p)] # "none"
    BY <2>1 DEF ClientInv, Inherited, Fresh
  <2>3. /\ batch' \in [Processes -> [owner : Processes \cup {0}, holder : {Nobody, Worker}]]
        /\ \A r \in Processes \ {p} : batch'[r] = batch[r]
        /\ batch'[p].owner = p
    BY <1>0, <2>1 DEF ClientTypeOK
  <2>4. ClientTypeOK'
    BY <1>0, <2>1, <2>3 DEF ClientTypeOK
  <2> QED
    BY <2>1, <2>2, <2>3, <2>4, Names, ClientBatch
<1> QED
  BY <1>1, <1>2

\* The child gets what its parent has.  While other threads of the parent are in
\* the first use of the client it does not fork, so what the child takes for its own is
\* an engine not yet made and a mutex that nobody holds; anything else carries
\* the parent's number.
LEMMA ClientForks ==
  ASSUME ClientInv, QuietFork, NEW t \in Threads, NEW q \in Processes, Fork(t, q)
  PROVE  ClientInv'
<1> DEFINE p == Of(t)
<1>0. /\ ClientTypeOK /\ p \in Processes /\ BatchAgrees(p) /\ p # 0 /\ q # 0
      /\ Root(q) \in Threads /\ Of(Root(q)) = q
  BY Names DEF ClientInv
<1>1. /\ pc[t] = "idle" /\ ~mem[p].freed
      /\ \A u \in Threads : Of(u) = q => pc[u] = "none"
      /\ mem[p].owner = p \/ \A u \in Threads : Of(u) = p => pc[u] \in {"none", "idle"}
      /\ Goto(Root(q), "idle")
  BY DEF Fork, Settled, Root
<1>2. p # q /\ Fresh(q)
  BY <1>0, <1>1 DEF ClientInv
<1>3. \A u \in Threads : pc'[u] = IF u = Root(q) THEN "idle" ELSE pc[u]
  BY <1>0, <1>1 DEF Goto, ClientTypeOK
<1>4. /\ mem' = [mem EXCEPT ![q] = mem[p]] /\ held' = [held EXCEPT ![q] = held[p]]
      /\ made' = [made EXCEPT ![q] = made[p]] /\ dead' = [dead EXCEPT ![q] = dead[p]]
      /\ batch' = [batch EXCEPT ![q] = batch[p]]
  BY DEF Fork, Copied
<1> HIDE DEF p
<1>5. \A r \in Processes :
         /\ mem'[r] = IF r = q THEN mem[p] ELSE mem[r]
         /\ held'[r] = IF r = q THEN held[p] ELSE held[r]
         /\ made'[r] = IF r = q THEN made[p] ELSE made[r]
         /\ dead'[r] = IF r = q THEN dead[p] ELSE dead[r]
         /\ batch'[r] = IF r = q THEN batch[p] ELSE batch[r]
  BY <1>0, <1>4 DEF ClientTypeOK
<1>6. ClientTypeOK'
  BY <1>0, <1>1, <1>4 DEF Goto, ClientTypeOK, Steps
<1>7. ASSUME NEW r \in Processes, pc'[Root(r)] = "none"
      PROVE  Fresh(r)'
  <2>1. r # q /\ Fresh(r)
    BY <1>3, <1>7, Names DEF ClientInv
  <2>2. \A u \in Threads : Of(u) = r => pc'[u] = "none"
    BY <1>0, <1>3, <2>1 DEF Fresh
  <2> QED
    BY <1>0, <1>5, <2>1, <2>2 DEF Fresh
<1>8. ASSUME NEW r \in Processes \ {q}
      PROVE  /\ mem'[r].owner \notin {0, r} => Inherited(r)'
             /\ mem'[r].owner \in {0, r} => Proper(r)'
             /\ BatchAgrees(r)'
  <2>1. /\ mem'[r] = mem[r] /\ held'[r] = held[r] /\ made'[r] = made[r]
        /\ dead'[r] = dead[r] /\ batch'[r] = batch[r]
        /\ \A u \in Threads : Of(u) = r => pc'[u] = pc[u]
        /\ pc'[Root(r)] = pc[Root(r)]
    BY <1>0, <1>3, <1>5, Names
  <2>2. mem'[r].owner \notin {0, r} => Inherited(r)'
    BY <2>1 DEF ClientInv, Inherited
  <2>3. mem'[r].owner \in {0, r} => Proper(r)'
    <3> SUFFICES ASSUME mem[r].owner \in {0, r} PROVE Proper(r)'
      BY <2>1
    <3>1. Proper(r)
      BY DEF ClientInv
    <3>2. mem[r].mutex \in Objects
      BY <1>0, <3>1 DEF Proper, ClientTypeOK, Memory
    <3>3. held[r][mem[r].mutex] \in Threads \cup {Nobody}
      BY <1>0, <3>2 DEF ClientTypeOK
    <3>4. held[r][mem[r].mutex] # Nobody =>
             pc'[held[r][mem[r].mutex]] = pc[held[r][mem[r].mutex]]
      BY <2>1, <3>1, <3>3 DEF Proper
    <3> QED
      BY <2>1, <3>1, <3>4 DEF Proper
  <2>4. BatchAgrees(r)'
    BY <2>1 DEF ClientInv, BatchAgrees
  <2> QED
    BY <2>2, <2>3, <2>4
<1>9. \A u \in Threads : Of(u) = q => pc'[u] = IF u = Root(q) THEN "idle" ELSE "none"
  BY <1>1, <1>3
<1>10. BatchAgrees(q)'
  BY <1>0, <1>5, <1>9 DEF BatchAgrees
<1>11. CASE mem[p].owner # 0
  <2>1. mem[p].owner \notin {0, q}
    BY <1>0, <1>2, <1>11 DEF Fresh
  <2>2. mem[p].mutex # Null /\ mem[p].engine # Null /\ dead[p] = {}
    <3>1. CASE mem[p].owner = p
      BY <1>0, <1>1, <3>1 DEF ClientInv, Proper
    <3>2. CASE mem[p].owner # p
      <4>1. Inherited(p)
        BY <1>0, <1>11, <3>2 DEF ClientInv
      <4>2. t = Root(p)
        BY <1>1, <4>1 DEF Inherited, p
      <4> QED
        BY <1>1, <4>1, <4>2 DEF Inherited
    <3> QED
      BY <3>1, <3>2
  <2>3. Inherited(q)'
    <3>1. \A u \in Threads : Of(u) = q => held'[q][u] = Nobody /\ made'[q][u] = 0
      BY <1>0, <1>2, <1>5 DEF Fresh
    <3>2. (\A o \in Objects : made'[q][o] # q) /\ batch'[q].owner # q
      BY <1>0, <1>2, <1>5 DEF Fresh
    <3>3. pc'[Root(q)] = "idle"
      BY <1>0, <1>3
    <3> QED
      BY <1>1, <1>5, <1>9, <2>2, <3>1, <3>2, <3>3 DEF Inherited
  <2> QED
    BY <1>5, <1>6, <1>7, <1>8, <1>10, <2>1, <2>3 DEF ClientInv
<1>12. CASE mem[p].owner = 0
  <2>1. /\ Proper(p) /\ dead[p] = {}
        /\ \A u \in Threads : Of(u) = p => pc[u] \in {"none", "idle"}
    BY <1>0, <1>1, <1>12 DEF ClientInv, Proper
  <2>2. mem[p].mutex \in Objects
    BY <1>0, <2>1 DEF Proper, ClientTypeOK, Memory
  <2>3. held[p][mem[p].mutex] \in Threads \cup {Nobody}
    BY <1>0, <2>2 DEF ClientTypeOK
  <2>4. held[p][mem[p].mutex] = Nobody /\ made[p][mem[p].engine] = 0
    BY <1>12, <2>1, <2>3 DEF Proper
  <2>5. \A o \in Objects : made'[q][o] # q
    BY <1>0, <1>2, <1>5 DEF Fresh
  <2>6. Proper(q)'
    BY <1>0, <1>1, <1>5, <1>9, <1>12, <2>1, <2>4, <2>5 DEF Proper
  <2> QED
    BY <1>5, <1>6, <1>7, <1>8, <1>10, <1>12, <2>6 DEF ClientInv
<1> QED
  BY <1>11, <1>12

LEMMA ClientInvAlways ==
  ASSUME QuietFork, QuietChild
  PROVE  ClientSpec => []ClientInv
<1>1. ClientInit => ClientInv
  <2> SUFFICES ASSUME ClientInit PROVE ClientInv
    OBVIOUS
  <2>1. 1 \in Processes /\ First \in Objects /\ First # Null
    BY Names, ClientAssumption
  <2>2. ClientTypeOK
    BY <2>1 DEF ClientInit, ClientTypeOK, Steps, Memory, NoBatch
  <2>3. ASSUME NEW p \in Processes
        PROVE  /\ mem[p].owner = 0 /\ mem[p].mutex = First /\ mem[p].engine = First
               /\ ~mem[p].freed /\ dead[p] = {} /\ batch[p] = NoBatch
               /\ \A o \in Objects : held[p][o] = Nobody /\ made[p][o] = 0
    BY DEF ClientInit
  <2>4. \A t \in Threads : pc[t] = IF Of(t) = 1 THEN "idle" ELSE "none"
    BY DEF ClientInit
  <2>5. ASSUME NEW p \in Processes
        PROVE  Proper(p) /\ BatchAgrees(p) /\ (pc[Root(p)] = "none" => Fresh(p))
    <3>1. Proper(p)
      BY <2>1, <2>3, <2>4, Names DEF Proper
    <3>2. BatchAgrees(p)
      BY <2>3, <2>4 DEF BatchAgrees, NoBatch
    <3>3. pc[Root(p)] = "none" => Fresh(p)
      BY <2>1, <2>3, <2>4, Names DEF Fresh, NoBatch
    <3> QED
      BY <3>1, <3>2, <3>3
  <2> QED
    BY <2>2, <2>3, <2>5 DEF ClientInv
<1>2. ClientInv /\ [ClientNext]_clientVars => ClientInv'
  <2> SUFFICES ASSUME ClientInv, [ClientNext]_clientVars
               PROVE  ClientInv'
    OBVIOUS
  <2>1. CASE UNCHANGED clientVars
    BY <2>1 DEF clientVars, ClientInv, ClientTypeOK, Fresh, Inherited, Proper,
                BatchAgrees
  <2>2. ASSUME NEW t \in Threads, Make(t)
        PROVE  ClientInv'
    <3>1. pc'[t] \in {"return", "own", "idle"}
      BY <2>2 DEF Make, Goto, ClientInv, ClientTypeOK
    <3> QED
      BY <2>2, <3>1, ClientGoes, ClientMakes, ClientUnlocks
  <2>3. ASSUME NEW t \in Threads, Call(t)
        PROVE  ClientInv'
    <3>1. CASE \/ LoadOwner(t) \/ Crash(t) \/ BatchNext(t) \/ NextDone(t) \/ BatchFree(t)
      BY <3>1, ClientGoes
    <3>2. CASE Abandon(t) \/ ReplaceMutex(t) \/ ReplaceEngine(t) \/ Disown(t)
      BY <3>2, ClientReplaces
    <3>3. CASE Lock(t) \/ Own(t) \/ Return(t) \/ FreeClient(t) \/ Destroy(t)
      BY <3>3, ClientLocks, ClientOwns, ClientUnlocks, ClientFrees, ClientDestroys
    <3>4. CASE FreeDone(t)
      BY <3>4, ClientWorkers
    <3> QED
      BY <2>2, <2>3, <3>1, <3>2, <3>3, <3>4 DEF Call, acquire_engine
  <2>4. CASE \E t \in Threads : StartThread(t)
    BY <2>4, ClientGoes
  <2>5. CASE \E t \in Threads, q \in Processes : Fork(t, q)
    BY <2>5, ClientForks
  <2>6. CASE \E p \in Processes : WorkerLocks(p) \/ WorkerUnlocks(p)
    BY <2>6, ClientWorkers
  <2> QED
    BY <2>1, <2>3, <2>4, <2>5, <2>6 DEF ClientNext
<1> QED
  BY <1>1, <1>2, PTL DEF ClientSpec

\* A program that does not fork during the first use of a client, and whose
\* children start threads only after theirs: every process gets the engine that it
\* made itself, makes one, and destroys no other.
THEOREM EngineIsOwn ==
  ASSUME QuietFork, QuietChild
  PROVE  ClientSpec => []OwnEngine
<1>1. ClientInv => OwnEngine
  <2> SUFFICES ASSUME ClientInv PROVE OwnEngine
    OBVIOUS
  <2>1. ASSUME NEW t \in Threads, pc[t] = "return"
        PROVE  Maker(Of(t)) = Of(t)
    BY <2>1, Names DEF ClientInv, Inherited, Proper, Maker
  <2>2. ASSUME NEW p \in Processes
        PROVE  Cardinality({o \in Objects : made[p][o] = p}) <= 1
    <3> DEFINE S == {o \in Objects : made[p][o] = p}
    <3>1. S \subseteq {mem[p].engine}
      BY DEF ClientInv, Inherited, Proper
    <3>2. S = {} \/ S = {mem[p].engine}
      BY <3>1
    <3>3. Cardinality(S) = 0 \/ Cardinality(S) = 1
      BY <3>2, FS_EmptySet, FS_Singleton
    <3> QED
      BY <3>3
  <2>3. ASSUME NEW t \in Threads, pc[t] = "destroy"
        PROVE  Maker(Of(t)) \in {0, Of(t)}
    BY <2>3, Names DEF ClientInv, Inherited, Proper, Maker
  <2> QED
    BY <2>1, <2>2, <2>3 DEF OwnEngine
<1> QED
  BY <1>1, ClientInvAlways, PTL

\* In such a program no thread waits for a mutex that a thread of another process
\* holds, and none uses one that is gone.
THEOREM StaleIsUntouched ==
  ASSUME QuietFork, QuietChild
  PROVE  ClientSpec => []StaleUntouched
<1>1. ClientInv => StaleUntouched
  <2> SUFFICES ASSUME ClientInv, NEW t \in Threads
               PROVE  /\ pc[t] # "crashed"
                      /\ pc[t] = "lock" =>
                           held[Of(t)][mem[Of(t)].mutex]
                             \in {u \in Threads : Of(u) = Of(t)} \cup {Nobody}
                      /\ /\ pc[t] \in {"next", "free"}
                         /\ batch[Of(t)].holder = Worker
                         => batch[Of(t)].owner = Of(t)
    BY DEF StaleUntouched
  <2> DEFINE p == Of(t)
  <2>0. p \in Processes /\ ClientTypeOK /\ BatchAgrees(p)
    BY Names DEF ClientInv
  <2>1. pc[t] # "crashed"
    BY <2>0, Names DEF ClientInv, Inherited, Proper
  <2>2. ASSUME pc[t] = "lock"
        PROVE  held[p][mem[p].mutex] \in {u \in Threads : Of(u) = p} \cup {Nobody}
    <3>1. Proper(p)
      BY <2>0, <2>2 DEF ClientInv, Inherited
    <3>2. mem[p].mutex \in Objects
      BY <2>0, <3>1 DEF Proper, ClientTypeOK, Memory
    <3>3. held[p][mem[p].mutex] \in Threads \cup {Nobody}
      BY <2>0, <3>2 DEF ClientTypeOK
    <3> QED
      BY <3>1, <3>3 DEF Proper
  <2>3. pc[t] \in {"next", "free"} /\ batch[p].holder = Worker => batch[p].owner = p
    BY <2>0, Names DEF BatchAgrees
  <2> QED
    BY <2>1, <2>2, <2>3
<1> QED
  BY <1>1, ClientInvAlways, PTL
=============================================================================
