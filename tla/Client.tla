------------------------------- MODULE Client -------------------------------
(***************************************************************************)
(* A client handle and its batches across fork (client.hpp, karu.cpp).     *)
(*                                                                         *)
(* A forked child has a copy of the memory of its parent and a copy of     *)
(* the one thread that called fork: the mutexes of the client and of a     *)
(* batch may be locked by threads that the child does not have, and the    *)
(* engine's workers do not exist there.  acquire_engine notices by the     *)
(* owner's pid and replaces the mutex and the engine; batches carry the    *)
(* pid of the process that submitted them.  acquire_engine is taken access *)
(* by access, because it touches the client before it has a lock.          *)
(***************************************************************************)
EXTENDS Naturals, FiniteSets

CONSTANTS
    Processes,  \* pids, numbers from 1; a pid is not used twice
    Numbers,    \* numbers of the threads of a process, from 1
    QuietFork,  \* no thread forks while another one is in the first use of the client
    QuietChild  \* a child starts threads only after its first use of the client

ASSUME ClientAssumption ==
    /\ Processes \subseteq Nat \ {0} /\ 1 \in Processes
    /\ Numbers \subseteq Nat /\ 1 \in Numbers
    /\ QuietFork \in BOOLEAN /\ QuietChild \in BOOLEAN

Threads == Processes \X Numbers
Of(t) == t[1]

\* A mutex or an engine's place on the heap is named after the thread that made it.
First == <<0, 0>>
Null == <<0, 1>>
Objects == Threads \cup {First}
Nobody == <<0, 2>>
Worker == <<0, 3>>

VARIABLES
    pc,     \* where each thread is; "none" before it exists
    mem,    \* of each process: the members of the client
    held,   \* of each process: the thread that holds a mutex
    made,   \* of each process: the process that made the engine in a place, or 0
    dead,   \* of each process: objects that have been deleted
    batch   \* of each process: owner_process of the batch, or 0, and who holds its mutex

clientVars == <<pc, mem, held, made, dead, batch>>

NoBatch == [owner |-> 0, holder |-> Nobody]

ClientInit ==
    /\ pc = [t \in Threads |-> IF Of(t) = 1 THEN "idle" ELSE "none"]
    /\ mem = [p \in Processes |->
                 [owner |-> 0, mutex |-> First, engine |-> First, freed |-> FALSE]]
    /\ held = [p \in Processes |-> [o \in Objects |-> Nobody]]
    /\ made = [p \in Processes |-> [o \in Objects |-> 0]]
    /\ dead = [p \in Processes |-> {}]
    /\ batch = [p \in Processes |-> NoBatch]

Goto(t, l) == pc' = [pc EXCEPT ![t] = l]

Begins(t, l) ==
    /\ pc[t] = "idle"
    /\ ~mem[Of(t)].freed
    /\ Goto(t, l)

(***************************************************************************)
(* acquire_engine                                                          *)
(***************************************************************************)
Foreign(t) == mem[Of(t)].owner \notin {0, Of(t)}

\* The inherited mutex is kept.
LoadOwnerKeeping(t) ==
    /\ Begins(t, IF Foreign(t) THEN "engine" ELSE "lock")
    /\ UNCHANGED <<mem, held, made, dead, batch>>

LoadOwner(t) ==
    /\ Begins(t, IF Foreign(t) THEN "abandon" ELSE "lock")
    /\ UNCHANGED <<mem, held, made, dead, batch>>

\* mutex.release() and engine.release(), once the replacements exist.
Abandon(t) ==
    /\ pc[t] = "abandon"
    /\ mem' = [mem EXCEPT ![Of(t)].mutex = Null, ![Of(t)].engine = Null]
    /\ Goto(t, "mutex")
    /\ UNCHANGED <<held, made, dead, batch>>

\* The assignment to a unique_ptr deletes what it had.
Replace(t, field) ==
    /\ mem' = [mem EXCEPT ![Of(t)][field] = t]
    /\ dead' = [dead EXCEPT ![Of(t)] = @ \cup ({mem[Of(t)][field]} \ {Null})]
    /\ UNCHANGED <<held, made, batch>>

ReplaceMutex(t) == pc[t] = "mutex" /\ Replace(t, "mutex") /\ Goto(t, "engine")

ReplaceEngine(t) == pc[t] = "engine" /\ Replace(t, "engine") /\ Goto(t, "disown")

Disown(t) ==
    /\ pc[t] = "disown"
    /\ mem' = [mem EXCEPT ![Of(t)].owner = 0]
    /\ Goto(t, "lock")
    /\ UNCHANGED <<held, made, dead, batch>>

\* Dereferencing a null pointer or a deleted object ends in a crash.
Broken(p, o) == o = Null \/ o \in dead[p]

Crash(t) ==
    /\ \/ pc[t] = "lock" /\ Broken(Of(t), mem[Of(t)].mutex)
       \/ pc[t] \in {"make", "return"} /\ Broken(Of(t), mem[Of(t)].engine)
    /\ Goto(t, "crashed")
    /\ UNCHANGED <<mem, held, made, dead, batch>>

Lock(t) ==
    LET o == mem[Of(t)].mutex
    IN  /\ pc[t] = "lock"
        /\ ~Broken(Of(t), o)
        /\ held[Of(t)][o] = Nobody
        /\ held' = [held EXCEPT ![Of(t)][o] = t]
        /\ Goto(t, "make")
        /\ UNCHANGED <<mem, made, dead, batch>>

Unlocked(t) ==
    [held EXCEPT ![Of(t)] = [o \in Objects |-> IF @[o] = t THEN Nobody ELSE @[o]]]

\* The engine is made on first use; its constructor may throw.
Make(t) ==
    LET o == mem[Of(t)].engine
    IN  /\ pc[t] = "make"
        /\ ~Broken(Of(t), o)
        /\ \/ /\ made[Of(t)][o] # 0
              /\ Goto(t, "return")
              /\ UNCHANGED <<made, held>>
           \/ /\ made[Of(t)][o] = 0
              /\ made' = [made EXCEPT ![Of(t)][o] = Of(t)]
              /\ Goto(t, "own")
              /\ UNCHANGED held
           \/ /\ made[Of(t)][o] = 0
              /\ held' = Unlocked(t)
              /\ Goto(t, "idle")
              /\ UNCHANGED made
        /\ UNCHANGED <<mem, dead, batch>>

\* The owner is recorded when the engine is dropped, never by the first call.
OwnNot(t) ==
    /\ pc[t] = "own"
    /\ Goto(t, "return")
    /\ UNCHANGED <<mem, held, made, dead, batch>>

Own(t) ==
    /\ pc[t] = "own"
    /\ mem' = [mem EXCEPT ![Of(t)].owner = Of(t)]
    /\ Goto(t, "return")
    /\ UNCHANGED <<held, made, dead, batch>>

\* The lock is released and the engine used: a batch is submitted if there is none.
Return(t) ==
    LET p == Of(t)
    IN  /\ pc[t] = "return"
        /\ ~Broken(p, mem[p].engine)
        /\ held' = Unlocked(t)
        /\ batch' = [batch EXCEPT ![p] =
               IF @.owner = 0 THEN [owner |-> p, holder |-> Nobody] ELSE @]
        /\ Goto(t, "idle")
        /\ UNCHANGED <<mem, made, dead>>

acquire_engine(t) ==
    \/ LoadOwner(t) \/ Abandon(t) \/ ReplaceMutex(t) \/ ReplaceEngine(t) \/ Disown(t)
    \/ Lock(t) \/ Make(t) \/ Own(t) \/ Return(t) \/ Crash(t)

(***************************************************************************)
(* The destructor, called when no other thread uses the client             *)
(***************************************************************************)
FreeClient(t) ==
    LET p == Of(t)
    IN  /\ \A u \in Threads \ {t} : Of(u) = p => pc[u] \in {"none", "idle"}
        /\ Begins(t, IF Foreign(t) THEN "idle" ELSE "destroy")
        /\ mem' = [mem EXCEPT ![p].freed = TRUE]
        /\ UNCHANGED <<held, made, dead, batch>>

\* The members are deleted: an engine that was made joins its threads.
Destroy(t) ==
    /\ pc[t] = "destroy"
    /\ dead' = [dead EXCEPT ![Of(t)] = @ \cup {mem[Of(t)].mutex, mem[Of(t)].engine}]
    /\ Goto(t, "idle")
    /\ UNCHANGED <<mem, held, made, batch>>

(***************************************************************************)
(* Batches.  karu_batch_next, karu_batch_get_stats and karu_batch_free     *)
(* return at once when the batch is inherited.                             *)
(***************************************************************************)
inherited(p) == batch[p].owner # p

BatchNext(t) ==
    /\ batch[Of(t)].owner # 0
    /\ Begins(t, IF inherited(Of(t)) THEN "idle" ELSE "next")
    /\ UNCHANGED <<mem, held, made, dead, batch>>

\* The mutex of the batch is taken and given back.
NextDone(t) ==
    /\ pc[t] = "next"
    /\ batch[Of(t)].holder = Nobody
    /\ Goto(t, "idle")
    /\ UNCHANGED <<mem, held, made, dead, batch>>

BatchFree(t) ==
    /\ batch[Of(t)].owner # 0
    /\ \A u \in Threads : Of(u) = Of(t) => pc[u] \notin {"next", "free"}
    /\ Begins(t, IF inherited(Of(t)) THEN "idle" ELSE "free")
    /\ UNCHANGED <<mem, held, made, dead, batch>>

FreeDone(t) ==
    /\ pc[t] = "free"
    /\ batch[Of(t)].holder = Nobody
    /\ batch' = [batch EXCEPT ![Of(t)] = NoBatch]
    /\ Goto(t, "idle")
    /\ UNCHANGED <<mem, held, made, dead>>

\* A worker of the engine pushes a completion: it exists in the process that
\* submitted the batch.
WorkerLocks(p) ==
    /\ batch[p].owner = p /\ batch[p].holder = Nobody
    /\ batch' = [batch EXCEPT ![p].holder = Worker]
    /\ UNCHANGED <<pc, mem, held, made, dead>>

WorkerUnlocks(p) ==
    /\ batch[p].owner = p /\ batch[p].holder = Worker
    /\ batch' = [batch EXCEPT ![p].holder = Nobody]
    /\ UNCHANGED <<pc, mem, held, made, dead>>

Call(t) ==
    \/ acquire_engine(t)
    \/ FreeClient(t) \/ Destroy(t)
    \/ BatchNext(t) \/ NextDone(t) \/ BatchFree(t) \/ FreeDone(t)

(***************************************************************************)
(* fork, and a thread that a child starts                                  *)
(***************************************************************************)
Settled(p) == mem[p].owner = p

Copied(f, p, q) == [f EXCEPT ![q] = f[p]]

Fork(t, q) ==
    LET p == Of(t)
    IN  /\ pc[t] = "idle" /\ ~mem[p].freed
        /\ \A u \in Threads : Of(u) = q => pc[u] = "none"
        /\ QuietFork => \/ Settled(p)
                        \/ \A u \in Threads : Of(u) = p => pc[u] \in {"none", "idle"}
        /\ Goto(<<q, 1>>, "idle")
        /\ mem' = Copied(mem, p, q)
        /\ held' = Copied(held, p, q)
        /\ made' = Copied(made, p, q)
        /\ dead' = Copied(dead, p, q)
        /\ batch' = Copied(batch, p, q)

StartThread(t) ==
    /\ pc[t] = "none" /\ pc[<<Of(t), 1>>] = "idle"
    /\ QuietChild => Settled(Of(t))
    /\ Goto(t, "idle")
    /\ UNCHANGED <<mem, held, made, dead, batch>>

ClientNext ==
    \/ \E t \in Threads : Call(t) \/ StartThread(t) \/ \E q \in Processes : Fork(t, q)
    \/ \E p \in Processes : WorkerLocks(p) \/ WorkerUnlocks(p)

ClientSpec == ClientInit /\ [][ClientNext]_clientVars

\* The maker of the engine that the client of a process has, or 0.
Maker(p) == IF mem[p].engine = Null THEN 0 ELSE made[p][mem[p].engine]

(***************************************************************************)
(* Properties                                                              *)
(***************************************************************************)
\* A process only gets engines that it has made itself, all its calls get the
\* same one, and it destroys no other: an engine's threads exist in the process
\* that made it and nowhere else.
OwnEngine ==
    /\ \A t \in Threads : pc[t] = "return" => Maker(Of(t)) = Of(t)
    /\ \A p \in Processes : Cardinality({o \in Objects : made[p][o] = p}) <= 1
    /\ \A t \in Threads : pc[t] = "destroy" => Maker(Of(t)) \in {0, Of(t)}

\* No thread waits for a mutex that a thread of another process holds, neither
\* for the client's nor for that of a batch that was inherited while a worker of
\* the parent held it, and none uses a mutex that is gone: a child does not
\* touch stale thread state.
StaleUntouched ==
    \A t \in Threads :
        LET p == Of(t)
            mutex == mem[p].mutex
        IN  /\ pc[t] # "crashed"
            /\ pc[t] = "lock" /\ ~Broken(p, mutex) =>
                   held[p][mutex] \in {u \in Threads : Of(u) = p} \cup {Nobody}
            /\ pc[t] \in {"next", "free"} /\ batch[p].holder = Worker => batch[p].owner = p
=============================================================================
