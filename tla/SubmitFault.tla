---------------------------- MODULE SubmitFault ----------------------------
(***************************************************************************)
(* Engine::submit when memory runs out: a push_back of one of its queues   *)
(* throws.  The exception destroys the rest of the plan and then the batch *)
(* (both are local to submit), karu_client_submit returns KARU_ERR_NOMEM,  *)
(* and the caller, who has no batch to free, has its buffers back.         *)
(***************************************************************************)
EXTENDS Engine

\* The transfers that a loop of submit has to move, and the queue of each.
Planned(b) == {t \in TransfersOf(b) : place[t] = "plan"}

Queue(t) == IF Kind[t] = "http" THEN "http" ELSE IF Cloud(t) THEN "credential" ELSE "file"

\* Some of them have been queued before the push_back that throws.  A plain URL
\* gets into its queue in the second loop: in the first it is only set aside.
SubmitThrows(b) ==
    /\ stage[b] \in {"counted", "queued"}
    /\ \E moved \in SUBSET Planned(b) :
         /\ moved # Planned(b)
         /\ place' = [t \in Transfers |->
                IF t \notin Planned(b) THEN place[t]
                ELSE IF t \in moved /\ (Kind[t] = "http" => stage[b] = "queued") THEN Queue(t)
                ELSE "gone"]
    /\ stage' = [stage EXCEPT ![b] = "freed"]
    /\ UNCHANGED <<owner, flagVars, cancelled, countVars, resultVars, loopVars, engineVars>>

NextOrFault == Next \/ \E b \in Batches : SubmitThrows(b)

FaultSpec == Init /\ [][NextOrFault]_vars
=============================================================================
