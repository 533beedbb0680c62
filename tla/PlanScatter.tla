---------------------------- MODULE PlanScatter ----------------------------
(***************************************************************************)
(* From the ranges of a batch to their bytes: what plan_transfers has      *)
(* planned (module Planner) is what store_payload and deliver are given    *)
(* (module Scatter).  Nothing is assumed of a plan but that the planner    *)
(* made it; what the copying loop needs of the order and the overlaps of   *)
(* the parts is the planner's work.                                        *)
(*                                                                         *)
(* The transfers of a batch are independent of each other, so any one of   *)
(* them is followed.                                                       *)
(***************************************************************************)
EXTENDS Planner

CONSTANT MaxRetries

ASSUME RetriesAssumption == MaxRetries \in Nat

VARIABLES parts, transfer_length, file, received, resumed, scatter_cursor, buffer,
          scratch, retries, completion

S == INSTANCE Scatter

scatterVars == <<parts, transfer_length, file, received, resumed, scatter_cursor,
                 buffer, scratch, retries, completion>>
allVars == <<plannerVars, scatterVars>>

PlanInit == PlannerInit /\ S!Init

\* plan_transfers returns and its working state goes: one transfer of the plan
\* begins.
Fetch ==
    /\ stage = "done"
    /\ \E n \in DOMAIN transfers :
         S!Begin([k \in DOMAIN transfers[n].parts |->
                    [relative_offset |-> transfers[n].parts[k].relative_offset,
                     length |-> transfers[n].parts[k].length]],
                 transfers[n].length, transfers[n].object \in FileObjects)
    /\ stage' = "fetched"
    /\ options' = CHOOSE o \in Options : TRUE
    /\ requests' = <<>> /\ checked' = 0 /\ immediate' = {} /\ valid' = <<>>
    /\ next' = 0 /\ transfers' = <<>> /\ last_byte' = 0 /\ useful_bytes' = 0

\* The plan failed or held nothing to transfer, or the transfer is complete.
Over ==
    /\ stage \in {"nomem", "done", "fetched"} /\ ~S!Open
    /\ UNCHANGED allVars

PlanNext ==
    \/ PlannerNext /\ UNCHANGED scatterVars
    \/ Fetch
    \/ S!Next /\ UNCHANGED plannerVars
    \/ Over

PlanSpec == PlanInit /\ [][PlanNext]_allVars
-----------------------------------------------------------------------------
(***************************************************************************)
(* Properties.                                                             *)
(***************************************************************************)

\* The received bytes are in every part that asked for them, at their places,
\* however the planner merged the ranges, the body was cut into chunks, the
\* parts overlap and attempts were resumed (store_payload).
\* And "only the first `got` bytes may be read" (karu.h:277): those a completion
\* reports are there, and a part that is short is reported as short (deliver).
BytesInPlace == S!BytesInPlace /\ S!ReportedBytesAreThere
=============================================================================
