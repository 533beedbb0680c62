------------------------------ MODULE MCRanges ------------------------------
(***************************************************************************)
(* From what the caller names to bytes in its buffers: the window of a     *)
(* URI, the plan of a batch and the copying of its bodies, and read_ends.  *)
(* They share no state, so a behaviour is about one of them, `part', and   *)
(* the other two stay where they begin.                                    *)
(***************************************************************************)
EXTENDS MCLocator, MCPlanScatter, MCReadEnds

VARIABLE part

rangesVars == <<part, vars, allVars, endsVars>>

OneUri ==
    /\ uri = [depth |-> 0, layers |-> <<>>, target |-> "malformed",
              fragment |-> [present |-> FALSE, first |-> 0, last |-> 0, open |-> FALSE]]
    /\ size = 0
    /\ Init

OnePlan ==
    /\ options = CHOOSE o \in Options : TRUE
    /\ requests = <<CHOOSE c \in Candidates : TRUE>>
    /\ PlanInit

OneCall ==
    /\ call = [window |-> CHOOSE w \in Windows : TRUE, backend |-> "file",
               head |-> 0, tail |-> 0]
    /\ EndsInit

RangesInit ==
    \/ part = "uri" /\ OnePlan /\ OneCall /\ Init
    \/ part = "plan" /\ OneUri /\ OneCall /\ PlanInit
    \/ part = "ends" /\ OneUri /\ OnePlan /\ EndsInit

RangesNext ==
    \/ part = "uri" /\ Next /\ UNCHANGED <<part, allVars, endsVars>>
    \/ part = "plan" /\ PlanNext /\ UNCHANGED <<part, vars, endsVars>>
    \/ part = "ends" /\ EndsNext /\ UNCHANGED <<part, vars, allVars>>

\* A URI has its outcome.
UriResolved == part = "uri" /\ pc \notin {"descend", "unwind"} /\ UNCHANGED rangesVars

RangesSpec == RangesInit /\ [][RangesNext \/ UriResolved]_rangesVars
=============================================================================
