----------------------------- MODULE MCRequests -----------------------------
(***************************************************************************)
(* What a request goes through: the options that hold for its path, the    *)
(* credentials that sign it, and the exchanges in which it is answered.    *)
(* Each of the three takes what the others give as any input, so a         *)
(* behaviour is about one of them, `part', and the others stay as they     *)
(* are.                                                                    *)
(***************************************************************************)
EXTENDS MCConfig, MCProviders, MCHttpTransfer

VARIABLE part

requestsVars == <<part, vars, providersVars, httpVars>>

NoConfig == env = Empty /\ builder = ConfigBuilder(Empty) /\ clients = {} /\ log = Empty

NoRequest ==
    /\ world = [backend |-> "http", settings |-> {}, discover |-> FALSE,
                callback |-> FALSE, file |-> "missing", entries |-> {}]
    /\ at = "done" /\ position = 1 /\ places = {}
    /\ loaded = Nothing /\ request = Pending

NoTransfer ==
    /\ if_match = NoTag /\ range_fallback_limit = 0 /\ version = v1
    /\ HttpInit

RequestsInit ==
    \/ part = "config" /\ NoRequest /\ NoTransfer /\ Init
    \/ part = "credentials" /\ NoConfig /\ NoTransfer /\ ProvidersInit
    \/ part = "transfer" /\ NoConfig /\ NoRequest /\ HttpInit

RequestsNext ==
    \/ part = "config" /\ Next /\ UNCHANGED <<part, providersVars, httpVars>>
    \/ part = "credentials" /\ ProvidersNext /\ UNCHANGED <<part, vars, httpVars>>
    \/ part = "transfer" /\ HttpNext /\ UNCHANGED <<part, vars, providersVars>>

\* The client or the request has been made.
Made ==
    /\ \/ part = "config" /\ (clients # {} \/ Len(log) = MaxCalls)
       \/ part = "credentials" /\ at = "done"
    /\ UNCHANGED requestsVars

RequestsSpec == RequestsInit /\ [][RequestsNext \/ Made]_requestsVars
=============================================================================
