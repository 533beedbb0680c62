------------------------------ MODULE MCSystem ------------------------------
(***************************************************************************)
(* What karu does with the operating system: it runs helpers, it is used   *)
(* by programs that fork, and it writes files.  The three share no state,  *)
(* so a behaviour is about one of them, `part', and the others stand       *)
(* still: the command has returned, no thread calls, the downloads are     *)
(* over.                                                                   *)
(***************************************************************************)
EXTENDS MCProcess, MCClient, MCDownload

VARIABLE part

systemVars == <<part, vars, clientVars, downloadVars>>

\* No step is left that fairness could ask for.
CommandOver ==
    /\ env = [platform |-> "posix", timeout |-> FALSE, reaped |-> FALSE, job |-> FALSE]
    /\ at = "returned"
    /\ proc = [p \in Members |-> "absent"]
    /\ writers = {} /\ readEnd = FALSE /\ pipe = 0 /\ output = 0
    /\ closed = FALSE /\ finished = FALSE /\ late = TRUE
    /\ code = "none" /\ result = "error"

DownloadsOver ==
    /\ object = 1
    /\ destination = NoFile
    /\ temporary = [d \in Downloads |-> NoFile]
    /\ overwrite = {} /\ hard_links = TRUE
    /\ stage = [d \in Downloads |-> "failed"]
    /\ summary = [d \in Downloads |-> NoSummary]
    /\ slots = [d \in Downloads |-> <<>>]
    /\ next_chunk = [d \in Downloads |-> 0]
    /\ active = [d \in Downloads |-> 0]
    /\ cursor = [d \in Downloads |-> FirstLook]

SystemInit ==
    \/ part = "command" /\ Init /\ ClientInit /\ DownloadsOver
    \/ part = "client" /\ CommandOver /\ ClientInit /\ DownloadsOver
    \/ part = "download" /\ CommandOver /\ ClientInit /\ DownloadInit

SystemNext ==
    \/ part = "command" /\ Next /\ UNCHANGED <<part, clientVars, downloadVars>>
    \/ part = "client" /\ ClientNext /\ UNCHANGED <<part, vars, downloadVars>>
    \/ part = "download" /\ DownloadNext /\ UNCHANGED <<part, vars, clientVars>>

SystemSpec ==
    SystemInit /\ [][SystemNext]_systemVars /\ Fairness /\ DownloadFairness
=============================================================================
