------------------------------ MODULE Scatter ------------------------------
(***************************************************************************)
(* How the body of one transfer reaches the buffers of its parts:          *)
(* store_payload (src/runtime/transport.cpp) copies every chunk that       *)
(* libcurl hands over, pread fills a scratch buffer, and deliver           *)
(* (src/runtime/engine.cpp) reports what each part has got.                *)
(*                                                                         *)
(* Parts may overlap.  They and their order are the planner's (module      *)
(* PlanScatter).  A byte is known by its position in the transfer, so a    *)
(* byte in the wrong place is seen.                                        *)
(***************************************************************************)
EXTENDS Integers, Sequences

CONSTANT
    MaxRetries      \* bound: attempts after the first

VARIABLES
    parts,          \* the parts of the transfer
    transfer_length,\* the bytes it reads, from the first part's beginning on
    file,           \* a local file, read into a scratch buffer
    received,       \* bytes of the transfer received so far
    resumed,        \* those kept from earlier attempts
    scatter_cursor, \* the first part that the next chunk may touch
    buffer,         \* buffer[k][i]: the byte at position i of part k, or NoByte
    scratch,        \* scratch[i]: the byte at position i of the scratch buffer
    retries,
    completion      \* completion[k]: the status and the size of part k

vars == <<parts, transfer_length, file, received, resumed, scatter_cursor, buffer, scratch,
          retries, completion>>

NoByte == -1
Pending == [status |-> "none", got |-> 0]
End(k) == parts[k].relative_offset + parts[k].length
Positions(k) == 0 .. parts[k].length - 1

\* The only part is the transfer, so its buffer can take the body as it comes.
scattered ==
    \/ Len(parts) # 1
    \/ parts[1].relative_offset # 0
    \/ parts[1].length # transfer_length

\* No transfer yet.
Init ==
    /\ parts = <<>> /\ transfer_length = 0 /\ file = FALSE
    /\ received = 0 /\ resumed = 0
    /\ scatter_cursor = 1
    /\ buffer = <<>> /\ scratch = <<>>
    /\ retries = 0
    /\ completion = <<>>

\* A transfer of n bytes with the parts ps gets its buffers.
Begin(ps, n, local) ==
    /\ parts = <<>>
    /\ parts' = ps /\ transfer_length' = n /\ file' = local
    /\ received' = 0 /\ resumed' = 0
    /\ scatter_cursor' = 1
    /\ buffer' = [k \in DOMAIN ps |-> [i \in 0 .. ps[k].length - 1 |-> NoByte]]
    /\ scratch' = [i \in 0 .. n - 1 |-> NoByte]
    /\ retries' = 0
    /\ completion' = [k \in DOMAIN ps |-> Pending]
-----------------------------------------------------------------------------
Open == parts # <<>> /\ \A k \in DOMAIN parts : completion[k] = Pending

Smallest(S) == CHOOSE k \in S : \A m \in S : k <= m

\* The first part from the cursor on that ends after the chunk begins.
Advanced(begin) ==
    Smallest({k \in scatter_cursor .. Len(parts) : End(k) > begin}
                \cup {Len(parts) + 1})

\* The parts the copying loop visits: it stops at the first that begins after
\* the chunk.
Visited(from, stop) ==
    {k \in from .. Len(parts) :
        \A m \in from .. k : parts[m].relative_offset < stop}

store_payload(size) ==
    LET stop == received + size
        cursor == Advanced(received)
    IN  /\ ~file /\ Open
        /\ stop <= transfer_length
        /\ received' = stop
        /\ scatter_cursor' = IF scattered THEN cursor ELSE scatter_cursor
        /\ buffer' = [k \in DOMAIN parts |-> [i \in Positions(k) |->
             LET byte == parts[k].relative_offset + i
             IN  IF /\ ~scattered \/ k \in Visited(cursor, stop)
                    /\ received <= byte /\ byte < stop
                 THEN byte ELSE buffer[k][i]]]
        /\ UNCHANGED <<parts, transfer_length, file, resumed, scratch, retries, completion>>

\* read_file: some bytes follow in the scratch buffer, or in the only part.
Read(size) ==
    LET stop == received + size
    IN  /\ file /\ Open
        /\ stop <= transfer_length
        /\ received' = stop
        /\ IF scattered
           THEN /\ scratch' = [i \in DOMAIN scratch |->
                      IF received <= i /\ i < stop THEN i ELSE scratch[i]]
                /\ UNCHANGED buffer
           ELSE /\ buffer' = [buffer EXCEPT ![1] = [i \in Positions(1) |->
                      IF received <= i /\ i < stop THEN i ELSE @[i]]]
                /\ UNCHANGED scratch
        /\ UNCHANGED <<parts, transfer_length, file, resumed, scatter_cursor, retries, completion>>

\* What is left of the buffers when n bytes are kept: the rest is of a version
\* that nothing identifies.
Kept(n) == [k \in DOMAIN parts |-> [i \in Positions(k) |->
    IF parts[k].relative_offset + i < n THEN buffer[k][i] ELSE NoByte]]

\* Mutant: a new attempt keeps the cursor of the last one.
RetryKeepsCursor ==
    /\ ~file /\ Open
    /\ retries < MaxRetries
    /\ retries' = retries + 1
    /\ resumed' \in {0, received}
    /\ received' = resumed'
    /\ buffer' = Kept(resumed')
    /\ UNCHANGED <<parts, transfer_length, file, scatter_cursor, scratch, completion>>

\* Another attempt, from the beginning or from what is there: plan_resume and
\* then reset_response.
Retry ==
    /\ ~file /\ Open
    /\ retries < MaxRetries
    /\ retries' = retries + 1
    /\ resumed' \in {0, received}
    /\ received' = resumed'
    /\ buffer' = Kept(resumed')
    /\ scatter_cursor' = 1
    /\ UNCHANGED <<parts, transfer_length, file, scratch, completion>>

Got(k) ==
    IF End(k) <= received THEN parts[k].length
    ELSE IF received > parts[k].relative_offset
    THEN received - parts[k].relative_offset
    ELSE 0

\* The transfer has succeeded, perhaps at the end of the object: every part
\* gets its completion, and its bytes out of the scratch buffer.
deliver ==
    /\ Open
    /\ completion' = [k \in DOMAIN parts |->
         [status |-> IF Got(k) = parts[k].length THEN "ok" ELSE "range", got |-> Got(k)]]
    /\ buffer' = [k \in DOMAIN parts |-> [i \in Positions(k) |->
         IF file /\ scattered /\ i < Got(k) THEN scratch[parts[k].relative_offset + i]
                                          ELSE buffer[k][i]]]
    /\ UNCHANGED <<parts, transfer_length, file, received, resumed, scatter_cursor, scratch, retries>>

Next ==
    \/ \E size \in 1 .. transfer_length : store_payload(size) \/ Read(size)
    \/ Retry \/ deliver
-----------------------------------------------------------------------------
(***************************************************************************)
(* Properties.                                                             *)
(***************************************************************************)

\* The received bytes are in every part that asked for them, at their places,
\* however the body was cut into chunks, the parts overlap and attempts were
\* resumed; a byte is never in a wrong place.
BytesInPlace == \A k \in DOMAIN parts : \A i \in Positions(k) :
    LET byte == parts[k].relative_offset + i
    IN  /\ buffer[k][i] \in {NoByte, byte}
        /\ ~file /\ byte < received => buffer[k][i] = byte

\* "Only the first `got` bytes may be read" (karu.h:277): those a completion
\* reports are there, and a part that is short is reported as short.
ReportedBytesAreThere == \A k \in DOMAIN parts :
    /\ \A i \in 0 .. completion[k].got - 1 :
         buffer[k][i] = parts[k].relative_offset + i
    /\ completion[k].status = "ok" <=> completion[k].got = parts[k].length
=============================================================================
