------------------------------ MODULE ReadEnds ------------------------------
(***************************************************************************)
(* Both ends of an object in one call: Engine::read_ends, object_info and  *)
(* get_range (src/runtime/engine.cpp), and the synchronous range request   *)
(* under them, transport::get_range (src/runtime/transport.cpp).           *)
(*                                                                         *)
(* The head is read by a thread of its own while the caller's thread reads *)
(* the tail; each sends its request again after failures, and the object   *)
(* may be replaced between any two answers.  An answer is of one version.  *)
(* A byte is the version and the position it was read from.                *)
(***************************************************************************)
EXTENDS Integers, Sequences

CONSTANTS
    Sizes,          \* Sizes[v]: the bytes of version v of the object
    Tagged,         \* the versions that come with a strong ETag
    Windows,        \* the windows [offset, length] a locator may have
    Heads, Tails,   \* the sizes of the caller's buffers
    Unbounded,      \* the length of a window without an end
    FallbackLimit,  \* options.range_fallback_limit
    MaxAttempts     \* options.max_attempts

ASSUME EndsAssumption ==
    /\ Sizes \in Seq(Nat) /\ Sizes # <<>> /\ Tagged \subseteq DOMAIN Sizes
    /\ Unbounded \notin Nat
    /\ Windows \subseteq [offset : Nat, length : Nat \cup {Unbounded}]
    /\ Heads \subseteq Nat /\ Tails \subseteq Nat
    /\ FallbackLimit \in Nat /\ MaxAttempts \in Nat \ {0}

VARIABLES
    object,         \* the version of the object at the source
    call,           \* the call: window, backend, sizes of head and tail
    at,             \* where read_ends is
    job,            \* job[j]: a call of get_range
    head, tail,     \* the caller's buffers
    result          \* size and etag as the caller gets them

endsVars == <<object, call, at, job, head, tail, result>>

NoTag == 0
NoByte == <<0, 0>>
Jobs == {"head", "tail", "last"}
Smaller(a, b) == IF a < b THEN a ELSE b
Blank(n) == [i \in 1 .. n |-> NoByte]
Tag(v) == IF v \in Tagged THEN v ELSE NoTag
NoReply == [total |-> 0, got |-> 0, etag |-> NoTag, suffix_ignored |-> FALSE]
NoJob == [state |-> "none", first |-> 0, length |-> 0, suffix |-> FALSE,
          if_match |-> NoTag, attempt |-> 0, resent |-> {}, reply |-> NoReply]
NewJob(first, length, suffix, if_match) ==
    [NoJob EXCEPT !.state = "running", !.first = first, !.length = length,
                  !.suffix = suffix, !.if_match = if_match]

EndsInit ==
    /\ object = 1
    /\ call \in [window : Windows, backend : {"s3", "azure", "file"},
                 head : Heads, tail : Tails]
    /\ at = "start"
    /\ job = [j \in Jobs |-> NoJob]
    /\ head = Blank(call.head) /\ tail = Blank(call.tail)
    /\ result = [size |-> 0, etag |-> NoTag]
-----------------------------------------------------------------------------
(***************************************************************************)
(* The answers a server may give to a range request, and what becomes of   *)
(* one.  `fits': a 206 has a Content-Range that answers the request, any   *)
(* answer has the headers it needs and no encoding was applied.  `sent':   *)
(* the bytes of the body that arrive.  `broken': the connection fails      *)
(* after them.                                                             *)
(***************************************************************************)
FromByte(r, size) == IF r.suffix THEN size - Smaller(r.length, size) ELSE r.first
Until(r, size) == IF r.suffix THEN size ELSE Smaller(r.first + r.length, size)
Satisfiable(r, size) == FromByte(r, size) < Until(r, size)

Statuses(r) ==
    LET size == Sizes[object]
    IN  {200, 403, 404, 503}
          \cup (IF Satisfiable(r, size) THEN {206} ELSE {416})
          \cup (IF r.suffix THEN {416} ELSE {})
          \cup (IF r.if_match \notin {NoTag, Tag(object)} THEN {412} ELSE {})

\* The bytes of the body of a complete answer.
Body(r, status) ==
    LET size == Sizes[object]
    IN  CASE status = 206 -> Until(r, size) - FromByte(r, size)
          [] status = 200 -> size
          [] OTHER -> 0

Answers(r) ==
    [status : Statuses(r), fits : BOOLEAN, sent : 0 .. Sizes[object] + 1, broken : BOOLEAN]

\* libcurl notices a body that is shorter than its Content-Length, which a 206
\* need not have; a body can be longer only than its Content-Range.
Possible(r, a) ==
    /\ a.sent <= Body(r, a.status) + (IF a.status = 206 THEN 1 ELSE 0)
    /\ a.status = 200 /\ ~a.broken => a.sent = Body(r, 200)
    /\ a.status \notin {200, 206, 416} => a.fits

version_changed(r) == r.if_match # NoTag /\ Tag(object) \notin {NoTag, r.if_match}

\* start_body for a 200: a suffix of a longer object is not read to its end,
\* and no more than range_fallback_limit bytes are thrown away.
suffix_ignored(r) == r.suffix /\ Sizes[object] > r.length
fallback_rejected(r) == ~r.suffix /\ r.first > FallbackLimit
Takes(r, a) ==
    /\ a.fits /\ ~version_changed(r)
    /\ \/ a.status = 206
       \/ a.status = 200 /\ ~suffix_ignored(r) /\ ~fallback_rejected(r)

\* What the body callback has stored: `wanted' bytes from position First on.
wanted(r) ==
    LET size == Sizes[object]
    IN  IF Satisfiable(r, size) THEN Until(r, size) - FromByte(r, size) ELSE 0
stored(r, a) ==
    LET skip == IF a.status = 200 THEN FromByte(r, Sizes[object]) ELSE 0
    IN  IF ~Takes(r, a) \/ a.sent < skip THEN 0 ELSE Smaller(a.sent - skip, wanted(r))

\* The callback stops a body it does not want, or has enough of.
cut_short(r, a) ==
    /\ a.status \in {200, 206} /\ a.sent > 0
    /\ \/ ~Takes(r, a)
       \/ a.status = 200 /\ a.sent >= FromByte(r, Sizes[object]) /\ stored(r, a) = wanted(r)
Complete(r, a) == ~a.broken \/ cut_short(r, a)

Reply(r, a) ==
    [total |-> Sizes[object], got |-> stored(r, a), etag |-> Tag(object),
     suffix_ignored |-> r.suffix /\ a.status # 206 /\ suffix_ignored(r)]
\* A 416 gives the size, and the ETag if the server sends it with errors, too.
Unsatisfied(r) ==
    {[total |-> Sizes[object], got |-> 0, etag |-> e,
      suffix_ignored |-> r.suffix /\ Sizes[object] # 0] : e \in {NoTag, Tag(object)}}

\* The answers after which get_range returns a reply ...
Answered(r, a) ==
    /\ Complete(r, a) /\ a.fits
    /\ \/ a.status = 416 /\ (r.suffix \/ r.first >= Sizes[object])
       \/ a.status = 206 /\ a.sent = wanted(r) /\ ~version_changed(r)
       \/ a.status = 200 /\ ~version_changed(r) /\ ~fallback_rejected(r)

\* ... and after which it may send the request again: an answer that names
\* another region or rejects the credentials, each once, and a transient one
\* while there are attempts.
Reasons == IF call.backend = "s3" THEN {"region", "credentials"} ELSE {"credentials"}
Transient(r, a) ==
    /\ (a.broken /\ ~cut_short(r, a)) \/ a.status = 503
    /\ ~(a.status = 206 /\ a.sent > wanted(r))
    /\ r.attempt + 1 < MaxAttempts

\* The bytes an answer leaves at the beginning of a buffer.
Stored(buffer, r, a) ==
    [i \in DOMAIN buffer |->
        IF i <= stored(r, a) THEN <<object, FromByte(r, Sizes[object]) + i - 1>> ELSE buffer[i]]

\* One request of a job and its answer.
get_range(j) ==
    LET r == job[j]
    IN  /\ r.state = "running"
        /\ \E a \in Answers(r) :
             /\ Possible(r, a)
             /\ head' = IF j = "head" THEN Stored(head, r, a) ELSE head
             /\ tail' = IF j # "head" THEN Stored(tail, r, a) ELSE tail
             /\ \/ /\ Answered(r, a)
                   /\ \E reply \in IF a.status = 416 THEN Unsatisfied(r) ELSE {Reply(r, a)} :
                        job' = [job EXCEPT ![j].state = "replied", ![j].reply = reply]
                \/ /\ a.status = 403
                   /\ \E why \in Reasons \ r.resent :
                        job' = [job EXCEPT ![j].resent = @ \cup {why}]
                \/ /\ ~Answered(r, a) /\ Transient(r, a)
                   /\ job' = [job EXCEPT ![j].attempt = @ + 1]
                \/ /\ ~Answered(r, a) /\ ~Transient(r, a)
                   /\ job' = [job EXCEPT ![j].state = "failed"]
        /\ UNCHANGED <<object, call, at, result>>

\* A job fails without an answer: no handle, no credentials, the deadline, or
\* a host that cannot be reached.
GiveUp(j) ==
    /\ job[j].state = "running"
    /\ job' = [job EXCEPT ![j].state = "failed"]
    /\ UNCHANGED <<object, call, at, head, tail, result>>
-----------------------------------------------------------------------------
(***************************************************************************)
(* Engine::read_ends.                                                      *)
(***************************************************************************)
offset == call.window.offset
bounded == call.window.length # Unbounded
remote == call.backend # "file"
visible_size(total) ==
    IF bounded THEN call.window.length
    ELSE IF total > offset THEN total - offset ELSE 0

\* A bounded window knows where its tail starts; otherwise a suffix finds it,
\* but not on Azure.
by_suffix == ~bounded /\ call.tail > 0 /\ call.backend # "azure"
head_part ==
    IF bounded THEN Smaller(call.head, call.window.length)
    ELSE IF call.head = 0 /\ ~by_suffix THEN 1 ELSE call.head
tail_part ==
    IF by_suffix THEN call.tail
    ELSE IF bounded /\ call.window.length > head_part
    THEN Smaller(call.tail, call.window.length) ELSE 0

HeadJob == IF head_part = 0 THEN NoJob ELSE NewJob(offset, head_part, FALSE, NoTag)
TailJob ==
    IF tail_part = 0 THEN NoJob
    ELSE IF by_suffix THEN NewJob(0, tail_part, TRUE, NoTag)
    ELSE NewJob(offset + call.window.length - tail_part, tail_part, FALSE, NoTag)

\* object_info: a read of one byte, for its size and ETag.
StartInfo ==
    /\ at = "start" /\ remote
    /\ call.head = 0 /\ call.tail = 0
    /\ job' = [job EXCEPT !["head"] = NewJob(0, 1, FALSE, NoTag)]
    /\ at' = "info"
    /\ UNCHANGED <<object, call, head, tail, result>>

\* Both ends are asked for at once, where both are needed.
StartEnds ==
    /\ at = "start" /\ remote
    /\ call.head > 0 \/ call.tail > 0
    /\ job' = [job EXCEPT !["head"] = HeadJob, !["tail"] = TailJob]
    /\ at' = "ends"
    /\ UNCHANGED <<object, call, head, tail, result>>

head_reply == job["head"].reply
tail_reply == job["tail"].reply
head_sent == job["head"].state # "none"
tail_sent == job["tail"].state # "none"
Arrived == \A j \in Jobs : job[j].state \in {"none", "replied"}

\* Replies to separate requests must describe one version of the object.
same_version(left, right) ==
    /\ left.total = right.total
    /\ left.etag = NoTag \/ right.etag = NoTag \/ left.etag = right.etag

Return(size, etag) ==
    /\ at' = "ok"
    /\ result' = [size |-> size, etag |-> etag]
    /\ UNCHANGED <<object, call, job>>

Fail ==
    /\ at' = "failed"
    /\ UNCHANGED <<object, call, job, head, tail, result>>

\* A job has failed, and no other one is running any more.
JobFailed ==
    /\ at \in {"info", "ends", "last"}
    /\ \A j \in Jobs : job[j].state # "running"
    /\ \E j \in Jobs : job[j].state = "failed"
    /\ Fail

EndInfo ==
    /\ at = "info" /\ Arrived
    /\ Return(visible_size(head_reply.total), head_reply.etag)
    /\ UNCHANGED <<head, tail>>

known == IF head_sent THEN head_reply ELSE tail_reply
visible == visible_size(known.total)
head_length == Smaller(call.head, visible)
tail_length == Smaller(call.tail, visible)
etag == IF known.etag = NoTag THEN tail_reply.etag ELSE known.etag

\* The two replies are of two versions, or end within a bounded window.
Disagree ==
    \/ head_sent /\ tail_sent /\ ~same_version(head_reply, tail_reply)
    \/ bounded /\ head_sent /\ head_reply.got # head_part
    \/ bounded /\ tail_sent /\ tail_reply.got # tail_part

RejectEnds ==
    /\ at = "ends" /\ Arrived
    /\ Disagree
    /\ Fail

\* Mutant: a suffix stays where it was received.
SuffixAsReceived == tail
\* A suffix longer than what is visible begins before it.
SuffixMoved ==
    [i \in DOMAIN tail |-> IF by_suffix /\ i <= tail_length
                           THEN tail[tail_reply.got - tail_length + i] ELSE tail[i]]
TailFromHead ==
    [i \in DOMAIN tail |-> IF i <= tail_length THEN head[visible - tail_length + i]
                                               ELSE tail[i]]

TailReceived == tail_sent /\ ~tail_reply.suffix_ignored

\* The tail is there, or is part of the head.
EndEnds ==
    /\ at = "ends" /\ Arrived
    /\ ~Disagree
    /\ tail_length = 0 \/ TailReceived \/ visible <= head_length
    /\ tail' = IF tail_length = 0 THEN tail
               ELSE IF TailReceived THEN SuffixMoved ELSE TailFromHead
    /\ Return(visible, etag)
    /\ UNCHANGED head

\* The tail is asked for by its offset, on the version of the head.
StartLast ==
    /\ at = "ends" /\ Arrived
    /\ ~Disagree
    /\ tail_length > 0 /\ ~TailReceived /\ visible > head_length
    /\ job' = [job EXCEPT !["last"] =
                 NewJob(offset + visible - tail_length, tail_length, FALSE, etag)]
    /\ at' = "last"
    /\ UNCHANGED <<object, call, head, tail, result>>

EndLast ==
    /\ at = "last" /\ Arrived
    /\ UNCHANGED <<head, tail>>
    /\ IF same_version(job["last"].reply, known)
       THEN Return(visible, IF etag = NoTag THEN job["last"].reply.etag ELSE etag)
       ELSE Fail
-----------------------------------------------------------------------------
(***************************************************************************)
(* read_file_ends: the size, then the head, then the tail of a file, which *)
(* may be written in place meanwhile.                                      *)
(***************************************************************************)
FileRead(buffer, first, length) ==
    [i \in DOMAIN buffer |-> IF i <= length THEN <<object, first + i - 1>> ELSE buffer[i]]

FileSize ==
    /\ at = "start" /\ ~remote
    /\ result' = [result EXCEPT !.size = visible_size(Sizes[object])]
    /\ at' = "file head"
    /\ UNCHANGED <<object, call, job, head, tail>>

FileHead ==
    LET length == Smaller(call.head, result.size)
    IN  /\ at = "file head"
        /\ IF length = 0 \/ offset + length <= Sizes[object]
           THEN /\ head' = FileRead(head, offset, length)
                /\ at' = "file tail"
                /\ UNCHANGED <<object, call, job, tail, result>>
           ELSE Fail

FileTail ==
    LET length == Smaller(call.tail, result.size)
    IN  /\ at = "file tail"
        /\ IF length = 0 \/ offset + result.size <= Sizes[object]
           THEN /\ tail' = FileRead(tail, offset + result.size - length, length)
                /\ at' = "ok"
                /\ UNCHANGED <<object, call, job, head, result>>
           ELSE Fail

\* The file cannot be opened or read.
FileFails ==
    /\ ~remote /\ at \in {"start", "file head", "file tail"}
    /\ Fail
-----------------------------------------------------------------------------
\* The object is replaced at the source.
Replace ==
    /\ object < Len(Sizes)
    /\ object' = object + 1
    /\ UNCHANGED <<call, at, job, head, tail, result>>

Returned == at \in {"ok", "failed"} /\ UNCHANGED endsVars

read_ends ==
    \/ StartInfo \/ StartEnds \/ JobFailed \/ EndInfo \/ RejectEnds \/ EndEnds
    \/ StartLast \/ EndLast \/ FileSize \/ FileHead \/ FileTail
    \/ FileFails

EndsNext ==
    \/ \E j \in Jobs : get_range(j) \/ GiveUp(j)
    \/ read_ends \/ Replace \/ Returned

EndsSpec == EndsInit /\ [][EndsNext]_endsVars
-----------------------------------------------------------------------------
(***************************************************************************)
(* Properties.                                                             *)
(***************************************************************************)
Read(buffer) == {buffer[i] : i \in 1 .. Smaller(Len(buffer), result.size)}

\* "Each buffer receives min(length, size) bytes" (karu.h:170): whichever
\* requests the window, the backend and the answers led to, the head begins
\* where the window does, the tail ends where the reported size does, and no
\* byte is left over from an attempt that failed or was never written.
EndsInPlace == at = "ok" =>
    /\ \A i \in 1 .. Smaller(call.head, result.size) :
          head[i][1] # 0 /\ head[i][2] = offset + i - 1
    /\ \A i \in 1 .. Smaller(call.tail, result.size) :
          /\ tail[i][1] # 0
          /\ tail[i][2] = offset + result.size - Smaller(call.tail, result.size) + i - 1

\* "Responses whose sizes or strong ETags disagree return KARU_ERR_PRECONDITION"
\* (karu.h:174): where every version has a strong ETag, both ends are of one
\* version, the one the reported ETag names (download pins its chunks to it),
\* and an open window has that version's size.
EndsOfOneVersion == at = "ok" /\ remote =>
    \A b \in Read(head) \cup Read(tail) : b[1] \in Tagged =>
        /\ result.etag \in {NoTag, b[1]}
        /\ \A c \in Read(head) \cup Read(tail) : c[1] \in Tagged => c[1] = b[1]
        /\ ~bounded => result.size = visible_size(Sizes[b[1]])

\* What read_ends reports can be relied on: both ends are where they should be,
\* and they are ends of the same object (engine.cpp:1128).
EndsAreSound == EndsInPlace /\ EndsOfOneVersion
=============================================================================
