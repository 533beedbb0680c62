---------------------------- MODULE HttpTransfer ----------------------------
(***************************************************************************)
(* One HTTP transfer from its first request to its result: the callbacks   *)
(* that libcurl runs on a response (src/runtime/transport.cpp), the verdict *)
(* on it (src/runtime/http_response.cpp) and what the I/O loop then does   *)
(* (src/runtime/engine.cpp).                                               *)
(*                                                                         *)
(* The object is replaced while it is read.  A byte is known by its        *)
(* version and its position in the object, so the bytes that end up in the *)
(* caller's buffer can be told apart.  An ETag is the version it stands    *)
(* for.  The server may ignore Range and If-Match, answer with another     *)
(* range or with another status of success, leave the ETag out and break   *)
(* off; it tells the truth in what it does send, and when it ignores an    *)
(* If-Match that fails it sends the ETag of what it serves: without        *)
(* either, nothing could be noticed.                                       *)
(* Redirects, transformed encodings and the drain of surplus bytes are left *)
(* out; one part takes all the bytes.  A 301 stands for any answer that    *)
(* names the bucket's region, a 401 for any that says that the credentials *)
(* have expired.                                                           *)
(***************************************************************************)
EXTENDS Integers

CONSTANTS
    Versions,               \* the versions of the object, also their ETags
    Size,                   \* Size[v]: bytes of version v
    NoTag,                  \* no ETag
    AnyTag,                 \* an If-Match of "*" or a list
    Conditions,             \* what the caller may ask for in if_match
    Cloud,                  \* the request is signed: it has a region and credentials
    OtherSuccess,           \* the statuses 2xx, but 200 and 206, of the server
    offset, length,         \* the bytes the transfer reads
    FallbackLimits,         \* what options.range_fallback_limit may be
    MaxAttempts,            \* options_.max_attempts
    UnreachableAttempts,    \* kUnreachableAttempts
    MaxChanges              \* bound: replacements of the object

ASSUME HttpAssumption ==
    /\ Size \in [Versions -> Nat]
    /\ NoTag \notin Versions /\ AnyTag \notin Versions /\ AnyTag # NoTag
    /\ Conditions \subseteq Versions \cup {NoTag, AnyTag}
    /\ Cloud \in BOOLEAN
    /\ OtherSuccess \subseteq 201 .. 299 \ {206}
    /\ offset \in Nat /\ length \in Nat \ {0}
    /\ FallbackLimits \subseteq Nat
    /\ MaxAttempts \in Nat \ {0} /\ UnreachableAttempts \in Nat \ {0}
    /\ MaxChanges \in Nat

VARIABLES
    if_match,               \* the caller's condition, or NoTag
    range_fallback_limit,   \* how many bytes may be skipped when Range is ignored
    version,                \* the version the server has
    changes,                \* how often it was replaced
    phase,                  \* "start", "request", "body", "ended", "finished"
    resumed, resume_etag,   \* bytes kept from earlier attempts, and their pin
    received,               \* bytes in the buffer
    buffer,                 \* buffer[i]: which byte is at position i
    response,               \* the answer of the server
    skip,                   \* bytes still to be dropped
    checked_status,         \* the first byte of the body has been seen
    version_changed, range_fallback_rejected, satisfied,
    code,                   \* libcurl's verdict on the exchange
    attempt, unreachable_attempts, credentials_retried, region_retried,
    result,                 \* the status of the completion, or "none"
    got,                    \* the bytes it reports
    sent                    \* requests sent so far

attemptVars == <<attempt, unreachable_attempts, credentials_retried, region_retried>>
verdictVars == <<skip, checked_status, version_changed,
                 range_fallback_rejected, satisfied>>
given == <<if_match, range_fallback_limit>>
httpVars == <<given, version, changes, phase, resumed, resume_etag, received, buffer,
              response, verdictVars, code, attemptVars, result, got,
              sent>>

Positions == 0 .. length - 1
NoByte == <<NoTag, 0>>
\* status 0: no answer yet.  first .. last and total are those of
\* Content-Range; the body has the bytes next .. stop - 1 of version `from'.
NoResponse == [status |-> 0, etag |-> NoTag, from |-> NoTag, first |-> 0,
               last |-> 0, total |-> FALSE, next |-> 0, stop |-> 0]

HttpInit ==
    /\ if_match \in Conditions
    /\ range_fallback_limit \in FallbackLimits
    /\ version \in Versions
    /\ changes = 0
    /\ phase = "start"
    /\ resumed = 0 /\ resume_etag = NoTag
    /\ received = 0
    /\ buffer = [i \in Positions |-> NoByte]
    /\ response = NoResponse
    /\ skip = 0 /\ checked_status = FALSE /\ version_changed = FALSE
    /\ range_fallback_rejected = FALSE /\ satisfied = FALSE
    /\ code = "none"
    /\ attempt = 0 /\ unreachable_attempts = 0
    /\ credentials_retried = FALSE /\ region_retried = FALSE
    /\ result = "none" /\ got = 0
    /\ sent = 0
-----------------------------------------------------------------------------
(***************************************************************************)
(* What is asked for, and what an answer is worth.                         *)
(***************************************************************************)
Strong(tag) == tag \in Versions
\* Mutant: a resumed request is not pinned to the version of the bytes it keeps.
PinOfCallerOnly == if_match

version_pin == IF if_match = NoTag THEN resume_etag ELSE if_match
requested_first == offset + resumed
requested_end == offset + length - 1

Successes == 200 .. 299
\* `data' of plan_resume: the answers whose place in the object is known.
Data == {200, 206}

contradicts_pin == Strong(version_pin) /\ response.etag \notin {NoTag, version_pin}

valid_content_range(r) ==
    /\ r.first = requested_first
    /\ r.last <= requested_end
    /\ r.last = requested_end \/ (r.total /\ r.last + 1 = Size[r.from])

\* Mutant: the length of a 206 body is not compared with its Content-Range.
SucceededUncounted ==
    /\ code = "ok" \/ satisfied
    /\ response.status \in Successes
    /\ response.status = 206 => valid_content_range(response)

succeeded ==
    /\ code = "ok" \/ satisfied
    /\ response.status \in Successes
    /\ response.status = 206 =>
          /\ valid_content_range(response)
          /\ received - resumed = response.last - response.first + 1

transient == code \in {"lost", "unreachable"} \/ response.status = 503

retryable ==
    \/ transient
    \/ /\ if_match = NoTag
       /\ version_changed \/ (response.status = 412 /\ resume_etag # NoTag)

failure ==
    IF version_changed
    THEN IF if_match # NoTag THEN "precondition" ELSE "http"
    ELSE IF response.status = 412 /\ if_match = NoTag /\ resume_etag # NoTag THEN "http"
    ELSE IF range_fallback_rejected THEN "http"
    ELSE IF response.status = 206 /\ ~valid_content_range(response) THEN "http"
    ELSE IF response.status = 401 THEN "auth"
    ELSE IF response.status = 404 THEN "not_found"
    ELSE IF response.status = 412 THEN "precondition"
    ELSE IF response.status = 416 THEN "range"
    ELSE IF response.status \in {301, 503} THEN "http"
    ELSE "network"

\* plan_resume: the new values of resumed and resume_etag.
plan_resume ==
    IF if_match = AnyTag THEN <<0, NoTag>>
    ELSE IF version_changed \/ (response.status = 412 /\ if_match = NoTag)
    THEN <<0, NoTag>>
    ELSE IF response.status \notin Data \/ received <= resumed \/ received >= length
    THEN <<resumed, resume_etag>>
    ELSE IF if_match = NoTag /\ resume_etag = NoTag
    THEN IF response.etag = NoTag THEN <<0, NoTag>> ELSE <<received, response.etag>>
    ELSE <<received, resume_etag>>
-----------------------------------------------------------------------------
(***************************************************************************)
(* The exchange.                                                           *)
(***************************************************************************)

\* start_transfer asks for what is missing; configure calls reset_response.
Start ==
    /\ phase = "start"
    /\ phase' = "request"
    /\ received' = resumed
    /\ response' = NoResponse
    /\ skip' = 0 /\ checked_status' = FALSE /\ version_changed' = FALSE
    /\ range_fallback_rejected' = FALSE /\ satisfied' = FALSE
    /\ code' = "none"
    /\ UNCHANGED <<version, changes, resumed, resume_etag, buffer, attemptVars,
                   result, got>>

\* The server has another version, or the first one again.
Replace ==
    /\ changes < MaxChanges
    /\ phase # "finished"
    /\ version' \in Versions \ {version}
    /\ changes' = changes + 1
    /\ UNCHANGED <<phase, resumed, resume_etag, received, buffer, response,
                   verdictVars, code, attemptVars, result, got>>

\* An answer of success: the whole object, some range of it, or, with a status
\* of its own, no body.  A body may be one byte shorter than its Content-Range
\* says.
Body(status, bytes) ==
    [NoResponse EXCEPT !.status = status, !.from = version, !.stop = bytes]
RangeOf(a, b, known, missing) ==
    [NoResponse EXCEPT !.status = 206, !.from = version, !.first = a, !.last = b,
                       !.total = known, !.next = a, !.stop = b + 1 - missing]
Contents ==
    {Body(200, Size[version])} \cup
    {Body(status, bytes) : status \in OtherSuccess, bytes \in {0, Size[version]}} \cup
    {RangeOf(a, b, known, missing) :
        a \in 0 .. Size[version] - 1, b \in 0 .. Size[version] - 1,
        known \in BOOLEAN, missing \in 0 .. 1}

Answers ==
    {[r EXCEPT !.etag = tag] :
        r \in {s \in Contents : s.first <= s.last},
        tag \in IF Strong(version_pin) /\ version_pin # version
                THEN {version} ELSE {version, NoTag}}
    \cup
    {[NoResponse EXCEPT !.status = s] :
        s \in {301, 401, 404, 416, 503} \cup
              (IF Strong(version_pin) /\ version_pin # version THEN {412} ELSE {})}

Respond ==
    /\ phase = "request"
    /\ phase' = "body"
    /\ \E r \in Answers : response' = r
    /\ UNCHANGED <<version, changes, resumed, resume_etag, received, buffer,
                   verdictVars, code, attemptVars, result, got>>

EndWith(c) ==
    /\ phase' = "ended"
    /\ code' = c

\* The exchange breaks off; before an answer, perhaps because there is no
\* connection.
Break ==
    /\ phase \in {"request", "body"}
    /\ \/ EndWith("lost")
       \/ phase = "request" /\ EndWith("unreachable")
    /\ UNCHANGED <<version, changes, resumed, resume_etag, received, buffer,
                   response, verdictVars, attemptVars, result, got>>

\* write_callback, on the first byte of a body: the checks that precede the
\* copy.  A check that fails makes libcurl end the exchange.
FirstByte ==
    /\ phase = "body"
    /\ response.next < response.stop
    /\ ~checked_status
    /\ checked_status' = TRUE
    /\ IF contradicts_pin
       THEN /\ version_changed' = TRUE
            /\ EndWith("write")
            /\ UNCHANGED <<resumed, received, skip, range_fallback_rejected>>
       ELSE IF response.status = 206
       THEN /\ IF valid_content_range(response) THEN UNCHANGED <<phase, code>>
                                               ELSE EndWith("write")
            /\ UNCHANGED <<resumed, received, skip, version_changed,
                           range_fallback_rejected>>
       ELSE IF response.status # 200
       THEN UNCHANGED <<phase, code, resumed, received, skip, version_changed,
                        range_fallback_rejected>>
       ELSE /\ resumed' = 0
            /\ received' = IF resumed > 0 THEN 0 ELSE received
            /\ skip' = IF offset > range_fallback_limit THEN 0 ELSE offset
            /\ range_fallback_rejected' = (offset > range_fallback_limit)
            /\ IF offset > range_fallback_limit THEN EndWith("write")
                                                ELSE UNCHANGED <<phase, code>>
            /\ UNCHANGED version_changed
    /\ UNCHANGED <<version, changes, resume_etag, buffer, response, satisfied,
                   attemptVars, result, got>>

\* write_callback on a byte: dropped while there is something to skip, stored
\* while there is room.
Byte ==
    /\ phase = "body"
    /\ response.next < response.stop
    /\ checked_status
    /\ ~satisfied
    /\ response' = [response EXCEPT !.next = @ + 1]
    /\ IF skip > 0
       THEN /\ skip' = skip - 1
            /\ UNCHANGED <<received, buffer, satisfied>>
       ELSE /\ buffer' = [buffer EXCEPT ![received] = <<response.from, response.next>>]
            /\ received' = received + 1
            /\ satisfied' = (received + 1 = length)
            /\ UNCHANGED skip
    /\ UNCHANGED <<version, changes, phase, resumed, resume_etag,
                   checked_status, version_changed, range_fallback_rejected,
                   code, attemptVars, result, got>>

\* The body is complete, or the rest of it is not worth draining.
EndBody ==
    /\ phase = "body"
    /\ \/ response.next = response.stop /\ EndWith("ok")
       \/ response.next < response.stop /\ satisfied /\ EndWith("write")
    /\ UNCHANGED <<version, changes, resumed, resume_etag, received, buffer,
                   response, verdictVars, attemptVars, result, got>>
-----------------------------------------------------------------------------
(***************************************************************************)
(* The message of curl_multi_info_read.                                    *)
(***************************************************************************)
Finish(status, bytes) ==
    /\ phase' = "finished"
    /\ result' = status
    /\ got' = bytes

\* deliver: what was read is complete, or the object ended before.
Success ==
    /\ phase = "ended"
    /\ succeeded
    /\ Finish(IF received = length THEN "ok" ELSE "range", received)
    /\ UNCHANGED <<version, changes, resumed, resume_etag, received, buffer,
                   response, verdictVars, code, attemptVars>>

\* The time limit: before the request is sent, or when it has failed.  A wait
\* for the next attempt that the limit leaves no time for is a Retry and then
\* this.
Timeout ==
    /\ phase \in {"start", "ended"}
    /\ ~(phase = "ended" /\ succeeded)
    /\ Finish("timeout", 0)
    /\ UNCHANGED <<version, changes, resumed, resume_etag, received, buffer,
                   response, verdictVars, code, attemptVars>>

wrong_region == Cloud /\ response.status = 301 /\ ~region_retried
credentials_expired == Cloud /\ response.status = 401 /\ ~credentials_retried

\* The request is signed again for the region that the answer names.
Resign ==
    /\ phase = "ended"
    /\ ~succeeded
    /\ wrong_region
    /\ region_retried' = TRUE
    /\ phase' = "start"
    /\ UNCHANGED <<version, changes, resumed, resume_etag, received, buffer,
                   response, verdictVars, code, attempt, unreachable_attempts,
                   credentials_retried, result, got>>

\* Mutant: the fresh lookup is not remembered.
RefreshAgain ==
    /\ phase = "ended"
    /\ ~succeeded
    /\ credentials_expired
    /\ phase' = "start"
    /\ UNCHANGED <<version, changes, resumed, resume_etag, received, buffer,
                   response, verdictVars, code, attemptVars, result, got>>

\* Expired credentials: a fresh lookup and the same request again.
Refresh ==
    /\ phase = "ended"
    /\ ~succeeded
    /\ credentials_expired
    /\ credentials_retried' = TRUE
    /\ phase' = "start"
    /\ UNCHANGED <<version, changes, resumed, resume_etag, received, buffer,
                   response, verdictVars, code, attempt, unreachable_attempts,
                   region_retried, result, got>>

Unreachable == unreachable_attempts + IF code = "unreachable" THEN 1 ELSE 0

MayRetry == /\ attempt + 1 < MaxAttempts
            /\ Unreachable < UnreachableAttempts
            /\ retryable

Retry ==
    /\ phase = "ended"
    /\ ~succeeded /\ ~wrong_region /\ ~credentials_expired
    /\ unreachable_attempts' = Unreachable
    /\ MayRetry
    /\ attempt' = attempt + 1
    /\ resumed' = plan_resume[1]
    /\ resume_etag' = plan_resume[2]
    /\ phase' = "start"
    /\ UNCHANGED <<version, changes, received, buffer, response, verdictVars,
                   code, credentials_retried, region_retried, result, got>>

Fail ==
    /\ phase = "ended"
    /\ ~succeeded /\ ~wrong_region /\ ~credentials_expired
    /\ ~MayRetry
    /\ unreachable_attempts' = Unreachable
    /\ Finish(failure, 0)
    /\ UNCHANGED <<version, changes, resumed, resume_etag, received, buffer,
                   response, verdictVars, code, attempt, credentials_retried,
                   region_retried>>

Finished == phase = "finished" /\ UNCHANGED httpVars

\* karu and libcurl; every exchange ends, at the latest by a time limit.
Proceed ==
    /\ \/ Start \/ FirstByte \/ Byte \/ EndBody \/ Break \/ Respond
       \/ Success \/ Timeout \/ Resign \/ Refresh \/ Retry \/ Fail
    /\ sent' = IF phase = "start" /\ phase' = "request" THEN sent + 1 ELSE sent
    /\ UNCHANGED given

HttpNext == Proceed \/ (Replace /\ UNCHANGED <<given, sent>>) \/ Finished

HttpSpec == HttpInit /\ [][HttpNext]_httpVars
-----------------------------------------------------------------------------
(***************************************************************************)
(* Properties.                                                             *)
(***************************************************************************)

From(v, n) == \A i \in 0 .. n - 1 : buffer[i] = <<v, offset + i>>

\* The same, but for the place of what a status other than 200 and 206 brought.
Placed(v, n) ==
    \A i \in 0 .. n - 1 :
        /\ buffer[i][1] = v
        /\ i < resumed \/ response.status \in Data => buffer[i][2] = offset + i

\* The bytes a completion reports are all of one version: however often the
\* read was interrupted, resumed, restarted or answered with another range,
\* versions are not mixed (transfer.hpp: "Keep partial data only when a strong
\* ETag pins it to one version").  Where the caller's if_match names a version
\* it is that one, even if the server ignores it.  And they are the requested
\* ones: those kept from earlier answers always, those of the last answer when
\* its status is 200 or 206 (what the others do: OkIsRequested).
OneVersion ==
    \E v \in Versions : Placed(v, got) /\ (Strong(if_match) => v = if_match)

\* After a 200 or 206 a read comes up short only at the end of the object: the
\* version of the answer has no byte at the next position, and the bytes are of
\* this version.  An object that has become empty is the exception: its body
\* passes no check in write_callback, and the bytes kept from the version before
\* are reported (under an if_match: ContradictedIsRefused).
ShortOnlyAtEnd ==
    result = "range" /\ response.status \in Data =>
        LET v == response.from
        IN  /\ Size[v] <= offset + got
            /\ Size[v] > 0 => From(v, got)

\* However the server fails, rejects, names a region or breaks off, and however
\* often the object is replaced under the read, a transfer sends at most max_attempts
\* requests, one more for another region and one more for fresh credentials:
\* these two are outside the retry budget, each is spent once, and no budget is
\* given back (engine.cpp:759).
RequestsAreBounded == sent <= MaxAttempts + 2

\* A read that is reported as complete has the bytes that were asked for, whatever
\* the status of success was (how-karu-reads.html: "OK means the requested bytes
\* arrived").
OkIsRequested == result = "ok" => \E v \in Versions : From(v, length)

\* An answer whose ETag contradicts a single strong if_match is not accepted
\* (karu.h: it "fails with KARU_ERR_PRECONDITION").
ContradictedIsRefused ==
    result \in {"ok", "range"} /\ Strong(if_match) => response.etag \in {NoTag, if_match}
=============================================================================
