--------------------------- MODULE RequestsProofs ---------------------------
(***************************************************************************)
(* Proofs about an HTTP transfer, for every set of versions, their sizes,  *)
(* the bytes asked for, the limits and the number of replacements; about   *)
(* the source of a request's credentials, for every set of options and     *)
(* every file; and about the lookups of a configuration, for every table   *)
(* of options, every set of values and paths and any number of calls.      *)
(*                                                                         *)
(* A lookup walks over rules, the promise is about what callers said.      *)
(* Between the two stands LayersAgree: each map has what was last said of  *)
(* its scope, and every scope of which something was said has one rule,    *)
(* made by its first call.                                                 *)
(***************************************************************************)
EXTENDS Config, HttpTransfer, Providers, NaturalsInduction, WellFoundedInduction, TLAPS

Tags == Versions \cup {NoTag}
Response == [status : Nat, etag : Tags, from : Tags, first : Nat, last : Nat,
             total : BOOLEAN, next : Nat, stop : Nat]

HttpTypeOK ==
    /\ if_match \in Versions \cup {NoTag, AnyTag}
    /\ range_fallback_limit \in Nat
    /\ version \in Versions
    /\ phase \in {"start", "request", "body", "ended", "finished"}
    /\ resumed \in Nat /\ resume_etag \in Tags /\ received \in Nat
    /\ buffer \in [Positions -> Tags \X Nat]
    /\ response \in Response
    /\ skip \in Nat
    /\ checked_status \in BOOLEAN /\ version_changed \in BOOLEAN
    /\ range_fallback_rejected \in BOOLEAN /\ satisfied \in BOOLEAN
    /\ code \in {"none", "ok", "lost", "unreachable", "write"}
    /\ attempt \in Nat /\ unreachable_attempts \in Nat
    /\ credentials_retried \in BOOLEAN /\ region_retried \in BOOLEAN
    /\ got \in Nat /\ sent \in Nat

\* The requests that the attempts, the other region and the fresh credentials
\* account for; in "start" the next one has not been sent.
One(b) == IF b THEN 1 ELSE 0
Allowed == attempt + One(credentials_retried) + One(region_retried)
Budget ==
    /\ attempt < MaxAttempts
    /\ sent <= Allowed + 1
    /\ phase = "start" => sent <= Allowed

\* What is kept from earlier attempts is of the version that the next request
\* is pinned to.
Pinned ==
    /\ if_match # NoTag => resume_etag = NoTag
    /\ resumed < length
    /\ resumed > 0 => version_pin \in Versions /\ From(version_pin, resumed)

HasBody == response.status \in Successes

\* What is known of an answer.
AnswerAgrees ==
    phase \in {"body", "ended"} =>
        /\ HasBody =>
             /\ response.from \in Versions
             /\ response.etag \in {NoTag, response.from}
             /\ Strong(version_pin) /\ response.etag = NoTag => response.from = version_pin
        /\ response.status = 200 => response.stop = Size[response.from]
        /\ response.status = 206 => response.first <= response.last
        /\ response.next < response.stop => HasBody
        /\ ~checked_status =>
             /\ response.status = 200 => response.next = 0
             /\ response.status = 206 => response.next = response.first

\* Where the bytes go: once the first byte has passed the checks the buffer is of
\* one version, and the body of a 200 or 206 is at the byte that the buffer has
\* room for.
BodyAgrees ==
    phase \in {"request", "body", "ended"} =>
        /\ resumed <= received /\ received <= length
        /\ satisfied <=> received = length
        /\ ~checked_status => received = resumed /\ skip = 0
        /\ phase = "request" => ~checked_status /\ response = NoResponse
        /\ version_changed => phase = "ended" /\ code = "write" /\ ~satisfied
        /\ checked_status /\ ~version_changed =>
             HasBody /\ ~contradicts_pin /\ Placed(response.from, received)
        /\ phase = "body" /\ checked_status /\ response.status \in Data =>
             response.next + skip = offset + received
        /\ phase = "ended" /\ code = "ok" =>
             /\ response.next = response.stop
             /\ checked_status /\ response.status \in Data =>
                  response.next + skip = offset + received

Reported ==
    /\ phase # "finished" => result = "none" /\ got = 0
    /\ OneVersion
    /\ ShortOnlyAtEnd

HttpInv == HttpTypeOK /\ Budget /\ Pinned /\ AnswerAgrees /\ BodyAgrees /\ Reported

-----------------------------------------------------------------------------
(***************************************************************************)
(* What a server may answer.                                               *)
(***************************************************************************)
LEMMA AnswersFacts ==
  ASSUME HttpTypeOK, NEW r \in Answers
  PROVE  /\ r \in Response
         /\ r.status \in Successes =>
              /\ r.from \in Versions
              /\ r.etag \in {NoTag, r.from}
              /\ Strong(version_pin) /\ r.etag = NoTag => r.from = version_pin
         /\ r.status = 200 => r.stop = Size[r.from] /\ r.next = 0
         /\ r.status = 206 => r.first <= r.last /\ r.next = r.first
         /\ r.next < r.stop => r.status \in Successes
<1>0. /\ NoResponse \in Response /\ NoResponse.next = 0 /\ NoResponse.stop = 0
      /\ NoTag \in Tags /\ version \in Tags /\ version \in Versions
  BY DEF NoResponse, Response, Tags, HttpTypeOK
<1>1. ASSUME NEW s \in {301, 401, 404, 412, 416, 503},
             r = [NoResponse EXCEPT !.status = s]
      PROVE  r \in Response /\ r.status = s /\ r.next = 0 /\ r.stop = 0
  <2>1. r = [status |-> s, etag |-> NoTag, from |-> NoTag, first |-> 0,
             last |-> 0, total |-> FALSE, next |-> 0, stop |-> 0]
    BY <1>1, Zenon DEF NoResponse
  <2> QED
    BY <1>0, <2>1 DEF Response
<1>2. ASSUME NEW c \in Contents
      PROVE  /\ c \in Response /\ c.status \in Successes /\ c.from = version
             /\ c.status = 200 => c.stop = Size[version] /\ c.next = 0
             /\ c.status = 206 => c.next = c.first
  <2>0. Size[version] \in Nat
    BY <1>0, HttpAssumption
  <2>1. ASSUME NEW status \in Nat, NEW bytes \in Nat, c = Body(status, bytes)
        PROVE  /\ c \in Response /\ c.status = status /\ c.from = version
               /\ c.first = 0 /\ c.next = 0 /\ c.stop = bytes
    <3>1. c = [status |-> status, etag |-> NoTag, from |-> version, first |-> 0,
               last |-> 0, total |-> FALSE, next |-> 0, stop |-> bytes]
      BY <2>1, Zenon DEF NoResponse, Body
    <3> QED
      BY <1>0, <3>1 DEF Response
  <2>2. CASE \E a \in 0 .. Size[version] - 1, b \in 0 .. Size[version] - 1,
                known \in BOOLEAN, missing \in 0 .. 1 :
                c = RangeOf(a, b, known, missing)
    <3>1. PICK a \in 0 .. Size[version] - 1, b \in 0 .. Size[version] - 1,
               known \in BOOLEAN, missing \in 0 .. 1 :
               c = RangeOf(a, b, known, missing)
      BY <2>2
    <3>2. a \in Nat /\ b \in Nat /\ b + 1 - missing \in Nat
      BY <2>0
    <3>3. /\ c \in Response /\ c.status = 206 /\ c.from = version
          /\ c.first = a /\ c.last = b /\ c.next = a
      <4>1. c = [status |-> 206, etag |-> NoTag, from |-> version, first |-> a,
                 last |-> b, total |-> known, next |-> a, stop |-> b + 1 - missing]
        BY <3>1, Zenon DEF NoResponse, RangeOf
      <4> QED
        BY <1>0, <3>2, <4>1 DEF Response
    <3> QED
      BY <3>3 DEF Successes
  <2>3. CASE c = Body(200, Size[version])
    BY <2>0, <2>1, <2>3 DEF Successes
  <2>4. CASE \E status \in OtherSuccess, bytes \in {0, Size[version]} : c = Body(status, bytes)
    <3>1. PICK status \in OtherSuccess, bytes \in {0, Size[version]} : c = Body(status, bytes)
      BY <2>4
    <3>2. /\ status \in Nat /\ bytes \in Nat /\ status \in Successes
          /\ status # 200 /\ status # 206
      BY <2>0, HttpAssumption DEF Successes
    <3> QED
      BY <2>1, <3>1, <3>2
  <2>5. c \in Contents
    BY <1>2
  <2>6. \/ c = Body(200, Size[version])
        \/ \E status \in OtherSuccess, bytes \in {0, Size[version]} : c = Body(status, bytes)
        \/ \E a \in 0 .. Size[version] - 1, b \in 0 .. Size[version] - 1,
              known \in BOOLEAN, missing \in 0 .. 1 :
              c = RangeOf(a, b, known, missing)
    BY <2>5 DEF Contents
  <2> QED
    BY <2>2, <2>3, <2>4, <2>6
<1>3. CASE \E c \in {s \in Contents : s.first <= s.last},
              tag \in IF Strong(version_pin) /\ version_pin # version
                      THEN {version} ELSE {version, NoTag} :
              r = [c EXCEPT !.etag = tag]
  <2>1. PICK c \in {s \in Contents : s.first <= s.last},
             tag \in IF Strong(version_pin) /\ version_pin # version
                     THEN {version} ELSE {version, NoTag} :
             r = [c EXCEPT !.etag = tag]
    BY <1>3
  <2>2. /\ c \in Contents /\ c.first <= c.last /\ tag \in {version, NoTag}
        /\ Strong(version_pin) /\ version_pin # version => tag = version
    BY <2>1
  <2>3. /\ r \in Response /\ r.status \in Successes
        /\ r.from = version /\ r.etag = tag
        /\ r.status = 200 => r.stop = Size[version] /\ r.next = 0
        /\ r.status = 206 => r.first <= r.last /\ r.next = r.first
    <3>1. /\ c \in Response /\ c.status \in Successes /\ c.from = version
          /\ c.status = 200 => c.stop = Size[version] /\ c.next = 0
          /\ c.status = 206 => c.next = c.first
      BY <1>2, <2>2
    <3>2. tag \in Tags
      BY <1>0, <2>2 DEF Tags
    <3>3. /\ r \in Response /\ r.etag = tag /\ r.status = c.status
          /\ r.from = c.from /\ r.first = c.first /\ r.last = c.last
          /\ r.next = c.next /\ r.stop = c.stop
      BY <2>1, <3>1, <3>2 DEF Response
    <3> QED
      BY <2>2, <3>1, <3>3
  <2> QED
    BY <1>0, <2>2, <2>3, HttpAssumption
<1>4. CASE \E s \in {301, 401, 404, 412, 416, 503} : r = [NoResponse EXCEPT !.status = s]
  <2>1. PICK s \in {301, 401, 404, 412, 416, 503} : r = [NoResponse EXCEPT !.status = s]
    BY <1>4
  <2>2. r \in Response /\ r.status = s /\ r.next = 0 /\ r.stop = 0
    BY <1>1, <2>1
  <2> QED
    BY <2>2 DEF Successes
<1> QED
  BY <1>3, <1>4 DEF Answers

USE HttpAssumption

\* Bytes of a version at their places, and bytes that are only known to be of it.
LEMMA FromIsPlaced ==
  ASSUME NEW v, NEW n \in Nat, From(v, n)
  PROVE  Placed(v, n)
BY DEF From, Placed

LEMMA PlacedIsFrom ==
  ASSUME HttpTypeOK, NEW v, NEW n \in Nat, n <= length, Placed(v, n),
         response.status \in Data
  PROVE  From(v, n)
<1> SUFFICES ASSUME NEW i \in 0 .. n - 1 PROVE buffer[i] = <<v, offset + i>>
  BY DEF From
<1>1. buffer[i] \in Tags \X Nat
  BY DEF HttpTypeOK, Positions
<1>2. buffer[i][1] = v /\ buffer[i][2] = offset + i
  BY DEF Placed
<1> QED
  BY <1>1, <1>2

\* An answer that does not contradict the pin is of the pinned version.
LEMMA OfThePin ==
  ASSUME HttpInv, phase \in {"body", "ended"}, HasBody, ~contradicts_pin,
         Strong(version_pin)
  PROVE  response.from = version_pin
BY DEF HttpInv, AnswerAgrees, contradicts_pin

\* What succeeds has not seen another version.
LEMMA SuccessFacts ==
  ASSUME HttpInv, phase = "ended", succeeded
  PROVE  ~version_changed /\ HasBody /\ (received < length => code = "ok")
BY DEF HttpInv, HttpTypeOK, BodyAgrees, succeeded, HasBody

-----------------------------------------------------------------------------
(***************************************************************************)
(* The steps of a transfer.  Every one of them counts the requests it      *)
(* sends and keeps what the caller has asked for.                          *)
(***************************************************************************)
Counts ==
    /\ sent' = IF phase = "start" /\ phase' = "request" THEN sent + 1 ELSE sent
    /\ UNCHANGED given

\* A step that neither moves the pin nor touches the bytes that are kept.
LEMMA KeepsPinned ==
  ASSUME HttpInv, UNCHANGED <<if_match, resume_etag, resumed, buffer>>
  PROVE  Pinned'
BY DEF HttpInv, Pinned, version_pin, From

\* A step before the end that reports nothing.
LEMMA ReportsNothing ==
  ASSUME HttpInv, HttpTypeOK', phase # "finished", phase' # "finished",
         UNCHANGED <<if_match, result, got>>
  PROVE  Reported'
<1>1. result' = "none" /\ got' = 0
  BY DEF HttpInv, Reported
<1>2. OneVersion'
  <2>1. version \in Versions /\ (Strong(if_match) => if_match \in Versions)
    BY DEF HttpInv, HttpTypeOK, Strong
  <2>2. \A v \in Versions : Placed(v, 0)'
    BY DEF Placed
  <2>3. CASE Strong(if_match)
    BY <1>1, <2>1, <2>2, <2>3 DEF OneVersion
  <2>4. CASE ~Strong(if_match)
    BY <1>1, <2>1, <2>2, <2>4 DEF OneVersion, Strong
  <2> QED
    BY <2>3, <2>4
<1>3. ShortOnlyAtEnd'
  BY <1>1 DEF ShortOnlyAtEnd
<1> QED
  BY <1>1, <1>2, <1>3 DEF Reported

\* An end without bytes.
LEMMA ReportsFailure ==
  ASSUME HttpInv, NEW status, Finish(status, 0), UNCHANGED <<if_match, response>>,
         status = "range" => ~HasBody
  PROVE  Reported'
<1>1. result' = status /\ got' = 0 /\ phase' = "finished"
  BY DEF Finish
<1>2. OneVersion'
  <2>1. version \in Versions /\ (Strong(if_match) => if_match \in Versions)
    BY DEF HttpInv, HttpTypeOK, Strong
  <2>2. \A v \in Versions : Placed(v, 0)'
    BY DEF Placed
  <2>3. CASE Strong(if_match)
    BY <1>1, <2>1, <2>2, <2>3 DEF OneVersion
  <2>4. CASE ~Strong(if_match)
    BY <1>1, <2>1, <2>2, <2>4 DEF OneVersion, Strong
  <2> QED
    BY <2>3, <2>4
<1>3. ShortOnlyAtEnd'
  BY <1>1 DEF ShortOnlyAtEnd, HasBody, Data, Successes
<1> QED
  BY <1>1, <1>2, <1>3 DEF Reported

LEMMA StartKeeps ==
  ASSUME HttpInv, Start, Counts
  PROVE  HttpInv'
<1>0. NoResponse \in Response
  BY DEF NoResponse, Response, Tags
<1>1. HttpTypeOK'
  <2>1. sent' \in Nat /\ skip' \in Nat
    BY DEF HttpInv, HttpTypeOK, Start, Counts
  <2>2. HttpTypeOK
    BY DEF HttpInv
  <2> QED
    BY <1>0, <2>1, <2>2, Zenon DEF HttpTypeOK, Start, Counts, given, attemptVars
<1>2. Budget'
  BY DEF HttpInv, HttpTypeOK, Budget, Allowed, One, Start, Counts, attemptVars
<1>3. Pinned'
  BY KeepsPinned DEF Start, Counts, given
<1>4. AnswerAgrees'
  BY DEF AnswerAgrees, Start
<1>5. BodyAgrees'
  BY DEF HttpInv, HttpTypeOK, Pinned, BodyAgrees, Start
<1>6. Reported'
  BY <1>1, ReportsNothing DEF Start, Counts, given
<1> QED
  BY <1>1, <1>2, <1>3, <1>4, <1>5, <1>6 DEF HttpInv

LEMMA RespondKeeps ==
  ASSUME HttpInv, Respond, Counts
  PROVE  HttpInv'
<1>0. response' \in Answers /\ HttpTypeOK
  BY DEF Respond, HttpInv
<1>1. HttpTypeOK'
  BY <1>0, AnswersFacts DEF HttpTypeOK, Respond, Counts, given, attemptVars, verdictVars
<1>2. Budget'
  BY DEF HttpInv, HttpTypeOK, Budget, Allowed, One, Respond, Counts, attemptVars
<1>3. Pinned'
  BY KeepsPinned DEF Respond, Counts, given
<1>4. AnswerAgrees'
  <2>1. version_pin' = version_pin
    BY DEF version_pin, Respond, Counts, given
  <2> QED
    BY <1>0, <2>1, AnswersFacts DEF AnswerAgrees, HasBody, Strong
<1>5. BodyAgrees'
  BY DEF HttpInv, HttpTypeOK, BodyAgrees, Respond, verdictVars
<1>6. Reported'
  BY <1>1, ReportsNothing DEF Respond, Counts, given
<1> QED
  BY <1>1, <1>2, <1>3, <1>4, <1>5, <1>6 DEF HttpInv

LEMMA BreakKeeps ==
  ASSUME HttpInv, Break, Counts
  PROVE  HttpInv'
<1>1. HttpTypeOK'
  BY DEF HttpInv, HttpTypeOK, Break, EndWith, Counts, given, attemptVars, verdictVars
<1>2. Budget'
  BY DEF HttpInv, HttpTypeOK, Budget, Allowed, One, Break, EndWith, Counts, attemptVars
<1>3. Pinned'
  BY KeepsPinned DEF Break, Counts, given
<1>4. version_pin' = version_pin
  BY DEF version_pin, Break, Counts, given
<1>5. AnswerAgrees'
  <2>1. CASE phase = "body"
    BY <1>4, <2>1 DEF HttpInv, AnswerAgrees, HasBody, Strong, Break, EndWith, verdictVars
  <2>2. CASE phase = "request"
    BY <1>4, <2>2 DEF HttpInv, AnswerAgrees, BodyAgrees, HasBody, Successes, NoResponse, Break, EndWith
  <2> QED
    BY <2>1, <2>2 DEF Break
<1>6. BodyAgrees'
  BY <1>4 DEF HttpInv, HttpTypeOK, BodyAgrees, HasBody, contradicts_pin, Strong, Placed,
              Break, EndWith, verdictVars
<1>7. Reported'
  BY <1>1, ReportsNothing DEF Break, EndWith, Counts, given
<1> QED
  BY <1>1, <1>2, <1>3, <1>5, <1>6, <1>7 DEF HttpInv

LEMMA FirstByteKeeps ==
  ASSUME HttpInv, FirstByte, Counts
  PROVE  HttpInv'
<1>0. /\ phase = "body" /\ phase' \in {"body", "ended"} /\ HasBody
      /\ ~checked_status /\ checked_status' = TRUE
      /\ received = resumed /\ skip = 0 /\ ~satisfied /\ ~version_changed
  <2>1. phase = "body" /\ ~checked_status /\ checked_status' = TRUE /\ HasBody
    BY DEF HttpInv, AnswerAgrees, FirstByte
  <2>2. received = resumed /\ skip = 0 /\ ~satisfied /\ ~version_changed
    BY <2>1 DEF HttpInv, HttpTypeOK, Pinned, BodyAgrees
  <2>3. phase' \in {"body", "ended"}
    BY <2>1 DEF FirstByte, EndWith
  <2> QED
    BY <2>1, <2>2, <2>3
<1>1. HttpTypeOK'
  <2>1. sent' \in Nat /\ skip' \in Nat /\ received' \in Nat /\ resumed' \in Nat
    BY DEF HttpInv, HttpTypeOK, FirstByte, EndWith, Counts
  <2>2. HttpTypeOK
    BY DEF HttpInv
  <2>3. /\ code' \in {"none", "ok", "lost", "unreachable", "write"}
        /\ phase' \in {"start", "request", "body", "ended", "finished"}
    BY <2>2 DEF HttpTypeOK, FirstByte, EndWith
  <2>4. version_changed' \in BOOLEAN /\ range_fallback_rejected' \in BOOLEAN
    <3>1. (offset > range_fallback_limit) \in BOOLEAN
      OBVIOUS
    <3>2. version_changed' = TRUE \/ version_changed' = version_changed
      BY Zenon DEF FirstByte
    <3>3. \/ range_fallback_rejected' = range_fallback_rejected
          \/ range_fallback_rejected' = (offset > range_fallback_limit)
      BY Zenon DEF FirstByte
    <3>4. version_changed \in BOOLEAN /\ range_fallback_rejected \in BOOLEAN
      BY <2>2, Zenon DEF HttpTypeOK
    <3> QED
      BY <3>1, <3>2, <3>3, <3>4, Zenon
  <2> QED
    BY <1>0, <2>1, <2>2, <2>3, <2>4, Zenon
       DEF HttpTypeOK, FirstByte, Counts, given, attemptVars
<1>2. Budget'
  BY <1>0 DEF HttpInv, HttpTypeOK, Budget, Allowed, One, FirstByte, Counts, attemptVars
<1>3. /\ version_pin' = version_pin /\ response' = response /\ buffer' = buffer
      /\ satisfied' = satisfied /\ if_match' = if_match /\ resume_etag' = resume_etag
  BY DEF version_pin, FirstByte, Counts, given
<1>4. Pinned'
  BY <1>3 DEF HttpInv, HttpTypeOK, Pinned, From, FirstByte
<1>5. AnswerAgrees'
  BY <1>0, <1>3 DEF HttpInv, AnswerAgrees, HasBody, Strong
<1>6. BodyAgrees'
  <2>1. CASE contradicts_pin
    <3>1. phase' = "ended" /\ code' = "write" /\ version_changed' = TRUE
          /\ resumed' = resumed /\ received' = received
      BY <2>1 DEF FirstByte, EndWith
    <3> QED
      BY <1>0, <1>3, <3>1 DEF HttpInv, BodyAgrees
  <2>2. CASE ~contradicts_pin /\ response.status # 200
    <3>1. /\ resumed' = resumed /\ received' = received /\ skip' = skip
          /\ version_changed' = version_changed
          /\ \/ phase' = "ended" /\ code' = "write"
             \/ phase' = "body" /\ (response.status = 206 => valid_content_range(response))
      BY <1>0, <2>2 DEF FirstByte, EndWith
    <3>2. ~contradicts_pin'
      BY <1>3, <2>2 DEF contradicts_pin, Strong
    <3>3. From(response.from, received) /\ received \in Nat
      <4>1. CASE resumed = 0
        BY <1>0, <4>1 DEF From
      <4>2. CASE resumed > 0
        BY <1>0, <2>2, <4>2, OfThePin DEF HttpInv, HttpTypeOK, Pinned, Strong
      <4> QED
        BY <4>1, <4>2 DEF HttpInv, HttpTypeOK
    <3>4. Placed(response.from, received)
      BY <3>3, FromIsPlaced
    <3>5. Placed(response.from, received)'
      BY <1>3, <3>1, <3>4 DEF Placed
    <3>6. phase' = "body" /\ response.status \in Data =>
            response.next + skip = offset + received
      BY <1>0, <2>2, <3>1 DEF HttpInv, HttpTypeOK, Response, AnswerAgrees, Data,
                              valid_content_range, requested_first
    <3> QED
      BY <1>0, <1>3, <3>1, <3>2, <3>5, <3>6 DEF HttpInv, BodyAgrees, HasBody
  <2>3. CASE ~contradicts_pin /\ response.status = 200
    <3>1. /\ resumed' = 0 /\ received' = 0
          /\ version_changed' = version_changed
          /\ \/ phase' = "ended" /\ code' = "write"
             \/ phase' = "body" /\ skip' = offset
      BY <1>0, <2>3 DEF HttpInv, HttpTypeOK, FirstByte, EndWith
    <3>2. ~contradicts_pin'
      BY <1>3, <2>3 DEF contradicts_pin, Strong
    <3>3. Placed(response.from, received)'
      BY <3>1 DEF Placed
    <3>4. response.next = 0
      BY <1>0, <2>3 DEF HttpInv, AnswerAgrees
    <3>5. ~satisfied' /\ 0 < length /\ HasBody'
      BY <1>0, <1>3 DEF HasBody
    <3> QED
      BY <1>0, <1>3, <3>1, <3>2, <3>3, <3>4, <3>5 DEF BodyAgrees
  <2> QED
    BY <2>1, <2>2, <2>3
<1>7. Reported'
  BY <1>0, <1>1, ReportsNothing DEF FirstByte, Counts, given
<1> QED
  BY <1>1, <1>2, <1>4, <1>5, <1>6, <1>7 DEF HttpInv

LEMMA ByteKeeps ==
  ASSUME HttpInv, Byte, Counts
  PROVE  HttpInv'
<1>0. /\ phase = "body" /\ phase' = "body" /\ checked_status /\ ~satisfied
      /\ HasBody /\ ~version_changed /\ response \in Response
      /\ received < length /\ received \in Nat /\ skip \in Nat
      /\ Placed(response.from, received) /\ ~contradicts_pin
      /\ response.status \in Data => response.next + skip = offset + received
      /\ resumed \in Nat /\ resumed <= received
      /\ response.from \in Versions
  BY DEF HttpInv, HttpTypeOK, AnswerAgrees, BodyAgrees, Byte
<1>1. /\ response' \in Response /\ response'.status = response.status
      /\ response'.etag = response.etag /\ response'.from = response.from
      /\ response'.first = response.first /\ response'.last = response.last
      /\ response'.next = response.next + 1 /\ response'.stop = response.stop
  BY <1>0 DEF Byte, Response
<1>2. /\ version_pin' = version_pin /\ resumed' = resumed /\ if_match' = if_match
      /\ resume_etag' = resume_etag /\ checked_status' = checked_status
      /\ version_changed' = version_changed
  BY DEF version_pin, Byte, Counts, given
<1>3. CASE skip > 0
  <2>1. skip' = skip - 1 /\ received' = received /\ buffer' = buffer /\ satisfied' = satisfied
    BY <1>3 DEF Byte
  <2>2. HttpTypeOK'
    BY <1>0, <1>1, <1>3, <2>1 DEF HttpInv, HttpTypeOK, Byte, Counts, given, attemptVars
  <2>3. Budget'
    BY <1>0 DEF HttpInv, HttpTypeOK, Budget, Allowed, One, Byte, Counts, attemptVars
  <2>4. Pinned'
    BY <1>2, <2>1, KeepsPinned
  <2>5. AnswerAgrees'
    BY <1>0, <1>1, <1>2 DEF HttpInv, AnswerAgrees, HasBody, Strong
  <2>6. Placed(response.from, received)' /\ ~contradicts_pin' /\ HasBody'
    BY <1>0, <1>1, <1>2, <2>1 DEF Placed, contradicts_pin, Strong, HasBody
  <2>7. response'.status \in Data => response'.next + skip' = offset + received'
    BY <1>0, <1>1, <2>1 DEF Response
  <2>8. BodyAgrees'
    BY <1>0, <1>2, <2>1, <2>6, <2>7 DEF HttpInv, HttpTypeOK, BodyAgrees
  <2>9. Reported'
    BY <1>0, <2>2, ReportsNothing DEF Byte, Counts, given
  <2> QED
    BY <2>2, <2>3, <2>4, <2>5, <2>8, <2>9 DEF HttpInv
<1>4. CASE skip = 0
  <2>1. /\ skip' = skip /\ received' = received + 1
        /\ buffer' = [buffer EXCEPT ![received] = <<response.from, response.next>>]
        /\ satisfied' = (received + 1 = length)
    BY <1>4 DEF Byte
  <2>2. /\ buffer \in [Positions -> Tags \X Nat] /\ received \in Positions
        /\ <<response.from, response.next>> \in Tags \X Nat
    <3>1. received \in Positions
      BY <1>0 DEF Positions
    <3>2. response.from \in Tags /\ response.next \in Nat
      BY <1>0 DEF Tags, Response
    <3> QED
      BY <3>1, <3>2 DEF HttpInv, HttpTypeOK
  <2>3. buffer' \in [Positions -> Tags \X Nat]
    BY <2>1, <2>2
  <2>4. HttpTypeOK'
    <3>1. HttpTypeOK /\ received' \in Nat /\ sent' \in Nat
      BY <1>0, <2>1 DEF HttpInv, HttpTypeOK, Counts
    <3>2. satisfied' \in BOOLEAN
      BY <2>1
    <3> QED
      BY <1>0, <1>1, <2>1, <2>3, <3>1, <3>2, Zenon
         DEF HttpTypeOK, Byte, Counts, given, attemptVars
  <2>5. Budget'
    BY <1>0 DEF HttpInv, HttpTypeOK, Budget, Allowed, One, Byte, Counts, attemptVars
  <2>6. response.status \in Data => response.next = offset + received
    BY <1>0, <1>4 DEF Response
  <2>7. Placed(response.from, received)'
    <3> SUFFICES ASSUME NEW i \in 0 .. received
                 PROVE  /\ buffer'[i][1] = response.from
                        /\ i < resumed \/ response.status \in Data =>
                             buffer'[i][2] = offset + i
      BY <1>0, <1>1, <1>2, <2>1 DEF Placed
    <3>1. CASE i = received
      <4>1. buffer'[i] = <<response.from, response.next>>
        BY <2>1, <2>2, <3>1
      <4>2. ~(i < resumed)
        BY <1>0, <3>1
      <4> QED
        BY <2>6, <3>1, <4>1, <4>2
    <3>2. CASE i # received
      <4>1. buffer'[i] = buffer[i] /\ i \in 0 .. received - 1
        BY <1>0, <2>1, <2>2, <3>2 DEF Positions
      <4> QED
        BY <1>0, <4>1 DEF Placed
    <3> QED
      BY <3>1, <3>2
  <2>8. Pinned'
    <3>1. resumed > 0 => version_pin \in Versions /\ From(version_pin, resumed)
      BY DEF HttpInv, Pinned
    <3>2. ASSUME From(version_pin, resumed)
          PROVE  From(version_pin, resumed)'
      <4> SUFFICES ASSUME NEW i \in 0 .. resumed - 1
                   PROVE  buffer'[i] = <<version_pin, offset + i>>
        BY <1>2 DEF From
      <4>1. i # received /\ i \in Positions
        BY <1>0 DEF Positions
      <4>2. buffer'[i] = buffer[i]
        BY <2>1, <2>2, <4>1
      <4>3. buffer[i] = <<version_pin, offset + i>>
        BY <3>2 DEF From
      <4> QED
        BY <4>2, <4>3
    <3> QED
      BY <1>2, <3>1, <3>2 DEF HttpInv, Pinned
  <2>9. AnswerAgrees'
    BY <1>0, <1>1, <1>2 DEF HttpInv, AnswerAgrees, HasBody, Strong
  <2>10. ~contradicts_pin' /\ HasBody'
    BY <1>0, <1>1, <1>2 DEF contradicts_pin, Strong, HasBody
  <2>11. response'.status \in Data => response'.next + skip' = offset + received'
    BY <1>0, <1>1, <2>1 DEF Response
  <2>12. BodyAgrees'
    <3>1. resumed' <= received' /\ received' <= length
      BY <1>0, <1>2, <2>1
    <3>2. satisfied' <=> received' = length
      BY <2>1, Zenon
    <3> QED
      BY <1>0, <1>2, <2>7, <2>10, <2>11, <3>1, <3>2 DEF BodyAgrees
  <2>13. Reported'
    BY <1>0, <2>4, ReportsNothing DEF Byte, Counts, given
  <2> QED
    BY <2>4, <2>5, <2>8, <2>9, <2>12, <2>13 DEF HttpInv
<1> QED
  BY <1>0, <1>3, <1>4

LEMMA EndBodyKeeps ==
  ASSUME HttpInv, EndBody, Counts
  PROVE  HttpInv'
<1>1. HttpTypeOK'
  BY DEF HttpInv, HttpTypeOK, EndBody, EndWith, Counts, given, attemptVars, verdictVars
<1>2. Budget'
  BY DEF HttpInv, HttpTypeOK, Budget, Allowed, One, EndBody, EndWith, Counts, attemptVars
<1>3. Pinned'
  BY KeepsPinned DEF EndBody, Counts, given
<1>4. version_pin' = version_pin
  BY DEF version_pin, EndBody, Counts, given
<1>5. AnswerAgrees'
  BY <1>4 DEF HttpInv, AnswerAgrees, HasBody, Strong, EndBody, EndWith, verdictVars
<1>6. BodyAgrees'
  BY <1>4 DEF HttpInv, HttpTypeOK, BodyAgrees, HasBody, contradicts_pin, Strong, Placed,
              EndBody, EndWith, verdictVars
<1>7. Reported'
  BY <1>1, ReportsNothing DEF EndBody, EndWith, Counts, given
<1> QED
  BY <1>1, <1>2, <1>3, <1>5, <1>6, <1>7 DEF HttpInv

LEMMA SuccessKeeps ==
  ASSUME HttpInv, Success, Counts
  PROVE  HttpInv'
<1>1. HttpTypeOK'
  BY DEF HttpInv, HttpTypeOK, Success, Finish, Counts, given, attemptVars, verdictVars
<1>2. Budget'
  BY DEF HttpInv, HttpTypeOK, Budget, Allowed, One, Success, Finish, Counts, attemptVars
<1>3. Pinned'
  BY KeepsPinned DEF Success, Counts, given
<1>4. AnswerAgrees' /\ BodyAgrees'
  BY DEF AnswerAgrees, BodyAgrees, Success, Finish
<1>5. Reported'
  <2>1. /\ ~version_changed /\ HasBody /\ phase = "ended"
        /\ received < length => code = "ok"
        /\ received \in Nat /\ resumed \in Nat /\ resumed <= received /\ received <= length
        /\ response.from \in Versions /\ response \in Response
    BY SuccessFacts DEF HttpInv, HttpTypeOK, AnswerAgrees, BodyAgrees, Success
  <2>2. checked_status => Placed(response.from, received) /\ ~contradicts_pin
    BY <2>1 DEF HttpInv, BodyAgrees
  <2>3. ~checked_status => received = resumed
    BY <2>1 DEF HttpInv, BodyAgrees
  <2>4. \E v \in Versions : Placed(v, received) /\ (Strong(if_match) => v = if_match)
    <3>1. Strong(if_match) => version_pin = if_match
      BY DEF version_pin, Strong
    <3>2. CASE checked_status
      BY <2>1, <2>2, <3>1, <3>2, OfThePin
    <3>3. CASE ~checked_status /\ resumed > 0
      BY <2>1, <2>3, <3>1, <3>3, FromIsPlaced DEF HttpInv, Pinned
    <3>4. CASE ~checked_status /\ resumed = 0
      <4>1. \A v \in Versions : Placed(v, received)
        BY <2>3, <3>4 DEF Placed
      <4> QED
        BY <2>1, <4>1 DEF Strong
    <3> QED
      BY <2>1, <3>2, <3>3, <3>4
  <2>5. OneVersion'
    BY <2>4 DEF OneVersion, Placed, Success, Finish, Counts, given
  <2>6. ASSUME received < length, response.status \in Data
        PROVE  /\ Size[response.from] <= offset + received
               /\ Size[response.from] > 0 => From(response.from, received)
    <3>0. checked_status => From(response.from, received)
      BY <2>1, <2>2, <2>6, PlacedIsFrom DEF HttpInv
    <3>1. code = "ok" /\ response.next = response.stop
      BY <2>1, <2>6 DEF HttpInv, BodyAgrees
    <3>2. CASE response.status = 200 /\ checked_status
      <4>1. /\ response.stop = Size[response.from] /\ skip \in Nat
            /\ response.next + skip = offset + received
        BY <2>1, <2>6, <3>1, <3>2 DEF HttpInv, HttpTypeOK, AnswerAgrees, BodyAgrees
      <4> QED
        BY <2>1, <3>0, <3>1, <3>2, <4>1 DEF Response
    <3>3. CASE response.status = 200 /\ ~checked_status
      <4>1. response.stop = Size[response.from] /\ response.next = 0
        BY <2>1, <3>3 DEF HttpInv, AnswerAgrees
      <4> QED
        BY <2>1, <3>1, <4>1
    <3>4. CASE response.status = 206
      <4>1. /\ response.first = offset + resumed
            /\ \/ response.last = offset + length - 1
               \/ response.last + 1 = Size[response.from]
            /\ received - resumed = response.last - response.first + 1
        BY <3>4 DEF Success, succeeded, valid_content_range, requested_first, requested_end
      <4>2. response.first <= response.last /\ response.first \in Nat /\ response.last \in Nat
        BY <2>1, <3>4 DEF HttpInv, AnswerAgrees, Response
      <4>3. checked_status
        BY <2>1, <2>3, <4>1, <4>2
      <4>4. Size[response.from] \in Nat
        BY <2>1
      <4> QED
        BY <2>1, <2>6, <3>0, <4>1, <4>2, <4>3, <4>4
    <3> QED
      BY <2>6, <3>2, <3>3, <3>4 DEF Data, HttpInv, HttpTypeOK
  <2>7. ShortOnlyAtEnd'
    <3>1. result' = "range" => received < length
      BY <2>1 DEF Success, Finish
    <3>2. got' = received /\ response' = response /\ buffer' = buffer
      BY DEF Success, Finish
    <3> QED
      BY <2>6, <3>1, <3>2 DEF ShortOnlyAtEnd, From
  <2>8. phase' = "finished"
    BY DEF Success, Finish
  <2> QED
    BY <2>5, <2>7, <2>8 DEF Reported
<1> QED
  BY <1>1, <1>2, <1>3, <1>4, <1>5 DEF HttpInv

LEMMA TimeoutKeeps ==
  ASSUME HttpInv, Timeout, Counts
  PROVE  HttpInv'
<1>1. HttpTypeOK'
  BY DEF HttpInv, HttpTypeOK, Timeout, Finish, Counts, given, attemptVars, verdictVars
<1>2. Budget'
  BY DEF HttpInv, HttpTypeOK, Budget, Allowed, One, Timeout, Finish, Counts, attemptVars
<1>3. Pinned'
  BY KeepsPinned DEF Timeout, Counts, given
<1>4. AnswerAgrees' /\ BodyAgrees'
  BY DEF AnswerAgrees, BodyAgrees, Timeout, Finish
<1>5. Reported'
  BY ReportsFailure DEF Timeout, Counts, given
<1> QED
  BY <1>1, <1>2, <1>3, <1>4, <1>5 DEF HttpInv

LEMMA FailKeeps ==
  ASSUME HttpInv, Fail, Counts
  PROVE  HttpInv'
<1>1. HttpTypeOK'
  BY DEF HttpInv, HttpTypeOK, Fail, Unreachable, Finish, Counts, given, attemptVars, verdictVars
<1>2. Budget'
  BY DEF HttpInv, HttpTypeOK, Budget, Allowed, One, Fail, Finish, Counts, attemptVars
<1>3. Pinned'
  BY KeepsPinned DEF Fail, Counts, given
<1>4. AnswerAgrees' /\ BodyAgrees'
  BY DEF AnswerAgrees, BodyAgrees, Fail, Finish
<1>5. Reported'
  <2>1. failure = "range" => ~HasBody
    BY DEF failure, HasBody, Successes
  <2> QED
    BY <2>1, ReportsFailure DEF Fail, Counts, given
<1> QED
  BY <1>1, <1>2, <1>3, <1>4, <1>5 DEF HttpInv

LEMMA ResignKeeps ==
  ASSUME HttpInv, Resign, Counts
  PROVE  HttpInv'
<1>1. HttpTypeOK'
  <2>1. sent' \in Nat
    BY DEF HttpInv, HttpTypeOK, Counts
  <2>2. HttpTypeOK
    BY DEF HttpInv
  <2> QED
    BY <2>1, <2>2, Zenon DEF HttpTypeOK, Resign, Counts, given, verdictVars
<1>2. Budget'
  BY DEF HttpInv, HttpTypeOK, Budget, Allowed, One, Resign, wrong_region, Counts
<1>3. Pinned'
  BY KeepsPinned DEF Resign, Counts, given
<1>4. AnswerAgrees' /\ BodyAgrees'
  BY DEF AnswerAgrees, BodyAgrees, Resign
<1>5. Reported'
  BY <1>1, ReportsNothing DEF Resign, Counts, given
<1> QED
  BY <1>1, <1>2, <1>3, <1>4, <1>5 DEF HttpInv

LEMMA RefreshKeeps ==
  ASSUME HttpInv, Refresh, Counts
  PROVE  HttpInv'
<1>1. HttpTypeOK'
  <2>1. sent' \in Nat
    BY DEF HttpInv, HttpTypeOK, Counts
  <2>2. HttpTypeOK
    BY DEF HttpInv
  <2> QED
    BY <2>1, <2>2, Zenon DEF HttpTypeOK, Refresh, Counts, given, verdictVars
<1>2. Budget'
  BY DEF HttpInv, HttpTypeOK, Budget, Allowed, One, Refresh, credentials_expired, Counts
<1>3. Pinned'
  BY KeepsPinned DEF Refresh, Counts, given
<1>4. AnswerAgrees' /\ BodyAgrees'
  BY DEF AnswerAgrees, BodyAgrees, Refresh
<1>5. Reported'
  BY <1>1, ReportsNothing DEF Refresh, Counts, given
<1> QED
  BY <1>1, <1>2, <1>3, <1>4, <1>5 DEF HttpInv

\* What is left to show of a retry.
LEMMA PlanKept ==
  ASSUME HttpInv, Retry, Counts, Pinned', resumed' \in Nat, resume_etag' \in Tags
  PROVE  HttpInv'
<1>1. HttpTypeOK'
  <2>1. sent' \in Nat /\ attempt' \in Nat /\ unreachable_attempts' \in Nat
    BY DEF HttpInv, HttpTypeOK, Retry, Unreachable, Counts
  <2>2. HttpTypeOK
    BY DEF HttpInv
  <2> QED
    BY <2>1, <2>2, Zenon DEF HttpTypeOK, Retry, Counts, given, verdictVars
<1>2. Budget'
  BY DEF HttpInv, HttpTypeOK, Budget, Allowed, One, Retry, MayRetry, Counts
<1>3. AnswerAgrees' /\ BodyAgrees'
  BY DEF AnswerAgrees, BodyAgrees, Retry
<1>4. Reported'
  BY <1>1, ReportsNothing DEF Retry, Counts, given
<1> QED
  BY <1>1, <1>2, <1>3, <1>4 DEF HttpInv

\* A retry keeps bytes only together with a pin to their version.
LEMMA RetryKeeps ==
  ASSUME HttpInv, Retry, Counts
  PROVE  HttpInv'
<1>0. /\ phase = "ended" /\ phase' = "start" /\ HttpTypeOK
      /\ if_match' = if_match /\ buffer' = buffer
      /\ resumed' = plan_resume[1] /\ resume_etag' = plan_resume[2]
  BY DEF HttpInv, Retry, Counts, given
<1>1. CASE plan_resume = <<0, NoTag>>
  <2>1. resumed' = 0 /\ resume_etag' = NoTag
    BY <1>0, <1>1
  <2> QED
    BY <1>0, <2>1, PlanKept DEF Pinned, Tags
<1>2. CASE plan_resume = <<resumed, resume_etag>>
  <2>1. resumed' = resumed /\ resume_etag' = resume_etag
    BY <1>0, <1>2
  <2> QED
    BY <1>0, <2>1, PlanKept, KeepsPinned DEF HttpTypeOK
<1>3. CASE /\ ~version_changed /\ if_match # AnyTag /\ response.status \in Data
           /\ received > resumed /\ received < length
           /\ \/ /\ if_match = NoTag /\ resume_etag = NoTag /\ response.etag # NoTag
                 /\ plan_resume = <<received, response.etag>>
              \/ /\ if_match # NoTag \/ resume_etag # NoTag
                 /\ plan_resume = <<received, resume_etag>>
  <2>0. /\ checked_status /\ ~contradicts_pin /\ Placed(response.from, received)
        /\ received \in Nat /\ received < length /\ HasBody
    BY <1>0, <1>3 DEF HttpInv, HttpTypeOK, BodyAgrees
  <2>1. /\ checked_status /\ ~contradicts_pin /\ From(response.from, received)
        /\ received \in Nat /\ received < length
    BY <1>0, <1>3, <2>0, PlacedIsFrom
  <2>2. CASE /\ if_match = NoTag /\ resume_etag = NoTag /\ response.etag # NoTag
             /\ plan_resume = <<received, response.etag>>
    <3>1. resumed' = received /\ resume_etag' = response.etag
      BY <1>0, <2>2
    <3>2. response.etag = response.from /\ response.from \in Versions
      BY <1>0, <1>3, <2>0, <2>2 DEF HttpInv, AnswerAgrees
    <3>3. version_pin' = response.from
      BY <1>0, <2>2, <3>1, <3>2 DEF version_pin
    <3>4. Pinned'
      BY <1>0, <2>1, <2>2, <3>1, <3>2, <3>3 DEF Pinned, From
    <3> QED
      BY <1>0, <2>1, <3>1, <3>2, <3>4, PlanKept DEF Tags
  <2>3. CASE /\ if_match # NoTag \/ resume_etag # NoTag
             /\ plan_resume = <<received, resume_etag>>
    <3>1. resumed' = received /\ resume_etag' = resume_etag
      BY <1>0, <2>3
    <3>2. version_pin' = version_pin /\ version_pin \in Versions
      BY <1>0, <1>3, <2>3, <3>1 DEF version_pin, HttpTypeOK, Tags
    <3>3. response.from = version_pin
      BY <1>0, <2>0, <3>2, OfThePin DEF Strong
    <3>4. Pinned'
      BY <1>0, <2>1, <3>1, <3>2, <3>3 DEF HttpInv, Pinned, From
    <3> QED
      BY <1>0, <2>1, <3>1, <3>4, PlanKept DEF HttpTypeOK
  <2> QED
    BY <1>3, <2>2, <2>3
<1> QED
  BY <1>0, <1>1, <1>2, <1>3 DEF plan_resume, HttpTypeOK

LEMMA ReplaceKeeps ==
  ASSUME HttpInv, Replace, UNCHANGED <<given, sent>>
  PROVE  HttpInv'
<1>1. HttpTypeOK'
  BY DEF HttpInv, HttpTypeOK, Replace, given, attemptVars, verdictVars
<1>2. Budget'
  BY DEF HttpInv, Budget, Allowed, Replace, given, attemptVars
<1>3. Pinned'
  BY KeepsPinned DEF Replace, given
<1>4. version_pin' = version_pin
  BY DEF version_pin, Replace, given
<1>5. AnswerAgrees'
  BY <1>4 DEF HttpInv, AnswerAgrees, HasBody, Strong, Replace, verdictVars
<1>6. BodyAgrees'
  BY <1>4 DEF HttpInv, HttpTypeOK, BodyAgrees, HasBody, contradicts_pin, Strong, Placed,
              Replace, verdictVars
<1>7. Reported'
  BY <1>1, ReportsNothing DEF Replace, given
<1> QED
  BY <1>1, <1>2, <1>3, <1>5, <1>6, <1>7 DEF HttpInv

LEMMA HttpStutters ==
  ASSUME HttpInv, UNCHANGED httpVars
  PROVE  HttpInv'
<1>1. HttpTypeOK'
  BY DEF HttpInv, HttpTypeOK, httpVars, given, attemptVars, verdictVars
<1>2. Budget' /\ Pinned'
  BY KeepsPinned DEF HttpInv, Budget, Allowed, httpVars, given, attemptVars
<1>3. version_pin' = version_pin
  BY DEF version_pin, httpVars, given
<1>4. AnswerAgrees'
  BY <1>3 DEF HttpInv, AnswerAgrees, HasBody, Strong, httpVars, verdictVars
<1>5. BodyAgrees'
  BY <1>3 DEF HttpInv, HttpTypeOK, BodyAgrees, HasBody, contradicts_pin, Strong, Placed,
              httpVars, verdictVars
<1>6. Reported'
  BY DEF HttpInv, Reported, OneVersion, ShortOnlyAtEnd, From, Placed, Strong, httpVars, given
<1> QED
  BY <1>1, <1>2, <1>4, <1>5, <1>6 DEF HttpInv

LEMMA HttpInvAlways == HttpSpec => []HttpInv
<1>1. HttpInit => HttpInv
  <2> SUFFICES ASSUME HttpInit PROVE HttpInv
    OBVIOUS
  <2>1. NoResponse \in Response /\ NoByte \in Tags \X Nat
    BY DEF NoResponse, NoByte, Response, Tags
  <2>2. if_match \in Versions \cup {NoTag, AnyTag} /\ range_fallback_limit \in Nat
    BY DEF HttpInit
  <2>3. HttpTypeOK
    <3>1. /\ buffer \in [Positions -> Tags \X Nat] /\ NoTag \in Tags /\ 0 \in Nat
      BY <2>1 DEF HttpInit, Tags
    <3> QED
      BY <2>1, <2>2, <3>1, Zenon DEF HttpInit, HttpTypeOK
  <2>4. Budget
    BY DEF HttpInit, Budget, Allowed, One
  <2>5. Pinned /\ AnswerAgrees /\ BodyAgrees
    BY DEF HttpInit, Pinned, AnswerAgrees, BodyAgrees
  <2>6. Reported
    <3>1. result = "none" /\ got = 0 /\ version \in Versions
      BY DEF HttpInit
    <3>2. \A v \in Versions : Placed(v, got)
      BY <3>1 DEF Placed
    <3> QED
      BY <2>2, <3>1, <3>2 DEF Reported, OneVersion, ShortOnlyAtEnd, Strong
  <2> QED
    BY <2>3, <2>4, <2>5, <2>6 DEF HttpInv
<1>2. HttpInv /\ [HttpNext]_httpVars => HttpInv'
  <2> SUFFICES ASSUME HttpInv, [HttpNext]_httpVars PROVE HttpInv'
    OBVIOUS
  <2>1. CASE Proceed
    <3>1. Counts
      BY <2>1 DEF Proceed, Counts
    <3>2. CASE Start \/ FirstByte \/ Byte \/ EndBody \/ Break \/ Respond
      BY <3>1, <3>2, StartKeeps, FirstByteKeeps, ByteKeeps, EndBodyKeeps, BreakKeeps,
         RespondKeeps
    <3>3. CASE Success \/ Timeout \/ Resign \/ Refresh \/ Retry \/ Fail
      BY <3>1, <3>3, SuccessKeeps, TimeoutKeeps, ResignKeeps, RefreshKeeps, RetryKeeps,
         FailKeeps
    <3> QED
      BY <2>1, <3>2, <3>3 DEF Proceed
  <2>2. CASE Replace /\ UNCHANGED <<given, sent>>
    BY <2>2, ReplaceKeeps
  <2>3. CASE UNCHANGED httpVars
    BY <2>3, HttpStutters
  <2> QED
    BY <2>1, <2>2, <2>3 DEF HttpNext, Finished
<1> QED
  BY <1>1, <1>2, PTL DEF HttpSpec

\* However a server answers, with whichever status of success, and however often
\* the object is replaced, the bytes a completion reports are of one version, the
\* caller's where if_match names one; and what a 200 or a 206 brought, to the last
\* answer or to one before, is at its place.
THEOREM VersionsNotMixed == HttpSpec => []OneVersion
<1>1. HttpInv => OneVersion
  BY DEF HttpInv, Reported
<1> QED
  BY <1>1, HttpInvAlways, PTL

\* A read that comes up short after a 200 or a 206 has met the end of the object.
THEOREM ShortReadsEnd == HttpSpec => []ShortOnlyAtEnd
<1>1. HttpInv => ShortOnlyAtEnd
  BY DEF HttpInv, Reported
<1> QED
  BY <1>1, HttpInvAlways, PTL

\* The attempts, the other region and the fresh credentials bound the requests.
THEOREM RetriesEnd == HttpSpec => []RequestsAreBounded
<1>1. HttpInv => RequestsAreBounded
  BY DEF HttpInv, HttpTypeOK, Budget, Allowed, One, RequestsAreBounded
<1> QED
  BY <1>1, HttpInvAlways, PTL

HIDE HttpAssumption
-----------------------------------------------------------------------------
(* Where the credentials of a request come from.                           *)

\* What holds of every world: the file has nothing to say unless it is there.
WorldAgrees ==
    /\ world.backend \in Backends
    /\ world.callback \in BOOLEAN /\ world.discover \in BOOLEAN
    /\ world.callback => world.backend \in Clouds
    /\ world.entries \subseteq EntriesRead[world.backend]
    /\ world.file # "present" => world.entries = {}

\* The sources before the n-th had nothing to give.
Passed(n) == \A j \in 1 .. n - 1 : "next" \in Says(Chain[world.backend][j])

Steps == Len(Chain[world.backend])

\* A loader got to the end, or to the source that gave the credentials.
LoadedBy(i) ==
    /\ Passed(i)
    /\ "found" \in Says(Chain[world.backend][i])
    /\ loaded = [source |-> Chain[world.backend][i],
                 fields |-> Fields(Chain[world.backend][i])]

Origin ==
    \/ Anonymous /\ loaded = Nothing
    \/ NoEndpoint /\ loaded = Nothing
    \/ /\ world.callback /\ loaded.source = "callback"
       /\ loaded.fields \in SUBSET {"sas", "bearer", "key", "account"}
    \/ /\ ~world.callback /\ world.backend # "http"
       /\ \/ Passed(Steps + 1) /\ loaded = Nothing
          \/ \E i \in 1 .. Steps : LoadedBy(i)

\* How far the request is, and how it got there.
Progress ==
    /\ at \in {"resolve", "callback", "load", "prepare", "done"}
    /\ position \in Nat \ {0}
    /\ at = "resolve" => position = 1
    /\ at \in {"resolve", "callback", "load"} => loaded = Nothing
    /\ at # "done" => request = Pending
    /\ at = "callback" => world.callback
    /\ at = "load" => ~world.callback /\ world.backend # "http" /\ Passed(position)
    /\ at = "prepare" => Origin

\* A cloud request that is not to be signed looks for nothing.
Quiet ==
    world.backend \in Clouds /\ no_sign =>
        places = {} /\ at \notin {"callback", "load"}

ProvidersInv ==
    WorldAgrees /\ Progress /\ Quiet /\ EarlierSourceWins /\ OnlyAsAsked

\* The lengths of the loaders' tables and the sources in them.
LEMMA ChainFacts ==
  ASSUME NEW b \in Backends \ {"http"}
  PROVE  /\ Len(Chain[b]) \in Nat \ {0}
         /\ \A i \in 1 .. Len(Chain[b]) :
              /\ Chain[b][i] \in {"keys", "profile", "web_identity", "profile_keys",
                    "container", "imds", "token", "hmac", "refresh", "adc",
                    "private_key", "metadata", "storage", "principal",
                    "selector", "app_service", "token_file"}
              /\ Chain[b][i] = "profile_keys" => b \in {"s3", "source"}
              /\ Chain[b][i] = "adc" => b = "gcs"
              /\ Chain[b][i] = "token_file" => i = Len(Chain[b])
              /\ Chain[b][i] = "storage" <=> b = "azure" /\ i = 1
<1>1. CASE b = "s3"
  BY <1>1 DEF Chain
<1>2. CASE b = "source"
  BY <1>2 DEF Chain
<1>3. CASE b = "gcs"
  BY <1>3 DEF Chain
<1>4. CASE b = "azure"
  BY <1>4 DEF Chain
<1>5. CASE b = "hf"
  BY <1>5 DEF Chain
<1> QED
  BY <1>1, <1>2, <1>3, <1>4, <1>5 DEF Backends, Clouds

\* A source that gives way to the next one was not mentioned: for each of the
\* loaders' sources but the token file of Hugging Face, which is the last one.
LEMMA NextNotMentioned ==
  ASSUME WorldAgrees, world.backend # "http", NEW i \in 1 .. Steps - 1,
         "next" \in Says(Chain[world.backend][i])
  PROVE  ~Mentions(Chain[world.backend][i])
<1> DEFINE s == Chain[world.backend][i]
<1>1. /\ s \in {"keys", "profile", "web_identity", "profile_keys", "container",
                "imds", "token", "hmac", "refresh", "adc", "private_key",
                "metadata", "storage", "principal", "selector", "app_service"}
      /\ s = "profile_keys" => world.backend \in {"s3", "source"}
      /\ s = "adc" => world.backend = "gcs"
  BY ChainFacts DEF WorldAgrees, Steps
<1>2. "next" \in Says(s)
  OBVIOUS
<1> SUFFICES ~Mentions(s)
  OBVIOUS
<1> HIDE DEF s
<1>3. CASE s \in {"keys", "hmac"}
  BY <1>2, <1>3 DEF Says, Mentions, Pair, Set
<1>4. CASE s = "profile"
  BY <1>2, <1>4 DEF Says, Mentions, read_aws_profile, Has
<1>5. CASE s = "web_identity"
  BY <1>2, <1>5 DEF Says, Mentions, aws_web_identity
<1>6. CASE s = "profile_keys"
  <2>1. "next" \in credentials_from_aws_profile
    BY <1>2, <1>6 DEF Says
  <2>2. /\ Entries \cap {"sso", "role", "source_profile", "web_token"} = {}
        /\ "process" \notin Entries
        /\ "next" \in Pair(Entries, "key_id", "secret")
    BY <2>1 DEF credentials_from_aws_profile
  <2>3. {"key_id", "secret"} \cap Entries = {}
    BY <2>2 DEF Pair
  <2>4. Entries \subseteq AwsEntries
    BY <1>1, <1>6 DEF Entries, WorldAgrees, EntriesRead
  <2>5. Entries = {}
    BY <2>2, <2>3, <2>4 DEF AwsEntries
  <2> QED
    BY <1>6, <2>5 DEF Mentions
<1>7. CASE s = "container"
  BY <1>2, <1>7 DEF Says, Mentions, container, Set, Has
<1>8. CASE s = "token"
  BY <1>2, <1>8 DEF Says, Mentions, token
<1>9. CASE s = "refresh"
  BY <1>2, <1>9 DEF Says, Mentions, gcs_refresh
<1>10. CASE s = "adc"
  <2>1. "next" \in gcs_adc
    BY <1>2, <1>10 DEF Says
  <2>2. FilePlace = {} \/ (world.file = "missing" /\ ~Has("adc_file"))
    BY <2>1 DEF gcs_adc
  <2>3. FilePlace = {} => ~Has("adc_file")
    BY <1>1, <1>10 DEF FilePlace, PathOptions, Set, Has
  <2>4. Entries = {}
    BY <2>2 DEF Entries, WorldAgrees
  <2> QED
    BY <1>10, <2>2, <2>3, <2>4 DEF Mentions
<1>11. CASE s = "private_key"
  BY <1>2, <1>11 DEF Says, Mentions, gcs_private_key
<1>12. CASE s = "storage"
  BY <1>2, <1>12 DEF Says, Mentions, azure_storage
<1>13. CASE s = "principal"
  BY <1>2, <1>13 DEF Says, Mentions, azure_principal, Set
<1>14. CASE s = "app_service"
  BY <1>2, <1>14 DEF Says, Mentions, azure_app_service
<1>15. CASE s \in {"imds", "metadata", "selector"}
  BY <1>15 DEF Mentions
<1> QED
  BY <1>1, <1>3, <1>4, <1>5, <1>6, <1>7, <1>8, <1>9, <1>10, <1>11, <1>12,
     <1>13, <1>14, <1>15

\* What a source gives can be used to sign.
LEMMA FieldsFacts ==
  ASSUME NEW s
  PROVE  /\ Fields(s) \subseteq {"sas", "bearer", "key"}
         /\ s # "storage" => Fields(s) \subseteq {"bearer", "key"}
BY DEF Fields

\* The field that signs is one of those that can.
LEMMA ChosenIsUsable ==
  ASSUME Usable \subseteq {"sas", "bearer", "key"}, Usable # {}
  PROVE  Chosen \in Usable
<1> DEFINE First(i) == /\ Preference[i] \in Usable
                       /\ \A j \in 1..(i - 1) : Preference[j] \notin Usable
<1>1. Preference[1] = "sas" /\ Preference[2] = "bearer" /\ Preference[3] = "key"
  BY DEF Preference
<1>2. \E i \in 1..3 : First(i)
  <2>1. CASE "sas" \in Usable
    BY <1>1, <2>1
  <2>2. CASE "sas" \notin Usable /\ "bearer" \in Usable
    <3>1. First(2)
      BY <1>1, <2>2
    <3> QED
      BY <3>1
  <2>3. CASE "sas" \notin Usable /\ "bearer" \notin Usable
    <3>1. "key" \in Usable
      BY <2>3
    <3>2. First(3)
      <4>1. \A j \in 1..2 : j = 1 \/ j = 2
        OBVIOUS
      <4> QED
        BY <1>1, <2>3, <3>1, <4>1
    <3> QED
      BY <3>2
  <2> QED
    BY <2>1, <2>2, <2>3
<1>3. (CHOOSE i \in 1..3 : First(i)) \in 1..3 /\ First(CHOOSE i \in 1..3 : First(i))
  BY <1>2
<1> QED
  BY <1>3 DEF Chosen

\* Nothing changes what the program finds.
LEMMA SameWorld ==
  ASSUME UNCHANGED world, NEW s
  PROVE  /\ Says(s)' = Says(s)
         /\ Mentions(s)' <=> Mentions(s)
         /\ Fields(s)' = Fields(s)
         /\ no_sign' <=> no_sign
<1>1. /\ Entries' = Entries /\ FilePlace' = FilePlace /\ Role' = Role
      /\ WebToken' = WebToken /\ \A o : Has(o)' = Has(o) /\ Set(o)' = Set(o)
      /\ Unreadable' = Unreadable
  BY DEF Entries, FilePlace, Role, WebToken, Has, Set, Unreadable
<1>2. /\ read_aws_profile' = read_aws_profile
      /\ aws_web_identity' = aws_web_identity
      /\ credentials_from_aws_profile' = credentials_from_aws_profile
      /\ container' = container /\ aws_imds' = aws_imds /\ metadata' = metadata
  BY DEF read_aws_profile, aws_web_identity, credentials_from_aws_profile,
         container, aws_imds, metadata, AsksMetadata, Entries, FilePlace, Role,
         WebToken, Has, Set, Unreadable
<1>3. /\ token' = token /\ gcs_refresh' = gcs_refresh /\ gcs_adc' = gcs_adc
      /\ gcs_private_key' = gcs_private_key /\ hf_token_file' = hf_token_file
      /\ azure_storage' = azure_storage /\ azure_principal' = azure_principal
      /\ azure_selector' = azure_selector /\ azure_app_service' = azure_app_service
  BY DEF token, gcs_refresh, gcs_adc, gcs_private_key, hf_token_file,
         azure_storage, azure_principal, azure_selector, azure_app_service,
         FilePlace, Has, Set, Unreadable
<1>4. Says(s)' = Says(s)
  BY <1>2, <1>3 DEF Says
<1>5. Mentions(s)' <=> Mentions(s)
  BY DEF Mentions, Entries, FilePlace, Role, Has, Set
<1>6. Fields(s)' = Fields(s)
  BY DEF Fields
<1>7. no_sign' <=> no_sign
  BY DEF no_sign, credentials_configured, Has, Set
<1> QED
  BY <1>4, <1>5, <1>6, <1>7

\* Azure's storage options have nothing to add once their source gave way.
LEMMA NothingStored ==
  ASSUME "next" \in Says("storage")
  PROVE  Stored = {}
<1>1. world.settings \cap Storage = {}
  BY DEF Says, azure_storage, Set
<1> QED
  BY <1>1 DEF Stored, Storage, Connections, Has

\* Who signs, given where the credentials came from.
LEMMA SignedByOrigin ==
  ASSUME WorldAgrees, Origin, ~Anonymous, ~NoEndpoint, Usable # {}
  PROVE  /\ Owner # "nobody"
         /\ IF world.callback
            THEN Owner = "callback" \/ (world.backend = "azure" /\ Owner = "storage")
            ELSE \E i \in 1 .. Steps :
                    /\ Chain[world.backend][i] = Owner
                    /\ \A j \in 1 .. i - 1 : ~Mentions(Chain[world.backend][j])
<1>0. world.backend \in Backends /\ world.backend # "http"
  BY DEF WorldAgrees, Anonymous
<1>1. Usable \subseteq loaded.fields \cup (IF world.backend = "azure" THEN Stored ELSE {})
  BY <1>0 DEF Usable
<1>2. CASE world.callback
  <2>1. loaded.source = "callback"
    BY <1>2 DEF Origin
  <2>2. loaded.fields \subseteq {"sas", "bearer", "key", "account"}
    BY <1>2 DEF Origin
  <2>3. Usable \subseteq {"sas", "bearer", "key"}
    <3>1. Stored \subseteq {"sas", "bearer", "key"}
      BY DEF Stored
    <3> QED
      BY <1>0, <1>2, <2>2, <3>1 DEF Usable, WorldAgrees, Clouds
  <2>4. Chosen \in Usable
    BY <2>3, ChosenIsUsable
  <2>5. world.backend # "azure" => Chosen \in loaded.fields
    BY <1>1, <2>4
  <2> QED
    BY <1>2, <2>1, <2>5 DEF Owner
<1>3. CASE ~world.callback /\ Passed(Steps + 1) /\ loaded = Nothing
  <2>1. loaded.fields = {}
    BY <1>3 DEF Nothing
  <2>2. world.backend = "azure" => Stored = {}
    <3> SUFFICES ASSUME world.backend = "azure"
                 PROVE  "next" \in Says("storage")
      BY NothingStored
    <3>1. Steps \in Nat \ {0} /\ Chain[world.backend][1] = "storage"
      BY <1>0, ChainFacts DEF Steps
    <3> QED
      BY <1>3, <3>1 DEF Passed
  <2> QED
    BY <1>1, <2>1, <2>2
<1>4. CASE ~world.callback /\ \E i \in 1 .. Steps : LoadedBy(i)
  <2>1. PICK i \in 1 .. Steps : LoadedBy(i)
    BY <1>4
  <2> DEFINE s == Chain[world.backend][i]
  <2>2. /\ Steps \in Nat \ {0}
        /\ s \in {"keys", "profile", "web_identity", "profile_keys", "container",
                  "imds", "token", "hmac", "refresh", "adc", "private_key",
                  "metadata", "storage", "principal", "selector", "app_service",
                  "token_file"}
        /\ s = "storage" <=> world.backend = "azure" /\ i = 1
        /\ world.backend = "azure" => Chain[world.backend][1] = "storage"
    BY <1>0, ChainFacts DEF Steps
  <2>3. loaded.source = s /\ loaded.fields = Fields(s) /\ Passed(i)
    BY <2>1 DEF LoadedBy
  <2> HIDE DEF s
  <2>4. Usable \subseteq {"sas", "bearer", "key"}
    BY <1>1, <2>3, FieldsFacts DEF Stored
  <2>5. Chosen \in Usable
    BY <2>4, ChosenIsUsable
  <2>6. Owner = s
    <3>1. CASE s = "storage"
      BY <2>3, <3>1 DEF Owner
    <3>2. CASE s # "storage"
      <4>1. world.backend = "azure" => Stored = {}
        <5> SUFFICES ASSUME world.backend = "azure"
                     PROVE  "next" \in Says("storage")
          BY NothingStored
        <5>1. 1 \in 1 .. i - 1
          BY <2>2, <3>2
        <5> QED
          BY <2>2, <2>3, <5>1 DEF Passed
      <4> QED
        BY <1>1, <2>3, <2>5, <4>1 DEF Owner
    <3> QED
      BY <3>1, <3>2
  <2>7. \A j \in 1 .. i - 1 : ~Mentions(Chain[world.backend][j])
    <3> TAKE j \in 1 .. i - 1
    <3>1. j \in 1 .. Steps - 1 /\ "next" \in Says(Chain[world.backend][j])
      BY <2>2, <2>3 DEF Passed
    <3> QED
      BY <1>0, <3>1, NextNotMentioned
  <2> QED
    BY <1>4, <2>2, <2>6, <2>7 DEF s
<1>5. \/ world.callback
      \/ ~world.callback /\ Passed(Steps + 1) /\ loaded = Nothing
      \/ ~world.callback /\ \E i \in 1 .. Steps : LoadedBy(i)
  BY DEF Origin
<1> QED
  BY <1>2, <1>3, <1>4, <1>5

\* A step that sends nothing signs nothing and leaves nothing unsigned.
LEMMA NothingSent ==
  ASSUME ~Sent', HermeticIsClosed'
  PROVE  EarlierSourceWins' /\ OnlyAsAsked'
BY DEF EarlierSourceWins, OnlyAsAsked, UnsignedOnPurpose, StaysAtHome

LEMMA ProvidersStart == ProvidersInit => ProvidersInv
<1> SUFFICES ASSUME ProvidersInit PROVE ProvidersInv
  OBVIOUS
<1>1. PICK b \in Backends, d \in BOOLEAN, c \in BOOLEAN :
        \E s \in Settings[b], f \in Files[b] :
           world = [backend |-> b, settings |-> s, discover |-> d,
                    callback |-> c /\ b \in Clouds,
                    file |-> f.state, entries |-> f.entries]
  BY DEF ProvidersInit
<1>2. PICK s \in Settings[b], f \in Files[b] :
           world = [backend |-> b, settings |-> s, discover |-> d,
                    callback |-> c /\ b \in Clouds,
                    file |-> f.state, entries |-> f.entries]
  BY <1>1
<1>3. WorldAgrees
  <2>1. /\ world.backend = b /\ world.discover = d
        /\ world.callback = (c /\ b \in Clouds)
        /\ world.file = f.state /\ world.entries = f.entries
    BY <1>2
  <2>2. f.entries \subseteq EntriesRead[b] /\ (f.state # "present" => f.entries = {})
    BY FilesAreFiles
  <2> QED
    BY <2>1, <2>2 DEF WorldAgrees
<1>4. Progress /\ Quiet
  BY DEF ProvidersInit, Progress, Quiet
<1>5. HermeticIsClosed /\ ~Sent
  BY DEF ProvidersInit, HermeticIsClosed, Sent, Pending
<1>6. EarlierSourceWins /\ OnlyAsAsked
  BY <1>5 DEF EarlierSourceWins, OnlyAsAsked, UnsignedOnPurpose, StaysAtHome
<1> QED
  BY <1>3, <1>4, <1>6 DEF ProvidersInv

\* What the invariant says of the world stays as it is.
LEMMA WorldKept ==
  ASSUME UNCHANGED world
  PROVE  /\ WorldAgrees' <=> WorldAgrees
         /\ \A n : Passed(n)' <=> Passed(n)
         /\ Steps' = Steps
         /\ no_sign' <=> no_sign
<1>1. \A s : Says(s)' = Says(s)
  BY SameWorld
<1>2. no_sign' <=> no_sign
  BY SameWorld
<1>3. \A n : Passed(n)' <=> Passed(n)
  BY <1>1 DEF Passed
<1> QED
  BY <1>2, <1>3 DEF WorldAgrees, Steps

LEMMA ResolveKeeps ==
  ASSUME ProvidersInv, resolve_credentials
  PROVE  ProvidersInv'
<1>0. WorldAgrees /\ Progress /\ Quiet /\ HermeticIsClosed
  BY DEF ProvidersInv, OnlyAsAsked
<1>1. /\ at = "resolve" /\ loaded = Nothing /\ request = Pending
      /\ position \in Nat \ {0}
      /\ UNCHANGED <<world, position, places, loaded, request>>
  BY <1>0 DEF Progress, resolve_credentials
<1>2. WorldAgrees'
  BY <1>0, <1>1, WorldKept
<1>3. at' \in {"callback", "load", "prepare"}
  BY DEF resolve_credentials
<1>4. at' = "prepare" => Origin'
  <2>1. at' = "prepare" => \/ world.backend = "http"
                           \/ world.backend = "hf" /\ Has("bad_endpoint")
                           \/ world.backend \in Clouds /\ no_sign
    BY <1>0 DEF resolve_credentials, WorldAgrees, Backends
  <2>2. at' = "prepare" => Anonymous \/ NoEndpoint
    BY <2>1 DEF Anonymous, NoEndpoint
  <2>3. (Anonymous' <=> Anonymous) /\ (NoEndpoint' <=> NoEndpoint)
    BY <1>1 DEF Anonymous, NoEndpoint, Account, no_sign, credentials_configured,
                Has, Set
  <2>4. loaded' = Nothing
    BY <1>1
  <2> QED
    BY <2>2, <2>3, <2>4 DEF Origin, Nothing
<1>5. at' = "callback" => world.callback
  BY DEF resolve_credentials
<1>6. at' = "load" => ~world.callback /\ world.backend # "http" /\ position = 1
  <2>1. at' = "load" => world.backend # "http" /\ (world.backend = "hf" \/ ~world.callback)
    BY DEF resolve_credentials
  <2>2. "hf" \notin Clouds
    BY DEF Clouds
  <2>3. position = 1
    BY <1>0, <1>1 DEF Progress
  <2> QED
    BY <1>0, <2>1, <2>2, <2>3 DEF WorldAgrees
<1>7. Progress'
  <2>1. at' = "load" => Passed(position)'
    BY <1>1, <1>6 DEF Passed
  <2> QED
    BY <1>1, <1>3, <1>4, <1>5, <1>6, <2>1 DEF Progress, Nothing, Pending
<1>8. Quiet'
  <2>1. world.backend \in Clouds /\ no_sign => at' \notin {"callback", "load"}
    BY DEF resolve_credentials, Clouds
  <2> QED
    BY <1>0, <1>1, <2>1, WorldKept DEF Quiet
<1>9. ~Sent' /\ HermeticIsClosed'
  BY <1>0, <1>1 DEF Sent, Pending, HermeticIsClosed, Has
<1> QED
  BY <1>2, <1>7, <1>8, <1>9, NothingSent DEF ProvidersInv

LEMMA CallbackKeeps ==
  ASSUME ProvidersInv, Callback
  PROVE  ProvidersInv'
<1>0. WorldAgrees /\ Progress /\ Quiet /\ HermeticIsClosed
  BY DEF ProvidersInv, OnlyAsAsked
<1>1. /\ at = "callback" /\ world.callback /\ request = Pending
      /\ position \in Nat \ {0}
      /\ UNCHANGED <<world, position, places>>
  BY <1>0 DEF Progress, Callback
<1>2. WorldAgrees'
  BY <1>0, <1>1, WorldKept
<1>3. \/ at' = "done" /\ request' = Failed
      \/ /\ at' = "prepare" /\ request' = Pending
         /\ loaded'.source = "callback"
         /\ loaded'.fields \in SUBSET {"sas", "bearer", "key", "account"}
  <2>1. CASE at' = "done" /\ request' = Failed
    BY <2>1
  <2>2. ASSUME NEW fields \in SUBSET {"sas", "bearer", "key", "account"},
               loaded' = [source |-> "callback", fields |-> fields],
               at' = "prepare", UNCHANGED request
        PROVE  /\ at' = "prepare" /\ request' = Pending
               /\ loaded'.source = "callback"
               /\ loaded'.fields \in SUBSET {"sas", "bearer", "key", "account"}
    BY <1>1, <2>2, Zenon
  <2> QED
    BY <2>1, <2>2 DEF Callback
<1>4. at' = "prepare" => Origin'
  BY <1>1, <1>3 DEF Origin
<1>5. Progress'
  BY <1>1, <1>3, <1>4 DEF Progress
<1>6. Quiet'
  BY <1>0, <1>1, <1>3, WorldKept DEF Quiet
<1>7. ~Sent' /\ HermeticIsClosed'
  BY <1>0, <1>1, <1>3 DEF Sent, Pending, Failed, HermeticIsClosed, Has
<1> QED
  BY <1>2, <1>5, <1>6, <1>7, NothingSent DEF ProvidersInv

\* The sources of a loader look under a home directory or at the address of a
\* cloud's metadata only if they may.
LEMMA LooksAreOpen ==
  ASSUME ~world.discover, NEW s
  PROVE  /\ "home" \notin Looks(s)
         /\ "well_known" \in Looks(s) => Has("metadata_on")
<1>1. "home" \notin FilePlace /\ "well_known" \notin FilePlace
  BY DEF FilePlace
<1> QED
  BY <1>1 DEF Looks, AsksMetadata

LEMMA LoadKeeps ==
  ASSUME ProvidersInv, Load
  PROVE  ProvidersInv'
<1> DEFINE s == Chain[world.backend][position]
<1>0. WorldAgrees /\ Progress /\ Quiet /\ HermeticIsClosed
  BY DEF ProvidersInv, OnlyAsAsked
<1>1. /\ at = "load" /\ ~world.callback /\ world.backend # "http"
      /\ Passed(position) /\ request = Pending /\ loaded = Nothing
      /\ position \in Nat \ {0} /\ UNCHANGED world /\ position <= Steps
      /\ places' = places \cup Looks(s)
  BY <1>0 DEF Progress, Load, Steps
<1>2. WorldAgrees'
  BY <1>0, <1>1, WorldKept
<1>3. Quiet'
  BY <1>0, <1>1, WorldKept DEF Quiet
<1>4. HermeticIsClosed'
  BY <1>0, <1>1, LooksAreOpen DEF HermeticIsClosed, Has
<1>5. CASE /\ "next" \in Says(s) /\ position' = position + 1
           /\ UNCHANGED <<at, loaded, request>>
  <2>1. Passed(position')
    <3> SUFFICES ASSUME NEW j \in 1 .. position
                 PROVE  "next" \in Says(Chain[world.backend][j])
      BY <1>1, <1>5 DEF Passed
    <3>1. CASE j = position
      BY <1>5, <3>1
    <3>2. CASE j # position
      BY <1>1, <3>2 DEF Passed
    <3> QED
      BY <3>1, <3>2
  <2>2. Passed(position)'
    BY <1>1, <2>1, WorldKept
  <2>3. position' \in Nat \ {0}
    BY <1>1, <1>5
  <2>4. Progress'
    BY <1>1, <1>5, <2>2, <2>3 DEF Progress, Nothing, Pending
  <2>5. ~Sent'
    BY <1>1, <1>5 DEF Sent, Pending
  <2> QED
    BY <1>2, <1>3, <1>4, <2>4, <2>5, NothingSent DEF ProvidersInv
<1>6. CASE /\ "found" \in Says(s)
           /\ loaded' = [source |-> s, fields |-> Fields(s)]
           /\ at' = "prepare" /\ UNCHANGED <<position, request>>
  <2>1. LoadedBy(position)'
    <3>1. Passed(position)'
      BY <1>1, <1>6, WorldKept
    <3>2. s' = s
      BY <1>1, <1>6
    <3>3. Says(s)' = Says(s) /\ Fields(s)' = Fields(s)
      BY <1>1, <3>2, SameWorld
    <3> QED
      BY <1>6, <3>1, <3>2, <3>3 DEF LoadedBy
  <2>2. position' \in 1 .. Steps'
    BY <1>0, <1>1, <1>6, WorldKept, ChainFacts DEF Steps, WorldAgrees
  <2>3. Origin'
    BY <1>1, <2>1, <2>2 DEF Origin
  <2>4. Progress'
    BY <1>1, <1>6, <2>3 DEF Progress, Pending
  <2>5. ~Sent'
    BY <1>1, <1>6 DEF Sent, Pending
  <2> QED
    BY <1>2, <1>3, <1>4, <2>4, <2>5, NothingSent DEF ProvidersInv
<1>7. CASE at' = "done" /\ request' = Failed /\ UNCHANGED <<position, loaded>>
  <2>1. Progress'
    BY <1>1, <1>7 DEF Progress
  <2>2. ~Sent'
    BY <1>7 DEF Sent, Failed
  <2> QED
    BY <1>2, <1>3, <1>4, <2>1, <2>2, NothingSent DEF ProvidersInv
<1> QED
  BY <1>5, <1>6, <1>7 DEF Load

LEMMA ExhaustedKeeps ==
  ASSUME ProvidersInv, Exhausted
  PROVE  ProvidersInv'
<1>0. WorldAgrees /\ Progress /\ Quiet /\ HermeticIsClosed
  BY DEF ProvidersInv, OnlyAsAsked
<1>1. /\ at = "load" /\ ~world.callback /\ world.backend # "http"
      /\ Passed(position) /\ request = Pending /\ loaded = Nothing
      /\ position \in Nat \ {0} /\ position > Steps /\ at' = "prepare"
      /\ UNCHANGED <<world, position, places, loaded, request>>
  BY <1>0 DEF Progress, Exhausted, Steps
<1>2. WorldAgrees' /\ Quiet'
  BY <1>0, <1>1, WorldKept DEF Quiet
<1>3. Passed(Steps + 1)
  <2>1. Steps \in Nat
    BY <1>0, <1>1, ChainFacts DEF Steps, WorldAgrees
  <2> QED
    BY <1>1, <2>1 DEF Passed
<1>4. Passed(Steps + 1)' /\ loaded' = Nothing
  BY <1>1, <1>3, WorldKept DEF Passed
<1>5. Origin'
  BY <1>1, <1>4 DEF Origin, Nothing
<1>6. Progress'
  BY <1>1, <1>5 DEF Progress, Pending
<1>7. ~Sent' /\ HermeticIsClosed'
  BY <1>0, <1>1 DEF Sent, Pending, HermeticIsClosed, Has
<1> QED
  BY <1>2, <1>6, <1>7, NothingSent DEF ProvidersInv

LEMMA MaterializeKeeps ==
  ASSUME ProvidersInv, materialize_range
  PROVE  ProvidersInv'
<1>0. WorldAgrees /\ Progress /\ Quiet /\ HermeticIsClosed
  BY DEF ProvidersInv, OnlyAsAsked
<1>1. /\ at = "prepare" /\ at' = "done" /\ Origin /\ position \in Nat \ {0}
      /\ UNCHANGED <<world, position, places, loaded>>
  BY <1>0 DEF Progress, materialize_range
<1>2. WorldAgrees' /\ Quiet' /\ HermeticIsClosed'
  BY <1>0, <1>1, WorldKept DEF Quiet, HermeticIsClosed, Has
<1>3. Progress'
  BY <1>1 DEF Progress
<1>4. CASE request' = Failed
  <2>1. ~Sent'
    BY <1>4 DEF Sent, Failed
  <2> QED
    BY <1>2, <1>3, <2>1, NothingSent DEF ProvidersInv
<1>5. CASE /\ Anonymous
           /\ request' = [state |-> "sent", by |-> "nobody", with |-> "nothing",
                          follow_redirects |-> TRUE, same_origin |-> Has("header")]
  <2>1. /\ request'.by = "nobody"
        /\ request'.same_origin = Has("header")
    BY <1>5
  <2>2. EarlierSourceWins'
    BY <2>1 DEF EarlierSourceWins
  <2>3. StaysAtHome'
    BY <1>1, <2>1 DEF StaysAtHome, Has
  <2>4. UnsignedOnPurpose'
    <3> SUFFICES ASSUME world.backend \in Clouds
                 PROVE  /\ places = {}
                        /\ \/ Has("no_sign_yes")
                           \/ /\ world.backend = "source"
                              /\ ~world.callback
                              /\ ~Set(SourceOptions \cup {"no_sign_no"})
      BY <1>1 DEF UnsignedOnPurpose, Has, Set
    <3>1. no_sign
      BY <1>5 DEF Anonymous, Clouds
    <3>2. CASE Set({"no_sign_yes", "no_sign_no"})
      BY <1>0, <3>1, <3>2 DEF Quiet, no_sign
    <3>3. CASE ~Set({"no_sign_yes", "no_sign_no"})
      <4>1. world.backend = "source" /\ ~world.callback /\ ~Set(SourceOptions)
        BY <3>1, <3>3 DEF no_sign, credentials_configured
      <4>2. ~Set(SourceOptions \cup {"no_sign_no"})
        BY <3>3, <4>1 DEF Set
      <4> QED
        BY <1>0, <3>1, <4>1, <4>2 DEF Quiet
    <3> QED
      BY <3>2, <3>3
  <2> QED
    BY <1>2, <1>3, <2>2, <2>3, <2>4 DEF ProvidersInv, OnlyAsAsked
<1>6. CASE /\ ~Anonymous /\ ~NoEndpoint /\ Usable # {}
           /\ request' = [state |-> "sent", by |-> Owner, with |-> Chosen,
                          follow_redirects |-> world.backend = "hf",
                          same_origin |-> Has("header")]
  <2>1. /\ request'.by = Owner
        /\ request'.follow_redirects = (world.backend = "hf")
        /\ request'.same_origin = Has("header")
    BY <1>6
  <2>2. /\ Owner # "nobody"
        /\ IF world.callback
           THEN Owner = "callback" \/ (world.backend = "azure" /\ Owner = "storage")
           ELSE \E i \in 1 .. Steps :
                   /\ Chain[world.backend][i] = Owner
                   /\ \A j \in 1 .. i - 1 : ~Mentions(Chain[world.backend][j])
    BY <1>0, <1>1, <1>6, SignedByOrigin
  <2>3. EarlierSourceWins'
    <3>1. \A s : Mentions(s)' <=> Mentions(s)
      BY <1>1, SameWorld
    <3>2. world.callback => world.backend \in Clouds
      BY <1>0 DEF WorldAgrees
    <3> QED
      BY <1>1, <2>1, <2>2, <3>1, <3>2 DEF EarlierSourceWins, Steps
  <2>4. StaysAtHome'
    BY <1>1, <2>1 DEF StaysAtHome, Has, Clouds
  <2>5. UnsignedOnPurpose'
    BY <2>1, <2>2 DEF UnsignedOnPurpose
  <2> QED
    BY <1>2, <1>3, <2>3, <2>4, <2>5 DEF ProvidersInv, OnlyAsAsked
<1> QED
  BY <1>4, <1>5, <1>6 DEF materialize_range

\* The invariant of the request builder and its loaders.
LEMMA ProvidersInvAlways == ProvidersSpec => []ProvidersInv
<1>1. ProvidersInit => ProvidersInv
  BY ProvidersStart
<1>2. ProvidersInv /\ [ProvidersNext]_providersVars => ProvidersInv'
  <2> SUFFICES ASSUME ProvidersInv, [ProvidersNext]_providersVars
               PROVE  ProvidersInv'
    OBVIOUS
  <2>1. CASE ProvidersNext
    BY <2>1, ResolveKeeps, CallbackKeeps, LoadKeeps, ExhaustedKeeps,
       MaterializeKeeps DEF ProvidersNext
  <2>2. CASE UNCHANGED providersVars
    <3>1. UNCHANGED <<world, at, position, places, loaded, request>>
      BY <2>2 DEF providersVars
    <3>2. /\ WorldAgrees' /\ (\A n : Passed(n)' <=> Passed(n)) /\ Steps' = Steps
          /\ (no_sign' <=> no_sign)
      BY <3>1, WorldKept DEF ProvidersInv
    <3>3. Origin => Origin'
      <4>1. (Anonymous' <=> Anonymous) /\ (NoEndpoint' <=> NoEndpoint)
        BY <3>1 DEF Anonymous, NoEndpoint, Account, no_sign,
                    credentials_configured, Has, Set
      <4>2. ASSUME NEW i, LoadedBy(i)
            PROVE  LoadedBy(i)'
        <5> DEFINE s == Chain[world.backend][i]
        <5>1. s' = s
          BY <3>1
        <5>2. Says(s)' = Says(s) /\ Fields(s)' = Fields(s)
          BY <3>1, <5>1, SameWorld
        <5> QED
          BY <3>1, <3>2, <4>2, <5>1, <5>2 DEF LoadedBy
      <4>3. Nothing' = Nothing
        BY DEF Nothing
      <4> QED
        BY <3>1, <3>2, <4>1, <4>2, <4>3 DEF Origin
    <3>4. Progress' /\ Quiet'
      BY <3>1, <3>2, <3>3 DEF ProvidersInv, Progress, Quiet, Nothing, Pending
    <3>5. EarlierSourceWins'
      <4>1. CASE ~Sent \/ request.by = "nobody"
        BY <3>1, <4>1 DEF EarlierSourceWins, Sent
      <4>2. CASE /\ Sent /\ request.by # "nobody"
                 /\ world.backend \in Clouds /\ world.callback
        BY <3>1, <4>2 DEF ProvidersInv, EarlierSourceWins
      <4>3. CASE /\ Sent /\ request.by # "nobody"
                 /\ ~(world.backend \in Clouds /\ world.callback)
        <5>1. \E i \in 1 .. Steps :
                 /\ Chain[world.backend][i] = request.by
                 /\ \A j \in 1 .. i - 1 : ~Mentions(Chain[world.backend][j])
          BY <4>3 DEF ProvidersInv, EarlierSourceWins, Steps
        <5>2. \A s : Mentions(s)' <=> Mentions(s)
          BY <3>1, SameWorld
        <5> QED
          BY <3>1, <4>3, <5>1, <5>2 DEF EarlierSourceWins, Steps
      <4> QED
        BY <4>1, <4>2, <4>3
    <3>6. OnlyAsAsked'
      BY <3>1 DEF ProvidersInv, OnlyAsAsked, UnsignedOnPurpose, StaysAtHome,
                  HermeticIsClosed, Sent, Has, Set
    <3> QED
      BY <3>2, <3>4, <3>5, <3>6 DEF ProvidersInv
  <2> QED
    BY <2>1, <2>2
<1> QED
  BY <1>1, <1>2, PTL DEF ProvidersSpec

\* For every configuration, every file and whatever the servers answer: a
\* request that is signed is signed by the callback if there is one, else by a
\* source no later in its loader's order (load_aws_credentials and the other
\* four) than any that the configuration or the file mentions.
THEOREM SourcesInOrder == ProvidersSpec => []EarlierSourceWins
<1>1. ProvidersInv => EarlierSourceWins
  BY DEF ProvidersInv
<1> QED
  BY <1>1, ProvidersInvAlways, PTL

\* Under the same conditions: RequestBuilder leaves a cloud request unsigned only
\* when that was asked for, lets no signed cloud request follow a redirect, and a
\* client made without the environment looks neither under a home directory nor
\* at a metadata service it was not sent to.
THEOREM NothingUnasked == ProvidersSpec => []OnlyAsAsked
<1>1. ProvidersInv => OnlyAsAsked
  BY DEF ProvidersInv
<1> QED
  BY <1>1, ProvidersInvAlways, PTL

(***************************************************************************)
(* Configuration                                                           *)
(***************************************************************************)
\* What a path is made of, a map of options, a rule and an accepted call.
Symbols == STRING \cup Range(Handlers)
Maps == UNION {[D -> Values] : D \in SUBSET Names}
Rule == [prefix : Seq(Symbols), values : Maps]
Accepted == [prefix : Seq(STRING), name : Spellings, value : Values \cup {NULL}]

ConfigTypeOK ==
    /\ env \in Environments
    /\ builder \in [environment : {environment_(env), Empty}, explicit : Maps,
                    paths : Seq(Rule)]
    /\ clients \in {{}, {builder}}
    /\ log \in Seq(Accepted)

\* A map has what the calls say of one scope.
Agrees(m, calls, scope) ==
    \A n \in Names : /\ n \in DOMAIN m <=> Said(calls, scope, n) # NULL
                     /\ n \in DOMAIN m => m[n] = Said(calls, scope, n)

\* Each layer has what was last said of its scope; a scope of which something
\* was said has one rule.
LayersAgree ==
    /\ Agrees(builder.explicit, log, Empty)
    /\ \A i \in DOMAIN builder.paths :
          /\ builder.paths[i].prefix # Empty
          /\ Agrees(builder.paths[i].values, log, builder.paths[i].prefix)
    /\ \A i, j \in DOMAIN builder.paths :
          builder.paths[i].prefix = builder.paths[j].prefix => i = j
    /\ \A k \in DOMAIN log :
          \/ log[k].prefix = Empty
          \/ \E i \in DOMAIN builder.paths :
                builder.paths[i].prefix = canonical_vsi_path(log[k].prefix)

ConfigInv == ConfigTypeOK /\ LayersAgree
-----------------------------------------------------------------------------
\* A bounded set of naturals that is not empty has a greatest member.
LEMMA GreatestExists ==
    ASSUME NEW T, NEW m \in Nat, T \subseteq 0 .. m, T # {}
    PROVE  \E x \in T : \A y \in T : y <= x
<1> DEFINE U == {m - x : x \in T}
           R == OpToRel(<, Nat)
<1>1. U \subseteq Nat /\ U # {}
  <2>1. \A x \in T : m - x \in Nat
    OBVIOUS
  <2>2. PICK x : x \in T
    OBVIOUS
  <2>3. m - x \in U
    BY <2>2
  <2> QED
    BY <2>1, <2>3
<1>2. \E u \in U : \A v \in U : ~(<<v, u>> \in R)
  <2> HIDE DEF U
  <2> QED
    BY <1>1, NatLessThanWellFounded, WFMin, Zenon
<1>3. \A u, v \in Nat : v < u => <<v, u>> \in R
  BY DEF OpToRel
<1> HIDE DEF R
<1>4. PICK u \in U : \A v \in U : ~(<<v, u>> \in R)
  BY <1>2
<1>5. PICK x \in T : u = m - x
  OBVIOUS
<1>6. ASSUME NEW y \in T PROVE y <= x
  <2>1. m - y \in U /\ m - y \in Nat /\ u \in Nat
    BY <1>1
  <2>2. ~(m - y < u)
    <3> HIDE DEF U
    <3> QED
      BY <1>3, <1>4, <2>1
  <2>3. x \in Int /\ y \in Int
    OBVIOUS
  <2> QED
    BY <1>5, <2>2, <2>3
<1> QED
  BY <1>6

\* What Max gives for such a set.
LEMMA MaxIs ==
    ASSUME NEW T, NEW m \in Nat, T \subseteq 0 .. m, T # {}
    PROVE  Max(T) \in T /\ \A y \in T : y <= Max(T)
<1>1. PICK x \in T : \A y \in T : y <= x
  BY GreatestExists
<1>2. \E z \in T : \A y \in T : z >= y
  BY <1>1
<1>3. Max(T) \in T /\ \A y \in T : Max(T) >= y
  BY <1>2 DEF Max
<1> QED
  BY <1>3

\* The names of the maps are the fixed points of canonical_option_name: no alias
\* stands for an alias (config.cpp:182-202).
LEMMA NamesAreCanonical ==
    \A n \in Names : canonical_option_name(n) = n
<1>1. \A x \in DOMAIN Aliases : Aliases[x] \notin DOMAIN Aliases
  BY DEF Aliases
<1> QED
  BY <1>1 DEF Names, canonical_option_name

\* canonical_vsi_path gives a path, and an empty one for the empty one alone.
LEMMA CanonicalPath ==
    ASSUME NEW p \in Seq(STRING)
    PROVE  /\ canonical_vsi_path(p) \in Seq(Symbols)
           /\ canonical_vsi_path(p) = Empty <=> p = Empty
<1>1. p \in Seq(Symbols)
  <2>1. STRING \subseteq Symbols
    BY DEF Symbols
  <2>2. Len(p) \in Nat /\ p \in [1 .. Len(p) -> STRING]
    OBVIOUS
  <2>3. p \in [1 .. Len(p) -> Symbols]
    BY <2>1, <2>2
  <2> QED
    BY <2>2, <2>3
<1>2. CASE p # Empty /\ Head(p) \in DOMAIN Handlers
  <2> DEFINE h == Handlers[Head(p)]
  <2>1. h \in Symbols
    BY <1>2 DEF Symbols, Range
  <2>2. canonical_vsi_path(p) = <<h>> \o Tail(p)
    BY <1>2 DEF canonical_vsi_path
  <2>3. Tail(p) \in Seq(Symbols)
    BY <1>1, <1>2 DEF Empty
  <2> HIDE DEF h
  <2>4. <<h>> \in Seq(Symbols) /\ Len(<<h>>) = 1
    BY <2>1
  <2>5. <<h>> \o Tail(p) \in Seq(Symbols) /\ Len(<<h>> \o Tail(p)) = 1 + Len(Tail(p))
    BY <2>3, <2>4
  <2>6. Len(Tail(p)) \in Nat
    BY <2>3
  <2>7. <<h>> \o Tail(p) # Empty
    BY <2>5, <2>6 DEF Empty
  <2> QED
    BY <1>2, <2>2, <2>5, <2>7
<1>3. CASE ~(p # Empty /\ Head(p) \in DOMAIN Handlers)
  BY <1>1, <1>3 DEF canonical_vsi_path
<1> QED
  BY <1>2, <1>3

\* One more call changes what is said of its own scope and option, and nothing else.
LEMMA SaidAfter ==
    ASSUME NEW calls \in Seq(Accepted), NEW c \in Accepted, NEW scope, NEW name
    PROVE  Said(Append(calls, c), scope, name) =
              IF canonical_vsi_path(c.prefix) = scope /\ canonical_option_name(c.name) = name
              THEN c.value ELSE Said(calls, scope, name)
<1> DEFINE N == Len(calls)
           more == Append(calls, c)
           About(l) == {i \in DOMAIN l : /\ canonical_vsi_path(l[i].prefix) = scope
                                         /\ canonical_option_name(l[i].name) = name}
           match == /\ canonical_vsi_path(c.prefix) = scope
                    /\ canonical_option_name(c.name) = name
<1>1. /\ N \in Nat /\ DOMAIN calls = 1 .. N /\ DOMAIN more = 1 .. N + 1
      /\ more[N + 1] = c /\ \A i \in 1 .. N : more[i] = calls[i]
  OBVIOUS
<1>2. /\ Said(calls, scope, name) =
             IF About(calls) = {} THEN NULL ELSE calls[Max(About(calls))].value
      /\ Said(more, scope, name) =
             IF About(more) = {} THEN NULL ELSE more[Max(About(more))].value
  BY DEF Said
<1>3. About(calls) \subseteq 1 .. N /\ About(more) \subseteq 1 .. N + 1
  BY <1>1
<1>4. CASE match
  <2>1. N + 1 \in About(more)
    <3>1. N + 1 \in DOMAIN more /\ more[N + 1] = c
      BY <1>1
    <3> QED
      BY <1>4, <3>1
  <2>2. About(more) \subseteq 0 .. N + 1 /\ N + 1 \in Nat
    BY <1>1, <1>3
  <2> HIDE DEF About
  <2>3. Max(About(more)) \in About(more) /\ \A y \in About(more) : y <= Max(About(more))
    BY <2>1, <2>2, MaxIs
  <2>4. Max(About(more)) = N + 1
    BY <1>1, <1>3, <2>1, <2>3
  <2> QED
    BY <1>1, <1>2, <1>4, <2>1, <2>4
<1>5. CASE ~match
  <2>1. About(more) = About(calls)
    <3>1. \A i \in 1 .. N + 1 : i \in 1 .. N \/ i = N + 1
      BY <1>1
    <3>2. N + 1 \notin About(more)
      BY <1>1, <1>5
    <3>3. \A i \in 1 .. N : i \in 1 .. N + 1 /\ (i \in About(more) <=> i \in About(calls))
      BY <1>1
    <3> HIDE DEF About
    <3> QED
      BY <1>3, <3>1, <3>2, <3>3
  <2>2. CASE About(calls) = {}
    BY <1>2, <1>5, <2>1, <2>2
  <2>3. CASE About(calls) # {}
    <3>1. About(calls) \subseteq 0 .. N
      BY <1>1, <1>3
    <3> HIDE DEF About
    <3>2. Max(About(calls)) \in About(calls)
      BY <1>1, <2>3, <3>1, MaxIs
    <3>3. more[Max(About(calls))] = calls[Max(About(calls))]
      BY <1>1, <1>3, <3>2
    <3> QED
      BY <1>2, <1>5, <2>1, <2>3, <3>3
  <2> QED
    BY <2>2, <2>3
<1> QED
  BY <1>4, <1>5

\* What is said of a scope was said by a call for it.
LEMMA SaidByACall ==
    ASSUME NEW calls, NEW scope, NEW name, Said(calls, scope, name) # NULL
    PROVE  \E k \in DOMAIN calls : canonical_vsi_path(calls[k].prefix) = scope
  BY DEF Said

\* The first k symbols of a path.
LEMMA Beginning ==
    ASSUME NEW c \in Seq(Symbols), NEW k \in 1 .. Len(c)
    PROVE  /\ SubSeq(c, 1, k) \in Seq(Symbols) /\ Len(SubSeq(c, 1, k)) = k
           /\ \A i \in 1 .. k : SubSeq(c, 1, k)[i] = c[i]
<1>1. Len(c) \in Nat /\ DOMAIN c = 1 .. Len(c) /\ \A i \in 1 .. Len(c) : c[i] \in Symbols
  OBVIOUS
<1>2. k \in Nat /\ 1 .. k \subseteq 1 .. Len(c)
  BY <1>1
<1> QED
  BY <1>1, <1>2

\* All the symbols of a path are the path.
LEMMA WholeBeginning ==
    ASSUME NEW p \in Seq(Symbols), p # Empty
    PROVE  Len(p) \in Nat \ {0} /\ SubSeq(p, 1, Len(p)) = p
<1>1. Len(p) \in Nat \ {0} /\ DOMAIN p = 1 .. Len(p)
  BY DEF Empty
<1>2. Len(p) \in 1 .. Len(p)
  BY <1>1
<1>3. /\ SubSeq(p, 1, Len(p)) \in Seq(Symbols) /\ Len(SubSeq(p, 1, Len(p))) = Len(p)
      /\ \A i \in 1 .. Len(p) : SubSeq(p, 1, Len(p))[i] = p[i]
  BY <1>2, Beginning
<1>4. \A q \in Seq(Symbols) : Len(q) = Len(p) /\ (\A i \in 1 .. Len(p) : q[i] = p[i]) => q = p
  OBVIOUS
<1> QED
  BY <1>1, <1>3, <1>4

\* path_prefix_matches, a test on characters, finds the directories above a path and
\* nothing else: no prefix ends within a name (config.cpp:223-227).
LEMMA MatchIsAbove ==
    ASSUME NEW c \in Seq(Symbols), NEW p \in Seq(Symbols), p # Empty
    PROVE  /\ path_prefix_matches(c, p) <=> p \in Above(c)
           /\ path_prefix_matches(c, p) =>
                 p = SubSeq(c, 1, Len(p)) /\ Len(p) \in 1 .. Len(c) /\ p[1] = c[1]
<1>1. Len(p) \in Nat \ {0} /\ Len(c) \in Nat /\ SubSeq(p, 1, Len(p)) = p
  BY WholeBeginning
<1>2. IsPrefix(p, c) <=> Len(p) \in 1 .. Len(c) /\ p = SubSeq(c, 1, Len(p))
  BY <1>1 DEF IsPrefix
<1>3. ASSUME path_prefix_matches(c, p) PROVE p \in Above(c)
  <2> DEFINE k == Len(p)
  <2>1. k \in 1 .. Len(c) /\ p = SubSeq(c, 1, k)
    BY <1>2, <1>3 DEF path_prefix_matches
  <2>2. k = Len(c) \/ EndsWithSlash(SubSeq(c, 1, k)) \/ c[k + 1] = "/"
    BY <1>3, <2>1 DEF path_prefix_matches
  <2> HIDE DEF k
  <2> QED
    BY <2>1, <2>2 DEF Above
<1>4. ASSUME p \in Above(c) PROVE path_prefix_matches(c, p)
  <2>1. PICK k \in 1 .. Len(c) :
           /\ p = SubSeq(c, 1, k)
           /\ k = Len(c) \/ c[k + 1] = "/" \/ EndsWithSlash(SubSeq(c, 1, k))
    BY <1>4 DEF Above
  <2>2. Len(p) = k
    BY <2>1, Beginning
  <2>3. IsPrefix(p, c)
    BY <1>2, <2>1, <2>2
  <2> QED
    BY <2>1, <2>2, <2>3 DEF path_prefix_matches
<1>5. ASSUME path_prefix_matches(c, p)
      PROVE  p = SubSeq(c, 1, Len(p)) /\ Len(p) \in 1 .. Len(c) /\ p[1] = c[1]
  <2>1. p = SubSeq(c, 1, Len(p)) /\ Len(p) \in 1 .. Len(c)
    BY <1>2, <1>5 DEF path_prefix_matches
  <2>2. \A i \in 1 .. Len(p) : SubSeq(c, 1, Len(p))[i] = c[i]
    BY <2>1, Beginning
  <2>3. 1 \in 1 .. Len(p)
    BY <1>1
  <2> QED
    BY <2>1, <2>2, <2>3
<1> QED
  BY <1>3, <1>4, <1>5

\* A directory above a path is a path that is not longer.
LEMMA AboveIs ==
    ASSUME NEW c \in Seq(Symbols), NEW p \in Above(c)
    PROVE  p \in Seq(Symbols) /\ p # Empty /\ Len(p) \in 1 .. Len(c)
<1>1. PICK k \in 1 .. Len(c) : p = SubSeq(c, 1, k)
  BY DEF Above
<1>2. p \in Seq(Symbols) /\ Len(p) = k
  BY <1>1, Beginning
<1>3. k # 0 /\ Len(Empty) = 0
  BY DEF Empty
<1> QED
  BY <1>2, <1>3

\* What is known of a rule that a lookup considers.
LEMMA RuleMatches ==
    ASSUME NEW s, s.paths \in Seq(Rule), NEW path \in Seq(STRING), NEW name,
           \A i \in DOMAIN s.paths : s.paths[i].prefix # Empty,
           NEW i \in Rules(s, path, name)
    PROVE  /\ i \in DOMAIN s.paths /\ name \in DOMAIN s.paths[i].values
           /\ s.paths[i].prefix \in Seq(Symbols)
           /\ path_prefix_matches(canonical_vsi_path(path), s.paths[i].prefix)
           /\ s.paths[i].prefix \in Above(canonical_vsi_path(path))
           /\ Len(s.paths[i].prefix) \in 1 .. Len(canonical_vsi_path(path))
           /\ s.paths[i].prefix = SubSeq(canonical_vsi_path(path), 1, Len(s.paths[i].prefix))
           /\ s.paths[i].prefix[1] = canonical_vsi_path(path)[1]
<1> DEFINE c == canonical_vsi_path(path)
           p == s.paths[i].prefix
<1>1. c \in Seq(Symbols)
  BY CanonicalPath
<1>2. /\ i \in DOMAIN s.paths /\ name \in DOMAIN s.paths[i].values
      /\ path_prefix_matches(c, p)
  BY DEF Rules
<1>3. p \in Seq(Symbols) /\ p # Empty
  <2>1. s.paths[i] \in Rule
    BY <1>2
  <2> QED
    BY <1>2, <2>1 DEF Rule
<1> HIDE DEF c, p
<1>4. p \in Above(c) /\ p = SubSeq(c, 1, Len(p)) /\ Len(p) \in 1 .. Len(c) /\ p[1] = c[1]
  BY <1>1, <1>2, <1>3, MatchIsAbove
<1> QED
  BY <1>2, <1>3, <1>4 DEF c, p

\* The loop over the rules ends with one, and with one of the longest.
LEMMA BestIs ==
    ASSUME NEW s, s.paths \in Seq(Rule), NEW path \in Seq(STRING), NEW name,
           \A i \in DOMAIN s.paths : s.paths[i].prefix # Empty,
           Rules(s, path, name) # {}
    PROVE  /\ Best(s, path, name) \in Rules(s, path, name)
           /\ \A j \in Rules(s, path, name) :
                 Len(s.paths[j].prefix) <= Len(s.paths[Best(s, path, name)].prefix)
<1> DEFINE rules == Rules(s, path, name)
           m == Len(canonical_vsi_path(path))
           T == {Len(s.paths[j].prefix) : j \in rules}
<1>1. m \in Nat
  BY CanonicalPath
<1>2. \A j \in rules : Len(s.paths[j].prefix) \in 1 .. m
  BY RuleMatches
<1>3. T \subseteq 0 .. m /\ T # {}
  <2>1. \A x \in 1 .. m : x \in 0 .. m
    BY <1>1
  <2>2. \A t \in T : \E j \in rules : t = Len(s.paths[j].prefix)
    OBVIOUS
  <2>3. T # {}
    <3>1. PICK z : z \in rules
      OBVIOUS
    <3>2. Len(s.paths[z].prefix) \in T
      BY <3>1
    <3> QED
      BY <3>2
  <2> HIDE DEF T
  <2> QED
    BY <1>2, <2>1, <2>2, <2>3
<1>4. PICK x \in T : \A y \in T : y <= x
  <2> HIDE DEF T, m
  <2> QED
    BY <1>1, <1>3, GreatestExists
<1>5. \E i \in rules : \A j \in rules : Len(s.paths[j].prefix) <= Len(s.paths[i].prefix)
  BY <1>4
<1> QED
  BY <1>5 DEF Best

\* The longest of the directories above a path: they are of different lengths.
LEMMA NearestIs ==
    ASSUME NEW c \in Seq(Symbols), NEW scopes, scopes \subseteq Above(c), scopes # {}
    PROVE  LET p == CHOOSE p \in scopes : \A q \in scopes : Len(q) <= Len(p)
           IN  p \in scopes /\ \A q \in scopes : Len(q) <= Len(p)
<1> DEFINE T == {Len(q) : q \in scopes}
<1>1. Len(c) \in Nat
  OBVIOUS
<1>2. \A q \in scopes : Len(q) \in 1 .. Len(c)
  BY AboveIs
<1>3. T \subseteq 0 .. Len(c) /\ T # {}
  <2>1. \A x \in 1 .. Len(c) : x \in 0 .. Len(c)
    BY <1>1
  <2>2. \A t \in T : \E q \in scopes : t = Len(q)
    OBVIOUS
  <2>3. T # {}
    <3>1. PICK z : z \in scopes
      OBVIOUS
    <3>2. Len(z) \in T
      BY <3>1
    <3> QED
      BY <3>2
  <2> HIDE DEF T
  <2> QED
    BY <1>2, <2>1, <2>2, <2>3
<1>4. PICK x \in T : \A y \in T : y <= x
  <2> HIDE DEF T
  <2> QED
    BY <1>1, <1>3, GreatestExists
<1>5. \E p \in scopes : \A q \in scopes : Len(q) <= Len(p)
  BY <1>4
<1> QED
  BY <1>5

\* option compares lengths of prefixes, the documentation speaks of the nearest
\* directory: on the directories above one path they are the same (config.cpp:324-345).
LEMMA LookupsAgree ==
    ASSUME ConfigInv, NEW path \in Paths, NEW name \in Names
    PROVE  option(builder, path, name, NULL) = Promised(path, name)
<1> DEFINE c == canonical_vsi_path(path)
           rules == Rules(builder, path, name)
           scopes == {p \in Above(c) : Said(log, p, name) # NULL}
           first == Spelled(env, name)
<1>1. /\ builder.paths \in Seq(Rule) /\ path \in Seq(STRING) /\ log \in Seq(Accepted)
      /\ builder.environment \in {environment_(env), Empty}
      /\ c \in Seq(Symbols) /\ canonical_option_name(name) = name
  BY ConfigAssumption, CanonicalPath, NamesAreCanonical DEF ConfigInv, ConfigTypeOK
<1>2. /\ Agrees(builder.explicit, log, Empty)
      /\ \A i \in DOMAIN builder.paths :
            /\ builder.paths[i].prefix # Empty
            /\ Agrees(builder.paths[i].values, log, builder.paths[i].prefix)
  BY DEF ConfigInv, LayersAgree
<1>3. ASSUME NEW i \in rules
      PROVE  /\ builder.paths[i].prefix \in scopes
             /\ builder.paths[i].values[name] = Said(log, builder.paths[i].prefix, name)
             /\ builder.paths[i].prefix = SubSeq(c, 1, Len(builder.paths[i].prefix))
  <2>1. /\ i \in DOMAIN builder.paths /\ name \in DOMAIN builder.paths[i].values
        /\ builder.paths[i].prefix \in Above(c)
        /\ builder.paths[i].prefix = SubSeq(c, 1, Len(builder.paths[i].prefix))
    BY <1>1, <1>2, <1>3, RuleMatches
  <2> QED
    BY <1>2, <2>1 DEF Agrees
<1>4. ASSUME NEW p \in scopes
      PROVE  /\ \E i \in rules : builder.paths[i].prefix = p
             /\ p = SubSeq(c, 1, Len(p))
  <2>1. /\ p \in Above(c) /\ Said(log, p, name) # NULL /\ p \in Seq(Symbols) /\ p # Empty
        /\ path_prefix_matches(c, p) /\ p = SubSeq(c, 1, Len(p))
    BY <1>1, AboveIs, MatchIsAbove
  <2>2. PICK k \in DOMAIN log : canonical_vsi_path(log[k].prefix) = p
    BY <2>1, SaidByACall
  <2>3. log[k].prefix # Empty
    BY <2>1, <2>2 DEF canonical_vsi_path
  <2>4. PICK i \in DOMAIN builder.paths : builder.paths[i].prefix = p
    BY <2>2, <2>3 DEF ConfigInv, LayersAgree
  <2>5. name \in DOMAIN builder.paths[i].values
    BY <1>2, <2>1, <2>4 DEF Agrees
  <2>6. i \in rules
    BY <2>1, <2>4, <2>5 DEF Rules
  <2> QED
    BY <2>1, <2>4, <2>6
<1>5. /\ option(builder, path, name, NULL) =
            IF rules # {} THEN builder.paths[Best(builder, path, name)].values[name]
            ELSE IF name \in DOMAIN builder.explicit THEN builder.explicit[name]
            ELSE IF name \in DOMAIN builder.environment THEN builder.environment[name]
            ELSE NULL
  BY <1>1 DEF option
<1>6. CASE rules # {}
  <2> DEFINE b == Best(builder, path, name)
             q == builder.paths[b].prefix
             near == CHOOSE p \in scopes : \A r \in scopes : Len(r) <= Len(p)
  <2>1. /\ b \in rules
        /\ \A j \in rules : Len(builder.paths[j].prefix) <= Len(q)
    BY <1>1, <1>2, <1>6, BestIs
  <2>2. scopes # {} /\ scopes \subseteq Above(c)
    BY <1>3, <2>1
  <2>3. near \in scopes /\ \A r \in scopes : Len(r) <= Len(near)
    <3> HIDE DEF scopes, c
    <3> QED
      BY <1>1, <2>2, NearestIs
  <2>4. q \in scopes
    BY <1>3, <2>1
  <2>5. PICK i \in rules : builder.paths[i].prefix = near
    BY <1>4, <2>3
  <2>6. Len(q) \in Nat /\ Len(near) \in Nat
    <3>1. q \in Above(c) /\ near \in Above(c)
      BY <2>3, <2>4
    <3> HIDE DEF q, near, c
    <3>2. Len(q) \in 1 .. Len(c) /\ Len(near) \in 1 .. Len(c)
      BY <1>1, <3>1, AboveIs
    <3> QED
      BY <3>2
  <2>7. Len(q) <= Len(near) /\ Len(near) <= Len(q)
    BY <2>1, <2>3, <2>4, <2>5
  <2>8. q = near
    <3>1. Len(q) = Len(near)
      BY <2>6, <2>7
    <3>2. q = SubSeq(c, 1, Len(q)) /\ near = SubSeq(c, 1, Len(near))
      BY <1>4, <2>3, <2>4
    <3> QED
      BY <3>1, <3>2
  <2>9. Promised(path, name) = Said(log, near, name)
    BY <2>2 DEF Promised
  <2>10. option(builder, path, name, NULL) = Said(log, q, name)
    BY <1>3, <1>5, <1>6, <2>1
  <2> QED
    BY <2>8, <2>9, <2>10
<1>7. CASE rules = {}
  <2>1. scopes = {}
    BY <1>4, <1>7
  <2>2. Promised(path, name) =
           IF Said(log, Empty, name) # NULL THEN Said(log, Empty, name)
           ELSE IF ~Hermetic /\ first # Empty THEN env[Head(first)] ELSE NULL
    BY <2>1 DEF Promised
  <2>3. CASE name \in DOMAIN builder.explicit
    BY <1>2, <1>5, <1>7, <2>2, <2>3 DEF Agrees
  <2>4. CASE name \notin DOMAIN builder.explicit
    <3>1. Said(log, Empty, name) = NULL
      BY <1>2, <2>4 DEF Agrees
    <3>2. CASE builder.environment = Empty
      <4>1. Hermetic /\ DOMAIN builder.environment = {}
        BY <3>2 DEF Hermetic, Empty
      <4> QED
        BY <1>5, <1>7, <2>2, <2>4, <3>1, <4>1
    <3>3. CASE builder.environment = environment_(env) /\ builder.environment # Empty
      <4>1. /\ name \in DOMAIN builder.environment <=> first # Empty
            /\ first # Empty => builder.environment[name] = env[Head(first)]
        BY <3>3 DEF environment_
      <4>2. ~Hermetic
        BY <3>3 DEF Hermetic
      <4> QED
        BY <1>5, <1>7, <2>2, <2>4, <3>1, <4>1, <4>2
    <3> QED
      BY <1>1, <3>2, <3>3
  <2> QED
    BY <2>3, <2>4
<1> QED
  BY <1>6, <1>7

\* A line of scope_key that names a rule is none of the words for the other layers.
LEMMA ScopeNamesRule ==
    ASSUME ConfigInv, NEW path \in Paths, NEW raw,
           Rules(builder, path, canonical_option_name(raw)) # {}
    PROVE  Scope(builder, path, raw) \notin {<<"explicit">>, <<"environment">>, <<"default">>}
<1> DEFINE name == canonical_option_name(raw)
           c == canonical_vsi_path(path)
           p == builder.paths[Best(builder, path, name)].prefix
<1>1. /\ builder.paths \in Seq(Rule) /\ path \in Seq(STRING) /\ c \in Seq(Symbols)
      /\ \A i \in DOMAIN builder.paths : builder.paths[i].prefix # Empty
  BY ConfigAssumption, CanonicalPath DEF ConfigInv, ConfigTypeOK, LayersAgree
<1>2. Best(builder, path, name) \in Rules(builder, path, name)
  BY <1>1, BestIs
<1>3. p[1] = c[1] /\ Len(p) \in 1 .. Len(c)
  BY <1>1, <1>2, RuleMatches
<1>4. c # Empty /\ Head(c) = c[1]
  BY <1>1, <1>3 DEF Empty
<1>5. c[1] \notin Layers
  BY <1>4, PathsAssumption
<1>6. Scope(builder, path, raw) = p
  BY DEF Scope
<1> HIDE DEF p
<1>7. p # <<"explicit">> /\ p # <<"environment">> /\ p # <<"default">>
  BY <1>3, <1>5 DEF Layers
<1> QED
  BY <1>6, <1>7

\* What scope_key says of an option tells from which rule or layer option takes it.
LEMMA SameScope ==
    ASSUME ConfigInv, NEW p \in Paths, NEW q \in Paths, NEW raw,
           Scope(builder, p, raw) = Scope(builder, q, raw)
    PROVE  option(builder, p, raw, NULL) = option(builder, q, raw, NULL)
<1> DEFINE name == canonical_option_name(raw)
           Words == {<<"explicit">>, <<"environment">>, <<"default">>}
<1>1. /\ builder.paths \in Seq(Rule) /\ p \in Seq(STRING) /\ q \in Seq(STRING)
      /\ \A i \in DOMAIN builder.paths : builder.paths[i].prefix # Empty
      /\ \A i, j \in DOMAIN builder.paths :
            builder.paths[i].prefix = builder.paths[j].prefix => i = j
  BY ConfigAssumption DEF ConfigInv, ConfigTypeOK, LayersAgree
<1>2. ASSUME NEW x \in {p, q}, Rules(builder, x, name) = {}
      PROVE  Scope(builder, x, raw) \in Words
  BY <1>2 DEF Scope
<1>3. ASSUME NEW x \in {p, q}, Rules(builder, x, name) # {}
      PROVE  Scope(builder, x, raw) \notin Words
  BY <1>3, ScopeNamesRule
<1>4. CASE Rules(builder, p, name) # {} /\ Rules(builder, q, name) # {}
  <2> DEFINE i == Best(builder, p, name)
             j == Best(builder, q, name)
  <2>1. i \in Rules(builder, p, name) /\ j \in Rules(builder, q, name)
    BY <1>1, <1>4, BestIs
  <2>2. i \in DOMAIN builder.paths /\ j \in DOMAIN builder.paths
    BY <2>1 DEF Rules
  <2>3. builder.paths[i].prefix = builder.paths[j].prefix
    BY <1>4 DEF Scope
  <2>4. i = j
    <3> HIDE DEF i, j
    <3> QED
      BY <1>1, <2>2, <2>3
  <2> QED
    BY <1>4, <2>4 DEF option
<1>5. CASE Rules(builder, p, name) = {} /\ Rules(builder, q, name) = {}
  BY <1>5 DEF option
<1> QED
  BY <1>2, <1>3, <1>4, <1>5

\* The invariant gives both properties for a client, which has a copy of the builder.
LEMMA ConfigInvIsEnough == ConfigInv => LookupIsNearest /\ ScopeSharesValues
<1> SUFFICES ASSUME ConfigInv PROVE LookupIsNearest /\ ScopeSharesValues
  OBVIOUS
<1>1. \A client \in clients : client = builder
  BY DEF ConfigInv, ConfigTypeOK
<1>2. LookupIsNearest
  BY <1>1, LookupsAgree DEF LookupIsNearest
<1>3. ScopeSharesValues
  <2> DEFINE values(p) == [n \in Names |-> option(builder, p, n, NULL)]
             seen == {<<scope_key(builder, p, Names), values(p)>> : p \in Paths}
  <2>1. ASSUME NEW x \in seen, NEW y \in seen, x[1] = y[1] PROVE x[2] = y[2]
    <3>1. PICK p \in Paths : x = <<scope_key(builder, p, Names), values(p)>>
      OBVIOUS
    <3>2. PICK q \in Paths : y = <<scope_key(builder, q, Names), values(q)>>
      OBVIOUS
    <3>3. scope_key(builder, p, Names) = scope_key(builder, q, Names)
      BY <2>1, <3>1, <3>2
    <3>4. ASSUME NEW n \in Names
          PROVE  option(builder, p, n, NULL) = option(builder, q, n, NULL)
      <4>1. /\ scope_key(builder, p, Names)[n] = Scope(builder, p, n)
            /\ scope_key(builder, q, Names)[n] = Scope(builder, q, n)
        BY DEF scope_key
      <4>2. Scope(builder, p, n) = Scope(builder, q, n)
        BY <3>3, <4>1
      <4> QED
        BY <4>2, SameScope
    <3>5. values(p) = values(q)
      BY <3>4
    <3> QED
      BY <3>1, <3>2, <3>5
  <2> QED
    BY <1>1, <2>1 DEF ScopeSharesValues
<1> QED
  BY <1>2, <1>3
-----------------------------------------------------------------------------
\* What set and set_path make of the map of their scope.
Told(m, name, value) == IF value = NULL THEN Erase(m, name) ELSE Put(m, name, value)

\* The map that a call changes has what is said of its scope after the call.
LEMMA ToldAgrees ==
    ASSUME NEW m \in Maps, NEW calls \in Seq(Accepted), NEW c \in Accepted,
           canonical_option_name(c.name) \in Names,
           NEW scope, canonical_vsi_path(c.prefix) = scope, Agrees(m, calls, scope)
    PROVE  /\ Told(m, canonical_option_name(c.name), c.value) \in Maps
           /\ Agrees(Told(m, canonical_option_name(c.name), c.value), Append(calls, c), scope)
<1> DEFINE name == canonical_option_name(c.name)
           new == Told(m, name, c.value)
           more == Append(calls, c)
<1>1. \A n : Said(more, scope, n) = IF n = name THEN c.value ELSE Said(calls, scope, n)
  BY SaidAfter
<1>2. name \in Names /\ (c.value \in Values \/ c.value = NULL)
  BY DEF Accepted
<1>3. \A n \in Names : /\ n \in DOMAIN m <=> Said(calls, scope, n) # NULL
                       /\ n \in DOMAIN m => m[n] = Said(calls, scope, n)
  BY DEF Agrees
<1> HIDE DEF name, more
<1>4. CASE c.value = NULL
  <2>1. new = Erase(m, name)
    BY <1>4 DEF Told
  <2>2. /\ new \in Maps /\ DOMAIN new = DOMAIN m \ {name}
        /\ \A x \in DOMAIN m : x # name => new[x] = m[x]
    <3>1. PICK D \in SUBSET Names : m \in [D -> Values]
      BY DEF Maps
    <3>2. Erase(m, name) \in [D \ {name} -> Values] /\ D \ {name} \in SUBSET Names
      BY <3>1 DEF Erase
    <3>3. Erase(m, name) \in Maps
      BY <3>2 DEF Maps
    <3> QED
      BY <2>1, <3>3 DEF Erase
  <2> HIDE DEF new
  <2>3. Agrees(new, more, scope)
    BY <1>1, <1>3, <1>4, <2>2 DEF Agrees
  <2> QED
    BY <2>2, <2>3 DEF new, name, more
<1>5. CASE c.value # NULL
  <2>1. new = Put(m, name, c.value) /\ c.value \in Values
    BY <1>2, <1>5 DEF Told
  <2>2. /\ new \in Maps /\ DOMAIN new = DOMAIN m \cup {name} /\ new[name] = c.value
        /\ \A x \in DOMAIN m : x # name => new[x] = m[x]
    <3>1. PICK D \in SUBSET Names : m \in [D -> Values]
      BY DEF Maps
    <3>2. Put(m, name, c.value) \in [D \cup {name} -> Values] /\ D \cup {name} \in SUBSET Names
      BY <1>2, <2>1, <3>1 DEF Put
    <3>3. Put(m, name, c.value) \in Maps
      BY <3>2 DEF Maps
    <3> QED
      BY <2>1, <3>3 DEF Put
  <2> HIDE DEF new
  <2>3. Agrees(new, more, scope)
    BY <1>1, <1>3, <1>5, <2>2 DEF Agrees
  <2> QED
    BY <2>2, <2>3 DEF new, name, more
<1> QED
  BY <1>4, <1>5

\* A call changes nothing that is said of the other scopes.
LEMMA OthersAgree ==
    ASSUME NEW m, NEW calls \in Seq(Accepted), NEW c \in Accepted,
           NEW scope, canonical_vsi_path(c.prefix) # scope, Agrees(m, calls, scope)
    PROVE  Agrees(m, Append(calls, c), scope)
<1>1. \A n : Said(Append(calls, c), scope, n) = Said(calls, scope, n)
  BY SaidAfter
<1> QED
  BY <1>1 DEF Agrees

\* A new builder: nothing has been said, and there is no rule.
LEMMA ConfigInitially == Init => ConfigInv
<1> SUFFICES ASSUME Init PROVE ConfigInv
  OBVIOUS
<1>1. /\ env \in Environments /\ clients = {} /\ log = <<>>
      /\ builder.environment \in {environment_(env), Empty}
      /\ builder = [environment |-> builder.environment, explicit |-> <<>>, paths |-> <<>>]
  BY DEF Init, ConfigBuilder, Empty
<1>2. <<>> \in Maps /\ DOMAIN <<>> = {}
  <2>1. <<>> \in [{} -> Values]
    OBVIOUS
  <2> QED
    BY <2>1 DEF Maps
<1>3. <<>> \in Seq(Rule) /\ <<>> \in Seq(Accepted)
  OBVIOUS
<1>4. ConfigTypeOK
  <2>1. builder \in [environment : {environment_(env), Empty}, explicit : Maps,
                     paths : Seq(Rule)]
    <3> DEFINE records == [environment : {environment_(env), Empty}, explicit : Maps,
                           paths : Seq(Rule)]
    <3>1. \A e \in {environment_(env), Empty}, m \in Maps, q \in Seq(Rule) :
             [environment |-> e, explicit |-> m, paths |-> q] \in records
      OBVIOUS
    <3>2. [environment |-> builder.environment, explicit |-> <<>>, paths |-> <<>>] \in records
      <4> HIDE DEF records
      <4> QED
        BY <1>1, <1>2, <1>3, <3>1, Zenon
    <3> QED
      BY <1>1, <3>2, Zenon
  <2>2. clients \in {{}, {builder}}
    BY <1>1
  <2> QED
    BY <1>1, <1>3, <2>1, <2>2 DEF ConfigTypeOK
<1>5. \A s, n : Said(log, s, n) = NULL
  BY <1>1, <1>2 DEF Said
<1>6. builder.explicit = <<>> /\ builder.paths = <<>>
  BY <1>1
<1>7. LayersAgree
  BY <1>1, <1>2, <1>5, <1>6 DEF LayersAgree, Agrees
<1> QED
  BY <1>4, <1>7 DEF ConfigInv

\* What set and set_path have in common: the call is logged, before there is a client.
LEMMA CallIsLogged ==
    ASSUME ConfigInv, NEW p \in Seq(STRING), NEW raw \in Spellings, NEW v \in Values \cup {NULL},
           Logged(p, raw, v)
    PROVE  /\ [prefix |-> p, name |-> raw, value |-> v] \in Accepted
           /\ log \in Seq(Accepted) /\ log' \in Seq(Accepted)
           /\ log' = Append(log, [prefix |-> p, name |-> raw, value |-> v])
           /\ clients = {}
<1>1. [prefix |-> p, name |-> raw, value |-> v] \in Accepted
  BY DEF Accepted
<1>2. log \in Seq(Accepted)
  BY DEF ConfigInv, ConfigTypeOK
<1> QED
  BY <1>1, <1>2 DEF Logged

\* set changes the explicit layer, and no rule has the empty prefix.
LEMMA SetKeeps ==
    ASSUME ConfigInv, NEW raw \in Spellings, NEW v \in Values \cup {NULL}, set(raw, v)
    PROVE  ConfigInv'
<1> DEFINE name == canonical_option_name(raw)
           c == [prefix |-> Empty, name |-> raw, value |-> v]
           new == Told(builder.explicit, name, v)
<1>1. /\ name \in Names /\ env' = env /\ clients' = clients /\ Logged(Empty, raw, v)
      /\ builder' = [builder EXCEPT !.explicit = new]
  BY DEF set, known_option, Told
<1>2. /\ builder \in [environment : {environment_(env), Empty}, explicit : Maps,
                      paths : Seq(Rule)]
      /\ env \in Environments
  BY DEF ConfigInv, ConfigTypeOK
<1>3. Empty \in Seq(STRING)
  BY DEF Empty
<1>4. /\ c \in Accepted /\ log \in Seq(Accepted) /\ log' \in Seq(Accepted)
      /\ log' = Append(log, c) /\ clients = {}
  BY <1>1, <1>3, CallIsLogged
<1>5. c.prefix = Empty /\ c.name = raw /\ c.value = v /\ canonical_vsi_path(Empty) = Empty
  BY DEF canonical_vsi_path
<1> HIDE DEF c
<1>6. builder.explicit \in Maps /\ Agrees(builder.explicit, log, Empty)
  BY <1>2 DEF ConfigInv, LayersAgree
<1>7. /\ Told(builder.explicit, canonical_option_name(c.name), c.value) \in Maps
      /\ Agrees(Told(builder.explicit, canonical_option_name(c.name), c.value),
                Append(log, c), Empty)
  BY <1>1, <1>4, <1>5, <1>6, ToldAgrees
<1>8. new \in Maps /\ Agrees(new, log', Empty)
  BY <1>4, <1>5, <1>7
<1> HIDE DEF new, name
<1>9. /\ builder' \in [environment : {environment_(env), Empty}, explicit : Maps,
                       paths : Seq(Rule)]
      /\ builder'.explicit = new /\ builder'.paths = builder.paths
  BY <1>1, <1>2, <1>8
<1>10. ConfigTypeOK'
  BY <1>1, <1>2, <1>4, <1>9 DEF ConfigTypeOK
<1>11. ASSUME NEW i \in DOMAIN builder.paths
       PROVE  /\ builder.paths[i].prefix # Empty
              /\ Agrees(builder.paths[i].values, log', builder.paths[i].prefix)
  <2>1. /\ builder.paths[i].prefix # Empty
        /\ Agrees(builder.paths[i].values, log, builder.paths[i].prefix)
    BY <1>11 DEF ConfigInv, LayersAgree
  <2> QED
    BY <1>4, <1>5, <2>1, OthersAgree
<1>12. ASSUME NEW k \in DOMAIN log'
       PROVE  \/ log'[k].prefix = Empty
              \/ \E i \in DOMAIN builder.paths :
                    builder.paths[i].prefix = canonical_vsi_path(log'[k].prefix)
  <2>1. (k \in DOMAIN log /\ log'[k] = log[k]) \/ log'[k] = c
    BY <1>4
  <2>2. CASE log'[k] = c
    BY <1>5, <2>2
  <2>3. CASE k \in DOMAIN log /\ log'[k] = log[k]
    BY <2>3 DEF ConfigInv, LayersAgree
  <2> QED
    BY <2>1, <2>2, <2>3
<1>13. \A i, j \in DOMAIN builder.paths :
          builder.paths[i].prefix = builder.paths[j].prefix => i = j
  BY DEF ConfigInv, LayersAgree
<1>14. LayersAgree'
  BY <1>8, <1>9, <1>11, <1>12, <1>13 DEF LayersAgree
<1> QED
  BY <1>10, <1>14 DEF ConfigInv

\* The rules with one for the prefix: each still has what was said of its scope.
LEMMA RuleIsMade ==
    ASSUME ConfigInv, NEW p \in Seq(Symbols), p # Empty
    PROVE  LET rules == WithRule(builder.paths, p)
           IN  /\ rules \in Seq(Rule)
               /\ \A i \in DOMAIN rules : /\ rules[i].prefix # Empty
                                          /\ Agrees(rules[i].values, log, rules[i].prefix)
               /\ \A i, j \in DOMAIN rules : rules[i].prefix = rules[j].prefix => i = j
               /\ \E i \in DOMAIN rules : rules[i].prefix = p
               /\ \A i \in DOMAIN builder.paths :
                     i \in DOMAIN rules /\ rules[i] = builder.paths[i]
<1> DEFINE paths == builder.paths
           rules == WithRule(paths, p)
           fresh == [prefix |-> p, values |-> Empty]
<1>1. /\ paths \in Seq(Rule)
      /\ \A i \in DOMAIN paths : /\ paths[i].prefix # Empty
                                 /\ Agrees(paths[i].values, log, paths[i].prefix)
      /\ \A i, j \in DOMAIN paths : paths[i].prefix = paths[j].prefix => i = j
  BY DEF ConfigInv, ConfigTypeOK, LayersAgree
<1>2. CASE \E i \in DOMAIN paths : paths[i].prefix = p
  <2>1. rules = paths
    BY <1>2 DEF WithRule
  <2> QED
    BY <1>1, <1>2, <2>1
<1>3. CASE ~\E i \in DOMAIN paths : paths[i].prefix = p
  <2>1. rules = Append(paths, fresh)
    BY <1>3 DEF WithRule
  <2>2. Empty \in Maps /\ DOMAIN Empty = {}
    <3>1. <<>> \in [{} -> Values] /\ DOMAIN <<>> = {}
      OBVIOUS
    <3> QED
      BY <3>1 DEF Maps, Empty
  <2>3. fresh \in Rule /\ fresh.prefix = p /\ fresh.values = Empty
    BY <2>2 DEF Rule
  <2>4. \A n : Said(log, p, n) = NULL
    <3> SUFFICES ASSUME NEW n, Said(log, p, n) # NULL PROVE FALSE
      OBVIOUS
    <3>1. PICK k \in DOMAIN log : canonical_vsi_path(log[k].prefix) = p
      BY SaidByACall
    <3>2. log[k].prefix # Empty
      BY <3>1 DEF canonical_vsi_path
    <3> QED
      BY <1>3, <3>1, <3>2 DEF ConfigInv, LayersAgree
  <2>5. Agrees(fresh.values, log, fresh.prefix)
    BY <2>2, <2>3, <2>4 DEF Agrees
  <2> DEFINE N == Len(paths)
  <2>6. N \in Nat /\ DOMAIN paths = 1 .. N
    BY <1>1
  <2> HIDE DEF fresh, paths
  <2>7. /\ rules \in Seq(Rule) /\ DOMAIN rules = 1 .. N + 1
        /\ rules[N + 1] = fresh /\ \A i \in 1 .. N : rules[i] = paths[i]
    BY <1>1, <2>1, <2>3
  <2> HIDE DEF rules, N
  <2>8. \A i \in 1 .. N + 1 : i \in 1 .. N \/ i = N + 1
    BY <2>6
  <2>9. N + 1 \in 1 .. N + 1 /\ \A i \in 1 .. N : i \in 1 .. N + 1
    BY <2>6
  <2>10. \A i \in DOMAIN rules : /\ rules[i].prefix # Empty
                                 /\ Agrees(rules[i].values, log, rules[i].prefix)
    BY <1>1, <2>3, <2>5, <2>6, <2>7, <2>8
  <2>11. ASSUME NEW i \in DOMAIN rules, NEW j \in DOMAIN rules,
                rules[i].prefix = rules[j].prefix
         PROVE  i = j
    <3>1. \A k \in 1 .. N : rules[k].prefix # p
      BY <1>3, <2>6, <2>7
    <3>2. rules[N + 1].prefix = p
      BY <2>3, <2>7
    <3>3. CASE i \in 1 .. N /\ j \in 1 .. N
      BY <1>1, <2>6, <2>7, <2>11, <3>3
    <3> QED
      BY <2>7, <2>8, <2>11, <3>1, <3>2, <3>3
  <2>12. \E i \in DOMAIN rules : rules[i].prefix = p
    BY <2>3, <2>7, <2>9
  <2>13. \A i \in DOMAIN paths : i \in DOMAIN rules /\ rules[i] = paths[i]
    BY <2>6, <2>7, <2>9
  <2> QED
    BY <2>7, <2>10, <2>11, <2>12, <2>13 DEF rules, paths
<1> QED
  BY <1>2, <1>3

\* set_path makes or finds the rule of its prefix and changes that one alone.
LEMMA SetPathKeeps ==
    ASSUME ConfigInv, NEW p \in Scopes, NEW raw \in Spellings, NEW v \in Values \cup {NULL},
           set_path(p, raw, v)
    PROVE  ConfigInv'
<1> DEFINE name == canonical_option_name(raw)
           canonical == canonical_vsi_path(p)
           c == [prefix |-> p, name |-> raw, value |-> v]
           rules == WithRule(builder.paths, canonical)
           new(r) == IF r.prefix # canonical THEN r
                     ELSE [r EXCEPT !.values = Told(@, name, v)]
           changed == [i \in DOMAIN rules |-> new(rules[i])]
<1>1. /\ name \in Names /\ env' = env /\ clients' = clients /\ Logged(p, raw, v)
      /\ builder' = [builder EXCEPT !.paths = changed] /\ p # Empty
  BY DEF set_path, known_option, Told
<1>2. /\ builder \in [environment : {environment_(env), Empty}, explicit : Maps,
                      paths : Seq(Rule)]
      /\ env \in Environments
  BY DEF ConfigInv, ConfigTypeOK
<1>3. p \in Seq(STRING)
  BY ConfigAssumption
<1>4. /\ c \in Accepted /\ log \in Seq(Accepted) /\ log' \in Seq(Accepted)
      /\ log' = Append(log, c) /\ clients = {}
  BY <1>1, <1>3, CallIsLogged
<1>5. c.prefix = p /\ c.name = raw /\ c.value = v
  OBVIOUS
<1>6. canonical \in Seq(Symbols) /\ canonical # Empty
  BY <1>1, <1>3, CanonicalPath
<1>7. /\ rules \in Seq(Rule)
      /\ \A i \in DOMAIN rules : /\ rules[i].prefix # Empty
                                 /\ Agrees(rules[i].values, log, rules[i].prefix)
      /\ \A i, j \in DOMAIN rules : rules[i].prefix = rules[j].prefix => i = j
      /\ \E i \in DOMAIN rules : rules[i].prefix = canonical
      /\ \A i \in DOMAIN builder.paths : i \in DOMAIN rules /\ rules[i] = builder.paths[i]
  <2> HIDE DEF canonical
  <2> QED
    BY <1>6, RuleIsMade
<1> HIDE DEF c, rules
<1>8. ASSUME NEW i \in DOMAIN rules
      PROVE  /\ changed[i] \in Rule /\ changed[i].prefix = rules[i].prefix
             /\ Agrees(changed[i].values, log', changed[i].prefix)
  <2>1. /\ rules[i] \in Rule /\ rules[i].prefix \in Seq(Symbols) /\ rules[i].values \in Maps
        /\ Agrees(rules[i].values, log, rules[i].prefix)
    <3>1. rules[i] \in Rule /\ Agrees(rules[i].values, log, rules[i].prefix)
      BY <1>7, <1>8
    <3>2. \A r \in Rule : r.prefix \in Seq(Symbols) /\ r.values \in Maps
      BY DEF Rule
    <3> QED
      BY <3>1, <3>2
  <2>2. CASE rules[i].prefix # canonical
    <3>1. changed[i] = rules[i]
      BY <1>8, <2>2
    <3>2. Agrees(rules[i].values, Append(log, c), rules[i].prefix)
      BY <1>4, <1>5, <2>1, <2>2, OthersAgree
    <3> QED
      BY <1>4, <2>1, <3>1, <3>2
  <2>3. CASE rules[i].prefix = canonical
    <3> DEFINE values == Told(rules[i].values, name, v)
    <3>1. changed[i] = [rules[i] EXCEPT !.values = values]
      BY <1>8, <2>3
    <3>2. canonical_vsi_path(c.prefix) = rules[i].prefix /\ canonical_option_name(c.name) \in Names
      BY <1>1, <1>5, <2>3
    <3>3. /\ Told(rules[i].values, canonical_option_name(c.name), c.value) \in Maps
          /\ Agrees(Told(rules[i].values, canonical_option_name(c.name), c.value),
                    Append(log, c), rules[i].prefix)
      BY <1>4, <2>1, <3>2, ToldAgrees
    <3>4. values \in Maps /\ Agrees(values, log', rules[i].prefix)
      BY <1>4, <1>5, <3>3
    <3> HIDE DEF values
    <3>5. /\ changed[i] \in Rule /\ changed[i].values = values
          /\ changed[i].prefix = rules[i].prefix
      <4> HIDE DEF changed
      <4> QED
        BY <2>1, <3>1, <3>4 DEF Rule
    <3> QED
      BY <3>4, <3>5
  <2> QED
    BY <2>2, <2>3
<1>9. DOMAIN changed = DOMAIN rules
  OBVIOUS
<1> HIDE DEF changed
<1>10. changed \in Seq(Rule)
  <2>1. Len(rules) \in Nat /\ DOMAIN rules = 1 .. Len(rules)
    BY <1>7
  <2>2. changed = [i \in 1 .. Len(rules) |-> changed[i]]
    BY <1>9, <2>1 DEF changed
  <2>3. \A i \in 1 .. Len(rules) : changed[i] \in Rule
    BY <1>8, <2>1
  <2> QED
    BY <2>1, <2>2, <2>3
<1> HIDE DEF name, canonical
<1>11. /\ builder' \in [environment : {environment_(env), Empty}, explicit : Maps,
                        paths : Seq(Rule)]
       /\ builder'.explicit = builder.explicit /\ builder'.paths = changed
  BY <1>1, <1>2, <1>10
<1>12. ConfigTypeOK'
  BY <1>1, <1>2, <1>4, <1>11 DEF ConfigTypeOK
<1>13. Agrees(builder.explicit, log', Empty)
  <2>1. canonical_vsi_path(c.prefix) # Empty
    BY <1>5, <1>6 DEF canonical
  <2>2. Agrees(builder.explicit, log, Empty)
    BY DEF ConfigInv, LayersAgree
  <2> QED
    BY <1>4, <2>1, <2>2, OthersAgree
<1>14. ASSUME NEW k \in DOMAIN log'
       PROVE  \/ log'[k].prefix = Empty
              \/ \E i \in DOMAIN changed :
                    changed[i].prefix = canonical_vsi_path(log'[k].prefix)
  <2>1. (k \in DOMAIN log /\ log'[k] = log[k]) \/ log'[k] = c
    BY <1>4
  <2>2. CASE log'[k] = c
    <3>1. canonical_vsi_path(log'[k].prefix) = canonical
      BY <1>5, <2>2 DEF canonical
    <3>2. PICK i \in DOMAIN rules : rules[i].prefix = canonical
      BY <1>7
    <3> QED
      BY <1>8, <1>9, <3>1, <3>2
  <2>3. CASE k \in DOMAIN log /\ log'[k] = log[k]
    <3>1. \/ log[k].prefix = Empty
          \/ \E i \in DOMAIN builder.paths :
                builder.paths[i].prefix = canonical_vsi_path(log[k].prefix)
      BY <2>3 DEF ConfigInv, LayersAgree
    <3> QED
      BY <1>7, <1>8, <1>9, <2>3, <3>1
  <2> QED
    BY <2>1, <2>2, <2>3
<1>15. \A i \in DOMAIN changed : /\ changed[i].prefix # Empty
                                 /\ Agrees(changed[i].values, log', changed[i].prefix)
  BY <1>7, <1>8, <1>9
<1>16. \A i, j \in DOMAIN changed : changed[i].prefix = changed[j].prefix => i = j
  BY <1>7, <1>8, <1>9
<1>17. LayersAgree'
  BY <1>11, <1>13, <1>14, <1>15, <1>16 DEF LayersAgree
<1> QED
  BY <1>12, <1>17 DEF ConfigInv

\* karu_client_create copies the builder and changes nothing in it.
LEMMA CreateKeeps ==
    ASSUME ConfigInv, UNCHANGED <<env, builder, log>>, clients' \in {clients, {builder}}
    PROVE  ConfigInv'
<1>1. ConfigTypeOK'
  BY DEF ConfigInv, ConfigTypeOK
<1>2. LayersAgree'
  BY DEF ConfigInv, LayersAgree
<1> QED
  BY <1>1, <1>2 DEF ConfigInv

\* The configuration always has the invariant.
LEMMA ConfigInvariance == Spec => []ConfigInv
<1>1. ConfigInv /\ [Next]_vars => ConfigInv'
  <2> SUFFICES ASSUME ConfigInv, [Next]_vars PROVE ConfigInv'
    OBVIOUS
  <2>1. CASE UNCHANGED vars
    BY <2>1, CreateKeeps DEF vars
  <2>2. CASE karu_client_create
    BY <2>2, CreateKeeps DEF karu_client_create
  <2>3. ASSUME NEW n \in Spellings, NEW v \in Values \cup {NULL}, set(n, v)
        PROVE  ConfigInv'
    BY <2>3, SetKeeps
  <2>4. ASSUME NEW n \in Spellings, NEW v \in Values \cup {NULL}, NEW p \in Scopes,
               set_path(p, n, v)
        PROVE  ConfigInv'
    BY <2>4, SetPathKeeps
  <2> QED
    BY <2>1, <2>2, <2>3, <2>4 DEF Next
<1> QED
  BY <1>1, ConfigInitially, PTL DEF Spec

\* Whatever the calls of set and set_path, in whatever order and spelling, option gives
\* a client the value that the nearest enclosing directory was last told, else the
\* global one, else the environment's (config.cpp:266-345).
THEOREM LookupSoundness == Spec => []LookupIsNearest
  BY ConfigInvariance, ConfigInvIsEnough, PTL

\* Two paths with one scope_key have the same values of its options, so that the
\* credential cache shares an entry only among requests with the same settings
\* (config.cpp:357-386).
THEOREM ScopeSoundness == Spec => []ScopeSharesValues
  BY ConfigInvariance, ConfigInvIsEnough, PTL
=============================================================================
