------------------------------ MODULE Download ------------------------------
(***************************************************************************)
(* Whole-object downloads: download (src/download.cpp) and the temporary   *)
(* file it publishes, os::OutputFile (src/platform.cpp).                   *)
(*                                                                         *)
(* Several calls write to ONE destination, in threads or processes of      *)
(* their own, beside a process that is not karu's and may create the file  *)
(* too.  The first bytes come from a probe, the rest from chunks read in   *)
(* parallel by batches of the engine, which are taken by a polling loop.   *)
(* The source may be replaced at any moment.  A byte of a file is the      *)
(* version of the object it was read from.                                 *)
(***************************************************************************)
EXTENDS Integers, Sequences, FiniteSets

CONSTANTS
    Downloads,      \* the calls of karu_client_download
    Sizes,          \* Sizes[v]: the bytes of version v of the object
    Tagged,         \* the versions that come with a strong ETag
    ProbeSize,      \* kProbeSize
    ChunkSize,      \* ChunkSize[d]: options.chunk_size of the call
    Parallelism,    \* Parallelism[d]: options.parallelism of the call
    NoCall          \* the owner of a file that no download has made

ASSUME DownloadAssumption ==
    /\ NoCall \notin Downloads
    /\ Sizes \in Seq(Nat) /\ Sizes # <<>> /\ Tagged \subseteq DOMAIN Sizes
    /\ ProbeSize \in Nat \ {0}
    /\ ChunkSize \in [Downloads -> Nat \ {0}]
    /\ Parallelism \in [Downloads -> Nat \ {0}]

VARIABLES
    object,         \* the version of the object at the source
    destination,    \* the file under the name all downloads publish to
    temporary,      \* temporary[d]: the file under the temporary name of d
    overwrite,      \* the downloads with options.overwrite
    hard_links,     \* the filesystem of the destination has hard links
    stage,          \* stage[d]: where download is
    summary,        \* summary[d]: size, etag and downloaded
    slots,          \* slots[d]: the slots and their batches
    next_chunk,     \* next_chunk[d]: the first chunk not submitted
    active,         \* active[d]: slots whose work is not over
    cursor          \* cursor[d]: wait_cursor, step and completed_one

given == <<overwrite, hard_links>>
downloadVars == <<object, destination, temporary, given, stage, summary, slots,
          next_chunk, active, cursor>>
local == <<given, summary, slots, next_chunk, active, cursor>>

Versions == DOMAIN Sizes
Hole == 0           \* a byte of a resized file that was never written
NoTag == 0
NoFile == [there |-> FALSE, by |-> NoCall, bytes |-> <<>>]
\* The file of a process that is not karu's.
OtherFile == [there |-> TRUE, by |-> NoCall, bytes |-> <<>>]
Empty(d) == [there |-> TRUE, by |-> d, bytes |-> <<>>]
\* A slot that nothing was asked for, and one whose buffer is freed.
Idle == [batch |-> "none", buffer |-> TRUE, offset |-> 0, length |-> 0,
         if_match |-> NoTag, bytes |-> Hole]
Gone == [batch |-> "none", buffer |-> FALSE, offset |-> 0, length |-> 0,
         if_match |-> NoTag, bytes |-> Hole]
NoSummary == [size |-> 0, etag |-> NoTag, downloaded |-> 0]
FirstLook == [wait |-> 0, step |-> 0, completed |-> FALSE]

Least(a, b) == IF a < b THEN a ELSE b
probe_length(d) == Least(Least(ChunkSize[d], ProbeSize), summary[d].size)
remaining(d) == summary[d].size - probe_length(d)
chunks(d) == IF remaining(d) = 0 THEN 0 ELSE 1 + (remaining(d) - 1) \div ChunkSize[d]
slot_count(d) == Least(Parallelism[d], chunks(d))

DownloadInit ==
    /\ object = 1
    /\ destination = NoFile
    /\ temporary = [d \in Downloads |-> NoFile]
    /\ overwrite \in SUBSET Downloads
    /\ hard_links \in BOOLEAN
    /\ stage = [d \in Downloads |-> "create"]
    /\ summary = [d \in Downloads |-> NoSummary]
    /\ slots = [d \in Downloads |-> <<>>]
    /\ next_chunk = [d \in Downloads |-> 0]
    /\ active = [d \in Downloads |-> 0]
    /\ cursor = [d \in Downloads |-> FirstLook]

Enter(d, label) == stage' = [stage EXCEPT ![d] = label]

\* The file with the bytes [offset, +length) set to a version.
Written(file, offset, length, version) ==
    [file EXCEPT !.bytes = [i \in DOMAIN file.bytes |->
        IF i \in offset + 1 .. offset + length THEN version ELSE file.bytes[i]]]

\* The local variables of download cease to exist; the summary reaches the
\* caller after success only.
Forget(d, result) ==
    /\ summary' = [summary EXCEPT ![d] = result]
    /\ next_chunk' = [next_chunk EXCEPT ![d] = 0]
    /\ active' = [active EXCEPT ![d] = 0]
    /\ cursor' = [cursor EXCEPT ![d] = FirstLook]

LeaveScope(d, result) ==
    /\ Forget(d, result)
    /\ slots' = [slots EXCEPT ![d] = <<>>]
-----------------------------------------------------------------------------
(***************************************************************************)
(* An early return.  The destructors run before the caller has its status: *)
(* slot after slot frees its batch, which waits for the engine to let go   *)
(* of it, and then its buffer; ~OutputFile comes last.                     *)
(***************************************************************************)
ReturnEarly(d) ==
    /\ Enter(d, "unwind")
    /\ Forget(d, NoSummary)
    /\ UNCHANGED <<object, destination, temporary, given, slots>>

\* The slots are destroyed in their order: this is the one whose turn it is.
Dying(d, i) ==
    /\ stage[d] = "unwind"
    /\ slots[d][i].buffer
    /\ \A j \in 1 .. i - 1 : ~slots[d][j].buffer

FreeBatch(d, i) ==
    /\ Dying(d, i)
    /\ slots[d][i].batch # "none"
    /\ slots' = [slots EXCEPT ![d][i] = Idle]
    /\ UNCHANGED <<object, destination, temporary, given, stage, summary,
                   next_chunk, active, cursor>>

\* Mutant: Slot declares its batch before its buffer.
FreeBufferFirst(d, i) ==
    /\ Dying(d, i)
    /\ slots' = [slots EXCEPT ![d][i].buffer = FALSE]
    /\ UNCHANGED <<object, destination, temporary, given, stage, summary,
                   next_chunk, active, cursor>>

FreeBuffer(d, i) ==
    /\ Dying(d, i)
    /\ slots[d][i].batch = "none"
    /\ slots' = [slots EXCEPT ![d][i] = Gone]
    /\ UNCHANGED <<object, destination, temporary, given, stage, summary,
                   next_chunk, active, cursor>>

\* ~OutputFile removes the temporary name and ignores that it may not succeed.
Unwind(d) ==
    /\ stage[d] = "unwind"
    /\ \A i \in DOMAIN slots[d] : ~slots[d][i].buffer
    /\ Enter(d, "failed")
    /\ LeaveScope(d, NoSummary)
    /\ temporary' \in {temporary, [temporary EXCEPT ![d] = NoFile]}
    /\ UNCHANGED <<object, destination, given>>

\* create_near: a destination that exists is refused, and the temporary name
\* is opened with O_EXCL.
Create(d) ==
    /\ stage[d] = "create"
    /\ \/ /\ destination.there /\ d \notin overwrite
          /\ ReturnEarly(d)
       \/ /\ d \in overwrite \/ ~destination.there
          /\ temporary' = [temporary EXCEPT ![d] = Empty(d)]
          /\ Enter(d, "probe")
          /\ UNCHANGED <<object, destination, local>>

\* read_ends gives the size, the ETag and the first bytes, all of one version.
\* The file is resized, the bytes are written, and progress is asked.
Probe(d) ==
    /\ stage[d] = "probe"
    /\ summary' = [summary EXCEPT ![d] =
           [size |-> Sizes[object], etag |-> IF object \in Tagged THEN object ELSE NoTag,
            downloaded |-> Least(Least(ChunkSize[d], ProbeSize), Sizes[object])]]
    /\ temporary' = [temporary EXCEPT ![d] =
           Written([@ EXCEPT !.bytes = [i \in 1 .. Sizes[object] |-> Hole]],
                   0, Least(ChunkSize[d], ProbeSize), object)]
    /\ Enter(d, "slots")
    /\ UNCHANGED <<object, destination, given, slots, next_chunk, active, cursor>>

ProbeFails(d) ==
    /\ stage[d] = "probe"
    /\ ReturnEarly(d)

Cancelled(d) ==
    /\ stage[d] = "slots" /\ summary[d].downloaded > 0
    /\ ReturnEarly(d)

MakeSlots(d) ==
    /\ stage[d] = "slots"
    /\ slots' = [slots EXCEPT ![d] = [i \in 1 .. slot_count(d) |-> Idle]]
    /\ active' = [active EXCEPT ![d] = slot_count(d)]
    /\ Enter(d, IF slot_count(d) = 0 THEN "publish" ELSE "submit")
    /\ UNCHANGED <<object, destination, temporary, given, summary, next_chunk, cursor>>

\* Mutant: the request does not carry the ETag of the probe.
SubmitChunkUnpinned(d) ==
    LET offset == probe_length(d) + next_chunk[d] * ChunkSize[d]
    IN  [batch |-> "waiting", buffer |-> TRUE, offset |-> offset,
         length |-> Least(ChunkSize[d], summary[d].size - offset),
         if_match |-> NoTag, bytes |-> Hole]

\* The request for the next chunk, on the version of the probe.
submit_chunk(d) ==
    LET offset == probe_length(d) + next_chunk[d] * ChunkSize[d]
    IN  [batch |-> "waiting", buffer |-> TRUE, offset |-> offset,
         length |-> Least(ChunkSize[d], summary[d].size - offset),
         if_match |-> summary[d].etag, bytes |-> Hole]

SubmitFirst(d) ==
    /\ stage[d] = "submit"
    /\ slots' = [slots EXCEPT ![d][next_chunk[d] + 1] = submit_chunk(d)]
    /\ next_chunk' = [next_chunk EXCEPT ![d] = @ + 1]
    /\ Enter(d, IF next_chunk[d] + 1 = slot_count(d) THEN "poll" ELSE "submit")
    /\ UNCHANGED <<object, destination, temporary, given, summary, active, cursor>>

SubmitFails(d) ==
    /\ stage[d] = "submit"
    /\ ReturnEarly(d)
-----------------------------------------------------------------------------
(***************************************************************************)
(* The polling loop.  A pass looks at as many slots as there are; a slot   *)
(* that has completed moves wait_cursor while the pass goes on, so a pass  *)
(* may look at one slot twice and at another not at all.                   *)
(***************************************************************************)
index(d) == ((cursor[d].wait + cursor[d].step) % Len(slots[d])) + 1

\* The end of one look at a slot; `last` when it ends the pass.
Look(d, completed) ==
    LET last == cursor[d].step + 1 = Len(slots[d])
        any == cursor[d].completed \/ completed
        wait == IF completed THEN index(d) % Len(slots[d]) ELSE cursor[d].wait
    IN  /\ cursor' = [cursor EXCEPT ![d] =
               IF last THEN [FirstLook EXCEPT !.wait =
                                IF any THEN wait ELSE (wait + 1) % Len(slots[d])]
               ELSE [wait |-> wait, step |-> @.step + 1, completed |-> any]]
        /\ Enter(d, IF last /\ active'[d] = 0 THEN "publish" ELSE "poll")

\* No batch in the slot, or KARU_TIMEOUT.
PollNothing(d) ==
    /\ stage[d] = "poll"
    /\ slots[d][index(d)].batch \in {"none", "waiting"}
    /\ UNCHANGED <<object, destination, temporary, given, summary, slots, next_chunk, active>>
    /\ Look(d, FALSE)

\* The range failed, came short, could not be written, or cannot be followed by
\* the next one; or progress cancels.
PollFails(d) ==
    /\ stage[d] = "poll"
    /\ slots[d][index(d)].batch \in {"done", "failed"}
    /\ ReturnEarly(d)

\* Mutant: a slot without more work still counts as active.
PollDoneStillActive(d) ==
    LET s == slots[d][index(d)]
        more == next_chunk[d] < chunks(d)
    IN  /\ stage[d] = "poll"
        /\ s.batch = "done"
        /\ temporary' = [temporary EXCEPT ![d] = Written(@, s.offset, s.length, s.bytes)]
        /\ summary' = [summary EXCEPT ![d].downloaded = @ + s.length]
        /\ slots' = [slots EXCEPT ![d][index(d)] = IF more THEN submit_chunk(d) ELSE Idle]
        /\ next_chunk' = [next_chunk EXCEPT ![d] = IF more THEN @ + 1 ELSE @]
        /\ UNCHANGED active
        /\ Look(d, TRUE)
        /\ UNCHANGED <<object, destination, given>>

PollDone(d) ==
    LET s == slots[d][index(d)]
        more == next_chunk[d] < chunks(d)
    IN  /\ stage[d] = "poll"
        /\ s.batch = "done"
        /\ temporary' = [temporary EXCEPT ![d] = Written(@, s.offset, s.length, s.bytes)]
        /\ summary' = [summary EXCEPT ![d].downloaded = @ + s.length]
        /\ slots' = [slots EXCEPT ![d][index(d)] = IF more THEN submit_chunk(d) ELSE Idle]
        /\ next_chunk' = [next_chunk EXCEPT ![d] = IF more THEN @ + 1 ELSE @]
        /\ active' = [active EXCEPT ![d] = IF more THEN @ ELSE @ - 1]
        /\ Look(d, TRUE)
        /\ UNCHANGED <<object, destination, given>>
-----------------------------------------------------------------------------
(***************************************************************************)
(* publish.  rename and link are atomic; the calls between them are not.   *)
(***************************************************************************)
Rename(d) ==
    /\ destination' = temporary[d]
    /\ temporary' = [temporary EXCEPT ![d] = NoFile]
    /\ Enter(d, "ok")
    /\ LeaveScope(d, summary[d])
    /\ UNCHANGED <<object, given>>

PublishOver(d) ==
    /\ stage[d] = "publish" /\ d \in overwrite
    /\ Rename(d)

\* Mutant: the look at the destination that create_near took is relied on.
PublishUnchecked(d) ==
    /\ stage[d] = "publish" /\ d \notin overwrite /\ hard_links
    /\ Rename(d)

\* link gives the file a second name and fails where the destination exists.
PublishLink(d) ==
    /\ stage[d] = "publish" /\ d \notin overwrite /\ hard_links
    /\ ~destination.there
    /\ destination' = temporary[d]
    /\ Enter(d, "unlink")
    /\ UNCHANGED <<object, temporary, local>>

\* Mutant: an unlink that fails is an error of publish.
PublishUnlinkReported(d) ==
    /\ stage[d] = "unlink"
    /\ \/ /\ temporary' = [temporary EXCEPT ![d] = NoFile]
          /\ Enter(d, "ok")
          /\ LeaveScope(d, summary[d])
          /\ UNCHANGED <<object, destination, given>>
       \/ ReturnEarly(d)

\* The result of unlink is ignored, and OutputFile forgets the name.
PublishUnlink(d) ==
    /\ stage[d] = "unlink"
    /\ temporary' \in {temporary, [temporary EXCEPT ![d] = NoFile]}
    /\ Enter(d, "ok")
    /\ LeaveScope(d, summary[d])
    /\ UNCHANGED <<object, destination, given>>

\* Without hard links an existing destination is looked for, and then replaced.
PublishCheck(d) ==
    /\ stage[d] = "publish" /\ d \notin overwrite /\ ~hard_links
    /\ ~destination.there
    /\ Enter(d, "rename")
    /\ UNCHANGED <<object, destination, temporary, local>>

PublishRename(d) ==
    /\ stage[d] = "rename"
    /\ Rename(d)

\* The destination exists, or a call fails.
PublishFails(d) ==
    /\ stage[d] \in {"publish", "rename"}
    /\ ReturnEarly(d)
-----------------------------------------------------------------------------
(***************************************************************************)
(* The engine completes the batch of a slot: a read is of one version, the *)
(* pinned one where there is an ETag, and a version that ends before the   *)
(* range does fails.                                                       *)
(***************************************************************************)
Answered(d, i) ==
    /\ i \in DOMAIN slots[d] /\ slots[d][i].batch = "waiting"
    /\ slots[d][i].if_match \in {NoTag, object}
    /\ slots[d][i].offset + slots[d][i].length <= Sizes[object]
    /\ slots' = [slots EXCEPT ![d][i].batch = "done", ![d][i].bytes = object]
    /\ UNCHANGED <<object, destination, temporary, given, stage, summary, next_chunk, active, cursor>>

AnsweredFailed(d, i) ==
    /\ i \in DOMAIN slots[d] /\ slots[d][i].batch = "waiting"
    /\ slots' = [slots EXCEPT ![d][i].batch = "failed"]
    /\ UNCHANGED <<object, destination, temporary, given, stage, summary, next_chunk, active, cursor>>

\* The object is replaced at the source.
ReplaceObject ==
    /\ object < Len(Sizes)
    /\ object' = object + 1
    /\ UNCHANGED <<destination, temporary, stage, local>>

\* Another program creates the destination.
Appear ==
    /\ ~destination.there
    /\ destination' = OtherFile
    /\ UNCHANGED <<object, temporary, stage, local>>

\* The process of a download is killed: its memory is gone, but no destructor
\* has run and the files stay.
Kill(d) ==
    /\ stage[d] \notin {"ok", "failed", "killed"}
    /\ Enter(d, "killed")
    /\ LeaveScope(d, NoSummary)
    /\ UNCHANGED <<object, destination, temporary, given>>

Step(d) ==
    \/ Create(d) \/ Probe(d) \/ ProbeFails(d) \/ Cancelled(d) \/ MakeSlots(d)
    \/ SubmitFirst(d) \/ SubmitFails(d)
    \/ PollNothing(d) \/ PollFails(d) \/ PollDone(d)
    \/ PublishOver(d) \/ PublishLink(d) \/ PublishUnlink(d)
    \/ PublishCheck(d) \/ PublishRename(d) \/ PublishFails(d)
    \/ (\E i \in DOMAIN slots[d] : FreeBatch(d, i) \/ FreeBuffer(d, i))
    \/ Unwind(d)

Answer(d, i) == Answered(d, i) \/ AnsweredFailed(d, i)

CallOver(d) == stage[d] \in {"ok", "failed", "killed"}

\* Every call has returned: nothing more happens here.
Over ==
    /\ \A d \in Downloads : CallOver(d)
    /\ UNCHANGED downloadVars

DownloadNext ==
    \/ \E d \in Downloads :
          \/ Step(d)
          \/ Kill(d)
          \/ \E i \in 1 .. Parallelism[d] : Answer(d, i)
    \/ ReplaceObject \/ Appear \/ Over

DownloadSpec == DownloadInit /\ [][DownloadNext]_downloadVars

\* The calling thread runs, and the engine completes what it is given.
DownloadFairness ==
    \A d \in Downloads :
        /\ WF_downloadVars(Step(d))
        /\ \A i \in 1 .. Parallelism[d] : WF_downloadVars(Answer(d, i))

DownloadFairSpec == DownloadSpec /\ DownloadFairness
-----------------------------------------------------------------------------
(***************************************************************************)
(* What karu publishes is whole: every byte of the file has been written,  *)
(* and where the probe got a strong ETag all of them are of its version    *)
(* and of its size, whatever happened to the object while the chunks       *)
(* were read, and whoever was killed meanwhile (karu.h: "The destination   *)
(* is published atomically only after every range succeeds").              *)
(***************************************************************************)
DestinationIsWhole ==
    destination.by # NoCall =>
        /\ \A i \in DOMAIN destination.bytes : destination.bytes[i] # Hole
        /\ destination.bytes # <<>> /\ destination.bytes[1] \in Tagged =>
              destination.bytes =
                  [i \in 1 .. Sizes[destination.bytes[1]] |-> destination.bytes[1]]

(***************************************************************************)
(* A call that fails has published nothing, at whichever step it fails:    *)
(* the caller of a failed download may try again without overwrite, and    *)
(* finds no file of the failed one in its way (platform.cpp: "Failure to   *)
(* remove the private name must not turn a successfully published          *)
(* destination into failure").                                             *)
(***************************************************************************)
FailedPublishedNothing ==
    \A d \in Downloads : stage[d] \in {"unwind", "failed"} => destination.by # d

(***************************************************************************)
(* The engine writes to no buffer that is freed: however a call ends, a    *)
(* batch that may still be read into has its buffer (karu.h: buffers "must *)
(* remain valid until the batch is freed").                                *)
(***************************************************************************)
BuffersOutliveBatches ==
    \A d \in Downloads : \A i \in DOMAIN slots[d] :
        slots[d][i].batch = "waiting" => slots[d][i].buffer

(***************************************************************************)
(* With hard links, no step replaces an existing destination, somebody     *)
(* else's or another download's, but that of a call with overwrite         *)
(* (karu.h:197-199), however the calls and the other program interleave.   *)
(***************************************************************************)
NeverReplaced ==
    [][hard_links /\ destination.there /\ destination' # destination =>
          \E d \in overwrite : stage[d] = "publish" /\ stage'[d] = "ok"]_downloadVars

(***************************************************************************)
(* Every call returns unless its process is killed: wait_cursor may pass   *)
(* over a slot for a whole pass, but never for ever.  (A call that is over *)
(* stays over: there is always a later moment at which it is.)             *)
(***************************************************************************)
DownloadReturns == \A d \in Downloads : []<>CallOver(d)
=============================================================================
