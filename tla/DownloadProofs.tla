--------------------------- MODULE DownloadProofs ---------------------------
(***************************************************************************)
(* Proofs about whole-object downloads, for any number of calls, versions, *)
(* sizes, chunk sizes and slots: what is published is whole and of one     *)
(* version, a call that failed has published nothing, no batch outlives    *)
(* the buffer it reads into, and an existing destination is replaced by    *)
(* calls with overwrite only.                                              *)
(***************************************************************************)
EXTENDS Download, FiniteSetTheorems, SequenceTheorems, TLAPS

Bytes == Versions \cup {Hole}
Files == [there : BOOLEAN, by : Downloads \cup {NoCall}, bytes : Seq(Bytes)]
\* A slot with a batch has its buffer.
Slots == {s \in [batch : {"none", "waiting", "done", "failed"}, buffer : BOOLEAN,
                 offset : Int, length : Int, if_match : Versions \cup {NoTag},
                 bytes : Bytes] :
             s.batch # "none" => s.buffer = TRUE}
Labels == {"create", "probe", "slots", "submit", "poll", "publish", "rename", "unlink",
           "unwind", "ok", "failed", "killed"}
Summaries == [size : Nat, etag : Versions \cup {NoTag}, downloaded : Int]

\* The values of the variables.
DownloadTypeOK ==
    /\ object \in Versions
    /\ destination \in Files /\ temporary \in [Downloads -> Files]
    /\ overwrite \subseteq Downloads /\ hard_links \in BOOLEAN
    /\ stage \in [Downloads -> Labels]
    /\ summary \in [Downloads -> Summaries]
    /\ slots \in [Downloads -> Seq(Slots)]
    /\ next_chunk \in [Downloads -> Nat]
    /\ active \in [Downloads -> Int]
    /\ cursor \in [Downloads -> [wait : Nat, step : Nat, completed : BOOLEAN]]

\* Whose the files are, the label that only a filesystem without hard links
\* leads to, and what a call begins with.
Names(d) ==
    /\ temporary[d].by \in {d, NoCall}
    /\ destination.by = d => stage[d] \in {"unlink", "ok", "killed"}
    /\ stage[d] = "rename" => ~hard_links
    /\ stage[d] \in {"create", "probe", "slots"} => next_chunk[d] = 0 /\ slots[d] = <<>>

\* Where the summary of the probe is held against the file.
Begun(d) == stage[d] \in {"slots", "submit", "poll", "publish", "rename"}

Busy(s) == s.batch # "none"
BusySlots(d) == {j \in DOMAIN slots[d] : Busy(slots[d][j])}

\* The file has the size and the first byte of the probed version v, and no
\* byte of another one if v is tagged.
OfVersion(d, v) ==
    /\ summary[d].size = Sizes[v]
    /\ summary[d].etag = IF v \in Tagged THEN v ELSE NoTag
    /\ Len(temporary[d].bytes) = Sizes[v]
    /\ Sizes[v] > 0 => temporary[d].bytes[1] = v
    /\ v \in Tagged => \A i \in 1 .. Sizes[v] : temporary[d].bytes[i] \in {Hole, v}

\* A chunk lies behind the probe and is read as the probe was.
ChunkAgrees(d, s) ==
    /\ s.offset > 0
    /\ s.if_match = summary[d].etag
    /\ s.batch = "done" => /\ s.bytes \in Versions
                           /\ s.if_match # NoTag => s.bytes = s.if_match

\* A byte that the chunks submitted so far reach has been written, or the
\* chunk of a busy slot has it.
Accounted(d) ==
    \A i \in 1 .. summary[d].size :
        i <= probe_length(d) + next_chunk[d] * ChunkSize[d] =>
            \/ temporary[d].bytes[i] # Hole
            \/ \E j \in BusySlots(d) :
                  i \in slots[d][j].offset + 1 .. slots[d][j].offset + slots[d][j].length

\* The slots at each label; a slot is idle only when every chunk is submitted.
Counted(d) ==
    /\ stage[d] = "submit" => /\ Len(slots[d]) = slot_count(d) /\ active[d] = slot_count(d)
                              /\ next_chunk[d] < slot_count(d)
                              /\ BusySlots(d) = 1 .. next_chunk[d]
    /\ stage[d] = "poll" => /\ Len(slots[d]) = slot_count(d) /\ slot_count(d) > 0
                            /\ active[d] = Cardinality(BusySlots(d))
                            /\ BusySlots(d) # DOMAIN slots[d] => next_chunk[d] >= chunks(d)
    /\ stage[d] \in {"publish", "rename"} =>
          \A i \in 1 .. summary[d].size : temporary[d].bytes[i] # Hole

\* What the work of a call keeps to.
Progress(d) ==
    Begun(d) =>
        /\ \E v \in Versions : OfVersion(d, v)
        /\ \A j \in BusySlots(d) : ChunkAgrees(d, slots[d][j])
        /\ Accounted(d)
        /\ Counted(d)

DownloadInv ==
    /\ DownloadTypeOK
    /\ \A d \in Downloads : Names(d) /\ Progress(d)
    /\ DestinationIsWhole
-----------------------------------------------------------------------------
(***************************************************************************)
(* Numbers and files.                                                      *)
(***************************************************************************)
LEMMA RoundedUp ==
  ASSUME NEW r \in Nat \ {0}, NEW c \in Nat \ {0}
  PROVE  /\ (r - 1) \div c \in Nat
         /\ (1 + (r - 1) \div c) * c >= r
<1> DEFINE q == (r - 1) \div c
           m == (r - 1) % c
<1>1. q \in Nat /\ m \in 0 .. c - 1 /\ r - 1 = c * q + m
  OBVIOUS
<1>2. (1 + q) * c = c + c * q
  BY <1>1
<1> QED
  BY <1>1, <1>2

LEMMA NextProduct ==
  ASSUME NEW k \in Nat, NEW c \in Nat
  PROVE  k * c \in Nat /\ (k + 1) * c = k * c + c
OBVIOUS

LEMMA GreaterProduct ==
  ASSUME NEW a \in Nat, NEW b \in Nat, a >= b, NEW c \in Nat
  PROVE  a * c \in Nat /\ b * c \in Nat /\ a * c >= b * c
<1> DEFINE m == a - b
<1>1. m \in Nat /\ a = b + m
  OBVIOUS
<1> HIDE DEF m
<1>2. (b + m) * c = b * c + m * c /\ m * c \in Nat /\ b * c \in Nat
  BY <1>1
<1> QED
  BY <1>1, <1>2

LEMMA VersionFacts ==
  /\ Versions = 1 .. Len(Sizes) /\ Len(Sizes) \in Nat \ {0}
  /\ \A v \in Versions : Sizes[v] \in Nat /\ v \in Nat \ {0}
  /\ Hole \notin Versions /\ NoTag \notin Versions /\ 1 \in Versions
<1>1. Sizes \in Seq(Nat) /\ Sizes # <<>>
  BY DownloadAssumption
<1>2. DOMAIN Sizes = 1 .. Len(Sizes) /\ Len(Sizes) \in Nat \ {0}
  BY <1>1, EmptySeq, LenProperties
<1>3. \A v \in 1 .. Len(Sizes) : Sizes[v] \in Nat
  BY <1>1, ElementOfSeq
<1> QED
  BY <1>2, <1>3 DEF Versions, Hole, NoTag

\* What is read in how many chunks and slots.
LEMMA ChunkFacts ==
  ASSUME DownloadTypeOK, NEW d \in Downloads
  PROVE  /\ probe_length(d) \in Nat /\ probe_length(d) <= summary[d].size
         /\ summary[d].size \in Nat
         /\ summary[d].size > 0 => probe_length(d) > 0
         /\ chunks(d) \in Nat /\ slot_count(d) \in Nat
         /\ slot_count(d) <= chunks(d)
         /\ slot_count(d) = 0 => chunks(d) = 0
         /\ summary[d].size = 0 => chunks(d) = 0
         /\ probe_length(d) + chunks(d) * ChunkSize[d] >= summary[d].size
         /\ ChunkSize[d] \in Nat \ {0}
<1>1. /\ ChunkSize[d] \in Nat \ {0} /\ Parallelism[d] \in Nat \ {0} /\ ProbeSize \in Nat \ {0}
      /\ summary[d].size \in Nat
  BY DownloadAssumption DEF DownloadTypeOK, Summaries
<1>2. /\ probe_length(d) \in Nat /\ probe_length(d) <= summary[d].size
      /\ summary[d].size > 0 => probe_length(d) > 0
  BY <1>1 DEF probe_length, Least
<1>3. remaining(d) \in Nat /\ remaining(d) <= summary[d].size
      /\ probe_length(d) + remaining(d) = summary[d].size
  BY <1>1, <1>2 DEF remaining
<1>4. chunks(d) \in Nat /\ chunks(d) * ChunkSize[d] >= remaining(d)
      /\ (remaining(d) = 0 => chunks(d) = 0)
  <2>1. CASE remaining(d) = 0
    BY <1>1, <2>1 DEF chunks
  <2>2. CASE remaining(d) # 0
    BY <1>1, <1>3, <2>2, RoundedUp DEF chunks
  <2> QED
    BY <2>1, <2>2
<1>5. slot_count(d) \in Nat /\ slot_count(d) <= chunks(d) /\ (slot_count(d) = 0 => chunks(d) = 0)
  BY <1>1, <1>4 DEF slot_count, Least
<1>6. chunks(d) * ChunkSize[d] \in Nat
  BY <1>1, <1>4
<1> QED
  BY <1>1, <1>2, <1>3, <1>4, <1>5, <1>6

\* The file after a write.
LEMMA WrittenFacts ==
  ASSUME NEW f \in Files, NEW a \in Int, NEW n \in Int, NEW v \in Bytes
  PROVE  /\ Written(f, a, n, v) \in Files
         /\ Written(f, a, n, v).there = f.there /\ Written(f, a, n, v).by = f.by
         /\ Len(Written(f, a, n, v).bytes) = Len(f.bytes)
         /\ \A i \in 1 .. Len(f.bytes) :
               Written(f, a, n, v).bytes[i] = IF i \in a + 1 .. a + n THEN v ELSE f.bytes[i]
<1> DEFINE g == [i \in DOMAIN f.bytes |-> IF i \in a + 1 .. a + n THEN v ELSE f.bytes[i]]
<1>1. f.bytes \in Seq(Bytes) /\ f.there \in BOOLEAN /\ f.by \in Downloads \cup {NoCall}
  BY DEF Files
<1>2. Len(f.bytes) \in Nat /\ DOMAIN f.bytes = 1 .. Len(f.bytes)
      /\ \A i \in 1 .. Len(f.bytes) : f.bytes[i] \in Bytes
  BY <1>1, LenProperties, ElementOfSeq
<1>3. g \in [1 .. Len(f.bytes) -> Bytes]
  BY <1>2
<1>4. g \in Seq(Bytes) /\ Len(g) = Len(f.bytes)
  BY <1>2, <1>3, SeqDef
<1>5. Written(f, a, n, v) = [f EXCEPT !.bytes = g]
  BY DEF Written
<1>6. [f EXCEPT !.bytes = g] \in Files
  BY <1>1, <1>4 DEF Files
<1>7. /\ [f EXCEPT !.bytes = g].bytes = g
      /\ [f EXCEPT !.bytes = g].there = f.there /\ [f EXCEPT !.bytes = g].by = f.by
  BY DEF Files
<1> QED
  BY <1>2, <1>4, <1>5, <1>6, <1>7

LEMMA ConstantFiles ==
  /\ NoFile \in Files /\ NoFile.by = NoCall /\ ~NoFile.there
  /\ OtherFile \in Files /\ OtherFile.by = NoCall
  /\ \A d \in Downloads : Empty(d) \in Files /\ Empty(d).by = d
BY EmptySeq DEF NoFile, OtherFile, Empty, Files

LEMMA ConstantRecords ==
  /\ Idle \in Slots /\ ~Busy(Idle) /\ Gone \in Slots
  /\ NoSummary \in Summaries
  /\ FirstLook \in [wait : Nat, step : Nat, completed : BOOLEAN]
BY DEF Idle, Gone, Slots, Busy, NoSummary, Summaries, FirstLook, NoTag, Hole, Bytes
-----------------------------------------------------------------------------
(***************************************************************************)
(* A step of one call leaves the others where they were.                   *)
(***************************************************************************)
Same(d) ==
    /\ stage'[d] = stage[d] /\ temporary'[d] = temporary[d] /\ summary'[d] = summary[d]
    /\ slots'[d] = slots[d] /\ next_chunk'[d] = next_chunk[d] /\ active'[d] = active[d]

LEMMA SameProgress ==
  ASSUME NEW d \in Downloads, Progress(d), Same(d)
  PROVE  Progress(d)'
<1> USE DEF Same
<1>1. /\ probe_length(d)' = probe_length(d) /\ BusySlots(d)' = BusySlots(d)
      /\ Begun(d)' <=> Begun(d)
  BY DEF probe_length, BusySlots, Begun
<1>2. chunks(d)' = chunks(d)
  BY <1>1 DEF chunks, remaining
<1>3. slot_count(d)' = slot_count(d)
  BY <1>2 DEF slot_count
<1>4. \A v \in Versions : OfVersion(d, v)' <=> OfVersion(d, v)
  BY DEF OfVersion
<1>5. (\A j \in BusySlots(d) : ChunkAgrees(d, slots[d][j]))'
        <=> \A j \in BusySlots(d) : ChunkAgrees(d, slots[d][j])
  BY <1>1 DEF ChunkAgrees
<1>6. Accounted(d)' <=> Accounted(d)
  BY <1>1 DEF Accounted
<1>7. Counted(d)' <=> Counted(d)
  BY <1>1, <1>2, <1>3 DEF Counted
<1> QED
  BY <1>1, <1>4, <1>5, <1>6, <1>7 DEF Progress

LEMMA OtherCalls ==
  ASSUME DownloadInv, NEW d \in Downloads, DownloadTypeOK',
         \A e \in Downloads \ {d} : Same(e),
         hard_links' = hard_links,
         destination' = destination \/ destination'.by \in {d, NoCall},
         Names(d)', Progress(d)', DestinationIsWhole'
  PROVE  DownloadInv'
<1>1. ASSUME NEW e \in Downloads, e # d
      PROVE  Names(e)' /\ Progress(e)'
  <2>1. Names(e) /\ Progress(e) /\ Same(e)
    BY <1>1 DEF DownloadInv
  <2>2. Progress(e)'
    BY <2>1, SameProgress
  <2>3. NoCall # e
    BY DownloadAssumption
  <2>4. destination'.by = e => destination.by = e
    BY <1>1, <2>3
  <2>5. Names(e)'
    BY <2>1, <2>4 DEF Names, Same
  <2> QED
    BY <2>2, <2>5
<1> QED
  BY <1>1 DEF DownloadInv

\* A step that only moves one call to a label where nothing is claimed.
LEMMA Leaving ==
  ASSUME DownloadInv, NEW d \in Downloads, NEW l \in {"probe", "unlink", "unwind", "ok", "failed", "killed"},
         stage' = [stage EXCEPT ![d] = l], DownloadTypeOK',
         \A e \in Downloads \ {d} : /\ temporary'[e] = temporary[e] /\ summary'[e] = summary[e]
                                    /\ slots'[e] = slots[e] /\ next_chunk'[e] = next_chunk[e]
                                    /\ active'[e] = active[e],
         hard_links' = hard_links,
         destination' = destination \/ destination'.by \in {d, NoCall},
         Names(d)', DestinationIsWhole'
  PROVE  DownloadInv'
<1>1. stage \in [Downloads -> Labels]
  BY DEF DownloadInv, DownloadTypeOK
<1>2. \A e \in Downloads \ {d} : Same(e)
  BY <1>1 DEF Same
<1>3. stage'[d] = l
  BY <1>1
<1>4. Progress(d)'
  BY <1>3 DEF Progress, Begun
<1> QED
  BY <1>2, <1>4, OtherCalls

\* The local variables of a call that returns.
LEMMA ForgetFacts ==
  ASSUME DownloadTypeOK, NEW d \in Downloads, NEW r \in Summaries, Forget(d, r)
  PROVE  /\ summary' \in [Downloads -> Summaries]
         /\ next_chunk' \in [Downloads -> Nat] /\ active' \in [Downloads -> Int]
         /\ cursor' \in [Downloads -> [wait : Nat, step : Nat, completed : BOOLEAN]]
         /\ \A e \in Downloads \ {d} : /\ summary'[e] = summary[e]
                                       /\ next_chunk'[e] = next_chunk[e]
                                       /\ active'[e] = active[e]
BY ConstantRecords DEF Forget, DownloadTypeOK

\* The variables of a call that has left.
LEMMA LeaveScopeFacts ==
  ASSUME DownloadTypeOK, NEW d \in Downloads, NEW r \in Summaries, LeaveScope(d, r)
  PROVE  /\ summary' \in [Downloads -> Summaries] /\ slots' \in [Downloads -> Seq(Slots)]
         /\ next_chunk' \in [Downloads -> Nat] /\ active' \in [Downloads -> Int]
         /\ cursor' \in [Downloads -> [wait : Nat, step : Nat, completed : BOOLEAN]]
         /\ \A e \in Downloads \ {d} : /\ summary'[e] = summary[e] /\ slots'[e] = slots[e]
                                       /\ next_chunk'[e] = next_chunk[e]
                                       /\ active'[e] = active[e]
<1>1. <<>> \in Seq(Slots)
  BY EmptySeq
<1>2. Forget(d, r) /\ slots' = [slots EXCEPT ![d] = <<>>]
  BY DEF LeaveScope
<1>3. slots' \in [Downloads -> Seq(Slots)] /\ \A e \in Downloads \ {d} : slots'[e] = slots[e]
  BY <1>1, <1>2 DEF DownloadTypeOK
<1> QED
  BY <1>2, <1>3, ForgetFacts

LEMMA ReturnEarlyKeeps ==
  ASSUME DownloadInv, NEW d \in Downloads, ReturnEarly(d), stage[d] \notin {"unlink", "ok", "killed"}
  PROVE  DownloadInv'
<1>0. DownloadTypeOK
  BY DEF DownloadInv
<1>1. /\ stage' = [stage EXCEPT ![d] = "unwind"] /\ Forget(d, NoSummary)
      /\ UNCHANGED <<object, destination, temporary, overwrite, hard_links, slots>>
  BY DEF ReturnEarly, Enter, given
<1>2. DownloadTypeOK'
  BY <1>0, <1>1, ForgetFacts, ConstantRecords DEF DownloadTypeOK, Labels
<1>3. stage'[d] = "unwind"
  BY <1>0, <1>1 DEF DownloadTypeOK
<1>4. Names(d)'
  BY <1>1, <1>3 DEF DownloadInv, Names
<1>5. DestinationIsWhole'
  BY <1>1 DEF DownloadInv, DestinationIsWhole
<1> QED
  BY <1>0, <1>1, <1>2, <1>4, <1>5, ForgetFacts, ConstantRecords, Leaving

\* A slot is destroyed, its batch or its buffer.
LEMMA SlotDies ==
  ASSUME DownloadInv, NEW d \in Downloads, NEW i \in DOMAIN slots[d],
         FreeBatch(d, i) \/ FreeBuffer(d, i)
  PROVE  DownloadInv'
<1>0. DownloadTypeOK /\ Names(d) /\ slots[d] \in Seq(Slots)
  BY DEF DownloadInv, DownloadTypeOK
<1>1. PICK u \in Slots : slots' = [slots EXCEPT ![d] = [slots[d] EXCEPT ![i] = u]]
  BY ConstantRecords DEF FreeBatch, FreeBuffer
<1>2. /\ stage[d] = "unwind"
      /\ UNCHANGED <<object, destination, temporary, overwrite, hard_links, stage, summary,
                     next_chunk, active, cursor>>
  BY DEF FreeBatch, FreeBuffer, Dying, given
<1>3. [slots[d] EXCEPT ![i] = u] \in Seq(Slots)
  <2>1. i \in 1 .. Len(slots[d])
    BY <1>0, LenProperties
  <2> QED
    BY <1>0, <2>1, ExceptSeq
<1>4. DownloadTypeOK'
  BY <1>0, <1>1, <1>2, <1>3 DEF DownloadTypeOK
<1>5. \A e \in Downloads \ {d} : Same(e)
  BY <1>0, <1>1, <1>2 DEF DownloadTypeOK, Same
<1>6. Names(d)'
  BY <1>0, <1>2 DEF Names
<1>7. Progress(d)'
  BY <1>2 DEF Progress, Begun
<1>8. DestinationIsWhole'
  BY <1>2 DEF DownloadInv, DestinationIsWhole
<1> QED
  BY <1>2, <1>4, <1>5, <1>6, <1>7, <1>8, OtherCalls

LEMMA CreateKeeps ==
  ASSUME DownloadInv, NEW d \in Downloads, Create(d)
  PROVE  DownloadInv'
<1>1. CASE ReturnEarly(d)
  BY <1>1, ReturnEarlyKeeps DEF Create
<1>2. CASE ~ReturnEarly(d)
  <2>1. /\ stage[d] = "create" /\ stage' = [stage EXCEPT ![d] = "probe"]
        /\ temporary' = [temporary EXCEPT ![d] = Empty(d)]
        /\ UNCHANGED <<object, destination, local>>
    BY <1>2 DEF Create, Enter
  <2>2. DownloadTypeOK'
    BY <2>1, ConstantFiles DEF DownloadInv, DownloadTypeOK, Labels, local, given
  <2>3. stage'[d] = "probe" /\ temporary'[d] = Empty(d)
        /\ \A e \in Downloads \ {d} : temporary'[e] = temporary[e]
    BY <2>1 DEF DownloadInv, DownloadTypeOK
  <2>4. Names(d)'
    BY <2>1, <2>3, ConstantFiles DEF DownloadInv, Names, local
  <2>5. DestinationIsWhole'
    BY <2>1 DEF DownloadInv, DestinationIsWhole
  <2> QED
    BY <2>1, <2>2, <2>3, <2>4, <2>5, Leaving DEF local, given
<1> QED
  BY <1>1, <1>2

LEMMA UnwindKeeps ==
  ASSUME DownloadInv, NEW d \in Downloads, Unwind(d)
  PROVE  DownloadInv'
<1>0. DownloadTypeOK
  BY DEF DownloadInv
<1>1. /\ stage[d] = "unwind" /\ stage' = [stage EXCEPT ![d] = "failed"] /\ LeaveScope(d, NoSummary)
      /\ temporary' \in {temporary, [temporary EXCEPT ![d] = NoFile]}
      /\ UNCHANGED <<object, destination, overwrite, hard_links>>
  BY DEF Unwind, Enter, given
<1>2. DownloadTypeOK'
  <2>1. temporary' \in [Downloads -> Files]
    BY <1>0, <1>1, ConstantFiles DEF DownloadTypeOK
  <2> QED
    BY <1>0, <1>1, <2>1, LeaveScopeFacts, ConstantRecords DEF DownloadTypeOK, Labels
<1>3. stage'[d] = "failed" /\ temporary'[d] \in {temporary[d], NoFile}
      /\ \A e \in Downloads \ {d} : temporary'[e] = temporary[e]
  BY <1>0, <1>1 DEF DownloadTypeOK
<1>4. Names(d)'
  BY <1>1, <1>3, ConstantFiles DEF DownloadInv, Names
<1>5. DestinationIsWhole'
  BY <1>1 DEF DownloadInv, DestinationIsWhole
<1> QED
  BY <1>0, <1>1, <1>2, <1>3, <1>4, <1>5, LeaveScopeFacts, ConstantRecords, Leaving

LEMMA KillKeeps ==
  ASSUME DownloadInv, NEW d \in Downloads, Kill(d)
  PROVE  DownloadInv'
<1>0. DownloadTypeOK
  BY DEF DownloadInv
<1>1. /\ stage' = [stage EXCEPT ![d] = "killed"] /\ LeaveScope(d, NoSummary)
      /\ UNCHANGED <<object, destination, temporary, overwrite, hard_links>>
  BY DEF Kill, Enter, given
<1>2. DownloadTypeOK'
  BY <1>0, <1>1, LeaveScopeFacts, ConstantRecords DEF DownloadTypeOK, Labels
<1>3. stage'[d] = "killed"
  BY <1>0, <1>1 DEF DownloadTypeOK
<1>4. Names(d)'
  BY <1>1, <1>3 DEF DownloadInv, Names
<1>5. DestinationIsWhole'
  BY <1>1 DEF DownloadInv, DestinationIsWhole
<1> QED
  BY <1>0, <1>1, <1>2, <1>4, <1>5, LeaveScopeFacts, ConstantRecords, Leaving

LEMMA PublishUnlinkKeeps ==
  ASSUME DownloadInv, NEW d \in Downloads, PublishUnlink(d)
  PROVE  DownloadInv'
<1>0. DownloadTypeOK /\ summary[d] \in Summaries
  BY DEF DownloadInv, DownloadTypeOK
<1>1. /\ stage' = [stage EXCEPT ![d] = "ok"] /\ LeaveScope(d, summary[d])
      /\ temporary' \in {temporary, [temporary EXCEPT ![d] = NoFile]}
      /\ UNCHANGED <<object, destination, overwrite, hard_links>>
  BY DEF PublishUnlink, Enter, given
<1>2. DownloadTypeOK'
  BY <1>0, <1>1, LeaveScopeFacts, ConstantFiles DEF DownloadTypeOK, Labels
<1>3. stage'[d] = "ok" /\ temporary'[d] \in {temporary[d], NoFile}
      /\ \A e \in Downloads \ {d} : temporary'[e] = temporary[e]
  BY <1>0, <1>1 DEF DownloadTypeOK
<1>4. Names(d)'
  BY <1>1, <1>3, ConstantFiles DEF DownloadInv, Names
<1>5. DestinationIsWhole'
  BY <1>1 DEF DownloadInv, DestinationIsWhole
<1> QED
  BY <1>0, <1>1, <1>2, <1>3, <1>4, <1>5, LeaveScopeFacts, Leaving
-----------------------------------------------------------------------------
(***************************************************************************)
(* What is published is whole.                                             *)
(***************************************************************************)
LEMMA FileIsWhole ==
  ASSUME DownloadInv, NEW d \in Downloads, stage[d] \in {"publish", "rename"},
         destination' = temporary[d]
  PROVE  DestinationIsWhole'
<1> DEFINE b == temporary[d].bytes
<1>0. /\ b \in Seq(Bytes) /\ Len(b) \in Nat /\ DOMAIN b = 1 .. Len(b)
      /\ \A i \in 1 .. Len(b) : b[i] \in Bytes
  <2>1. b \in Seq(Bytes)
    BY DEF DownloadInv, DownloadTypeOK, Files
  <2> QED
    BY <2>1, LenProperties, ElementOfSeq
<1>1. Progress(d) /\ Begun(d)
  BY DEF DownloadInv, Begun
<1>2. PICK v \in Versions : OfVersion(d, v)
  BY <1>1 DEF Progress
<1>3. \A i \in 1 .. Len(b) : b[i] # Hole
  BY <1>1, <1>2 DEF Progress, Counted, OfVersion
<1>4. ASSUME b # <<>>, b[1] \in Tagged
      PROVE  b = [i \in 1 .. Sizes[b[1]] |-> b[1]]
  <2>1. Len(b) \in Nat \ {0}
    BY <1>0, <1>4, EmptySeq
  <2>2. Len(b) = Sizes[v] /\ b[1] = v
    BY <1>2, <2>1, VersionFacts DEF OfVersion
  <2>3. \A i \in 1 .. Len(b) : b[i] = v
    BY <1>2, <1>3, <1>4, <2>2 DEF OfVersion
  <2>4. b \in [1 .. Len(b) -> Bytes]
    BY <1>0, LenProperties
  <2> QED
    BY <2>2, <2>3, <2>4
<1> QED
  BY <1>0, <1>3, <1>4 DEF DestinationIsWhole

LEMMA RenameKeeps ==
  ASSUME DownloadInv, NEW d \in Downloads, stage[d] \in {"publish", "rename"}, Rename(d)
  PROVE  DownloadInv'
<1>0. DownloadTypeOK /\ summary[d] \in Summaries /\ temporary[d] \in Files
  BY DEF DownloadInv, DownloadTypeOK
<1>1. /\ stage' = [stage EXCEPT ![d] = "ok"] /\ LeaveScope(d, summary[d])
      /\ destination' = temporary[d]
      /\ temporary' = [temporary EXCEPT ![d] = NoFile]
      /\ UNCHANGED <<object, overwrite, hard_links>>
  BY DEF Rename, Enter, given
<1>2. DownloadTypeOK'
  BY <1>0, <1>1, LeaveScopeFacts, ConstantFiles DEF DownloadTypeOK, Labels
<1>3. stage'[d] = "ok" /\ temporary'[d] = NoFile
      /\ \A e \in Downloads \ {d} : temporary'[e] = temporary[e]
  BY <1>0, <1>1 DEF DownloadTypeOK
<1>4. Names(d)' /\ destination'.by \in {d, NoCall}
  BY <1>1, <1>3, ConstantFiles DEF DownloadInv, Names
<1>5. DestinationIsWhole'
  BY <1>1, FileIsWhole
<1> QED
  BY <1>0, <1>1, <1>2, <1>3, <1>4, <1>5, LeaveScopeFacts, Leaving

LEMMA PublishLinkKeeps ==
  ASSUME DownloadInv, NEW d \in Downloads, PublishLink(d)
  PROVE  DownloadInv'
<1>0. DownloadTypeOK /\ temporary[d] \in Files
  BY DEF DownloadInv, DownloadTypeOK
<1>1. /\ stage[d] = "publish" /\ stage' = [stage EXCEPT ![d] = "unlink"]
      /\ destination' = temporary[d]
      /\ UNCHANGED <<object, temporary, local>>
  BY DEF PublishLink, Enter
<1>2. DownloadTypeOK'
  BY <1>0, <1>1 DEF DownloadTypeOK, Labels, local, given
<1>3. stage'[d] = "unlink"
  BY <1>0, <1>1 DEF DownloadTypeOK
<1>4. Names(d)' /\ destination'.by \in {d, NoCall}
  BY <1>1, <1>3 DEF DownloadInv, Names
<1>5. DestinationIsWhole'
  BY <1>1, FileIsWhole
<1> QED
  BY <1>1, <1>2, <1>4, <1>5, Leaving DEF local, given

LEMMA PublishCheckKeeps ==
  ASSUME DownloadInv, NEW d \in Downloads, PublishCheck(d)
  PROVE  DownloadInv'
<1>0. DownloadTypeOK
  BY DEF DownloadInv
<1>1. /\ stage[d] = "publish" /\ stage' = [stage EXCEPT ![d] = "rename"] /\ ~hard_links
      /\ UNCHANGED <<object, destination, temporary, overwrite, hard_links, summary, slots,
                     next_chunk, active, cursor>>
  BY DEF PublishCheck, Enter, local, given
<1>2. DownloadTypeOK'
  BY <1>0, <1>1 DEF DownloadTypeOK, Labels
<1>3. stage'[d] = "rename" /\ \A e \in Downloads \ {d} : stage'[e] = stage[e]
  BY <1>0, <1>1 DEF DownloadTypeOK
<1>4. \A e \in Downloads \ {d} : Same(e)
  BY <1>1, <1>3 DEF Same
<1>5. Names(d)'
  BY <1>1, <1>3 DEF DownloadInv, Names
<1>6. Progress(d)'
  <2>1. Progress(d) /\ Begun(d)
    BY <1>1 DEF DownloadInv, Begun
  <2>2. probe_length(d)' = probe_length(d) /\ BusySlots(d)' = BusySlots(d)
    BY <1>1 DEF probe_length, BusySlots
  <2>3. \E v \in Versions : OfVersion(d, v)'
    BY <1>1, <2>1 DEF Progress, OfVersion
  <2>4. \A j \in BusySlots(d)' : ChunkAgrees(d, slots[d][j])'
    BY <1>1, <2>1, <2>2 DEF Progress, ChunkAgrees
  <2>5. Accounted(d)'
    BY <1>1, <2>1, <2>2 DEF Progress, Accounted
  <2>6. Counted(d)'
    BY <1>1, <1>3, <2>1 DEF Progress, Counted
  <2> QED
    BY <2>3, <2>4, <2>5, <2>6 DEF Progress
<1>7. DestinationIsWhole'
  BY <1>1 DEF DownloadInv, DestinationIsWhole
<1> QED
  BY <1>1, <1>2, <1>4, <1>5, <1>6, <1>7, OtherCalls

\* The object and the other program.
LEMMA AroundKeeps ==
  ASSUME DownloadInv, ReplaceObject \/ Appear \/ UNCHANGED downloadVars
  PROVE  DownloadInv'
<1>0. DownloadTypeOK
  BY DEF DownloadInv
<1>1. UNCHANGED <<temporary, stage, overwrite, hard_links, summary, slots, next_chunk, active, cursor>>
  BY DEF ReplaceObject, Appear, downloadVars, local, given
<1>2. destination' = destination \/ destination' = OtherFile
  BY DEF ReplaceObject, Appear, downloadVars
<1>3. object' \in Versions
  <2>1. object \in 1 .. Len(Sizes) /\ Len(Sizes) \in Nat
    BY <1>0, VersionFacts DEF DownloadTypeOK
  <2>2. CASE ReplaceObject
    BY <2>1, <2>2, VersionFacts DEF ReplaceObject
  <2>3. CASE ~ReplaceObject
    BY <1>0, <2>3 DEF Appear, downloadVars, DownloadTypeOK
  <2> QED
    BY <2>2, <2>3
<1>4. DownloadTypeOK'
  BY <1>0, <1>1, <1>2, <1>3, ConstantFiles DEF DownloadTypeOK
<1>5. ASSUME NEW d \in Downloads
      PROVE  Names(d)' /\ Progress(d)'
  <2>1. Names(d) /\ Progress(d) /\ Same(d)
    BY <1>1 DEF DownloadInv, Same
  <2>2. OtherFile.by # d
    BY ConstantFiles, DownloadAssumption
  <2>3. Names(d)'
    BY <1>1, <1>2, <2>1, <2>2 DEF Names
  <2> QED
    BY <2>1, <2>3, SameProgress
<1>6. DestinationIsWhole'
  BY <1>2, ConstantFiles DEF DownloadInv, DestinationIsWhole
<1> QED
  BY <1>4, <1>5, <1>6 DEF DownloadInv
-----------------------------------------------------------------------------
(***************************************************************************)
(* The probe and the slots.                                                *)
(***************************************************************************)
LEMMA ProbeKeeps ==
  ASSUME DownloadInv, NEW d \in Downloads, Probe(d)
  PROVE  DownloadInv'
<1> DEFINE n == Sizes[object]
           p == Least(ChunkSize[d], ProbeSize)
           blank == [temporary[d] EXCEPT !.bytes = [i \in 1 .. n |-> Hole]]
           tag == IF object \in Tagged THEN object ELSE NoTag
<1>0. /\ DownloadTypeOK /\ object \in Versions /\ n \in Nat /\ temporary[d] \in Files
      /\ p \in Nat \ {0} /\ Names(d)
  BY DownloadAssumption, VersionFacts DEF DownloadInv, DownloadTypeOK, Least
<1>1. /\ stage[d] = "probe" /\ stage' = [stage EXCEPT ![d] = "slots"]
      /\ summary' = [summary EXCEPT ![d] = [size |-> n, etag |-> tag, downloaded |-> Least(p, n)]]
      /\ temporary' = [temporary EXCEPT ![d] = Written(blank, 0, p, object)]
      /\ UNCHANGED <<object, destination, overwrite, hard_links, slots, next_chunk, active, cursor>>
  BY DEF Probe, Enter, given
<1>2. /\ blank \in Files /\ blank.by = temporary[d].by /\ Len(blank.bytes) = n
      /\ \A i \in 1 .. n : blank.bytes[i] = Hole
  <2> DEFINE h == [i \in 1 .. n |-> Hole]
  <2>1. h \in [1 .. n -> Bytes]
    BY DEF Bytes
  <2>2. h \in Seq(Bytes) /\ Len(h) = n
    BY <1>0, <2>1, SeqDef
  <2>3. blank = [there |-> temporary[d].there, by |-> temporary[d].by, bytes |-> h]
    BY <1>0 DEF Files
  <2> HIDE DEF blank
  <2>4. blank \in Files /\ blank.by = temporary[d].by /\ blank.bytes = h
    BY <1>0, <2>2, <2>3 DEF Files
  <2> QED
    BY <2>2, <2>4
<1> HIDE DEF blank
<1> DEFINE f == Written(blank, 0, p, object)
<1>3. /\ f \in Files /\ f.by = temporary[d].by /\ Len(f.bytes) = n
      /\ \A i \in 1 .. n : f.bytes[i] = IF i \in 1 .. p THEN object ELSE Hole
  <2>1. object \in Bytes /\ 0 \in Int /\ p \in Int
    BY <1>0 DEF Bytes
  <2> HIDE DEF p
  <2>2. /\ f \in Files /\ f.by = temporary[d].by /\ Len(f.bytes) = n
        /\ \A i \in 1 .. n : f.bytes[i] = IF i \in 0 + 1 .. 0 + p THEN object ELSE Hole
    BY <1>2, <2>1, WrittenFacts
  <2> QED
    BY <1>0, <2>2
<1> HIDE DEF f
<1>4. [size |-> n, etag |-> tag, downloaded |-> Least(p, n)] \in Summaries
  BY <1>0 DEF Summaries, Least
<1>5. DownloadTypeOK'
  BY <1>0, <1>1, <1>3, <1>4 DEF DownloadTypeOK, Labels, f
<1>6. /\ stage'[d] = "slots" /\ summary'[d].size = n /\ summary'[d].etag = tag
      /\ temporary'[d] = f /\ slots'[d] = <<>> /\ next_chunk'[d] = 0
      /\ \A e \in Downloads \ {d} : Same(e)
  BY <1>0, <1>1 DEF DownloadTypeOK, Same, Names, f
<1>7. Names(d)'
  BY <1>0, <1>1, <1>3, <1>6 DEF Names
<1>8. OfVersion(d, object)'
  BY <1>0, <1>1, <1>3, <1>6 DEF OfVersion
<1>9. BusySlots(d)' = {}
  BY <1>6 DEF BusySlots
<1>10. Accounted(d)'
  <2>1. probe_length(d)' = Least(p, n) /\ ChunkSize[d] \in Nat
    BY <1>6, DownloadAssumption DEF probe_length
  <2>2. \A i \in 1 .. n : i <= Least(p, n) => f.bytes[i] = object
    BY <1>0, <1>3 DEF Least
  <2>3. next_chunk'[d] * ChunkSize[d] = 0
    BY <1>6, <2>1
  <2>4. \A i \in 1 .. n : i <= Least(p, n) + 0 => f.bytes[i] # Hole
    BY <1>0, <2>2, VersionFacts DEF Least
  <2> QED
    BY <1>6, <2>1, <2>3, <2>4 DEF Accounted
<1>11. Counted(d)'
  BY <1>6 DEF Counted
<1>12. Progress(d)'
  BY <1>0, <1>1, <1>8, <1>9, <1>10, <1>11 DEF Progress
<1>13. DestinationIsWhole'
  BY <1>1 DEF DownloadInv, DestinationIsWhole
<1> QED
  BY <1>1, <1>5, <1>6, <1>7, <1>12, <1>13, OtherCalls

LEMMA MakeSlotsKeeps ==
  ASSUME DownloadInv, NEW d \in Downloads, MakeSlots(d)
  PROVE  DownloadInv'
<1> DEFINE n == slot_count(d)
           idle == [i \in 1 .. n |-> Idle]
           l == IF n = 0 THEN "publish" ELSE "submit"
<1>0. DownloadTypeOK /\ n \in Nat /\ Names(d) /\ Progress(d)
  BY ChunkFacts DEF DownloadInv
<1>1. /\ stage[d] = "slots" /\ stage' = [stage EXCEPT ![d] = l]
      /\ slots' = [slots EXCEPT ![d] = idle] /\ active' = [active EXCEPT ![d] = n]
      /\ UNCHANGED <<object, destination, temporary, overwrite, hard_links, summary, next_chunk, cursor>>
  BY DEF MakeSlots, Enter, given
<1>2. idle \in Seq(Slots) /\ Len(idle) = n /\ DOMAIN idle = 1 .. n
  <2>1. idle \in [1 .. n -> Slots]
    BY ConstantRecords
  <2> QED
    BY <1>0, <2>1, SeqDef
<1>3. DownloadTypeOK'
  BY <1>0, <1>1, <1>2 DEF DownloadTypeOK, Labels
<1>4. /\ stage'[d] = l /\ slots'[d] = idle /\ active'[d] = n /\ next_chunk'[d] = 0
      /\ next_chunk[d] = 0 /\ slots[d] = <<>>
      /\ \A e \in Downloads \ {d} : Same(e)
  BY <1>0, <1>1 DEF DownloadTypeOK, Same, Names
<1>5. Names(d)'
  BY <1>0, <1>1, <1>4 DEF Names
<1>6. BusySlots(d) = {} /\ BusySlots(d)' = {}
  BY <1>4, <1>2, ConstantRecords DEF BusySlots
<1>7. /\ probe_length(d)' = probe_length(d) /\ slot_count(d)' = n
  BY <1>1 DEF probe_length, slot_count, chunks, remaining
<1>8. Begun(d)
  BY <1>1 DEF Begun
<1>9. \E v \in Versions : OfVersion(d, v)'
  BY <1>0, <1>1, <1>8 DEF Progress, OfVersion
<1>10. Accounted(d)'
  BY <1>0, <1>1, <1>6, <1>7, <1>8 DEF Progress, Accounted
<1>11. Counted(d)'
  <2>1. CASE n = 0
    <3>1. chunks(d) = 0 /\ probe_length(d) >= summary[d].size /\ summary[d].size \in Nat
      <4>1. chunks(d) = 0 /\ probe_length(d) + chunks(d) * ChunkSize[d] >= summary[d].size
            /\ ChunkSize[d] \in Nat /\ probe_length(d) \in Nat /\ summary[d].size \in Nat
        BY <1>0, <2>1, ChunkFacts
      <4> QED
        BY <4>1
    <3>2. \A i \in 1 .. summary[d].size : i <= probe_length(d) + 0 * ChunkSize[d]
      BY <1>0, <3>1, ChunkFacts
    <3>3. \A i \in 1 .. summary[d].size : temporary[d].bytes[i] # Hole
      BY <1>0, <1>4, <1>6, <1>8, <3>2 DEF Progress, Accounted
    <3> QED
      BY <1>1, <1>4, <2>1, <3>3 DEF Counted
  <2>2. CASE n # 0
    <3>1. 1 .. 0 = {}
      OBVIOUS
    <3> QED
      BY <1>0, <1>2, <1>4, <1>6, <1>7, <2>2, <3>1 DEF Counted
  <2> QED
    BY <2>1, <2>2
<1>12. Progress(d)'
  BY <1>6, <1>9, <1>10, <1>11 DEF Progress
<1>13. DestinationIsWhole'
  BY <1>1 DEF DownloadInv, DestinationIsWhole
<1> QED
  BY <1>1, <1>3, <1>4, <1>5, <1>12, <1>13, OtherCalls

\* The chunk that is submitted next, and the bytes it is for.
LEMMA SubmitChunkFacts ==
  ASSUME DownloadInv, NEW d \in Downloads, stage[d] \in {"submit", "poll"}
  PROVE  /\ submit_chunk(d) \in Slots /\ Busy(submit_chunk(d))
         /\ ChunkAgrees(d, submit_chunk(d))
         /\ \A i \in 1 .. summary[d].size :
               /\ i <= probe_length(d) + (next_chunk[d] + 1) * ChunkSize[d]
               /\ ~(i <= probe_length(d) + next_chunk[d] * ChunkSize[d])
               => i \in submit_chunk(d).offset + 1 ..
                        submit_chunk(d).offset + submit_chunk(d).length
<1> DEFINE kc == next_chunk[d] * ChunkSize[d]
           off == probe_length(d) + kc
           s == submit_chunk(d)
<1>0. /\ DownloadTypeOK /\ Progress(d) /\ Begun(d) /\ next_chunk[d] \in Nat
      /\ summary[d].etag \in Versions \cup {NoTag}
  BY DEF DownloadInv, Begun, DownloadTypeOK, Summaries
<1>1. kc \in Nat /\ (next_chunk[d] + 1) * ChunkSize[d] = kc + ChunkSize[d]
      /\ probe_length(d) \in Nat /\ summary[d].size \in Nat /\ ChunkSize[d] \in Nat \ {0}
  BY <1>0, ChunkFacts, NextProduct
<1>2. probe_length(d) > 0
  <2>1. slot_count(d) > 0
    BY <1>0, ChunkFacts DEF Progress, Counted
  <2> QED
    BY <1>0, <2>1, ChunkFacts
<1>3. s = [batch |-> "waiting", buffer |-> TRUE, offset |-> off,
           length |-> Least(ChunkSize[d], summary[d].size - off), if_match |-> summary[d].etag, bytes |-> Hole]
  BY DEF submit_chunk
<1> HIDE DEF s, kc
<1>4. s \in Slots /\ Busy(s)
  BY <1>0, <1>1, <1>3 DEF Slots, Busy, Bytes, Least
<1>5. ChunkAgrees(d, s)
  BY <1>1, <1>2, <1>3 DEF ChunkAgrees
<1>6. \A i \in 1 .. summary[d].size :
          i <= probe_length(d) + (kc + ChunkSize[d]) /\ ~(i <= off) =>
              i \in s.offset + 1 .. s.offset + s.length
  BY <1>1, <1>3 DEF Least
<1> QED
  BY <1>1, <1>4, <1>5, <1>6 DEF s, kc

LEMMA SubmitFirstKeeps ==
  ASSUME DownloadInv, NEW d \in Downloads, SubmitFirst(d)
  PROVE  DownloadInv'
<1> DEFINE k == next_chunk[d]
           s == submit_chunk(d)
           l == IF k + 1 = slot_count(d) THEN "poll" ELSE "submit"
<1>0. /\ DownloadTypeOK /\ Names(d) /\ Progress(d) /\ stage[d] = "submit" /\ Begun(d)
      /\ k \in Nat /\ slots[d] \in Seq(Slots)
  BY DEF DownloadInv, DownloadTypeOK, SubmitFirst, Begun
<1>1. /\ Len(slots[d]) = slot_count(d) /\ active[d] = slot_count(d) /\ k < slot_count(d)
      /\ BusySlots(d) = 1 .. k /\ slot_count(d) \in Nat
  BY <1>0, ChunkFacts DEF Progress, Counted
<1>2. /\ stage' = [stage EXCEPT ![d] = l]
      /\ slots' = [slots EXCEPT ![d] = [slots[d] EXCEPT ![k + 1] = s]]
      /\ next_chunk' = [next_chunk EXCEPT ![d] = k + 1]
      /\ UNCHANGED <<object, destination, temporary, overwrite, hard_links, summary, active, cursor>>
  BY DEF SubmitFirst, Enter, given
<1>3. /\ s \in Slots /\ Busy(s) /\ ChunkAgrees(d, s)
      /\ \A i \in 1 .. summary[d].size :
            /\ i <= probe_length(d) + (k + 1) * ChunkSize[d]
            /\ ~(i <= probe_length(d) + k * ChunkSize[d])
            => i \in s.offset + 1 .. s.offset + s.length
  BY <1>0, SubmitChunkFacts
<1> DEFINE t == [slots[d] EXCEPT ![k + 1] = s]
<1>4. /\ t \in Seq(Slots) /\ Len(t) = slot_count(d) /\ DOMAIN t = 1 .. slot_count(d)
      /\ DOMAIN slots[d] = 1 .. slot_count(d)
      /\ \A j \in 1 .. slot_count(d) : t[j] = IF j = k + 1 THEN s ELSE slots[d][j]
  <2>1. k + 1 \in 1 .. Len(slots[d])
    BY <1>0, <1>1
  <2>2. /\ t \in Seq(Slots) /\ Len(t) = Len(slots[d])
        /\ \A j \in 1 .. Len(slots[d]) : t[j] = IF j = k + 1 THEN s ELSE slots[d][j]
    BY <1>0, <1>3, <2>1, ExceptSeq
  <2> QED
    BY <1>0, <1>1, <2>2, LenProperties
<1> HIDE DEF s, t
<1>5. DownloadTypeOK'
  BY <1>0, <1>2, <1>4 DEF DownloadTypeOK, Labels, t
<1>6. /\ stage'[d] = l /\ slots'[d] = t /\ next_chunk'[d] = k + 1
      /\ \A e \in Downloads \ {d} : Same(e)
  BY <1>0, <1>2 DEF DownloadTypeOK, Same, t
<1>7. Names(d)'
  BY <1>0, <1>2, <1>6 DEF Names
<1>8. BusySlots(d)' = 1 .. k + 1
  <2>1. \A j \in 1 .. slot_count(d) : Busy(slots[d][j]) <=> j \in 1 .. k
    BY <1>1, <1>4 DEF BusySlots
  <2>2. \A j \in 1 .. slot_count(d) : Busy(t[j]) <=> j \in 1 .. k + 1
    BY <1>0, <1>3, <1>4, <2>1
  <2> QED
    BY <1>0, <1>1, <1>4, <1>6, <2>2 DEF BusySlots
<1>9. /\ probe_length(d)' = probe_length(d) /\ slot_count(d)' = slot_count(d)
      /\ chunks(d)' = chunks(d)
  BY <1>2 DEF probe_length, slot_count, chunks, remaining
<1>10. \E v \in Versions : OfVersion(d, v)'
  BY <1>0, <1>2 DEF Progress, OfVersion
<1>11. \A j \in BusySlots(d)' : ChunkAgrees(d, slots[d][j])'
  <2> SUFFICES ASSUME NEW j \in 1 .. k + 1 PROVE ChunkAgrees(d, slots[d][j])'
    BY <1>8
  <2>1. CASE j = k + 1
    BY <1>0, <1>1, <1>2, <1>3, <1>4, <1>6, <2>1 DEF ChunkAgrees
  <2>2. CASE j # k + 1
    <3>1. j \in BusySlots(d) /\ t[j] = slots[d][j]
      BY <1>0, <1>1, <1>4, <2>2
    <3> QED
      BY <1>0, <1>2, <1>6, <3>1 DEF Progress, ChunkAgrees
  <2> QED
    BY <2>1, <2>2
<1>12. Accounted(d)'
  <2> SUFFICES ASSUME NEW i \in 1 .. summary[d].size,
                      i <= probe_length(d) + (k + 1) * ChunkSize[d],
                      temporary[d].bytes[i] = Hole
               PROVE  \E j \in 1 .. k + 1 : i \in t[j].offset + 1 .. t[j].offset + t[j].length
    BY <1>2, <1>6, <1>8, <1>9 DEF Accounted
  <2>1. CASE i <= probe_length(d) + k * ChunkSize[d]
    <3>1. PICK j \in 1 .. k :
              i \in slots[d][j].offset + 1 .. slots[d][j].offset + slots[d][j].length
      BY <1>0, <1>1, <2>1 DEF Progress, Accounted
    <3>2. j \in 1 .. k + 1 /\ t[j] = slots[d][j]
      BY <1>0, <1>1, <1>4
    <3> QED
      BY <3>1, <3>2
  <2>2. CASE ~(i <= probe_length(d) + k * ChunkSize[d])
    <3>1. i \in s.offset + 1 .. s.offset + s.length
      BY <1>3, <2>2
    <3>2. k + 1 \in 1 .. k + 1 /\ t[k + 1] = s
      BY <1>0, <1>1, <1>4
    <3> QED
      BY <3>1, <3>2
  <2> QED
    BY <2>1, <2>2
<1>13. Counted(d)'
  <2>1. CASE k + 1 = slot_count(d)
    <3>1. Cardinality(1 .. k + 1) = k + 1
      BY <1>0, FS_Interval
    <3> QED
      BY <1>0, <1>1, <1>2, <1>4, <1>6, <1>8, <1>9, <2>1, <3>1 DEF Counted
  <2>2. CASE k + 1 # slot_count(d)
    BY <1>0, <1>1, <1>2, <1>4, <1>6, <1>8, <1>9, <2>2 DEF Counted
  <2> QED
    BY <2>1, <2>2
<1>14. Progress(d)'
  BY <1>10, <1>11, <1>12, <1>13 DEF Progress
<1>15. DestinationIsWhole'
  BY <1>2 DEF DownloadInv, DestinationIsWhole
<1> QED
  BY <1>2, <1>5, <1>6, <1>7, <1>14, <1>15, OtherCalls
-----------------------------------------------------------------------------
(***************************************************************************)
(* The polling loop.                                                       *)
(***************************************************************************)
Polled(d) ==
    /\ Len(slots[d]) = slot_count(d) /\ slot_count(d) > 0
    /\ active[d] = Cardinality(BusySlots(d))
    /\ BusySlots(d) # DOMAIN slots[d] => next_chunk[d] >= chunks(d)

DrainedIsWritten(d) ==
    DownloadTypeOK /\ Accounted(d) /\ Polled(d) /\ active[d] = 0 =>
        \A i \in 1 .. summary[d].size : temporary[d].bytes[i] # Hole

\* When no slot is active every byte has been written.
LEMMA Drained == \A d \in Downloads : DrainedIsWritten(d)
<1> SUFFICES ASSUME NEW d \in Downloads, DownloadTypeOK, Accounted(d), Polled(d), active[d] = 0,
                    NEW i \in 1 .. summary[d].size
             PROVE  temporary[d].bytes[i] # Hole
  BY DEF DrainedIsWritten
<1>1. /\ slots[d] \in Seq(Slots) /\ Len(slots[d]) \in Nat \ {0}
      /\ DOMAIN slots[d] = 1 .. Len(slots[d])
      /\ next_chunk[d] \in Nat
  <2>1. slots[d] \in Seq(Slots) /\ next_chunk[d] \in Nat
    BY DEF DownloadTypeOK
  <2>2. slot_count(d) \in Nat
    BY ChunkFacts
  <2> QED
    BY <2>1, <2>2, LenProperties DEF Polled
<1>2. IsFiniteSet(BusySlots(d))
  <2>1. BusySlots(d) \in SUBSET (1 .. Len(slots[d]))
    BY <1>1 DEF BusySlots
  <2>2. IsFiniteSet(1 .. Len(slots[d]))
    BY <1>1, FS_Interval
  <2> QED
    BY <2>1, <2>2, FS_Subset
<1>3. BusySlots(d) = {}
  BY <1>2, FS_EmptySet DEF Polled
<1>4. 1 \in DOMAIN slots[d]
  BY <1>1
<1>5. next_chunk[d] >= chunks(d)
  BY <1>3, <1>4 DEF Polled
<1>6. /\ chunks(d) \in Nat /\ ChunkSize[d] \in Nat /\ probe_length(d) \in Nat
      /\ summary[d].size \in Nat
      /\ probe_length(d) + chunks(d) * ChunkSize[d] >= summary[d].size
  BY ChunkFacts
<1>7. next_chunk[d] * ChunkSize[d] >= chunks(d) * ChunkSize[d]
      /\ next_chunk[d] * ChunkSize[d] \in Nat /\ chunks(d) * ChunkSize[d] \in Nat
  BY <1>1, <1>5, <1>6, GreaterProduct
<1>8. i <= probe_length(d) + next_chunk[d] * ChunkSize[d]
  BY <1>6, <1>7
<1> QED
  BY <1>3, <1>8 DEF Accounted

LEMMA DrainedNext == (\A d \in Downloads : DrainedIsWritten(d))'
BY Drained, PTL

LEMMA PollFacts ==
  ASSUME DownloadInv, NEW d \in Downloads, stage[d] = "poll"
  PROVE  /\ slots[d] \in Seq(Slots) /\ Len(slots[d]) \in Nat \ {0}
         /\ DOMAIN slots[d] = 1 .. Len(slots[d])
         /\ index(d) \in 1 .. Len(slots[d]) /\ slots[d][index(d)] \in Slots
         /\ Polled(d) /\ Begun(d) /\ Progress(d)
         /\ cursor[d] \in [wait : Nat, step : Nat, completed : BOOLEAN]
<1>1. Begun(d) /\ Progress(d) /\ DownloadTypeOK
  BY DEF DownloadInv, Begun
<1>2. Polled(d)
  BY <1>1 DEF Progress, Counted, Polled
<1>3. /\ slots[d] \in Seq(Slots) /\ slot_count(d) \in Nat
      /\ cursor[d] \in [wait : Nat, step : Nat, completed : BOOLEAN]
  BY <1>1, ChunkFacts DEF DownloadTypeOK
<1>4. Len(slots[d]) \in Nat \ {0} /\ DOMAIN slots[d] = 1 .. Len(slots[d])
  BY <1>2, <1>3, LenProperties DEF Polled
<1>5. index(d) \in 1 .. Len(slots[d])
  <2>1. cursor[d].wait + cursor[d].step \in Nat
    BY <1>3
  <2>2. (cursor[d].wait + cursor[d].step) % Len(slots[d]) \in 0 .. Len(slots[d]) - 1
    BY <1>4, <2>1
  <2> QED
    BY <1>4, <2>2 DEF index
<1>6. slots[d][index(d)] \in Slots
  BY <1>3, <1>5, ElementOfSeq
<1> QED
  BY <1>1, <1>2, <1>3, <1>4, <1>5, <1>6

LEMMA LookFacts ==
  ASSUME DownloadInv, NEW d \in Downloads, stage[d] = "poll", NEW c \in BOOLEAN, Look(d, c)
  PROVE  /\ cursor' \in [Downloads -> [wait : Nat, step : Nat, completed : BOOLEAN]]
         /\ \E l \in {"publish", "poll"} : /\ stage' = [stage EXCEPT ![d] = l]
                                           /\ l = "publish" => active'[d] = 0
<1> DEFINE n == Len(slots[d])
           any == cursor[d].completed \/ c
           wait == IF c THEN index(d) % n ELSE cursor[d].wait
           last == cursor[d].step + 1 = n
           to == IF last THEN [FirstLook EXCEPT !.wait = IF any THEN wait ELSE (wait + 1) % n]
                 ELSE [wait |-> wait, step |-> cursor[d].step + 1, completed |-> any]
<1>1. /\ n \in Nat \ {0} /\ index(d) \in Nat
      /\ cursor[d].wait \in Nat /\ cursor[d].step \in Nat /\ cursor[d].completed \in BOOLEAN
      /\ cursor \in [Downloads -> [wait : Nat, step : Nat, completed : BOOLEAN]]
  BY PollFacts DEF DownloadInv, DownloadTypeOK
<1>2. wait \in Nat
  BY <1>1
<1>3. (wait + 1) % n \in Nat
  BY <1>1, <1>2
<1>4. any \in BOOLEAN
  BY <1>1
<1>5. cursor' = [cursor EXCEPT ![d] = to]
  BY DEF Look
<1>6. \E l \in {"publish", "poll"} : /\ stage' = [stage EXCEPT ![d] = l]
                                     /\ l = "publish" => active'[d] = 0
  BY DEF Look, Enter
<1> HIDE DEF wait, any
<1>7. to \in [wait : Nat, step : Nat, completed : BOOLEAN]
  <2>1. CASE last
    <3>1. /\ FirstLook \in [wait : Nat, step : Nat, completed : BOOLEAN]
          /\ (IF any THEN wait ELSE (wait + 1) % n) \in Nat
      BY <1>2, <1>3, ConstantRecords
    <3> QED
      BY <2>1, <3>1
  <2>2. CASE ~last
    BY <1>1, <1>2, <1>4, <2>2
  <2> QED
    BY <2>1, <2>2
<1> HIDE DEF to
<1>8. cursor' \in [Downloads -> [wait : Nat, step : Nat, completed : BOOLEAN]]
  BY <1>1, <1>5, <1>7
<1> QED
  BY <1>6, <1>8

\* The end of a look at a slot, once the rest of the step is known.
LEMMA LookKeeps ==
  ASSUME DownloadInv, NEW d \in Downloads, stage[d] = "poll", NEW c \in BOOLEAN, Look(d, c),
         UNCHANGED <<object, destination, overwrite, hard_links>>,
         temporary' \in [Downloads -> Files], summary' \in [Downloads -> Summaries],
         slots' \in [Downloads -> Seq(Slots)], next_chunk' \in [Downloads -> Nat],
         active' \in [Downloads -> Int],
         \A e \in Downloads \ {d} : /\ temporary'[e] = temporary[e] /\ summary'[e] = summary[e]
                                    /\ slots'[e] = slots[e] /\ next_chunk'[e] = next_chunk[e]
                                    /\ active'[e] = active[e],
         temporary'[d].by = temporary[d].by,
         \E v \in Versions : OfVersion(d, v)',
         \A j \in BusySlots(d)' : ChunkAgrees(d, slots[d][j])',
         Accounted(d)', Polled(d)'
  PROVE  DownloadInv'
<1>0. DownloadTypeOK /\ Names(d)
  BY DEF DownloadInv
<1>1. PICK l \in {"publish", "poll"} : /\ stage' = [stage EXCEPT ![d] = l]
                                       /\ l = "publish" => active'[d] = 0
  BY LookFacts
<1>2. cursor' \in [Downloads -> [wait : Nat, step : Nat, completed : BOOLEAN]]
  BY LookFacts
<1>3. DownloadTypeOK'
  BY <1>0, <1>1, <1>2 DEF DownloadTypeOK, Labels
<1>4. stage'[d] = l /\ \A e \in Downloads \ {d} : Same(e)
  BY <1>0, <1>1 DEF DownloadTypeOK, Same
<1>5. Names(d)'
  BY <1>0, <1>4 DEF Names
<1>6. (\A e \in Downloads : DrainedIsWritten(e))'
  BY DrainedNext
<1>7. l = "publish" => \A i \in 1 .. summary'[d].size : temporary'[d].bytes[i] # Hole
  BY <1>1, <1>3, <1>6 DEF DrainedIsWritten
<1>8. Counted(d)'
  BY <1>4, <1>7 DEF Counted, Polled
<1>9. Progress(d)'
  BY <1>8 DEF Progress
<1>10. DestinationIsWhole'
  BY DEF DownloadInv, DestinationIsWhole
<1> QED
  BY <1>3, <1>4, <1>5, <1>9, <1>10, OtherCalls

LEMMA PollNothingKeeps ==
  ASSUME DownloadInv, NEW d \in Downloads, PollNothing(d)
  PROVE  DownloadInv'
<1>1. /\ stage[d] = "poll" /\ Look(d, FALSE)
      /\ UNCHANGED <<object, destination, temporary, overwrite, hard_links, summary, slots,
                     next_chunk, active>>
  BY DEF PollNothing, given
<1>2. Polled(d) /\ Begun(d) /\ Progress(d)
  BY <1>1, PollFacts
<1>3. /\ probe_length(d)' = probe_length(d) /\ slot_count(d)' = slot_count(d)
      /\ chunks(d)' = chunks(d) /\ BusySlots(d)' = BusySlots(d)
  BY <1>1 DEF probe_length, slot_count, chunks, remaining, BusySlots
<1>4. \E v \in Versions : OfVersion(d, v)'
  BY <1>1, <1>2 DEF Progress, OfVersion
<1>5. \A j \in BusySlots(d)' : ChunkAgrees(d, slots[d][j])'
  BY <1>1, <1>2, <1>3 DEF Progress, ChunkAgrees
<1>6. Accounted(d)' /\ Polled(d)'
  BY <1>1, <1>2, <1>3 DEF Progress, Accounted, Polled
<1>7. DownloadTypeOK /\ FALSE \in BOOLEAN
  BY DEF DownloadInv
<1>8. /\ temporary' \in [Downloads -> Files] /\ summary' \in [Downloads -> Summaries]
      /\ slots' \in [Downloads -> Seq(Slots)] /\ next_chunk' \in [Downloads -> Nat]
      /\ active' \in [Downloads -> Int]
  BY <1>1, <1>7 DEF DownloadTypeOK
<1> QED
  BY <1>1, <1>4, <1>5, <1>6, <1>7, <1>8, LookKeeps

\* A chunk that has come is written, and its slot takes the next one or is idle.
LEMMA PollDoneKeeps ==
  ASSUME DownloadInv, NEW d \in Downloads, PollDone(d)
  PROVE  DownloadInv'
<1> DEFINE x == index(d)
           s == slots[d][x]
           n == Len(slots[d])
           k == next_chunk[d]
           more == k < chunks(d)
           u == IF more THEN submit_chunk(d) ELSE Idle
           t == [slots[d] EXCEPT ![x] = u]
           f == Written(temporary[d], s.offset, s.length, s.bytes)
<1>0. /\ stage[d] = "poll" /\ s.batch = "done" /\ Look(d, TRUE)
      /\ temporary' = [temporary EXCEPT ![d] = f]
      /\ summary' = [summary EXCEPT ![d].downloaded = @ + s.length]
      /\ slots' = [slots EXCEPT ![d] = t]
      /\ next_chunk' = [next_chunk EXCEPT ![d] = IF more THEN k + 1 ELSE k]
      /\ active' = [active EXCEPT ![d] = IF more THEN active[d] ELSE active[d] - 1]
      /\ UNCHANGED <<object, destination, overwrite, hard_links>>
  BY DEF PollDone, given
<1>1. /\ slots[d] \in Seq(Slots) /\ n \in Nat \ {0} /\ DOMAIN slots[d] = 1 .. n
      /\ x \in 1 .. n /\ s \in Slots /\ Polled(d) /\ Begun(d) /\ Progress(d)
  BY <1>0, PollFacts
<1>2. /\ DownloadTypeOK /\ k \in Nat /\ temporary[d] \in Files /\ summary[d] \in Summaries
      /\ active[d] \in Int /\ chunks(d) \in Nat
  BY ChunkFacts DEF DownloadInv, DownloadTypeOK
<1> HIDE DEF x
<1>3. /\ x \in BusySlots(d) /\ s.offset \in Int /\ s.offset > 0 /\ s.length \in Int
      /\ s.bytes \in Versions /\ s.bytes \in Bytes
      /\ summary[d].etag # NoTag => s.bytes = summary[d].etag
  <2>1. x \in BusySlots(d)
    BY <1>0, <1>1 DEF BusySlots, Busy
  <2>2. ChunkAgrees(d, s)
    BY <1>1, <2>1 DEF Progress
  <2> QED
    BY <1>0, <1>1, <2>1, <2>2 DEF ChunkAgrees, Slots, Bytes
<1> HIDE DEF s
<1>4. /\ u \in Slots
      /\ more => /\ Busy(u) /\ ChunkAgrees(d, u)
                 /\ \A i \in 1 .. summary[d].size :
                       /\ i <= probe_length(d) + (k + 1) * ChunkSize[d]
                       /\ ~(i <= probe_length(d) + k * ChunkSize[d])
                       => i \in u.offset + 1 .. u.offset + u.length
      /\ ~more => ~Busy(u)
  BY <1>0, SubmitChunkFacts, ConstantRecords
<1> HIDE DEF u
<1>5. /\ t \in Seq(Slots) /\ Len(t) = n /\ DOMAIN t = 1 .. n
      /\ \A j \in 1 .. n : t[j] = IF j = x THEN u ELSE slots[d][j]
  <2>1. /\ t \in Seq(Slots) /\ Len(t) = n
        /\ \A j \in 1 .. n : t[j] = IF j = x THEN u ELSE slots[d][j]
    BY <1>1, <1>4, ExceptSeq
  <2> QED
    BY <2>1, LenProperties
<1> HIDE DEF t
<1>6. /\ f \in Files /\ f.by = temporary[d].by /\ Len(f.bytes) = Len(temporary[d].bytes)
      /\ \A i \in 1 .. Len(temporary[d].bytes) :
            f.bytes[i] = IF i \in s.offset + 1 .. s.offset + s.length THEN s.bytes
                         ELSE temporary[d].bytes[i]
  <2> DEFINE g == temporary[d]
             a == s.offset
             m == s.length
             v == s.bytes
  <2>1. g \in Files /\ a \in Int /\ m \in Int /\ v \in Bytes
    BY <1>2, <1>3
  <2>2. f = Written(g, a, m, v)
    OBVIOUS
  <2> HIDE DEF g, a, m, v, f
  <2>3. /\ Written(g, a, m, v) \in Files /\ Written(g, a, m, v).by = g.by
        /\ Len(Written(g, a, m, v).bytes) = Len(g.bytes)
        /\ \A i \in 1 .. Len(g.bytes) :
              Written(g, a, m, v).bytes[i] = IF i \in a + 1 .. a + m THEN v ELSE g.bytes[i]
    BY <2>1, WrittenFacts
  <2> QED
    BY <2>2, <2>3 DEF g, a, m, v
<1> HIDE DEF f
<1>7. /\ temporary' \in [Downloads -> Files] /\ slots' \in [Downloads -> Seq(Slots)]
      /\ next_chunk' \in [Downloads -> Nat] /\ active' \in [Downloads -> Int]
      /\ summary' \in [Downloads -> Summaries]
  <2>1. summary' \in [Downloads -> Summaries]
    <3> DEFINE r == [summary[d] EXCEPT !.downloaded = @ + s.length]
    <3>1. summary' = [summary EXCEPT ![d] = r]
      BY <1>0
    <3>2. r \in Summaries
      BY <1>2, <1>3 DEF Summaries
    <3> HIDE DEF r
    <3> QED
      BY <1>2, <3>1, <3>2 DEF DownloadTypeOK
  <2> QED
    BY <1>0, <1>2, <1>5, <1>6, <2>1 DEF DownloadTypeOK
<1>8. /\ temporary'[d] = f /\ slots'[d] = t
      /\ summary'[d].size = summary[d].size /\ summary'[d].etag = summary[d].etag
      /\ next_chunk'[d] = IF more THEN k + 1 ELSE k
      /\ active'[d] = IF more THEN active[d] ELSE active[d] - 1
  BY <1>0, <1>2 DEF DownloadTypeOK, Summaries
<1>9. \A e \in Downloads \ {d} : /\ temporary'[e] = temporary[e] /\ summary'[e] = summary[e]
                                 /\ slots'[e] = slots[e] /\ next_chunk'[e] = next_chunk[e]
                                 /\ active'[e] = active[e]
  BY <1>0, <1>2 DEF DownloadTypeOK
<1>10. /\ probe_length(d)' = probe_length(d) /\ slot_count(d)' = slot_count(d)
       /\ chunks(d)' = chunks(d)
  BY <1>8 DEF probe_length, slot_count, chunks, remaining
<1>11. BusySlots(d)' = IF more THEN BusySlots(d) ELSE BusySlots(d) \ {x}
  <2>1. BusySlots(d)' = {j \in 1 .. n : Busy(t[j])} /\ BusySlots(d) = {j \in 1 .. n : Busy(slots[d][j])}
    BY <1>1, <1>5, <1>8 DEF BusySlots
  <2> QED
    BY <1>1, <1>3, <1>4, <1>5, <2>1
<1>12. \E v \in Versions : OfVersion(d, v)'
  <2>1. PICK v \in Versions : OfVersion(d, v)
    BY <1>1 DEF Progress
  <2>2. Sizes[v] \in Nat /\ v # NoTag
    BY VersionFacts
  <2>3. Sizes[v] > 0 => f.bytes[1] = v
    <3>1. 1 \notin s.offset + 1 .. s.offset + s.length
      BY <1>3
    <3> QED
      BY <1>6, <2>1, <2>2, <3>1 DEF OfVersion
  <2>4. v \in Tagged => \A i \in 1 .. Sizes[v] : f.bytes[i] \in {Hole, v}
    BY <1>3, <1>6, <2>1, <2>2 DEF OfVersion
  <2>5. OfVersion(d, v)'
    BY <1>6, <1>8, <2>1, <2>3, <2>4 DEF OfVersion
  <2> QED
    BY <2>5
<1>13. \A j \in BusySlots(d)' : ChunkAgrees(d, slots[d][j])'
  <2> SUFFICES ASSUME NEW j \in BusySlots(d)'
               PROVE  ChunkAgrees(d, slots[d][j])'
    OBVIOUS
  <2>0. j \in BusySlots(d) /\ j \in 1 .. n
    BY <1>1, <1>11 DEF BusySlots
  <2>1. CASE j = x
    <3>1. more /\ slots'[d][j] = u
      BY <1>5, <1>8, <1>11, <2>0, <2>1
    <3> QED
      BY <1>4, <1>8, <3>1 DEF ChunkAgrees
  <2>2. CASE j # x
    <3>1. slots'[d][j] = slots[d][j]
      BY <1>5, <1>8, <2>0, <2>2
    <3>2. ChunkAgrees(d, slots[d][j])
      BY <1>1, <2>0 DEF Progress
    <3> QED
      BY <1>8, <3>1, <3>2 DEF ChunkAgrees
  <2> QED
    BY <2>1, <2>2
<1>14. Accounted(d)'
  <2> SUFFICES ASSUME NEW i \in 1 .. summary[d].size,
                      i <= probe_length(d) + next_chunk'[d] * ChunkSize[d],
                      f.bytes[i] = Hole
               PROVE  \E j \in BusySlots(d)' : i \in t[j].offset + 1 .. t[j].offset + t[j].length
    BY <1>8, <1>10 DEF Accounted
  <2>0. i \notin s.offset + 1 .. s.offset + s.length /\ temporary[d].bytes[i] = Hole
    <3>1. i \in 1 .. Len(temporary[d].bytes)
      BY <1>1 DEF Progress, OfVersion
    <3> QED
      BY <1>3, <1>6, <3>1, VersionFacts
  <2>1. CASE i <= probe_length(d) + k * ChunkSize[d]
    <3>1. PICK j \in BusySlots(d) :
              i \in slots[d][j].offset + 1 .. slots[d][j].offset + slots[d][j].length
      BY <1>1, <2>0, <2>1 DEF Progress, Accounted
    <3>2. j # x /\ j \in 1 .. n
      BY <1>1, <2>0, <3>1 DEF s, BusySlots
    <3>3. j \in BusySlots(d)' /\ t[j] = slots[d][j]
      BY <1>5, <1>11, <3>1, <3>2
    <3> QED
      BY <3>1, <3>3
  <2>2. CASE ~(i <= probe_length(d) + k * ChunkSize[d])
    <3>1. more /\ next_chunk'[d] = k + 1
      BY <1>8, <2>2
    <3>2. i \in u.offset + 1 .. u.offset + u.length
      BY <1>4, <2>2, <3>1
    <3>3. x \in BusySlots(d)' /\ t[x] = u
      BY <1>1, <1>3, <1>5, <1>11, <3>1
    <3> QED
      BY <3>2, <3>3
  <2> QED
    BY <2>1, <2>2
<1>15. Polled(d)'
  <2>1. IsFiniteSet(BusySlots(d))
    <3>1. BusySlots(d) \in SUBSET (1 .. n)
      BY <1>1 DEF BusySlots
    <3>2. IsFiniteSet(1 .. n)
      BY <1>1, FS_Interval
    <3> QED
      BY <3>1, <3>2, FS_Subset
  <2>2. active'[d] = Cardinality(BusySlots(d)')
    <3>1. CASE more
      BY <1>1, <1>8, <1>11, <3>1 DEF Polled
    <3>2. CASE ~more
      <4>1. Cardinality(BusySlots(d) \ {x}) = Cardinality(BusySlots(d)) - 1
        BY <1>3, <2>1, FS_RemoveElement
      <4> QED
        BY <1>1, <1>8, <1>11, <3>2, <4>1 DEF Polled
    <3> QED
      BY <3>1, <3>2
  <2>3. BusySlots(d)' # 1 .. n => next_chunk'[d] >= chunks(d)
    <3>1. CASE more
      <4>1. BusySlots(d) = 1 .. n
        BY <1>1, <1>2, <3>1 DEF Polled
      <4> QED
        BY <1>11, <3>1, <4>1
    <3>2. CASE ~more
      BY <1>2, <1>8, <3>2
    <3> QED
      BY <3>1, <3>2
  <2> QED
    BY <1>1, <1>5, <1>8, <1>10, <2>2, <2>3 DEF Polled
<1>16. temporary'[d].by = temporary[d].by
  BY <1>6, <1>8
<1> QED
  BY <1>0, <1>7, <1>9, <1>12, <1>13, <1>14, <1>15, <1>16, LookKeeps
-----------------------------------------------------------------------------
(***************************************************************************)
(* The engine completes a batch.                                           *)
(***************************************************************************)
LEMMA SlotChanges ==
  ASSUME DownloadInv, NEW d \in Downloads, NEW i \in DOMAIN slots[d], NEW u \in Slots,
         Busy(slots[d][i]), Busy(u),
         u.offset = slots[d][i].offset, u.length = slots[d][i].length,
         u.if_match = slots[d][i].if_match,
         u.batch = "done" => u.bytes \in Versions /\ u.if_match \in {NoTag, u.bytes},
         slots' = [slots EXCEPT ![d] = [slots[d] EXCEPT ![i] = u]],
         UNCHANGED <<object, destination, temporary, overwrite, hard_links, stage, summary,
                     next_chunk, active, cursor>>
  PROVE  DownloadInv'
<1> DEFINE t == [slots[d] EXCEPT ![i] = u]
           n == Len(slots[d])
<1>0. DownloadTypeOK /\ Names(d) /\ Progress(d) /\ slots[d] \in Seq(Slots)
  BY DEF DownloadInv, DownloadTypeOK
<1>1. DOMAIN slots[d] = 1 .. n /\ n \in Nat
  BY <1>0, LenProperties
<1>2. /\ t \in Seq(Slots) /\ Len(t) = n /\ DOMAIN t = 1 .. n
      /\ \A j \in 1 .. n : t[j] = IF j = i THEN u ELSE slots[d][j]
  <2>1. /\ t \in Seq(Slots) /\ Len(t) = n
        /\ \A j \in 1 .. n : t[j] = IF j = i THEN u ELSE slots[d][j]
    BY <1>0, <1>1, ExceptSeq
  <2> QED
    BY <2>1, LenProperties
<1> HIDE DEF t
<1>3. DownloadTypeOK'
  BY <1>0, <1>2 DEF DownloadTypeOK, t
<1>4. slots'[d] = t /\ \A e \in Downloads \ {d} : Same(e)
  BY <1>0 DEF DownloadTypeOK, Same, t
<1>5. Names(d)'
  <2>1. slots[d] # <<>>
    OBVIOUS
  <2> QED
    BY <1>0, <2>1 DEF Names
<1>6. BusySlots(d)' = BusySlots(d)
  BY <1>1, <1>2, <1>4 DEF BusySlots
<1>7. Progress(d)'
  <2> SUFFICES ASSUME Begun(d) PROVE Progress(d)'
    BY DEF Progress, Begun
  <2>1. /\ probe_length(d)' = probe_length(d) /\ slot_count(d)' = slot_count(d)
        /\ chunks(d)' = chunks(d)
    BY DEF probe_length, slot_count, chunks, remaining
  <2>2. \E v \in Versions : OfVersion(d, v)'
    BY <1>0 DEF Progress, OfVersion
  <2>3. \A j \in BusySlots(d)' : ChunkAgrees(d, slots[d][j])'
    <3> SUFFICES ASSUME NEW j \in BusySlots(d) PROVE ChunkAgrees(d, slots[d][j])'
      BY <1>6
    <3>1. j \in 1 .. n /\ ChunkAgrees(d, slots[d][j])
      BY <1>0, <1>1 DEF Progress, BusySlots
    <3>2. CASE j = i
      BY <1>2, <1>4, <3>1, <3>2 DEF ChunkAgrees
    <3>3. CASE j # i
      BY <1>2, <1>4, <3>1, <3>3 DEF ChunkAgrees
    <3> QED
      BY <3>2, <3>3
  <2>4. \A j \in 1 .. n : t[j].offset = slots[d][j].offset /\ t[j].length = slots[d][j].length
    BY <1>2
  <2>5. Accounted(d)'
    <3>1. BusySlots(d) \subseteq 1 .. n
      BY <1>1 DEF BusySlots
    <3> QED
      BY <1>0, <1>4, <1>6, <2>1, <2>4, <3>1 DEF Progress, Accounted
  <2>6. Counted(d)'
    BY <1>0, <1>1, <1>2, <1>4, <1>6, <2>1 DEF Progress, Counted
  <2> QED
    BY <2>2, <2>3, <2>5, <2>6 DEF Progress
<1>8. DestinationIsWhole'
  BY DEF DownloadInv, DestinationIsWhole
<1> QED
  BY <1>3, <1>4, <1>5, <1>7, <1>8, OtherCalls

LEMMA AnswerKeeps ==
  ASSUME DownloadInv, NEW d \in Downloads, NEW i \in 1 .. Parallelism[d], Answer(d, i)
  PROVE  DownloadInv'
<1>0. /\ i \in DOMAIN slots[d] /\ slots[d][i].batch = "waiting"
      /\ UNCHANGED <<object, destination, temporary, overwrite, hard_links, stage, summary,
                     next_chunk, active, cursor>>
  BY DEF Answer, Answered, AnsweredFailed, given
<1>1. slots[d] \in Seq(Slots) /\ object \in Versions
  BY DEF DownloadInv, DownloadTypeOK
<1>2. slots[d][i] \in Slots /\ Busy(slots[d][i])
  BY <1>0, <1>1, LenProperties, ElementOfSeq DEF Busy
<1>3. CASE Answered(d, i)
  <2> DEFINE u == [slots[d][i] EXCEPT !.batch = "done", !.bytes = object]
  <2>1. slots' = [slots EXCEPT ![d] = [slots[d] EXCEPT ![i] = u]]
        /\ slots[d][i].if_match \in {NoTag, object}
    BY <1>3 DEF Answered
  <2>2. /\ u \in Slots /\ Busy(u) /\ u.offset = slots[d][i].offset
        /\ u.length = slots[d][i].length /\ u.if_match = slots[d][i].if_match
        /\ u.bytes = object
    BY <1>1, <1>2 DEF Slots, Busy, Bytes
  <2> HIDE DEF u
  <2> QED
    BY <1>0, <1>1, <1>2, <2>1, <2>2, SlotChanges
<1>4. CASE AnsweredFailed(d, i)
  <2> DEFINE u == [slots[d][i] EXCEPT !.batch = "failed"]
  <2>1. slots' = [slots EXCEPT ![d] = [slots[d] EXCEPT ![i] = u]]
    BY <1>4 DEF AnsweredFailed
  <2>2. /\ u \in Slots /\ Busy(u) /\ u.offset = slots[d][i].offset
        /\ u.length = slots[d][i].length /\ u.if_match = slots[d][i].if_match
        /\ u.batch = "failed"
    BY <1>2 DEF Slots, Busy
  <2> HIDE DEF u
  <2> QED
    BY <1>0, <1>2, <2>1, <2>2, SlotChanges
<1> QED
  BY <1>3, <1>4 DEF Answer
-----------------------------------------------------------------------------
(***************************************************************************)
(* The invariant and what it shows.                                        *)
(***************************************************************************)
LEMMA DownloadInvInit == DownloadInit => DownloadInv
<1> SUFFICES ASSUME DownloadInit PROVE DownloadInv
  OBVIOUS
<1>1. DownloadTypeOK
  <2>1. <<>> \in Seq(Slots)
    BY EmptySeq
  <2> QED
    BY <2>1, ConstantFiles, ConstantRecords, VersionFacts DEF DownloadInit, DownloadTypeOK, Labels
<1>2. ASSUME NEW d \in Downloads
      PROVE  Names(d) /\ Progress(d)
  <2>1. stage[d] = "create" /\ temporary[d] = NoFile /\ destination = NoFile /\ d # NoCall
        /\ next_chunk[d] = 0 /\ slots[d] = <<>>
    BY DownloadAssumption DEF DownloadInit
  <2> QED
    BY <2>1, ConstantFiles DEF Names, Progress, Begun
<1>3. DestinationIsWhole
  BY ConstantFiles DEF DownloadInit, DestinationIsWhole
<1> QED
  BY <1>1, <1>2, <1>3 DEF DownloadInv

LEMMA StepKeeps ==
  ASSUME DownloadInv, NEW d \in Downloads, Step(d)
  PROVE  DownloadInv'
<1>1. CASE Create(d)
  BY <1>1, CreateKeeps
<1>2. CASE Probe(d)
  BY <1>2, ProbeKeeps
<1>3. CASE MakeSlots(d)
  BY <1>3, MakeSlotsKeeps
<1>4. CASE SubmitFirst(d)
  BY <1>4, SubmitFirstKeeps
<1>5. CASE PollNothing(d)
  BY <1>5, PollNothingKeeps
<1>6. CASE PollDone(d)
  BY <1>6, PollDoneKeeps
<1>7. CASE PublishOver(d) \/ PublishRename(d)
  BY <1>7, RenameKeeps DEF PublishOver, PublishRename
<1>8. CASE PublishLink(d)
  BY <1>8, PublishLinkKeeps
<1>9. CASE PublishUnlink(d)
  BY <1>9, PublishUnlinkKeeps
<1>10. CASE PublishCheck(d)
  BY <1>10, PublishCheckKeeps
<1>11. CASE Unwind(d)
  BY <1>11, UnwindKeeps
<1>12. CASE ProbeFails(d) \/ Cancelled(d) \/ SubmitFails(d) \/ PollFails(d) \/ PublishFails(d)
  BY <1>12, ReturnEarlyKeeps DEF ProbeFails, Cancelled, SubmitFails, PollFails, PublishFails
<1>13. CASE \E i \in DOMAIN slots[d] : FreeBatch(d, i) \/ FreeBuffer(d, i)
  BY <1>13, SlotDies
<1> QED
  BY <1>1, <1>2, <1>3, <1>4, <1>5, <1>6, <1>7, <1>8, <1>9, <1>10, <1>11, <1>12, <1>13 DEF Step

LEMMA DownloadInvStep == DownloadInv /\ [DownloadNext]_downloadVars => DownloadInv'
<1> SUFFICES ASSUME DownloadInv, [DownloadNext]_downloadVars PROVE DownloadInv'
  OBVIOUS
<1>1. ASSUME NEW d \in Downloads, Step(d) PROVE DownloadInv'
  BY <1>1, StepKeeps
<1>2. ASSUME NEW d \in Downloads, Kill(d) PROVE DownloadInv'
  BY <1>2, KillKeeps
<1>3. ASSUME NEW d \in Downloads, NEW i \in 1 .. Parallelism[d], Answer(d, i) PROVE DownloadInv'
  BY <1>3, AnswerKeeps
<1>4. CASE ReplaceObject \/ Appear \/ Over \/ UNCHANGED downloadVars
  BY <1>4, AroundKeeps DEF Over
<1> QED
  BY <1>1, <1>2, <1>3, <1>4 DEF DownloadNext

LEMMA DownloadInvAlways == DownloadSpec => []DownloadInv
BY DownloadInvInit, DownloadInvStep, PTL DEF DownloadSpec

(***************************************************************************)
(* What download publishes is whole, and of one version where the probe    *)
(* got a strong ETag, for every size of the object, chunk size and number  *)
(* of slots, however often the object is replaced while it is read.        *)
(***************************************************************************)
THEOREM PublishedIsWhole == DownloadSpec => []DestinationIsWhole
<1>1. DownloadInv => DestinationIsWhole
  BY DEF DownloadInv
<1> QED
  BY <1>1, DownloadInvAlways, PTL

(***************************************************************************)
(* A call of download that fails has not made the destination, at          *)
(* whichever step it fails, and although the removal of a temporary name   *)
(* that has been published, or not, may fail unnoticed.                    *)
(***************************************************************************)
THEOREM FailureIsClean == DownloadSpec => []FailedPublishedNothing
<1>1. DownloadInv => FailedPublishedNothing
  BY DEF DownloadInv, Names, FailedPublishedNothing
<1> QED
  BY <1>1, DownloadInvAlways, PTL

(***************************************************************************)
(* However a call returns, and with any number of slots whose batches are  *)
(* at any stage, the engine never reads into a buffer that is freed.       *)
(***************************************************************************)
THEOREM BuffersAreKept == DownloadSpec => []BuffersOutliveBatches
<1>1. ASSUME DownloadInv, NEW d \in Downloads, NEW i \in DOMAIN slots[d]
      PROVE  slots[d][i] \in Slots
  <2>1. slots[d] \in Seq(Slots)
    BY <1>1 DEF DownloadInv, DownloadTypeOK
  <2> QED
    BY <2>1, LenProperties, ElementOfSeq
<1>2. DownloadInv => BuffersOutliveBatches
  BY <1>1 DEF Slots, BuffersOutliveBatches
<1> QED
  BY <1>2, DownloadInvAlways, PTL

(***************************************************************************)
(* With hard links, publish replaces an existing destination for a call    *)
(* with overwrite only, however many calls and programs race for the name. *)
(***************************************************************************)
THEOREM ExistingIsKept == DownloadSpec => NeverReplaced
<1> DEFINE Allowed == hard_links /\ destination.there /\ destination' # destination =>
                          \E d \in overwrite : stage[d] = "publish" /\ stage'[d] = "ok"
<1>1. DownloadInv /\ [DownloadNext]_downloadVars => [Allowed]_downloadVars
  <2> SUFFICES ASSUME DownloadInv, DownloadNext, hard_links, destination.there, destination' # destination
               PROVE  \E d \in overwrite : stage[d] = "publish" /\ stage'[d] = "ok"
    OBVIOUS
  <2>1. PICK d \in Downloads : Step(d)
    BY DEF DownloadNext, Kill, Answer, Answered, AnsweredFailed, ReplaceObject, Appear, Over, downloadVars
  <2>2. PublishOver(d) \/ PublishLink(d) \/ PublishRename(d)
    BY <2>1 DEF Step, Create, Probe, ProbeFails, Cancelled, MakeSlots, SubmitFirst, SubmitFails,
                PollNothing, PollFails, PollDone, PublishUnlink, PublishCheck, PublishFails,
                FreeBatch, FreeBuffer, Unwind, ReturnEarly
  <2>3. PublishOver(d)
    BY <2>2 DEF PublishLink, PublishRename, DownloadInv, Names
  <2>4. stage \in [Downloads -> Labels]
    BY DEF DownloadInv, DownloadTypeOK
  <2>5. d \in overwrite /\ stage[d] = "publish" /\ stage'[d] = "ok"
    BY <2>3, <2>4 DEF PublishOver, Rename, Enter
  <2> QED
    BY <2>5
<1> QED
  BY <1>1, DownloadInvAlways, PTL DEF DownloadSpec, NeverReplaced
=============================================================================
