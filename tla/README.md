# A TLA+ verification of karu

karu reads byte ranges of local files and of objects behind HTTP, S3, GCS,
Azure and Hugging Face. A caller submits a *batch* of ranges to a *client*; an
*engine* of worker threads and libcurl I/O loops merges the ranges into
transfers, retries and resumes them, and reports one completion per range.
These modules model that machinery, `.cfg` files check it with TLC on small
instances, and eight modules of proofs show with TLAPS, for every value of the
constants, the safety of most of it: the engine and its contract, wake-ups, the
resolver, HTTP transfers, the credential cache, downloads, helper processes, the
client across `fork`, and the arithmetic of byte windows.

All paths below are relative to the repository; `PROJECT.json` maps every
definition to the lines it stands for, lists the hazards the properties are
aimed at, and gives each property a plausible bug that breaks it.

## 1. Inventory

| part | state | operations | module |
|---|---|---|---|
| engine (`runtime/engine.cpp`) | three queues, per-loop lists (`pending`, `resolving`, `retries`, `active`), `cancellation_pending`, `stop_` | `submit`, `cancel`, `file_loop`, `credential_loop`, `io_loop`, `stop_workers` | `Engine` |
| batch (`runtime/batch.cpp`, `karu.cpp`) | `live_transfers`, `pending_parts`, `ready`, `cancelled`, counters | `next`, `push`, `transfer_finished`, `karu_batch_free` | `Engine`, `BatchContract` |
| wake-up of loops (`engine.cpp`) | `http_backlog_`, `idle_loops_` | `queue_http`, `wake_idle_loops`, the end of `io_loop` | `IdleWake` |
| planner (`runtime/planner.cpp`) | the plan under construction | `plan_transfers` | `Planner` |
| copy of a body (`runtime/transport.cpp`) | `received`, `scatter_cursor`, buffers of the parts | `ensure_sink`, `store_payload`, `deliver` | `Scatter`, `PlanScatter` |
| HTTP transfer (`runtime/transport.cpp`, `http_response.cpp`, `engine.cpp`) | `resumed`, `resume_etag`, `received`, `skip`, flags of a response, budgets of attempts | `configure`, the callbacks, the verdict in `io_loop`, `plan_resume` | `HttpTransfer` |
| synchronous reads (`engine.cpp`, `transport.cpp`) | two requests on two threads, the caller's two buffers | `object_info`, `read_ends`, `get_range` | `ReadEnds` |
| host resolver (`runtime/resolver.cpp`) | hosts with addresses, queue, one detached thread | `entry`, `serve`, `stop` | `Resolver` |
| credential cache (`credential_cache.cpp`) | entries, loads in flight | `custom`, `native`, `invalidate` | `CredentialCache` |
| download (`download.cpp`, `platform.cpp`) | temporary file, slots with a chunk each, cursor | `download`, `OutputFile` | `Download` |
| client handle (`client.hpp`, `karu.cpp`) | the engine, its mutex, its owner's pid; of a batch, the pid that submitted it | `acquire_engine`, destructor, the batch calls of a forked child | `Client`; its use in `Engine` |
| submission out of memory (`engine.cpp`, `karu.cpp`) | queues and the batch of a `submit` that throws | `submit` | `SubmitFault` |
| helper processes (`process.cpp`) | pipe, child and its group, deadline, output | `run_command` on POSIX and Windows | `Process` |
| configuration (`config.cpp`) | three layers of options, rules per path prefix; immutable in a client | `set`, `set_path`, `freeze`, `option`, `scope_key` | `Config` |
| locators (`uri.cpp`) | none; a recursion over `/vsisubfile/` layers | `resolve` | `Locator` |
| credential sources and the request builder (`request_builder.cpp`, `backends/`) | none; what the configuration, files and servers say | `resolve_credentials`, the five loaders, `materialize_range` | `Providers` |

### How the parts interact

`karu_client_submit` calls the planner under no lock and then `Engine::submit`,
which counts the transfers and puts them into the queue of their backend: files
to file workers, cloud objects to credential workers (which call the credential
cache and pass the transfer on), the rest to `http_queue_`. I/O loops take from
`http_queue_`, ask the resolver for addresses, start a libcurl exchange, and judge
its end: deliver, retry, change region, or send the transfer back to the
credential workers. Callers receive completions with `karu_batch_next` and call
`karu_batch_free` at any time; it cancels and waits until no thread has a transfer
of the batch. The resolver's thread calls back into the loops; libcurl calls back
into the transfer. `download` is a client of the same API from the caller's thread,
after `read_ends` has given it the size and the ETag. A path given to any call is
resolved to an object and a window (`Locator`), looked up in the client's
configuration (`Config`), and signed by what the first answering credential source
returns (`Providers`), which may run a helper (`Process`); the credential cache
shares results among paths by the scope key that `Config` computes.

### What is hard about it, and what must hold

* **Ownership.** A transfer moves among three queues, four lists of a loop and
  the hands of a worker, and is finished, discarded or dropped in a dozen places.
  Buffers belong to the caller, who may free them when `karu_batch_free` has
  returned. No path may lose a transfer, count one twice, or free early.
* **Cancellation against everything.** `cancel` marks, scans two groups of queues
  one after the other, raises a flag per loop and waits, while workers are between
  the two.
* **Wake-ups.** A queue counter, a bit mask of idle loops and
  `curl_multi_wakeup` must not lose a wake-up.
* **Versions.** The object may be replaced between any two requests: a resumed
  read, the head and the tail, the chunks of a download must be of one version.
* **Servers** that ignore `Range` or `If-Match`, answer another range, break off,
  never answer, reject credentials or name another region.
* **Caches under concurrency.** Late results of loads and lookups, rejections
  between a load and its store, full maps, a detached thread that outlives the
  engine.
* **Arithmetic** at the ends of 64 bits, in windows of locators.
* **Files.** Two downloads and another program meet at one destination; the
  process may be killed between any two calls.
* **Processes.** A helper may hang, close its output or leave descendants with the
  pipe; a program may fork while its threads use a client, and the child has their
  locks without having them.
* **Precedence.** Which of many settings, files and servers decides for a request,
  when some of them fail half-way or are spelled differently.

## 2. Modules and their correspondence to the code

**`Engine`.** `place[t]` says where transfer `t` is and `owner[t]` which thread has
it: a `std::unique_ptr` is in one place at a time. What runs under one mutex
is one step; everything between two critical sections is separate (`SubmitCount`,
`SubmitQueue`, `SubmitHttp`; `CancelCheck`, `CancelMark`, `CancelQueues`,
`CancelHttp`, `CancelFlag`, `CancelReturn`). A loop goes through its phases
(`lpc`) as `io_loop` does, and `todo` is what a pass over a list has still to visit. `finish_transfer` is two or three steps (`FinishCount`, `Deliver`, `FinishDrop`), because a
caller can take a completion in between. Queues are sets, so everything holds for
every order of service. Bytes, statuses and clocks are left out: a deadline, an
allocation failure or an answer is a choice among the outcomes the code tells
apart.

**`BatchContract`** is the abstract specification: what a caller may rely on,
without threads. A range is completed at most once and only while the engine holds
the buffers, `KARU_END` means that everything has been received, and a batch is
destroyed only when the engine has let go. `Engine` implements it
(`ImplementsContract`) under the mapping at the end of the module.

**`IdleWake`** takes the accesses of `http_backlog_`, `idle_loops_` and
`curl_multi_wakeup` one by one. Polls have no time-out here, so what holds does not
rest on the 20, 50 or 200 ms after which the code polls again anyway.

**`Planner`** computes in `w`-bit arithmetic (`Add`, `Sub`), so that a wrap-around
is visible; its properties are stated in unbounded integers. `std::stable_sort` is
what it promises: `Sort` picks the arrangement of the ranges that is in order
(`Arrangements`, `Before`). **`Scatter`** copies chunks of any size into the parts
of a transfer, with `scatter_cursor`, interruptions and resumption; `scattered` tells,
as in the planner, whether the only part is the whole transfer. **`PlanScatter`** gives every plan that the planner
makes to the copying loop: nothing is assumed of a plan.

**`HttpTransfer`** follows one transfer through its exchanges: a byte is the
version and the position it was read from, a body arrives byte by byte, the object
is replaced at any moment and the server may answer any range of it. `succeeded` takes
every status from 200 to 299, as the code does; `OtherSuccess` are those, other than
200 and 206, that the server may use, for the whole object or for no body at all. They
take the code's path through `FirstByte`: no range to check, no restart, no skip.

**`ReadEnds`** runs up to three range requests (head, tail, and the tail again by
offset) with their retries. An answer is one step with the number of bytes that
arrive, whether it breaks off, and whether its headers fit.

**`Resolver`**, **`CredentialCache`** and **`Download`** have one process per thread
that calls, plus the resolver's thread, the server that rejects credentials,
another program at the destination, and the kill of the process. An early return of
`download` runs its destructors step by step, in the order of the members of `Slot`:
slot after slot frees its batch (`FreeBatch`), which the engine may fill until then, and
its buffer (`FreeBuffer`), and `~OutputFile` removes the temporary name, if it
can, last (`Unwind`).

**`Client`** takes `acquire_engine` access by access, because it replaces the
mutex and the engine before it holds a lock. Each process has its own copy of the
client's members and of the batch; `Fork` copies them and one thread. Objects on
the heap are named after the thread that made them, and a null or deleted object
that is used ends in `"crashed"`. Two assumptions are parameters: `QuietFork`
(nobody forks while another thread is in the first use of the client) and
`QuietChild` (a child starts threads after its own first use).

**`SubmitFault`** is `Engine` with one more step: a `push_back` of `submit` throws
when some of the transfers of the batch are queued.

**`Process`** has the loop of `run_command` as one actor and, as others, the shell,
a process of its group, one that has left the group, and one that another thread of
the program starts while the pipe is open for writing. They print, fork, close and
end as they like. `env` holds what the program cannot choose: the platform, whether
there is a time-out, whether `SIGCHLD` is ignored, whether the child is in a job.

**`Config`** keeps the layers and rules of the builder as the code does; `log` keeps
the accepted calls as they were written, so that lookups are compared with what the
caller said and not with another copy of the code. Paths are sequences of symbols,
since prefixes end at `/` or not at all. `PathsAssumption` says that a path that is
looked up does not begin with one of the words by which `scope_key` names a layer: it is
empty or the canonical URI of a remote object, which begins with a handler or a scheme.

**`Locator`** goes through the layers as the recursion does: inwards while they
parse, outwards while windows compose. `view` is the meaning: byte *k* of a subfile
is byte `offset + k` of what it is cut from.

**`Providers`** is one request in one *world*: the options set, whether the
environment may be used, a callback, and the credential file with its entries. Each
loader is a list of sources (`Chain`), each of which answers, fails or gives way.

The `MC*` modules give the constants of a small instance. `MCWaits`, `MCRanges`,
`MCRequests` and `MCSystem` put components that share no state into one run: the
variable `part` is chosen in the initial state and says which of them the behaviour
is about. The others stand still, in an initial or a final state in which no fair
step is enabled, so each property says of its component what it says alone.

## 3. Runs

| run | what it asks | bounds, and why they are enough |
|---|---|---|
| `engine_route` | `TypeOK`, `LiveCount`, `ImplementsContract`, `FreeReturns`, `EverythingCompletes`, `StopJoins` | one batch of a file, a cloud object and a range the plan rejects; one thread of each kind; 2 attempts. Every queue, refresh, retry, region change, refusal and cancellation happens, under fairness. |
| `engine_slot` | `PlacesAgree`, `SlotLimit`, `LastResultSeesCount`, `FreedIsReleased`, `WaitIsNoticed` | two batches on a loop with one slot, an S3 object and two merged ranges; both may be cancelled while the other one is under way; two attempts each, so that a transfer waits for its retry beside an active one. |
| `engine_silent_cloud` | `FreeNeedsNoServer` (violated, see findings) | the same instance with one attempt and servers that need not answer |
| `submit_fails` | `FreedIsReleased` (violated, see findings) | one batch of which one transfer is queued before the push that throws |
| `waits` | `NoLostWakeup`, `BacklogIsTaken` of `IdleWake` | two producers, loops with one and with two slots, up to 2 transfers per call and in all: two loops can be idle for one transfer, one for two. |
| | `LookedUpOnce`, `NoWakeAfterStop`, `WaitEnds` of `Resolver` | three hosts for a map of two, a transfer that starts again and again with any host; an answer is kept for 2 units, the first wait is 1. |
| | `SharedLoad`, `OnlyUsable`, `LookupEnds` of `CredentialCache` | two threads, a native path and a path of a callback below one prefix, a rejection, credentials without expiry, expired on arrival and expiring one unit later, while the clock goes on to 2, and three loads: the fewest in which a load is rejected in flight, its late result arrives, and another lookup follows. |
| `cache_siblings` | `RejectedNotReused` (violated, see findings) | two paths of a callback below one prefix |
| `system` | `AcceptedIsComplete`, `NothingLeftBehind`, `CommandReturns` of `Process` | a limit of one unit of output, reads of 2, a pipe of 3: output reaches the limit, passes it within a read and between reads, and a writer can be blocked; four other processes. |
| | `OwnEngine`, `StaleUntouched` of `Client` | two processes with two threads each, `QuietFork` and `QuietChild`: every race of the parent's threads, and of the child's after its first use. |
| | `DestinationIsWhole`, `FailedPublishedNothing`, `BuffersOutliveBatches`, `NeverReplaced`, `DownloadReturns` of `Download` | two calls for one destination; 6 bytes as a probe and three chunks on two slots or as one chunk; the object replaced by a shorter one without an ETag; with and without hard links; `unlink` and `remove` may fail. |
| `client_racing_child` | `OwnEngine` (violated, see findings) | the same without `QuietChild` |
| `ranges` | `WindowIsNested` of `Locator` | up to two layers around a fragment, every number of 2 bits and one that does not parse, objects of every size: offsets at, before and beyond the largest number in each layer; a third layer is one too many. |
| | `PlanIsSound`, `BytesInPlace` of `PlanScatter` | up to three ranges in 3-bit arithmetic: three are needed for a part inside another before a third, and 3 bits for ranges at, before and beyond the largest number; three settings of the limits, up to two retries. |
| | `EndsAreSound` of `ReadEnds` | two versions of one size, then a shorter one; buffers that are empty, overlap, meet or hold the whole window; windows that are empty, bounded (also beyond the end) and open; S3, Azure and files; 2 attempts. |
| `requests` | `LookupIsNearest`, `ScopeSharesValues` of `Config` | every sequence of three calls, the fewest in which a rule is made, another one overrides it and one of them is removed; one option with an alias, two spellings of one bucket, a directory in it and a bucket whose name begins alike. |
| | `EarlierSourceWins`, `OnlyAsAsked` of `Providers` | six backends, every combination of four options of the backend (a complete source, and what could override it) and of three with those all backends have, every state of the file with up to two entries, every answer of the servers. |
| | `OneVersion`, `ShortOnlyAtEnd`, `RequestsAreBounded` of `HttpTransfer` | versions of 5, 2 and 0 bytes, bytes 1–2 requested: one version ends after the range, one within it, and one is empty; 3 attempts, 2 replacements (there and back), every kind of `if_match`, fallback limits on both sides of the offset; a 203 beside 200 and 206. |
| `http_other_success` | `OkIsRequested` (violated, see findings) | the same object, one attempt, a server that may answer 203 |
| `http_empty_body` | `ContradictedIsRefused` (violated, see findings) | an `if_match` for the first version, one replacement, two attempts |

The engine runs have one loop: with two the state space is beyond TLC, and what
loops do to each other is the subject of `IdleWake` and, for the ownership of
transfers, of the proofs, which hold for any number of loops, workers and slots.

### Fairness

* `Engine`: the threads of karu run (weak fairness of each thread as a whole and
  of a call that has begun). `NetworkFairness`, in `FairSpec` only, says that an
  exchange ends: `configure` (`transport.cpp:838`) sets connect, low-speed and
  request time-outs. `SilentNetworkSpec` does without it. The resolver answers or
  is given up (`WaitEnds` of `Resolver`); a retry becomes due. `StopWorkers` comes when the
  client is gone and all batches are freed, since each of them owns a share of the engine
  (`karu.cpp:238`): threads are stopped (`StopJoins`) while they wait or poll, not in a lookup.
* `IdleWake`: threads run and transfers end; no time-out of a poll is used.
  `StopWorkers` waits for an empty engine: it comes when the batches have been freed,
  and a freed batch has no transfer (`FreedIsReleased`).
* `Resolver`: a waiting transfer asks again (weak fairness), and it goes on if it is
  able to again and again (strong fairness), because its loop asks every 20 ms whereas
  an answer is kept for a minute; a lookup need never return.
* `Process`: `run_command` takes its next step, and the deadline passes if there is
  one. Nothing is assumed of the helper: `CommandReturns` is about calls with a
  time-out.
* `CredentialCache`, `Download`: threads run, loads come back, and batches complete
  (`EverythingCompletes`).

`HttpTransfer`, `Client`, `Config`, `Locator`, `Providers`, `Planner`, `Scatter` and
`ReadEnds` are checked for safety only; that a transfer ends is
`RequestsAreBounded`, a bound on the requests it may send. Nobody is forced to call: submitting, receiving, freeing and destroying the client
stay optional.

### What the environment may do

In `HttpTransfer` and `ReadEnds` a server may ignore `Range` and `If-Match`, answer
with another range, a shorter body or an error, and leave out the ETag; in
`HttpTransfer` it may also answer with any other status of success. But a
server that ignores an `If-Match` that fails sends the ETag of what it sends, since
nothing could detect the replacement otherwise. An answer is of one version.
`EndsAreSound` compares versions that have a strong ETag, `DestinationIsWhole`
compares versions where the probe got one: without, the code can compare
sizes only.

## 4. Findings

* **`engine_silent_cloud`** A credential worker that has passed `is_cancelled`
  puts its transfer into `http_queue_` (`engine.cpp:375`) after `cancel` has scanned
  that queue. It is discarded only when a loop takes it, and a loop whose slots are
  held by unanswered requests of another batch takes nothing: `karu_batch_free`
  waits for somebody else's server, although `karu.h:300` promises to wait for
  active workers. With the time-outs of libcurl it does return (`FreeReturns`).
* **`cache_siblings`** `invalidate` marks the load of the rejected path only
  (`credential_cache.cpp:240`). A load for a sibling whose credentials come with a
  `cache_prefix` that contains both refills the entry that was rejected, which
  the comment at 227–228 says must not happen.
* **`client_racing_child`** In a forked child `acquire_engine` releases and replaces
  the mutex and the engine before it locks anything (`client.hpp:35`). Two threads of
  the child whose first uses overlap can delete each other's mutex or engine, or make
  two engines, although `karu.h:60` says that clients may be shared between threads
  and `how-karu-reads.html:465` that a child gets a fresh engine on first use.
* **`submit_fails`** A `push_back` that throws in `Engine::submit` (`engine.cpp:337`)
  leaves the transfers queued before it running, into buffers the caller has back:
  `karu_client_submit` returns `KARU_ERR_NOMEM` and no batch to free.
* **`http_other_success`** `succeeded` accepts every 2xx (`http_response.cpp:167-174`), but
  `write_callback` goes to the requested offset, or starts a resumed read again, for a
  200 only (`transport.cpp:291-304`). The whole object in a 203 is stored as if it began
  at the requested byte and reported as `KARU_OK`, although `how-karu-reads.html:206` says
  that OK means that the requested bytes arrived (and line 332 that a successful
  response must prove what it contains). An empty 204 is reported as a short read
  (`KARU_ERR_RANGE`) though the object goes on, against lines 355–356. `OneVersion` and
  `ShortOnlyAtEnd` therefore speak of the place of bytes, and of the end of the object,
  only for answers with 200 or 206, the two that `plan_resume` calls `data`; that the
  bytes are of one version holds for all.
* **`http_empty_body`** `contradicts_pin` is looked at when the first byte of a body arrives
  (`transport.cpp:282`). An object that has become empty has no such byte: if the server
  ignores the caller's `If-Match`, the read ends with `KARU_ERR_RANGE` and not, as
  `karu.h:268-269` says, with `KARU_ERR_PRECONDITION`. In a first attempt no byte is
  reported. A read that is resumed and answered by an empty 200 reports the bytes that it
  has kept of the version before: they are of one version (`OneVersion`), but not of
  the one whose end makes the read short, so `ShortOnlyAtEnd` asks this only of versions
  that are not empty.

Smaller things met on the way, not kept as runs:

* `~OutputFile` ignores a `remove` that fails (`platform.cpp:111-117`): the temporary file of
  a failed download then stays, whereas `karu.h:234` says that it is removed. No
  property asks for it; `FailedPublishedNothing` is about the destination.
* Without `QuietFork`, `StaleUntouched` fails: a child forked during another thread's
  first use finds `owner_pid` 0 (`client.hpp:29`), takes the inherited mutex for its
  own and waits for a thread that it does not have. Set `QuietFork = FALSE` to see it.
* `set_path` with a null value makes a rule for a new prefix (`config.cpp:295`). Lookups
  do not see the empty rule, `karu_client_matches_config` does.
* Azure fills fields that a callback left empty from the storage options
  (`azure.cpp:93-110`), so a SAS of the environment, alone or in a connection string, can
  take the place of the callback's bearer token. `EarlierSourceWins` allows it: nothing in the repository forbids it.
* A service principal without its secret gives way to managed identity
  (`azure_credentials.cpp:37`); `EarlierSourceWins` demands the principal only when it
  has a secret or a federated token.

## 5. What is proved

Every theorem has the form `Spec => []P` (or `Spec => P` for an action property and
the refinement) for a property `P` that a run checks, and holds for every instance that
satisfies the `ASSUME`s of the modules: finite sets of transfers and threads, at least
one slot, one attempt and one byte per chunk, a plan that belongs together. The
parameters of the runs do not matter. Each inductive invariant was checked with TLC on
the instance of the run before it was proved.

**`EngineProofs`**: `TypeCorrect`, `PlacesCorrect`, `LiveCountCorrect`, `FreeIsSafe`. None
is inductive alone. `FreedIsReleased` rests on the counter being exact when
`CancelReturn` sees zero, the counter on every step that drops a transfer finding
it where it believes it to be (otherwise it could be counted down twice), and that
on `PlacesAgree`. The inductive invariant is their conjunction,

    Inv == TypeOK /\ PlacesAgree /\ LiveCount /\ FreedIsReleased

The lemmas `LiveKept`, `LiveDropped`, `LiveDiscarded` and `LiveMoved` say what a step
does to the counter when no transfer, one, or several go or one moves;
`PlacesMoved`, `InvMoved` and `InvDiscarded` lift them to the invariant.

**`EngineBatchProofs`** builds on it.

* `LastResultIsCounted` and `ContractImplemented`: `ResultInv` adds that the results
  handed out and outstanding are the parts of the batch (`PartsCounted`), that a transfer
  delivers all of its parts in one step (`TransfersWhole`), that `transfers_finished` is
  exact up to the transfer between its count and its result (`FinishedCount`), and what
  cancellation and shutdown imply (`CancelAgrees`, `StopAgrees`). Under the mapping at
  the end of `Engine` the initial states are initial states of `BatchContract`, and each
  action is one of its actions or a stutter. `PlanAssumption` says that each transfer
  has a part: the planner makes a transfer only for a range.
* `SlotsKept` and `WaitNoticed`: `LoopInv`. `WaitIsNoticed` needs to know that `cancel` raises
  the flags after it marks, and that a loop that lowers its flag takes everything it has
  into the pass that follows.

**`WakeupsProofs`** (`IdleWake` and `Resolver`).

* `WakeupsAreNotLost`: the bits that producers have claimed, the bits in the mask and the
  loops that announce or poll are kept apart (`ClaimsAgree`, `BitsAgree`,
  `SleepersAgree`). `BacklogIsCovered` strengthens `NoLostWakeup` to a count: there are as
  many wake-ups on their way and loops about to look as the backlog needs, or nobody
  with room sleeps.
* `WorkerLeavesEngine`, `OneLookup`: the worker is in at most one step with at most one host
  (`WorkerAgrees`), and a host is in the queue once, exactly while it is marked
  (`QueueAgrees`); eviction takes no marked host.

**`RequestsProofs`** (`HttpTransfer`, `Providers` and `Config`): `VersionsNotMixed`, `ShortReadsEnd`, `RetriesEnd` from

    HttpInv == HttpTypeOK /\ Budget /\ Pinned /\ AnswerAgrees /\ BodyAgrees /\ Reported

`Pinned` says that what is kept between two attempts is of the version of `resume_etag`;
`AnswerAgrees`, what the headers of an accepted answer say of the version and range of its
body; `BodyAgrees`, that the buffer holds one version up to the bytes received, also in the
middle of a body, each byte in its place unless it came with a status other than 200 and 206;
`Budget`, that each of the two retries outside the retry budget is spent at most once.
`plan_resume` keeps no byte of such an answer, which is why those kept are always in
their places (`PlacedIsFrom`).

The same module proves `SourcesInOrder` and `NothingUnasked` of `Providers`, for any files,
options and answers. The properties speak of a request that has been sent; `ProvidersInv`
of one on its way: while a loader runs, each source before its position had nothing to
give, by what the world says of it (`Passed` in `Progress`), the credentials a request is
made with come from the callback or from the source where the loader stopped (`Origin`), and
a request that is not to be signed consults nothing (`Quiet`). `FilesAreFiles` says
that a file has entries only if it is there, and only those its loader reads.

`LookupSoundness` and `ScopeSoundness` of `Config` hold for any table of options, any
environment, values and paths, and any number of calls. The code looks at rules and
lengths of prefixes, the promise is about calls and directories, so the proof has
two halves.

* What the builder keeps is what was said: `LayersAgree` in `ConfigInv` says that the
  explicit layer and every rule have what the log last said of their scope, that no two
  rules have one prefix and none the empty one, and that each scope of a call has its rule.
  The last part is what makes a new rule right: nobody has spoken of its scope
  (`RuleIsMade`). `SaidAfter` says what one more call changes.
* A lookup finds what is kept: `MatchIsAbove` shows that `path_prefix_matches` accepts the
  directories above a path and nothing else, `LookupsAgree` that the longest prefix among
  the rules is the nearest directory of which something was said, since two
  directories above one path have different lengths. `SameScope` needs, in addition, that
  the prefix of a rule that matches is none of the words for the other layers
  (`ScopeNamesRule`, from `PathsAssumption`). Without it a path called `explicit` would
  have the scope of the global options.

**`CacheProofs`** (`CredentialCache`): `LoadsAreShared`, `UsableOnly`, `UnexpiredOnly`.
`LoadsAgree` ties the threads that load to the map of flights: a load that is not
invalidated is the one that the map has for its key. `Young` says of a rejected path that
nothing in the cache or in flight for it is older than the rejection. `UsableOnly` has one
hypothesis, `Apart`: no `cache_prefix` covers two paths with callbacks. It is the negation
of the finding `cache_siblings`, where `RejectedNotReused` fails.

**`ProcessesProofs`** (`Process` and `Client`).

* `CompleteOutput`, `CleanReturn`: `ShellAgrees` (what has become of the shell at each step
  of the loop), `PipeAgrees` (who can still write), `OutcomeAgrees` (what each result that is
  on its way out has seen).
* `EngineIsOwn`, `StaleIsUntouched`, under `QuietFork` and `QuietChild`. Without the second
  `OwnEngine` fails (`client_racing_child`), without the first `StaleUntouched` (section
  4). The invariant distinguishes a process that has still everything from its parent
  (`Inherited`), in which only the thread that forked runs, and one that has its own
  mutex (`Proper`), where what is held and made follows the steps of its threads.

**`DownloadProofs`** (`Download`): `PublishedIsWhole`, `FailureIsClean`, `BuffersAreKept`, and the action
property `ExistingIsKept`. `FailureIsClean` rests on `link`, the last step of a publication that can
fail, being the one that makes the destination, and on the owner of a file being the
call that made it; `BuffersAreKept`, on the order in which a slot is destroyed.
`DestinationIsWhole` says nothing of a file that is not yet published.
`Accounted` does: a byte that the chunks submitted so far reach has been written, or the chunk
of a busy slot has it. `Counted` adds that `active` is the number of busy slots and that a
slot is idle only when all chunks have been submitted; so when `active` is 0 (`Drained`)
the chunks reach the size of the object, which is the arithmetic of `RoundedUp`. `OfVersion`
and `ChunkAgrees` keep the ETag of the probe with the file and with each request. That the
file's first byte tells whether the probe had an ETag rests on the chunks beginning
behind the probe.

**`RangesProofs`** (`Locator`, `Planner`, `Scatter`, `PlanScatter`, for numbers of any width, and `ReadEnds`).

* `WindowsNest`: for any nesting and an object of any size, the window that `resolve`
  computes shows exactly the bytes the layers describe, and a URI is refused for its
  arithmetic only if it would have shown none. `WindowIsNested` says nothing of the layers
  that have still to be applied. The inductive invariant adds that every layer passed on
  the way in has been parsed, so that its numbers are at most the largest (`Parsed`), and
  that nothing has been applied before the innermost URI is reached (`Untouched`). The
  arithmetic is in `CutOfSelected`, for a window that fits, and `CutOfRefused`, for one that
  does not; `ApplyWindow` combines them for a layer and for the fragment.
* `PlansAreSound`, for any batch and any settings, from

      PlannerInv == PlannerTypeOK /\ Judged /\ Ordered /\ Served /\ Built

  `Judged` says that the accepted ranges are in `valid` once, `Served` that the parts of the
  transfers are the first `next` of these: no range is lost or served twice. `Ordered` and
  `Built` make the 64-bit sums the sums that are meant. A merged range never begins before
  its transfer, because the ranges are in order and of the same object; and the last byte
  never lies `MaxInt` beyond the first, because the merging loop refuses such a span, so
  the length of the transfer does not wrap to zero. `AcceptedFacts` and `RangeFacts` do
  the arithmetic of `validate`.
* `BytesFindTheirPlace`, for any plan that the planner makes, any chunks and any number of
  attempts, from `PlanInv`, which adds `ScatterInv`: parts come in the order of their
  offsets (`InOrder`), so the copying loop may stop at the first that begins behind
  the chunk (`VisitedFacts`); those before the cursor are full (`Behind`), so it may
  begin there (`AdvancedFacts`); and a file is in the scratch buffer, or in its only
  part, as far as it has been read (`FileBytes`). `FetchedTransfer` derives the order from
  `PlannerInv`: it is not assumed.
* `EndsSoundness`, for any windows, buffers, versions and answers, from

      EndsIInv == EndsTypeOK /\ Requested /\ Replies
                  /\ (at = "file tail" => HeadInPlace) /\ EndsAreSound

  `EndsAreSound` speaks of a call that has returned. `Replies` speaks of one request: a
  reply that `get_range` accepts is of one version, has that version's size, and has
  put all the bytes wanted into the buffer, or there were none to have
  (`OfOneVersion`), whatever a failed attempt had left there. `Requested` keeps the requests of
  each stage as the call and the first replies determine them, so that the last
  request is pinned to the ETag of the first replies and its bytes are those that the
  reported size puts at the end. For a file there are no versions: `HeadInPlace` carries
  the head over to the step that reads the tail.

Only model-checked: every liveness property (`FreeReturns`, `EverythingCompletes`,
`StopJoins`, `BacklogIsTaken`, `WaitEnds`, `LookupEnds`, `DownloadReturns`,
`CommandReturns`), because fairness and `ENABLED` are out of this prover's reach. Every invariant and every
action property of the passing runs is proved.

## 6. What is not modelled

* HTTP: redirects, transformed encodings, `Retry-After`, the text of errors, pools of
  curl handles, statistics other than `transfers_finished`, the choice among addresses
  of a host.
* Text: schemes, handlers and percent-encoding of URIs (a target is an object,
  malformed or unsupported), JSON, INI and XML, canonical requests, digests and the
  formatting of URLs. They have no state, and what they compute is a string.
* Configuration: ranges of numeric options, HTTP options, the lifetime of a
  credential callback (`set_provider`), `karu_client_matches_config`, and the lists of
  options that make up a provider's scope (`credential_options`): `ScopeSharesValues` is
  about the key of any list, not about the completeness of these.
* The Windows branches of `platform.cpp`, and everything around environment and paths.
* Reuse of process numbers: `client.hpp:30` recognises an owner and
  `process.cpp:340` a group by its number; a number is used once in the models.
* `fetch`, the versioned option structures and the copying of results in `karu.cpp`.
* The C++ wrapper, errors and text helpers, which keep nothing but a thread's last
  message.

`std::bad_alloc` is a failing outcome of its step; inside `Engine::submit` it is
`SubmitFault`.

## 7. Plan

Modules were written in the order of what a defect would cost: `Engine` with its
contract and proofs, `IdleWake`, `HttpTransfer`, `CredentialCache`, `Resolver`,
`Planner` and `Scatter`, `Download`, `ReadEnds`; then `Client`, `SubmitFault` and
`Process`; then `Config`, `Locator` with its proof, and `Providers`. What is left, in
this order:

1. `HttpTransfer` with `Retry-After`, redirects and transformed encodings.
2. `Config` with the lifetime of credential callbacks across builders and clients.
