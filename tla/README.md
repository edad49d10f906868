# A TLA+ model of moenotes-assets

`moenotes-assets` is a small service: it downloads a resource catalogue, lets
clients submit export tasks, runs each selected resource through a worker
process, publishes the result in a directory that an SQLite index names, and
can copy the published exports into a tree and upload that tree to an S3
bucket.  This directory holds TLA+ specifications of its concurrent core, the
TLC configurations that check them, and TLAPS proofs of the central results.
All paths below are relative to the repository; `service.rs` is
`src/service.rs` and so on.  `PROJECT.json` maps every definition to its lines
and lists runs, mutants, hazards and theorems.

## 1. Inventory

| Component | State | Operations | Talks to | Hard part |
|---|---|---|---|---|
| Shared work (`shared.rs`) | registry of Weak entries; per operation `users`, cancellation token, watch channel | `join`, `Waiter::drop`, `Lease` | called for downloads and for exports; spawns a producer | the destructor's two steps race with the next join |
| Task runner (`task_runner.rs`) | the `Task`, a `JoinSet`, the iterator of keys | `run` with its checkpoints | resources run in tasks of their own; the SQL pool | pool starvation, panics, cancellation at the end |
| Task service (`service.rs`: `new_task`, `submit_*`, `finish_task`, `stop`, `cancel`, `App::open`) | queue permits, `cancellations`, `unpersisted_tasks`, table `tasks` | submit, cancel, stop, recover | HTTP handlers; the runner | every exit returns permit and token; crash at any point |
| Export store (`service.rs`: `export_one`, `PendingPublication`, `App::open`) | `resource_locks`, `tmp/`, `exports/`, table `exports` | publish, clean up, recover | a producer of shared work | rename, sync and COMMIT against crash and power failure |
| Limits (`service.rs`: `Budget`, semaphores, `download`) | byte counter, download slots, video and worker permits, payloads | reserve, release by destructors | all exports compete | leaks, circular waits, shared payloads |
| Upload (`upload.rs`) | the bucket, attempts, journal | `put`, `verify`, `upload_object`, `upload` | an S3 endpoint | a PUT given up may arrive later |
| Catalogue refresh, snapshot cache (`service.rs`) | `refresh_lock`, `catalogs/`, table `snapshots`, cache of eight | `refresh`, `snapshot` | CDN | cancellation, two refreshes, crash between file and row |
| Catalogue (`catalog.rs`) | work lists of two searches | `parse`, `resolve`, `closure_from` | the plan, the preflight | cycles and sharing of dependencies |
| Plan (`plan.rs`) | none (pure) | `build`, `validate`, `disposition` | preflight, execution, worker | three places decide from it and must agree |
| Tree export (`tree.rs`) | the destination tree, its index and lock | `export_profile` | reads the index of exports; `upload` reads the tree | a run that stops between copy and index |
| Child processes (`diagnostics.rs`, `export_one`, `main.rs`) | process groups, pipes, bounded buffers | `capture`, `inspect_tool`, the exec wrappers, `Capture::append` | worker, ffmpeg and ffprobe | orphans, full pipes, deadlines, limits at chunk boundaries |
| Media demultiplexer (`usm.rs`) | streams with header, data and end | `extract` | the worker | streams interleave in one file |
| Worker, converters (`worker.rs`, `split_acb.rs`, `embedded.rs`, `adx.rs`) | sources still to convert, one output directory, temporary files | `run`, `unity_object`, `cri`, `usm_video`, `Output::add`, `worker_entry` | spawned by `export_one`, which reads its result; runs ffmpeg | conversions share names and one budget; the encoder stops at a cap; every part of every source must come out |
| Ciphers, checksums (`crypto.rs`) | none (pure) | `decrypt`, `bundle_crc`, `digest` | downloads, worker | chunks that cross the encrypted prefix |
| Configuration (`config.rs`) | none | `validate`, URLs, environment | everything | relations between limits |
| Routes and command line (`service.rs`, `main.rs`, `lib.rs`) | none | parse requests, serve files | | |

What makes each correct:

- *Shared work*: one live operation per key, cancelled only when nobody holds
  it; whoever was not cancelled never hears "cancelled"; nobody waits for ever.
- *Tasks*: one result per selected key and a verdict that agrees with them on
  every path; finished rows never change; permits and tokens balance; accepted
  tasks finish, interrupted ones are closed by the next start.
- *Store*: the index names only complete directories; an answered export stays.
- *Limits*: the budget counts exactly what is reserved; leased payloads stay;
  no circular wait.
- *Upload*: the manifest comes after all its objects; a success is true.
- *Snapshots*: one current catalogue, never an older over a newer; users of a
  snapshot share one parsed copy, and at most eight exist.
- *Tree*: the index lists what is there with its content; no run overwrites; an
  interrupted run can be repeated.
- *Child processes*: nothing of a child outlives the call or a dead caller;
  captured output is exact or refused; a full pipe blocks nobody.
- *Catalogue and plan*: exactly what can be reached is parsed and downloaded;
  what the preflight promises, the export accepts.
- *Demultiplexer*: exactly the whole files are accepted, each stream unmasked as
  its own header says.
- *Worker*: what is published is every part of every source, made from its own
  source and whole; a job fails only with a reason; different artifacts have
  different names.
- *Configuration*: what `validate` accepts leaves room for one export and lets
  every export end.

## 2. Modules

| Module | Models | EXTENDS | Checked through |
|---|---|---|---|
| `SharedPromise` | what `join` promises, without counters, tokens, locks or channels | | `SharedWork` implements it |
| `SharedWork` | `shared.rs` step by step | | `MCSharedWork` |
| `SharedWork_proofs` | proofs about it, the refinement included | `SharedWork` | TLAPS |
| `TaskRunner` | `task_runner::run`, its resources, the SQL pool | | through `TaskService` |
| `TaskService` | the life of tasks around the runner, crash and recovery | `TaskRunner` | `MCTaskService` |
| `TaskService_proofs` | proofs about it | `TaskService` | TLAPS |
| `PublishedStore` | what publication promises: a store that is written once | | `ExportStore` implements it |
| `ExportStore` | publication of exports, crash and recovery | | `MCExportStore` |
| `ExportStore_proofs` | proofs about it, the refinement included | `ExportStore` | TLAPS |
| `ExportExit` | the store when the runtime is dropped instead of killed | `ExportStore` | `MCExportExit` |
| `ResourceLimits` | valid configurations; budget, slots, permits; shared payloads, chunk by chunk | | `MCResourceLimits` |
| `ResourceLimits_proofs` | proofs about it | `ResourceLimits` | TLAPS |
| `Upload` | `upload.rs` against a bucket with late requests | | `MCUpload` |
| `Snapshots` | catalogue refreshes and the cache of parsed catalogues | | `MCSnapshots` |
| `ExportTree` | `tree.rs`: runs over one tree, cut short anywhere | | `MCExportTree` |
| `Trees_proofs` | proofs about `Upload` and `ExportTree` | both | TLAPS |
| `ChildProcess` | the three ways a child is run, its tools, pipes and wrappers | | `MCChildProcess` |
| `ChildProcess_proofs` | proofs about it | `ChildProcess` | TLAPS |
| `Catalog` | the searches of `parse` and `closure_from` | | `MCPlan` |
| `Plan` | `resolve`, `plan.rs`, the preflight's status, the worker's checks of its job | `Catalog` | `MCPlan` |
| `Catalogue_proofs` | proofs about `Snapshots`, `Catalog` and `Plan` | `Snapshots`, `Plan` | TLAPS |
| `UsmDemux` | the stream protocol of `usm.rs` | | through `Worker` |
| `Worker` | a job of the worker process and its parent's reading of the result | `UsmDemux` | `MCWorker` |
| `Worker_proofs` | proofs about it and the demultiplexer in it | `Worker` | TLAPS |

How the modules fit together.  `TaskRunner` has no specification of its own:
`TaskService` supplies the steps that start, cancel, save and recover a task.
One resource of a task calls `export_shared`, that is a `join` of `SharedWork`
whose producer is an execution of `ExportStore`; inside the gate of the store
it passes through `ResourceLimits`, where downloads are shared in the way
`SharedPromise` states.  Because each of them sees the other only through that
interface, they are checked apart: `ExportStore` treats building as one step,
`ResourceLimits` treats publication as one step, and both let every producer be
cancelled at any await.  What an export downloads is the `Plan` of its request,
on a catalogue that `Snapshots` keeps; the build itself is a `ChildProcess` of
kind "worker", whose tools are children in turn.  `Worker` is what goes on in
that process; it extends `UsmDemux`, whose steps read a USM file chunk by chunk
where the job has one.  `ExportTree` reads the rows that `ExportStore` commits,
and `Upload` the index that `ExportTree` writes.  Both hold `_meta/tree.lock`, so
an upload never meets a run that goes on, only one that was cut short:
`IndexIsTrue` holds at every moment, so at that one too.

In several modules an operator marked `broken` stands before one that models
code.  It is never used by the specification; it is the deliberately wrong
variant that `PROJECT.json` pairs with a property the variant would violate.

### Correspondence of state and steps

`SharedWork`.  A caller's `pc` is its place in `join`: `locked` is the critical
section of the registry mutex, `attached` the moment between registration and
`subscribe`, `checking` and `waiting` the loop around `changed()`, `leased` the
use of the result, `leaving` and `cancelling` the two steps of `Waiter::drop`
(`fetch_sub`, then `cancel`).  `registry` holds Weak entries: an entry may name
a dead operation, and the identifier of an operation is reused only when no
entry names it, as an address would be.  The producer's end (the token's
`select!`) and the publication of its result are separate steps.

`TaskRunner`, `TaskService`.  `at` is the control point of a task's
coordinator; `task` its record in memory, `row` the one in the database.  A
resource moves by itself (`ItemStep`), may hold one of `DbConnections`, and
ends with a result, an error, its own cancellation or a panic.  A checkpoint
needs a free connection.  Every save may fail.  A client sends one of `Requests`:
keys by name, in disorder and repeatedly, or a prefix; `Selection` is what
`submit_export` makes of it, and the history variable `asked` keeps what the
client meant, so that results are compared with the request and not with the
task's own list.  `Disconnect` drops the handler
between the two halves of `new_task`.  `ProcessEnds` is both the crash and the
exit after `stop()`; it forgets everything but `row`.  `Open`, `Recover` and
`Opened` are `App::open`, one row at a time, and may themselves be interrupted.

`ExportStore`.  `exports` and `row` are what a reader would find; `outSynced`
and `entrySynced` say what would survive a power failure, `torn` which
directories did not.  A crash keeps the file system; a power failure may tear
what was not synced.  Gates are the `Weak` mutexes of `resource_locks`: they
exist as long as somebody has them.  `Cleanup` is the destructor of
`PendingPublication`, which may fail.

`ResourceLimits`.  `config` is any configuration that `Valid`, the model of
`Config::validate`, accepts.  `used` is `Budget.used`; semaphores are counts of
who holds them; an operation is a download with the exports that hold it.  `End`
is the drop of an export's future with everything it owns.  `payload` is the file
of a download: a byte is its position together with the positions of the
keystream it was combined with, so that a byte decrypted twice, not at all or
with the keystream of another offset is told from a clear one.  `Receive` takes
any number of the bytes that are left, as a chunk of the response body may.

`Upload`.  `step` and `attempt` follow `upload_object` for each key of each
upload.  A request that is given up (`AttemptFails`, `Crash`) goes to `late`,
from which it may arrive at any later time.  `Matches` is the full GET.

`Snapshots`.  `stage` is the control point of a refresh, `pc` that of a user of
`snapshot()`; `cacheLock` is held across the load of a catalogue.  A snapshot id
is the digest of the catalogue, so a version stands for it.

`ExportTree`.  The preflight decides in one step, because nobody else writes the
tree and the lock is held; every file and every index is a step.  `Stop` is an
error or the death of the process, which releases the lock file.  `resumable` is
a history variable: what the last run that began to write had chosen.

`ChildProcess`.  `proc` takes a wrapped process through its `getppid`, `prctl`,
`getppid` and exec; `Die` applies the parent-death signal.  Bytes are numbered,
so that a capture can be compared with what was written.  `Write`, `Exit`, `Die`
and the like stand for kernel and children and are marked external.

`Catalog`, `Plan`.  The two loops are actions whose order of work is free; the
plan is a set of operators on their result, as the code is a pure function.

`UsmDemux`.  A chunk is a part of a stream; `parts` is the file as read so far.

`Worker`.  `todo` is what `run` has still to convert: a unit that holds others (a
wrapper, an atlas, an ACB) is replaced by them, the way the code calls
`unity_object` and `cri` in nested loops.  `files`, `written` and `output` are
`Output` and its directory; `temp` the files beside it, each with the source it
was made from, since conversions of a job reuse their names.  `current` is the
conversion between `path()` and `add()`.  A source carries as a flag what is
malformed in it; the checks of an AWB's offsets, which decide what bytes a wave
is made of, are written out.  `Encode` gives an output any size, and cuts it at
ffmpeg's `-fs` without an error.  `ReadResult` is the second half of
`export_one`'s build, with its own limits.

## 3. Runs

Sizes are distinct states; all runs but `ExportExit` and `WorkerNames` complete
without error.

| Run | Instance | States | Question |
|---|---|---|---|
| `SharedWork` | 2 callers, 1 key, 2 operations, fairness | 45,348 | single flight, no foreign cancellation, refinement of `SharedPromise`; no lost wakeup, hanging producers, abandoned work is told |
| `TaskService` | 1 task, an export of up to 4 keys or a refresh, at most 3 keys a task, checkpoint every 2, 1 connection, 2 ends of the process, fairness | 101,101 | results of what was asked for, verdict, final rows, progress, permits and tokens, termination |
| `ExportStore` | 3 producers of one id, 2 ends, fairness | 415,095 | index against directories; gate; strays; refinement of `PublishedStore`; every producer ends |
| `ExportExit` | 2 producers, 1 exit | violation | see findings |
| `ResourceLimits` | 3 exports, 3 locations of 1, 1 and 3 bytes, 8 configurations of which 3 are valid, fairness | 56,024 | exact bytes and room for one, whole and clear payloads, no circular wait |
| `Upload` | 1 upload started twice, 2 trees, 2 objects, 3 attempts, fairness | 68,765 | manifest last, truth of success, an upload ends |
| `Snapshots` | 2 refreshes, 3 versions, 3 users, cache of 2, 1 crash | 421,163 | one current snapshot, the latest; shared copies |
| `ExportTree` | 3 runs, 5 exports, 4 selections | 400,677 | true index, stable names, complete success, repeatable runs |
| `ChildProcess` | one child of each kind, 2 tools, pipe of 2, fairness | 25,218 | process groups, exact capture, no caller kept |
| `Plan` | graphs of 4 locations (2 assets, 2 containers), 8 requests | 1.42 million | closure against reachability; preflight, plan and worker agree |
| `Worker` | jobs of every kind, sizes 1 and 3 of a budget of 5, at most 4 files; USM files of 4 streams in 3 shapes | 573,408 | whole files are accepted, what is published is complete, failures have a reason |
| `WorkerNames` | 3 jobs with an ACB or a masked video | violation | see findings |

Why the bounds are enough.  A race of `shared.rs` needs a caller that leaves,
one that found the operation, and one that comes after; the callers of the model
come back, so two are enough, with an old and a new operation.  One key suffices
because keys meet only in the mutex, and the proofs have any number of all three.
One task is enough where tasks meet only in the queue, whose accounting is proved
for any number of them; three keys with a checkpoint every two give a checkpoint in the middle, a
resource in flight behind it and a key not yet started, and a fourth key is the
one that a prefix matches beyond the limit; one connection makes starvation
possible at once.  Two ends of the process interrupt the recovery
too.  Three producers give one that publishes, one that waits for the gate and
one that comes when the lock may be gone.  In `ResourceLimits`, one location is
shared, one video permit is contended, and all payloads together leave no room
to run; of the configurations one has zero permits, others too small a volume, and
the longest body reaches beyond the encrypted prefix.  In `Upload`, two trees disagree on one object and only one of them has
the other; two starts are what it takes for a late PUT of one to meet the other.
Concurrent uploads are covered by the proof.  In `Snapshots`, two refreshes and
three versions let one fetch before and commit after the other; three users are
one more than the cache holds.  In `ExportTree`, the exports are two versions of
a key, two files that differ in case only, a directory that does, and an empty
export; a third run sees what two have left.  In `ChildProcess`, children write
more than a pipe, a buffer and a limit hold.  In `Plan`, two containers give
cycles, shared and missing media, and two assets give aliases.  In `Worker`,
the shapes of a USM file are three whole streams, two videos beside the beginning
of another stream, and one chunk more than the budget has bytes; the other
containers are given with their streams, so that jobs of two containers, of ACBs
with every small table of offsets, of atlases, wrappers and archives stay small.
Two sizes make outputs that fit, that end exactly at the budget and that exceed
it; five sprites are one file too many for the worker, four one too many for its
parent.

Bounds that are not the code's: `MaxStops` (ends of the process), `MaxRuns`
(starts of an upload), `MaxVersion`, `Shapes` (chunks of a USM file), `Jobs`,
`Sizes` (of outputs), `Configs`, `Requests`, `Amounts` (bytes a child
writes), the sets of callers, operations, tasks, producers, refreshes, users,
runs and of catalogue files.  Smaller than in the code: the checkpoint interval
(20), the keys of a task (`max_keys`), the files of a job (10,000), the encrypted
prefix (16 KiB), the connections (4), the cached snapshots (8), the tracks of a USM file
(3), buffers, pipes and sizes.

Deadlock.  `SharedWork` is checked for deadlock.  The other systems may stop:
tasks, producers, exports, uploads, refreshes, runs, jobs and children are finite.

Fairness.  Weak fairness of the steps that the tokio runtime polls, and of ends
that a time limit of the code enforces: the request and worker time limits
(`config.rs`), the timeout of the S3 client.  tokio's semaphores are fair, and
an export that waits keeps waiting, so weak fairness of its step is enough: it
is asserted for "some step of this export", never for the choice of one
outcome.  No client has to submit, cancel or stop; no process has to crash or
to restart; a bucket owes nothing; a producer in `SharedWork` may hang (only
`Answered` assumes, in the property itself, that producers end).  In
`ChildProcess` the kernel runs what can run and a deadline expires; a worker or a
probe may hang for ever, and so may what it writes; only a tool of `capture`,
which has no deadline of its own, is assumed to do its work.

### Findings

`ExportExit` is expected to fail.  When `stop()` has waited its 15 seconds it
returns although exports are under way; `block_on` returns and the runtime
drops `export_one` at `tx.commit().await`.  `PendingPublication` is still armed
and removes `exports/<id>`, while the thread of the SQLite connection completes
the COMMIT.  From then on the index names an export without files, which is
never rebuilt.  A comment (`service.rs:194`) and `docs/API.md:46` say otherwise.

`WorkerNames` is expected to fail.  The identity of a wave is the digest of the
cue ids that play it (`worker.rs:532`), and its label the name of the first of
them.  When one cue plays two waves, two artifacts have the same label and
identity.  `docs/EXPORT.md:49` promises a suffix that is stable and identifies the
physical waveform.  Such an export is published, but `export-tree` refuses it as a
collision (`tree.rs:303`), and with it every selection that contains it.

Not a finding, since no document promises a number: a worker reserves
`output_bytes + 2 * expanded_bytes` (`service.rs:851`), but a wrapped USM file with
sound has its payload, its streams and its decoded sound at once, each limited by
`expanded_bytes`.  The reservation is an estimate; the check of free space beside
it and the file size limit of the worker stand behind it.

The proofs about `ExportStore` hold for crashes and power failures, where no
destructor runs; `ExportExit` shows what the orderly exit adds.

## 4. Proofs

TLAPS checks eight proof modules, for every value of the constants that
satisfies the ASSUMEs of the modules.  Each follows the same plan: an inductive
invariant, stated in the component's module as a conjunction of named parts and
checked by TLC before it was proved (that of `Worker` stands in its proof module); a lemma for `Init`; one lemma per action (or
per side of the system); one for `Next`; and temporal theorems from which the
named properties follow.  All safety invariants and action properties of the
passing runs are proved.

`Trees_proofs` and `Catalogue_proofs` hold the proofs of two components each that
belong together: a tree and its upload, a catalogue's snapshots and its searches.
These modules extend both components, so `ExportTree` and `Catalog` name their
state and specification `treeVars`, `TreeSpec`, `catalogVars`, `CatalogSpec` and so on.
Nothing is composed there: each theorem is about one specification.

Assumed of the constants: finitely many callers, tasks, users, exports, locations,
operations, ids of a catalogue file and streams; sentinel values distinct from
real ones; positive limits.  `KeyOrder` lists every key once, as the sorted names of
a catalogue do.  What the key tables and dependencies of a catalogue file name can
be read (a file where it cannot be is refused by the reader as malformed).  There is one more copy to parse into than users and cache entries can
hold.  Streams carry one of the three signatures the code knows.  A job of the
worker has inputs and objects of the shapes `JobShape` lists: sequences of records,
of which an ACB has finitely many tracks and one offset more than waves, as its table
says; a USM file that is not read chunk by chunk has a video, as `VideoFound` shows of
those that are; and the name of a USM source is that of the object which holds it, so
two wrappers have two.

*`SharedWork_proofs`.*  `UsersCounted` alone is not inductive: between lookup
and join another caller may leave.  `LockInv` says that what was looked up is
still what the registry names, because only the lock's owner changes entries;
`RegistryInv` that an operation with users is the one its key's entry names,
which gives `SingleFlight`; `OutcomeInv` that only an operation without users
is cancelled, and only a cancelled one reports it.  `HeldIsNotCancelled` and
`CancelledIsOwn` follow: `fetch_update(n > 0)` never revives an operation whose
counter was zero.  `SharedWorkRefines` maps every step to a step of
`SharedPromise` or a stutter; holders are the callers that own a `Waiter`.

*`TaskService_proofs`.*  `QueueAlwaysAccounted` is inductive with the types of
`ControlInv`: each step of a task moves it into or out of `Live` and the permits
by one, or neither (`PermitsFollow`).  `FinishedStaysFinal` needs more.  `RowInv`
says that whoever may still write a row finds it unfinished, `RecordInv` that what
a coordinator writes before the end is unfinished too: a task whose checkpoint or
start could not be saved has failed already and must not be saved again by the
loop, which holds because `CheckpointDue` looks at the error.  A recovery meets no
live coordinator, which is the last part of `ControlInv`.

`KeysAlwaysAccounted`, `VerdictAlwaysMatches` and `ProgressAlwaysKept` are about
what a record says, and need a second invariant, `AccountInv`: `MemoryFits` says,
point by point of the coordinator, that results, resources in flight and keys not
yet started are disjoint, without repetition, and together the selection, which is
what was asked; `StoreFits` says of a row that it names the same keys, and that its
results are a prefix of those in memory as long as these can still be saved.  `Chosen`, which picks the keys a
prefix matches, is a recursive function; that it lists each of them once is shown
by the least position at which it would not.

*`ExportStore_proofs`.*  `GateInv`: all producers of an id that are running
have one lock, and who is inside owns it; so a producer is alone with its
directory.  `PublicationInv`: what is published and not yet indexed belongs to
its producer and was synced before.  `IndexedIsSynced` makes `IndexedIsComplete`
survive a power failure.  `PublishedStaysFinal` is the action property.
`NeverStrays` needs `StrayInv`: in a process that is up, a directory without a row
is the damage of a power failure or belongs to a producer that is still publishing
it, and a temporary one to a producer that is active.
`ExportStoreRefines` maps what a reader finds (`Content`: the directory, if the index
names it, it is there and whole) to the content of `PublishedStore`.  By `IInv` that is
the row, so only `Commit` publishes; `AnswerInv` says that whoever's row is there is past
the commit and cannot fail any more, and that who has not come to its end has not answered.
The token is looked at before the rename for the last time, so an execution can be
cancelled and publish; what it cannot do is publish and answer that it was cancelled.

*`Trees_proofs`.*  For the upload, the bucket only grows (`Grows`), so verified
objects stay (`VerifiedStays`).  `ManifestsSentAreComplete` is the strengthening
that makes `ManifestIsLast` inductive: it covers the manifests still under way or
late, which arrive long after their upload failed or died.  For the tree, `LockInv`
says that only the run that holds the lock is at work; `RunInv` that its index in
memory is the one on disk but for the empty exports it has chosen, and that all it
has chosen is recorded there or still to be placed or recorded; `AcceptInv` that
the preflight of the last run that began to write would succeed now, at every step
of that run too, which is also why nothing it places meets another content
(`NamesAlwaysStable`).  `AcceptInv` is inductive because no step places anything that
was not chosen, and a run that is refused changes nothing.

*`Catalogue_proofs`.*  `CurrentAlwaysLatest` needs `RefreshInv`: what a refresh has
downloaded it downloaded under `refresh_lock`, so nobody has committed since.
`CatalogsAlwaysShared` needs `CacheInv`: who uses a snapshot keeps its entry, and
who loads one has made room and keeps others out.  For the searches, `Explored`
is the loop invariant of a graph search (what was visited can be reached; the
successors of what was visited are visited or in the work list), from which
`ClosureAlwaysReachable` follows when the list is empty.  `PlansAlwaysCarriedOut`
adds a case distinction over `disposition`, the status of the preflight and the
checks of the worker, on a closure known to be the right one.

*`ResourceLimits_proofs`.*  `UsedInv` equates the counter with the bytes reserved by
what is under way, a sum over operations and exports.  What a sum over a set adds
up to is induction over data, but a sum of natural numbers is the cardinality of
the set of its units (`SumIsWeight`, by well-founded induction from a least
counterexample), about which the library has theorems; from there on, a step adds
or removes the units of one operation.
`SharingInv` and `CollectedInv` say whose payloads are where, `PayloadInv` what of
a payload is written and decrypted at each phase, for any split into chunks.

*`ChildProcess_proofs`.*  `GroupInv` says for each point of the caller who must be
gone by then, `StatusInv` that a child that ended well has written all it
had to, `PipeInv` that what was written has been read or is in the pipe in its order,
`EndedInv` that an answer is given only after the end of both pipes.

*`Worker_proofs`.*  `DemuxIInv` relates the flags the extraction keeps of
a stream to the history of its parts (`StreamInv`).  `OnlyTheseFollow` is the heart: the
checks of a part are exactly those which leave it possible that the file becomes whole.
The theorem is about the specification of `Worker`, whose other steps
leave the extraction alone or start it again.

`PublishedIsComplete` and `FailsWithReason` say something of the end of a job only.
`WorkerInv` says what they need at every point before it.  With `Becomes(u)` for the
outputs one unit of the job must give, `Between(k)` says that the files made so far hold exactly
`Flat(k)`, the outputs of the first `k` units, and that `todo` is the units after
them; `Holds(k)`, that unit `k` is the container it was unwrapped to;
`Leaves(k, j)`, that `j` of its waves or sprites are made and the others stand before
the rest of the job; `Split(k, done)`, that its streams are
extracted into temporary files which come from this container; `Making(k)`, that the
tracks under conversion hold what the next file must hold.  `Encoded` says of an
output that is not counted yet that it is whole, or that more was `wanted` than the
budget, which is what makes the encoder's cap harmless: an output cut short for
its cap is refused by `Check` or never counted, or lost no more than a tail
of audio that the code tolerates.  `Passed(u)` keeps what is known of the units that are done,
for the soundness of the whole is judged at the end.  `FilesInv` equates
`Output.total` with the sizes of the artifacts, whose paths differ because each
begins with its number; `VideoFound` says that an accepted file has a video.

There is one lemma for each action (`ConvertKeeps`, `KeepKeeps`, ...), by the place in the job the
action starts from (`ToLeaves`, `LeafDone`, `UnitDone`: how one place leads to the
next) and by what it does to the files (`Added`, `Produced`).  Where an action fails,
`UnsoundStays`, `UnsoundLeaf` or `NoRoom` gives the reason and `Fails` the rest.  They rest on
lemmas about sequences (`FlattenMore`: one more part is appended to what is
flattened; by a least counterexample, since there is no induction over data), about
`Total` (`TotalMore`: a sum of sizes is the number of bytes, to which a file adds
its own) and about the alignment of offsets: `AcceptedIsSliced` is the
arithmetic of `check_awb_references`, that offsets in order above the aligned starts
leave no byte to two waves.

Only model-checked:

- all liveness: fairness and ENABLED are beyond the prover (`Answered`,
  `CancelledReturns`, `AbandonedIsCancelled`, `AcceptedFinishes`,
  `InterruptedIsClosed`, `ProducersEnd`, `UploadEnds`, `ExportsEnd`, `ProcessesEnd`).

## 5. Abstractions

Left out on purpose: contents (a directory is named by who made it, an object
by a content value), wording of errors, logging, diagnostics attached to
results, progress fields that no decision reads, sqlx's acquire timeout (so
starvation shows as a task that never ends), the free-space check beside the
budget (one more way a step fails), S3 request signing, and file names.  A
COMMIT that reports an error is taken to have had no effect.  The bucket is
external: it honours `If-None-Match` and reads its own writes, and only uploads
write manifests.

In `ChildProcess` no process id is used again between the wait and the signal to
its group, and no tool leaves its group; init is not the parent of a worker that
runs normally.  In `ExportTree` a crash is that of the process: what a power
failure leaves of a tree is not modelled, since the code syncs files but not
their directories and promises nothing.  In `Snapshots` the digest of a catalogue
is its version, and the CDN goes forward.  In `Plan` an asset is described by the
type, provider and fields that some decision reads; `texture` stands for all
types that are previewed without CRI media.

In `Worker` a decoder is a flag of its source: whether HCA blocks, ADX samples, IVF
packets, textures or type trees are well-formed is arithmetic on bytes.  Wording
of labels, media types, gzip of text and the metadata of artifacts are left out,
but for the label and the identity that a tree uses.  A killed worker leaves its
directory to the destructor that removes it.  In `ResourceLimits` a keystream is
exclusive or of positions, not AES; the digest of the raw body is not compared
with anything by the code and left out.

Not modelled: in `config.rs` the checks of single values, the URLs and the
environment; routes that only read; the files of diagnostics; the catalogue's
binary reader; the tables, masks and sizes of USM chunks; the block arithmetic of
ADX, AES and CRC.  They are functions of bytes of any length without state or
interaction, which TLC cannot enumerate usefully, and which the unit tests of the
repository do enumerate.

## 6. Plan

The modules above were written in the order of the inventory.  What is left:

1. The bytes in the directory of a worker against its reservation.
2. The file and range routes, whose reads race with nothing but the removal of
   strays; the journal of an upload.
