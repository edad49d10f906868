----------------------------- MODULE TaskService ------------------------------
(***************************************************************************)
(* src/src/service.rs: the life of a task around task_runner::run.         *)
(* new_task takes a queue permit, saves the row and registers the token;   *)
(* a spawned coordinator marks the task running, executes it, saves the    *)
(* outcome with one retry, keeps it in memory when both fail, and lets go  *)
(* of token and permit.  A cancel request, a graceful stop, a crash and    *)
(* the recovery at the next start interleave with all of it.               *)
(*                                                                         *)
(* Bounds: the finite set Tasks and MaxStops ends of the process.          *)
(***************************************************************************)
EXTENDS TaskRunner

CONSTANTS
    KeyOrder,    \* every key once, in the order of the strings
    Requests,    \* what clients ask POST /v1/exports for
    MaxKeys,     \* config.max_keys
    QueueLimit,  \* config.queue_limit
    MaxStops,    \* bound on crashes and exits of the process
    NoRow        \* no row in the table

\* A request names keys, in any order and repeatedly, or a prefix, which
\* stands for the keys that begin with it; and a location perhaps.
NoPrefix == [given |-> FALSE, matches |-> {}]
ASSUME ServiceAssumption ==
    /\ KeyOrder \in Seq(Keys) /\ IsInjective(KeyOrder) /\ ToSet(KeyOrder) = Keys
    /\ Requests \subseteq
         [keys : Seq(Keys), prefix : [given : BOOLEAN, matches : SUBSET Keys],
          located : BOOLEAN]
    /\ \A request \in Requests : ~request.prefix.given => request.prefix = NoPrefix
    /\ MaxKeys \in Nat \ {0}
    /\ QueueLimit \in Nat \ {0}
    /\ MaxStops \in Nat
    /\ IsFiniteSet(Tasks)

VARIABLES
    process,      \* up, down, or opening: App::open recovers the rows
    shutdown,     \* App.shutdown is cancelled
    permits,      \* free permits of App.queue
    registered,   \* App.cancellations
    unpersisted,  \* App.unpersisted_tasks
    stops,        \* how often the process has ended
    asked,        \* the keys the accepted request of a task stands for
    acknowledged  \* tasks whose run was told to stop by a client

serviceVars ==
    <<process, shutdown, permits, registered, unpersisted, stops, asked,
      acknowledged>>
vars == <<runnerVars, serviceVars>>

-----------------------------------------------------------------------------

Unfinished == {"queued", "running"}
Terminal(record) == record # NoRow /\ record.state \notin Unfinished

\* Control points at which the queue permit is held.
Running == {"filling", "joining", "checkpoint", "refreshing"}
Live == {"saving", "registering", "starting", "finishing", "retrying",
         "retaining", "removing", "releasing"} \cup Running

Goto(t, point) == at' = [at EXCEPT ![t] = point]

NewTask(keys, total) ==
    [state |-> "queued", keys |-> keys, total |-> total, completed |-> 0,
     results |-> <<>>, error |-> "none"]

NothingSpawned == [k \in Keys |-> "none"]

Init ==
    /\ at = [t \in Tasks |-> "unused"]
    /\ task = [t \in Tasks |-> NewTask(<<>>, 0)]
    /\ pending = [t \in Tasks |-> <<>>]
    /\ item = [t \in Tasks |-> NothingSpawned]
    /\ tokens = {}
    /\ row = [t \in Tasks |-> NoRow]
    /\ process = "up"
    /\ shutdown = FALSE
    /\ permits = QueueLimit
    /\ registered = {}
    /\ unpersisted = {}
    /\ stops = 0
    /\ asked = [t \in Tasks |-> {}]
    /\ acknowledged = {}

-----------------------------------------------------------------------------
(* submit_export and submit_refresh.                                       *)

\* The elements of a sequence that are in a set: SelectSeq as a recursive
\* function, which proofs can unfold.
Chosen(s, set) ==
    LET chosen[n \in 0..Len(s)] ==
          IF n = 0 THEN <<>>
          ELSE IF s[n] \in set THEN Append(chosen[n - 1], s[n]) ELSE chosen[n - 1]
    IN  chosen[Len(s)]

Ordered(keys) == Chosen(KeyOrder, keys)
FirstOf(n, keys) == SubSeq(keys, 1, IF n < Len(keys) THEN n ELSE Len(keys))

\* Broken: a prefix that matches too much is cut at the limit unnoticed.
Cut(request) ==
    IF request.prefix.given THEN FirstOf(MaxKeys, Ordered(request.prefix.matches))
    ELSE Ordered(ToSet(request.keys))

\* What a prefix matches is read one key beyond the limit; then sort, dedup.
Selection(request) ==
    IF request.prefix.given
    THEN FirstOf(MaxKeys + 1, Ordered(request.prefix.matches))
    ELSE Ordered(ToSet(request.keys))

Selectable(request) ==
    /\ request.prefix.given # (request.keys # <<>>)
    /\ Len(Selection(request)) \in 1..MaxKeys
    /\ request.located => Len(Selection(request)) = 1

\* new_task: three refusals, then the queue permit; no row is written yet.
Enqueue(t, record) ==
    /\ process = "up" /\ at[t] = "unused"
    /\ ~shutdown
    /\ unpersisted = {}
    /\ permits > 0
    /\ permits' = permits - 1
    /\ task' = [task EXCEPT ![t] = record]
    /\ Goto(t, "saving")
    /\ UNCHANGED <<pending, item, tokens, row, process, shutdown, registered,
                   unpersisted, stops, acknowledged>>

SubmitExport(t) ==
    \E request \in Requests :
        /\ Selectable(request)
        /\ Enqueue(t, NewTask(Selection(request), Len(Selection(request))))
        /\ asked' = [asked EXCEPT ![t] = ToSet(request.keys) \cup request.prefix.matches]

SubmitRefresh(t) ==
    /\ Enqueue(t, NewTask(<<>>, 1))
    /\ UNCHANGED asked

\* A task of kind catalog_refresh; an export selects at least one key.
IsRefresh(record) == record.keys = <<>>

\* A failed first save drops the permit and answers with an error.
SaveQueued(t) ==
    /\ at[t] = "saving"
    /\ \/ /\ row' = [row EXCEPT ![t] = task[t]]
          /\ Goto(t, "registering")
          /\ UNCHANGED permits
       \/ /\ Goto(t, "refused")
          /\ permits' = permits + 1
          /\ UNCHANGED row
    /\ UNCHANGED <<task, pending, item, tokens, process, shutdown, registered,
                   unpersisted, stops, asked, acknowledged>>

\* The client hangs up and axum drops its handler while the row is written.
\* The permit goes back; a queued row may stay that nobody works on.
Disconnect(t) ==
    /\ at[t] = "saving"
    /\ row' \in {row, [row EXCEPT ![t] = task[t]]}
    /\ Goto(t, "refused")
    /\ permits' = permits + 1
    /\ UNCHANGED <<task, pending, item, tokens, process, shutdown, registered,
                   unpersisted, stops, asked, acknowledged>>

\* The token is a child of App.shutdown; the coordinator is spawned and the
\* client gets its answer.
Register(t) ==
    /\ at[t] = "registering"
    /\ registered' = registered \cup {t}
    /\ tokens' = IF shutdown THEN tokens \cup {t} ELSE tokens
    /\ Goto(t, "starting")
    /\ UNCHANGED <<task, pending, item, row, process, shutdown, permits,
                   unpersisted, stops, asked, acknowledged>>

-----------------------------------------------------------------------------
(* The coordinator around run.                                             *)

\* A failed save of "running" fails the task.  An export still runs, with its
\* token cancelled, to account for its keys; a refresh is not attempted.
Start(t) ==
    /\ at[t] = "starting"
    /\ LET running == [task[t] EXCEPT !.state = "running"]
       IN  \/ /\ row' = [row EXCEPT ![t] = running]
              /\ task' = [task EXCEPT ![t] = running]
              /\ Goto(t, IF IsRefresh(running) THEN "refreshing" ELSE "filling")
              /\ UNCHANGED tokens
           \/ /\ task' = [task EXCEPT ![t] = PersistenceFailed(running)]
              /\ IF IsRefresh(task[t])
                 THEN Goto(t, "finishing") /\ UNCHANGED tokens
                 ELSE Goto(t, "filling") /\ tokens' = tokens \cup {t}
              /\ UNCHANGED row
    /\ pending' = [pending EXCEPT ![t] = task[t].keys]
    /\ UNCHANGED <<item, serviceVars>>

\* submit_refresh: App::refresh returned.  It may succeed although the token
\* was cancelled meanwhile.
RefreshEnds(t) ==
    /\ at[t] = "refreshing"
    /\ \/ task' = [task EXCEPT ![t].state = "succeeded", ![t].completed = 1]
       \/ task' = [task EXCEPT
                     ![t].state = IF t \in tokens THEN "cancelled" ELSE "failed",
                     ![t].error = "refresh"]
    /\ Goto(t, "finishing")
    /\ UNCHANGED <<pending, item, tokens, row, serviceVars>>

\* cancellations.remove(id) comes after finish_task.
KeepToken == "releasing"  \* broken: the token stays in the map
AfterFinish == "removing"

\* finish_task: save, and on failure save once more as a failed task.
FinishTask(t) ==
    /\ at[t] = "finishing"
    /\ \/ /\ row' = [row EXCEPT ![t] = task[t]]
          /\ Goto(t, AfterFinish)
          /\ UNCHANGED task
       \/ /\ task' = [task EXCEPT ![t] = PersistenceFailed(@)]
          /\ Goto(t, "retrying")
          /\ UNCHANGED row
    /\ UNCHANGED <<pending, item, tokens, serviceVars>>

RetryFinish(t) ==
    /\ at[t] = "retrying"
    /\ \/ /\ row' = [row EXCEPT ![t] = task[t]]
          /\ Goto(t, AfterFinish)
       \/ /\ Goto(t, "retaining")
          /\ UNCHANGED row
    /\ UNCHANGED <<task, pending, item, tokens, serviceVars>>

Retain(t) ==
    /\ at[t] = "retaining"
    /\ unpersisted' = unpersisted \cup {t}
    /\ Goto(t, AfterFinish)
    /\ UNCHANGED <<task, pending, item, tokens, row, process, shutdown,
                   permits, registered, stops, asked, acknowledged>>

\* Broken: the permit is given back here and again when the block ends.
UnregisterAndRelease(t) ==
    /\ at[t] = "removing"
    /\ registered' = registered \ {t}
    /\ permits' = permits + 1
    /\ Goto(t, "releasing")
    /\ UNCHANGED <<task, pending, item, tokens, row, process, shutdown,
                   unpersisted, stops, asked, acknowledged>>

Unregister(t) ==
    /\ at[t] = "removing"
    /\ registered' = registered \ {t}
    /\ Goto(t, "releasing")
    /\ UNCHANGED <<task, pending, item, tokens, row, process, shutdown,
                   permits, unpersisted, stops, asked, acknowledged>>

\* The spawned block ends and drops its queue permit.
ReleasePermit(t) ==
    /\ at[t] = "releasing"
    /\ permits' = permits + 1
    /\ Goto(t, "done")
    /\ UNCHANGED <<task, pending, item, tokens, row, process, shutdown,
                   registered, unpersisted, stops, asked, acknowledged>>

Coordinate(t) ==
    \/ SaveQueued(t) \/ Register(t)
    \/ Start(t) \/ RefreshEnds(t)
    \/ FinishTask(t) \/ RetryFinish(t) \/ Retain(t)
    \/ Unregister(t) \/ ReleasePermit(t)
    \/ LoopStep(t) /\ UNCHANGED serviceVars

-----------------------------------------------------------------------------
(* Cancellation, shutdown, crash and recovery.                             *)

\* POST /v1/tasks/{id}/cancel by a client, who knows the id from the answer.
CancelRequest(t) ==
    /\ process = "up"
    /\ at[t] \in Live \ {"saving", "registering"}
    /\ t \in registered /\ t \notin tokens
    /\ tokens' = tokens \cup {t}
    /\ acknowledged' = IF at[t] \in Running \cup {"starting"}
                       THEN acknowledged \cup {t} ELSE acknowledged
    /\ UNCHANGED <<at, task, pending, item, row, process, shutdown, permits,
                   registered, unpersisted, stops, asked>>

\* stop(): App.shutdown is the parent of every token.
Stop ==
    /\ process = "up" /\ ~shutdown
    /\ shutdown' = TRUE
    /\ tokens' = tokens \cup registered
    /\ UNCHANGED <<at, task, pending, item, row, process, permits, registered,
                   unpersisted, stops, asked, acknowledged>>

\* The process ends: by a crash, or after stop() saw no token or waited 15 s.
\* Everything in memory is gone; a coordinator that had not ended is lost.
ProcessEnds ==
    /\ process # "down"
    /\ stops < MaxStops
    /\ stops' = stops + 1
    /\ process' = "down"
    /\ shutdown' = FALSE
    /\ at' = [t \in Tasks |-> IF at[t] \in Live THEN "lost" ELSE at[t]]
    /\ task' = [t \in Tasks |-> NewTask(<<>>, 0)]
    /\ pending' = [t \in Tasks |-> <<>>]
    /\ item' = [t \in Tasks |-> NothingSpawned]
    /\ tokens' = {}
    /\ registered' = {}
    /\ unpersisted' = {}
    /\ permits' = QueueLimit
    /\ UNCHANGED <<row, asked, acknowledged>>

Open ==
    /\ process = "down"
    /\ process' = "opening"
    /\ UNCHANGED <<runnerVars, shutdown, permits, registered, unpersisted,
                   stops, asked, acknowledged>>

\* SELECT ... WHERE state IN ('queued','running')
NotSucceeded(record) == record.state # "succeeded"  \* broken
OnlyQueued(record) == record.state = "queued"  \* broken
Interrupted(record) == record.state \in Unfinished

Reported(record) == {record.results[i].key : i \in DOMAIN record.results}

\* Every key of the stored selection that has no result gets one.
FromScratch(old) ==  \* broken: the results of the checkpoint are dropped
    [i \in DOMAIN old.keys |-> ItemResult(old.keys[i], "interrupted")]
RecoveredResults(old) ==
    LET missing == Chosen(old.keys, Keys \ Reported(old))
    IN  old.results \o
            [i \in DOMAIN missing |-> ItemResult(missing[i], "interrupted")]

\* App::open rewrites one unfinished row.  An error ends the process.
Recover(t) ==
    /\ process = "opening"
    /\ row[t] # NoRow /\ Interrupted(row[t])
    /\ LET old == row[t]
           results == RecoveredResults(old)
       IN  row' = [row EXCEPT ![t] =
                     [old EXCEPT !.state = "failed",
                                 !.error = "interrupted",
                                 !.results = results,
                                 !.completed = IF IsRefresh(old)
                                               THEN @ ELSE Len(results)]]
    /\ UNCHANGED <<at, task, pending, item, tokens, serviceVars>>

Opened ==
    /\ process = "opening"
    /\ \A t \in Tasks : row[t] # NoRow => ~Interrupted(row[t])
    /\ process' = "up"
    /\ UNCHANGED <<runnerVars, shutdown, permits, registered, unpersisted,
                   stops, asked, acknowledged>>

-----------------------------------------------------------------------------

Resources(t) == \E k \in Keys : ItemStep(t, k) /\ UNCHANGED serviceVars

Next ==
    \/ \E t \in Tasks : SubmitExport(t) \/ SubmitRefresh(t) \/ CancelRequest(t)
    \/ \E t \in Tasks : Coordinate(t)
    \/ \E t \in Tasks : Resources(t) \/ Disconnect(t)
    \/ Stop
    \/ ProcessEnds
    \/ Open
    \/ \E t \in Tasks : Recover(t)
    \/ Opened

Spec == Init /\ [][Next]_vars

\* The runtime polls coordinators and resources, and both the worker and the
\* requests of a resource are limited in time, so a resource ends and gives its
\* connection back.  Nobody has to submit, cancel, stop or restart anything.
Fairness ==
    /\ \A t \in Tasks : WF_vars(Coordinate(t))
    /\ \A t \in Tasks, k \in Keys : WF_vars(ItemEnds(t, k) /\ UNCHANGED serviceVars)
    /\ \A t \in Tasks : WF_vars(Recover(t))

FairSpec == Spec /\ Fairness

-----------------------------------------------------------------------------
(* Properties.                                                             *)

Outcomes == Ended \cup {"interrupted"}

Records == [state : Unfinished \cup {"succeeded", "partial", "failed", "cancelled"},
            keys : Seq(Keys),
            total : Nat, completed : Nat,
            results : Seq([key : Keys, outcome : Outcomes]),
            error : {"none", "persistence", "refresh", "interrupted"}]

TypeOK ==
    /\ at \in [Tasks -> Live \cup {"unused", "refused", "done", "lost"}]
    /\ task \in [Tasks -> Records]
    /\ pending \in [Tasks -> Seq(Keys)]
    /\ item \in [Tasks -> [Keys -> {"none", "active", "leased", "joined"} \cup Ended]]
    /\ tokens \subseteq Tasks
    /\ row \in [Tasks -> Records \cup {NoRow}]
    /\ process \in {"up", "down", "opening"}
    /\ shutdown \in BOOLEAN
    /\ permits \in 0..QueueLimit
    /\ registered \subseteq Tasks /\ unpersisted \subseteq Tasks
    /\ stops \in 0..MaxStops
    /\ asked \in [Tasks -> SUBSET Keys]
    /\ acknowledged \subseteq Tasks

\* What GET /v1/tasks/{id} shows: the retained result before the row.
View(t) == IF t \in unpersisted THEN task[t] ELSE row[t]

FinishedExport(t) == Terminal(View(t)) /\ ~IsRefresh(View(t))

\* "failed checkpoints and cancellation account for every selected key"
\* (docs/ARCHITECTURE.md:18), restarts and panics too: a finished export shows
\* exactly one result for each key its client asked for, by name, repeatedly or
\* by prefix, in memory and in the database.
AllKeysAccounted ==
    \A t \in Tasks : FinishedExport(t) =>
        LET v == View(t)
        IN  /\ Reported(v) = asked[t]
            /\ Len(v.results) = Cardinality(asked[t])
            /\ v.completed = Len(v.results)
            /\ v.total = Len(v.results)

\* What the state of a finished export says of its results and of its error; told,
\* that a client was told its cancellation is under way.
Verdict(told, v) ==
    LET ok == Successes(v.results)
    IN  /\ v.state = "succeeded" => ok = v.total
        /\ v.state = "partial" => ok \in 1..(v.total - 1)
        /\ v.state # "failed" => v.error = "none"
        /\ v.state = "failed" /\ v.error = "none" => ok = 0
        /\ told => v.state \in {"cancelled", "failed"}

\* The state of a finished export agrees with its results and error, and a
\* client that was told its cancellation is under way while the export ran never
\* sees it end as if nothing had been asked.
VerdictMatches ==
    \A t \in Tasks : FinishedExport(t) => Verdict(t \in acknowledged, View(t))

\* Every path that ends a task gives its queue permit back exactly once.
PermitsBalanced ==
    permits + Cardinality({t \in Tasks : at[t] \in Live}) = QueueLimit

\* A live task can be cancelled, and a finished one leaves no token behind
\* for stop() to wait for.
TokensTrackTasks ==
    \A t \in Tasks :
        t \in registered <=> at[t] \in Live \ {"saving", "registering", "releasing"}

\* On every path permits and tokens follow the tasks.
QueueIsAccounted == PermitsBalanced /\ TokensTrackTasks

-----------------------------------------------------------------------------
(* The inductive invariant of TaskService_proofs.                          *)

Points == Live \cup {"unused", "refused", "done", "lost"}

\* Control points before the last save of a coordinator.
Unsaved == Live \ {"retaining", "removing", "releasing"}

IsTask(r) == {"state", "error", "results", "completed"} \subseteq DOMAIN r

ControlInv ==
    /\ at \in [Tasks -> Points]
    /\ permits \in Nat
    /\ registered \subseteq Tasks
    /\ process # "up" => \A t \in Tasks : at[t] \notin Live

\* What a coordinator may save before the end is not finished: a task that has
\* failed to be saved once makes no checkpoint any more.
RecordFits(point, record) ==
    /\ point \in {"saving", "registering", "starting"} => record.state = "queued"
    /\ point \in {"filling", "joining"} =>
         record.state = "running" \/ record.error # "none"
    /\ point = "checkpoint" => record.state = "running"

RecordInv ==
    /\ DOMAIN task = Tasks
    /\ \A t \in Tasks : IsTask(task[t]) /\ RecordFits(at[t], task[t])

RowFits(point, record) ==
    /\ point \in {"unused", "saving"} => record = NoRow
    /\ point \in Unsaved => ~Terminal(record)

RowInv ==
    /\ DOMAIN row = Tasks
    /\ \A t \in Tasks : (row[t] # NoRow => IsTask(row[t])) /\ RowFits(at[t], row[t])

IInv == ControlInv /\ QueueIsAccounted /\ RecordInv /\ RowInv

(* On top of it, what records and rows say of the keys of an export.       *)

\* A record names each key its client asked for once and reports some of them,
\* each once.
Keyed(keys, r) ==
    /\ r \in Records
    /\ ~IsRefresh(r) =>
         /\ IsInjective(r.keys) /\ ToSet(r.keys) = keys
         /\ r.total = Len(r.keys) /\ r.completed = Len(r.results)
         /\ \A i, j \in DOMAIN r.results : r.results[i].key = r.results[j].key => i = j
         /\ Reported(r) \subseteq keys

\* At the end it reports all of them, and its state says how they ended.
Settled(keys, told, r) == ~IsRefresh(r) => Reported(r) = keys /\ Verdict(told, r)

\* In the loop a key is left, spawned or reported.
InTransit(r, left, status) ==
    /\ ~IsRefresh(r)
    /\ IsInjective(left)
    /\ ToSet(left) \cup {k \in Keys : status[k] # "none"} = ToSet(r.keys)
    /\ \A k \in Keys :
         /\ status[k] = "joined" <=> k \in Reported(r)
         /\ k \in ToSet(left) => status[k] = "none"

Executing == {"filling", "joining", "checkpoint"}
Over == {"finishing", "retrying", "retaining", "removing", "releasing", "done"}

MemoryFits(t) ==
    /\ at[t] \in Live \cup {"done"} => Keyed(asked[t], task[t])
    /\ at[t] \in {"unused", "saving", "registering", "starting"} =>
         item[t] = NothingSpawned
    /\ at[t] \in {"saving", "registering", "starting"} => task[t].results = <<>>
    /\ at[t] \in {"unused", "saving", "registering"} => t \notin acknowledged
    /\ at[t] \in Running \cup {"starting"} /\ t \in acknowledged => t \in tokens
    /\ at[t] \in Executing => InTransit(task[t], pending[t], item[t])
    /\ at[t] = "refreshing" => IsRefresh(task[t])
    /\ at[t] \in Over => Settled(asked[t], t \in acknowledged, task[t])
    /\ t \in unpersisted => at[t] \in {"removing", "releasing", "done"}

StoreFits(t) ==
    row[t] # NoRow =>
        /\ Keyed(asked[t], row[t])
        /\ Terminal(row[t]) => Settled(asked[t], t \in acknowledged, row[t])
        /\ at[t] \in Unsaved => IsPrefix(row[t].results, task[t].results)

AccountInv == TypeOK /\ \A t \in Tasks : MemoryFits(t) /\ StoreFits(t)

-----------------------------------------------------------------------------

\* No late checkpoint, second save or recovery changes a finished row.
FinishedRowsAreFinal ==
    [][\A t \in Tasks : Terminal(row[t]) => row'[t] = row[t]]_vars

\* Progress a client may have read from the database is never withdrawn,
\* not by a crash either.
ProgressIsKept ==
    [][\A t \in Tasks :
         row[t] # NoRow => IsPrefix(row[t].results, row'[t].results)]_vars

\* While the process lives, a task that was accepted finishes: no checkpoint
\* starves behind the connections its own resources hold, and a lost save
\* does not leave the task running.
AcceptedFinishes ==
    \A t \in Tasks :
        at[t] = "starting" ~> (Terminal(View(t)) \/ process # "up")

\* A task interrupted by the end of the process is closed by the next start.
InterruptedIsClosed ==
    \A t \in Tasks :
        (process = "opening" /\ row[t] # NoRow)
            ~> (Terminal(row[t]) \/ process = "down")

=============================================================================
