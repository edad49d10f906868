------------------------------ MODULE TaskRunner ------------------------------
(***************************************************************************)
(* src/src/task_runner.rs: the loop that executes one export task.  It     *)
(* spawns at most Concurrency resources, joins them in the order they end, *)
(* saves a checkpoint every CheckpointEvery results, and gives every       *)
(* selected key one result and the task one terminal state.                *)
(*                                                                         *)
(* A resource runs in a task of its own, so it makes progress while the    *)
(* loop waits for a checkpoint; it may hold one of the DbConnections the   *)
(* checkpoint needs.  sqlx's acquire timeout is left out, so starvation    *)
(* shows as a task that never ends rather than as a failed checkpoint.     *)
(*                                                                         *)
(* The module has no Spec of its own: TaskService composes the loop with   *)
(* the code that starts, cancels, saves and recovers tasks.                *)
(***************************************************************************)
EXTENDS Naturals, Sequences, SequencesExt, FiniteSets

CONSTANTS
    Tasks,            \* task ids
    Keys,             \* resource keys
    Concurrency,      \* config.downloads
    CheckpointEvery,  \* 20 in the code
    DbConnections     \* SqlitePoolOptions::max_connections, 4 in the code

ASSUME RunnerAssumption ==
    /\ Concurrency \in Nat \ {0}
    /\ CheckpointEvery \in Nat \ {0}
    /\ DbConnections \in Nat \ {0}

VARIABLES
    at,       \* control of the coordinator of a task
    task,     \* its `Task` in memory
    pending,  \* the keys its iterator has left
    item,     \* progress of a resource of a task
    tokens,   \* tasks whose CancellationToken is cancelled
    row       \* the rows of the SQL table tasks

runnerVars == <<at, task, pending, item, tokens, row>>

-----------------------------------------------------------------------------

\* What one resource ends with: its export id, its error, "cancelled", or
\* "resource task terminated unexpectedly" after a panic.
Ended == {"ok", "error", "cancelled", "terminated"}

ItemResult(k, r) == [key |-> k, outcome |-> r]

InSet(t) == {k \in Keys : item[t][k] \in {"active", "leased"} \cup Ended}
Leases == {p \in Tasks \X Keys : item[p[1]][p[2]] = "leased"}
ConnectionFree == Cardinality(Leases) < DbConnections

Successes(results) == Cardinality({i \in DOMAIN results : results[i].outcome = "ok"})

\* persistence_failed: the task is failed and says why.
PersistenceFailed(record) ==
    [record EXCEPT !.error = "persistence", !.state = "failed"]

SetItem(t, k, status) == item' = [item EXCEPT ![t][k] = status]

-----------------------------------------------------------------------------
(* The loop.                                                               *)

\* while active.len() < concurrency && !token.is_cancelled(): spawn the next.
Spawn(t) ==
    /\ at[t] = "filling"
    /\ Cardinality(InSet(t)) < Concurrency
    /\ t \notin tokens
    /\ pending[t] # <<>>
    /\ SetItem(t, Head(pending[t]), "active")
    /\ pending' = [pending EXCEPT ![t] = Tail(@)]
    /\ UNCHANGED <<at, task, tokens, row>>

Filled(t) ==
    /\ at[t] = "filling"
    /\ \/ Cardinality(InSet(t)) >= Concurrency
       \/ t \in tokens
       \/ pending[t] = <<>>
    /\ at' = [at EXCEPT ![t] = "joining"]
    /\ UNCHANGED <<task, pending, item, tokens, row>>

CheckpointDue(record) ==
    /\ record.error = "none"
    /\ record.completed % CheckpointEvery = 0

\* join_next_with_id returned a resource: account for it.
Join(t) ==
    /\ at[t] = "joining"
    /\ \E k \in Keys :
         /\ item[t][k] \in Ended
         /\ LET done == [task[t] EXCEPT
                            !.results = Append(@, ItemResult(k, item[t][k])),
                            !.completed = Len(task[t].results) + 1]
            IN  /\ task' = [task EXCEPT ![t] = done]
                /\ at' = [at EXCEPT ![t] = IF CheckpointDue(done)
                                           THEN "checkpoint" ELSE "filling"]
         /\ SetItem(t, k, "joined")
    /\ UNCHANGED <<pending, tokens, row>>

\* persist(task.clone()) takes a connection and writes the row, or fails: then
\* the task has failed, and its token stops everything else it would do.
Checkpoint(t) ==
    /\ at[t] = "checkpoint"
    /\ ConnectionFree
    /\ \/ /\ row' = [row EXCEPT ![t] = task[t]]
          /\ UNCHANGED <<task, tokens>>
       \/ /\ task' = [task EXCEPT ![t] = PersistenceFailed(@)]
          /\ tokens' = tokens \cup {t}
          /\ UNCHANGED row
    /\ at' = [at EXCEPT ![t] = "filling"]
    /\ UNCHANGED <<pending, item>>

CouldNotSave(t) == task[t].error # "none"

NeverStopped(t) == FALSE  \* broken: the token is not read again
WasStopped(t) == t \in tokens

FinalState(t, results) ==
    IF CouldNotSave(t) THEN "failed"
    ELSE IF WasStopped(t) THEN "cancelled"
    ELSE IF Successes(results) = task[t].total THEN "succeeded"
    ELSE IF Successes(results) > 0 THEN "partial"
    ELSE "failed"

\* The keys the iterator has left are cancelled.
Unstarted(t) == [i \in DOMAIN pending[t] |-> ItemResult(pending[t][i], "cancelled")]

\* Nothing is left in the JoinSet.
RunEnds(t) ==
    /\ at[t] = "joining"
    /\ InSet(t) = {}
    /\ LET results == task[t].results \o Unstarted(t)
       IN  task' = [task EXCEPT ![t].results = results,
                                ![t].completed = Len(results),
                                ![t].state = FinalState(t, results)]
    /\ pending' = [pending EXCEPT ![t] = <<>>]
    /\ at' = [at EXCEPT ![t] = "finishing"]
    /\ UNCHANGED <<item, tokens, row>>

-----------------------------------------------------------------------------
(* A spawned resource.                                                     *)

\* It takes a connection of the pool, for a manifest lookup or to publish.
Lease(t, k) ==
    /\ item[t][k] = "active"
    /\ ConnectionFree
    /\ SetItem(t, k, "leased")
    /\ UNCHANGED <<at, task, pending, tokens, row>>

\* Broken: resources are polled by the loop, not by tasks of their own.
EndsInLoop(t, k) ==
    /\ at[t] = "joining"
    /\ item[t][k] \in {"active", "leased"}
    /\ SetItem(t, k, "ok")
    /\ UNCHANGED <<at, task, pending, tokens, row>>

\* select! biased: the export's result, or "cancelled" once the token is;
\* a lease it holds goes back either way.
ItemEnds(t, k) ==
    /\ item[t][k] \in {"active", "leased"}
    /\ \E r \in Ended :
         /\ r = "cancelled" => t \in tokens
         /\ SetItem(t, k, r)
    /\ UNCHANGED <<at, task, pending, tokens, row>>

LoopStep(t) ==
    Spawn(t) \/ Filled(t) \/ Join(t) \/ Checkpoint(t) \/ RunEnds(t)

ItemStep(t, k) == Lease(t, k) \/ ItemEnds(t, k)

=============================================================================
