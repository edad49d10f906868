-------------------------- MODULE TaskService_proofs --------------------------
(***************************************************************************)
(* For any tasks, requests and limits: queue permits and tokens follow the *)
(* tasks, a finished row never changes, every key that was asked for has   *)
(* one result, the verdict agrees with the results, and no save takes back *)
(* what a row says.  The first two follow from IInv; the others need       *)
(* AccountInv, which relates the record of each task to its request.       *)
(***************************************************************************)
EXTENDS TaskService, FiniteSetTheorems, SequenceTheorems, WellFoundedInduction, TLAPS

-----------------------------------------------------------------------------
(* Records.                                                                *)

LEMMA NewTaskIsTask ==
    ASSUME NEW keys, NEW n
    PROVE  /\ IsTask(NewTask(keys, n))
           /\ NewTask(keys, n).state = "queued"
BY DEF IsTask, NewTask

LEMMA StateOfUpdate ==
    ASSUME NEW r, IsTask(r), NEW s
    PROVE  LET u == [r EXCEPT !.state = s]
           IN  IsTask(u) /\ u.state = s /\ u.error = r.error
BY DEF IsTask

LEMMA PersistenceFailedIsTask ==
    ASSUME NEW r, IsTask(r)
    PROVE  LET u == PersistenceFailed(r)
           IN  IsTask(u) /\ u.state = "failed" /\ u.error = "persistence"
BY DEF IsTask, PersistenceFailed

LEMMA ClosedIsTask ==
    ASSUME NEW r, IsTask(r), NEW results, NEW n
    PROVE  IsTask([r EXCEPT !.state = "failed", !.error = "interrupted",
                            !.results = results, !.completed = n])
BY DEF IsTask

-----------------------------------------------------------------------------
(* The queue.                                                              *)

LiveTasks == {t \in Tasks : at[t] \in Live}

LEMMA LiveTasksFinite ==
    IsFiniteSet(LiveTasks) /\ Cardinality(LiveTasks) \in Nat
<1>1. IsFiniteSet(Tasks) /\ LiveTasks \subseteq Tasks
    BY ServiceAssumption DEF LiveTasks
<1>2. IsFiniteSet(LiveTasks)
    BY <1>1, FS_Subset
<1> QED BY <1>2, FS_CardinalityType

\* A task that becomes live has taken one permit, one that ends gives one back.
LEMMA PermitsFollow ==
    ASSUME ControlInv, PermitsBalanced,
           NEW t \in Tasks, NEW p \in Points, at' = [at EXCEPT ![t] = p],
           \/ (at[t] \in Live) = (p \in Live) /\ permits' = permits
           \/ at[t] \notin Live /\ p \in Live /\ permits > 0 /\ permits' = permits - 1
           \/ at[t] \in Live /\ p \notin Live /\ permits' = permits + 1
    PROVE  PermitsBalanced' /\ permits' \in Nat
<1>1. IsFiniteSet(LiveTasks) /\ Cardinality(LiveTasks) \in Nat
    BY LiveTasksFinite
<1>2. permits + Cardinality(LiveTasks) = QueueLimit
    BY DEF PermitsBalanced, LiveTasks
<1>3. PermitsBalanced' <=> permits' + Cardinality(LiveTasks') = QueueLimit
    BY DEF PermitsBalanced, LiveTasks
<1>4. permits \in Nat
    BY DEF ControlInv
<1>5. CASE (at[t] \in Live) = (p \in Live) /\ permits' = permits
    <2>1. LiveTasks' = LiveTasks
        BY <1>5 DEF LiveTasks, ControlInv
    <2> QED BY <1>2, <1>3, <1>4, <1>5, <2>1
<1>6. CASE at[t] \notin Live /\ p \in Live /\ permits > 0 /\ permits' = permits - 1
    <2>1. LiveTasks' = LiveTasks \cup {t} /\ t \notin LiveTasks
        BY <1>6 DEF LiveTasks, ControlInv
    <2>2. Cardinality(LiveTasks') = Cardinality(LiveTasks) + 1
        BY <1>1, <2>1, FS_AddElement
    <2> QED BY <1>1, <1>2, <1>3, <1>4, <1>6, <2>2
<1>7. CASE at[t] \in Live /\ p \notin Live /\ permits' = permits + 1
    <2>1. LiveTasks' = LiveTasks \ {t} /\ t \in LiveTasks
        BY <1>7 DEF LiveTasks, ControlInv
    <2>2. Cardinality(LiveTasks') = Cardinality(LiveTasks) - 1
        BY <1>1, <2>1, FS_RemoveElement
    <2> QED BY <1>1, <1>2, <1>3, <1>4, <1>7, <2>2
<1> QED BY <1>5, <1>6, <1>7

\* The common part of the steps of one task: what it may do to the invariant.
LEMMA TaskMoves ==
    ASSUME IInv, NEW t \in Tasks, NEW p \in Points,
           at' = [at EXCEPT ![t] = p],
           process' = process, process = "up" \/ p \notin Live,
           \/ (at[t] \in Live) = (p \in Live) /\ permits' = permits
           \/ at[t] \notin Live /\ p \in Live /\ permits > 0 /\ permits' = permits - 1
           \/ at[t] \in Live /\ p \notin Live /\ permits' = permits + 1,
           registered' = IF p \in Live \ {"saving", "registering", "releasing"}
                         THEN registered \cup {t} ELSE registered \ {t}
    PROVE  ControlInv' /\ QueueIsAccounted'
<1>1. PermitsBalanced' /\ permits' \in Nat
    BY PermitsFollow DEF IInv, QueueIsAccounted
<1>2. at' \in [Tasks -> Points] /\ \A s \in Tasks : at'[s] = IF s = t THEN p ELSE at[s]
    BY DEF IInv, ControlInv
<1>3. ControlInv'
    BY <1>1, <1>2 DEF IInv, ControlInv
<1>4. TokensTrackTasks'
    BY <1>2 DEF IInv, QueueIsAccounted, TokensTrackTasks
<1> QED BY <1>1, <1>3, <1>4 DEF QueueIsAccounted

LEMMA RecordsMove ==
    ASSUME IInv, NEW t \in Tasks, NEW p \in Points, at' = [at EXCEPT ![t] = p],
           DOMAIN task' = Tasks, \A s \in Tasks \ {t} : task'[s] = task[s],
           IsTask(task'[t]), RecordFits(p, task'[t]),
           DOMAIN row' = Tasks, \A s \in Tasks \ {t} : row'[s] = row[s],
           row'[t] # NoRow => IsTask(row'[t]), RowFits(p, row'[t])
    PROVE  RecordInv' /\ RowInv'
<1>1. \A s \in Tasks : at'[s] = IF s = t THEN p ELSE at[s]
    BY DEF IInv, ControlInv
<1>2. RecordInv'
    BY <1>1 DEF IInv, RecordInv, RecordFits, IsTask
<1>3. RowInv'
    BY <1>1 DEF IInv, RowInv, RowFits, IsTask, Terminal
<1> QED BY <1>2, <1>3

\* A row that a step writes was not finished.
Final == \A t \in Tasks : Terminal(row[t]) => row'[t] = row[t]

LEMMA UnsavedRow ==
    ASSUME IInv, NEW t \in Tasks, at[t] \in Unsaved, \A s \in Tasks \ {t} : row'[s] = row[s]
    PROVE  Final
BY DEF IInv, RowInv, RowFits, Final

Good == IInv' /\ Final

-----------------------------------------------------------------------------
(* Steps.                                                                  *)

LEMMA InitIInv == Init => IInv
<1> SUFFICES ASSUME Init PROVE IInv
    OBVIOUS
<1>1. ControlInv /\ TokensTrackTasks
    BY ServiceAssumption DEF Init, ControlInv, Points, Live, Running, TokensTrackTasks
<1>2. PermitsBalanced
    <2>1. LiveTasks = {}
        BY DEF Init, LiveTasks, Live, Running
    <2>2. Cardinality(LiveTasks) = 0
        BY <2>1, FS_EmptySet
    <2>3. permits + 0 = QueueLimit
        BY ServiceAssumption DEF Init
    <2> QED BY <2>2, <2>3 DEF PermitsBalanced, LiveTasks
<1>3. RecordInv
    BY NewTaskIsTask DEF Init, RecordInv, RecordFits
<1>4. RowInv
    BY DEF Init, RowInv, RowFits, Terminal
<1> QED BY <1>1, <1>2, <1>3, <1>4 DEF IInv, QueueIsAccounted

LEMMA EnqueueStep ==
    ASSUME IInv, NEW t \in Tasks, NEW keys, NEW n, Enqueue(t, NewTask(keys, n))
    PROVE  Good
<1> DEFINE p == "saving"
<1>1. /\ process = "up" /\ at[t] = "unused" /\ p \in Points
      /\ at' = [at EXCEPT ![t] = p] /\ permits > 0 /\ permits' = permits - 1
      /\ UNCHANGED <<process, registered, row>>
      /\ task' = [task EXCEPT ![t] = NewTask(keys, n)]
    BY DEF Enqueue, Goto, Points, Live
<1>2. at[t] \notin Live /\ p \in Live /\ t \notin registered
    BY <1>1 DEF IInv, QueueIsAccounted, TokensTrackTasks, Live, Running
<1>3. ControlInv' /\ QueueIsAccounted'
    BY <1>1, <1>2, TaskMoves
<1>4. RecordInv' /\ RowInv'
    <2>1. IsTask(task'[t]) /\ RecordFits(p, task'[t]) /\ RowFits(p, row'[t])
        BY <1>1, NewTaskIsTask DEF IInv, RecordInv, RecordFits, RowInv, RowFits, Terminal
    <2> QED BY <1>1, <2>1, RecordsMove DEF IInv, RecordInv, RowInv
<1> QED BY <1>1, <1>3, <1>4 DEF IInv, Good, Final

LEMMA SaveQueuedStep ==
    ASSUME IInv, NEW t \in Tasks, SaveQueued(t) \/ Disconnect(t)
    PROVE  Good
<1> DEFINE p == at'[t]
<1>1. /\ at[t] = "saving" /\ p \in Points /\ p \in {"registering", "refused"}
      /\ at' = [at EXCEPT ![t] = p]
      /\ permits' = IF p = "refused" THEN permits + 1 ELSE permits
      /\ UNCHANGED <<process, registered, task>>
      /\ row' = row \/ row' = [row EXCEPT ![t] = task[t]]
    BY DEF SaveQueued, Disconnect, Goto, Points, Live, IInv, ControlInv
<1>2. at[t] \in Live /\ (p \in Live <=> p = "registering") /\ t \notin registered
    BY <1>1 DEF IInv, QueueIsAccounted, TokensTrackTasks, Live, Running
<1>3. process = "up"
    BY <1>2 DEF IInv, ControlInv
<1>4. ControlInv' /\ QueueIsAccounted'
    BY <1>1, <1>2, <1>3, TaskMoves
<1>5. IsTask(task[t]) /\ task[t].state = "queued"
    BY <1>1 DEF IInv, RecordInv, RecordFits
<1>6. RecordInv' /\ RowInv'
    <2>1. DOMAIN row' = Tasks /\ \A s \in Tasks \ {t} : row'[s] = row[s]
        BY <1>1 DEF IInv, RowInv
    <2>2. row[t] = NoRow
        BY <1>1 DEF IInv, RowInv, RowFits
    <2>3. row'[t] # NoRow => row'[t] = task[t]
        BY <1>1, <2>2 DEF IInv, RowInv
    <2>4. RecordFits(p, task'[t]) /\ RowFits(p, row'[t])
        BY <1>1, <1>5, <2>3 DEF RecordFits, RowFits, Terminal, Unfinished
    <2> QED BY <1>1, <1>5, <2>1, <2>3, <2>4, RecordsMove DEF IInv, RecordInv
<1>7. Final
    BY <1>1, <1>2, UnsavedRow DEF Unsaved, IInv, RowInv
<1> QED BY <1>4, <1>6, <1>7 DEF IInv, Good

LEMMA RegisterStep ==
    ASSUME IInv, NEW t \in Tasks, Register(t)
    PROVE  Good
<1> DEFINE p == "starting"
<1>1. /\ at[t] = "registering" /\ p \in Points
      /\ at' = [at EXCEPT ![t] = p] /\ registered' = registered \cup {t}
      /\ UNCHANGED <<process, permits, task, row>>
    BY DEF Register, Goto, Points, Live
<1>2. at[t] \in Live /\ p \in Live \ {"saving", "registering", "releasing"}
    BY <1>1 DEF Live, Running
<1>3. process = "up"
    BY <1>2 DEF IInv, ControlInv
<1>4. ControlInv' /\ QueueIsAccounted'
    BY <1>1, <1>2, <1>3, TaskMoves
<1>5. RecordInv' /\ RowInv'
    <2>1. RecordFits(p, task'[t]) /\ RowFits(p, row'[t])
        BY <1>1 DEF IInv, RecordInv, RecordFits, RowInv, RowFits, Unsaved, Live, Running
    <2> QED BY <1>1, <2>1, RecordsMove DEF IInv, RecordInv, RowInv
<1> QED BY <1>1, <1>4, <1>5 DEF IInv, Good, Final

\* A step from one control point to another at which the token is registered.
LEMMA StaysRegistered ==
    ASSUME IInv, NEW t \in Tasks, NEW p \in Points, at' = [at EXCEPT ![t] = p],
           {at[t], p} \subseteq Live \ {"saving", "registering", "releasing"},
           UNCHANGED <<process, permits, registered>>
    PROVE  ControlInv' /\ QueueIsAccounted'
<1>1. process = "up"
    BY DEF IInv, ControlInv
<1>2. t \in registered
    BY DEF IInv, QueueIsAccounted, TokensTrackTasks
<1> QED BY <1>1, <1>2, TaskMoves

LEMMA StartStep ==
    ASSUME IInv, NEW t \in Tasks, Start(t)
    PROVE  Good
<1> DEFINE p == at'[t]
           running == [task[t] EXCEPT !.state = "running"]
<1>1. /\ at[t] = "starting" /\ p \in {"refreshing", "filling", "finishing"}
      /\ at' = [at EXCEPT ![t] = p]
      /\ UNCHANGED <<process, registered, permits>>
    BY DEF Start, Goto, serviceVars, IInv, ControlInv
<1>2. p \in Points /\ {at[t], p} \subseteq Live \ {"saving", "registering", "releasing"}
    BY <1>1 DEF Points, Live, Running
<1>3. ControlInv' /\ QueueIsAccounted'
    BY <1>1, <1>2, StaysRegistered
<1>4. IsTask(running) /\ running.state = "running"
    BY StateOfUpdate DEF IInv, RecordInv
<1>5. \/ task' = [task EXCEPT ![t] = running] /\ row' = [row EXCEPT ![t] = running]
      \/ task' = [task EXCEPT ![t] = PersistenceFailed(running)] /\ row' = row
    BY DEF Start
<1>6. IsTask(PersistenceFailed(running)) /\ PersistenceFailed(running).error = "persistence"
    BY <1>4, PersistenceFailedIsTask
<1>7. RecordInv' /\ RowInv'
    <2>1. IsTask(task'[t]) /\ RecordFits(p, task'[t])
        BY <1>1, <1>4, <1>5, <1>6 DEF IInv, RecordInv, RecordFits
    <2>2. (row'[t] # NoRow => IsTask(row'[t])) /\ RowFits(p, row'[t])
        BY <1>1, <1>2, <1>4, <1>5
        DEF IInv, RowInv, RowFits, Terminal, Unfinished, Unsaved
    <2>3. /\ DOMAIN task' = Tasks /\ \A s \in Tasks \ {t} : task'[s] = task[s]
          /\ DOMAIN row' = Tasks /\ \A s \in Tasks \ {t} : row'[s] = row[s]
        BY <1>5 DEF IInv, RecordInv, RowInv
    <2> QED BY <1>1, <1>2, <2>1, <2>2, <2>3, RecordsMove
<1>8. Final
    BY <1>1, <1>2, <1>5, UnsavedRow DEF IInv, RowInv, Unsaved
<1> QED BY <1>3, <1>7, <1>8 DEF IInv, Good

\* A step of the coordinator that leaves the row alone.
LEMMA RowStays ==
    ASSUME IInv, NEW t \in Tasks, NEW p \in Points, at' = [at EXCEPT ![t] = p],
           {at[t], p} \subseteq Live \ {"saving", "registering", "releasing"},
           p \in Unsaved => at[t] \in Unsaved,
           UNCHANGED <<process, permits, registered, row>>,
           DOMAIN task' = Tasks, \A s \in Tasks \ {t} : task'[s] = task[s],
           IsTask(task'[t]), RecordFits(p, task'[t])
    PROVE  Good
<1>1. ControlInv' /\ QueueIsAccounted'
    BY StaysRegistered
<1>2. RowFits(p, row'[t]) /\ (row'[t] # NoRow => IsTask(row'[t]))
    BY DEF IInv, RowInv, RowFits, Live, Running
<1>3. RecordInv' /\ RowInv'
    BY <1>2, RecordsMove DEF IInv, RowInv
<1> QED BY <1>1, <1>3 DEF Good, IInv, Final

LEMMA RefreshEndsStep ==
    ASSUME IInv, NEW t \in Tasks, RefreshEnds(t)
    PROVE  Good
<1>1. /\ at[t] = "refreshing" /\ at' = [at EXCEPT ![t] = "finishing"]
      /\ UNCHANGED <<process, permits, registered, row>>
    BY DEF RefreshEnds, Goto, serviceVars
<1>2. /\ DOMAIN task' = Tasks /\ \A s \in Tasks \ {t} : task'[s] = task[s]
      /\ IsTask(task'[t])
    BY DEF RefreshEnds, IInv, RecordInv, IsTask
<1>3. RecordFits("finishing", task'[t])
    BY DEF RecordFits
<1> QED BY <1>1, <1>2, <1>3, RowStays DEF Points, Live, Running, Unsaved

LEMMA FinishStep ==
    ASSUME IInv, NEW t \in Tasks, FinishTask(t) \/ RetryFinish(t)
    PROVE  Good
<1> DEFINE p == at'[t]
<1>1. /\ at[t] \in {"finishing", "retrying"} /\ p \in {"removing", "retrying", "retaining"}
      /\ at' = [at EXCEPT ![t] = p]
      /\ UNCHANGED <<process, registered, permits>>
    BY DEF FinishTask, RetryFinish, AfterFinish, Goto, serviceVars, IInv, ControlInv
<1>2. p \in Points /\ {at[t], p} \subseteq Live \ {"saving", "registering", "releasing"}
    BY <1>1 DEF Points, Live, Running
<1>3. ControlInv' /\ QueueIsAccounted'
    BY <1>1, <1>2, StaysRegistered
<1>4. IsTask(task[t]) /\ IsTask(PersistenceFailed(task[t]))
    BY PersistenceFailedIsTask DEF IInv, RecordInv
<1>5. /\ \/ task' = task
         \/ task' = [task EXCEPT ![t] = PersistenceFailed(task[t])]
      /\ \/ row' = row
         \/ row' = [row EXCEPT ![t] = task[t]] /\ p = "removing"
    BY DEF FinishTask, RetryFinish, AfterFinish, Goto, IInv, ControlInv
<1>6. RecordInv' /\ RowInv'
    <2>1. IsTask(task'[t]) /\ RecordFits(p, task'[t])
        BY <1>1, <1>4, <1>5 DEF IInv, RecordInv, RecordFits
    <2>2. (row'[t] # NoRow => IsTask(row'[t])) /\ RowFits(p, row'[t])
        BY <1>1, <1>4, <1>5 DEF IInv, RowInv, RowFits, Unsaved, Live, Running
    <2>3. /\ DOMAIN task' = Tasks /\ \A s \in Tasks \ {t} : task'[s] = task[s]
          /\ DOMAIN row' = Tasks /\ \A s \in Tasks \ {t} : row'[s] = row[s]
        BY <1>5 DEF IInv, RecordInv, RowInv
    <2> QED BY <1>1, <1>2, <2>1, <2>2, <2>3, RecordsMove
<1>7. Final
    BY <1>1, <1>2, <1>5, UnsavedRow DEF IInv, RowInv, Unsaved
<1> QED BY <1>3, <1>6, <1>7 DEF IInv, Good

LEMMA RetainStep ==
    ASSUME IInv, NEW t \in Tasks, Retain(t)
    PROVE  Good
<1>1. /\ at[t] = "retaining" /\ at' = [at EXCEPT ![t] = "removing"]
      /\ UNCHANGED <<process, permits, registered, row, task>>
    BY DEF Retain, Goto, AfterFinish
<1>2. IsTask(task'[t]) /\ RecordFits("removing", task'[t])
    BY <1>1 DEF IInv, RecordInv, RecordFits
<1> QED BY <1>1, <1>2, RowStays DEF Points, Live, Running, Unsaved, IInv, RecordInv

LEMMA LeaveStep ==
    ASSUME IInv, NEW t \in Tasks, Unregister(t) \/ ReleasePermit(t)
    PROVE  Good
<1> DEFINE p == at'[t]
<1>1. /\ \/ at[t] = "removing" /\ p = "releasing" /\ permits' = permits
            /\ registered' = registered \ {t}
         \/ at[t] = "releasing" /\ p = "done" /\ permits' = permits + 1
            /\ registered' = registered
      /\ at' = [at EXCEPT ![t] = p]
      /\ UNCHANGED <<process, task, row>>
    BY DEF Unregister, ReleasePermit, Goto, IInv, ControlInv
<1>2. /\ p \in Points /\ at[t] \in Live /\ (p \in Live <=> p = "releasing")
      /\ p \notin Live \ {"saving", "registering", "releasing"} /\ p \notin Unsaved
    BY <1>1 DEF Points, Live, Running, Unsaved
<1>3. process = "up" /\ registered' = registered \ {t}
    BY <1>1, <1>2 DEF IInv, ControlInv, QueueIsAccounted, TokensTrackTasks
<1>4. ControlInv' /\ QueueIsAccounted'
    BY <1>1, <1>2, <1>3, TaskMoves
<1>5. RecordInv' /\ RowInv'
    <2>1. IsTask(task'[t]) /\ RecordFits(p, task'[t])
        BY <1>1 DEF IInv, RecordInv, RecordFits
    <2>2. (row'[t] # NoRow => IsTask(row'[t])) /\ RowFits(p, row'[t])
        BY <1>1, <1>2 DEF IInv, RowInv, RowFits
    <2> QED BY <1>1, <1>2, <2>1, <2>2, RecordsMove DEF IInv, RecordInv, RowInv
<1> QED BY <1>1, <1>4, <1>5 DEF IInv, Good, Final

\* The loop of task_runner::run.
LEMMA LoopKeepsRow ==
    ASSUME IInv, NEW t \in Tasks, UNCHANGED serviceVars,
           Spawn(t) \/ Filled(t) \/ Join(t) \/ RunEnds(t)
    PROVE  Good
<1>1. UNCHANGED <<process, permits, registered, row>>
    BY DEF serviceVars, Spawn, Filled, Join, RunEnds
<1>2. IsTask(task[t]) /\ RecordFits(at[t], task[t]) /\ DOMAIN task = Tasks
      /\ at = [at EXCEPT ![t] = at[t]] /\ at[t] \in Points
    BY DEF IInv, RecordInv, ControlInv
<1>3. CASE Spawn(t)
    <2>1. at[t] = "filling" /\ at' = [at EXCEPT ![t] = at[t]] /\ task' = task
        BY <1>2, <1>3 DEF Spawn
    <2> QED BY <1>1, <1>2, <2>1, RowStays DEF Live, Running
<1>4. CASE Filled(t)
    <2>1. at[t] = "filling" /\ at' = [at EXCEPT ![t] = "joining"] /\ task' = task
        BY <1>4 DEF Filled
    <2>2. RecordFits("joining", task'[t])
        BY <1>2, <2>1 DEF RecordFits
    <2> QED BY <1>1, <1>2, <2>1, <2>2, RowStays DEF Points, Live, Running, Unsaved
<1>5. CASE Join(t)
    <2>1. PICK k \in Keys :
            LET done == [task[t] EXCEPT
                            !.results = Append(@, ItemResult(k, item[t][k])),
                            !.completed = Len(task[t].results) + 1]
            IN  /\ task' = [task EXCEPT ![t] = done]
                /\ at' = [at EXCEPT ![t] = IF CheckpointDue(done)
                                           THEN "checkpoint" ELSE "filling"]
        BY <1>5 DEF Join
    <2> DEFINE results == Append(task[t].results, ItemResult(k, item[t][k]))
               done == [task[t] EXCEPT !.results = results,
                                       !.completed = Len(task[t].results) + 1]
               p == IF CheckpointDue(done) THEN "checkpoint" ELSE "filling"
    <2>2. task' = [task EXCEPT ![t] = done] /\ at' = [at EXCEPT ![t] = p]
        BY <1>2, <2>1 DEF IsTask
    <2>3. at[t] = "joining"
        BY <1>5 DEF Join
    <2> HIDE DEF results
    <2>4. IsTask(done) /\ done.state = task[t].state /\ done.error = task[t].error
        BY <1>2 DEF IsTask
    <2>5. RecordFits(p, done)
        BY <1>2, <2>3, <2>4 DEF RecordFits, CheckpointDue
    <2> HIDE DEF done
    <2>6. p \in Points /\ {at[t], p} \subseteq Live \ {"saving", "registering", "releasing"}
        BY <2>3 DEF Points, Live, Running
    <2> HIDE DEF p
    <2> QED BY <1>1, <1>2, <2>2, <2>3, <2>4, <2>5, <2>6, RowStays DEF Unsaved, Live, Running
<1>6. CASE RunEnds(t)
    <2>1. at[t] = "joining" /\ at' = [at EXCEPT ![t] = "finishing"]
        BY <1>6 DEF RunEnds
    <2>2. /\ DOMAIN task' = Tasks /\ \A s \in Tasks \ {t} : task'[s] = task[s]
          /\ IsTask(task'[t])
        BY <1>2, <1>6 DEF RunEnds, IsTask
    <2>3. RecordFits("finishing", task'[t])
        BY DEF RecordFits
    <2> QED BY <1>1, <1>2, <2>1, <2>2, <2>3, RowStays DEF Points, Live, Running, Unsaved
<1> QED BY <1>3, <1>4, <1>5, <1>6

LEMMA CheckpointStep ==
    ASSUME IInv, NEW t \in Tasks, Checkpoint(t), UNCHANGED serviceVars
    PROVE  Good
<1> DEFINE p == "filling"
<1>1. /\ at[t] = "checkpoint" /\ at' = [at EXCEPT ![t] = p]
      /\ UNCHANGED <<process, permits, registered>>
    BY DEF Checkpoint, serviceVars
<1>2. p \in Points /\ {at[t], p} \subseteq Live \ {"saving", "registering", "releasing"}
    BY <1>1 DEF Points, Live, Running
<1>3. ControlInv' /\ QueueIsAccounted'
    BY <1>1, <1>2, StaysRegistered
<1>4. /\ IsTask(task[t]) /\ task[t].state = "running"
      /\ IsTask(PersistenceFailed(task[t]))
      /\ PersistenceFailed(task[t]).error = "persistence"
    BY <1>1, PersistenceFailedIsTask DEF IInv, RecordInv, RecordFits
<1>5. \/ task' = task /\ row' = [row EXCEPT ![t] = task[t]]
      \/ task' = [task EXCEPT ![t] = PersistenceFailed(task[t])] /\ row' = row
    BY DEF Checkpoint
<1>6. RecordInv' /\ RowInv'
    <2>1. IsTask(task'[t]) /\ RecordFits(p, task'[t])
        BY <1>4, <1>5 DEF IInv, RecordInv, RecordFits
    <2>2. (row'[t] # NoRow => IsTask(row'[t])) /\ RowFits(p, row'[t])
        BY <1>1, <1>2, <1>4, <1>5
        DEF IInv, RowInv, RowFits, Terminal, Unfinished, Unsaved
    <2>3. /\ DOMAIN task' = Tasks /\ \A s \in Tasks \ {t} : task'[s] = task[s]
          /\ DOMAIN row' = Tasks /\ \A s \in Tasks \ {t} : row'[s] = row[s]
        BY <1>5 DEF IInv, RecordInv, RowInv
    <2> QED BY <1>1, <1>2, <2>1, <2>2, <2>3, RecordsMove
<1>7. Final
    BY <1>1, <1>2, <1>5, UnsavedRow DEF IInv, RowInv, Unsaved
<1> QED BY <1>3, <1>6, <1>7 DEF IInv, Good

\* Steps that change nothing the invariant speaks of.
LEMMA NothingMoves ==
    ASSUME IInv, UNCHANGED <<at, permits, registered, process, task, row>>
    PROVE  Good
<1>1. ControlInv' /\ QueueIsAccounted'
    BY DEF IInv, ControlInv, QueueIsAccounted, PermitsBalanced, TokensTrackTasks
<1>2. RecordInv' /\ RowInv'
    BY DEF IInv, RecordInv, RowInv
<1> QED BY <1>1, <1>2 DEF Good, IInv, Final

LEMMA ProcessEndsStep ==
    ASSUME IInv, ProcessEnds
    PROVE  Good
<1>1. /\ process' = "down" /\ permits' = QueueLimit /\ registered' = {} /\ row' = row
      /\ at' = [t \in Tasks |-> IF at[t] \in Live THEN "lost" ELSE at[t]]
      /\ task' = [t \in Tasks |-> NewTask(<<>>, 0)]
    BY DEF ProcessEnds
<1>2. \A t \in Tasks : at'[t] \in Points \ Live
    BY <1>1 DEF IInv, ControlInv, Points, Live, Running
<1>3. ControlInv' /\ TokensTrackTasks'
    BY <1>1, <1>2, ServiceAssumption DEF ControlInv, TokensTrackTasks
<1>4. PermitsBalanced'
    <2>1. LiveTasks' = {}
        BY <1>2 DEF LiveTasks
    <2>2. Cardinality(LiveTasks') = 0
        BY <2>1, FS_EmptySet
    <2>3. permits' + 0 = QueueLimit
        BY <1>1, ServiceAssumption
    <2> QED BY <2>2, <2>3 DEF PermitsBalanced, LiveTasks
<1>5. RecordInv'
    BY <1>1, <1>2, NewTaskIsTask DEF RecordInv, RecordFits, Live, Running
<1>6. RowInv'
    BY <1>1, <1>2 DEF IInv, ControlInv, RowInv, RowFits, Unsaved, Live, Running
<1> QED BY <1>1, <1>3, <1>4, <1>5, <1>6 DEF Good, IInv, QueueIsAccounted, Final

LEMMA OpenStep ==
    ASSUME IInv, Open \/ Opened
    PROVE  Good
<1>1. /\ process # "up"
      /\ UNCHANGED <<at, permits, registered, task, row>>
    BY DEF Open, Opened, runnerVars
<1>2. ControlInv' /\ QueueIsAccounted'
    BY <1>1 DEF IInv, ControlInv, QueueIsAccounted, PermitsBalanced, TokensTrackTasks
<1>3. RecordInv' /\ RowInv'
    BY <1>1 DEF IInv, RecordInv, RowInv
<1> QED BY <1>1, <1>2, <1>3 DEF Good, IInv, Final

LEMMA RecoverStep ==
    ASSUME IInv, NEW t \in Tasks, Recover(t)
    PROVE  Good
<1> DEFINE results == RecoveredResults(row[t])
           completed == IF IsRefresh(row[t]) THEN row[t].completed ELSE Len(results)
           closed == [row[t] EXCEPT !.state = "failed", !.error = "interrupted",
                                    !.results = results, !.completed = completed]
<1>1. /\ process = "opening" /\ row[t] # NoRow /\ ~Terminal(row[t])
      /\ UNCHANGED <<at, permits, registered, process, task>>
      /\ row' = [row EXCEPT ![t] = closed]
    BY DEF Recover, serviceVars, Terminal, Interrupted
<1>2. IsTask(closed)
    BY <1>1, ClosedIsTask DEF IInv, RowInv
<1> HIDE DEF closed
<1>3. ControlInv' /\ QueueIsAccounted' /\ RecordInv'
    BY <1>1 DEF IInv, ControlInv, QueueIsAccounted, PermitsBalanced, TokensTrackTasks, RecordInv
<1>4. RowInv'
    <2>1. at[t] \notin Unsaved /\ at[t] \notin {"unused", "saving"}
        BY <1>1 DEF IInv, ControlInv, RowInv, RowFits, Unsaved, Live, Running
    <2> QED BY <1>1, <1>2, <2>1 DEF IInv, RowInv, RowFits
<1>5. Final
    BY <1>1 DEF Final, IInv, RowInv
<1> QED BY <1>3, <1>4, <1>5 DEF Good, IInv

-----------------------------------------------------------------------------
(* Theorems.                                                               *)

LEMMA NextIsGood == IInv /\ [Next]_vars => Good
<1> SUFFICES ASSUME IInv, [Next]_vars PROVE Good
    OBVIOUS
<1>1. ASSUME NEW t \in Tasks, SubmitExport(t)
      PROVE  Good
    BY <1>1, EnqueueStep DEF SubmitExport
<1>2. ASSUME NEW t \in Tasks, SubmitRefresh(t)
      PROVE  Good
    BY <1>2, EnqueueStep DEF SubmitRefresh
<1>3. ASSUME NEW t \in Tasks, CancelRequest(t)
      PROVE  Good
    BY <1>3, NothingMoves DEF CancelRequest
<1>4. ASSUME NEW t \in Tasks, Coordinate(t)
      PROVE  Good
    BY <1>4, SaveQueuedStep, RegisterStep, StartStep, RefreshEndsStep, FinishStep,
       RetainStep, LeaveStep, LoopKeepsRow, CheckpointStep
    DEF Coordinate, LoopStep
<1>5. ASSUME NEW t \in Tasks, Resources(t)
      PROVE  Good
    BY <1>5, NothingMoves DEF Resources, ItemStep, Lease, ItemEnds, serviceVars
<1>6. ASSUME NEW t \in Tasks, Disconnect(t)
      PROVE  Good
    BY <1>6, SaveQueuedStep
<1>7. CASE Stop
    BY <1>7, NothingMoves DEF Stop
<1>8. CASE ProcessEnds
    BY <1>8, ProcessEndsStep
<1>9. CASE Open \/ Opened
    BY <1>9, OpenStep
<1>10. ASSUME NEW t \in Tasks, Recover(t)
       PROVE  Good
    BY <1>10, RecoverStep
<1>11. CASE UNCHANGED vars
    BY <1>11, NothingMoves DEF vars, runnerVars, serviceVars
<1> QED BY <1>1, <1>2, <1>3, <1>4, <1>5, <1>6, <1>7, <1>8, <1>9, <1>10, <1>11 DEF Next

\* The inductive invariant of submission, coordination, crash and recovery.
THEOREM IInvHolds == Spec => []IInv
<1>1. IInv /\ [Next]_vars => IInv'
    BY NextIsGood DEF Good
<1> QED BY InitIInv, <1>1, PTL DEF Spec

\* Queue permits and tokens follow the tasks: new_task, the coordinator and its
\* early exits lose and double neither, for any number of tasks.
THEOREM QueueAlwaysAccounted == Spec => []QueueIsAccounted
<1>1. IInv => QueueIsAccounted
    BY DEF IInv
<1> QED BY IInvHolds, <1>1, PTL

\* A row that is finished never changes: no late checkpoint, second save or
\* recovery after a crash touches it.
THEOREM FinishedStaysFinal == Spec => FinishedRowsAreFinal
<1>1. IInv /\ [Next]_vars => [\A t \in Tasks : Terminal(row[t]) => row'[t] = row[t]]_vars
    BY NextIsGood DEF Good, Final
<1> QED BY IInvHolds, <1>1, PTL DEF Spec, FinishedRowsAreFinal

-----------------------------------------------------------------------------
(* The elements of a sequence that are in a set.                           *)

\* The function that Chosen is defined by.
Chooses(f, s, S) ==
    f = [n \in 0..Len(s) |->
           IF n = 0 THEN <<>>
           ELSE IF s[n] \in S THEN Append(f[n - 1], s[n]) ELSE f[n - 1]]

\* What of the first n elements is chosen.
ChosenOf(f, s, S, K, n) ==
    /\ f[n] \in Seq(K)
    /\ \A i \in 1..Len(f[n]) : \E j \in 1..n : f[n][i] = s[j] /\ s[j] \in S
    /\ \A j \in 1..n : s[j] \in S => \E i \in 1..Len(f[n]) : f[n][i] = s[j]
    /\ IsInjective(s) =>
         \A i, j \in 1..Len(f[n]) : f[n][i] = f[n][j] => i = j

\* A set of naturals that is not empty has a least element.
LEMMA LeastOf ==
    ASSUME NEW T \in SUBSET Nat, T # {}
    PROVE  \E n \in T : \A m \in T : ~(m < n)
<1> DEFINE R == OpToRel(<, Nat)
<1>1. IsWellFoundedOn(R, Nat)  BY NatLessThanWellFounded
<1> HIDE DEF R
<1>2. PICK n \in T : \A m \in T : ~(<<m, n>> \in R)
  BY <1>1, WFMin
<1>3. \A m \in T : m < n => <<m, n>> \in R  BY DEF R, OpToRel
<1> QED  BY <1>2, <1>3

LEMMA ChoiceGrows ==
    ASSUME NEW K, NEW s \in Seq(K), NEW S, NEW f, Chooses(f, s, S),
           NEW n \in 1..Len(s), ChosenOf(f, s, S, K, n - 1)
    PROVE  ChosenOf(f, s, S, K, n)
<1>1. n \in 0..Len(s) /\ n # 0 /\ n \in Nat /\ n - 1 \in Nat /\ s[n] \in K
  BY LenProperties
<1> DEFINE c == f[n - 1]
<1>2. f[n] = IF s[n] \in S THEN Append(c, s[n]) ELSE c
  BY <1>1 DEF Chooses
<1>3. c \in Seq(K) /\ Len(c) \in Nat  BY LenProperties DEF ChosenOf
<1>4. CASE s[n] \notin S
  BY <1>1, <1>2, <1>4 DEF ChosenOf
<1>5. CASE s[n] \in S
  <2>1. /\ f[n] \in Seq(K) /\ Len(f[n]) = Len(c) + 1
        /\ \A i \in 1..Len(c) : f[n][i] = c[i]
        /\ f[n][Len(c) + 1] = s[n]
    BY <1>1, <1>2, <1>3, <1>5, AppendProperties
  <2>2. /\ \A i \in 1..Len(c) : \E j \in 1..(n - 1) : c[i] = s[j] /\ s[j] \in S
        /\ \A j \in 1..(n - 1) : s[j] \in S => \E i \in 1..Len(c) : c[i] = s[j]
        /\ IsInjective(s) => \A i, j \in 1..Len(c) : c[i] = c[j] => i = j
    BY DEF ChosenOf
  <2> HIDE DEF c
  <2>3. \A i \in 1..Len(f[n]) : i \in 1..Len(c) \/ i = Len(c) + 1
    BY <1>3, <2>1
  <2>4. \A j \in 1..n : j \in 1..(n - 1) \/ j = n
    BY <1>1
  <2>5. \A j \in 1..(n - 1) : j \in 1..n /\ j # n
    BY <1>1
  <2>6. \A i \in 1..Len(f[n]) : \E j \in 1..n : f[n][i] = s[j] /\ s[j] \in S
    <3> SUFFICES ASSUME NEW i \in 1..Len(f[n])
                 PROVE  \E j \in 1..n : f[n][i] = s[j] /\ s[j] \in S
      OBVIOUS
    <3>1. CASE i \in 1..Len(c)
      <4>1. PICK j \in 1..(n - 1) : c[i] = s[j] /\ s[j] \in S  BY <2>2, <3>1
      <4> QED  BY <2>1, <2>5, <3>1, <4>1
    <3>2. CASE i = Len(c) + 1
      <4>1. n \in 1..n  BY <1>1
      <4> QED  BY <1>5, <2>1, <3>2, <4>1
    <3> QED  BY <2>3, <3>1, <3>2
  <2>7. \A j \in 1..n : s[j] \in S => \E i \in 1..Len(f[n]) : f[n][i] = s[j]
    <3>1. \A i \in 1..(Len(c)) : i \in 1..Len(f[n])  BY <1>3, <2>1
    <3>2. Len(c) + 1 \in 1..Len(f[n])  BY <1>3, <2>1
    <3> QED  BY <2>1, <2>2, <2>4, <3>1, <3>2
  <2>8. ASSUME IsInjective(s)
        PROVE  \A i, j \in 1..Len(f[n]) : f[n][i] = f[n][j] => i = j
    <3>1. \A i \in 1..Len(c) : c[i] # s[n]
      <4> SUFFICES ASSUME NEW i \in 1..Len(c), c[i] = s[n] PROVE FALSE  OBVIOUS
      <4>1. PICK j \in 1..(n - 1) : c[i] = s[j]  BY <2>2
      <4>2. j \in DOMAIN s /\ n \in DOMAIN s /\ j # n  BY LenProperties
      <4> QED  BY <2>8, <4>1, <4>2 DEF IsInjective
    <3> QED  BY <2>1, <2>2, <2>3, <2>8, <3>1
  <2> QED  BY <2>1, <2>6, <2>7, <2>8 DEF ChosenOf
<1> QED  BY <1>4, <1>5

LEMMA ChoosesWell ==
    ASSUME NEW K, NEW s \in Seq(K), NEW S, NEW f, Chooses(f, s, S)
    PROVE  ChosenOf(f, s, S, K, Len(s))
<1>1. Len(s) \in Nat  BY LenProperties
<1> DEFINE wrong == {n \in 0..Len(s) : ~ChosenOf(f, s, S, K, n)}
<1>2. ASSUME wrong # {} PROVE FALSE
  <2>1. PICK n \in wrong : \A m \in wrong : ~(m < n)
    <3>1. wrong \in SUBSET Nat  BY <1>1
    <3> HIDE DEF wrong
    <3> QED  BY <1>2, <3>1, LeastOf
  <2>2. n # 0
    <3>1. f[0] = <<>>  BY <1>1 DEF Chooses
    <3>2. ChosenOf(f, s, S, K, 0)  BY <3>1, EmptySeq DEF ChosenOf
    <3> QED  BY <3>2
  <2>3. n \in 1..Len(s) /\ n - 1 \in 0..Len(s) /\ n - 1 < n  BY <1>1, <2>2
  <2>4. ChosenOf(f, s, S, K, n - 1)  BY <2>1, <2>3
  <2> QED  BY <2>3, <2>4, ChoiceGrows
<1>3. Len(s) \in 0..Len(s)  BY <1>1
<1> QED  BY <1>2, <1>3

\* There is such a function, for each length by the one before.
LEMMA ChoiceExists ==
    ASSUME NEW K, NEW s \in Seq(K), NEW S
    PROVE  \E f : Chooses(f, s, S)
<1>1. Len(s) \in Nat  BY LenProperties
<1> DEFINE Upto(f, m) ==
             f = [n \in 0..m |->
                    IF n = 0 THEN <<>>
                    ELSE IF s[n] \in S THEN Append(f[n - 1], s[n]) ELSE f[n - 1]]
           wrong == {m \in Nat : ~\E f : Upto(f, m)}
<1>2. ASSUME wrong # {} PROVE FALSE
  <2>1. PICK m \in wrong : \A l \in wrong : ~(l < m)
    <3>1. wrong \in SUBSET Nat  OBVIOUS
    <3> HIDE DEF wrong
    <3> QED  BY <1>2, <3>1, LeastOf
  <2>2. m # 0
    <3> DEFINE none == [n \in 0..0 |-> <<>>]
    <3>1. none = [n \in 0..0 |->
                    IF n = 0 THEN <<>>
                    ELSE IF s[n] \in S THEN Append(none[n - 1], s[n]) ELSE none[n - 1]]
      OBVIOUS
    <3>2. \E f : Upto(f, 0)
      <4> HIDE DEF none
      <4> WITNESS none
      <4> QED  BY <3>1
    <3> QED  BY <3>2
  <2>3. m - 1 \in Nat /\ m - 1 < m  BY <2>2
  <2>4. PICK f : Upto(f, m - 1)  BY <2>1, <2>3
  <2> DEFINE g == [n \in 0..m |->
                     IF n < m THEN f[n]
                     ELSE IF s[m] \in S THEN Append(f[m - 1], s[m]) ELSE f[m - 1]]
  <2>5. \A n \in 0..m :
          g[n] = IF n = 0 THEN <<>>
                 ELSE IF s[n] \in S THEN Append(g[n - 1], s[n]) ELSE g[n - 1]
    <3> SUFFICES ASSUME NEW n \in 0..m
                 PROVE  g[n] = IF n = 0 THEN <<>>
                               ELSE IF s[n] \in S THEN Append(g[n - 1], s[n]) ELSE g[n - 1]
      OBVIOUS
    <3>1. \A i \in 0..(m - 1) :
            f[i] = IF i = 0 THEN <<>>
                   ELSE IF s[i] \in S THEN Append(f[i - 1], s[i]) ELSE f[i - 1]
      BY <2>4
    <3>2. \A i \in 0..(m - 1) : i \in 0..m /\ g[i] = f[i]
      BY <2>3
    <3>3. CASE n < m
      <4>1. n \in 0..(m - 1) /\ (n # 0 => n - 1 \in 0..(m - 1))  BY <2>3, <3>3
      <4> HIDE DEF g
      <4> QED  BY <3>1, <3>2, <4>1
    <3>4. CASE n = m
      <4>1. g[m] = IF s[m] \in S THEN Append(f[m - 1], s[m]) ELSE f[m - 1]
        BY <3>4
      <4>2. g[m - 1] = f[m - 1]  BY <2>3, <3>2
      <4> HIDE DEF g
      <4> QED  BY <2>2, <3>4, <4>1, <4>2
    <3> QED  BY <3>3, <3>4, <2>3
  <2>6. Upto(g, m)
    <3>1. g = [n \in 0..m |-> g[n]]  OBVIOUS
    <3> HIDE DEF g
    <3> QED  BY <2>5, <3>1
  <2> QED  BY <2>6
<1>3. \E f : Upto(f, Len(s))  BY <1>1, <1>2
<1> QED  BY <1>3 DEF Chooses

\* What Chosen keeps, and that it keeps it once.
LEMMA ChosenIs ==
    ASSUME NEW K, NEW s \in Seq(K), NEW S
    PROVE  /\ Chosen(s, S) \in Seq(K)
           /\ ToSet(Chosen(s, S)) = ToSet(s) \cap S
           /\ IsInjective(s) => IsInjective(Chosen(s, S))
<1> DEFINE f == CHOOSE g : Chooses(g, s, S)
           c == Chosen(s, S)
<1>1. Chooses(f, s, S)  BY ChoiceExists
<1>2. c = f[Len(s)]  BY DEF Chosen, Chooses
<1> HIDE DEF f, c
<1>3. ChosenOf(f, s, S, K, Len(s))  BY <1>1, ChoosesWell
<1>4. c \in Seq(K) /\ DOMAIN c = 1..Len(c) /\ DOMAIN s = 1..Len(s)
  BY <1>2, <1>3, LenProperties DEF ChosenOf
<1>5. ToSet(c) = ToSet(s) \cap S
  <2>1. /\ \A i \in 1..Len(c) : \E j \in 1..Len(s) : c[i] = s[j] /\ s[j] \in S
        /\ \A j \in 1..Len(s) : s[j] \in S => \E i \in 1..Len(c) : c[i] = s[j]
    BY <1>2, <1>3 DEF ChosenOf
  <2>2. ToSet(c) = {c[i] : i \in 1..Len(c)} /\ ToSet(s) = {s[i] : i \in 1..Len(s)}
    BY <1>4 DEF ToSet
  <2> QED  BY <2>1, <2>2
<1>6. IsInjective(s) => IsInjective(c)
  BY <1>2, <1>3, <1>4 DEF ChosenOf, IsInjective
<1> QED  BY <1>4, <1>5, <1>6 DEF c

-----------------------------------------------------------------------------
(* Results and records of an export.                                       *)

Result == [key : Keys, outcome : Outcomes]
Statuses == {"none", "active", "leased", "joined"} \cup Ended

\* Two results are of two keys.
Once(results) ==
    \A i, j \in DOMAIN results : results[i].key = results[j].key => i = j

KeysOf(results) == {results[i].key : i \in DOMAIN results}

LEMMA RecordParts ==
    ASSUME NEW r \in Records
    PROVE  /\ r.keys \in Seq(Keys) /\ r.results \in Seq(Result)
           /\ r.total \in Nat /\ r.completed \in Nat
           /\ IsTask(r) /\ Reported(r) = KeysOf(r.results)
BY DEF Records, Result, IsTask, Reported, KeysOf

LEMMA ResultsAreKeyed ==
    ASSUME NEW results \in Seq(Result)
    PROVE  /\ DOMAIN results = 1..Len(results) /\ Len(results) \in Nat
           /\ \A i \in 1..Len(results) :
                results[i].key \in Keys /\ results[i].outcome \in Outcomes
           /\ KeysOf(results) \subseteq Keys
<1>1. results \in [1..Len(results) -> Result] /\ Len(results) \in Nat
  BY LenProperties
<1>2. \A i \in 1..Len(results) : results[i] \in Result  BY <1>1
<1> QED  BY <1>1, <1>2 DEF Result, KeysOf

\* A sequence of different keys is as long as it has keys.
LEMMA LengthIsCount ==
    ASSUME NEW K, NEW s \in Seq(K), IsInjective(s)
    PROVE  Len(s) = Cardinality(ToSet(s))
<1>1. /\ Len(s) \in Nat /\ s \in [1..Len(s) -> K] /\ DOMAIN s = 1..Len(s)
  BY LenProperties
<1>2. s \in Bijection(1..Len(s), ToSet(s))
  BY <1>1 DEF Bijection, Injection, Surjection, IsInjective, ToSet
<1>3. ExistsBijection(1..Len(s), ToSet(s))  BY <1>2 DEF ExistsBijection
<1>4. IsFiniteSet(1..Len(s)) /\ Cardinality(1..Len(s)) = Len(s)
  <2>1. 1 \in Int /\ Len(s) \in Int  BY <1>1
  <2> QED  BY <1>1, <2>1, FS_Interval
<1> QED  BY <1>3, <1>4, FS_Bijection

LEMMA OneResultEach ==
    ASSUME NEW results \in Seq(Result), Once(results)
    PROVE  Len(results) = Cardinality(KeysOf(results))
<1> DEFINE f == [i \in 1..Len(results) |-> results[i].key]
<1>1. /\ DOMAIN results = 1..Len(results) /\ Len(results) \in Nat
      /\ \A i \in 1..Len(results) : results[i].key \in Keys
  BY ResultsAreKeyed
<1>2. f \in Bijection(1..Len(results), KeysOf(results))
  BY <1>1 DEF Bijection, Injection, Surjection, IsInjective, KeysOf, Once
<1> HIDE DEF f
<1>3. ExistsBijection(1..Len(results), KeysOf(results))  BY <1>2 DEF ExistsBijection
<1>4. IsFiniteSet(1..Len(results)) /\ Cardinality(1..Len(results)) = Len(results)
  <2>1. 1 \in Int /\ Len(results) \in Int  BY <1>1
  <2> QED  BY <1>1, <2>1, FS_Interval
<1> QED  BY <1>3, <1>4, FS_Bijection

LEMMA SuccessesBounded ==
    ASSUME NEW results \in Seq(Result)
    PROVE  Successes(results) \in 0..Len(results)
<1>1. DOMAIN results = 1..Len(results) /\ Len(results) \in Nat  BY ResultsAreKeyed
<1>2. IsFiniteSet(1..Len(results)) /\ Cardinality(1..Len(results)) = Len(results)
  <2>1. 1 \in Int /\ Len(results) \in Int  BY <1>1
  <2> QED  BY <1>1, <2>1, FS_Interval
<1> DEFINE good == {i \in DOMAIN results : results[i].outcome = "ok"}
<1>3. good \in SUBSET (1..Len(results))  BY <1>1
<1> HIDE DEF good
<1>4. IsFiniteSet(good) /\ Cardinality(good) <= Cardinality(1..Len(results))
  BY <1>2, <1>3, FS_Subset
<1>5. Cardinality(good) \in Nat  BY <1>4, FS_CardinalityType
<1>6. Cardinality(good) \in 0..Len(results)  BY <1>1, <1>2, <1>4, <1>5
<1> QED  BY <1>6 DEF Successes, good

\* Results of other keys, each once, may follow.
LEMMA ResultsJoin ==
    ASSUME NEW old \in Seq(Result), Once(old), NEW more \in Seq(Result), Once(more),
           KeysOf(old) \cap KeysOf(more) = {}
    PROVE  /\ old \o more \in Seq(Result) /\ Once(old \o more)
           /\ KeysOf(old \o more) = KeysOf(old) \cup KeysOf(more)
<1> DEFINE all == old \o more
           m == Len(old)
           n == Len(more)
<1>1. /\ DOMAIN old = 1..m /\ m \in Nat
      /\ DOMAIN more = 1..n /\ n \in Nat
  BY ResultsAreKeyed
<1>2. /\ all \in Seq(Result) /\ Len(all) = m + n
      /\ \A i \in 1..(m + n) : all[i] = IF i <= m THEN old[i] ELSE more[i - m]
  BY ConcatProperties
<1>3. DOMAIN all = 1..(m + n)  BY <1>2, ResultsAreKeyed
<1> HIDE DEF all, m, n
<1>4. \A i \in 1..(m + n) :
        \/ i \in 1..m /\ all[i] = old[i]
        \/ i > m /\ i - m \in 1..n /\ all[i] = more[i - m]
  BY <1>1, <1>2
<1>5. /\ \A i \in 1..m : i \in 1..(m + n) /\ all[i] = old[i]
      /\ \A i \in 1..n : m + i \in 1..(m + n) /\ all[m + i] = more[i]
  <2>1. \A i \in 1..m : i \in 1..(m + n) /\ i <= m  BY <1>1
  <2>2. \A i \in 1..n : m + i \in 1..(m + n) /\ ~(m + i <= m) /\ (m + i) - m = i  BY <1>1
  <2> QED  BY <1>2, <2>1, <2>2
<1>6. KeysOf(all) = KeysOf(old) \cup KeysOf(more)
  <2>1. KeysOf(all) = {all[i].key : i \in 1..(m + n)}  BY <1>3 DEF KeysOf
  <2>2. KeysOf(old) = {old[i].key : i \in 1..m}  BY <1>1 DEF KeysOf
  <2>3. KeysOf(more) = {more[i].key : i \in 1..n}  BY <1>1 DEF KeysOf
  <2> QED  BY <1>4, <1>5, <2>1, <2>2, <2>3
<1>7. Once(all)
  <2> SUFFICES ASSUME NEW i \in 1..(m + n), NEW j \in 1..(m + n), all[i].key = all[j].key
               PROVE  i = j
    BY <1>3 DEF Once
  <2>1. CASE i \in 1..m /\ j \in 1..m
    BY <1>1, <1>5, <2>1 DEF Once
  <2>2. CASE i > m /\ j > m
    <3>1. i - m \in 1..n /\ j - m \in 1..n /\ all[i] = more[i - m] /\ all[j] = more[j - m]
      BY <1>1, <1>4, <2>2
    <3>2. i - m = j - m  BY <1>1, <3>1 DEF Once
    <3> QED  BY <1>1, <3>2
  <2>3. ASSUME NEW a \in 1..(m + n), NEW b \in 1..(m + n), a \in 1..m, b > m
        PROVE  all[a].key # all[b].key
    <3>1. all[a].key \in KeysOf(old)  BY <1>1, <1>5, <2>3 DEF KeysOf
    <3>2. b - m \in 1..n /\ all[b] = more[b - m]  BY <1>1, <1>4, <2>3
    <3>3. all[b].key \in KeysOf(more)  BY <1>1, <3>2 DEF KeysOf
    <3> QED  BY <3>1, <3>3
  <2>4. \A k \in 1..(m + n) : k \in 1..m \/ k > m  BY <1>1
  <2> QED  BY <2>1, <2>2, <2>3, <2>4
<1> QED  BY <1>2, <1>6, <1>7 DEF all

\* Keys that end alike, as the code reports keys that never ran.
Alike(keys, outcome) == [i \in DOMAIN keys |-> ItemResult(keys[i], outcome)]

LEMMA AlikeIs ==
    ASSUME NEW keys \in Seq(Keys), IsInjective(keys), NEW outcome \in Outcomes
    PROVE  /\ Alike(keys, outcome) \in Seq(Result) /\ Once(Alike(keys, outcome))
           /\ KeysOf(Alike(keys, outcome)) = ToSet(keys)
<1> DEFINE n == Len(keys)
           s == Alike(keys, outcome)
<1>1. n \in Nat /\ DOMAIN keys = 1..n /\ \A i \in 1..n : keys[i] \in Keys
  BY LenProperties
<1>2. s = [i \in 1..n |-> ItemResult(keys[i], outcome)]  BY <1>1 DEF Alike
<1>3. DOMAIN s = 1..n /\ \A i \in 1..n : s[i] \in Result /\ s[i].key = keys[i]
  BY <1>1, <1>2 DEF ItemResult, Result
<1> HIDE DEF s, n
<1>4. s \in [1..n -> Result]  BY <1>2, <1>3
<1>5. s \in Seq(Result)  BY <1>1, <1>4, SeqDef
<1>6. Once(s)  BY <1>1, <1>3 DEF Once, IsInjective
<1>7. KeysOf(s) = ToSet(keys)  BY <1>1, <1>3 DEF KeysOf, ToSet
<1> QED  BY <1>5, <1>6, <1>7 DEF s

LEMMA PrefixIs ==
    ASSUME NEW s \in Seq(Result), NEW t \in Seq(Result)
    PROVE  IsPrefix(s, t) <=> Len(s) <= Len(t) /\ \A i \in 1..Len(s) : s[i] = t[i]
<1> DEFINE n == Len(s)
           a == SubSeq(s, 1, n)
           b == SubSeq(t, 1, n)
<1>1. n \in Nat /\ Len(t) \in Nat  BY LenProperties
<1>2. \A i \in 1..n : s[i] \in Result  BY LenProperties
<1>3. CASE n <= Len(t)
  <2>1. \A i \in 1..n : t[i] \in Result  BY <1>1, <1>3, LenProperties
  <2>2. 1 \in Int /\ n \in Int /\ n - 1 + 1 = n /\ (~(1 <= n) => n = 0)  BY <1>1
  <2>3. /\ a \in Seq(Result) /\ Len(a) = n /\ \A i \in 1..n : a[i] = s[1 + i - 1]
        /\ b \in Seq(Result) /\ Len(b) = n /\ \A i \in 1..n : b[i] = t[1 + i - 1]
    <3> HIDE DEF n
    <3> QED  BY <1>2, <2>1, <2>2, SubSeqProperties
  <2>4. \A i \in 1..n : 1 + i - 1 = i  BY <1>1
  <2> HIDE DEF a, b, n
  <2>5. \A i \in 1..n : a[i] = s[i] /\ b[i] = t[i]  BY <2>3, <2>4
  <2>6. a = b <=> \A i \in 1..n : s[i] = t[i]
    <3>1. (\A i \in 1..n : a[i] = b[i]) => a = b  BY <2>3, SeqEqual
    <3> QED  BY <2>5, <3>1
  <2> QED  BY <1>3, <2>6 DEF IsPrefix, a, b, n
<1>4. CASE ~(n <= Len(t))
  BY <1>4 DEF IsPrefix
<1> QED  BY <1>3, <1>4

LEMMA PrefixOfItself == \A s \in Seq(Result) : IsPrefix(s, s)
BY PrefixIs, LenProperties

LEMMA PrefixGrows ==
    ASSUME NEW s \in Seq(Result), NEW t \in Seq(Result), IsPrefix(s, t), NEW u \in Seq(Result)
    PROVE  IsPrefix(s, t \o u)
<1>1. Len(s) \in Nat /\ Len(t) \in Nat /\ Len(u) \in Nat  BY LenProperties
<1>2. Len(s) <= Len(t) /\ \A i \in 1..Len(s) : s[i] = t[i]  BY PrefixIs
<1>3. /\ t \o u \in Seq(Result) /\ Len(t \o u) = Len(t) + Len(u)
      /\ \A i \in 1..(Len(t) + Len(u)) : (t \o u)[i] = IF i <= Len(t) THEN t[i] ELSE u[i - Len(t)]
  BY ConcatProperties
<1>4. \A i \in 1..Len(s) : i \in 1..(Len(t) + Len(u)) /\ i <= Len(t)  BY <1>1, <1>2
<1>5. Len(s) <= Len(t \o u) /\ \A i \in 1..Len(s) : s[i] = (t \o u)[i]
  BY <1>1, <1>2, <1>3, <1>4
<1> QED  BY <1>3, <1>5, PrefixIs

LEMMA PrefixOfEmpty ==
    ASSUME NEW s \in Seq(Result), IsPrefix(s, <<>>)
    PROVE  s = <<>>
<1>1. <<>> \in Seq(Result) /\ Len(<<>>) = 0  BY EmptySeq
<1>2. \A t \in Seq(Result) : IsPrefix(s, t) => Len(s) <= Len(t)  BY PrefixIs
<1>3. Len(s) <= Len(<<>>) /\ Len(s) \in Nat  BY <1>1, <1>2, LenProperties
<1>4. Len(s) = 0  BY <1>1, <1>3
<1> QED  BY <1>4, EmptySeq

\* Changes of the state or the error say nothing of keys and results.
LEMMA KeyedStays ==
    ASSUME NEW keys, NEW r, Keyed(keys, r), NEW u \in Records,
           u.keys = r.keys, u.total = r.total, u.completed = r.completed,
           u.results = r.results
    PROVE  /\ Keyed(keys, u) /\ (IsRefresh(u) <=> IsRefresh(r))
           /\ Reported(u) = Reported(r)
BY DEF Keyed, IsRefresh, Reported

LEMMA FailedRecord ==
    ASSUME NEW keys, NEW r, Keyed(keys, r)
    PROVE  LET u == PersistenceFailed(r)
           IN  /\ Keyed(keys, u) /\ (IsRefresh(u) <=> IsRefresh(r))
               /\ Reported(u) = Reported(r)
               /\ u.keys = r.keys /\ u.results = r.results
               /\ u.state = "failed" /\ u.error = "persistence"
<1> DEFINE u == PersistenceFailed(r)
<1>1. /\ r \in Records /\ u \in Records
      /\ u.keys = r.keys /\ u.total = r.total /\ u.completed = r.completed
      /\ u.results = r.results /\ u.state = "failed" /\ u.error = "persistence"
  BY DEF Keyed, Records, PersistenceFailed
<1> HIDE DEF u
<1> QED  BY <1>1, KeyedStays DEF u

\* A failed save of what is settled leaves it settled.
LEMMA FailedIsSettled ==
    ASSUME NEW keys, NEW told, NEW r, Keyed(keys, r), Settled(keys, told, r)
    PROVE  Settled(keys, told, PersistenceFailed(r))
<1>1. LET u == PersistenceFailed(r)
      IN  /\ IsRefresh(u) <=> IsRefresh(r)
          /\ Reported(u) = Reported(r)
          /\ u.state = "failed" /\ u.error = "persistence"
  BY FailedRecord
<1> QED  BY <1>1 DEF Settled, Verdict

LEMMA RunningRecord ==
    ASSUME NEW keys, NEW r, Keyed(keys, r)
    PROVE  LET u == [r EXCEPT !.state = "running"]
           IN  /\ Keyed(keys, u) /\ (IsRefresh(u) <=> IsRefresh(r))
               /\ u.keys = r.keys /\ u.results = r.results
               /\ u.state = "running" /\ Reported(u) = Reported(r)
<1> DEFINE u == [r EXCEPT !.state = "running"]
<1>1. /\ u \in Records
      /\ u.keys = r.keys /\ u.total = r.total /\ u.completed = r.completed
      /\ u.results = r.results /\ u.state = "running"
  BY DEF Keyed, Records, Unfinished
<1> HIDE DEF u
<1> QED  BY <1>1, KeyedStays DEF u

\* What a request selects.
LEMMA SelectionIs ==
    ASSUME NEW request \in Requests, Selectable(request)
    PROVE  LET keys == Selection(request)
           IN  /\ keys \in Seq(Keys) /\ keys # <<>> /\ IsInjective(keys)
               /\ ToSet(keys) = ToSet(request.keys) \cup request.prefix.matches
<1>1. /\ request.keys \in Seq(Keys) /\ request.prefix.given \in BOOLEAN
      /\ request.prefix.matches \in SUBSET Keys
      /\ ~request.prefix.given => request.prefix.matches = {}
  BY ServiceAssumption DEF NoPrefix
<1> DEFINE keys == Selection(request)
           matches == request.prefix.matches
<1>2. \A S \in SUBSET Keys : /\ Ordered(S) \in Seq(Keys) /\ IsInjective(Ordered(S))
                             /\ ToSet(Ordered(S)) = S
  <2> SUFFICES ASSUME NEW S \in SUBSET Keys
               PROVE  /\ Ordered(S) \in Seq(Keys) /\ IsInjective(Ordered(S))
                      /\ ToSet(Ordered(S)) = S
    OBVIOUS
  <2>1. KeyOrder \in Seq(Keys) /\ IsInjective(KeyOrder) /\ ToSet(KeyOrder) = Keys
    BY ServiceAssumption
  <2>2. /\ Chosen(KeyOrder, S) \in Seq(Keys) /\ IsInjective(Chosen(KeyOrder, S))
        /\ ToSet(Chosen(KeyOrder, S)) = Keys \cap S
    BY <2>1, ChosenIs
  <2>3. Keys \cap S = S  OBVIOUS
  <2> QED  BY <2>2, <2>3 DEF Ordered
<1>3. request.prefix.given <=> request.keys = <<>>  BY <1>1 DEF Selectable
<1>4. Len(keys) \in 1..MaxKeys /\ MaxKeys \in Nat  BY ServiceAssumption DEF Selectable
<1>5. keys # <<>>  BY <1>4, EmptySeq
<1>6. CASE request.prefix.given
  <2> DEFINE whole == Ordered(matches)
  <2>1. whole \in Seq(Keys) /\ IsInjective(whole) /\ ToSet(whole) = matches
    BY <1>1, <1>2
  <2>2. Len(whole) \in Nat /\ \A i \in 1..Len(whole) : whole[i] \in Keys
    BY <2>1, LenProperties
  <2>3. keys = FirstOf(MaxKeys + 1, whole)  BY <1>6 DEF Selection
  <2> HIDE DEF whole, keys
  <2>4. keys = whole
    <3>1. CASE MaxKeys + 1 < Len(whole)
      <4>1. keys = SubSeq(whole, 1, MaxKeys + 1)  BY <2>3, <3>1 DEF FirstOf
      <4>2. 1 \in Int /\ MaxKeys + 1 \in Int /\ 1 <= MaxKeys + 1
            /\ (MaxKeys + 1) - 1 + 1 = MaxKeys + 1
            /\ \A i \in 1..(MaxKeys + 1) : i \in 1..Len(whole)
        BY <1>4, <2>2, <3>1
      <4>3. \A i \in 1..(MaxKeys + 1) : whole[i] \in Keys  BY <2>2, <4>2
      <4>4. Len(keys) = MaxKeys + 1
        <5> DEFINE n == MaxKeys + 1
        <5>1. n \in Int /\ 1 <= n /\ n - 1 + 1 = n  BY <4>2
        <5>2. keys = SubSeq(whole, 1, n) /\ \A i \in 1..n : whole[i] \in Keys  BY <4>1, <4>3
        <5> HIDE DEF n
        <5>3. Len(keys) = n  BY <4>2, <5>1, <5>2, SubSeqProperties
        <5> QED  BY <5>3 DEF n
      <4> QED  BY <1>4, <4>4
    <3>2. CASE ~(MaxKeys + 1 < Len(whole))
      <4>1. keys = SubSeq(whole, 1, Len(whole))  BY <2>3, <3>2 DEF FirstOf
      <4> QED  BY <2>1, <4>1, SubSeqFull
    <3> QED  BY <3>1, <3>2
  <2>5. ToSet(request.keys) = {}  BY <1>3, <1>6 DEF ToSet
  <2> QED  BY <1>5, <2>1, <2>4, <2>5 DEF keys
<1>7. CASE ~request.prefix.given
  <2>1. ToSet(request.keys) \in SUBSET Keys
    <3>1. \A i \in DOMAIN request.keys : request.keys[i] \in Keys  BY <1>1, LenProperties
    <3> QED  BY <3>1 DEF ToSet
  <2>2. keys = Ordered(ToSet(request.keys))  BY <1>7 DEF Selection
  <2> HIDE DEF keys
  <2> QED  BY <1>1, <1>2, <1>5, <1>7, <2>1, <2>2 DEF keys
<1> QED  BY <1>1, <1>6, <1>7

-----------------------------------------------------------------------------
(* The second invariant is kept: what a step may do to one task.           *)

\* A row only grows in results.
Progress ==
    \A t \in Tasks : row[t] # NoRow => IsPrefix(row[t].results, row'[t].results)

Kept == AccountInv' /\ Progress

\* Nothing of the other tasks changes.
Others(t) ==
    \A s \in Tasks \ {t} :
        /\ at'[s] = at[s] /\ task'[s] = task[s] /\ pending'[s] = pending[s]
        /\ item'[s] = item[s] /\ row'[s] = row[s] /\ asked'[s] = asked[s]
        /\ s \in tokens' <=> s \in tokens
        /\ s \in unpersisted' <=> s \in unpersisted
        /\ s \in acknowledged' <=> s \in acknowledged

LEMMA RowIsRecord ==
    ASSUME AccountInv, NEW t \in Tasks
    PROVE  /\ task[t] \in Records
           /\ row[t] # NoRow => row[t] \in Records /\ row[t].results \in Seq(Result)
BY RecordParts DEF AccountInv, TypeOK

LEMMA OthersKeep ==
    ASSUME AccountInv, NEW t \in Tasks, Others(t), TypeOK', MemoryFits(t)', StoreFits(t)',
           row[t] # NoRow => IsPrefix(row[t].results, row'[t].results)
    PROVE  Kept
<1>1. ASSUME NEW s \in Tasks \ {t} PROVE MemoryFits(s)' /\ StoreFits(s)'
  <2>1. MemoryFits(s) /\ StoreFits(s)  BY DEF AccountInv
  <2>2. /\ at'[s] = at[s] /\ task'[s] = task[s] /\ pending'[s] = pending[s]
        /\ item'[s] = item[s] /\ row'[s] = row[s] /\ asked'[s] = asked[s]
        /\ s \in tokens' <=> s \in tokens
        /\ s \in unpersisted' <=> s \in unpersisted
        /\ s \in acknowledged' <=> s \in acknowledged
    BY DEF Others
  <2>3. MemoryFits(s)'
    BY ONLY <2>1, <2>2 DEF MemoryFits
  <2>4. StoreFits(s)'
    BY ONLY <2>1, <2>2 DEF StoreFits, Terminal
  <2> QED  BY <2>3, <2>4
<1>2. AccountInv'  BY <1>1 DEF AccountInv
<1>3. Progress
  <2> SUFFICES ASSUME NEW s \in Tasks \ {t}, row[s] # NoRow
               PROVE  IsPrefix(row[s].results, row'[s].results)
    BY DEF Progress
  <2>1. row'[s] = row[s]  BY DEF Others
  <2>2. row[s].results \in Seq(Result)  BY RowIsRecord
  <2> QED  BY <2>1, <2>2, PrefixOfItself
<1> QED  BY <1>2, <1>3 DEF Kept

\* Types, when a step gives each variable of a task a value of its type.
LEMMA TypesKeep ==
    ASSUME TypeOK, IInv',
           task' \in [Tasks -> Records], pending' \in [Tasks -> Seq(Keys)],
           item' \in [Tasks -> [Keys -> Statuses]],
           row' \in [Tasks -> Records \cup {NoRow}], asked' \in [Tasks -> SUBSET Keys],
           tokens' \subseteq Tasks, unpersisted' \subseteq Tasks, acknowledged' \subseteq Tasks,
           process' \in {"up", "down", "opening"}, shutdown' \in BOOLEAN,
           stops' \in 0..MaxStops
    PROVE  TypeOK'
<1>1. ControlInv' /\ PermitsBalanced'  BY DEF IInv, QueueIsAccounted
<1>2. permits' \in 0..QueueLimit
  <2> DEFINE n == Cardinality(LiveTasks)
  <2>1. \A S \in SUBSET Tasks : Cardinality(S) \in Nat
    BY ServiceAssumption, FS_Subset, FS_CardinalityType
  <2>2. LiveTasks' \in SUBSET Tasks  BY DEF LiveTasks
  <2>3. Cardinality(LiveTasks') \in Nat  BY <2>1, <2>2
  <2>4. permits' + Cardinality(LiveTasks') = QueueLimit /\ permits' \in Nat
    BY <1>1 DEF PermitsBalanced, LiveTasks, ControlInv
  <2> QED  BY <2>3, <2>4, ServiceAssumption
<1>3. at' \in [Tasks -> Live \cup {"unused", "refused", "done", "lost"}]
      /\ registered' \subseteq Tasks
  BY <1>1 DEF ControlInv, Points
<1> QED  BY <1>2, <1>3 DEF TypeOK, Statuses

LEMMA EnqueueKeeps ==
    ASSUME IInv, IInv', AccountInv, NEW t \in Tasks,
           NEW keys \in Seq(Keys), NEW n \in Nat, NEW A \in SUBSET Keys,
           keys # <<>> => IsInjective(keys) /\ ToSet(keys) = A /\ n = Len(keys),
           Enqueue(t, NewTask(keys, n)), asked' = [asked EXCEPT ![t] = A]
    PROVE  Kept
<1> DEFINE r == NewTask(keys, n)
<1>1. /\ at[t] = "unused" /\ at' = [at EXCEPT ![t] = "saving"]
      /\ task' = [task EXCEPT ![t] = r] /\ unpersisted = {}
      /\ UNCHANGED <<pending, item, tokens, row, process, shutdown, unpersisted,
                     stops, acknowledged>>
  BY DEF Enqueue, Goto
<1>2. r \in Records /\ Keyed(A, r) /\ r.results = <<>>
  <2>1. <<>> \in Seq([key : Keys, outcome : Outcomes]) /\ Len(<<>>) = 0 /\ DOMAIN <<>> = {}
    BY EmptySeq
  <2>2. /\ r.keys = keys /\ r.total = n /\ r.completed = 0 /\ r.results = <<>>
    BY DEF NewTask
  <2>3. r \in Records  BY <2>1 DEF NewTask, Records, Unfinished
  <2>4. Reported(r) = {}  BY <2>1, <2>2 DEF Reported
  <2> HIDE DEF r
  <2> QED  BY <2>1, <2>2, <2>3, <2>4 DEF Keyed, IsRefresh
<1> HIDE DEF r
<1>3. TypeOK /\ MemoryFits(t)  BY DEF AccountInv
<1>4. /\ at'[t] = "saving" /\ task'[t] = r /\ asked'[t] = A /\ item'[t] = item[t]
      /\ t \notin unpersisted' /\ Others(t)
  BY <1>1, <1>3 DEF TypeOK, Others
<1>5. TypeOK'
  BY <1>1, <1>2, <1>3, TypesKeep DEF TypeOK, Statuses
<1>6. MemoryFits(t)'
  <2>1. item[t] = NothingSpawned /\ t \notin acknowledged'
    BY <1>1, <1>3 DEF MemoryFits
  <2> QED
    BY <1>2, <1>4, <2>1 DEF MemoryFits, Live, Running, Executing, Over
<1>7. row[t] = NoRow /\ row'[t] = NoRow
  BY <1>1 DEF IInv, RowInv, RowFits
<1>8. StoreFits(t)'  BY <1>7 DEF StoreFits
<1> QED  BY <1>4, <1>5, <1>6, <1>7, <1>8, OthersKeep

LEMMA SubmitKeeps ==
    ASSUME IInv, IInv', AccountInv, NEW t \in Tasks, SubmitExport(t) \/ SubmitRefresh(t)
    PROVE  Kept
<1>1. CASE SubmitExport(t)
  <2>1. PICK request \in Requests :
          /\ Selectable(request)
          /\ Enqueue(t, NewTask(Selection(request), Len(Selection(request))))
          /\ asked' = [asked EXCEPT ![t] = ToSet(request.keys) \cup request.prefix.matches]
    BY <1>1 DEF SubmitExport
  <2> DEFINE keys == Selection(request)
             A == ToSet(request.keys) \cup request.prefix.matches
  <2>2. keys \in Seq(Keys) /\ IsInjective(keys) /\ ToSet(keys) = A
    BY <2>1, SelectionIs
  <2>3. Len(keys) \in Nat /\ \A i \in DOMAIN keys : keys[i] \in Keys
    BY <2>2, LenProperties
  <2>4. A \in SUBSET Keys  BY <2>2, <2>3 DEF ToSet
  <2> HIDE DEF keys, A
  <2> QED  BY <2>1, <2>2, <2>3, <2>4, EnqueueKeeps DEF keys, A
<1>2. CASE SubmitRefresh(t)
  <2>1. Enqueue(t, NewTask(<<>>, 1)) /\ asked' = asked
    BY <1>2 DEF SubmitRefresh
  <2>2. asked[t] \in SUBSET Keys /\ asked' = [asked EXCEPT ![t] = asked[t]]
    BY <2>1 DEF AccountInv, TypeOK
  <2>3. <<>> \in Seq(Keys) /\ 1 \in Nat  BY EmptySeq
  <2> QED  BY <2>1, <2>2, <2>3, EnqueueKeeps
<1> QED  BY <1>1, <1>2

LEMMA SaveQueuedKeeps ==
    ASSUME IInv, IInv', AccountInv, NEW t \in Tasks, SaveQueued(t) \/ Disconnect(t)
    PROVE  Kept
<1>1. /\ at[t] = "saving" /\ at' = [at EXCEPT ![t] = at'[t]]
      /\ at'[t] \in {"registering", "refused"}
      /\ row' = row \/ row' = [row EXCEPT ![t] = task[t]]
      /\ UNCHANGED <<task, pending, item, tokens, process, shutdown, unpersisted,
                     stops, asked, acknowledged>>
  BY DEF SaveQueued, Disconnect, Goto, IInv, ControlInv
<1>2. TypeOK /\ MemoryFits(t)  BY DEF AccountInv
<1>3. Others(t)  BY <1>1, <1>2 DEF TypeOK, Others
<1>4. TypeOK'
  BY <1>1, <1>2, TypesKeep DEF TypeOK, Statuses
<1>5. /\ Keyed(asked[t], task[t]) /\ item[t] = NothingSpawned /\ task[t].results = <<>>
      /\ t \notin acknowledged /\ t \notin unpersisted
  BY <1>1, <1>2 DEF MemoryFits, Live
<1>6. MemoryFits(t)'
  BY <1>1, <1>5 DEF MemoryFits, Live, Running, Executing, Over
<1>7. row[t] = NoRow /\ ~Terminal(task[t])
  BY <1>1 DEF IInv, RowInv, RowFits, RecordInv, RecordFits, Terminal, Unfinished
<1>8. row'[t] \in {NoRow, task[t]}  BY <1>1, <1>2, <1>7 DEF TypeOK
<1>9. StoreFits(t)'
  <2>1. task[t].results \in Seq(Result)
    BY RowIsRecord, RecordParts
  <2>2. IsPrefix(task[t].results, task[t].results)
    BY <2>1, PrefixOfItself
  <2> QED  BY <1>1, <1>5, <1>7, <1>8, <2>2 DEF StoreFits, Terminal
<1> QED  BY <1>3, <1>4, <1>6, <1>7, <1>9, OthersKeep

LEMMA RegisterKeeps ==
    ASSUME IInv, IInv', AccountInv, NEW t \in Tasks, Register(t)
    PROVE  Kept
<1>1. /\ at[t] = "registering" /\ at' = [at EXCEPT ![t] = "starting"]
      /\ tokens' = IF shutdown THEN tokens \cup {t} ELSE tokens
      /\ UNCHANGED <<task, pending, item, row, process, shutdown, unpersisted,
                     stops, asked, acknowledged>>
  BY DEF Register, Goto
<1>2. TypeOK /\ MemoryFits(t) /\ StoreFits(t)  BY DEF AccountInv
<1>3. Others(t) /\ at'[t] = "starting"  BY <1>1, <1>2 DEF TypeOK, Others
<1>4. TypeOK'
  BY <1>1, <1>2, TypesKeep DEF TypeOK, Statuses
<1>5. MemoryFits(t)'
  BY <1>1, <1>2, <1>3 DEF MemoryFits, Live, Running, Executing, Over
<1>6. StoreFits(t)'
  BY <1>1, <1>2, <1>3 DEF StoreFits, Terminal, Unsaved, Live
<1>7. row[t] # NoRow => IsPrefix(row[t].results, row'[t].results)
  BY <1>1, RowIsRecord, PrefixOfItself
<1> QED  BY <1>3, <1>4, <1>5, <1>6, <1>7, OthersKeep

LEMMA StartKeeps ==
    ASSUME IInv, IInv', AccountInv, NEW t \in Tasks, Start(t)
    PROVE  Kept
<1> DEFINE running == [task[t] EXCEPT !.state = "running"]
<1>1. /\ at[t] = "starting" /\ pending' = [pending EXCEPT ![t] = task[t].keys]
      /\ UNCHANGED <<item, serviceVars>>
      /\ at' = [at EXCEPT ![t] = at'[t]]
  BY DEF Start, Goto, IInv, ControlInv
<1>2. TypeOK /\ MemoryFits(t) /\ StoreFits(t)  BY DEF AccountInv
<1>3. /\ Keyed(asked[t], task[t]) /\ item[t] = NothingSpawned /\ task[t].results = <<>>
      /\ t \in acknowledged => t \in tokens
      /\ t \notin unpersisted
  BY <1>1, <1>2 DEF MemoryFits, Live
<1>4. /\ Keyed(asked[t], running) /\ (IsRefresh(running) <=> IsRefresh(task[t]))
      /\ running.keys = task[t].keys /\ running.results = <<>> /\ running.state = "running"
  BY <1>3, RunningRecord
<1>5. \/ /\ row' = [row EXCEPT ![t] = running] /\ task' = [task EXCEPT ![t] = running]
         /\ at'[t] = IF IsRefresh(running) THEN "refreshing" ELSE "filling"
         /\ UNCHANGED tokens
      \/ /\ row' = row /\ task' = [task EXCEPT ![t] = PersistenceFailed(running)]
         /\ at'[t] = IF IsRefresh(running) THEN "finishing" ELSE "filling"
         /\ tokens' = IF IsRefresh(running) THEN tokens ELSE tokens \cup {t}
  BY <1>4 DEF Start, Goto, IInv, ControlInv
<1> HIDE DEF running
<1> DEFINE r == task'[t]
<1>6. /\ r = running \/ r = PersistenceFailed(running)
      /\ task' = [task EXCEPT ![t] = r]
  BY <1>2, <1>5 DEF TypeOK
<1>7. /\ Keyed(asked[t], r) /\ (IsRefresh(r) <=> IsRefresh(running))
      /\ r.keys = task[t].keys /\ r.results = <<>>
  <2> DEFINE u == PersistenceFailed(running)
  <2>1. /\ Keyed(asked[t], u) /\ (IsRefresh(u) <=> IsRefresh(running))
        /\ u.keys = running.keys /\ u.results = running.results
    BY <1>4, FailedRecord
  <2>2. r = running \/ r = u  BY <1>6
  <2> HIDE DEF u, r
  <2> QED  BY <1>4, <2>1, <2>2
<1>8. r \in Records /\ running \in Records  BY <1>4, <1>7 DEF Keyed
<1> HIDE DEF r
<1>9. /\ task'[t] = r /\ pending'[t] = task[t].keys /\ item'[t] = NothingSpawned
      /\ asked'[t] = asked[t] /\ t \notin unpersisted'
      /\ (t \in acknowledged' <=> t \in acknowledged)
      /\ Others(t) /\ row'[t] \in {row[t], running}
  BY <1>1, <1>2, <1>3, <1>5, <1>6 DEF TypeOK, Others, serviceVars, r
<1>10. TypeOK'
  <2>1. task[t].keys \in Seq(Keys)  BY <1>3, RecordParts DEF Keyed
  <2>2. tokens' \subseteq Tasks  BY <1>2, <1>5 DEF TypeOK
  <2>3. row' \in [Tasks -> Records \cup {NoRow}]  BY <1>2, <1>5, <1>8 DEF TypeOK
  <2>4. task' \in [Tasks -> Records]  BY <1>2, <1>6, <1>8 DEF TypeOK
  <2>5. pending' \in [Tasks -> Seq(Keys)]  BY <1>1, <1>2, <2>1 DEF TypeOK
  <2> QED  BY <1>1, <1>2, <2>2, <2>3, <2>4, <2>5, TypesKeep DEF TypeOK, Statuses, serviceVars
<1>11. MemoryFits(t)'
  <2>1. ~IsRefresh(r) => InTransit(r, task[t].keys, NothingSpawned)
    BY <1>7 DEF InTransit, Keyed, IsRefresh, Reported, NothingSpawned
  <2>2. IsRefresh(r) => Settled(asked[t], t \in acknowledged', r)
    BY DEF Settled
  <2>3. at'[t] \in {"refreshing", "finishing"} <=> IsRefresh(r)
    BY <1>5, <1>7
  <2>4. at'[t] \in {"refreshing", "finishing", "filling"}  BY <1>5
  <2>5. t \in acknowledged' => t \in tokens'  BY <1>3, <1>5, <1>9
  <2> QED
    BY <1>7, <1>9, <2>1, <2>2, <2>3, <2>4, <2>5
    DEF MemoryFits, Live, Running, Executing, Over
<1>12. row[t] # NoRow => row[t].results = <<>>
  BY <1>1, <1>2, <1>3, RowIsRecord, PrefixOfEmpty DEF StoreFits, Unsaved, Live
<1>13. row'[t] # NoRow => row'[t].results = <<>>
  BY <1>4, <1>9, <1>12
<1>14. IsPrefix(<<>>, <<>>)
  <2>1. <<>> \in Seq(Result)  BY EmptySeq
  <2> QED  BY <2>1, PrefixOfItself
<1>15. StoreFits(t)'
  <2>1. row'[t] # NoRow => Keyed(asked[t], row'[t])
    BY <1>2, <1>4, <1>9 DEF StoreFits
  <2>2. ~Terminal(row[t]) /\ ~Terminal(running)
    BY <1>1, <1>4 DEF IInv, RowInv, RowFits, Terminal, Unfinished, Unsaved, Live
  <2>3. ~Terminal(row[t])'
    BY <1>9, <2>2 DEF Terminal
  <2> QED  BY <1>7, <1>9, <1>13, <1>14, <2>1, <2>3 DEF StoreFits
<1>16. row[t] # NoRow => IsPrefix(row[t].results, row'[t].results)
  <2>1. row[t] # NoRow => row'[t].results = <<>>
    BY <1>4, <1>9, <1>12
  <2> QED  BY <1>12, <1>14, <2>1
<1> QED  BY <1>9, <1>10, <1>11, <1>15, <1>16, OthersKeep

LEMMA RefreshEndsKeeps ==
    ASSUME IInv, IInv', AccountInv, NEW t \in Tasks, RefreshEnds(t)
    PROVE  Kept
<1>1. /\ at[t] = "refreshing" /\ at' = [at EXCEPT ![t] = "finishing"]
      /\ UNCHANGED <<pending, item, tokens, row, serviceVars>>
  BY DEF RefreshEnds, Goto
<1>2. TypeOK /\ MemoryFits(t) /\ StoreFits(t)  BY DEF AccountInv
<1>3. /\ task[t] \in Records /\ IsRefresh(task[t]) /\ t \notin unpersisted
  BY <1>1, <1>2 DEF MemoryFits, TypeOK
<1>4. PICK r \in Records : /\ task' = [task EXCEPT ![t] = r]
                           /\ r.keys = task[t].keys /\ r.results = task[t].results
  <2> DEFINE good == [task[t] EXCEPT !.state = "succeeded", !.completed = 1]
             bad == [task[t] EXCEPT !.state = IF t \in tokens THEN "cancelled" ELSE "failed",
                                    !.error = "refresh"]
  <2>1. task' = [task EXCEPT ![t] = good] \/ task' = [task EXCEPT ![t] = bad]
    <3>1. \/ task' = [task EXCEPT ![t].state = "succeeded", ![t].completed = 1]
          \/ task' = [task EXCEPT
                        ![t].state = IF t \in tokens THEN "cancelled" ELSE "failed",
                        ![t].error = "refresh"]
      BY DEF RefreshEnds
    <3> QED  BY <1>2, <1>3, <3>1 DEF TypeOK
  <2>2. good \in Records /\ good.keys = task[t].keys /\ good.results = task[t].results
    BY <1>3 DEF Records
  <2>3. bad \in Records /\ bad.keys = task[t].keys /\ bad.results = task[t].results
    BY <1>3 DEF Records
  <2> HIDE DEF good, bad
  <2> QED  BY <2>1, <2>2, <2>3
<1>5. IsRefresh(r)  BY <1>3, <1>4 DEF IsRefresh
<1>6. /\ at'[t] = "finishing" /\ task'[t] = r /\ row'[t] = row[t] /\ asked'[t] = asked[t]
      /\ t \notin unpersisted' /\ (t \in acknowledged' <=> t \in acknowledged)
      /\ Others(t)
  BY <1>1, <1>2, <1>3, <1>4 DEF TypeOK, Others, serviceVars
<1>7. TypeOK'
  BY <1>1, <1>2, <1>4, TypesKeep DEF TypeOK, Statuses, serviceVars
<1>8. MemoryFits(t)'
  BY <1>5, <1>6 DEF MemoryFits, Keyed, Settled, Live, Running, Executing, Over
<1>9. StoreFits(t)'
  BY <1>1, <1>2, <1>4, <1>6 DEF StoreFits, Terminal, Unsaved, Live, Running
<1>10. row[t] # NoRow => IsPrefix(row[t].results, row'[t].results)
  BY <1>6, RowIsRecord, PrefixOfItself
<1> QED  BY <1>6, <1>7, <1>8, <1>9, <1>10, OthersKeep

\* finish_task, the first save and the second.
LEMMA FinishKeeps ==
    ASSUME IInv, IInv', AccountInv, NEW t \in Tasks, FinishTask(t) \/ RetryFinish(t)
    PROVE  Kept
<1>1. /\ at[t] \in {"finishing", "retrying"}
      /\ at' = [at EXCEPT ![t] = at'[t]] /\ at'[t] \in {"removing", "retrying", "retaining"}
      /\ UNCHANGED <<pending, item, tokens, serviceVars>>
  BY DEF FinishTask, RetryFinish, AfterFinish, Goto, IInv, ControlInv
<1>2. \/ task' = task /\ row' = row
      \/ task' = task /\ row' = [row EXCEPT ![t] = task[t]]
      \/ task' = [task EXCEPT ![t] = PersistenceFailed(task[t])] /\ row' = row
  BY DEF FinishTask, RetryFinish
<1>3. TypeOK /\ MemoryFits(t) /\ StoreFits(t)  BY DEF AccountInv
<1>4. /\ Keyed(asked[t], task[t]) /\ Settled(asked[t], t \in acknowledged, task[t])
      /\ t \notin unpersisted
  BY <1>1, <1>3 DEF MemoryFits, Live, Over
<1>5. /\ Keyed(asked[t], PersistenceFailed(task[t]))
      /\ Settled(asked[t], t \in acknowledged, PersistenceFailed(task[t]))
      /\ PersistenceFailed(task[t]).results = task[t].results
  BY <1>4, FailedRecord, FailedIsSettled
<1> DEFINE r == task'[t]
<1>6. /\ r = task[t] \/ r = PersistenceFailed(task[t])
      /\ task' = [task EXCEPT ![t] = r]
      /\ row'[t] = row[t] \/ row'[t] = task[t]
      /\ DOMAIN task = Tasks
  BY <1>2, <1>3 DEF TypeOK
<1>7. /\ Keyed(asked[t], r) /\ Settled(asked[t], t \in acknowledged, r)
      /\ r.results = task[t].results /\ r \in Records
  BY <1>4, <1>5, <1>6 DEF Keyed
<1>8. /\ asked'[t] = asked[t] /\ t \notin unpersisted'
      /\ (t \in acknowledged' <=> t \in acknowledged)
      /\ Others(t)
  BY <1>1, <1>2, <1>3, <1>4 DEF TypeOK, Others, serviceVars
<1> HIDE DEF r
<1>9. TypeOK'
  <2>1. task' \in [Tasks -> Records]  BY <1>3, <1>6, <1>7 DEF TypeOK
  <2>2. row' \in [Tasks -> Records \cup {NoRow}]  BY <1>2, <1>3 DEF TypeOK
  <2> QED  BY <1>1, <1>3, <2>1, <2>2, TypesKeep DEF TypeOK, Statuses, serviceVars
<1>10. MemoryFits(t)'
  <2>1. task'[t] = r  BY DEF r
  <2> QED
    BY <1>1, <1>7, <1>8, <2>1
    DEF MemoryFits, Settled, Live, Running, Executing, Over
<1>11. IsPrefix(task[t].results, task[t].results)
  BY RowIsRecord, RecordParts, PrefixOfItself
<1>12. row[t] # NoRow => IsPrefix(row[t].results, task[t].results)
  BY <1>1, <1>3 DEF StoreFits, Unsaved, Live
<1>13. StoreFits(t)'
  <2>1. row'[t] # NoRow => Keyed(asked[t], row'[t]) /\ IsPrefix(row'[t].results, task[t].results)
    BY <1>3, <1>4, <1>6, <1>11, <1>12 DEF StoreFits
  <2>2. row'[t] # NoRow /\ Terminal(row'[t]) => Settled(asked[t], t \in acknowledged, row'[t])
    BY <1>3, <1>4, <1>6 DEF StoreFits
  <2>3. task'[t] = r  BY DEF r
  <2> QED  BY <1>7, <1>8, <2>1, <2>2, <2>3 DEF StoreFits, Terminal, Settled
<1>14. row[t] # NoRow => IsPrefix(row[t].results, row'[t].results)
  BY <1>6, <1>12, RowIsRecord, PrefixOfItself
<1> QED  BY <1>8, <1>9, <1>10, <1>13, <1>14, OthersKeep

LEMMA LeaveKeeps ==
    ASSUME IInv, IInv', AccountInv, NEW t \in Tasks,
           Retain(t) \/ Unregister(t) \/ ReleasePermit(t)
    PROVE  Kept
<1>1. /\ at[t] \in {"retaining", "removing", "releasing"}
      /\ at' = [at EXCEPT ![t] = at'[t]] /\ at'[t] \in {"removing", "releasing", "done"}
      /\ unpersisted' \in {unpersisted, unpersisted \cup {t}}
      /\ UNCHANGED <<task, pending, item, tokens, row, process, shutdown, stops, asked,
                     acknowledged>>
  BY DEF Retain, Unregister, ReleasePermit, AfterFinish, Goto, IInv, ControlInv
<1>2. TypeOK /\ MemoryFits(t) /\ StoreFits(t)  BY DEF AccountInv
<1>3. Others(t)  BY <1>1, <1>2 DEF TypeOK, Others
<1>4. TypeOK'
  BY <1>1, <1>2, TypesKeep DEF TypeOK, Statuses
<1>5. Keyed(asked[t], task[t]) /\ Settled(asked[t], t \in acknowledged, task[t])
  BY <1>1, <1>2 DEF MemoryFits, Live, Over
<1>6. MemoryFits(t)'
  BY <1>1, <1>5 DEF MemoryFits, Settled, Live, Running, Executing, Over
<1>7. StoreFits(t)'
  <2>1. at'[t] \notin Unsaved  BY <1>1 DEF Unsaved, Live, Running
  <2> QED  BY <1>1, <1>2, <2>1 DEF StoreFits, Terminal, Settled
<1>8. row[t] # NoRow => IsPrefix(row[t].results, row'[t].results)
  BY <1>1, RowIsRecord, PrefixOfItself
<1> QED  BY <1>3, <1>4, <1>6, <1>7, <1>8, OthersKeep

-----------------------------------------------------------------------------
(* The loop of task_runner::run.                                           *)

LEMMA TailIs ==
    ASSUME NEW s \in Seq(Keys), s # <<>>, IsInjective(s)
    PROVE  /\ Head(s) \in Keys /\ Tail(s) \in Seq(Keys) /\ IsInjective(Tail(s))
           /\ ToSet(Tail(s)) = ToSet(s) \ {Head(s)} /\ Head(s) \in ToSet(s)
<1> DEFINE n == Len(s)
           u == Tail(s)
<1>1. /\ n \in Nat \ {0} /\ DOMAIN s = 1..n  BY EmptySeq, LenProperties
<1>2. /\ Head(s) \in Keys /\ u \in Seq(Keys) /\ Len(u) = n - 1
      /\ \A i \in 1..Len(u) : u[i] = s[i + 1]
  BY HeadTailProperties
<1>3. Head(s) = s[1]  OBVIOUS
<1>4. DOMAIN u = 1..(n - 1)  BY <1>2, LenProperties
<1> HIDE DEF u, n
<1>5. \A i \in 1..(n - 1) : i + 1 \in 1..n /\ i + 1 # 1 /\ u[i] = s[i + 1]
  BY <1>1, <1>2
<1>6. \A i \in 1..n : i = 1 \/ (i - 1 \in 1..(n - 1) /\ u[i - 1] = s[i])
  <2> SUFFICES ASSUME NEW i \in 1..n, i # 1
               PROVE  i - 1 \in 1..(n - 1) /\ u[i - 1] = s[i]
    OBVIOUS
  <2>1. i - 1 \in 1..(n - 1) /\ (i - 1) + 1 = i  BY <1>1
  <2> QED  BY <1>5, <2>1
<1>7. 1 \in 1..n  BY <1>1
<1>8. \A i, j \in 1..n : s[i] = s[j] => i = j  BY <1>1 DEF IsInjective
<1>9. IsInjective(u)
  <2> SUFFICES ASSUME NEW i \in 1..(n - 1), NEW j \in 1..(n - 1), u[i] = u[j]
               PROVE  i = j
    BY <1>4 DEF IsInjective
  <2>1. i + 1 = j + 1  BY <1>5, <1>8
  <2> QED  BY <2>1
<1>10. ToSet(u) = ToSet(s) \ {Head(s)}
  <2>1. ToSet(u) = {u[i] : i \in 1..(n - 1)}  BY <1>4 DEF ToSet
  <2>2. ToSet(s) = {s[i] : i \in 1..n}  BY <1>1 DEF ToSet
  <2>3. \A i \in 1..(n - 1) : u[i] \in ToSet(s) \ {Head(s)}
    BY <1>3, <1>5, <1>7, <1>8, <2>2
  <2>4. \A i \in 1..n : s[i] # Head(s) => s[i] \in ToSet(u)
    BY <1>3, <1>6, <2>1
  <2> QED  BY <2>1, <2>2, <2>3, <2>4
<1>11. Head(s) \in ToSet(s)  BY <1>1, <1>3, <1>7 DEF ToSet
<1> QED  BY <1>2, <1>9, <1>10, <1>11 DEF u

\* A step inside the loop that saves nothing.
LEMMA LoopFrame ==
    ASSUME IInv, IInv', AccountInv, NEW t \in Tasks, at[t] \in Executing,
           NEW p \in Executing, NEW r \in Records, NEW left \in Seq(Keys),
           NEW status \in [Keys -> Statuses],
           at' = [at EXCEPT ![t] = p], task' = [task EXCEPT ![t] = r],
           pending' = [pending EXCEPT ![t] = left], item' = [item EXCEPT ![t] = status],
           UNCHANGED <<row, serviceVars>>, tokens' \in {tokens, tokens \cup {t}},
           Keyed(asked[t], r), InTransit(r, left, status),
           row[t] # NoRow => IsPrefix(row[t].results, r.results)
    PROVE  Kept
<1>1. TypeOK /\ MemoryFits(t) /\ StoreFits(t)  BY DEF AccountInv
<1>2. /\ at'[t] = p /\ task'[t] = r /\ pending'[t] = left /\ item'[t] = status
      /\ asked'[t] = asked[t] /\ row'[t] = row[t] /\ Others(t)
      /\ (t \in unpersisted' <=> t \in unpersisted)
      /\ (t \in acknowledged' <=> t \in acknowledged)
      /\ (t \in tokens => t \in tokens')
  BY <1>1 DEF TypeOK, Others, serviceVars, Statuses
<1>3. TypeOK'
  <2>1. item' \in [Tasks -> [Keys -> Statuses]]  BY <1>1 DEF TypeOK, Statuses
  <2> QED  BY <1>1, <2>1, TypesKeep DEF TypeOK, serviceVars
<1>4. /\ p \in Live /\ at[t] \in Running /\ p \in Unsaved /\ at[t] \in Unsaved
      /\ p \notin {"unused", "saving", "registering", "starting", "refreshing"} \cup Over
  BY DEF Executing, Live, Running, Unsaved, Over
<1>5. t \notin unpersisted /\ (t \in acknowledged => t \in tokens)
  BY <1>1, <1>4 DEF MemoryFits, Executing
<1>6. MemoryFits(t)'
  BY <1>2, <1>4, <1>5 DEF MemoryFits
<1>7. StoreFits(t)'
  BY <1>1, <1>2 DEF StoreFits, Terminal, Settled
<1>8. row[t] # NoRow => IsPrefix(row[t].results, row'[t].results)
  BY <1>2, RowIsRecord, PrefixOfItself
<1> QED  BY <1>2, <1>3, <1>6, <1>7, <1>8, OthersKeep

\* What holds of a task in the loop.
LEMMA InLoop ==
    ASSUME AccountInv, NEW t \in Tasks, at[t] \in Executing
    PROVE  /\ task[t] \in Records /\ pending[t] \in Seq(Keys)
           /\ item[t] \in [Keys -> Statuses]
           /\ at = [at EXCEPT ![t] = at[t]] /\ task = [task EXCEPT ![t] = task[t]]
           /\ pending = [pending EXCEPT ![t] = pending[t]]
           /\ item = [item EXCEPT ![t] = item[t]]
           /\ Keyed(asked[t], task[t]) /\ InTransit(task[t], pending[t], item[t])
           /\ row[t] # NoRow => IsPrefix(row[t].results, task[t].results)
<1>1. TypeOK /\ MemoryFits(t) /\ StoreFits(t)  BY DEF AccountInv
<1>2. at[t] \in Live /\ at[t] \in Unsaved  BY DEF Executing, Live, Running, Unsaved
<1>3. /\ Keyed(asked[t], task[t]) /\ InTransit(task[t], pending[t], item[t])
      /\ row[t] # NoRow => IsPrefix(row[t].results, task[t].results)
  BY <1>1, <1>2 DEF MemoryFits, StoreFits
<1>4. /\ task[t] \in Records /\ pending[t] \in Seq(Keys)
      /\ item[t] \in [Keys -> Statuses]
      /\ at = [at EXCEPT ![t] = at[t]] /\ task = [task EXCEPT ![t] = task[t]]
      /\ pending = [pending EXCEPT ![t] = pending[t]]
      /\ item = [item EXCEPT ![t] = item[t]]
  BY <1>1 DEF TypeOK, Statuses
<1> QED  BY <1>3, <1>4

LEMMA SpawnKeeps ==
    ASSUME IInv, IInv', AccountInv, NEW t \in Tasks, Spawn(t), UNCHANGED serviceVars
    PROVE  Kept
<1> DEFINE k == Head(pending[t])
           left == Tail(pending[t])
           status == [item[t] EXCEPT ![k] = "active"]
<1>1. /\ at[t] = "filling" /\ pending[t] # <<>>
      /\ item' = [item EXCEPT ![t][k] = "active"]
      /\ pending' = [pending EXCEPT ![t] = left]
      /\ UNCHANGED <<at, task, tokens, row>>
  BY DEF Spawn, SetItem
<1>2. at[t] \in Executing  BY <1>1 DEF Executing
<1>3. /\ task[t] \in Records /\ pending[t] \in Seq(Keys)
      /\ item[t] \in [Keys -> Statuses]
      /\ at = [at EXCEPT ![t] = at[t]] /\ task = [task EXCEPT ![t] = task[t]]
      /\ Keyed(asked[t], task[t]) /\ InTransit(task[t], pending[t], item[t])
      /\ row[t] # NoRow => IsPrefix(row[t].results, task[t].results)
      /\ DOMAIN item = Tasks
  BY <1>2, InLoop DEF AccountInv, TypeOK
<1>4. /\ k \in Keys /\ left \in Seq(Keys) /\ IsInjective(left)
      /\ ToSet(left) = ToSet(pending[t]) \ {k} /\ k \in ToSet(pending[t])
  BY <1>1, <1>3, TailIs DEF InTransit
<1> HIDE DEF k, left
<1>5. /\ item' = [item EXCEPT ![t] = status] /\ status \in [Keys -> Statuses]
      /\ \A j \in Keys : status[j] = IF j = k THEN "active" ELSE item[t][j]
  BY <1>1, <1>3, <1>4 DEF Statuses
<1> HIDE DEF status
<1>6. InTransit(task[t], left, status)
  BY <1>3, <1>4, <1>5 DEF InTransit
<1> QED  BY <1>1, <1>2, <1>3, <1>4, <1>5, <1>6, LoopFrame

LEMMA FilledKeeps ==
    ASSUME IInv, IInv', AccountInv, NEW t \in Tasks, Filled(t), UNCHANGED serviceVars
    PROVE  Kept
<1>1. /\ at[t] = "filling" /\ at' = [at EXCEPT ![t] = "joining"]
      /\ UNCHANGED <<task, pending, item, tokens, row>>
  BY DEF Filled
<1>2. at[t] \in Executing /\ "joining" \in Executing  BY <1>1 DEF Executing
<1> QED  BY <1>1, <1>2, InLoop, LoopFrame

LEMMA JoinKeeps ==
    ASSUME IInv, IInv', AccountInv, NEW t \in Tasks, Join(t), UNCHANGED serviceVars
    PROVE  Kept
<1>1. PICK k \in Keys :
        /\ item[t][k] \in Ended
        /\ LET done == [task[t] EXCEPT
                          !.results = Append(@, ItemResult(k, item[t][k])),
                          !.completed = Len(task[t].results) + 1]
           IN  /\ task' = [task EXCEPT ![t] = done]
               /\ at' = [at EXCEPT ![t] = IF CheckpointDue(done)
                                          THEN "checkpoint" ELSE "filling"]
        /\ SetItem(t, k, "joined")
  BY DEF Join
<1>2. at[t] \in Executing /\ UNCHANGED <<pending, tokens, row>>
  BY DEF Join, Executing
<1>3. /\ task[t] \in Records /\ pending[t] \in Seq(Keys)
      /\ item[t] \in [Keys -> Statuses]
      /\ pending = [pending EXCEPT ![t] = pending[t]]
      /\ Keyed(asked[t], task[t]) /\ InTransit(task[t], pending[t], item[t])
      /\ row[t] # NoRow => IsPrefix(row[t].results, task[t].results)
      /\ DOMAIN item = Tasks
  BY <1>2, InLoop DEF AccountInv, TypeOK
<1> DEFINE x == ItemResult(k, item[t][k])
           old == task[t].results
           new == old \o <<x>>
           r == [task[t] EXCEPT !.results = new, !.completed = Len(old) + 1]
           status == [item[t] EXCEPT ![k] = "joined"]
           p == IF CheckpointDue(r) THEN "checkpoint" ELSE "filling"
<1>4. x \in Result /\ x.key = k
  BY <1>1 DEF ItemResult, Result, Outcomes
<1>5. old \in Seq(Result) /\ Once(old) /\ KeysOf(old) = Reported(task[t])
  BY <1>3, RecordParts DEF Keyed, InTransit, Once
<1>6. <<x>> \in Seq(Result) /\ Once(<<x>>) /\ KeysOf(<<x>>) = {k}
  <2> HIDE DEF x
  <2>1. <<x>> \in Seq(Result) /\ DOMAIN <<x>> = {1} /\ <<x>>[1] = x
    BY <1>4
  <2> QED  BY <1>4, <2>1 DEF Once, KeysOf
<1> HIDE DEF x, old
<1>7. item[t][k] # "joined" /\ item[t][k] # "none" /\ k \notin KeysOf(old)
  BY <1>1, <1>3, <1>5 DEF Ended, InTransit
<1>8. /\ new \in Seq(Result) /\ Once(new) /\ KeysOf(new) = KeysOf(old) \cup {k}
      /\ Append(old, x) = new /\ Len(new) = Len(old) + 1 /\ Len(old) \in Nat
  <2>1. /\ new \in Seq(Result) /\ Once(new)
        /\ KeysOf(new) = KeysOf(old) \cup KeysOf(<<x>>)
    <3>1. KeysOf(old) \cap KeysOf(<<x>>) = {}  BY <1>6, <1>7
    <3> QED  BY <1>5, <1>6, <3>1, ResultsJoin
  <2>2. Append(old, x) = new  BY <1>4, <1>5, AppendIsConcat
  <2>3. Len(Append(old, x)) = Len(old) + 1 /\ Len(old) \in Nat
    BY <1>4, <1>5, AppendProperties, LenProperties
  <2> QED  BY <1>6, <2>1, <2>2, <2>3
<1> HIDE DEF new
<1>9. task' = [task EXCEPT ![t] = r] /\ at' = [at EXCEPT ![t] = p]
  <2>1. r = [task[t] EXCEPT !.results = Append(@, ItemResult(k, item[t][k])),
                            !.completed = Len(task[t].results) + 1]
    BY <1>3, <1>8 DEF x, old, Records
  <2> QED  BY <1>1, <2>1
<1>10. /\ r \in Records /\ r.keys = task[t].keys /\ r.total = task[t].total
       /\ r.results = new /\ r.completed = Len(new)
  <2>1. new \in Seq([key : Keys, outcome : Outcomes])  BY <1>8 DEF Result
  <2>2. Len(old) + 1 \in Nat  BY <1>8
  <2>3. r \in Records  BY <1>3, <2>1, <2>2 DEF Records
  <2>4. /\ r.keys = task[t].keys /\ r.total = task[t].total
        /\ r.results = new /\ r.completed = Len(old) + 1
    BY <1>3 DEF Records
  <2> QED  BY <1>8, <2>3, <2>4
<1>11. p \in Executing  BY DEF Executing
<1> HIDE DEF r, p
<1>12. /\ item' = [item EXCEPT ![t] = status] /\ status \in [Keys -> Statuses]
       /\ \A j \in Keys : status[j] = IF j = k THEN "joined" ELSE item[t][j]
  BY <1>1, <1>3 DEF SetItem, Statuses
<1> HIDE DEF status
<1>13. Reported(r) = Reported(task[t]) \cup {k}
  BY <1>5, <1>8, <1>10, RecordParts
<1>14. k \in ToSet(task[t].keys) /\ ~IsRefresh(task[t])
  BY <1>3, <1>7 DEF InTransit
<1>15. Keyed(asked[t], r)
  BY <1>3, <1>8, <1>10, <1>13, <1>14 DEF Keyed, IsRefresh, Once
<1>16. InTransit(r, pending[t], status)
  BY <1>3, <1>7, <1>10, <1>12, <1>13 DEF InTransit, IsRefresh
<1>17. row[t] # NoRow => IsPrefix(row[t].results, r.results)
  <2>1. row[t] # NoRow => row[t].results \in Seq(Result)  BY RowIsRecord
  <2> QED  BY <1>3, <1>5, <1>6, <1>10, <2>1, PrefixGrows DEF new, old
<1> QED  BY <1>2, <1>3, <1>9, <1>10, <1>11, <1>12, <1>15, <1>16, <1>17, LoopFrame

LEMMA CheckpointKeeps ==
    ASSUME IInv, IInv', AccountInv, NEW t \in Tasks, Checkpoint(t), UNCHANGED serviceVars
    PROVE  Kept
<1>1. /\ at[t] = "checkpoint" /\ at' = [at EXCEPT ![t] = "filling"]
      /\ UNCHANGED <<pending, item>>
  BY DEF Checkpoint
<1>2. at[t] \in Executing /\ "filling" \in Executing  BY <1>1 DEF Executing
<1>3. /\ task[t] \in Records /\ pending[t] \in Seq(Keys)
      /\ item[t] \in [Keys -> Statuses]
      /\ pending = [pending EXCEPT ![t] = pending[t]]
      /\ item = [item EXCEPT ![t] = item[t]]
      /\ Keyed(asked[t], task[t]) /\ InTransit(task[t], pending[t], item[t])
      /\ row[t] # NoRow => IsPrefix(row[t].results, task[t].results)
  BY <1>2, InLoop
<1>4. CASE /\ row' = [row EXCEPT ![t] = task[t]] /\ UNCHANGED <<task, tokens>>
  <2>1. TypeOK /\ MemoryFits(t)  BY DEF AccountInv
  <2>2. /\ at'[t] = "filling" /\ row'[t] = task[t] /\ task'[t] = task[t] /\ Others(t)
        /\ asked'[t] = asked[t]
    BY <1>1, <1>4, <2>1 DEF TypeOK, Others, serviceVars
  <2>3. TypeOK'
    BY <1>1, <1>3, <1>4, <2>1, TypesKeep DEF TypeOK, Statuses, serviceVars
  <2>4. MemoryFits(t)'
    BY <1>1, <1>3, <1>4, <2>1, <2>2
    DEF MemoryFits, Settled, Live, Running, Executing, Over, serviceVars
  <2>5. ~Terminal(task[t])
    BY <1>1 DEF IInv, RecordInv, RecordFits, Terminal, Unfinished
  <2>6. IsPrefix(task[t].results, task[t].results)
    BY <1>3, RecordParts, PrefixOfItself
  <2>7. StoreFits(t)'
    BY <1>3, <2>2, <2>5, <2>6 DEF StoreFits, Terminal
  <2> QED  BY <1>3, <2>2, <2>3, <2>4, <2>7, OthersKeep
<1>5. CASE /\ task' = [task EXCEPT ![t] = PersistenceFailed(task[t])]
           /\ tokens' = tokens \cup {t} /\ UNCHANGED row
  <2> DEFINE r == PersistenceFailed(task[t])
  <2>1. /\ Keyed(asked[t], r) /\ (IsRefresh(r) <=> IsRefresh(task[t]))
        /\ Reported(r) = Reported(task[t]) /\ r.keys = task[t].keys
        /\ r.results = task[t].results
    BY <1>3, FailedRecord
  <2> HIDE DEF r
  <2>2. r \in Records  BY <2>1 DEF Keyed
  <2>3. InTransit(r, pending[t], item[t])  BY <1>3, <2>1 DEF InTransit
  <2>4. task' = [task EXCEPT ![t] = r]  BY <1>5 DEF r
  <2> QED  BY <1>1, <1>2, <1>3, <1>5, <2>1, <2>2, <2>3, <2>4, LoopFrame
<1> QED  BY <1>4, <1>5 DEF Checkpoint

\* The end of the loop accounts for every key and draws the verdict.
LEMMA RunEndsKeeps ==
    ASSUME IInv, IInv', AccountInv, NEW t \in Tasks, RunEnds(t), UNCHANGED serviceVars
    PROVE  Kept
<1> DEFINE old == task[t].results
           rest == Unstarted(t)
           new == old \o rest
           r == [task[t] EXCEPT !.results = new, !.completed = Len(new),
                                !.state = FinalState(t, new)]
<1>1. /\ at[t] = "joining" /\ InSet(t) = {} /\ at' = [at EXCEPT ![t] = "finishing"]
      /\ pending' = [pending EXCEPT ![t] = <<>>]
      /\ UNCHANGED <<item, tokens, row>>
  BY DEF RunEnds
<1>2. at[t] \in Executing  BY <1>1 DEF Executing
<1>3. /\ task[t] \in Records /\ pending[t] \in Seq(Keys)
      /\ item[t] \in [Keys -> Statuses]
      /\ Keyed(asked[t], task[t]) /\ InTransit(task[t], pending[t], item[t])
      /\ row[t] # NoRow => IsPrefix(row[t].results, task[t].results)
  BY <1>2, InLoop
<1>4. TypeOK /\ MemoryFits(t) /\ StoreFits(t)  BY DEF AccountInv
<1>5. task' = [task EXCEPT ![t] = r]
  <2>1. task' = [task EXCEPT ![t].results = new, ![t].completed = Len(new),
                             ![t].state = FinalState(t, new)]
    BY DEF RunEnds
  <2>2. DOMAIN task = Tasks  BY <1>4 DEF TypeOK
  <2> HIDE DEF new
  <2> QED  BY <1>3, <2>1, <2>2 DEF Records
<1>6. old \in Seq(Result) /\ Once(old) /\ KeysOf(old) = Reported(task[t])
  BY <1>3, RecordParts DEF Keyed, InTransit, Once
<1>7. rest \in Seq(Result) /\ Once(rest) /\ KeysOf(rest) = ToSet(pending[t])
  <2>1. rest = Alike(pending[t], "cancelled")  BY DEF Unstarted, Alike
  <2>2. "cancelled" \in Outcomes /\ IsInjective(pending[t])
    BY <1>3 DEF Outcomes, Ended, InTransit
  <2> QED  BY <1>3, <2>1, <2>2, AlikeIs
<1>8. KeysOf(old) \cap KeysOf(rest) = {} /\ KeysOf(old) \cup KeysOf(rest) = ToSet(task[t].keys)
  <2>1. \A k \in Keys : item[t][k] \in {"none", "joined"}
    BY <1>1, <1>3 DEF InSet, Statuses
  <2>2. ToSet(pending[t]) \subseteq Keys /\ ToSet(task[t].keys) \subseteq Keys
        /\ KeysOf(old) \subseteq Keys
    <3>1. /\ \A i \in DOMAIN pending[t] : pending[t][i] \in Keys
          /\ \A i \in DOMAIN task[t].keys : task[t].keys[i] \in Keys
      BY <1>3, RecordParts, LenProperties
    <3> QED  BY <1>6, <3>1, ResultsAreKeyed DEF ToSet
  <2>3. {k \in Keys : item[t][k] # "none"} = Reported(task[t])
    BY <1>3, <1>6, <2>1, <2>2 DEF InTransit
  <2> QED  BY <1>3, <1>6, <1>7, <2>2, <2>3 DEF InTransit
<1> HIDE DEF old, rest
<1>9. /\ new \in Seq(Result) /\ Once(new) /\ KeysOf(new) = ToSet(task[t].keys)
  BY <1>6, <1>7, <1>8, ResultsJoin
<1>10. Successes(new) \in 0..Len(new) /\ Len(new) \in Nat
  BY <1>9, SuccessesBounded, LenProperties
<1>11. row[t] # NoRow => IsPrefix(row[t].results, new)
  <2>1. row[t] # NoRow => row[t].results \in Seq(Result)  BY RowIsRecord
  <2> QED  BY <1>3, <1>6, <1>7, <2>1, PrefixGrows DEF old
<1> HIDE DEF new
<1>12. FinalState(t, new) \in {"succeeded", "partial", "failed", "cancelled"}
  BY DEF FinalState
<1>13. /\ r \in Records /\ r.keys = task[t].keys /\ r.total = task[t].total
       /\ r.results = new /\ r.completed = Len(new) /\ r.error = task[t].error
       /\ r.state = FinalState(t, new)
  <2>1. new \in Seq([key : Keys, outcome : Outcomes])  BY <1>9 DEF Result
  <2> HIDE DEF FinalState
  <2>2. r \in Records  BY <1>3, <1>10, <1>12, <2>1 DEF Records
  <2>3. /\ r.keys = task[t].keys /\ r.total = task[t].total
        /\ r.results = new /\ r.completed = Len(new) /\ r.error = task[t].error
        /\ r.state = FinalState(t, new)
    BY <1>3 DEF Records
  <2> QED  BY <2>2, <2>3
<1> HIDE DEF r
<1>14. Reported(r) = ToSet(task[t].keys)
  BY <1>9, <1>13, RecordParts
<1>15. ~IsRefresh(task[t]) /\ ToSet(task[t].keys) = asked[t] /\ IsInjective(task[t].keys)
       /\ task[t].total = Len(task[t].keys)
  BY <1>3 DEF InTransit, Keyed
<1>16. Keyed(asked[t], r)
  BY <1>9, <1>13, <1>14, <1>15 DEF Keyed, IsRefresh, Once
<1>17. Len(new) = r.total
  <2>1. Len(task[t].keys) = Cardinality(ToSet(task[t].keys))
    BY <1>3, <1>15, RecordParts, LengthIsCount
  <2>2. Len(new) = Cardinality(KeysOf(new))  BY <1>9, OneResultEach
  <2> QED  BY <1>9, <1>13, <1>15, <2>1, <2>2
<1>18. t \in acknowledged => t \in tokens
  BY <1>1, <1>4 DEF MemoryFits, Running
<1>19. Verdict(t \in acknowledged, r)
  <2> DEFINE ok == Successes(new)
             N == r.total
  <2>1. ok \in Nat /\ N \in Nat /\ ok <= N  BY <1>10, <1>17
  <2>2. r.state = IF r.error # "none" THEN "failed"
                  ELSE IF t \in tokens THEN "cancelled"
                  ELSE IF ok = N THEN "succeeded"
                  ELSE IF ok > 0 THEN "partial"
                  ELSE "failed"
    BY <1>13 DEF FinalState, CouldNotSave, WasStopped
  <2>3. Successes(r.results) = ok  BY <1>13
  <2> HIDE DEF ok, N
  <2>4. r.state = "partial" => ok \in 1..(N - 1)  BY <2>1, <2>2
  <2>5. /\ r.state = "succeeded" => ok = N
        /\ r.state # "failed" => r.error = "none"
        /\ r.state = "failed" /\ r.error = "none" => ok = 0
        /\ t \in acknowledged => r.state \in {"cancelled", "failed"}
    BY <1>18, <2>1, <2>2
  <2> QED  BY <2>3, <2>4, <2>5 DEF Verdict, N
<1>20. Settled(asked[t], t \in acknowledged, r)
  BY <1>14, <1>15, <1>19 DEF Settled
<1>21. /\ at'[t] = "finishing" /\ task'[t] = r /\ row'[t] = row[t] /\ asked'[t] = asked[t]
       /\ (t \in unpersisted' <=> t \in unpersisted)
       /\ (t \in acknowledged' <=> t \in acknowledged) /\ Others(t)
  BY <1>1, <1>4, <1>5 DEF TypeOK, Others, serviceVars
<1>22. TypeOK'
  <2>1. task' \in [Tasks -> Records]  BY <1>4, <1>5, <1>13 DEF TypeOK
  <2>2. <<>> \in Seq(Keys)  BY EmptySeq
  <2>3. pending' \in [Tasks -> Seq(Keys)]  BY <1>1, <1>4, <2>2 DEF TypeOK
  <2> QED  BY <1>1, <1>4, <2>1, <2>3, TypesKeep DEF TypeOK, Statuses, serviceVars
<1>23. t \notin unpersisted  BY <1>1, <1>4 DEF MemoryFits
<1>24. MemoryFits(t)'
  BY <1>16, <1>20, <1>21, <1>23
  DEF MemoryFits, Settled, Live, Running, Executing, Over
<1>25. StoreFits(t)'
  BY <1>4, <1>11, <1>13, <1>21 DEF StoreFits, Terminal, Settled
<1>26. row[t] # NoRow => IsPrefix(row[t].results, row'[t].results)
  BY <1>21, RowIsRecord, PrefixOfItself
<1> QED  BY <1>21, <1>22, <1>24, <1>25, <1>26, OthersKeep

\* A spawned resource.
LEMMA ItemKeeps ==
    ASSUME IInv, IInv', AccountInv, NEW t \in Tasks, NEW k \in Keys, ItemStep(t, k),
           UNCHANGED serviceVars
    PROVE  Kept
<1>1. PICK s \in {"leased"} \cup Ended :
        /\ item[t][k] \in {"active", "leased"} /\ item' = [item EXCEPT ![t][k] = s]
  BY DEF ItemStep, Lease, ItemEnds, SetItem
<1>2. UNCHANGED <<at, task, pending, tokens, row>>
  BY DEF ItemStep, Lease, ItemEnds
<1>3. TypeOK /\ MemoryFits(t) /\ StoreFits(t)  BY DEF AccountInv
<1> DEFINE status == [item[t] EXCEPT ![k] = s]
<1>4. /\ item' = [item EXCEPT ![t] = status] /\ status \in [Keys -> Statuses]
      /\ \A j \in Keys : status[j] = IF j = k THEN s ELSE item[t][j]
      /\ s \notin {"none", "joined"}
  BY <1>1, <1>3 DEF TypeOK, Statuses, Ended
<1> HIDE DEF status
<1>5. item'[t] = status /\ Others(t)
  BY <1>2, <1>3, <1>4 DEF TypeOK, Others, serviceVars
<1>6. TypeOK'
  <2>1. item' \in [Tasks -> [Keys -> Statuses]]  BY <1>3, <1>4 DEF TypeOK, Statuses
  <2> QED  BY <1>2, <1>3, <2>1, TypesKeep DEF TypeOK, serviceVars
<1>7. item[t] # NothingSpawned  BY <1>1 DEF NothingSpawned
<1>8. InTransit(task[t], pending[t], item[t]) => InTransit(task[t], pending[t], status)
  BY <1>1, <1>4 DEF InTransit
<1>9. MemoryFits(t)'
  BY <1>2, <1>3, <1>5, <1>7, <1>8 DEF MemoryFits, Settled, serviceVars
<1>10. StoreFits(t)'
  BY <1>2, <1>3 DEF StoreFits, Terminal, Settled, serviceVars
<1>11. row[t] # NoRow => IsPrefix(row[t].results, row'[t].results)
  BY <1>2, RowIsRecord, PrefixOfItself
<1> QED  BY <1>5, <1>6, <1>9, <1>10, <1>11, OthersKeep

-----------------------------------------------------------------------------
(* Cancellation, shutdown, crash and recovery.                             *)

LEMMA RowsKept ==
    ASSUME AccountInv, row' = row
    PROVE  Progress
BY RowIsRecord, PrefixOfItself DEF Progress

LEMMA CancelKeeps ==
    ASSUME IInv, IInv', AccountInv, NEW t \in Tasks, CancelRequest(t)
    PROVE  Kept
<1>1. /\ at[t] \in Live \ {"saving", "registering"}
      /\ tokens' = tokens \cup {t}
      /\ acknowledged' = IF at[t] \in Running \cup {"starting"}
                         THEN acknowledged \cup {t} ELSE acknowledged
      /\ UNCHANGED <<at, task, pending, item, row, process, shutdown, unpersisted,
                     stops, asked>>
  BY DEF CancelRequest
<1>2. TypeOK /\ MemoryFits(t) /\ StoreFits(t)  BY DEF AccountInv
<1>3. Others(t)  BY <1>1 DEF Others
<1>4. TypeOK'
  BY <1>1, <1>2, TypesKeep DEF TypeOK, Statuses
<1>5. at[t] \in Over => (t \in acknowledged' <=> t \in acknowledged)
  BY <1>1 DEF Over, Running
<1>6. MemoryFits(t)'
  <2>1. at[t] \notin {"unused", "saving", "registering"}  BY <1>1 DEF Live, Running
  <2> QED  BY <1>1, <1>2, <1>5, <2>1 DEF MemoryFits, Settled
<1>7. StoreFits(t)'
  <2>1. at[t] \in Running \cup {"starting"} => ~Terminal(row[t])
    BY <1>1 DEF IInv, RowInv, RowFits, Unsaved, Running, Live
  <2> QED  BY <1>1, <1>2, <2>1 DEF StoreFits, Terminal, Settled
<1>8. row[t] # NoRow => IsPrefix(row[t].results, row'[t].results)
  BY <1>1, RowIsRecord, PrefixOfItself
<1> QED  BY <1>3, <1>4, <1>6, <1>7, <1>8, OthersKeep

\* Steps that change neither tasks nor rows, nor take a token back.
LEMMA TokensGrow ==
    ASSUME IInv', AccountInv,
           UNCHANGED <<at, task, pending, item, row, unpersisted, asked, acknowledged,
                       stops>>,
           tokens \subseteq tokens', tokens' \subseteq Tasks,
           process' \in {"up", "down", "opening"}, shutdown' \in BOOLEAN
    PROVE  Kept
<1>1. TypeOK  BY DEF AccountInv
<1>2. TypeOK'
  BY <1>1, TypesKeep DEF TypeOK, Statuses
<1>3. ASSUME NEW t \in Tasks PROVE MemoryFits(t)' /\ StoreFits(t)'
  <2>1. MemoryFits(t) /\ StoreFits(t)  BY DEF AccountInv
  <2> QED  BY <2>1 DEF MemoryFits, StoreFits, Terminal, Settled
<1>4. AccountInv'  BY <1>2, <1>3 DEF AccountInv
<1> QED  BY <1>4, RowsKept DEF Kept

LEMMA StopOpenKeeps ==
    ASSUME IInv, IInv', AccountInv, Stop \/ Open \/ Opened
    PROVE  Kept
<1>1. TypeOK  BY DEF AccountInv
<1>2. CASE Stop
  BY <1>1, <1>2, TokensGrow DEF Stop, TypeOK
<1>3. CASE Open \/ Opened
  BY <1>1, <1>3, TokensGrow DEF Open, Opened, TypeOK, runnerVars
<1> QED  BY <1>2, <1>3

LEMMA ProcessEndsKeeps ==
    ASSUME IInv, IInv', AccountInv, ProcessEnds
    PROVE  Kept
<1> DEFINE r == NewTask(<<>>, 0)
<1>1. /\ at' = [t \in Tasks |-> IF at[t] \in Live THEN "lost" ELSE at[t]]
      /\ task' = [t \in Tasks |-> r] /\ pending' = [t \in Tasks |-> <<>>]
      /\ item' = [t \in Tasks |-> NothingSpawned]
      /\ process' = "down" /\ shutdown' = FALSE /\ stops' = stops + 1 /\ stops < MaxStops
      /\ tokens' = {} /\ unpersisted' = {}
      /\ UNCHANGED <<row, asked, acknowledged>>
  BY DEF ProcessEnds
<1>2. TypeOK  BY DEF AccountInv
<1>3. r \in Records /\ IsRefresh(r)
  <2>1. <<>> \in Seq(Keys) /\ <<>> \in Seq([key : Keys, outcome : Outcomes])
    BY EmptySeq
  <2> QED  BY <2>1 DEF NewTask, Records, Unfinished, IsRefresh
<1> HIDE DEF r
<1>4. TypeOK'
  <2>1. <<>> \in Seq(Keys)  BY EmptySeq
  <2>2. NothingSpawned \in [Keys -> Statuses]  BY DEF NothingSpawned, Statuses
  <2>3. stops' \in 0..MaxStops  BY <1>1, <1>2, ServiceAssumption DEF TypeOK
  <2>4. /\ task' \in [Tasks -> Records] /\ pending' \in [Tasks -> Seq(Keys)]
        /\ item' \in [Tasks -> [Keys -> Statuses]]
    BY <1>1, <1>3, <2>1, <2>2
  <2>5. /\ row' \in [Tasks -> Records \cup {NoRow}] /\ asked' \in [Tasks -> SUBSET Keys]
        /\ tokens' \subseteq Tasks /\ unpersisted' \subseteq Tasks
        /\ acknowledged' \subseteq Tasks
        /\ process' \in {"up", "down", "opening"} /\ shutdown' \in BOOLEAN
    BY <1>1, <1>2 DEF TypeOK
  <2> QED  BY <1>2, <2>3, <2>4, <2>5, TypesKeep
<1>5. ASSUME NEW t \in Tasks PROVE MemoryFits(t)' /\ StoreFits(t)'
  <2>1. MemoryFits(t) /\ StoreFits(t)  BY DEF AccountInv
  <2>2. /\ at'[t] \notin Live /\ at'[t] \in Points
        /\ at'[t] = "unused" => at[t] = "unused"
    BY <1>1 DEF IInv, ControlInv, Points, Live, Running
  <2>3. /\ task'[t] = r /\ item'[t] = NothingSpawned /\ t \notin unpersisted'
        /\ row'[t] = row[t] /\ asked'[t] = asked[t]
        /\ (t \in acknowledged' <=> t \in acknowledged)
    BY <1>1
  <2>4. /\ at'[t] \notin {"saving", "registering", "starting", "refreshing"}
        /\ at'[t] \notin Running /\ at'[t] \notin Executing /\ at'[t] \notin Unsaved
    BY <2>2 DEF Live, Running, Executing, Unsaved
  <2>5. Keyed(asked[t], r) /\ Settled(asked[t], t \in acknowledged, r)
    BY <1>3 DEF Keyed, Settled
  <2>6. MemoryFits(t)'
    BY <1>3, <2>1, <2>2, <2>3, <2>4 DEF MemoryFits, Keyed, Settled
  <2>7. StoreFits(t)'
    BY <2>1, <2>3, <2>4 DEF StoreFits, Terminal, Settled
  <2> QED  BY <2>6, <2>7
<1>6. AccountInv'  BY <1>4, <1>5 DEF AccountInv
<1> QED  BY <1>1, <1>6, RowsKept DEF Kept

LEMMA RecoverKeeps ==
    ASSUME IInv, IInv', AccountInv, NEW t \in Tasks, Recover(t)
    PROVE  Kept
<1> DEFINE old == row[t]
           missing == Chosen(old.keys, Keys \ Reported(old))
           more == Alike(missing, "interrupted")
           new == old.results \o more
           r == [old EXCEPT !.state = "failed", !.error = "interrupted",
                            !.results = new,
                            !.completed = IF IsRefresh(old) THEN @ ELSE Len(new)]
<1>1. /\ process = "opening" /\ row[t] # NoRow /\ row' = [row EXCEPT ![t] = r]
      /\ UNCHANGED <<at, task, pending, item, tokens, serviceVars>>
  BY DEF Recover, RecoveredResults, Alike
<1>2. TypeOK /\ MemoryFits(t) /\ StoreFits(t)  BY DEF AccountInv
<1>3. /\ old \in Records /\ Keyed(asked[t], old) /\ old.keys \in Seq(Keys)
      /\ old.results \in Seq(Result) /\ Reported(old) = KeysOf(old.results)
      /\ old.completed \in Nat
  BY <1>1, <1>2, RowIsRecord, RecordParts DEF StoreFits
<1>4. /\ missing \in Seq(Keys)
      /\ ToSet(missing) = ToSet(old.keys) \cap (Keys \ Reported(old))
      /\ IsInjective(old.keys) => IsInjective(missing)
  BY <1>3, ChosenIs
<1>5. ToSet(old.keys) \subseteq Keys
  <2>1. \A i \in DOMAIN old.keys : old.keys[i] \in Keys  BY <1>3, LenProperties
  <2> QED  BY <2>1 DEF ToSet
<1>6. ToSet(missing) = ToSet(old.keys) \ Reported(old)  BY <1>4, <1>5
<1> HIDE DEF missing
<1>7. more \in Seq(Result)
  <2> DEFINE n == Len(missing)
  <2>1. n \in Nat /\ DOMAIN missing = 1..n /\ \A i \in 1..n : missing[i] \in Keys
    BY <1>4, LenProperties
  <2>2. more = [i \in 1..n |-> ItemResult(missing[i], "interrupted")]  BY <2>1 DEF Alike
  <2>3. \A i \in 1..n : ItemResult(missing[i], "interrupted") \in Result
    BY <2>1 DEF ItemResult, Result, Outcomes
  <2> HIDE DEF n, more
  <2>4. more \in [1..n -> Result]  BY <2>2, <2>3
  <2> QED  BY <2>1, <2>4, SeqDef
<1>8. new \in Seq(Result) /\ Len(new) \in Nat /\ IsPrefix(old.results, new)
  <2> HIDE DEF old, more
  <2>1. new \in Seq(Result)  BY <1>3, <1>7, ConcatProperties
  <2>2. IsPrefix(old.results, old.results)  BY <1>3, PrefixOfItself
  <2>3. IsPrefix(old.results, new)  BY <1>3, <1>7, <2>2, PrefixGrows
  <2> QED  BY <2>1, <2>3, LenProperties
<1>9. ASSUME ~IsRefresh(old)
      PROVE  Once(new) /\ KeysOf(new) = ToSet(old.keys)
  <2>1. /\ IsInjective(missing) /\ Once(old.results)
        /\ Reported(old) \subseteq ToSet(old.keys)
    BY <1>3, <1>4, <1>9 DEF Keyed, Once
  <2>2. "interrupted" \in Outcomes  BY DEF Outcomes
  <2>3. Once(more) /\ KeysOf(more) = ToSet(missing)
    BY <1>4, <2>1, <2>2, AlikeIs
  <2>4. /\ KeysOf(old.results) \cap KeysOf(more) = {}
        /\ KeysOf(old.results) \cup KeysOf(more) = ToSet(old.keys)
    BY <1>3, <1>6, <2>1, <2>3
  <2> HIDE DEF old, more
  <2> QED  BY <1>3, <1>7, <2>1, <2>3, <2>4, ResultsJoin
<1> HIDE DEF more, new
<1>10. /\ r \in Records /\ r.keys = old.keys /\ r.total = old.total
       /\ r.results = new /\ r.state = "failed" /\ r.error = "interrupted"
       /\ ~IsRefresh(old) => r.completed = Len(new)
  <2>1. new \in Seq([key : Keys, outcome : Outcomes])  BY <1>8 DEF Result
  <2> DEFINE c == IF IsRefresh(old) THEN old.completed ELSE Len(new)
  <2>2. c \in Nat  BY <1>3, <1>8
  <2>3. r = [old EXCEPT !.state = "failed", !.error = "interrupted",
                        !.results = new, !.completed = c]
    BY <1>3 DEF Records
  <2>4. c = Len(new) \/ IsRefresh(old)  OBVIOUS
  <2> HIDE DEF c, r, old
  <2>5. /\ r \in Records /\ r.keys = old.keys /\ r.total = old.total
        /\ r.results = new /\ r.state = "failed" /\ r.error = "interrupted"
        /\ r.completed = c
    BY <1>3, <2>1, <2>2, <2>3 DEF Records
  <2> QED  BY <2>4, <2>5
<1> HIDE DEF r
<1>11. Reported(r) = KeysOf(new) /\ (IsRefresh(r) <=> IsRefresh(old))
  BY <1>10, RecordParts DEF IsRefresh
<1>12. Keyed(asked[t], r)
  BY <1>3, <1>9, <1>10, <1>11 DEF Keyed, Once
<1>13. Settled(asked[t], t \in acknowledged, r)
  BY <1>3, <1>9, <1>10, <1>11 DEF Settled, Verdict, Keyed
<1>14. row'[t] = r /\ Others(t)
  BY <1>1, <1>2 DEF TypeOK, Others, serviceVars
<1>15. TypeOK'
  <2>1. row' \in [Tasks -> Records \cup {NoRow}]  BY <1>1, <1>2, <1>10 DEF TypeOK
  <2> QED  BY <1>1, <1>2, <2>1, TypesKeep DEF TypeOK, Statuses, serviceVars
<1>16. MemoryFits(t)'
  BY <1>1, <1>2 DEF MemoryFits, Settled, serviceVars
<1>17. at[t] \notin Unsaved
  BY <1>1 DEF IInv, ControlInv, Unsaved
<1>18. StoreFits(t)'
  BY <1>1, <1>12, <1>13, <1>14, <1>17 DEF StoreFits, Settled, serviceVars
<1> QED  BY <1>8, <1>10, <1>14, <1>15, <1>16, <1>18, OthersKeep DEF old

-----------------------------------------------------------------------------
(* Theorems on the keys of an export.                                      *)

LEMMA InitAccounts == Init => AccountInv
<1> SUFFICES ASSUME Init PROVE AccountInv
  OBVIOUS
<1>1. IInv  BY InitIInv
<1> DEFINE r == NewTask(<<>>, 0)
<1>2. r \in Records /\ r.results = <<>>
  <2>1. <<>> \in Seq(Keys) /\ <<>> \in Seq([key : Keys, outcome : Outcomes])
    BY EmptySeq
  <2> QED  BY <2>1 DEF NewTask, Records, Unfinished
<1>3. task = [t \in Tasks |-> r]  BY DEF Init
<1> HIDE DEF r
<1>4. TypeOK
  <2>1. <<>> \in Seq(Keys)  BY EmptySeq
  <2>2. QueueLimit \in 0..QueueLimit /\ 0 \in 0..MaxStops  BY ServiceAssumption
  <2>3. NothingSpawned \in [Keys -> {"none", "active", "leased", "joined"} \cup Ended]
    BY DEF NothingSpawned
  <2> QED  BY <1>2, <1>3, <2>1, <2>2, <2>3 DEF TypeOK, Init
<1>5. ASSUME NEW t \in Tasks PROVE MemoryFits(t) /\ StoreFits(t)
  BY DEF Init, MemoryFits, StoreFits, Live, Running, Executing, Over
<1> QED  BY <1>4, <1>5 DEF AccountInv

LEMMA NextKeeps == IInv /\ AccountInv /\ [Next]_vars => Kept
<1> SUFFICES ASSUME IInv, AccountInv, [Next]_vars PROVE Kept
  OBVIOUS
<1>1. IInv'  BY NextIsGood DEF Good
<1>2. ASSUME NEW t \in Tasks, SubmitExport(t) \/ SubmitRefresh(t) \/ CancelRequest(t)
      PROVE  Kept
  BY <1>1, <1>2, SubmitKeeps, CancelKeeps
<1>3. ASSUME NEW t \in Tasks, Coordinate(t)
      PROVE  Kept
  BY <1>1, <1>3, SaveQueuedKeeps, RegisterKeeps, StartKeeps, RefreshEndsKeeps, FinishKeeps,
     LeaveKeeps, SpawnKeeps, FilledKeeps, JoinKeeps, CheckpointKeeps, RunEndsKeeps
  DEF Coordinate, LoopStep
<1>4. ASSUME NEW t \in Tasks, Resources(t) \/ Disconnect(t) \/ Recover(t)
      PROVE  Kept
  BY <1>1, <1>4, ItemKeeps, SaveQueuedKeeps, RecoverKeeps DEF Resources
<1>5. CASE Stop \/ Open \/ Opened
  BY <1>1, <1>5, StopOpenKeeps
<1>6. CASE ProcessEnds
  BY <1>1, <1>6, ProcessEndsKeeps
<1>7. CASE UNCHANGED vars
  <2>1. UNCHANGED <<at, task, pending, item, row, unpersisted, asked, acknowledged,
                    stops, tokens, process, shutdown>>
    BY <1>7 DEF vars, runnerVars, serviceVars
  <2> QED  BY <1>1, <2>1, TokensGrow DEF AccountInv, TypeOK
<1> QED  BY <1>2, <1>3, <1>4, <1>5, <1>6, <1>7 DEF Next

\* What records and rows say of keys, results and verdicts, in every state.
THEOREM AccountInvHolds == Spec => []AccountInv
<1>1. IInv /\ AccountInv /\ [Next]_vars => AccountInv'
  BY NextKeeps DEF Kept
<1> QED  BY InitAccounts, IInvHolds, <1>1, PTL DEF Spec

\* The variables keep their types, the permits their number.
THEOREM TypeCorrect == Spec => []TypeOK
<1>1. AccountInv => TypeOK  BY DEF AccountInv
<1> QED  BY AccountInvHolds, <1>1, PTL

\* What a client sees of a finished export is accounted for and settled.
LEMMA FinishedIsSettled ==
    ASSUME AccountInv, NEW t \in Tasks, FinishedExport(t)
    PROVE  /\ Keyed(asked[t], View(t)) /\ ~IsRefresh(View(t))
           /\ Settled(asked[t], t \in acknowledged, View(t))
<1>1. MemoryFits(t) /\ StoreFits(t)  BY DEF AccountInv
<1>2. CASE t \in unpersisted
  <2>1. at[t] \in {"removing", "releasing", "done"}  BY <1>1, <1>2 DEF MemoryFits
  <2>2. at[t] \in Live \cup {"done"} /\ at[t] \in Over  BY <2>1 DEF Live, Over
  <2> QED  BY <1>1, <1>2, <2>2 DEF MemoryFits, FinishedExport, View
<1>3. CASE t \notin unpersisted
  BY <1>1, <1>3 DEF StoreFits, FinishedExport, View, Terminal
<1> QED  BY <1>2, <1>3

\* A finished export has one result for each key its client asked for, whatever
\* failed, crashed or was cancelled, for any requests, limits and tasks.
THEOREM KeysAlwaysAccounted == Spec => []AllKeysAccounted
<1>1. AccountInv => AllKeysAccounted
  <2> SUFFICES ASSUME AccountInv, NEW t \in Tasks, FinishedExport(t)
               PROVE  /\ Reported(View(t)) = asked[t]
                      /\ Len(View(t).results) = Cardinality(asked[t])
                      /\ View(t).completed = Len(View(t).results)
                      /\ View(t).total = Len(View(t).results)
    BY DEF AllKeysAccounted
  <2> DEFINE v == View(t)
  <2>1. Keyed(asked[t], v) /\ ~IsRefresh(v) /\ Settled(asked[t], t \in acknowledged, v)
    BY FinishedIsSettled
  <2> HIDE DEF v
  <2>2. /\ v \in Records /\ Once(v.results) /\ IsInjective(v.keys)
        /\ ToSet(v.keys) = asked[t] /\ Reported(v) = asked[t]
        /\ v.completed = Len(v.results) /\ v.total = Len(v.keys)
    BY <2>1 DEF Keyed, Settled, Once
  <2>3. Len(v.results) = Cardinality(asked[t])
    BY <2>2, RecordParts, OneResultEach
  <2>4. Len(v.keys) = Cardinality(asked[t])
    BY <2>2, RecordParts, LengthIsCount
  <2> QED  BY <2>2, <2>3, <2>4 DEF v
<1> QED  BY AccountInvHolds, <1>1, PTL

\* The state of a finished export follows from its results, and an export that
\* was told to stop does not end as if it had not been.
THEOREM VerdictAlwaysMatches == Spec => []VerdictMatches
<1>1. AccountInv => VerdictMatches
  BY FinishedIsSettled DEF VerdictMatches, Settled
<1> QED  BY AccountInvHolds, <1>1, PTL

\* No save, late, repeated or after a crash, takes back results of a row.
THEOREM ProgressAlwaysKept == Spec => ProgressIsKept
<1>1. IInv /\ AccountInv /\ [Next]_vars
        => [\A t \in Tasks : row[t] # NoRow => IsPrefix(row[t].results, row'[t].results)]_vars
  BY NextKeeps DEF Kept, Progress
<1> QED  BY IInvHolds, AccountInvHolds, <1>1, PTL DEF Spec, ProgressIsKept

=============================================================================
