------------------------------ MODULE ExportExit -------------------------------
(***************************************************************************)
(* ExportStore with the one way to end that is not a crash: stop()         *)
(* (src/src/service.rs:393-409) gave up waiting for the budget after 15 s, *)
(* `block_on` in src/src/main.rs:91-99 returned, and the runtime drops     *)
(* every task at the await it is at.  Unlike a crash that runs the         *)
(* destructors; unlike the tasks, the thread of the SQLite connection      *)
(* finishes the statement it was sent.                                     *)
(***************************************************************************)
EXTENDS ExportStore

\* No await lies between these points and the next one.
Synchronous == {"sync", "disarm", "cleanup", "drop"}

AtPoint(point) == {p \in Producers : pc[p] = point}

\* The COMMIT a dropped future was waiting for may or may not take effect;
\* its PendingPublication is armed and removes the directory either way.  A
\* rename that was handed to the blocking pool may still happen.
Exit ==
    /\ EndProcess
    /\ \A p \in Producers : pc[p] \notin Synchronous
    /\ \E done \in SUBSET AtPoint("commit"), moved \in SUBSET AtPoint("rename") :
         /\ row' = [e \in Eids |->
                      IF row[e] = None /\ \E p \in done : eid[p] = e
                      THEN CHOOSE p \in done : eid[p] = e ELSE row[e]]
         /\ exports' = [e \in Eids |->
                          IF \E p \in AtPoint("commit") : eid[p] = e THEN None
                          ELSE IF exports[e] = None /\ \E p \in moved : eid[p] = e
                          THEN CHOOSE p \in moved : eid[p] = e ELSE exports[e]]
         /\ torn' = torn \ {eid[p] : p \in moved}
         /\ entrySynced' = entrySynced \ {eid[p] : p \in moved}
    /\ tmp' = {}
    /\ UNCHANGED outSynced

ExitSpec == Init /\ [][Next \/ Exit]_vars

=============================================================================
