----------------------------- MODULE ExportStore ------------------------------
(***************************************************************************)
(* src/src/service.rs: how export_one publishes a resource.  A producer    *)
(* takes the gate of its export id, looks for a manifest again, builds the *)
(* output under tmp, syncs it, renames it into exports/, syncs the entry   *)
(* and indexes it in one SQL transaction; PendingPublication removes the   *)
(* directory if that does not happen.  The process may crash, or the       *)
(* machine lose power, between any two steps; App::open then clears tmp    *)
(* and every directory the index does not name.                            *)
(*                                                                         *)
(* A producer is one execution of export_one, in a task of its own that    *)
(* nothing aborts (shared.rs:75-81).  SharedWork starts another one for an *)
(* id as soon as the earlier one has no users, before its token is even    *)
(* cancelled, so several may run at once.  Building (plan, downloads,      *)
(* permits, worker) is one step here.  Bounds: Producers and MaxStops.     *)
(***************************************************************************)
EXTENDS Naturals, FiniteSets

CONSTANTS
    Producers,  \* executions of export_one
    Eids,       \* export ids
    None,
    MaxStops    \* bound on crashes and exits of the process

ASSUME StoreAssumption == None \notin Producers \cup Eids /\ MaxStops \in Nat

VARIABLES
    pc,         \* control of a producer
    eid,        \* the export id it makes
    token,      \* producers whose operation was cancelled
    gate,       \* the resource lock (named by its first user) it has an Arc of
    owner,      \* producers that hold their gate
    answer,     \* what a producer returned
    tmp,        \* producers whose worker- directory exists under tmp
    outSynced,  \* producers whose output is synced to the disk
    exports,    \* exports/<eid>: None, or the producer of its content
    torn,       \* directories that lost content to a power failure
    entrySynced,\* directories whose entry in exports/ is synced
    row,        \* table exports: None, or the producer of the manifest
    process,    \* up, down or opening
    stops       \* how often the process has ended

diskVars == <<exports, torn, entrySynced, outSynced, tmp>>
vars == <<pc, eid, token, gate, owner, answer, diskVars, row, process, stops>>

-----------------------------------------------------------------------------

Points == {"unused", "gate", "recheck", "build", "write", "rename", "sync",
           "commit", "disarm", "cleanup", "drop", "ended", "lost"}

\* Control points of a producer whose future exists, inside the gate, and
\* between the rename and the commit or the removal.
Active == Points \ {"unused", "ended", "lost"}
Inside == Active \ {"gate", "drop"}
Publishing == {"sync", "commit", "cleanup"}

Init ==
    /\ pc = [p \in Producers |-> "unused"]
    /\ eid = [p \in Producers |-> None]
    /\ token = {}
    /\ gate = [p \in Producers |-> None]
    /\ owner = {}
    /\ answer = [p \in Producers |-> "none"]
    /\ tmp = {}
    /\ outSynced = {}
    /\ exports = [e \in Eids |-> None]
    /\ torn = {}
    /\ entrySynced = {}
    /\ row = [e \in Eids |-> None]
    /\ process = "up"
    /\ stops = 0

Goto(p, point) == pc' = [pc EXCEPT ![p] = point]

\* The future resolves after its locals are dropped: step "drop".
Return(p, why) ==
    /\ answer' = [answer EXCEPT ![p] = why]
    /\ Goto(p, "drop")

-----------------------------------------------------------------------------
(* export_one                                                              *)

\* resource_locks.get(eid).upgrade(): the locks of this id still in use.
NoGates(e) == {}  \* broken: a new lock every time
LiveGates(e) == {gate[q] : q \in {r \in Producers : eid[r] = e}} \ {None}

\* The live lock, or a new one.
GetGate(p, e) ==
    /\ process = "up"
    /\ pc[p] = "unused"
    /\ eid' = [eid EXCEPT ![p] = e]
    /\ \E g \in IF LiveGates(e) = {} THEN {p} ELSE LiveGates(e) :
         gate' = [gate EXCEPT ![p] = g]
    /\ Goto(p, "gate")
    /\ UNCHANGED <<token, owner, answer, diskVars, row, process, stops>>

LockGate(p) ==
    /\ pc[p] = "gate"
    /\ \/ /\ \A q \in owner : gate[q] # gate[p]
          /\ owner' = owner \cup {p}
          /\ Goto(p, "recheck")
          /\ UNCHANGED answer
       \/ /\ p \in token
          /\ Return(p, "cancelled")
          /\ UNCHANGED owner
    /\ UNCHANGED <<eid, token, gate, diskVars, row, process, stops>>

\* An earlier producer may have published after its callers gave up.
Recheck(p) ==
    /\ pc[p] = "recheck"
    /\ \/ row[eid[p]] # None /\ Return(p, "ok")
       \/ row[eid[p]] = None /\ Goto(p, "build") /\ UNCHANGED answer
       \/ Return(p, "error")
    /\ UNCHANGED <<eid, token, gate, owner, diskVars, row, process, stops>>

\* Plan, download, convert, and check the worker's result; the last look at
\* the token is at line 967.
Build(p) ==
    /\ pc[p] = "build"
    /\ tmp' = tmp \cup {p}
    /\ \/ p \notin token /\ Goto(p, "write") /\ UNCHANGED answer
       \/ p \in token /\ Return(p, "cancelled")
       \/ Return(p, "error")
    /\ UNCHANGED <<eid, token, gate, owner, exports, torn, entrySynced,
                   outSynced, row, process, stops>>

\* The files, manifest.json and the output directory reach the disk.
WriteManifest(p) ==
    /\ pc[p] = "write"
    /\ \/ /\ outSynced' = outSynced \cup {p}
          /\ Goto(p, "rename")
          /\ UNCHANGED answer
       \/ /\ Return(p, "error")
          /\ UNCHANGED outSynced
    /\ UNCHANGED <<eid, token, gate, owner, exports, torn, entrySynced, tmp,
                   row, process, stops>>

\* FileSync::sync(exports) comes before the transaction.
CommitAtOnce == "commit"  \* broken: the entry is never synced
AfterRename == "sync"

\* rename(2) onto a directory that is not empty fails; PendingPublication
\* exists as soon as it has succeeded.
Rename(p) ==
    /\ pc[p] = "rename"
    /\ \/ /\ exports[eid[p]] = None
          /\ exports' = [exports EXCEPT ![eid[p]] = p]
          /\ torn' = torn \ {eid[p]}
          /\ entrySynced' = entrySynced \ {eid[p]}
          /\ Goto(p, AfterRename)
          /\ UNCHANGED answer
       \/ /\ Return(p, "error")
          /\ UNCHANGED <<exports, torn, entrySynced>>
    /\ UNCHANGED <<eid, token, gate, owner, outSynced, tmp, row, process, stops>>

SyncEntry(p) ==
    /\ pc[p] = "sync"
    /\ \/ entrySynced' = entrySynced \cup {eid[p]} /\ Goto(p, "commit")
       \/ Goto(p, "cleanup") /\ UNCHANGED entrySynced
    /\ UNCHANGED <<eid, token, gate, owner, answer, exports, torn, outSynced,
                   tmp, row, process, stops>>

\* `commit?` leaves the publication armed.
AfterFailedCommit == "cleanup"

\* One transaction inserts the manifest and its files; ids are primary keys.
Commit(p) ==
    /\ pc[p] = "commit"
    /\ \/ /\ row[eid[p]] = None
          /\ row' = [row EXCEPT ![eid[p]] = p]
          /\ Goto(p, "disarm")
       \/ Goto(p, AfterFailedCommit) /\ UNCHANGED row
    /\ UNCHANGED <<eid, token, gate, owner, answer, diskVars, process, stops>>

\* Broken: one more look at the token, after the transaction.
DisarmLate(p) ==
    /\ pc[p] = "disarm"
    /\ Return(p, IF p \in token THEN "cancelled" ELSE "ok")
    /\ UNCHANGED <<eid, token, gate, owner, diskVars, row, process, stops>>

\* publication.0 = None; the caller gets the manifest.
Disarm(p) ==
    /\ pc[p] = "disarm"
    /\ Return(p, "ok")
    /\ UNCHANGED <<eid, token, gate, owner, diskVars, row, process, stops>>

\* Broken: nothing owns the unindexed directory.
NoCleanup(p) ==
    /\ pc[p] = "cleanup"
    /\ Return(p, "error")
    /\ UNCHANGED <<eid, token, gate, owner, diskVars, row, process, stops>>

\* PendingPublication::drop removes exports/<eid> by its path; if that fails
\* part way, it only logs and some of the directory stays.
Cleanup(p) ==
    /\ pc[p] = "cleanup"
    /\ \/ exports' = [exports EXCEPT ![eid[p]] = None] /\ UNCHANGED torn
       \/ UNCHANGED exports /\ torn' = torn \cup {eid[p]}
    /\ Return(p, "error")
    /\ UNCHANGED <<eid, token, gate, owner, entrySynced, outSynced, tmp, row,
                   process, stops>>

\* Broken: the guard of the gate outlives the future.
KeepGate(p) ==
    /\ pc[p] = "drop"
    /\ tmp' = tmp \ {p}
    /\ Goto(p, "ended")
    /\ UNCHANGED <<eid, token, gate, owner, answer, exports, torn, entrySynced,
                   outSynced, row, process, stops>>

\* TempDir, the gate's guard and its Arc are dropped.
DropLocals(p) ==
    /\ pc[p] = "drop"
    /\ tmp' = tmp \ {p}
    /\ owner' = owner \ {p}
    /\ gate' = [gate EXCEPT ![p] = None]
    /\ Goto(p, "ended")
    /\ UNCHANGED <<eid, token, answer, exports, torn, entrySynced, outSynced,
                   row, process, stops>>

\* The last caller gave the operation up.
Cancel(p) ==
    /\ pc[p] \in Active /\ p \notin token
    /\ token' = token \cup {p}
    /\ UNCHANGED <<pc, eid, gate, owner, answer, diskVars, row, process, stops>>

-----------------------------------------------------------------------------
(* Crash, power failure and App::open.                                     *)

EndProcess ==
    /\ process # "down" /\ stops < MaxStops
    /\ stops' = stops + 1
    /\ process' = "down"
    /\ pc' = [p \in Producers |-> IF pc[p] \in Active THEN "lost" ELSE pc[p]]
    /\ gate' = [p \in Producers |-> None]
    /\ owner' = {}
    /\ UNCHANGED <<eid, token, answer>>

\* The process is killed: files and rows stay as they are.  An exit after
\* stop() found nothing running is the same; ExportExit has the other one.
Crash == EndProcess /\ UNCHANGED <<diskVars, row>>

\* Power is lost: what was not synced may be lost with it.  A removal that
\* is undone only leaves another directory that the index does not name.
PowerFailure ==
    /\ EndProcess
    /\ \E lost \in SUBSET (Eids \ entrySynced) :
         exports' = [e \in Eids |-> IF e \in lost THEN None ELSE exports[e]]
    /\ \E broken \in SUBSET {e \in Eids : exports'[e] \notin outSynced \cup {None}} :
         torn' = torn \cup broken
    /\ UNCHANGED <<entrySynced, outSynced, tmp, row>>

\* The wipe of tmp.
Open ==
    /\ process = "down"
    /\ process' = "opening"
    /\ tmp' = {}
    /\ UNCHANGED <<pc, eid, token, gate, owner, answer, exports, torn,
                   entrySynced, outSynced, row, stops>>

Listed(e) == exports[e] # None  \* broken: the index is not asked
Orphan(e) == exports[e] # None /\ row[e] = None

\* One entry of exports/ is in no row: remove it (an error ends the start).
RemoveOrphan(e) ==
    /\ process = "opening"
    /\ Orphan(e)
    /\ exports' = [exports EXCEPT ![e] = None]
    /\ UNCHANGED <<pc, eid, token, gate, owner, answer, torn, entrySynced,
                   outSynced, tmp, row, process, stops>>

Opened ==
    /\ process = "opening"
    /\ \A e \in Eids : ~Orphan(e)
    /\ process' = "up"
    /\ UNCHANGED <<pc, eid, token, gate, owner, answer, diskVars, row, stops>>

-----------------------------------------------------------------------------

ProducerStep(p) ==
    \/ LockGate(p) \/ Recheck(p) \/ Build(p) \/ WriteManifest(p) \/ Rename(p)
    \/ SyncEntry(p) \/ Commit(p) \/ Disarm(p) \/ Cleanup(p) \/ DropLocals(p)

Next ==
    \/ \E p \in Producers :
         \/ \E e \in Eids : GetGate(p, e)
         \/ ProducerStep(p)
         \/ Cancel(p)
    \/ Crash
    \/ PowerFailure
    \/ Open
    \/ \E e \in Eids : RemoveOrphan(e)
    \/ Opened

Spec == Init /\ [][Next]_vars

\* A spawned producer is polled until it ends; building is limited in time.
\* tokio's mutex is fair.
FairSpec == Spec /\ \A p \in Producers : WF_vars(ProducerStep(p))

-----------------------------------------------------------------------------
(* Refinement.                                                             *)

\* What a reader finds: the index names the content, the directory has it.
Content(e) ==
    CASE row[e] = None -> None
      [] row[e] # None /\ exports[e] = row[e] /\ e \notin torn -> row[e]
      [] OTHER -> "damaged"

AnswerOf(p) == IF pc[p] = "lost" /\ answer[p] = "none" THEN "lost" ELSE answer[p]

Store == INSTANCE PublishedStore WITH
    asked <- eid,
    content <- [e \in Eids |-> Content(e)],
    answer <- [p \in Producers |-> AnswerOf(p)]

\* The gate, the guard of the directory, the two syncs, the transaction and the
\* recovery together implement a store that is written once: what a reader finds
\* of an id appears whole and stays, and an execution that answers with a failure
\* or a cancellation has made nothing that appears, before or later.
ImplementsStore == Store!Spec

-----------------------------------------------------------------------------
(* Properties.                                                             *)

TypeOK ==
    /\ pc \in [Producers -> Points]
    /\ eid \in [Producers -> Eids \cup {None}]
    /\ token \subseteq Producers
    /\ gate \in [Producers -> Producers \cup {None}]
    /\ owner \subseteq Producers
    /\ answer \in [Producers -> {"none", "ok", "error", "cancelled"}]
    /\ tmp \subseteq Producers
    /\ outSynced \subseteq Producers
    /\ exports \in [Eids -> Producers \cup {None}]
    /\ torn \subseteq Eids
    /\ entrySynced \subseteq Eids
    /\ row \in [Eids -> Producers \cup {None}]
    /\ process \in {"up", "down", "opening"}
    /\ stops \in 0..MaxStops

\* An indexed export has its directory, whole and with the content its
\* manifest describes, whatever crash, power failure, failed transaction,
\* cleanup or second producer came in between.
IndexedIsComplete ==
    \A e \in Eids : row[e] # None => exports[e] = row[e] /\ e \notin torn

\* A caller that was given a manifest can fetch it: the index has the id, and
\* still has it after a restart.
OkIsIndexed ==
    \A p \in Producers : answer[p] = "ok" => row[eid[p]] # None

\* The resource gate (src/src/service.rs:806-817): two producers of one export
\* never build or publish at once, although locks come and go with their users.
GateExcludes ==
    \A p, q \in Producers :
        /\ pc[p] \in Inside /\ pc[q] \in Inside
        /\ eid[p] = eid[q]
        => p = q

\* While the service is up, an unindexed directory is a publication under way
\* or one whose removal failed, and tmp holds only the work of live producers.
NoStrays ==
    process = "up" =>
        /\ \A e \in Eids : exports[e] # None /\ row[e] = None =>
             e \in torn \/ pc[exports[e]] \in Publishing
        /\ \A p \in tmp : pc[p] \in Active

\* "Published exports remain available" (docs/API.md:46): no later producer,
\* cleanup or restart replaces or removes an indexed export.
PublishedIsFinal ==
    [][\A e \in Eids : row[e] # None =>
         row'[e] = row[e] /\ exports'[e] = exports[e]]_vars

\* The strengthening that a step preserves.

\* All running producers of an id use one lock; who is inside owns it.
GateInv ==
    /\ \A p \in Producers :
         /\ pc[p] \in Active <=> gate[p] # None
         /\ pc[p] # "unused" => eid[p] \in Eids
         /\ pc[p] = "unused" => eid[p] = None /\ answer[p] = "none"
         /\ pc[p] \in Inside => p \in owner
         /\ p \in owner => pc[p] \in Active
    /\ \A p, q \in Producers :
         /\ pc[p] \in Active /\ pc[q] \in Active /\ eid[p] = eid[q]
              => gate[p] = gate[q]
         /\ p \in owner /\ q \in owner /\ gate[p] = gate[q] => p = q

\* A publication under way owns its directory; everything was synced before
\* the index names it.
PublicationInv ==
    \A p \in Producers :
        /\ pc[p] \in {"rename"} \cup Publishing => p \in outSynced
        /\ pc[p] \in Publishing =>
             /\ exports[eid[p]] = p /\ row[eid[p]] = None
             /\ eid[p] \notin torn
        /\ pc[p] = "commit" => eid[p] \in entrySynced
        /\ pc[p] = "disarm" => row[eid[p]] # None

IndexedIsSynced ==
    \A e \in Eids :
        row[e] # None => e \in entrySynced /\ row[e] \in outSynced

\* No producer outlives the process.
ProcessInv ==
    process # "up" => \A p \in Producers : pc[p] \notin Active

IInv ==
    /\ TypeOK
    /\ IndexedIsComplete
    /\ OkIsIndexed
    /\ GateInv
    /\ PublicationInv
    /\ IndexedIsSynced
    /\ ProcessInv

\* NoStrays, with the id of the publication that owns an unindexed directory.
\* Only the wipe of tmp comes before the directories are looked at.
StrayInv ==
    /\ process = "opening" => tmp = {}
    /\ process = "up" =>
         /\ \A e \in Eids : exports[e] # None /\ row[e] = None =>
              \/ e \in torn
              \/ pc[exports[e]] \in Publishing /\ eid[exports[e]] = e
         /\ \A p \in tmp : pc[p] \in Active

\* Who has answered is at its end; whose manifest is indexed is past the commit.
AnswerInv ==
    /\ \A p \in Producers :
         /\ pc[p] \in Active \ {"drop"} => answer[p] = "none"
         /\ pc[p] \in {"drop", "ended"} => answer[p] # "none"
    /\ \A e \in Eids : row[e] # None => pc[row[e]] \in {"disarm", "drop", "ended", "lost"}

\* Every producer ends, so the gate is passed on and nobody waits for ever.
ProducersEnd ==
    \A p \in Producers : pc[p] \in Active ~> pc[p] \in {"ended", "lost"}

=============================================================================
