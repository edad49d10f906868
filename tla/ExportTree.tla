------------------------------ MODULE ExportTree ------------------------------
(***************************************************************************)
(* src/src/tree.rs: export_profile copies published exports into a tree    *)
(* of stable object keys.  Under the lock of the tree it reads its index   *)
(* and the service's, checks every name and content before it writes, then *)
(* places one file after the other and replaces the index after each.  It  *)
(* may fail or die at any step and be run again, with the same or another  *)
(* selection, while the service publishes more.                            *)
(*                                                                         *)
(* Names are model values; Fold is their lower case, FoldKey that of the   *)
(* encoded directory of an asset key.  Nobody else writes the tree.  Files *)
(* of an export keep no order here.  Bound: a run happens once.            *)
(***************************************************************************)
EXTENDS Naturals, FiniteSets

CONSTANTS
    Runs,        \* executions of export_profile
    Exports,     \* export ids
    Key,         \* asset key of an export
    FoldKey,     \* directory of an asset key, without case
    Files,       \* files of an export, {} for an empty one: [name, artifact, content]
    Fold,        \* an object key without case
    Selections,  \* the exports of a snapshot and profile, or of all snapshots
    None

ASSUME TreeAssumption ==
    /\ None \notin Runs
    /\ \A e \in Exports : \A f \in Files[e] : f.name \in DOMAIN Fold /\ f.content # None
    /\ \A s \in Selections : s \subseteq Exports

VARIABLES
    published,  \* table exports of the service
    folder,     \* content of an object key, or None
    index,      \* _meta/manifest.json
    uploadPlan, \* _meta/upload-plan.json
    lock,       \* the run that holds _meta/tree.lock, or None
    stage,      \* control of a run
    chosen,     \* the manifests it read
    todo,       \* objects it has planned and not yet placed
    placing,    \* the object it has placed and not yet recorded, or None
    mine,       \* its index in memory
    outcome,
    resumable   \* manifests of the last run that began to write

folderVars == <<folder, index, uploadPlan>>
runVars == <<lock, stage, chosen, todo, placing, mine, outcome>>
treeVars == <<published, folderVars, runVars, resumable>>

-----------------------------------------------------------------------------

FileNames == DOMAIN Fold

EmptyIndex == [objects |-> {}, empty |-> {}]

\* The objects of a manifest.
ObjectsOf(e) ==
    {[name |-> f.name, artifact |-> f.artifact, content |-> f.content, export |-> e] :
       f \in Files[e]}

Wanted(es) == UNION {ObjectsOf(e) : e \in es}

TreeInit ==
    /\ published = {}
    /\ folder = [n \in FileNames |-> None]
    /\ index = EmptyIndex /\ uploadPlan = EmptyIndex
    /\ lock = None
    /\ stage = [r \in Runs |-> "unused"]
    /\ chosen = [r \in Runs |-> {}]
    /\ todo = [r \in Runs |-> {}]
    /\ placing = [r \in Runs |-> None]
    /\ mine = [r \in Runs |-> EmptyIndex]
    /\ outcome = [r \in Runs |-> "none"]
    /\ resumable = {}

-----------------------------------------------------------------------------
(* The preflight.                                                          *)

Indexed(i) == {o.export : o \in i.objects} \cup i.empty

OneExportPerKey(es, i) ==
    \A d \in es, e \in es \cup Indexed(i) : Key[d] = Key[e] => d = e

DirectoriesDiffer(es, i) ==
    LET keys == {Key[e] : e \in es \cup {o.export : o \in i.objects}}
    IN  \A j, k \in keys : FoldKey[j] = FoldKey[k] => j = k

NamesDiffer(es, i) ==
    \A o \in Wanted(es), p \in Wanted(es) \cup i.objects :
        Fold[o.name] = Fold[p.name] => o = p

\* verify: a file has the size and the digest of its object.
Holds(o) == folder[o.name] = o.content

NoFile(o) == folder[o.name] = None  \* broken: files of a failed run are refused
AnyFile(o) == TRUE  \* broken: a file of the same name is replaced
Placeable(o) == folder[o.name] = None \/ Holds(o)

Acceptable(es, i) ==
    /\ \A o \in i.objects : Holds(o)
    /\ OneExportPerKey(es, i)
    /\ DirectoriesDiffer(es, i)
    /\ NamesDiffer(es, i)
    /\ \A o \in Wanted(es) \ i.objects : Placeable(o)

-----------------------------------------------------------------------------
(* A run.                                                                  *)

Advance(r, next) == stage' = [stage EXCEPT ![r] = next]

End(r, how) ==
    /\ Advance(r, "ended")
    /\ outcome' = [outcome EXCEPT ![r] = how]
    /\ lock' = None

\* The lock, the index of the tree and then the rows of the service.
Begin(r, selection) ==
    /\ stage[r] = "unused" /\ lock = None
    /\ lock' = r
    /\ Advance(r, "preflight")
    /\ mine' = [mine EXCEPT ![r] = index]
    /\ chosen' = [chosen EXCEPT ![r] = published \cap selection]
    /\ UNCHANGED <<folderVars, todo, placing, outcome, resumable>>

NotThere(es, i) == {o \in Wanted(es) : folder[o.name] = None}  \* broken
Planned(es, i) == Wanted(es) \ i.objects

Preflight(r) ==
    /\ stage[r] = "preflight"
    /\ IF Acceptable(chosen[r], mine[r])
       THEN /\ Advance(r, "place")
            /\ todo' = [todo EXCEPT ![r] = Planned(chosen[r], mine[r])]
            /\ mine' = [mine EXCEPT ![r].empty =
                          @ \cup {e \in chosen[r] : Files[e] = {}}]
            /\ resumable' = chosen[r]
            /\ UNCHANGED <<lock, outcome>>
       ELSE /\ End(r, "refused")
            /\ UNCHANGED <<todo, mine, resumable>>
    /\ UNCHANGED <<folderVars, chosen, placing>>

NotPersisted(o) == folder  \* broken: the copy stays a temporary file
Copied(o) == [folder EXCEPT ![o.name] = o.content]

\* Copy or link the next file unless it is there; what is there must match.
Place(r, o) ==
    /\ stage[r] = "place" /\ o \in todo[r]
    /\ IF Placeable(o)
       THEN /\ folder' = IF Holds(o) THEN folder ELSE Copied(o)
            /\ placing' = [placing EXCEPT ![r] = o]
            /\ todo' = [todo EXCEPT ![r] = @ \ {o}]
            /\ Advance(r, "record")
            /\ UNCHANGED <<lock, outcome>>
       ELSE /\ End(r, "refused")
            /\ UNCHANGED <<folder, placing, todo>>
    /\ UNCHANGED <<index, uploadPlan, chosen, mine, resumable>>

Record(r) ==
    /\ stage[r] = "record"
    /\ mine' = [mine EXCEPT ![r].objects = @ \cup {placing[r]}]
    /\ index' = mine'[r]
    /\ Advance(r, "place")
    /\ UNCHANGED <<folder, uploadPlan, lock, chosen, todo, placing, outcome, resumable>>

\* The index once more, for empty exports, and then the plan of the upload.
WriteIndex(r) ==
    /\ stage[r] = "place" /\ todo[r] = {}
    /\ index' = mine[r]
    /\ Advance(r, "plan")
    /\ UNCHANGED <<folder, uploadPlan, lock, chosen, todo, placing, mine, outcome,
                   resumable>>

WriteUploadPlan(r) ==
    /\ stage[r] = "plan"
    /\ uploadPlan' = mine[r]
    /\ End(r, "ok")
    /\ UNCHANGED <<folder, index, chosen, todo, placing, mine, resumable>>

\* A step fails, or the process dies and with it its lock.
Stop(r) ==
    /\ stage[r] \in {"preflight", "place", "record", "plan"}
    /\ End(r, "stopped")
    /\ UNCHANGED <<folderVars, chosen, todo, placing, mine, resumable>>

Publish(e) ==
    /\ e \notin published
    /\ published' = published \cup {e}
    /\ UNCHANGED <<folderVars, runVars, resumable>>

TreeNext ==
    \/ \E e \in Exports : Publish(e)
    \/ \E r \in Runs :
         /\ \/ \E s \in Selections : Begin(r, s)
            \/ Preflight(r)
            \/ \E o \in todo[r] : Place(r, o)
            \/ Record(r) \/ WriteIndex(r) \/ WriteUploadPlan(r) \/ Stop(r)
         /\ UNCHANGED published

TreeSpec == TreeInit /\ [][TreeNext]_treeVars

-----------------------------------------------------------------------------
(* Properties.                                                             *)

TreeObjects == Wanted(Exports)
Indices == [objects : SUBSET TreeObjects, empty : SUBSET Exports]

TreeTypeOK ==
    /\ published \subseteq Exports
    /\ folder \in [FileNames -> {o.content : o \in TreeObjects} \cup {None}]
    /\ index \in Indices /\ uploadPlan \in Indices
    /\ lock \in Runs \cup {None}
    /\ stage \in [Runs -> {"unused", "preflight", "place", "record", "plan", "ended"}]
    /\ chosen \in [Runs -> SUBSET Exports]
    /\ todo \in [Runs -> SUBSET TreeObjects]
    /\ placing \in [Runs -> TreeObjects \cup {None}]
    /\ mine \in [Runs -> Indices]
    /\ outcome \in [Runs -> {"none", "ok", "refused", "stopped"}]
    /\ resumable \subseteq Exports

\* Whenever an upload reads the index, each object it lists is in the tree with
\* its content, no two differ in case only, and all objects of an asset key are
\* of one export, however many runs of whatever selections were cut short; the
\* upload plan lists nothing else.
IndexIsTrue ==
    /\ \A o \in index.objects : Holds(o)
    /\ uploadPlan.objects \subseteq index.objects
    /\ \A o, p \in index.objects : Fold[o.name] = Fold[p.name] => o = p
    /\ \A d, e \in Indexed(index) : Key[d] = Key[e] => d = e

\* "never overwriting URLs" (src/src/tree.rs:212): no run changes or removes a
\* file of the tree or an object of the index.
NamesAreStable ==
    [][/\ \A n \in FileNames : folder[n] # None => folder'[n] = folder[n]
       /\ index.objects \subseteq index'.objects]_treeVars

\* A run that reports success has indexed every file of every manifest it
\* selected, those an earlier run left behind included.
SuccessIsComplete ==
    \A r \in Runs : outcome[r] = "ok" =>
        /\ Wanted(chosen[r]) \subseteq index.objects
        /\ {e \in chosen[r] : Files[e] = {}} \subseteq index.empty

\* "reruns validate and reuse matching objects" (docs/EXPORT.md:64): whatever a
\* run that was cut short left in the tree, the same selection is accepted
\* again.
RerunIsAccepted == lock = None => Acceptable(resumable, index)

-----------------------------------------------------------------------------
(* The inductive invariant of Trees_proofs.                                *)

EmptyOnes(es) == {e \in es : Files[e] = {}}

Writing(r) == stage[r] \in {"place", "record", "plan"}

\* The lock is held by the run that is at work.
LockInv ==
    \A r \in Runs :
        /\ stage[r] = "preflight" \/ Writing(r) <=> lock = r
        /\ outcome[r] = "ok" => stage[r] = "ended"

\* What a run that writes has yet to place and to record.
Unrecorded(r) == IF stage[r] = "record" THEN todo[r] \cup {placing[r]} ELSE todo[r]

RunInv ==
    \A r \in Runs :
        /\ stage[r] = "preflight" => mine[r] = index
        /\ Writing(r) =>
             /\ chosen[r] = resumable
             /\ mine[r].objects = index.objects
             /\ mine[r].empty = index.empty \cup EmptyOnes(chosen[r])
             /\ Unrecorded(r) \subseteq Wanted(chosen[r])
             /\ Wanted(chosen[r]) \subseteq index.objects \cup Unrecorded(r)
        /\ stage[r] = "record" => Holds(placing[r])
        /\ stage[r] = "plan" => mine[r] = index /\ todo[r] = {}

\* The last run that passed its preflight would pass it again, at every step
\* of its own and of the runs that are refused after it.
AcceptInv == Acceptable(resumable, index)

TreeIInv ==
    /\ TreeTypeOK
    /\ LockInv /\ RunInv /\ AcceptInv
    /\ IndexIsTrue /\ SuccessIsComplete

=============================================================================
