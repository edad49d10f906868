-------------------------------- MODULE Catalog --------------------------------
(***************************************************************************)
(* src/src/catalog.rs: the two graph searches.  Catalog::parse reads every *)
(* location that a key lists, and what those depend on; closure_from       *)
(* collects what has to be downloaded for one location.  Dependencies are  *)
(* what the file says: they may form cycles and be shared.                 *)
(*                                                                         *)
(* The file is well formed here: the reader's checks of offsets, strings   *)
(* and sizes are left out, and so are the limits on counts.  The stack of  *)
(* closure_from is a set, its order a choice.                              *)
(***************************************************************************)
EXTENDS Naturals, Sequences, FiniteSets, FiniteSetsExt, SequencesExt

CONSTANTS
    Ids,       \* location ids, numbers
    Keys,      \* keys of type string
    Files,     \* catalogue files: a location by id
    KeyTables, \* key tables: ids by key
    Numeric    \* ids listed under keys of other types

\* The locations a file names are its own, and there are finitely many.
ASSUME CatalogAssumption ==
    /\ Ids \subseteq Nat /\ IsFiniteSet(Ids) /\ Numeric \subseteq Ids
    /\ \A f \in Files, id \in Ids : f[id].deps \subseteq Ids
    /\ \A table \in KeyTables, k \in Keys : ToSet(table[k]) \subseteq Ids

VARIABLES
    file,      \* the file that is parsed
    keys,      \* Catalog.keys
    phase,     \* "parse", "parsed", "closure" or "done"
    pending,   \* ids still to read
    locations, \* ids in Catalog.locations
    start,     \* the location whose closure is taken
    todo,
    seen,
    out,       \* the closure: locations with a download
    error      \* why there is none

catalogVars == <<file, keys, phase, pending, locations, start, todo, seen, out, error>>

-----------------------------------------------------------------------------

Listed == Numeric \cup UNION {ToSet(keys[k]) : k \in Keys}

Providers == {"crypt", "plain", "cri"}

CatalogInit ==
    /\ file \in Files /\ keys \in KeyTables
    /\ phase = "parse"
    /\ pending = Listed
    /\ locations = {}
    /\ start = 0 /\ todo = {} /\ seen = {} /\ out = {}
    /\ error = "none"

NoEdges(id) == {}  \* broken: only what a key lists is read
Unread(id) == file[id].deps \ locations

\* pop_first; a location that is listed again is not read again.
ReadLocation ==
    /\ phase = "parse" /\ pending # {}
    /\ LET id == Min(pending)
       IN  IF id \in locations
           THEN pending' = pending \ {id} /\ UNCHANGED locations
           ELSE /\ pending' = (pending \ {id}) \cup Unread(id)
                /\ locations' = locations \cup {id}
    /\ UNCHANGED <<file, keys, phase, start, todo, seen, out, error>>

Parsed ==
    /\ phase = "parse" /\ pending = {}
    /\ phase' = "parsed"
    /\ UNCHANGED <<file, keys, pending, locations, start, todo, seen, out, error>>

\* closure_from, of a location that resolve has found.
BeginClosure(id) ==
    /\ phase = "parsed" /\ id \in Listed
    /\ phase' = "closure"
    /\ start' = id /\ todo' = {id}
    /\ UNCHANGED <<file, keys, pending, locations, seen, out, error>>

Ends(how) == phase' = "done" /\ error' = how

Seen(id) == id \in seen

Visit(id) ==
    /\ phase = "closure" /\ id \in todo
    /\ UNCHANGED <<file, keys, pending, locations, start>>
    /\ \/ /\ Seen(id)
          /\ todo' = todo \ {id}
          /\ UNCHANGED <<phase, seen, out, error>>
       \/ /\ ~Seen(id) /\ id \notin locations
          /\ Ends("dependency missing")
          /\ UNCHANGED <<todo, seen, out>>
       \/ /\ ~Seen(id) /\ id \in locations
          /\ file[id].options /\ file[id].provider \notin Providers
          /\ Ends("unsupported provider")
          /\ UNCHANGED <<todo, seen, out>>
       \/ /\ ~Seen(id) /\ id \in locations
          /\ file[id].options => file[id].provider \in Providers
          /\ seen' = seen \cup {id}
          /\ todo' = (todo \ {id}) \cup file[id].deps
          /\ out' = IF file[id].options THEN out \cup {id} ELSE out
          /\ UNCHANGED <<phase, error>>

Closed ==
    /\ phase = "closure" /\ todo = {}
    /\ Ends(IF out = {} THEN "no downloadable dependencies" ELSE "none")
    /\ UNCHANGED <<file, keys, pending, locations, start, todo, seen, out>>

CatalogNext ==
    \/ ReadLocation \/ Parsed \/ Closed
    \/ \E id \in Ids : BeginClosure(id) \/ Visit(id)

CatalogSpec == CatalogInit /\ [][CatalogNext]_catalogVars

-----------------------------------------------------------------------------
(* Properties.                                                             *)

\* The least set with roots that has all dependencies of its members.
Reachable(roots) ==
    LET complete == {S \in SUBSET Ids :
                       roots \subseteq S /\ \A id \in S : file[id].deps \subseteq S}
    IN  {id \in Ids : \A S \in complete : id \in S}

\* Whatever cycles and sharing the file has and in whatever order it is
\* searched, the catalogue holds what its keys need, no closure misses a
\* dependency, and a closure is exactly the downloads that can be reached; it
\* fails only for one that cannot be handled or when there is none.
ClosureIsReachable ==
    /\ phase # "parse" => locations = Reachable(Listed)
    /\ phase = "done" =>
         LET downloads == {id \in Reachable({start}) : file[id].options}
             handled == \A id \in downloads : file[id].provider \in Providers
         IN  /\ error = "none" => handled /\ downloads # {} /\ out = downloads
             /\ error = "unsupported provider" => ~handled
             /\ error = "no downloadable dependencies" => downloads = {}
             /\ error # "dependency missing"

-----------------------------------------------------------------------------
(* What makes the property inductive: both searches stay within what can be *)
(* reached, and leave out nothing but what is still to be visited.          *)

CatalogTypeOK ==
    /\ file \in Files /\ keys \in KeyTables
    /\ phase \in {"parse", "parsed", "closure", "done"}
    /\ {pending, locations, todo, seen, out} \subseteq SUBSET Ids
    /\ phase \in {"closure", "done"} => start \in Ids
    /\ error \in {"none", "dependency missing", "unsupported provider",
                  "no downloadable dependencies"}
    /\ phase # "done" => error = "none"

\* roots, and what members depend on, have been found or are still to be.
Explored(roots, members, rest) ==
    /\ roots \subseteq members \cup rest
    /\ \A id \in members : file[id].deps \subseteq members \cup rest
    /\ members \cup rest \subseteq Reachable(roots)

ParseInv ==
    /\ Explored(Listed, locations, pending)
    /\ phase # "parse" => pending = {}

Unhandled(id) == file[id].options /\ file[id].provider \notin Providers

ClosureInv ==
    /\ phase \in {"parse", "parsed"} => seen = {} /\ out = {}
    /\ phase \in {"closure", "done"} => start \in Listed /\ Explored({start}, seen, todo)
    /\ out = {id \in seen : file[id].options}
    /\ \A id \in seen : ~Unhandled(id)
    /\ error \in {"none", "no downloadable dependencies"} /\ phase = "done" =>
         todo = {} /\ (error = "none" <=> out # {})
    /\ error = "unsupported provider" => \E id \in todo : Unhandled(id)
    /\ error # "dependency missing"

CatalogIInv == CatalogTypeOK /\ ParseInv /\ ClosureInv

=============================================================================
