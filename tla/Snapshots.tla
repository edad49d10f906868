------------------------------ MODULE Snapshots -------------------------------
(***************************************************************************)
(* src/src/service.rs: catalogue snapshots.  refresh downloads the         *)
(* catalogue under refresh_lock, keeps its file and makes its row current  *)
(* in one transaction.  snapshot() hands out parsed catalogues through a   *)
(* cache of at most MaxCached, whose mutex is held while one is loaded;    *)
(* what nobody uses is evicted when another one is needed.  Requests can   *)
(* be cancelled at every await and the process can crash.                  *)
(*                                                                         *)
(* A snapshot id is the digest of a catalogue, here its version; the CDN   *)
(* only moves forward.  Bounds: each refresh runs once, MaxVersion,        *)
(* MaxStops, and the set Copies of parsed catalogues in memory.            *)
(***************************************************************************)
EXTENDS Naturals, FiniteSets, FiniteSetsExt

CONSTANTS
    Refreshes,   \* executions of refresh
    Users,       \* requests and tasks that use a snapshot
    Copies,      \* parsed catalogues, Arc<Catalog>
    None,
    MaxCached,   \* 8 in the code
    MaxVersion,
    MaxStops

ASSUME SnapshotsAssumption ==
    /\ None \notin Refreshes \cup Users \cup Copies
    /\ IsFiniteSet(Users) /\ IsFiniteSet(Copies)
    /\ Cardinality(Copies) > MaxCached + Cardinality(Users)
    /\ MaxCached \in Nat \ {0} /\ MaxVersion \in Nat \ {0} /\ MaxStops \in Nat

VARIABLES
    published,   \* the version the CDN serves
    files,       \* catalogs/<sid>.bin
    rows,        \* table snapshots
    current,     \* the rows with current = 1
    stage,       \* control of a refresh
    got,         \* the version it downloaded
    outcome,     \* how it ended
    cancelled,   \* refreshes whose token is cancelled
    refreshLock, \* the refresh that holds refresh_lock, or None
    pc,          \* control of a user
    want,        \* the snapshot it asked for
    copy,        \* the Arc<Catalog> it has
    cache,       \* catalog_cache: a copy by version, or None
    cacheLock,   \* the user that holds the mutex across an await, or None
    stops

refreshVars == <<files, rows, current, stage, got, outcome, refreshLock>>
userVars == <<pc, want, copy, cache, cacheLock>>
vars == <<published, refreshVars, cancelled, userVars, stops>>

-----------------------------------------------------------------------------

Versions == 1..MaxVersion

EmptyCache == [v \in Versions |-> None]

Init ==
    /\ published = 1
    /\ files = {} /\ rows = {} /\ current = {}
    /\ stage = [r \in Refreshes |-> "unused"]
    /\ got = [r \in Refreshes |-> 0]
    /\ outcome = [r \in Refreshes |-> "none"]
    /\ cancelled = {}
    /\ refreshLock = None
    /\ pc = [u \in Users |-> "idle"]
    /\ want = [u \in Users |-> 1]
    /\ copy = [u \in Users |-> None]
    /\ cache = EmptyCache
    /\ cacheLock = None
    /\ stops = 0

\* Another version is put on the CDN.
Publish ==
    /\ published < MaxVersion
    /\ published' = published + 1
    /\ UNCHANGED <<refreshVars, cancelled, userVars, stops>>

-----------------------------------------------------------------------------
(* refresh.                                                                *)

InProgress == {"lock", "fetch", "persist", "commit"}

Advance(r, next) == stage' = [stage EXCEPT ![r] = next]

\* The guard of refresh_lock is dropped with the future.
Unlock(r) == refreshLock' = IF refreshLock = r THEN None ELSE refreshLock

\* What submit_refresh reports for an error.
EndAs(r, how) ==
    /\ Advance(r, "ended")
    /\ outcome' = [outcome EXCEPT ![r] = how]
    /\ Unlock(r)

Submit(r) ==
    /\ stage[r] = "unused"
    /\ Advance(r, "lock")
    /\ UNCHANGED <<published, files, rows, current, got, outcome, cancelled,
                   refreshLock, userVars, stops>>

TakeLock(r) ==
    /\ stage[r] = "lock" /\ refreshLock = None
    /\ Advance(r, "fetch")
    /\ refreshLock' = r
    /\ UNCHANGED <<files, rows, current, got, outcome>>

ReleaseEarly(r) == None  \* broken: the lock covers the download only
KeepLock(r) == refreshLock

\* The hash and the catalogue, in two requests.
Fetch(r) ==
    /\ stage[r] = "fetch"
    /\ Advance(r, "persist")
    /\ got' = [got EXCEPT ![r] = published]
    /\ refreshLock' = KeepLock(r)
    /\ UNCHANGED <<files, rows, current, outcome>>

\* The last look at the token, and the file unless it exists.
Persist(r) ==
    /\ stage[r] = "persist" /\ r \notin cancelled
    /\ files' = files \cup {got[r]}
    /\ Advance(r, "commit")
    /\ UNCHANGED <<rows, current, got, outcome, refreshLock>>

Commit(r) ==
    /\ stage[r] = "commit"
    /\ rows' = rows \cup {got[r]}
    /\ current' = {got[r]}
    /\ EndAs(r, "ok")
    /\ UNCHANGED <<files, got>>

\* A request, the disk or the database fails; the file may be there already.
Fault(r) ==
    /\ stage[r] \in {"fetch", "persist", "commit"}
    /\ EndAs(r, IF r \in cancelled THEN "cancelled" ELSE "error")
    /\ UNCHANGED <<files, rows, current, got>>

\* Nothing looks at the token during the transaction.
Interrupt(r) ==
    /\ stage[r] \in {"lock", "fetch", "persist"} /\ r \in cancelled
    /\ EndAs(r, "cancelled")
    /\ UNCHANGED <<files, rows, current, got>>

RefreshStep(r) ==
    /\ TakeLock(r) \/ Fetch(r) \/ Persist(r) \/ Commit(r) \/ Fault(r) \/ Interrupt(r)
    /\ UNCHANGED <<published, cancelled, userVars, stops>>

Cancel(r) ==
    /\ stage[r] \in InProgress
    /\ cancelled' = cancelled \cup {r}
    /\ UNCHANGED <<published, refreshVars, userVars, stops>>

-----------------------------------------------------------------------------
(* snapshot.                                                               *)

Cached == {v \in Versions : cache[v] # None}

\* Arc::strong_count > 1: somebody besides the cache has the copy.
Shared(v) == \E u \in Users : pc[u] = "using" /\ copy[u] = cache[v]

Retained(v) == v \in Cached /\ Shared(v)

Goto(u, point) == pc' = [pc EXCEPT ![u] = point]

Use(u, c) == Goto(u, "using") /\ copy' = [copy EXCEPT ![u] = c]

\* An id from the client, or the current one, read before the cache is locked.
Ask(u, v) ==
    /\ pc[u] = "idle"
    /\ Goto(u, "lock")
    /\ want' = [want EXCEPT ![u] = v]
    /\ UNCHANGED <<copy, cache, cacheLock>>

Hit(u) ==
    /\ pc[u] = "lock" /\ cacheLock = None
    /\ want[u] \in Cached
    /\ Use(u, cache[want[u]])
    /\ UNCHANGED <<want, cache, cacheLock>>

NotLocked(u) == None  \* broken: the mutex is not held while loading
LoadingLock(u) == u

\* What nobody uses is evicted, and there must be room for one more.
Miss(u) ==
    /\ pc[u] = "lock" /\ cacheLock = None
    /\ want[u] \notin Cached
    /\ cache' = [v \in Versions |-> IF Retained(v) THEN cache[v] ELSE None]
    /\ IF Cardinality({v \in Versions : Retained(v)}) < MaxCached
       THEN Goto(u, "load") /\ cacheLock' = LoadingLock(u)
       ELSE Goto(u, "idle") /\ UNCHANGED cacheLock
    /\ UNCHANGED <<want, copy>>

Fresh == Copies \ ({cache[v] : v \in Versions} \cup {copy[u] : u \in Users})

Release(u) == cacheLock' = IF cacheLock = u THEN None ELSE cacheLock

\* The row is read and parsed.
Load(u) ==
    /\ pc[u] = "load"
    /\ want[u] \in rows
    /\ LET c == CHOOSE c \in Fresh : TRUE
       IN  Use(u, c) /\ cache' = [cache EXCEPT ![want[u]] = c]
    /\ Release(u)
    /\ UNCHANGED want

\* The row is missing or unreadable, the client hangs up, or the user is done.
Drop(u) ==
    /\ pc[u] \in {"lock", "load", "using"}
    /\ Goto(u, "idle")
    /\ copy' = [copy EXCEPT ![u] = None]
    /\ Release(u)
    /\ UNCHANGED <<want, cache>>

UserStep(u) ==
    /\ \/ \E v \in Versions : Ask(u, v)
       \/ Hit(u) \/ Miss(u) \/ Load(u) \/ Drop(u)
    /\ UNCHANGED <<published, refreshVars, cancelled, stops>>

-----------------------------------------------------------------------------

\* The process dies and is started again.
Crash ==
    /\ stops < MaxStops
    /\ stops' = stops + 1
    /\ stage' = [r \in Refreshes |-> IF stage[r] \in InProgress THEN "lost" ELSE stage[r]]
    /\ refreshLock' = None
    /\ pc' = [u \in Users |-> "idle"]
    /\ copy' = [u \in Users |-> None]
    /\ cache' = EmptyCache
    /\ cacheLock' = None
    /\ UNCHANGED <<published, files, rows, current, got, outcome, cancelled, want>>

Next ==
    \/ Publish
    \/ \E r \in Refreshes : Submit(r) \/ RefreshStep(r) \/ Cancel(r)
    \/ \E u \in Users : UserStep(u)
    \/ Crash

Spec == Init /\ [][Next]_vars

-----------------------------------------------------------------------------
(* Properties.                                                             *)

TypeOK ==
    /\ published \in Versions
    /\ files \subseteq Versions /\ rows \subseteq Versions /\ current \subseteq rows
    /\ stage \in [Refreshes -> {"unused", "ended", "lost"} \cup InProgress]
    /\ got \in [Refreshes -> {0} \cup Versions]
    /\ outcome \in [Refreshes -> {"none", "ok", "error", "cancelled"}]
    /\ cancelled \subseteq Refreshes
    /\ refreshLock \in Refreshes \cup {None}
    /\ pc \in [Users -> {"idle", "lock", "load", "using"}]
    /\ want \in [Users -> Versions]
    /\ copy \in [Users -> Copies \cup {None}]
    /\ cache \in [Versions -> Copies \cup {None}]
    /\ cacheLock \in Users \cup {None}
    /\ stops \in 0..MaxStops

\* Refreshes that overlap, fail, are cancelled or die leave exactly one current
\* snapshot, and never an older one over a newer one: what a refresh committed
\* was fetched after everything committed before it.
CurrentIsLatest == rows # {} => current = {Max(rows)}

\* "active parsing graphs are shared" (docs/ARCHITECTURE.md:4): users of one
\* snapshot have the same parsed catalogue, and never more than MaxCached
\* catalogues are in memory.
CatalogsShared ==
    LET active == {u \in Users : pc[u] = "using"}
    IN  /\ \A u, w \in active : want[u] = want[w] => copy[u] = copy[w]
        /\ Cardinality({copy[u] : u \in active} \cup {cache[v] : v \in Cached})
             <= MaxCached

-----------------------------------------------------------------------------
(* The inductive invariant of Catalogue_proofs.                            *)

\* What a refresh has downloaded, it downloaded under the lock: nobody has
\* committed since, so it is at least as new as every row.
RefreshInv ==
    /\ \A r \in Refreshes :
         /\ stage[r] \in {"fetch", "persist", "commit"} <=> refreshLock = r
         /\ stage[r] \in {"persist", "commit"} =>
              /\ got[r] \in 1..published
              /\ \A v \in rows : v <= got[r]
         /\ stage[r] = "commit" => got[r] \in files
    /\ \A v \in rows : v <= published
    /\ rows \subseteq files

\* Whoever uses a snapshot keeps its entry from being evicted; one that loads
\* has made room for it and keeps others out.
CacheInv ==
    /\ \A u \in Users :
         /\ pc[u] = "load" <=> cacheLock = u
         /\ pc[u] = "load" => want[u] \notin Cached /\ Cardinality(Cached) < MaxCached
         /\ pc[u] = "using" => copy[u] # None /\ copy[u] = cache[want[u]]
    /\ Cardinality(Cached) <= MaxCached

IInv == TypeOK /\ RefreshInv /\ CurrentIsLatest /\ CacheInv

=============================================================================
