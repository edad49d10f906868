--------------------------- MODULE Catalogue_proofs ---------------------------
(***************************************************************************)
(* The catalogue, for any constants.                                       *)
(*                                                                         *)
(* Snapshots: for any refreshes, users, cache size and number of crashes   *)
(* the current snapshot is the newest one, and users share what is parsed. *)
(* Refreshes and users write different variables, so each half of the      *)
(* inductive invariant is kept by the steps of one side and by crashes.    *)
(*                                                                         *)
(* The searches of Catalog and the decisions of Plan: for any file, key    *)
(* table and request, what is found is the least set closed under          *)
(* dependencies, and a plan is carried out as it was announced.  Both      *)
(* searches keep the same invariant, Explored.                             *)
(***************************************************************************)
EXTENDS Snapshots, Plan, FiniteSetTheorems, WellFoundedInduction, TLAPS

-----------------------------------------------------------------------------
(* Snapshots: sets and the cache.                                          *)

LEMMA LargestIsMax ==
    ASSUME NEW S \in SUBSET Nat, NEW m \in S, \A v \in S : v <= m
    PROVE  Max(S) = m
<1> DEFINE P(x) == x \in S /\ \A y \in S : x >= y
<1>1. P(m)  OBVIOUS
<1>2. ASSUME NEW x, P(x)  PROVE x = m  BY <1>2
<1>3. Max(S) = CHOOSE x : P(x)  BY DEF Max
<1>4. P(CHOOSE x : P(x))  BY <1>1
<1>5. QED  BY <1>2, <1>3, <1>4

LEMMA ImageIsFinite ==
    ASSUME NEW S, IsFiniteSet(S), NEW f
    PROVE  LET T == {f[x] : x \in S}
           IN  IsFiniteSet(T) /\ Cardinality(T) <= Cardinality(S)
<1> DEFINE T == {f[x] : x \in S}
           g == [x \in S |-> f[x]]
<1>1. g \in Surjection(S, T)  BY DEF Surjection
<1> HIDE DEF g, T
<1>2. IsFiniteSet(T) /\ Cardinality(T) <= Cardinality(S)
  BY <1>1, FS_Surjection
<1>3. QED  BY <1>2 DEF T

LEMMA VersionsAreFinite == Versions \subseteq Nat /\ IsFiniteSet(Versions)
BY SnapshotsAssumption, FS_Interval DEF Versions

LEMMA CachedIsFinite ==
    IsFiniteSet(Cached) /\ Cardinality(Cached) \in Nat
<1>1. IsFiniteSet(Cached)  BY VersionsAreFinite, FS_Subset DEF Cached
<1>2. QED  BY <1>1, FS_CardinalityType

\* The copies in memory never use up the set of copies.
LEMMA FreshExists ==
    ASSUME TypeOK, CacheInv
    PROVE  Fresh # {}
<1> DEFINE cached == {cache[v] : v \in Cached}
           held == {copy[u] : u \in Users}
<1>1. IsFiniteSet(cached) /\ Cardinality(cached) <= Cardinality(Cached)
  BY CachedIsFinite, ImageIsFinite
<1>2. IsFiniteSet(held) /\ Cardinality(held) <= Cardinality(Users)
  BY SnapshotsAssumption, ImageIsFinite
<1>3. /\ Cardinality(cached) \in Nat /\ Cardinality(held) \in Nat
      /\ Cardinality(Users) \in Nat
  BY <1>1, <1>2, SnapshotsAssumption, FS_CardinalityType
<1> HIDE DEF cached, held
<1>4. /\ IsFiniteSet(cached \cup held)
      /\ Cardinality(cached \cup held) <= Cardinality(cached) + Cardinality(held)
  <2>1. Cardinality(cached \cap held) \in Nat
    BY <1>1, FS_Intersection, FS_CardinalityType
  <2>2. /\ IsFiniteSet(cached \cup held)
        /\ Cardinality(cached \cup held)
             = Cardinality(cached) + Cardinality(held) - Cardinality(cached \cap held)
    BY <1>1, <1>2, FS_Union
  <2>3. QED  BY <1>3, <2>1, <2>2
<1>5. Cardinality(cached \cup held) \in Nat /\ Cardinality(Copies) \in Nat
  BY <1>4, SnapshotsAssumption, FS_CardinalityType
<1>6. Cardinality(cached \cup held) < Cardinality(Copies)
  BY <1>1, <1>2, <1>3, <1>4, <1>5, CachedIsFinite, SnapshotsAssumption DEF CacheInv
<1>7. ~(Copies \subseteq cached \cup held)
  BY <1>4, <1>5, <1>6, FS_Subset
<1>8. Copies \cap {cache[v] : v \in Versions} \subseteq cached
  BY SnapshotsAssumption DEF cached, Cached
<1>9. QED  BY <1>7, <1>8 DEF Fresh, held

LEMMA InitIInv == Init => IInv
<1> SUFFICES ASSUME Init PROVE IInv  OBVIOUS
<1> USE DEF Init, EmptyCache
<1>1. 1 \in Versions  BY SnapshotsAssumption DEF Versions
<1>2. TypeOK  BY <1>1, SnapshotsAssumption DEF TypeOK, InProgress
<1>3. RefreshInv  BY SnapshotsAssumption DEF RefreshInv
<1>4. CurrentIsLatest  BY DEF CurrentIsLatest
<1>5. CacheInv
  <2>1. Cached = {}  BY DEF Cached
  <2>2. Cardinality(Cached) = 0  BY <2>1, FS_EmptySet
  <2>3. QED  BY <2>2, SnapshotsAssumption DEF CacheInv
<1>6. QED  BY <1>2, <1>3, <1>4, <1>5 DEF IInv

-----------------------------------------------------------------------------
(* What a step of one side leaves alone.                                   *)

RefreshTypes ==
    /\ files \subseteq Versions /\ rows \subseteq Versions /\ current \subseteq rows
    /\ stage \in [Refreshes -> {"unused", "ended", "lost"} \cup InProgress]
    /\ got \in [Refreshes -> {0} \cup Versions]
    /\ outcome \in [Refreshes -> {"none", "ok", "error", "cancelled"}]
    /\ refreshLock \in Refreshes \cup {None}

UserTypes ==
    /\ pc \in [Users -> {"idle", "lock", "load", "using"}]
    /\ want \in [Users -> Versions]
    /\ copy \in [Users -> Copies \cup {None}]
    /\ cache \in [Versions -> Copies \cup {None}]
    /\ cacheLock \in Users \cup {None}

OtherTypes ==
    published \in Versions /\ cancelled \subseteq Refreshes /\ stops \in 0..MaxStops

RefreshHalf == RefreshTypes /\ RefreshInv /\ CurrentIsLatest
UserHalf == UserTypes /\ CacheInv

LEMMA Halves ==
    /\ IInv <=> RefreshHalf /\ UserHalf /\ OtherTypes
    /\ IInv' <=> RefreshHalf' /\ UserHalf' /\ OtherTypes'
<1>1. /\ TypeOK <=> RefreshTypes /\ UserTypes /\ OtherTypes
      /\ TypeOK' <=> RefreshTypes' /\ UserTypes' /\ OtherTypes'
  BY DEF TypeOK, RefreshTypes, UserTypes, OtherTypes
<1>2. QED  BY <1>1 DEF IInv, RefreshHalf, UserHalf

LEMMA UserHalfStays ==
    ASSUME UserHalf, UNCHANGED userVars
    PROVE  UserHalf'
BY DEF UserHalf, UserTypes, CacheInv, Cached, userVars

LEMMA RefreshHalfStays ==
    ASSUME RefreshHalf, UNCHANGED <<published, refreshVars>>
    PROVE  RefreshHalf'
BY DEF RefreshHalf, RefreshTypes, RefreshInv, CurrentIsLatest, refreshVars

-----------------------------------------------------------------------------
(* refresh.                                                                *)

LEMMA PublishKeepsIInv ==
    ASSUME IInv, Publish
    PROVE  IInv'
<1>1. published' \in Versions /\ published \in Nat /\ published' = published + 1
  BY SnapshotsAssumption DEF Publish, IInv, TypeOK, Versions
<1>2. UNCHANGED <<refreshVars, userVars, cancelled, stops>>  BY DEF Publish
<1>3. RefreshHalf'
  <2>1. RefreshTypes' /\ CurrentIsLatest'
    BY <1>2 DEF IInv, TypeOK, RefreshTypes, CurrentIsLatest, refreshVars
  <2>2. \A v \in rows : v \in Nat
    BY VersionsAreFinite DEF IInv, TypeOK
  <2>3. \A v \in rows' : v <= published'
    BY <1>1, <1>2, <2>2 DEF IInv, RefreshInv, refreshVars
  <2>4. \A r \in Refreshes : got[r] \in 1..published => got'[r] \in 1..published'
    BY <1>1, <1>2 DEF refreshVars
  <2>5. RefreshInv'
    BY <1>2, <2>3, <2>4 DEF IInv, RefreshInv, refreshVars
  <2>6. QED  BY <2>1, <2>5 DEF RefreshHalf
<1>4. UserHalf'  BY <1>2, Halves, UserHalfStays
<1>5. OtherTypes'  BY <1>1, <1>2 DEF IInv, TypeOK, OtherTypes
<1>6. QED  BY <1>3, <1>4, <1>5, Halves

\* A refresh that ends without a commit gives the lock back if it has it.
LEMMA EndKeepsRefreshHalf ==
    ASSUME IInv, NEW r \in Refreshes, NEW how \in {"error", "cancelled"},
           EndAs(r, how), UNCHANGED <<published, files, rows, current, got>>
    PROVE  RefreshHalf'
<1>1. RefreshTypes'
  BY DEF EndAs, Advance, Unlock, IInv, TypeOK, RefreshTypes
<1>2. RefreshInv'
  BY SnapshotsAssumption DEF EndAs, Advance, Unlock, IInv, TypeOK, RefreshInv
<1>3. QED  BY <1>1, <1>2 DEF RefreshHalf, IInv, CurrentIsLatest

\* The row that becomes current is the newest: the lock was held since the
\* download.
LEMMA CommitKeepsRefreshHalf ==
    ASSUME IInv, NEW r \in Refreshes, Commit(r), UNCHANGED published
    PROVE  RefreshHalf'
<1> DEFINE v == got[r]
<1>1. /\ stage[r] = "commit" /\ refreshLock = r
      /\ v \in Versions /\ v \in Nat /\ v \in files /\ v <= published
      /\ \A w \in rows : w <= v
  BY VersionsAreFinite DEF Commit, IInv, RefreshInv, TypeOK, Versions
<1>2. /\ rows' = rows \cup {v} /\ current' = {v}
      /\ stage' = [stage EXCEPT ![r] = "ended"] /\ refreshLock' = None
      /\ outcome' = [outcome EXCEPT ![r] = "ok"]
      /\ UNCHANGED <<files, got, published>>
  BY <1>1 DEF Commit, EndAs, Advance, Unlock
<1>3. RefreshTypes'
  BY <1>1, <1>2 DEF IInv, TypeOK, RefreshTypes
<1>4. RefreshInv'
  BY <1>1, <1>2, SnapshotsAssumption DEF IInv, TypeOK, RefreshInv
<1>5. CurrentIsLatest'
  <2>1. rows' \in SUBSET Nat /\ \A w \in rows' : w <= v
    <3>1. rows \subseteq Nat  BY VersionsAreFinite DEF IInv, TypeOK
    <3>2. rows' \subseteq Nat  BY <1>1, <1>2, <3>1
    <3>3. v <= v  BY <1>1
    <3>4. \A w \in rows' : w <= v  BY <1>1, <1>2, <3>3
    <3>5. QED  BY <3>2, <3>4
  <2>2. Max(rows') = v  BY <1>2, <2>1, LargestIsMax
  <2>3. QED  BY <1>2, <2>2 DEF CurrentIsLatest
<1>6. QED  BY <1>3, <1>4, <1>5 DEF RefreshHalf

LEMMA RefreshStepKeepsIInv ==
    ASSUME IInv, NEW r \in Refreshes, RefreshStep(r)
    PROVE  IInv'
<1>0. UNCHANGED <<published, cancelled, userVars, stops>>  BY DEF RefreshStep
<1>1. CASE TakeLock(r)
  <2>1. RefreshTypes'
    BY <1>1 DEF TakeLock, Advance, IInv, TypeOK, RefreshTypes, InProgress
  <2>2. RefreshInv'
    BY <1>0, <1>1, SnapshotsAssumption DEF TakeLock, Advance, IInv, TypeOK, RefreshInv
  <2>3. RefreshHalf'
    BY <1>1, <2>1, <2>2 DEF TakeLock, RefreshHalf, IInv, CurrentIsLatest
  <2>4. QED  BY <1>0, <2>3, Halves, UserHalfStays DEF OtherTypes
<1>2. CASE Fetch(r)
  <2>0. refreshLock' = refreshLock  BY <1>2 DEF Fetch, KeepLock
  <2>1. RefreshTypes'
    BY <1>2, <2>0 DEF Fetch, Advance, IInv, TypeOK, RefreshTypes, InProgress
  <2>2. RefreshInv'
    <3>1. published \in 1..published /\ \A v \in rows : v <= published
      BY DEF IInv, TypeOK, RefreshInv, Versions
    <3>2. QED
      BY <1>0, <1>2, <2>0, <3>1, SnapshotsAssumption
      DEF Fetch, Advance, IInv, TypeOK, RefreshInv
  <2>3. RefreshHalf'
    BY <1>2, <2>1, <2>2 DEF Fetch, RefreshHalf, IInv, CurrentIsLatest
  <2>4. QED  BY <1>0, <2>3, Halves, UserHalfStays DEF OtherTypes
<1>3. CASE Persist(r)
  <2>0. got[r] \in Versions
    BY <1>3 DEF Persist, IInv, TypeOK, RefreshInv, Versions
  <2>1. RefreshTypes'
    BY <1>3, <2>0 DEF Persist, Advance, IInv, TypeOK, RefreshTypes, InProgress
  <2>2. RefreshInv'
    BY <1>0, <1>3, SnapshotsAssumption DEF Persist, Advance, IInv, TypeOK, RefreshInv
  <2>3. RefreshHalf'
    BY <1>3, <2>1, <2>2 DEF Persist, RefreshHalf, IInv, CurrentIsLatest
  <2>4. QED  BY <1>0, <2>3, Halves, UserHalfStays DEF OtherTypes
<1>4. CASE Commit(r)
  BY <1>0, <1>4, CommitKeepsRefreshHalf, Halves, UserHalfStays DEF OtherTypes
<1>5. CASE Fault(r) \/ Interrupt(r)
  <2>1. RefreshHalf'
    BY <1>0, <1>5, EndKeepsRefreshHalf DEF Fault, Interrupt
  <2>2. QED  BY <1>0, <2>1, Halves, UserHalfStays DEF OtherTypes
<1>6. QED
  BY <1>1, <1>2, <1>3, <1>4, <1>5 DEF RefreshStep

LEMMA SubmitKeepsIInv ==
    ASSUME IInv, NEW r \in Refreshes, Submit(r) \/ Cancel(r)
    PROVE  IInv'
<1>1. CASE Submit(r)
  <2>0. UNCHANGED <<published, files, rows, current, got, outcome, cancelled,
                    refreshLock, userVars, stops>>
    BY <1>1 DEF Submit
  <2>1. RefreshTypes'
    BY <1>1, <2>0 DEF Submit, Advance, IInv, TypeOK, RefreshTypes, InProgress
  <2>2. RefreshInv'
    BY <1>1, <2>0, SnapshotsAssumption DEF Submit, Advance, IInv, TypeOK, RefreshInv
  <2>3. RefreshHalf'
    BY <2>0, <2>1, <2>2 DEF RefreshHalf, IInv, CurrentIsLatest
  <2>4. QED  BY <2>0, <2>3, Halves, UserHalfStays DEF OtherTypes
<1>2. CASE Cancel(r)
  BY <1>2, Halves, UserHalfStays, RefreshHalfStays DEF Cancel, OtherTypes
<1>3. QED  BY <1>1, <1>2

-----------------------------------------------------------------------------
(* snapshot.                                                               *)

LEMMA HitKeepsUserHalf ==
    ASSUME UserHalf, NEW u \in Users, Hit(u)
    PROVE  UserHalf'
<1>1. /\ pc[u] = "lock" /\ want[u] \in Versions /\ cache[want[u]] # None
      /\ pc' = [pc EXCEPT ![u] = "using"]
      /\ copy' = [copy EXCEPT ![u] = cache[want[u]]]
      /\ UNCHANGED <<want, cache, cacheLock>>
  BY DEF Hit, Use, Goto, Cached
<1>2. Cached' = Cached  BY <1>1 DEF Cached
<1>3. UserTypes'  BY <1>1 DEF UserHalf, UserTypes
<1>4. CacheInv'
  BY <1>1, <1>2, SnapshotsAssumption DEF UserHalf, UserTypes, CacheInv
<1>5. QED  BY <1>3, <1>4 DEF UserHalf

\* What a user has is retained.
LEMMA MissKeepsUserHalf ==
    ASSUME UserHalf, NEW u \in Users, Miss(u)
    PROVE  UserHalf'
<1> DEFINE kept == {v \in Versions : Retained(v)}
<1>1. /\ pc[u] = "lock" /\ cacheLock = None /\ want[u] \notin Cached
      /\ cache' = [v \in Versions |-> IF Retained(v) THEN cache[v] ELSE None]
      /\ UNCHANGED <<want, copy>>
      /\ \/ /\ Cardinality(kept) < MaxCached
            /\ pc' = [pc EXCEPT ![u] = "load"] /\ cacheLock' = u
         \/ /\ pc' = [pc EXCEPT ![u] = "idle"] /\ cacheLock' = None
  BY DEF Miss, Goto, LoadingLock
<1>2. kept \subseteq Cached /\ Cached' = kept
  BY <1>1 DEF Retained, Cached
<1>3. Cardinality(kept) \in Nat /\ Cardinality(kept) <= Cardinality(Cached)
  BY <1>2, CachedIsFinite, FS_Subset, FS_CardinalityType
<1>4. Cardinality(Cached') <= MaxCached
  BY <1>2, <1>3, CachedIsFinite, SnapshotsAssumption DEF UserHalf, CacheInv
<1>5. UserTypes'
  BY <1>1 DEF UserHalf, UserTypes, Retained, Cached
<1>6. ASSUME NEW w \in Users, pc'[w] = "using"
      PROVE  copy'[w] # None /\ copy'[w] = cache'[want'[w]]
  <2>1. pc[w] = "using"  BY <1>1, <1>6 DEF UserHalf, UserTypes
  <2>2. copy[w] # None /\ copy[w] = cache[want[w]] /\ want[w] \in Versions
    BY <2>1 DEF UserHalf, UserTypes, CacheInv
  <2>3. Retained(want[w])  BY <2>1, <2>2 DEF Retained, Shared, Cached
  <2>4. QED  BY <1>1, <2>2, <2>3
<1>7. ASSUME NEW w \in Users
      PROVE  /\ pc'[w] = "load" <=> cacheLock' = w
             /\ pc'[w] = "load" => want'[w] \notin Cached'
                                   /\ Cardinality(Cached') < MaxCached
  <2>1. pc[w] # "load"
    BY <1>1, SnapshotsAssumption DEF UserHalf, CacheInv
  <2>2. CASE w = u
    BY <1>1, <1>2, <2>2, SnapshotsAssumption DEF UserHalf, UserTypes
  <2>3. CASE w # u
    BY <1>1, <2>1, <2>3, SnapshotsAssumption DEF UserHalf, UserTypes
  <2>4. QED  BY <2>2, <2>3
<1>8. CacheInv'  BY <1>4, <1>6, <1>7 DEF CacheInv
<1>9. QED  BY <1>5, <1>8 DEF UserHalf

LEMMA LoadKeepsUserHalf ==
    ASSUME IInv, NEW u \in Users, Load(u)
    PROVE  UserHalf'
<1>0. UserHalf  BY Halves
<1> DEFINE c == CHOOSE c \in Fresh : TRUE
<1>1. c \in Copies /\ c # None
  <2>1. c \in Fresh  BY FreshExists DEF IInv
  <2>2. QED  BY <2>1, SnapshotsAssumption DEF Fresh
<1> HIDE DEF c
<1>2. /\ pc[u] = "load" /\ cacheLock = u
      /\ want[u] \in Versions /\ want[u] \notin Cached
      /\ Cardinality(Cached) < MaxCached
      /\ pc' = [pc EXCEPT ![u] = "using"] /\ copy' = [copy EXCEPT ![u] = c]
      /\ cache' = [cache EXCEPT ![want[u]] = c]
      /\ cacheLock' = None /\ want' = want
  BY <1>0 DEF Load, Use, Goto, Release, UserHalf, UserTypes, CacheInv, c
<1>3. Cached' = Cached \cup {want[u]}
  BY <1>0, <1>1, <1>2 DEF Cached, UserHalf, UserTypes
<1>4. Cardinality(Cached') <= MaxCached
  <2>1. Cardinality(Cached') = Cardinality(Cached) + 1
    BY <1>2, <1>3, CachedIsFinite, FS_AddElement
  <2>2. QED  BY <1>2, <2>1, CachedIsFinite, SnapshotsAssumption
<1>5. UserTypes'  BY <1>0, <1>1, <1>2 DEF UserHalf, UserTypes
<1>6. ASSUME NEW w \in Users, pc'[w] = "using"
      PROVE  copy'[w] # None /\ copy'[w] = cache'[want'[w]]
  <2>1. CASE w = u
    BY <1>0, <1>1, <1>2, <2>1 DEF UserHalf, UserTypes
  <2>2. CASE w # u
    <3>1. pc[w] = "using"  BY <1>0, <1>2, <1>6, <2>2 DEF UserHalf, UserTypes
    <3>2. copy[w] # None /\ copy[w] = cache[want[w]] /\ want[w] \in Versions
      BY <1>0, <3>1 DEF UserHalf, UserTypes, CacheInv
    <3>3. want[w] # want[u]  BY <1>2, <3>2 DEF Cached
    <3>4. QED  BY <1>0, <1>2, <2>2, <3>2, <3>3 DEF UserHalf, UserTypes
  <2>3. QED  BY <2>1, <2>2
<1>7. ASSUME NEW w \in Users
      PROVE  pc'[w] # "load" /\ cacheLock' # w
  BY <1>0, <1>2, SnapshotsAssumption DEF UserHalf, UserTypes, CacheInv
<1>8. CacheInv'  BY <1>4, <1>6, <1>7 DEF CacheInv
<1>9. QED  BY <1>5, <1>8 DEF UserHalf

LEMMA DropKeepsUserHalf ==
    ASSUME UserHalf, NEW u \in Users, Drop(u)
    PROVE  UserHalf'
<1>1. /\ pc' = [pc EXCEPT ![u] = "idle"] /\ copy' = [copy EXCEPT ![u] = None]
      /\ cacheLock' = IF cacheLock = u THEN None ELSE cacheLock
      /\ UNCHANGED <<want, cache>>
  BY DEF Drop, Goto, Release
<1>2. Cached' = Cached  BY <1>1 DEF Cached
<1>3. UserTypes'  BY <1>1 DEF UserHalf, UserTypes
<1>4. CacheInv'
  BY <1>1, <1>2, SnapshotsAssumption DEF UserHalf, UserTypes, CacheInv
<1>5. QED  BY <1>3, <1>4 DEF UserHalf

LEMMA UserStepKeepsIInv ==
    ASSUME IInv, NEW u \in Users, UserStep(u)
    PROVE  IInv'
<1>0. UNCHANGED <<published, refreshVars, cancelled, stops>>  BY DEF UserStep
<1>1. UserHalf  BY Halves
<1>2. ASSUME NEW v \in Versions, Ask(u, v)  PROVE UserHalf'
  <2>1. /\ pc[u] = "idle" /\ pc' = [pc EXCEPT ![u] = "lock"]
        /\ want' = [want EXCEPT ![u] = v] /\ UNCHANGED <<copy, cache, cacheLock>>
    BY <1>2 DEF Ask, Goto
  <2>2. Cached' = Cached  BY <2>1 DEF Cached
  <2>3. UserTypes'  BY <1>1, <2>1 DEF UserHalf, UserTypes
  <2>4. CacheInv'  BY <1>1, <2>1, <2>2 DEF UserHalf, UserTypes, CacheInv
  <2>5. QED  BY <2>3, <2>4 DEF UserHalf
<1>3. UserHalf'
  BY <1>1, <1>2, HitKeepsUserHalf, MissKeepsUserHalf, LoadKeepsUserHalf,
     DropKeepsUserHalf
  DEF UserStep
<1>4. QED  BY <1>0, <1>3, Halves, RefreshHalfStays DEF OtherTypes

-----------------------------------------------------------------------------

\* A crash releases both locks and empties the cache; files and rows stay.
LEMMA CrashKeepsIInv ==
    ASSUME IInv, Crash
    PROVE  IInv'
<1> USE DEF Crash
<1>1. RefreshHalf'
  <2>1. RefreshTypes'  BY DEF IInv, TypeOK, RefreshTypes, InProgress
  <2>2. RefreshInv'
    BY SnapshotsAssumption DEF IInv, TypeOK, RefreshInv, InProgress
  <2>3. QED  BY <2>1, <2>2 DEF RefreshHalf, IInv, CurrentIsLatest
<1>2. UserHalf'
  <2>1. UserTypes'  BY DEF IInv, TypeOK, UserTypes, EmptyCache
  <2>2. Cached' = {}  BY DEF Cached, EmptyCache
  <2>3. Cardinality(Cached') = 0  BY <2>2, FS_EmptySet
  <2>4. CacheInv'  BY <2>3, SnapshotsAssumption DEF CacheInv
  <2>5. QED  BY <2>1, <2>4 DEF UserHalf
<1>3. OtherTypes'  BY SnapshotsAssumption DEF IInv, TypeOK, OtherTypes
<1>4. QED  BY <1>1, <1>2, <1>3, Halves

LEMMA NextKeepsIInv == IInv /\ [Next]_vars => IInv'
<1> SUFFICES ASSUME IInv, [Next]_vars PROVE IInv'  OBVIOUS
<1>1. CASE Publish  BY <1>1, PublishKeepsIInv
<1>2. ASSUME NEW r \in Refreshes, Submit(r) \/ RefreshStep(r) \/ Cancel(r)
      PROVE  IInv'
  BY <1>2, SubmitKeepsIInv, RefreshStepKeepsIInv
<1>3. ASSUME NEW u \in Users, UserStep(u)  PROVE IInv'
  BY <1>3, UserStepKeepsIInv
<1>4. CASE Crash  BY <1>4, CrashKeepsIInv
<1>5. CASE UNCHANGED vars
  BY <1>5, Halves, RefreshHalfStays, UserHalfStays DEF vars, OtherTypes
<1>6. QED  BY <1>1, <1>2, <1>3, <1>4, <1>5 DEF Next

-----------------------------------------------------------------------------
(* Theorems.                                                               *)

\* The inductive invariant of refresh, snapshot, eviction and crashes.
THEOREM IInvHolds == Spec => []IInv
BY InitIInv, NextKeepsIInv, PTL DEF Spec

\* Every variable keeps its type; there is always room to parse one more copy.
THEOREM TypeCorrect == Spec => []TypeOK
<1>1. IInv => TypeOK  BY DEF IInv
<1>2. QED  BY <1>1, IInvHolds, PTL

\* Exactly one snapshot is current, the newest, whichever refreshes overlapped,
\* failed, were cancelled or died: refresh_lock spans download and commit.
THEOREM CurrentAlwaysLatest == Spec => []CurrentIsLatest
<1>1. IInv => CurrentIsLatest  BY DEF IInv
<1>2. QED  BY <1>1, IInvHolds, PTL

LEMMA SharedInIInv == IInv => CatalogsShared
<1> SUFFICES ASSUME IInv PROVE CatalogsShared  OBVIOUS
<1> DEFINE active == {u \in Users : pc[u] = "using"}
           entries == {cache[v] : v \in Cached}
<1>1. ASSUME NEW u \in active
      PROVE  copy[u] = cache[want[u]] /\ want[u] \in Cached
  BY DEF IInv, TypeOK, CacheInv, Cached
<1>2. {copy[u] : u \in active} \cup entries = entries  BY <1>1
<1>3. IsFiniteSet(entries) /\ Cardinality(entries) <= Cardinality(Cached)
  BY CachedIsFinite, ImageIsFinite
<1>4. Cardinality(entries) \in Nat  BY <1>3, FS_CardinalityType
<1> HIDE DEF entries
<1>5. Cardinality(entries) <= MaxCached
  BY <1>3, <1>4, CachedIsFinite, SnapshotsAssumption DEF IInv, CacheInv
<1>6. \A u, w \in active : want[u] = want[w] => copy[u] = copy[w]  BY <1>1
<1>7. QED  BY <1>2, <1>5, <1>6 DEF CatalogsShared, entries

\* Users of a snapshot share one parsed catalogue, and at most MaxCached are in
\* memory, with any number of users, loads, evictions and hang-ups.
THEOREM CatalogsAlwaysShared == Spec => []CatalogsShared
BY SharedInIInv, IInvHolds, PTL

-----------------------------------------------------------------------------
(* The searches of a catalogue.                                            *)

LEMMA LeastId ==
    ASSUME NEW T \in SUBSET Nat, T # {}
    PROVE  Min(T) \in T
<1> DEFINE R == OpToRel(<, Nat)
<1>1. IsWellFoundedOn(R, Nat)  BY NatLessThanWellFounded
<1> HIDE DEF R
<1>2. PICK n \in T : \A m \in T : ~(<<m, n>> \in R)
  BY <1>1, WFMin
<1>3. \A m \in T : m < n => <<m, n>> \in R  BY DEF R, OpToRel
<1>4. \A m \in T : n \in Nat /\ m \in Nat /\ ~(m < n)  BY <1>2, <1>3
<1>5. \A m \in T : n <= m  BY <1>4
<1> QED  BY <1>5 DEF Min

\* Where Reachable comes from: the roots are in it, it is closed, and it is in
\* every closed set with the roots.
LEMMA RootsAreReachable ==
    ASSUME NEW roots \in SUBSET Ids
    PROVE  roots \subseteq Reachable(roots)
BY DEF Reachable

LEMMA ReachableIsClosed ==
    ASSUME CatalogTypeOK, NEW roots \in SUBSET Ids,
           NEW id \in Reachable(roots)
    PROVE  /\ id \in Ids
           /\ file[id].deps \subseteq Reachable(roots)
<1>1. id \in Ids  BY DEF Reachable
<1>2. file[id].deps \subseteq Ids  BY CatalogAssumption, <1>1 DEF CatalogTypeOK
<1> QED  BY <1>1, <1>2 DEF Reachable

LEMMA ReachableIsLeast ==
    ASSUME NEW roots \in SUBSET Ids, NEW S \in SUBSET Ids, roots \subseteq S,
           \A id \in S : file[id].deps \subseteq S
    PROVE  Reachable(roots) \subseteq S
BY DEF Reachable

\* A search that has nothing left to visit has found exactly what it should.
LEMMA ExploredAll ==
    ASSUME NEW roots \in SUBSET Ids, NEW S \in SUBSET Ids, Explored(roots, S, {})
    PROVE  S = Reachable(roots)
BY ReachableIsLeast DEF Explored

\* Any of the rest can be visited next.
LEMMA ExploresOn ==
    ASSUME CatalogTypeOK, NEW roots \in SUBSET Ids, NEW S, NEW rest,
           Explored(roots, S, rest), NEW id \in rest, NEW more,
           more \subseteq file[id].deps, file[id].deps \subseteq more \cup S \cup {id}
    PROVE  Explored(roots, S \cup {id}, (rest \ {id}) \cup more)
<1>1. id \in Reachable(roots)  BY DEF Explored
<1>2. file[id].deps \subseteq Reachable(roots)  BY <1>1, ReachableIsClosed
<1> QED  BY <1>1, <1>2 DEF Explored

\* A dependency on itself stays to be read, as the code leaves it.
LEMMA ExploresAgain ==
    ASSUME NEW roots, NEW S, NEW rest, Explored(roots, S, rest), NEW id \in S
    PROVE  Explored(roots, S, rest \ {id})
BY DEF Explored

LEMMA ListedAreIds ==
    ASSUME keys \in KeyTables
    PROVE  Listed \in SUBSET Ids
BY CatalogAssumption DEF Listed

-----------------------------------------------------------------------------
(* The invariant.                                                          *)

LEMMA CatalogInitHolds == ASSUME CatalogInit PROVE CatalogIInv
<1>1. Listed \in SUBSET Ids  BY ListedAreIds DEF CatalogInit
<1>2. CatalogTypeOK  BY <1>1 DEF CatalogInit, CatalogTypeOK
<1>3. ParseInv
  BY <1>1, RootsAreReachable DEF CatalogInit, ParseInv, Explored
<1>4. ClosureInv  BY DEF CatalogInit, ClosureInv
<1>5. QED  BY <1>2, <1>3, <1>4 DEF CatalogIInv

\* The file does not change, and what can be reached in it does not either.
LEMMA SameReach ==
    ASSUME UNCHANGED <<file, keys>>
    PROVE  /\ Listed' = Listed
           /\ Reachable(Listed)' = Reachable(Listed)
           /\ start' = start => Reachable({start})' = Reachable({start})
BY DEF Listed, Reachable

LEMMA CatalogUnchanged == ASSUME CatalogIInv, UNCHANGED catalogVars PROVE CatalogIInv'
<1> USE DEF CatalogIInv, catalogVars
<1>1. CatalogTypeOK'  BY DEF CatalogTypeOK
<1>2. ParseInv'  BY SameReach DEF ParseInv, Explored
<1>3. ClosureInv'  BY SameReach DEF ClosureInv, Explored, Unhandled
<1>4. QED  BY <1>1, <1>2, <1>3

LEMMA ReadLocationKeeps ==
    ASSUME CatalogIInv, ReadLocation PROVE CatalogIInv'
<1> USE DEF CatalogIInv
<1>1. Min(pending) \in pending
  <2>1. pending \in SUBSET Nat /\ pending # {}
    BY CatalogAssumption DEF CatalogTypeOK, ReadLocation
  <2> QED  BY <2>1, LeastId
<1> DEFINE id == Min(pending)
<1>2. id \in pending /\ id \in Ids  BY <1>1 DEF CatalogTypeOK
<1>3. UNCHANGED <<file, keys, phase, start, todo, seen, out, error>> /\ phase = "parse"
  BY DEF ReadLocation
<1>4. Listed \in SUBSET Ids  BY ListedAreIds DEF CatalogTypeOK
<1>5. \/ id \in locations /\ pending' = pending \ {id} /\ locations' = locations
      \/ /\ id \notin locations /\ locations' = locations \cup {id}
         /\ pending' = (pending \ {id}) \cup (file[id].deps \ locations)
  BY DEF ReadLocation, Unread
<1> HIDE DEF id
<1>6. file[id].deps \subseteq Ids  BY CatalogAssumption, <1>2 DEF CatalogTypeOK
<1>7. CatalogTypeOK'  BY <1>2, <1>3, <1>5, <1>6 DEF CatalogTypeOK
<1>8. Explored(Listed, locations', pending')
  <2>1. CASE id \in locations
    BY <1>5, <2>1, ExploresAgain DEF ParseInv
  <2>2. CASE id \notin locations
    <3> DEFINE more == file[id].deps \ locations
    <3>1. more \subseteq file[id].deps /\ file[id].deps \subseteq more \cup locations \cup {id}
      OBVIOUS
    <3>2. Explored(Listed, locations, pending)  BY DEF ParseInv
    <3>3. locations' = locations \cup {id} /\ pending' = (pending \ {id}) \cup more
      BY <1>5, <2>2
    <3> HIDE DEF more
    <3>4. Explored(Listed, locations \cup {id}, (pending \ {id}) \cup more)
      BY <1>2, <1>4, <3>1, <3>2, ExploresOn
    <3> QED  BY <3>3, <3>4
  <2> QED  BY <2>1, <2>2
<1>9. ParseInv'
  BY <1>3, <1>8, SameReach DEF ParseInv, Explored
<1>10. ClosureInv'
  BY <1>3 DEF ClosureInv, Explored, Unhandled
<1>11. QED  BY <1>7, <1>9, <1>10

LEMMA ParsedKeeps == CatalogIInv /\ Parsed => CatalogIInv'
BY DEF Parsed, CatalogIInv, CatalogTypeOK, ParseInv, ClosureInv, Explored, Reachable,
       Listed, Unhandled

LEMMA BeginClosureKeeps ==
    ASSUME CatalogIInv, NEW id \in Ids, BeginClosure(id) PROVE CatalogIInv'
<1> USE DEF CatalogIInv, BeginClosure
<1>1. CatalogTypeOK'  BY DEF CatalogTypeOK
<1>2. ParseInv'  BY SameReach DEF ParseInv, Explored
<1>3. {id} \subseteq Reachable({id})  BY RootsAreReachable
<1>4. Reachable({start})' = Reachable({id})  BY DEF Reachable
<1>5. seen = {} /\ out = {} /\ error = "none"  BY DEF ClosureInv, CatalogTypeOK
<1>6. Explored({start}, seen, todo)'  BY <1>3, <1>4, <1>5 DEF Explored
<1>7. ClosureInv'
  BY <1>5, <1>6, SameReach DEF ClosureInv, Unhandled
<1>8. QED  BY <1>1, <1>2, <1>7

\* What a location depends on was read with it.
LEMMA ClosureStaysInCatalog ==
    ASSUME CatalogIInv, phase \in {"closure", "done"}
    PROVE  /\ locations = Reachable(Listed)
           /\ Reachable({start}) \subseteq locations
<1> USE DEF CatalogIInv
<1>1. Listed \in SUBSET Ids  BY ListedAreIds DEF CatalogTypeOK
<1>2. locations \in SUBSET Ids /\ Explored(Listed, locations, {})
  BY DEF CatalogTypeOK, ParseInv
<1>3. locations = Reachable(Listed)  BY <1>1, <1>2, ExploredAll
<1>4. {start} \in SUBSET Ids /\ {start} \subseteq locations
  BY <1>1, <1>2 DEF ClosureInv, Explored
<1>5. Reachable({start}) \subseteq locations
  BY <1>2, <1>4, ReachableIsLeast DEF Explored
<1> QED  BY <1>3, <1>5

LEMMA VisitKeeps ==
    ASSUME CatalogIInv, NEW id \in Ids, Visit(id) PROVE CatalogIInv'
<1> USE DEF CatalogIInv
<1>1. /\ UNCHANGED <<file, keys, pending, locations, start>>
      /\ phase = "closure" /\ id \in todo /\ error = "none"
  BY DEF Visit, CatalogTypeOK
<1>2. ParseInv'
  BY <1>1, SameReach DEF ParseInv, Explored, Visit, Ends
<1>3. start \in Listed /\ {start} \in SUBSET Ids /\ Explored({start}, seen, todo)
  BY <1>1, ListedAreIds DEF ClosureInv, CatalogTypeOK
<1>4. id \in locations  BY <1>1, <1>3, ClosureStaysInCatalog DEF Explored
<1>5. CASE Seen(id) /\ todo' = todo \ {id} /\ UNCHANGED <<phase, seen, out, error>>
  <2>1. Explored({start}, seen', todo')
    BY <1>3, <1>5, ExploresAgain DEF Seen
  <2>2. CatalogTypeOK'  BY <1>1, <1>5 DEF CatalogTypeOK
  <2>3. ClosureInv'
    BY <1>1, <1>3, <1>5, <2>1, SameReach DEF ClosureInv, Explored, Unhandled
  <2> QED  BY <1>2, <2>2, <2>3
<1>6. CASE /\ Unhandled(id) /\ Ends("unsupported provider")
           /\ UNCHANGED <<todo, seen, out>>
  <2>1. CatalogTypeOK'  BY <1>1, <1>6 DEF CatalogTypeOK, Ends
  <2>2. ClosureInv'
    BY <1>1, <1>3, <1>6, SameReach DEF ClosureInv, Explored, Unhandled, Ends
  <2> QED  BY <1>2, <2>1, <2>2
<1>7. CASE /\ ~Seen(id) /\ ~Unhandled(id)
           /\ seen' = seen \cup {id}
           /\ todo' = (todo \ {id}) \cup file[id].deps
           /\ out' = IF file[id].options THEN out \cup {id} ELSE out
           /\ UNCHANGED <<phase, error>>
  <2>1. Explored({start}, seen', todo')
    BY <1>1, <1>3, <1>7, ExploresOn
  <2>2. file[id].deps \subseteq Ids  BY CatalogAssumption DEF CatalogTypeOK
  <2>3. CatalogTypeOK'  BY <1>1, <1>7, <2>2 DEF CatalogTypeOK
  <2>4. out' = {i \in seen' : file[i].options}
    BY <1>7 DEF ClosureInv
  <2>5. ClosureInv'
    BY <1>1, <1>3, <1>7, <2>1, <2>4, SameReach DEF ClosureInv, Explored, Unhandled
  <2> QED  BY <1>2, <2>3, <2>5
<1>8. QED  BY <1>4, <1>5, <1>6, <1>7 DEF Visit, Unhandled

LEMMA ClosedKeeps == ASSUME CatalogIInv, Closed PROVE CatalogIInv'
<1> USE DEF CatalogIInv, Closed, Ends
<1>1. CatalogTypeOK'  BY DEF CatalogTypeOK
<1>2. ParseInv'  BY SameReach DEF ParseInv, Explored
<1>3. ClosureInv'
  BY SameReach DEF ClosureInv, Explored, Unhandled
<1>4. QED  BY <1>1, <1>2, <1>3

LEMMA CatalogStep == CatalogIInv /\ [CatalogNext]_catalogVars => CatalogIInv'
BY CatalogUnchanged, ReadLocationKeeps, ParsedKeeps, BeginClosureKeeps, VisitKeeps,
   ClosedKeeps DEF CatalogNext

-----------------------------------------------------------------------------
(* What it gives.                                                          *)

LEMMA CatalogImplies == CatalogIInv => ClosureIsReachable
<1> SUFFICES ASSUME CatalogIInv PROVE ClosureIsReachable  OBVIOUS
<1> USE DEF CatalogIInv
<1>1. Listed \in SUBSET Ids /\ seen \in SUBSET Ids /\ locations \in SUBSET Ids
  BY ListedAreIds DEF CatalogTypeOK
<1>2. phase # "parse" => locations = Reachable(Listed)
  <2> HAVE phase # "parse"
  <2>1. Explored(Listed, locations, {})  BY DEF ParseInv
  <2> QED  BY <1>1, <2>1, ExploredAll
<1> DEFINE downloads == {id \in Reachable({start}) : file[id].options}
           handled == \A id \in downloads : file[id].provider \in Providers
<1>3. SUFFICES ASSUME phase = "done"
               PROVE  /\ error = "none" => handled /\ downloads # {} /\ out = downloads
                      /\ error = "unsupported provider" => ~handled
                      /\ error = "no downloadable dependencies" => downloads = {}
                      /\ error # "dependency missing"
  BY <1>2 DEF ClosureIsReachable
<1>4. /\ {start} \in SUBSET Ids /\ Explored({start}, seen, todo)
      /\ out = {id \in seen : file[id].options}
      /\ \A id \in seen : ~Unhandled(id)
      /\ error # "dependency missing"
  BY <1>1, <1>3 DEF ClosureInv
<1>5. CASE error \in {"none", "no downloadable dependencies"}
  <2>1. todo = {} /\ (error = "none" <=> out # {})  BY <1>3, <1>5 DEF ClosureInv
  <2>2. seen = Reachable({start})  BY <1>1, <1>4, <2>1, ExploredAll
  <2> QED  BY <1>4, <1>5, <2>1, <2>2 DEF Unhandled
<1>6. CASE error = "unsupported provider"
  <2>1. PICK id \in todo : Unhandled(id)  BY <1>6 DEF ClosureInv
  <2>2. id \in Reachable({start})  BY <1>4, <2>1 DEF Explored
  <2> QED  BY <1>6, <2>1, <2>2 DEF Unhandled
<1>7. QED  BY <1>4, <1>5, <1>6 DEF CatalogTypeOK

\* The plan of a request, and the worker's checks, of any downloads.
LEMMA PlanHolds == CatalogIInv => PlansAreCarriedOut
<1> SUFFICES ASSUME CatalogIInv, NEW r \in Planned, Unambiguous(r)
             PROVE  /\ Valid(r) <=> Status(r) \in {"remote", "retained"}
                    /\ Valid(r) =>
                         \/ WorkerAccepts(r)
                         \/ ~Archive(r) /\ ~Cri(r) /\ Raw # {}
                         \/ Embedded(r) /\ file[Target(r)].provider = "cri"
                    /\ Font(r) =>
                         /\ Disposition(r) \in {"font-reference", "font-archive"}
                         /\ Dependencies(r) \cup OmittedLocal = out
  BY DEF PlansAreCarriedOut, Font
<1>1. Font(r) => Archive(r)  BY DEF Archive
<1>2. Archive(r) => Supported(r) /\ Dependencies(r) = Remote
  BY DEF Supported, Dependencies
<1>3. Valid(r) <=> Status(r) \in {"remote", "retained"}
  BY <1>1, <1>2 DEF Valid, Status
<1>4. Font(r) => /\ Disposition(r) \in {"font-reference", "font-archive"}
                   /\ Dependencies(r) \cup OmittedLocal = out
  BY <1>1, <1>2 DEF Disposition, OmittedLocal, Remote
<1>5. ASSUME Valid(r),
             Archive(r) \/ Cri(r) \/ Raw = {},
             ~(Embedded(r) /\ file[Target(r)].provider = "cri")
      PROVE  WorkerAccepts(r)
  <2>1. Dependencies(r) # {} \/ (Archive(r) /\ Font(r))
    BY <1>1, <1>5 DEF Valid
  <2>2. Archive(r) => \A id \in Dependencies(r) : file[id].remote
    BY <1>2 DEF Remote
  <2>3. Inputs(r) \subseteq Raw
    BY DEF Inputs, Dependencies, Raw
  <2>4. ASSUME ~Archive(r), Media(r)  PROVE Cardinality(Inputs(r)) = 1
    <3>1. Cri(r)  BY <2>4 DEF Media, Cri
    <3>2. Raw # {}
      BY <1>5, <2>3, <2>4, <3>1 DEF Media, Embedded, Inputs
    <3>3. Inputs(r) = Raw
      BY <2>4, <3>1, <3>2 DEF Inputs, Dependencies, Raw
    <3>4. IsFiniteSet(Raw)
      BY CatalogAssumption, FS_Subset DEF CatalogIInv, CatalogTypeOK, Raw, Remote
    <3>5. Cardinality(Raw) <= 1  BY <2>4, <3>1 DEF Unambiguous
    <3>6. Cardinality(Raw) \in Nat /\ Cardinality(Raw) # 0
      BY <3>2, <3>4, FS_CardinalityType, FS_EmptySet
    <3> QED  BY <3>3, <3>5, <3>6
  <2>5. ASSUME ~Archive(r), ~Media(r)  PROVE Inputs(r) = {}
    BY <1>5, <2>3, <2>5 DEF Media, Cri, Inputs
  <2> QED  BY <2>1, <2>2, <2>4, <2>5 DEF WorkerAccepts
<1>6. QED  BY <1>3, <1>4, <1>5

\* The inductive invariant of both searches, for any catalogue file.
THEOREM CatalogInvHolds == CatalogSpec => []CatalogIInv
<1>1. CatalogInit => CatalogIInv  BY CatalogInitHolds
<1>2. CatalogIInv /\ [CatalogNext]_catalogVars => CatalogIInv'  BY CatalogStep
<1>3. QED  BY <1>1, <1>2, PTL DEF CatalogSpec

\* Catalog::parse keeps exactly the locations that the keys and their
\* dependencies lead to, and closure_from returns exactly the downloads that can
\* be reached from a location, each once, whatever cycles, shared dependencies or
\* missing ids the file has and in whatever order the work lists are worked off.
THEOREM ClosureAlwaysReachable == CatalogSpec => []ClosureIsReachable
BY CatalogInvHolds, CatalogImplies, PTL

\* An asset that the preflight calls remote or retained is exactly one whose plan
\* validates, and the worker accepts the inputs of that plan but for the two kinds
\* of previews the property names; fonts are retained with all they depend on
\* (plan.rs, the checks at the start of worker::run), for any catalogue.
THEOREM PlansAlwaysCarriedOut == CatalogSpec => []PlansAreCarriedOut
BY CatalogInvHolds, PlanHolds, PTL

=============================================================================
