------------------------- MODULE ResourceLimits_proofs -------------------------
(***************************************************************************)
(* For any exports, locations, sizes, downloads and any configuration that *)
(* Config::validate accepts: the budget counts exactly what is reserved    *)
(* and payloads stay while they are needed.  A sum over a set is a         *)
(* recursion over data; here it is shown to be a cardinality, for which    *)
(* the library has theorems.                                               *)
(***************************************************************************)
EXTENDS ResourceLimits, FiniteSetTheorems, SequenceTheorems, WellFoundedInduction, TLAPS

-----------------------------------------------------------------------------
(* Sums.                                                                   *)

\* A sum counts the units of its addends.
Units(g, S) == UNION {{x} \X (1..g[x]) : x \in S}
Weight(g, S) == Cardinality(Units(g, S))

LEMMA UnitsAreFinite ==
    ASSUME NEW S, IsFiniteSet(S), NEW g, \A x \in S : g[x] \in Nat
    PROVE  IsFiniteSet(Units(g, S)) /\ Weight(g, S) \in Nat
<1> DEFINE h == [x \in S |-> {x} \X (1..g[x])]
           T == {{x} \X (1..g[x]) : x \in S}
<1>1. h \in Surjection(S, T)  BY DEF Surjection
<1> HIDE DEF h
<1>2. IsFiniteSet(T)
  <2> HIDE DEF T
  <2> QED BY <1>1, FS_Surjection
<1>3. \A t \in T : IsFiniteSet(t)
  <2> SUFFICES ASSUME NEW x \in S PROVE IsFiniteSet({x} \X (1..g[x]))  OBVIOUS
  <2>1. g[x] \in Int /\ 1 \in Int  OBVIOUS
  <2>2. IsFiniteSet(1..g[x])  BY <2>1, FS_Interval
  <2>3. IsFiniteSet({x})  BY FS_Singleton
  <2> QED  BY <2>2, <2>3, FS_Product
<1>4. IsFiniteSet(UNION T)
  <2> HIDE DEF T
  <2> QED BY <1>2, <1>3, FS_UNION
<1> QED  BY <1>4, FS_CardinalityType DEF Units, Weight

LEMMA WeightOfNothing == \A g : Weight(g, {}) = 0
BY FS_EmptySet DEF Weight, Units

LEMMA WeightOfOne ==
    ASSUME NEW g, NEW x, g[x] \in Nat
    PROVE  Weight(g, {x}) = g[x]
<1>1. Units(g, {x}) = {x} \X (1..g[x])  BY DEF Units
<1>2. IsFiniteSet({x}) /\ Cardinality({x}) = 1  BY FS_Singleton
<1>3. IsFiniteSet(1..g[x]) /\ Cardinality(1..g[x]) = g[x]
  BY FS_Interval
<1>4. Cardinality({x} \X (1..g[x])) = Cardinality({x}) * Cardinality(1..g[x])
  BY <1>2, <1>3, FS_Product
<1>5. Weight(g, {x}) = 1 * g[x]  BY <1>1, <1>2, <1>3, <1>4 DEF Weight
<1> QED  BY <1>5

LEMMA WeightOfUnion ==
    ASSUME NEW S, IsFiniteSet(S), NEW T, IsFiniteSet(T), S \cap T = {},
           NEW g, \A x \in S \cup T : g[x] \in Nat
    PROVE  Weight(g, S \cup T) = Weight(g, S) + Weight(g, T)
<1>1. Units(g, S \cup T) = Units(g, S) \cup Units(g, T)  BY DEF Units
<1>2. Units(g, S) \cap Units(g, T) = {}  BY DEF Units
<1>3. /\ IsFiniteSet(Units(g, S)) /\ Weight(g, S) \in Nat
      /\ IsFiniteSet(Units(g, T)) /\ Weight(g, T) \in Nat
  BY UnitsAreFinite
<1>4. Cardinality(Units(g, S) \cup Units(g, T))
        = Cardinality(Units(g, S)) + Cardinality(Units(g, T))
            - Cardinality(Units(g, S) \cap Units(g, T))
  BY <1>3, FS_Union
<1>5. Cardinality(Units(g, S) \cap Units(g, T)) = 0  BY <1>2, FS_EmptySet
<1>6. Weight(g, S \cup T) = Weight(g, S) + Weight(g, T) - 0
  BY <1>1, <1>4, <1>5 DEF Weight
<1> HIDE DEF Weight
<1>7. Weight(g, S) \in Nat /\ Weight(g, T) \in Nat  BY <1>3
<1> QED  BY ONLY <1>6, <1>7

\* Any function that satisfies the recursion of the fold is that count.
LEMMA RecursionIsWeight ==
    ASSUME NEW S, IsFiniteSet(S), NEW g, \A x \in S : g[x] \in Nat,
           NEW iter,
           iter = [s \in SUBSET S |->
                     IF s = {} THEN 0
                     ELSE g[CHOOSE x \in s : TRUE] + iter[s \ {CHOOSE x \in s : TRUE}]]
    PROVE  iter[S] = Weight(g, S)
<1> DEFINE wrong == {s \in SUBSET S : iter[s] # Weight(g, s)}
<1>1. \A s \in SUBSET S :
        iter[s] = IF s = {} THEN 0
                  ELSE g[CHOOSE x \in s : TRUE] + iter[s \ {CHOOSE x \in s : TRUE}]
  OBVIOUS
<1>2. ASSUME wrong # {} PROVE FALSE
  <2>1. FiniteSubsetsOf(S) = SUBSET S  BY FS_FiniteSubsetsOfFinite
  <2>2. IsWellFoundedOn(StrictSubsetOrdering(S), SUBSET S)
    BY <2>1, FS_StrictSubsetOrderingWellFounded
  <2>3. PICK s \in wrong : \A t \in wrong : <<t, s>> \notin StrictSubsetOrdering(S)
    <3>1. wrong \subseteq SUBSET S  OBVIOUS
    <3> HIDE DEF wrong
    <3>2. \E x \in wrong : \A y \in wrong : ~(<<y, x>> \in StrictSubsetOrdering(S))
      BY <1>2, <2>2, <3>1, WFMin
    <3> QED  BY <3>2
  <2>4. s # {}
    BY <1>1, WeightOfNothing
  <2> DEFINE c == CHOOSE x \in s : TRUE
             t == s \ {c}
  <2>5. c \in s  BY <2>4
  <2>6. iter[s] = g[c] + iter[t]  BY <1>1, <2>4
  <2> HIDE DEF c
  <2>7. t \in SUBSET S /\ t # s /\ t \subseteq s  BY <2>5
  <2>8. t \notin wrong  BY <2>3, <2>7 DEF StrictSubsetOrdering
  <2>9. iter[t] = Weight(g, t)  BY <2>7, <2>8
  <2>10. Weight(g, s) = g[c] + Weight(g, t)
    <3>1. IsFiniteSet(t) /\ IsFiniteSet({c})  BY <2>7, FS_Subset, FS_Singleton
    <3>2. s = {c} \cup t /\ {c} \cap t = {}  BY <2>5
    <3>3. \A x \in {c} \cup t : g[x] \in Nat  BY <2>5
    <3> HIDE DEF t
    <3>4. Weight(g, {c} \cup t) = Weight(g, {c}) + Weight(g, t)
      BY <3>1, <3>2, <3>3, WeightOfUnion
    <3>5. Weight(g, {c}) = g[c]  BY <3>3, WeightOfOne
    <3> QED  BY <3>2, <3>4, <3>5
  <2> QED  BY <2>6, <2>9, <2>10
<1> QED  BY <1>2

LEMMA SumIsWeight ==
    ASSUME NEW S, IsFiniteSet(S), NEW g, \A x \in S : g[x] \in Nat
    PROVE  SumFunctionOnSet(g, S) = Weight(g, S)
<1> DEFINE P(iter) ==
             iter = [s \in SUBSET S |->
                     IF s = {} THEN 0
                     ELSE g[CHOOSE x \in s : TRUE] + iter[s \ {CHOOSE x \in s : TRUE}]]
           w == [s \in SUBSET S |-> Weight(g, s)]
<1>1. P(w)
  <2>1. \A s \in SUBSET S :
          w[s] = IF s = {} THEN 0
                 ELSE g[CHOOSE x \in s : TRUE] + w[s \ {CHOOSE x \in s : TRUE}]
    <3> SUFFICES ASSUME NEW s \in SUBSET S, s # {}
                 PROVE  Weight(g, s) = g[CHOOSE x \in s : TRUE]
                                        + Weight(g, s \ {CHOOSE x \in s : TRUE})
      BY WeightOfNothing
    <3> DEFINE c == CHOOSE x \in s : TRUE
               t == s \ {c}
    <3>1. c \in s  OBVIOUS
    <3> HIDE DEF c
    <3>2. IsFiniteSet(t) /\ IsFiniteSet({c})  BY FS_Subset, FS_Singleton
    <3>3. s = {c} \cup t /\ {c} \cap t = {}  BY <3>1
    <3>4. \A x \in {c} \cup t : g[x] \in Nat  BY <3>1
    <3> HIDE DEF t
    <3>5. Weight(g, {c} \cup t) = Weight(g, {c}) + Weight(g, t)
      BY <3>2, <3>3, <3>4, WeightOfUnion
    <3>6. Weight(g, {c}) = g[c]  BY <3>4, WeightOfOne
    <3> QED  BY <3>3, <3>5, <3>6 DEF c, t
  <2> HIDE DEF w
  <2>2. w = [s \in SUBSET S |-> w[s]]  BY DEF w
  <2> QED  BY <2>1, <2>2
<1>2. P(CHOOSE iter : P(iter))  BY <1>1
<1>3. SumFunctionOnSet(g, S) = (CHOOSE iter : P(iter))[S]
  BY DEF SumFunctionOnSet, FoldFunctionOnSet, MapThenFoldSet
<1> HIDE DEF w
<1>4. (CHOOSE iter : P(iter))[S] = Weight(g, S)
  <2> DEFINE f == CHOOSE iter : P(iter)
  <2>1. P(f)  BY <1>2
  <2> HIDE DEF f
  <2>2. f[S] = Weight(g, S)  BY <2>1, RecursionIsWeight
  <2> QED BY <2>2 DEF f
<1> QED  BY <1>3, <1>4

LEMMA SumType ==
    ASSUME NEW S, IsFiniteSet(S), NEW g, \A x \in S : g[x] \in Nat
    PROVE  SumFunctionOnSet(g, S) \in Nat
BY SumIsWeight, UnitsAreFinite

LEMMA SumOfOne ==
    ASSUME NEW g, NEW x, g[x] \in Nat
    PROVE  SumFunctionOnSet(g, {x}) = g[x]
<1>1. IsFiniteSet({x})  BY FS_Singleton
<1>2. SumFunctionOnSet(g, {x}) = Weight(g, {x})  BY <1>1, SumIsWeight
<1>3. QED  BY <1>2, WeightOfOne

\* Where g and h differ, h is zero.
LEMMA SumWithout ==
    ASSUME NEW S, IsFiniteSet(S), NEW T \in SUBSET S,
           NEW g, NEW h, \A x \in S : g[x] \in Nat /\ h[x] \in Nat,
           \A x \in S \ T : h[x] = g[x], \A x \in T : h[x] = 0
    PROVE  SumFunctionOnSet(g, S) = SumFunctionOnSet(h, S) + SumFunctionOnSet(g, T)
<1> DEFINE R == S \ T
<1>1. /\ IsFiniteSet(T) /\ IsFiniteSet(R) /\ S = R \cup T /\ R \cap T = {}
      /\ R \subseteq S
  BY FS_Subset
<1>2. /\ \A x \in R : h[x] = g[x]
      /\ \A x \in R \cup T : g[x] \in Nat /\ h[x] \in Nat
  OBVIOUS
<1> HIDE DEF R
<1>3. Weight(g, R \cup T) = Weight(g, R) + Weight(g, T)
  BY <1>1, <1>2, WeightOfUnion
<1>4. Weight(h, R \cup T) = Weight(h, R) + Weight(h, T)
  BY <1>1, <1>2, WeightOfUnion
<1>5. Weight(h, R) = Weight(g, R)
  <2>1. \A x \in R : 1..h[x] = 1..g[x]  BY <1>2
  <2>2. Units(h, R) = Units(g, R)  BY <2>1 DEF Units
  <2>3. QED  BY <2>2 DEF Weight
<1>6. Weight(h, T) = 0
  <2>1. \A x \in T : 1..h[x] = {}  OBVIOUS
  <2>2. Units(h, T) = {}  BY <2>1 DEF Units
  <2>3. QED  BY <2>2, FS_EmptySet DEF Weight
<1>7. Weight(g, R) \in Nat /\ Weight(g, T) \in Nat
  BY <1>1, <1>2, UnitsAreFinite
<1>8. /\ SumFunctionOnSet(g, S) = Weight(g, R) + Weight(g, T)
      /\ SumFunctionOnSet(h, S) = Weight(g, R) + 0
      /\ SumFunctionOnSet(g, T) = Weight(g, T)
  BY <1>1, <1>2, <1>3, <1>4, <1>5, <1>6, SumIsWeight
<1>9. QED  BY <1>7, <1>8

LEMMA SumAgrees ==
    ASSUME NEW S, IsFiniteSet(S), NEW g, NEW h,
           \A x \in S : g[x] \in Nat /\ h[x] = g[x]
    PROVE  SumFunctionOnSet(h, S) = SumFunctionOnSet(g, S)
<1>1. \A x \in S : 1..h[x] = 1..g[x]  OBVIOUS
<1>2. Units(h, S) = Units(g, S)  BY <1>1 DEF Units
<1>3. QED  BY <1>2, SumIsWeight DEF Weight

\* A sum is at most one with larger addends for different indices.
LEMMA SumIsBounded ==
    ASSUME NEW S, IsFiniteSet(S), NEW T, IsFiniteSet(T),
           NEW g, \A x \in S : g[x] \in Nat, NEW h, \A y \in T : h[y] \in Nat,
           NEW f \in Injection(S, T), \A x \in S : g[x] <= h[f[x]]
    PROVE  SumFunctionOnSet(g, S) <= SumFunctionOnSet(h, T)
<1> DEFINE A == Units(g, S)
           B == Units(h, T)
           m == [u \in A |-> <<f[u[1]], u[2]>>]
<1>1. f \in [S -> T] /\ \A x, y \in S : f[x] = f[y] => x = y
  BY DEF Injection, IsInjective
<1>2. \A u \in A : u = <<u[1], u[2]>> /\ u[1] \in S /\ u[2] \in 1..g[u[1]]
  BY DEF Units
<1>3. \A u \in A : <<f[u[1]], u[2]>> \in B
  <2> SUFFICES ASSUME NEW u \in A PROVE <<f[u[1]], u[2]>> \in B  OBVIOUS
  <2>1. u[1] \in S /\ u[2] \in 1..g[u[1]]  BY <1>2
  <2>2. f[u[1]] \in T /\ u[2] \in 1..h[f[u[1]]]  BY <1>1, <2>1
  <2>3. QED  BY <2>2 DEF Units
<1>4. m \in [A -> B]  BY <1>3
<1>5. \A u, v \in A : m[u] = m[v] => u = v
  <2> SUFFICES ASSUME NEW u \in A, NEW v \in A, <<f[u[1]], u[2]>> = <<f[v[1]], v[2]>>
               PROVE  u = v
    OBVIOUS
  <2>1. f[u[1]] = f[v[1]] /\ u[2] = v[2]  OBVIOUS
  <2>2. u[1] = v[1]  BY <1>1, <1>2, <2>1
  <2>3. QED  BY <1>2, <2>1, <2>2
<1> HIDE DEF A, B, m
<1>6. m \in Injection(A, B)
  <2>1. DOMAIN m = A  BY <1>4
  <2>2. QED  BY <1>4, <1>5, <2>1 DEF Injection, IsInjective
<1>7. IsFiniteSet(B)  BY UnitsAreFinite DEF B
<1>8. Cardinality(A) <= Cardinality(B)  BY <1>6, <1>7, FS_Injection
<1>9. QED  BY <1>8, SumIsWeight DEF A, B, Weight

-----------------------------------------------------------------------------
(* What is reserved.                                                       *)

Reservations == [o \in Ops |-> Reserved(o)]

Running == {e \in Exports : pc[e] = "running"}

LEMMA ReservedByIs ==
    /\ \A S : ReservedBy(S) = SumFunctionOnSet(Reservations, S)
    /\ \A S : ReservedBy(S)' = SumFunctionOnSet(Reservations', S)
BY DEF ReservedBy, Reservations

LEMMA ReservedType ==
    ASSUME TypeOK, PayloadInv
    PROVE  \A o \in Ops : Reservations[o] \in Nat
BY LimitsAssumption DEF TypeOK, PayloadInv, Reserved, Reservations

LEMMA StorageType == ASSUME TypeOK PROVE Storage \in Nat /\ config.temp \in Nat
<1>1. config \in [downloads : Nat, workers : Nat, videos : Nat,
                  input : Nat, output : Nat, expanded : Nat, temp : Nat]
  BY LimitsAssumption DEF TypeOK
<1>2. QED  BY <1>1 DEF Storage

LEMMA RunningIsFinite ==
    /\ IsFiniteSet(Running) /\ Cardinality(Running) \in Nat
    /\ UsedInv <=> used = ReservedBy(Ops) + Storage * Cardinality(Running)
    /\ UsedInv' <=> used' = ReservedBy(Ops)' + Storage' * Cardinality(Running')
<1>1. IsFiniteSet(Running)  BY LimitsAssumption, FS_Subset DEF Running
<1>2. QED  BY <1>1, FS_CardinalityType DEF UsedInv, Running

LEMMA Times ==
    ASSUME NEW a \in Nat, NEW n \in Nat
    PROVE  /\ a * n \in Nat /\ a * (n + 1) = a * n + a
           /\ n > 0 => a * (n - 1) = a * n - a
OBVIOUS

-----------------------------------------------------------------------------
(* Parts of the invariant that steps leave alone.                          *)

\* The type invariant without the budget.
Types ==
    /\ pc \in [Exports -> {"idle", "ended"} \cup Active]
    /\ location \in [Ops -> Locations \cup {None}]
    /\ phase \in [Ops -> {"none", "slot", "fetching", "ready", "failed"}]
    /\ holders \in [Ops -> SUBSET Exports]
    /\ payload \in [Ops -> Seq([position : Nat, keystream : SUBSET Nat])]
    /\ config \in Configs

LEMMA Parts ==
    /\ IInv <=> /\ Types /\ Valid(config) /\ used \in 0..config.temp
                /\ SharingInv /\ PayloadInv /\ CollectedInv /\ UsedInv
    /\ IInv' <=> /\ Types' /\ Valid(config)' /\ used' \in 0..config'.temp
                 /\ SharingInv' /\ PayloadInv' /\ CollectedInv' /\ UsedInv'
BY DEF IInv, TypeOK, Types

LEMMA ConfigStays ==
    ASSUME IInv, config' = config
    PROVE  /\ Valid(config)' /\ Storage' = Storage /\ config' \in Configs
BY DEF IInv, TypeOK, Valid, Storage

\* Payloads of exports that have collected them stay, if the operations that
\* they hold do.
LEMMA CollectedStays ==
    ASSUME IInv,
           \A e \in Exports : pc'[e] \in Active \ {"collecting"} =>
               /\ Collectible(e)
               /\ \A o \in Ops : e \in holders[o] /\ phase[o] = "ready" =>
                    e \in holders'[o] /\ phase'[o] = "ready" /\ location'[o] = location[o]
    PROVE  CollectedInv'
BY DEF CollectedInv, Collectible, Held

\* Steps that change neither what is reserved nor who runs.
LEMMA UsedStays ==
    ASSUME IInv, \A o \in Ops : Reserved(o)' = Reserved(o),
           Running' = Running, UNCHANGED <<used, config>>
    PROVE  UsedInv' /\ used' \in 0..config'.temp
<1>1. Reservations' = Reservations  BY DEF Reservations
<1>2. ReservedBy(Ops)' = ReservedBy(Ops)  BY <1>1, ReservedByIs
<1>3. Storage' = Storage  BY ConfigStays
<1>4. QED  BY <1>2, <1>3, RunningIsFinite DEF IInv, TypeOK

\* A step of an export that waits, to another point where it waits.
LEMMA MovesKeep ==
    ASSUME IInv, NEW e \in Exports, NEW point \in Active \ {"running"}, Goto(e, point),
           pc[e] # "running",
           point # "collecting" => Collectible(e),
           UNCHANGED <<location, phase, holders, used, payload, config>>
    PROVE  IInv'
<1> USE DEF IInv
<1>1. /\ pc' = [pc EXCEPT ![e] = point] /\ pc'[e] = point
      /\ \A d \in Exports \ {e} : pc'[d] = pc[d]
  BY DEF Goto, TypeOK
<1>2. Types'  BY <1>1 DEF Types, TypeOK
<1>3. Running' = Running  BY <1>1 DEF Running, Active
<1>4. SharingInv'  BY <1>1 DEF SharingInv, TypeOK
<1>5. PayloadInv'  BY DEF PayloadInv
<1>6. CollectedInv'
  <2>1. \A d \in Exports : pc'[d] \in Active \ {"collecting"} => Collectible(d)
    BY <1>1 DEF CollectedInv
  <2>2. QED  BY <2>1, CollectedStays
<1>7. UsedInv' /\ used' \in 0..config'.temp
  BY <1>3, UsedStays DEF Reserved
<1>8. QED  BY <1>2, <1>4, <1>5, <1>6, <1>7, ConfigStays, Parts

-----------------------------------------------------------------------------
(* export_one.                                                             *)

LEMMA BeginKeeps == ASSUME IInv, NEW e \in Exports, Begin(e) PROVE IInv'
BY MovesKeep DEF Begin, Active

LEMMA CollectedKeeps == ASSUME IInv, NEW e \in Exports, Collected(e) PROVE IInv'
BY MovesKeep DEF Collected, Collectible, Active

LEMMA VideoPermitKeeps == ASSUME IInv, NEW e \in Exports, VideoPermit(e) PROVE IInv'
<1>1. Collectible(e)  BY DEF VideoPermit, IInv, CollectedInv, Active
<1>2. QED  BY <1>1, MovesKeep DEF VideoPermit, Active

LEMMA JoinDownloadKeeps ==
    ASSUME IInv, NEW e \in Exports, NEW l \in Locations, JoinDownload(e, l)
    PROVE  IInv'
<1> USE DEF IInv
<1> DEFINE shared == {o \in Ops : location[o] = l /\ holders[o] # {}}
<1>1. /\ pc[e] = "collecting" /\ l \in Needs[e]
      /\ UNCHANGED <<pc, used, payload, config>>
  BY DEF JoinDownload
<1>2. Running' = Running  BY <1>1 DEF Running
<1>3. \A d \in Exports : pc'[d] \in Active \ {"collecting"} => d # e /\ Collectible(d)
  BY <1>1 DEF CollectedInv
<1>4. ASSUME NEW o \in shared, holders' = [holders EXCEPT ![o] = @ \cup {e}],
             UNCHANGED <<location, phase>>
      PROVE  IInv'
  <2>1. /\ holders'[o] = holders[o] \cup {e} /\ holders[o] # {} /\ location[o] = l
        /\ \A p \in Ops \ {o} : holders'[p] = holders[p]
    BY <1>4 DEF TypeOK
  <2>2. Types'  BY <1>1, <1>4 DEF Types, TypeOK
  <2>3. SharingInv'
    <3>1. \A p \in Ops : \A d \in holders'[p] : pc'[d] \in Active /\ location'[p] \in Needs[d]
      BY <1>1, <1>4, <2>1 DEF SharingInv, Active
    <3>2. \A p \in Ops : holders'[p] # {} <=> holders[p] # {}
      BY <2>1
    <3>3. QED  BY <1>4, <3>1, <3>2 DEF SharingInv
  <2>4. PayloadInv'  BY <1>1, <1>4, <2>1 DEF PayloadInv
  <2>5. CollectedInv'
    <3>1. \A d \in Exports, p \in Ops : d \in holders[p] => d \in holders'[p]
      BY <2>1
    <3>2. QED  BY <1>3, <1>4, <3>1, CollectedStays
  <2>6. \A p \in Ops : Reserved(p)' = Reserved(p)  BY <1>4 DEF Reserved
  <2>7. UsedInv' /\ used' \in 0..config'.temp
    BY <1>1, <1>2, <2>6, UsedStays
  <2>8. QED  BY <1>1, <2>2, <2>3, <2>4, <2>5, <2>7, ConfigStays, Parts
<1>5. ASSUME NEW o \in Unused, shared = {},
             location' = [location EXCEPT ![o] = l],
             phase' = [phase EXCEPT ![o] = "slot"],
             holders' = [holders EXCEPT ![o] = {e}]
      PROVE  IInv'
  <2>1. o \in Ops /\ holders[o] = {} /\ phase[o] \in {"none", "failed"}
    BY DEF Unused
  <2>2. /\ holders'[o] = {e} /\ phase'[o] = "slot" /\ location'[o] = l
        /\ \A p \in Ops \ {o} : /\ holders'[p] = holders[p] /\ phase'[p] = phase[p]
                                /\ location'[p] = location[p]
    BY <1>5, <2>1 DEF TypeOK
  <2>3. Types'  BY <1>1, <1>5 DEF Types, TypeOK
  <2>4. SharingInv'
    <3>1. \A p \in Ops : \A d \in holders'[p] : pc'[d] \in Active /\ location'[p] \in Needs[d]
      BY <1>1, <2>2 DEF SharingInv, Active
    <3>2. \A p \in Ops \ {o} : holders[p] # {} => location[p] # l
      BY <1>5
    <3>3. \A p, q \in Ops :
            holders'[p] # {} /\ holders'[q] # {} /\ location'[p] = location'[q] => p = q
      <4> SUFFICES ASSUME NEW p \in Ops, NEW q \in Ops, holders'[p] # {}, holders'[q] # {},
                          location'[p] = location'[q]
                   PROVE  p = q
        OBVIOUS
      <4>1. CASE p = o  BY <2>2, <3>2, <4>1
      <4>2. CASE q = o  BY <2>2, <3>2, <4>2
      <4>3. CASE p # o /\ q # o  BY <2>2, <4>3 DEF SharingInv
      <4>4. QED  BY <4>1, <4>2, <4>3
    <3>4. QED  BY <3>1, <3>3 DEF SharingInv
  <2>5. PayloadInv'
    <3>1. payload'[o] = <<>>  BY <1>1, <2>1 DEF PayloadInv
    <3>2. QED  BY <1>1, <2>1, <2>2, <3>1 DEF PayloadInv
  <2>6. CollectedInv'
    <3>1. \A d \in Exports, p \in Ops : d \in holders[p] => p # o  BY <2>1
    <3>2. QED  BY <1>3, <2>2, <3>1, CollectedStays
  <2>7. \A p \in Ops : Reserved(p)' = Reserved(p)
    BY <2>1, <2>2 DEF Reserved
  <2>8. UsedInv' /\ used' \in 0..config'.temp
    BY <1>1, <1>2, <2>7, UsedStays
  <2>9. QED  BY <1>1, <2>3, <2>4, <2>5, <2>6, <2>8, ConfigStays, Parts
<1>6. QED  BY <1>4, <1>5 DEF JoinDownload

\* A worker permit and its storage.
LEMMA WorkerStartsKeeps ==
    ASSUME IInv, NEW e \in Exports, pc[e] = "worker", Fits(Storage), Goto(e, "running"),
           used' = used + Storage,
           UNCHANGED <<location, phase, holders, payload, config>>
    PROVE  IInv'
<1> USE DEF IInv
<1>1. /\ pc' = [pc EXCEPT ![e] = "running"] /\ pc'[e] = "running"
      /\ \A d \in Exports \ {e} : pc'[d] = pc[d]
  BY DEF Goto, TypeOK
<1>2. Types'  BY <1>1 DEF Types, TypeOK, Active
<1>3. SharingInv'  BY <1>1 DEF SharingInv, TypeOK, Active
<1>4. PayloadInv'  BY DEF PayloadInv
<1>5. CollectedInv'
  <2>1. \A d \in Exports : pc'[d] \in Active \ {"collecting"} => Collectible(d)
    BY <1>1 DEF CollectedInv, Active
  <2>2. QED  BY <2>1, CollectedStays
<1>6. Cardinality(Running') = Cardinality(Running) + 1
  <2>1. Running' = Running \cup {e} /\ e \notin Running  BY <1>1 DEF Running
  <2>2. QED  BY <2>1, RunningIsFinite, FS_AddElement
<1>7. ReservedBy(Ops)' = ReservedBy(Ops)
  <2>1. Reservations' = Reservations  BY DEF Reservations, Reserved
  <2>2. QED  BY <2>1, ReservedByIs
<1>8. /\ Storage \in Nat /\ Storage' = Storage /\ config.temp \in Nat
      /\ used \in 0..config.temp
  BY StorageType, ConfigStays DEF TypeOK
<1>9. UsedInv'
  <2> DEFINE n == Cardinality(Running)
             r == ReservedBy(Ops)
  <2>1. used = r + Storage * n /\ n \in Nat  BY RunningIsFinite
  <2>2. r \in Nat  BY ReservedType, ReservedByIs, SumType, LimitsAssumption
  <2>3. Storage * (n + 1) = Storage * n + Storage /\ Storage * n \in Nat
    BY <1>8, <2>1, Times
  <2> HIDE DEF n, r
  <2>4. used + Storage = r + Storage * (n + 1)
    BY <1>8, <2>1, <2>2, <2>3
  <2>5. QED  BY <1>6, <1>7, <1>8, <2>4, RunningIsFinite DEF n, r
<1>10. used' \in 0..config'.temp  BY <1>8 DEF Fits
<1>11. QED  BY <1>2, <1>3, <1>4, <1>5, <1>9, <1>10, ConfigStays, Parts

LEMMA EndKeeps ==
    ASSUME IInv, NEW e \in Exports, pc[e] \in Active,
           End(e, IF pc[e] = "running" THEN Storage ELSE 0),
           UNCHANGED <<location, config>>
    PROVE  IInv'
<1> USE DEF IInv
<1> DEFINE gone == Unleased(e)
<1>1. /\ pc' = [pc EXCEPT ![e] = "ended"]
      /\ holders' = [o \in Ops |-> holders[o] \ {e}]
      /\ phase' = [o \in Ops |-> IF o \in gone THEN "none" ELSE phase[o]]
      /\ payload' = [o \in Ops |-> IF o \in gone THEN <<>> ELSE payload[o]]
      /\ used' = used - ((IF pc[e] = "running" THEN Storage ELSE 0) + ReservedBy(gone))
  BY DEF End, Goto, LastLease, FreedBy
<1>2. \A o \in Ops : o \in gone <=> holders[o] = {e} /\ phase[o] = "ready"
  BY DEF Unleased, Held
<1>3. gone \subseteq Ops  BY DEF Unleased, Held
<1> HIDE DEF gone
<1>4. pc'[e] = "ended" /\ \A d \in Exports \ {e} : pc'[d] = pc[d]
  BY <1>1 DEF TypeOK
<1>5. Types'
  <2>1. <<>> \in Seq([position : Nat, keystream : SUBSET Nat])  BY EmptySeq
  <2>2. QED  BY <1>1, <2>1 DEF Types, TypeOK
<1>6. SharingInv'  BY <1>1, <1>4 DEF SharingInv
<1>7. PayloadInv'
  <2> SUFFICES ASSUME NEW o \in Ops
               PROVE  /\ phase'[o] \in {"slot", "fetching", "ready"} => location'[o] \in Locations
                      /\ phase'[o] \in {"none", "ready"} =>
                           (holders'[o] # {} <=> phase'[o] = "ready")
                      /\ phase'[o] \in {"none", "slot", "failed"} => payload'[o] = <<>>
                      /\ phase'[o] \in {"fetching", "ready"} =>
                           /\ Len(payload'[o]) <= Size[location'[o]]
                           /\ \A i \in 1..Len(payload'[o]) : payload'[o][i] = Byte(i, {})
                      /\ phase'[o] = "ready" => Len(payload'[o]) = Size[location'[o]]
    BY DEF PayloadInv, Byte
  <2>1. CASE o \in gone  BY <1>1, <1>2, <2>1 DEF PayloadInv
  <2>2. CASE o \notin gone
    <3>1. phase'[o] = phase[o] /\ payload'[o] = payload[o] /\ holders'[o] = holders[o] \ {e}
      BY <1>1, <2>2
    <3>2. phase[o] = "ready" => holders'[o] # {}
      BY <1>2, <2>2, <3>1 DEF PayloadInv
    <3>3. phase[o] = "none" => holders'[o] = {}  BY <3>1 DEF PayloadInv
    <3>4. QED  BY <3>1, <3>2, <3>3 DEF PayloadInv
  <2>3. QED  BY <2>1, <2>2
<1>8. CollectedInv'
  <2>1. ASSUME NEW d \in Exports, pc'[d] \in Active \ {"collecting"}
        PROVE  /\ Collectible(d)
               /\ \A o \in Ops : d \in holders[o] /\ phase[o] = "ready" =>
                    d \in holders'[o] /\ phase'[o] = "ready" /\ location'[o] = location[o]
    <3>1. d # e  BY <1>4, <2>1 DEF Active
    <3>2. Collectible(d)  BY <1>4, <2>1, <3>1 DEF CollectedInv
    <3>3. QED  BY <1>1, <1>2, <3>1, <3>2
  <2>2. QED  BY <2>1, CollectedStays
<1> DEFINE r == ReservedBy(Ops)
           n == Cardinality(Running)
           freed == ReservedBy(gone)
           storage == IF pc[e] = "running" THEN Storage ELSE 0
<1>9. /\ r = ReservedBy(Ops)' + freed
      /\ ReservedBy(Ops)' \in Nat /\ freed \in Nat
  <2>1. \A o \in Ops : Reservations[o] \in Nat  BY ReservedType
  <2>2. \A o \in gone : Reservations'[o] = 0
    BY <1>1, <1>3 DEF Reservations, Reserved
  <2>3. \A o \in Ops \ gone : Reservations'[o] = Reservations[o]
    BY <1>1 DEF Reservations, Reserved
  <2>4. \A o \in Ops : Reservations[o] \in Nat /\ Reservations'[o] \in Nat
    BY <2>1, <2>2, <2>3
  <2>5. IsFiniteSet(Ops) /\ IsFiniteSet(gone)
    BY <1>3, LimitsAssumption, FS_Subset
  <2>6. SumFunctionOnSet(Reservations, Ops)
          = SumFunctionOnSet(Reservations', Ops) + SumFunctionOnSet(Reservations, gone)
    BY <1>3, <2>2, <2>3, <2>4, <2>5, SumWithout
  <2>7. /\ SumFunctionOnSet(Reservations', Ops) \in Nat
        /\ SumFunctionOnSet(Reservations, gone) \in Nat
    BY <1>3, <2>4, <2>5, SumType
  <2>8. QED  BY <2>6, <2>7, ReservedByIs
<1>10. /\ Storage \in Nat /\ Storage' = Storage /\ config.temp \in Nat
       /\ used \in 0..config.temp
  BY StorageType, ConfigStays DEF TypeOK
<1>11. /\ n \in Nat /\ Cardinality(Running') \in Nat
       /\ Storage * n = Storage * Cardinality(Running') + storage
       /\ Storage * Cardinality(Running') \in Nat
  <2>1. CASE pc[e] = "running"
    <3>1. Running' = Running \ {e} /\ e \in Running  BY <1>4, <2>1 DEF Running
    <3>2. Cardinality(Running') = n - 1 /\ n \in Nat /\ IsFiniteSet(Running')
      BY <3>1, RunningIsFinite, FS_RemoveElement
    <3>3. Cardinality(Running') \in Nat  BY <3>2, FS_CardinalityType
    <3> HIDE DEF n
    <3>4. n > 0  BY <3>2, <3>3
    <3>5. Storage * (n - 1) = Storage * n - Storage /\ Storage * n \in Nat
      BY <1>10, <3>2, <3>4, Times
    <3>6. Storage * Cardinality(Running') \in Nat  BY <1>10, <3>3, Times
    <3>7. storage = Storage  BY <2>1
    <3> HIDE DEF storage
    <3>8. QED  BY <1>10, <3>2, <3>3, <3>5, <3>6, <3>7
  <2>2. CASE pc[e] # "running"
    <3>1. Running' = Running  BY <1>4, <2>2 DEF Running
    <3>2. storage = 0  BY <2>2
    <3>3. n \in Nat /\ Storage * n \in Nat  BY <1>10, RunningIsFinite, Times
    <3> HIDE DEF storage
    <3>4. QED  BY <3>1, <3>2, <3>3
  <2>3. QED  BY <2>1, <2>2
<1>12. used = r + Storage * n  BY RunningIsFinite
<1>13. used' = used - (storage + freed)  BY <1>1
<1>14. storage \in Nat  BY <1>10
<1> HIDE DEF r, n, freed, storage
<1>15. used' = ReservedBy(Ops)' + Storage * Cardinality(Running')
  BY <1>9, <1>10, <1>11, <1>12, <1>13, <1>14
<1>16. UsedInv'  BY <1>10, <1>15, RunningIsFinite
<1>17. used' \in 0..config'.temp
  BY <1>9, <1>10, <1>11, <1>13, <1>14, <1>15
<1>18. QED  BY <1>5, <1>6, <1>7, <1>8, <1>16, <1>17, ConfigStays, Parts

LEMMA ExportStepKeeps ==
    ASSUME IInv, NEW e \in Exports, ExportStep(e) \/ Stops(e)
    PROVE  IInv'
<1>1. CASE \E l \in Locations : JoinDownload(e, l)  BY <1>1, JoinDownloadKeeps
<1>2. CASE Collected(e)  BY <1>2, CollectedKeeps
<1>3. CASE CollectFails(e)
  <2>1. pc[e] \in Active /\ pc[e] # "running"  BY <1>3 DEF CollectFails, Active
  <2>2. End(e, 0) /\ UNCHANGED <<location, config>>  BY <1>3 DEF CollectFails
  <2>3. QED  BY <2>1, <2>2, EndKeeps
<1>4. CASE VideoPermit(e)  BY <1>4, VideoPermitKeeps
<1>5. CASE WorkerPermit(e)
  <2>1. pc[e] \in Active /\ pc[e] = "worker" /\ UNCHANGED <<location, config>>
    BY <1>5 DEF WorkerPermit, Active
  <2>2. CASE End(e, 0)  BY <2>1, <2>2, EndKeeps
  <2>3. CASE /\ Fits(Storage) /\ Goto(e, "running") /\ used' = used + Storage
             /\ UNCHANGED <<phase, holders, payload>>
    BY <2>1, <2>3, WorkerStartsKeeps
  <2>4. QED  BY <1>5, <2>2, <2>3 DEF WorkerPermit
<1>6. CASE RunEnds(e)
  <2>1. pc[e] \in Active /\ pc[e] = "running"  BY <1>6 DEF RunEnds, Active
  <2>2. End(e, Storage) /\ UNCHANGED <<location, config>>  BY <1>6 DEF RunEnds
  <2>3. QED  BY <2>1, <2>2, EndKeeps
<1>7. CASE Stops(e)  BY <1>7, EndKeeps DEF Stops
<1>8. QED  BY <1>1, <1>2, <1>3, <1>4, <1>5, <1>6, <1>7 DEF ExportStep

-----------------------------------------------------------------------------
(* The producer of a download.                                             *)

\* Steps of an operation that is not leased: exports do not notice.
LEMMA OperationKeeps ==
    ASSUME IInv, NEW o \in Ops, phase[o] \in {"slot", "fetching"},
           NEW p \in {"slot", "fetching", "ready", "failed"}, Settle(o, p),
           payload' \in [Ops -> Seq([position : Nat, keystream : SUBSET Nat])],
           \A q \in Ops \ {o} : payload'[q] = payload[q],
           p \in {"slot", "failed"} => payload'[o] = <<>>,
           p \in {"fetching", "ready"} =>
               /\ Len(payload'[o]) <= Size[location[o]]
               /\ \A i \in 1..Len(payload'[o]) : payload'[o][i] = Byte(i, {}),
           p = "ready" => /\ holders[o] # {}
                          /\ Len(payload'[o]) = Size[location[o]],
           UNCHANGED <<pc, location, holders, config>>,
           UsedInv', used' \in 0..config.temp
    PROVE  IInv'
<1> USE DEF IInv
<1>1. phase'[o] = p /\ \A q \in Ops \ {o} : phase'[q] = phase[q]
  BY DEF Settle, TypeOK
<1>2. Types'  BY DEF Types, TypeOK, Settle
<1>3. SharingInv'  BY DEF SharingInv
<1>4. PayloadInv'
  <2> SUFFICES ASSUME NEW q \in Ops
               PROVE  /\ phase'[q] \in {"slot", "fetching", "ready"} => location'[q] \in Locations
                      /\ phase'[q] \in {"none", "ready"} =>
                           (holders'[q] # {} <=> phase'[q] = "ready")
                      /\ phase'[q] \in {"none", "slot", "failed"} => payload'[q] = <<>>
                      /\ phase'[q] \in {"fetching", "ready"} =>
                           /\ Len(payload'[q]) <= Size[location'[q]]
                           /\ \A i \in 1..Len(payload'[q]) : payload'[q][i] = Byte(i, {})
                      /\ phase'[q] = "ready" => Len(payload'[q]) = Size[location'[q]]
    BY DEF PayloadInv, Byte
  <2>1. CASE q = o
    <3>1. location[o] \in Locations  BY DEF PayloadInv
    <3>2. QED  BY <1>1, <2>1, <3>1
  <2>2. CASE q # o
    <3>1. /\ phase'[q] = phase[q] /\ payload'[q] = payload[q]
          /\ location'[q] = location[q] /\ holders'[q] = holders[q]
      BY <1>1, <2>2
    <3>2. /\ phase[q] \in {"slot", "fetching", "ready"} => location[q] \in Locations
          /\ phase[q] \in {"none", "ready"} => (holders[q] # {} <=> phase[q] = "ready")
          /\ phase[q] \in {"none", "slot", "failed"} => payload[q] = <<>>
          /\ phase[q] \in {"fetching", "ready"} =>
               /\ Len(payload[q]) <= Size[location[q]]
               /\ \A i \in 1..Len(payload[q]) : payload[q][i] = Byte(i, {})
          /\ phase[q] = "ready" => Len(payload[q]) = Size[location[q]]
      BY DEF PayloadInv
    <3>3. QED  BY ONLY <3>1, <3>2
  <2>3. QED  BY <2>1, <2>2
<1>5. CollectedInv'
  <2>1. \A d \in Exports : pc'[d] \in Active \ {"collecting"} => Collectible(d)
    BY DEF CollectedInv
  <2>2. QED  BY <1>1, <2>1, CollectedStays
<1>6. QED  BY <1>2, <1>3, <1>4, <1>5, ConfigStays, Parts

\* What it takes from the budget or gives back.
LEMMA OneReservation ==
    ASSUME IInv, NEW o \in Ops, NEW p, Settle(o, p), NEW delta \in Nat,
           UNCHANGED <<pc, location, config>>,
           \/ Reserved(o) = 0 /\ Reserved(o)' = delta /\ used' = used + delta
           \/ Reserved(o) = delta /\ Reserved(o)' = 0 /\ used' = used - delta
    PROVE  UsedInv' /\ used' \in Nat /\ (used' = used - delta => used' \in 0..config.temp)
<1> USE DEF IInv
<1> DEFINE g == Reservations
           h == Reservations'
           base == Storage * Cardinality(Running)
<1>1. \A q \in Ops : g[q] \in Nat  BY ReservedType
<1>2. \A q \in Ops \ {o} : h[q] = g[q]
  BY DEF Settle, Reservations, Reserved, TypeOK
<1>3. h[o] \in Nat /\ g[o] = Reserved(o) /\ h[o] = Reserved(o)'
  BY DEF Reservations
<1>4. \A q \in Ops : g[q] \in Nat /\ h[q] \in Nat  BY <1>1, <1>2, <1>3
<1>5. /\ used = SumFunctionOnSet(g, Ops) + base
      /\ UsedInv' <=> used' = SumFunctionOnSet(h, Ops) + base
  <2>1. Running' = Running /\ Storage' = Storage
    BY ConfigStays DEF Running
  <2>2. QED  BY <2>1, RunningIsFinite, ReservedByIs
<1>6. base \in Nat
  BY RunningIsFinite, StorageType, Times
<1>7. /\ used \in Nat /\ used <= config.temp /\ config.temp \in Nat
  BY StorageType DEF TypeOK
<1>8. IsFiniteSet(Ops)  BY LimitsAssumption
<1> HIDE DEF g, h, base
<1>9. SumFunctionOnSet(g, Ops) \in Nat /\ SumFunctionOnSet(h, Ops) \in Nat
  BY <1>4, <1>8, SumType
<1>10. CASE Reserved(o) = 0 /\ Reserved(o)' = delta /\ used' = used + delta
  <2>1. \A q \in Ops \ {o} : g[q] = h[q]  BY <1>2
  <2>2. \A q \in {o} : g[q] = 0  BY <1>3, <1>10
  <2>3. SumFunctionOnSet(h, Ops) = SumFunctionOnSet(g, Ops) + SumFunctionOnSet(h, {o})
    BY <1>4, <1>8, <2>1, <2>2, SumWithout
  <2>4. SumFunctionOnSet(h, {o}) = delta  BY <1>3, <1>10, SumOfOne
  <2>5. used' = SumFunctionOnSet(h, Ops) + base
    BY <1>5, <1>6, <1>9, <1>10, <2>3, <2>4
  <2>6. QED  BY <1>5, <1>6, <1>7, <1>9, <1>10, <2>5
<1>11. CASE Reserved(o) = delta /\ Reserved(o)' = 0 /\ used' = used - delta
  <2>1. \A q \in {o} : h[q] = 0  BY <1>3, <1>11
  <2>2. SumFunctionOnSet(g, Ops) = SumFunctionOnSet(h, Ops) + SumFunctionOnSet(g, {o})
    BY <1>2, <1>4, <1>8, <2>1, SumWithout
  <2>3. SumFunctionOnSet(g, {o}) = delta  BY <1>3, <1>11, SumOfOne
  <2>4. used' = SumFunctionOnSet(h, Ops) + base
    BY <1>5, <1>6, <1>9, <1>11, <2>2, <2>3
  <2>5. used' \in Nat  BY <1>6, <1>9, <2>4
  <2>6. QED  BY <1>5, <1>7, <1>11, <2>4, <2>5
<1>12. QED  BY <1>10, <1>11

LEMMA GetSlotKeeps == ASSUME IInv, NEW o \in Ops, GetSlot(o) PROVE IInv'
<1> USE DEF IInv
<1> DEFINE size == Size[location[o]]
<1>1. phase[o] = "slot" /\ UNCHANGED <<pc, location, holders, payload, config>>
  BY DEF GetSlot
<1>2. size \in Nat /\ payload[o] = <<>> /\ Reserved(o) = 0
  BY <1>1, LimitsAssumption DEF PayloadInv, Reserved
<1>3. CASE /\ size \in 1..config.input /\ Fits(size)
           /\ Settle(o, "fetching") /\ used' = used + size
  <2>1. Reserved(o)' = size
    BY <1>1, <1>3 DEF Reserved, Settle, TypeOK
  <2>2. UsedInv' /\ used' \in Nat
    BY <1>1, <1>2, <1>3, <2>1, OneReservation
  <2>3. used' \in 0..config.temp
    BY <1>2, <1>3, <2>2, StorageType DEF Fits
  <2>4. Len(payload'[o]) = 0 /\ 1..Len(payload'[o]) = {}  BY <1>1, <1>2
  <2>5. payload' \in [Ops -> Seq([position : Nat, keystream : SUBSET Nat])]
    BY <1>1 DEF TypeOK
  <2> HIDE DEF size
  <2>6. Len(payload'[o]) <= Size[location[o]]  BY <1>2, <2>4 DEF size
  <2>7. QED
    BY <1>1, <1>3, <2>2, <2>3, <2>4, <2>5, <2>6, OperationKeeps
<1>4. CASE Settle(o, "failed") /\ UNCHANGED used
  <2>1. \A q \in Ops : Reserved(q)' = Reserved(q)
    BY <1>1, <1>4 DEF Reserved, Settle, TypeOK
  <2>2. UsedInv' /\ used' \in 0..config.temp
    BY <1>1, <1>4, <2>1, UsedStays DEF Running
  <2>3. payload' \in [Ops -> Seq([position : Nat, keystream : SUBSET Nat])]
    BY <1>1 DEF TypeOK
  <2>4. QED  BY <1>1, <1>2, <1>4, <2>2, <2>3, OperationKeeps
<1>5. QED  BY <1>3, <1>4 DEF GetSlot

LEMMA AbandonSlotKeeps == ASSUME IInv, NEW o \in Ops, AbandonSlot(o) PROVE IInv'
<1> USE DEF IInv
<1>1. /\ phase[o] = "slot" /\ Settle(o, "failed")
      /\ UNCHANGED <<pc, location, holders, used, payload, config>>
  BY DEF AbandonSlot
<1>2. payload[o] = <<>>  BY <1>1 DEF PayloadInv
<1>3. \A q \in Ops : Reserved(q)' = Reserved(q)
  BY <1>1 DEF Reserved, Settle, TypeOK
<1>4. UsedInv' /\ used' \in 0..config.temp
  BY <1>1, <1>3, UsedStays DEF Running
<1>5. payload' \in [Ops -> Seq([position : Nat, keystream : SUBSET Nat])]
  BY <1>1 DEF TypeOK
<1>6. QED  BY <1>1, <1>2, <1>4, <1>5, OperationKeeps

LEMMA FetchFailsKeeps ==
    ASSUME IInv, NEW o \in Ops, phase[o] = "fetching", FetchFails(o),
           UNCHANGED <<pc, location, holders, config>>
    PROVE  IInv'
<1> USE DEF IInv
<1>1. /\ Settle(o, "failed") /\ used' = used - Size[location[o]]
      /\ payload' = [payload EXCEPT ![o] = <<>>]
  BY DEF FetchFails
<1>2. Size[location[o]] \in Nat /\ Reserved(o) = Size[location[o]]
  BY LimitsAssumption DEF PayloadInv, Reserved
<1>3. Reserved(o)' = 0  BY <1>1 DEF Reserved, Settle, TypeOK
<1>4. UsedInv' /\ used' \in 0..config.temp
  BY <1>1, <1>2, <1>3, OneReservation
<1>5. /\ payload' \in [Ops -> Seq([position : Nat, keystream : SUBSET Nat])]
      /\ payload'[o] = <<>> /\ \A q \in Ops \ {o} : payload'[q] = payload[q]
  BY <1>1, EmptySeq DEF TypeOK
<1>6. QED  BY <1>1, <1>4, <1>5, OperationKeeps

\* A chunk of any length, decrypted where it lies, is the plain text.
LEMMA ChunkIsPlain ==
    ASSUME NEW l \in Locations, NEW m \in Nat, NEW n \in (m + 1)..Size[l],
           Size[l] \in Nat
    PROVE  LET data == Decrypted(l, SubSeq(Remote(l), m + 1, n), m)
           IN  /\ data \in Seq([position : Nat, keystream : SUBSET Nat])
               /\ Len(data) = n - m
               /\ \A i \in 1..(n - m) : data[i] = Byte(m + i, {})
<1> DEFINE remote == Remote(l)
           chunk == SubSeq(remote, m + 1, n)
           data == Decrypted(l, chunk, m)
           B == [position : Nat, keystream : SUBSET Nat]
<1>1. \A i \in 1..Size[l] :
        remote[i] = Byte(i, IF l \in Encrypted /\ i <= Masked THEN {i} ELSE {})
  BY DEF Remote
<1>2. \A i \in (m + 1)..n : remote[i] \in B
  <2> SUFFICES ASSUME NEW i \in (m + 1)..n PROVE remote[i] \in B  OBVIOUS
  <2>1. i \in 1..Size[l] /\ i \in Nat  OBVIOUS
  <2> DEFINE stream == IF l \in Encrypted /\ i <= Masked THEN {i} ELSE {}
  <2>2. stream \in SUBSET Nat  BY <2>1
  <2>3. remote[i] = Byte(i, stream)  BY <1>1, <2>1
  <2> HIDE DEF stream, remote
  <2>4. QED  BY <2>1, <2>2, <2>3 DEF Byte
<1> HIDE DEF remote
<1>3. /\ chunk \in Seq(B) /\ Len(chunk) = n - m
      /\ \A i \in 1..(n - m) : chunk[i] = remote[m + i]
  <2>1. m + 1 \in Int /\ n \in Int /\ m + 1 <= n  OBVIOUS
  <2>2. /\ SubSeq(remote, m + 1, n) \in Seq(B)
        /\ Len(SubSeq(remote, m + 1, n)) = n - (m + 1) + 1
        /\ \A i \in 1..(n - (m + 1) + 1) :
             SubSeq(remote, m + 1, n)[i] = remote[(m + 1) + i - 1]
    BY <1>2, <2>1, SubSeqProperties
  <2>3. /\ n - (m + 1) + 1 = n - m
        /\ \A i \in 1..(n - m) : (m + 1) + i - 1 = m + i
    OBVIOUS
  <2>4. QED  BY <2>2, <2>3
<1> HIDE DEF chunk
<1>4. \A i \in 1..(n - m) :
        chunk[i] = Byte(m + i, IF l \in Encrypted /\ m + i <= Masked THEN {m + i} ELSE {})
  <2> SUFFICES ASSUME NEW i \in 1..(n - m)
               PROVE chunk[i] = Byte(m + i, IF l \in Encrypted /\ m + i <= Masked
                                            THEN {m + i} ELSE {})
    OBVIOUS
  <2>1. m + i \in 1..Size[l]  OBVIOUS
  <2>2. chunk[i] = remote[m + i]  BY <1>3
  <2>3. remote[m + i] = Byte(m + i, IF l \in Encrypted /\ m + i <= Masked
                                    THEN {m + i} ELSE {})
    BY <1>1, <2>1
  <2>4. QED  BY <2>2, <2>3
<1>5. DOMAIN chunk = 1..(n - m)  BY <1>3, LenProperties
<1>6. CASE l \notin Encrypted
  <2>1. data = chunk  BY <1>6 DEF Decrypted
  <2>2. QED  BY <1>3, <1>4, <1>6, <2>1 DEF chunk, remote
<1>7. CASE l \in Encrypted
  <2>1. data = [i \in 1..(n - m) |->
                  IF m + i <= Masked THEN Combined(chunk[i], m + i) ELSE chunk[i]]
    BY <1>5, <1>7 DEF Decrypted
  <2>2. \A i \in 1..(n - m) : data[i] = Byte(m + i, {})
    <3> SUFFICES ASSUME NEW i \in 1..(n - m)  PROVE data[i] = Byte(m + i, {})
      OBVIOUS
    <3>1. CASE m + i <= Masked
      <4>1. chunk[i] = Byte(m + i, {m + i})  BY <1>4, <1>7, <3>1
      <4>2. Combined(chunk[i], m + i) = Byte(m + i, SymDiff({m + i}, {m + i}))
        BY <4>1 DEF Combined, Byte
      <4>3. SymDiff({m + i}, {m + i}) = {}  BY DEF SymDiff
      <4>4. QED  BY <2>1, <3>1, <4>2, <4>3
    <3>2. CASE ~(m + i <= Masked)
      BY <1>4, <1>7, <2>1, <3>2
    <3>3. QED  BY <3>1, <3>2
  <2> DEFINE k == n - m
  <2>a. k \in Nat  OBVIOUS
  <2> HIDE DEF data
  <2>3. \A i \in 1..k : data[i] \in B
    <3> SUFFICES ASSUME NEW i \in 1..k PROVE data[i] \in B  OBVIOUS
    <3>1. m + i \in Nat /\ {} \in SUBSET Nat  BY <2>a
    <3>2. data[i] = Byte(m + i, {})  BY <2>2
    <3>3. QED  BY <3>1, <3>2 DEF Byte
  <2>4. data \in [1..k -> B]
    <3>1. DOMAIN data = 1..k /\ data = [i \in 1..k |-> data[i]]  BY <2>1
    <3> HIDE DEF k, B
    <3>2. QED  BY <2>3, <3>1
  <2>5. data \in Seq(B)
    <3> HIDE DEF k, B
    <3>1. QED  BY <2>a, <2>4, SeqDef
  <2>6. Len(data) = n - m  BY <2>4, <2>5, LenProperties
  <2>7. QED  BY <2>2, <2>5, <2>6 DEF data, chunk, remote
<1>8. QED  BY <1>6, <1>7

LEMMA ReceiveKeeps == ASSUME IInv, NEW o \in Ops, Receive(o) PROVE IInv'
<1> USE DEF IInv
<1> DEFINE l == location[o]
           m == Len(payload[o])
           B == [position : Nat, keystream : SUBSET Nat]
<1>1. phase[o] = "fetching" /\ UNCHANGED <<pc, location, holders, config>>
  BY DEF Receive
<1>2. CASE FetchFails(o)  BY <1>1, <1>2, FetchFailsKeeps
<1>3. ASSUME NEW n \in (m + 1)..Size[l],
             payload' = [payload EXCEPT ![o] = @ \o Decrypted(l, SubSeq(Remote(l), m + 1, n), m)],
             UNCHANGED <<phase, used>>
      PROVE  IInv'
  <2> DEFINE data == Decrypted(l, SubSeq(Remote(l), m + 1, n), m)
             old == payload[o]
  <2>1. /\ l \in Locations /\ Size[l] \in Nat
        /\ old \in Seq(B) /\ Len(old) = m /\ m \in Nat
        /\ \A i \in 1..m : old[i] = Byte(i, {})
    BY <1>1, LimitsAssumption, LenProperties DEF PayloadInv, TypeOK
  <2> HIDE DEF l, m
  <2>2. /\ data \in Seq(B) /\ Len(data) = n - m
        /\ \A i \in 1..(n - m) : data[i] = Byte(m + i, {})
    BY <1>3, <2>1, ChunkIsPlain
  <2> HIDE DEF data, old
  <2>3. /\ old \o data \in Seq(B) /\ Len(old \o data) = Len(old) + Len(data)
        /\ \A i \in 1..(Len(old) + Len(data)) :
             (old \o data)[i] = IF i <= Len(old) THEN old[i] ELSE data[i - Len(old)]
    BY <2>1, <2>2, ConcatProperties
  <2>4. n \in Nat /\ m < n /\ n <= Size[l]  BY <1>3, <2>1
  <2>5. Len(old \o data) = n  BY <2>1, <2>2, <2>3, <2>4
  <2>6. \A i \in 1..n : (old \o data)[i] = Byte(i, {})
    <3> SUFFICES ASSUME NEW i \in 1..n  PROVE (old \o data)[i] = Byte(i, {})
      OBVIOUS
    <3>1. CASE i <= m  BY <2>1, <2>3, <2>5, <3>1
    <3>2. CASE ~(i <= m)
      <4>1. i - m \in 1..(n - m) /\ m + (i - m) = i  BY <2>1, <2>4, <3>2
      <4>2. (old \o data)[i] = data[i - m]  BY <2>1, <2>3, <2>5, <3>2
      <4>3. QED  BY <2>2, <4>1, <4>2
    <3>3. QED  BY <3>1, <3>2
  <2>7. /\ payload' \in [Ops -> Seq(B)] /\ payload'[o] = old \o data
        /\ \A q \in Ops \ {o} : payload'[q] = payload[q]
    <3>1. payload' = [payload EXCEPT ![o] = old \o data]
      BY <1>3 DEF data, old
    <3>2. payload \in [Ops -> Seq(B)]  BY DEF TypeOK
    <3>3. QED  BY ONLY <2>3, <3>1, <3>2, o \in Ops
  <2>8. Settle(o, "fetching")
    BY <1>1, <1>3 DEF Settle, TypeOK
  <2>9. UsedInv' /\ used' \in 0..config.temp
    <3>1. \A q \in Ops : Reserved(q)' = Reserved(q)  BY <1>1, <1>3 DEF Reserved
    <3>2. QED  BY <1>1, <1>3, <3>1, UsedStays DEF Running
  <2>10. Len(payload'[o]) <= Size[location[o]]
    BY <2>4, <2>5, <2>7 DEF l
  <2>11. \A i \in 1..Len(payload'[o]) : payload'[o][i] = Byte(i, {})
    BY <2>5, <2>6, <2>7
  <2>12. QED
    BY <1>1, <2>7, <2>8, <2>9, <2>10, <2>11, OperationKeeps
<1>4. QED  BY <1>2, <1>3 DEF Receive

LEMMA FetchEndsKeeps == ASSUME IInv, NEW o \in Ops, FetchEnds(o) PROVE IInv'
<1> USE DEF IInv
<1>1. phase[o] = "fetching" /\ UNCHANGED <<pc, location, holders, config>>
  BY DEF FetchEnds
<1>2. CASE FetchFails(o)  BY <1>1, <1>2, FetchFailsKeeps
<1>3. CASE /\ holders[o] # {} /\ Len(payload[o]) = Size[location[o]]
           /\ Settle(o, "ready") /\ UNCHANGED <<used, payload>>
  <2>1. \A q \in Ops : Reserved(q)' = Reserved(q)
    BY <1>1, <1>3 DEF Reserved, Settle, TypeOK
  <2>2. UsedInv' /\ used' \in 0..config.temp
    BY <1>1, <1>3, <2>1, UsedStays DEF Running
  <2>3. /\ payload' \in [Ops -> Seq([position : Nat, keystream : SUBSET Nat])]
        /\ \A q \in Ops \ {o} : payload'[q] = payload[q]
    BY <1>3 DEF TypeOK
  <2>4. /\ Len(payload'[o]) <= Size[location[o]]
        /\ \A i \in 1..Len(payload'[o]) : payload'[o][i] = Byte(i, {})
    BY <1>1, <1>3 DEF PayloadInv
  <2>5. QED  BY <1>1, <1>3, <2>2, <2>3, <2>4, OperationKeeps
<1>4. QED  BY <1>2, <1>3 DEF FetchEnds

-----------------------------------------------------------------------------
(* The theorems.                                                           *)

LEMMA InitIInv == Init => IInv
<1> SUFFICES ASSUME Init PROVE IInv  OBVIOUS
<1> USE DEF Init
<1>1. Types  BY EmptySeq DEF Types
<1>2. Valid(config) /\ config.temp \in Nat
  BY LimitsAssumption
<1>3. SharingInv  BY DEF SharingInv
<1>4. PayloadInv  BY DEF PayloadInv
<1>5. CollectedInv  BY DEF CollectedInv, Active
<1>6. used \in 0..config.temp  BY <1>2
<1>7. UsedInv
  <2>1. Running = {}  BY DEF Running
  <2>2. Cardinality(Running) = 0  BY <2>1, FS_EmptySet
  <2>3. \A o \in Ops : Reservations[o] = 0  BY DEF Reservations, Reserved
  <2>4. IsFiniteSet(Ops) /\ Ops \in SUBSET Ops  BY LimitsAssumption
  <2>5. SumFunctionOnSet(Reservations, Ops)
          = SumFunctionOnSet(Reservations, Ops) + SumFunctionOnSet(Reservations, Ops)
    BY <2>3, <2>4, SumWithout
  <2>6. SumFunctionOnSet(Reservations, Ops) \in Nat
    BY <2>3, <2>4, SumType
  <2>7. ReservedBy(Ops) = 0  BY <2>5, <2>6, ReservedByIs
  <2>8. Storage \in Nat  BY <1>1, <1>6, StorageType DEF Types, TypeOK
  <2>9. QED  BY <2>2, <2>7, <2>8, RunningIsFinite
<1>8. QED  BY <1>1, <1>2, <1>3, <1>4, <1>5, <1>6, <1>7, Parts

LEMMA NextKeepsIInv == IInv /\ [Next]_vars => IInv'
<1> SUFFICES ASSUME IInv, [Next]_vars PROVE IInv'  OBVIOUS
<1>1. CASE \E e \in Exports : Begin(e) \/ ExportStep(e) \/ Stops(e)
  BY <1>1, BeginKeeps, ExportStepKeeps
<1>2. CASE \E o \in Ops : DownloadStep(o)
  BY <1>2, GetSlotKeeps, AbandonSlotKeeps, ReceiveKeeps, FetchEndsKeeps DEF DownloadStep
<1>3. CASE UNCHANGED vars
  <2>1. UNCHANGED <<pc, location, phase, holders, used, payload, config>>
    BY <1>3 DEF vars
  <2> USE DEF IInv
  <2>2. Types'  BY <2>1 DEF Types, TypeOK
  <2>6. SharingInv'
    <3>1. SharingInv  OBVIOUS
    <3>2. QED  BY ONLY <2>1, <3>1 DEF SharingInv, Active
  <2>7. PayloadInv'
    <3>1. PayloadInv  OBVIOUS
    <3>2. QED  BY ONLY <2>1, <3>1 DEF PayloadInv, Byte
  <2>3. CollectedInv'  BY <2>1, CollectedStays DEF IInv, CollectedInv
  <2>4. UsedInv' /\ used' \in 0..config'.temp
    BY <2>1, UsedStays DEF Reserved, Running
  <2>5. QED  BY <2>1, <2>2, <2>6, <2>7, <2>3, <2>4, ConfigStays, Parts
<1>4. QED  BY <1>1, <1>2, <1>3 DEF Next

\* The inductive invariant of exports, downloads and the budget.
THEOREM IInvHolds == Spec => []IInv
BY InitIInv, NextKeepsIInv, PTL DEF Spec

\* The variables keep their types, the budget within the volume.
THEOREM TypeCorrect == Spec => []TypeOK
<1>1. IInv => TypeOK  BY DEF IInv
<1>2. QED  BY <1>1, IInvHolds, PTL

\* An export that waits for a permit or runs its worker has all its payloads,
\* whole and decrypted, for any sharing, any sizes and any chunks.
THEOREM PayloadsAlwaysStay == Spec => []PayloadsStay
<1>1. IInv => PayloadsStay
  <2> SUFFICES ASSUME IInv, NEW e \in Exports, pc[e] \in Active \ {"collecting"},
                      NEW l \in Needs[e]
               PROVE  \E o \in Held(e) :
                        location[o] = l /\ phase[o] = "ready" /\ payload[o] = Plain(l)
    BY DEF PayloadsStay
  <2> USE DEF IInv
  <2>1. PICK o \in Held(e) : location[o] = l /\ phase[o] = "ready"
    BY DEF CollectedInv, Collectible
  <2>2. o \in Ops /\ l \in Locations /\ Size[l] \in Nat
    BY <2>1, LimitsAssumption DEF Held
  <2>3. /\ Len(payload[o]) = Size[l] /\ payload[o] \in Seq([position : Nat, keystream : SUBSET Nat])
        /\ \A i \in 1..Size[l] : payload[o][i] = Byte(i, {})
    BY <2>1, <2>2 DEF PayloadInv, TypeOK
  <2>4. payload[o] \in [1..Size[l] -> [position : Nat, keystream : SUBSET Nat]]
    BY <2>3, LenProperties
  <2>5. payload[o] = Plain(l)  BY <2>3, <2>4 DEF Plain
  <2>6. QED  BY <2>1, <2>5
<1>2. QED  BY <1>1, IInvHolds, PTL

\* What an export holds is at most what its locations weigh.
LEMMA OwnBytesAreNeeded ==
    ASSUME IInv, NEW e \in Exports
    PROVE  OwnBytes(e) <= TotalSize(e) /\ OwnBytes(e) \in Nat /\ TotalSize(e) \in Nat
<1> USE DEF IInv
<1> DEFINE S == Held(e)
           T == Needs[e]
           f == [o \in S |-> location[o]]
<1>1. S \subseteq Ops /\ T \subseteq Locations
  BY LimitsAssumption DEF Held
<1>2. IsFiniteSet(S) /\ IsFiniteSet(T)
  BY <1>1, LimitsAssumption, FS_Subset
<1>3. \A o \in S : location[o] \in T /\ holders[o] # {}
  BY DEF SharingInv, Held
<1>4. f \in Injection(S, T)
  <2>1. \A o, p \in S : location[o] = location[p] => o = p
    BY <1>1, <1>3 DEF SharingInv
  <2>2. f \in [S -> T] /\ DOMAIN f = S  BY <1>3
  <2>3. QED  BY <2>1, <2>2 DEF Injection, IsInjective
<1>5. \A l \in T : Size[l] \in Nat  BY <1>1, LimitsAssumption
<1>6. \A o \in S : Reservations[o] \in Nat /\ Reservations[o] <= Size[f[o]]
  <2> SUFFICES ASSUME NEW o \in S
               PROVE  Reservations[o] \in Nat /\ Reservations[o] <= Size[location[o]]
    OBVIOUS
  <2>1. Size[location[o]] \in Nat  BY <1>3, <1>5
  <2>2. QED  BY <1>1, <2>1 DEF Reservations, Reserved
<1> HIDE DEF S, T, f
<1>7. SumFunctionOnSet(Reservations, S) <= SumFunctionOnSet(Size, T)
  BY <1>2, <1>4, <1>5, <1>6, SumIsBounded
<1>8. /\ SumFunctionOnSet(Reservations, S) \in Nat
      /\ SumFunctionOnSet(Size, T) \in Nat
  BY <1>2, <1>5, <1>6, SumType
<1>9. QED  BY <1>7, <1>8, ReservedByIs DEF OwnBytes, TotalSize, S, T

\* Budget.used is the sum of all reservations, within the volume, and an export
\* within its limits is refused only for the bytes of others.
THEOREM ReservationsAlwaysExact == Spec => []ReservationsExact
<1>1. IInv => ReservationsExact
  <2> SUFFICES ASSUME IInv PROVE ReservationsExact  OBVIOUS
  <2> USE DEF IInv
  <2>1. used = ReservedBy(Ops) + Storage * Cardinality({e \in Exports : pc[e] = "running"})
    BY DEF UsedInv
  <2>2. used <= config.temp /\ used \in Nat  BY StorageType DEF TypeOK
  <2>3. ASSUME NEW e \in Exports, ~Fits(Storage), TotalSize(e) <= config.input
        PROVE  used > OwnBytes(e)
    <3>1. OwnBytes(e) <= TotalSize(e) /\ OwnBytes(e) \in Nat /\ TotalSize(e) \in Nat
      BY OwnBytesAreNeeded
    <3>2. config \in [downloads : Nat, workers : Nat, videos : Nat,
                      input : Nat, output : Nat, expanded : Nat, temp : Nat]
      BY LimitsAssumption DEF TypeOK
    <3>3. config.input + config.output + config.expanded * 2 <= config.temp
      BY DEF Valid
    <3>4. used + (config.output + config.expanded * 2) > config.temp
      BY <2>2, <2>3, <3>2 DEF Fits, Storage
    <3>5. QED  BY <2>2, <2>3, <3>1, <3>2, <3>3, <3>4
  <2>4. QED  BY <2>1, <2>2, <2>3 DEF ReservationsExact
<1>2. QED  BY <1>1, IInvHolds, PTL

=============================================================================
