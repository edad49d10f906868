-------------------------- MODULE SharedWork_proofs ---------------------------
(***************************************************************************)
(* Proofs about SharedWork for every number of callers, keys and           *)
(* operations.  The inductive invariant is IInv of SharedWork: the counter *)
(* counts the holders, the Weak entry of a key names the operation that    *)
(* has users, and only an operation without users is cancelled.            *)
(***************************************************************************)
EXTENDS SharedWork, FiniteSetTheorems, TLAPS

LEMMA HoldersAreFinite ==
    ASSUME NEW s \in Ops
    PROVE  IsFiniteSet(Holders(s))
<1>1. Holders(s) \in SUBSET Callers  BY DEF Holders
<1>2. QED  BY <1>1, CallersAssumption, FS_Subset

\* An operation has users exactly when somebody holds it.
LEMMA UsersMeanHolders ==
    ASSUME UsersCounted, NEW s \in Ops
    PROVE  /\ users[s] = 0 <=> Holders(s) = {}
           /\ users[s] \in Nat
<1>1. users[s] = Cardinality(Holders(s))  BY DEF UsersCounted
<1>2. IsFiniteSet(Holders(s))  BY HoldersAreFinite
<1>3. Cardinality(Holders(s)) = 0 <=> Holders(s) = {}  BY <1>2, FS_EmptySet
<1>4. Cardinality(Holders(s)) \in Nat  BY <1>2, FS_CardinalityType
<1>5. QED  BY <1>1, <1>3, <1>4

\* A caller with a Waiter keeps its operation in use and alive.
LEMMA HolderKeepsUsers ==
    ASSUME IInv, NEW c \in Callers, pc[c] \in Holding
    PROVE  /\ op[c] \in Ops
           /\ users[op[c]] \in Nat /\ users[op[c]] > 0
           /\ op[c] \notin cancelled
<1>1. op[c] \in Ops  BY DEF IInv, CallerInv
<1>2. c \in Holders(op[c])  BY DEF Holders
<1>3. users[op[c]] \in Nat /\ users[op[c]] > 0
  BY <1>1, <1>2, UsersMeanHolders DEF IInv
<1>4. op[c] \notin cancelled  BY <1>1, <1>3 DEF IInv, OutcomeInv
<1>5. QED  BY <1>1, <1>3, <1>4

\* A free identifier has no users, holders or Weak entry.
LEMMA FreeIsUnused ==
    ASSUME IInv, NEW s \in Ops, Free(s)
    PROVE  /\ users[s] = 0
           /\ Holders(s) = {}
           /\ \A k \in Keys : registry[k] # s
           /\ \A c \in Callers : op[c] # s
<1>1. \A c \in Callers : op[c] # s  BY DEF Free, Alive
<1>2. Holders(s) = {}  BY <1>1 DEF Holders
<1>3. users[s] = 0  BY <1>2, UsersMeanHolders DEF IInv
<1>4. \A k \in Keys : registry[k] # s  BY DEF Free, Registered
<1>5. QED  BY <1>1, <1>2, <1>3, <1>4

\* A step that changes neither the holders nor the counters keeps the count.
LEMMA CountKept ==
    ASSUME UsersCounted, UNCHANGED users,
           \A s \in Ops : Holders(s)' = Holders(s)
    PROVE  UsersCounted'
BY DEF UsersCounted

\* users + 1 goes with one more holder, users - 1 with one less.
LEMMA CountGained ==
    ASSUME TypeOK, UsersCounted, NEW s \in Ops, NEW c \in Callers,
           c \notin Holders(s), Holders(s)' = Holders(s) \cup {c},
           users' = [users EXCEPT ![s] = @ + 1],
           \A t \in Ops \ {s} : Holders(t)' = Holders(t)
    PROVE  UsersCounted'
<1>1. users'[s] = Cardinality(Holders(s)')
  <2>1. Cardinality(Holders(s) \cup {c}) = Cardinality(Holders(s)) + 1
    BY HoldersAreFinite, FS_AddElement
  <2>2. users'[s] = users[s] + 1  BY DEF TypeOK
  <2>3. QED  BY <2>1, <2>2 DEF UsersCounted
<1>2. \A t \in Ops \ {s} : users'[t] = Cardinality(Holders(t)')
  BY DEF TypeOK, UsersCounted
<1>3. QED  BY <1>1, <1>2 DEF UsersCounted

LEMMA CountLost ==
    ASSUME TypeOK, UsersCounted, NEW s \in Ops, NEW c \in Callers,
           c \in Holders(s), Holders(s)' = Holders(s) \ {c},
           users' = [users EXCEPT ![s] = @ - 1],
           \A t \in Ops \ {s} : Holders(t)' = Holders(t)
    PROVE  UsersCounted'
<1>1. users'[s] = Cardinality(Holders(s)')
  <2>1. Cardinality(Holders(s) \ {c}) = Cardinality(Holders(s)) - 1
    BY HoldersAreFinite, FS_RemoveElement
  <2>2. users'[s] = users[s] - 1  BY DEF TypeOK
  <2>3. QED  BY <2>1, <2>2 DEF UsersCounted
<1>2. \A t \in Ops \ {s} : users'[t] = Cardinality(Holders(t)')
  BY DEF TypeOK, UsersCounted
<1>3. QED  BY <1>1, <1>2 DEF UsersCounted

-----------------------------------------------------------------------------

LEMMA InitIInv == Init => IInv
<1> SUFFICES ASSUME Init PROVE IInv  OBVIOUS
<1>1. TypeOK  BY DEF Init, TypeOK, ControlPoints
<1>2. UsersCounted
  <2>1. \A s \in Ops : Holders(s) = {}  BY DEF Init, Holders, Holding
  <2>2. QED  BY <2>1, FS_EmptySet DEF Init, UsersCounted
<1>3. CallerInv  BY OpsAssumption DEF Init, CallerInv, Holding
<1>4. LockInv  BY DEF Init, LockInv
<1>5. RegistryInv  BY DEF Init, RegistryInv
<1>6. OutcomeInv  BY DEF Init, OutcomeInv
<1>7. LeaseIsValid  BY DEF Init, LeaseIsValid
<1>8. CancelledIsOwn  BY DEF Init, CancelledIsOwn
<1>9. QED  BY <1>1, <1>2, <1>3, <1>4, <1>5, <1>6, <1>7, <1>8 DEF IInv

LEMMA LookUpKeepsIInv ==
    ASSUME IInv, NEW c \in Callers, NEW k \in Keys, LookUp(c, k)
    PROVE  IInv'
<1> USE DEF LookUp, opVars
<1>0. registry' \in [Keys -> Ops \cup {NoOp}]
  BY DEF IInv, TypeOK
<1>1. TypeOK'
  BY <1>0 DEF IInv, TypeOK, ControlPoints
<1>2. UsersCounted'
  <2>1. \A s \in Ops : Holders(s)' = Holders(s)
    BY DEF IInv, TypeOK, Holders, Holding
  <2>2. QED  BY <2>1, CountKept DEF IInv
<1>3. CallerInv'
  BY <1>0 DEF IInv, TypeOK, CallerInv, Holding
<1>4. RegistryInv'
  <2>1. \A j \in Keys : registry'[j] # NoOp => opKey[registry'[j]] = j
    BY DEF IInv, TypeOK, RegistryInv
  <2>2. ASSUME NEW s \in Ops, users[s] > 0
        PROVE  opKey[s] \in Keys /\ registry'[opKey[s]] = s
    <3>1. opKey[s] \in Keys /\ registry[opKey[s]] = s
      BY <2>2 DEF IInv, RegistryInv
    <3>2. PICK d \in Callers : d \in Holders(s)
      BY <2>2, UsersMeanHolders DEF IInv, Holders
    <3>3. Alive(s)  BY <3>2 DEF Alive, Holders
    <3>4. QED  BY <3>1, <3>3
  <2>3. QED  BY <2>1, <2>2 DEF RegistryInv
<1>5. LockInv'
  <2>1. \A d \in Callers : pc'[d] = "locked" => d = c
    BY DEF LockFree, IInv, TypeOK
  <2>2. want'[c] = k  BY DEF IInv, TypeOK
  <2>3. op'[c] # NoOp => op'[c] = registry'[k]  BY DEF IInv, TypeOK
  <2>4. ASSUME op'[c] = NoOp, NEW s \in Ops, registry'[k] = s
        PROVE  users[s] = 0
    <3>1. s \in cancelled  BY <2>4, OpsAssumption DEF IInv, TypeOK
    <3>2. QED  BY <3>1 DEF IInv, OutcomeInv
  <2>5. QED  BY <2>1, <2>2, <2>3, <2>4 DEF LockInv
<1>6. OutcomeInv'  BY DEF IInv, OutcomeInv
<1>7. LeaseIsValid'  BY DEF IInv, TypeOK, LeaseIsValid
<1>8. CancelledIsOwn'  BY DEF IInv, TypeOK, CancelledIsOwn
<1>9. QED  BY <1>1, <1>2, <1>3, <1>4, <1>5, <1>6, <1>7, <1>8 DEF IInv

LEMMA JoinExistingKeepsIInv ==
    ASSUME IInv, NEW c \in Callers, JoinExisting(c)
    PROVE  IInv'
<1> USE DEF JoinExisting, Joinable, MoreUsers
<1>0. PICK s \in Ops :
        /\ s = op[c] /\ want[c] \in Keys
        /\ users[s] \in Nat /\ users[s] > 0
        /\ registry[want[c]] = s /\ opKey[s] = want[c]
        /\ s \notin cancelled
  <2>1. op[c] \in Ops /\ want[c] \in Keys  BY DEF IInv, TypeOK, CallerInv
  <2>2. registry[want[c]] = op[c]  BY <2>1 DEF IInv, LockInv
  <2>3. opKey[op[c]] = want[c]  BY <2>1, <2>2 DEF IInv, RegistryInv
  <2>4. users[op[c]] \in Nat  BY <2>1 DEF IInv, TypeOK
  <2>5. op[c] \notin cancelled  BY <2>1 DEF IInv, OutcomeInv
  <2>6. QED  BY <2>1, <2>2, <2>3, <2>4, <2>5
<1>1. TypeOK'
  BY <1>0 DEF IInv, TypeOK, ControlPoints, Holding
<1>2. UsersCounted'
  <2>1. c \notin Holders(s) /\ Holders(s)' = Holders(s) \cup {c}
    BY <1>0 DEF IInv, TypeOK, Holders, Holding
  <2>2. \A t \in Ops \ {s} : Holders(t)' = Holders(t)
    BY <1>0 DEF IInv, TypeOK, Holders, Holding
  <2>3. users' = [users EXCEPT ![s] = @ + 1]  BY <1>0
  <2>4. QED  BY <2>1, <2>2, <2>3, CountGained DEF IInv
<1>3. CallerInv'
  BY <1>0 DEF IInv, TypeOK, CallerInv, Holding
<1>4. LockInv'
  BY <1>0 DEF IInv, TypeOK, LockInv
<1>5. RegistryInv'
  BY <1>0 DEF IInv, TypeOK, RegistryInv
<1>6. OutcomeInv'
  BY <1>0 DEF IInv, TypeOK, OutcomeInv
<1>7. LeaseIsValid'  BY DEF IInv, TypeOK, LeaseIsValid
<1>8. CancelledIsOwn'  BY DEF IInv, CancelledIsOwn
<1>9. QED  BY <1>1, <1>2, <1>3, <1>4, <1>5, <1>6, <1>7, <1>8 DEF IInv

LEMMA StartOperationKeepsIInv ==
    ASSUME IInv, NEW c \in Callers, StartOperation(c)
    PROVE  IInv'
<1> USE DEF StartOperation, Joinable
<1>0. PICK s \in Ops :
         /\ Free(s)
         /\ registry' = [registry EXCEPT ![want[c]] = s]
         /\ opKey' = [opKey EXCEPT ![s] = want[c]]
         /\ users' = [users EXCEPT ![s] = 1]
         /\ cancelled' = cancelled \ {s}
         /\ producer' = [producer EXCEPT ![s] = "running"]
         /\ result' = [result EXCEPT ![s] = "none"]
         /\ op' = [op EXCEPT ![c] = s]
  OBVIOUS
<1>a. /\ users[s] = 0 /\ Holders(s) = {}
      /\ \A k \in Keys : registry[k] # s
      /\ \A d \in Callers : op[d] # s
  BY <1>0, FreeIsUnused
<1>b. want[c] \in Keys  BY DEF IInv, CallerInv
\* What the lookup found has no users, so nobody produces this key.
<1>c. \A t \in Ops : users[t] > 0 => opKey[t] # want[c]
  <2> SUFFICES ASSUME NEW t \in Ops, users[t] > 0, opKey[t] = want[c]
               PROVE  FALSE
    OBVIOUS
  <2>1. registry[want[c]] = t  BY DEF IInv, RegistryInv
  <2>2. op[c] # NoOp => op[c] = t  BY <2>1 DEF IInv, LockInv
  <2>3. op[c] = NoOp => users[t] = 0  BY <2>1 DEF IInv, LockInv
  <2>4. QED  BY <2>2, <2>3
<1>1. TypeOK'
  BY <1>0, <1>b DEF IInv, TypeOK, ControlPoints, Holding
<1>2. UsersCounted'
  <2>1. Holders(s)' = {} \cup {c}
    BY <1>0, <1>a DEF IInv, TypeOK, Holders, Holding
  <2>2. \A t \in Ops \ {s} : Holders(t)' = Holders(t)
    BY <1>0 DEF IInv, TypeOK, Holders, Holding
  <2>3. users[s] + 1 = 1  BY <1>a
  <2>4. users' = [users EXCEPT ![s] = @ + 1]  BY <1>0, <2>3
  <2>5. QED  BY <2>1, <2>2, <2>4, <1>a, CountGained DEF IInv
<1>3. CallerInv'
  BY <1>0, <1>a, <1>b, OpsAssumption DEF IInv, TypeOK, CallerInv, Holding
<1>4. LockInv'
  BY <1>0, <1>a, <1>b DEF IInv, TypeOK, LockInv
<1>5. RegistryInv'
  <2>1. \A k \in Keys : registry'[k] # NoOp => opKey'[registry'[k]] = k
    BY <1>0, <1>a, <1>b DEF IInv, TypeOK, RegistryInv
  <2>2. \A t \in Ops : users'[t] > 0 =>
           opKey'[t] \in Keys /\ registry'[opKey'[t]] = t
    BY <1>0, <1>a, <1>b, <1>c DEF IInv, TypeOK, RegistryInv
  <2>3. QED  BY <2>1, <2>2 DEF RegistryInv
<1>6. OutcomeInv'
  BY <1>0, <1>a DEF IInv, TypeOK, OutcomeInv
<1>7. LeaseIsValid'
  BY <1>0, <1>a DEF IInv, TypeOK, LeaseIsValid
<1>8. CancelledIsOwn'  BY DEF IInv, CancelledIsOwn
<1>9. QED  BY <1>1, <1>2, <1>3, <1>4, <1>5, <1>6, <1>7, <1>8 DEF IInv

-----------------------------------------------------------------------------

\* Steps inside join that touch no operation: the holders stay the same.
LEMMA SubscribeKeepsIInv ==
    ASSUME IInv, NEW c \in Callers, Subscribe(c)
    PROVE  IInv'
<1> USE DEF Subscribe, SeenNow, opVars
<1>1. TypeOK'  BY DEF IInv, TypeOK, ControlPoints, Holding
<1>2. UsersCounted'
  <2>1. \A s \in Ops : Holders(s)' = Holders(s)
    BY DEF IInv, TypeOK, Holders, Holding
  <2>2. QED  BY <2>1, CountKept DEF IInv
<1>3. CallerInv'  BY DEF IInv, TypeOK, CallerInv, Holding
<1>4. LockInv'  BY DEF IInv, TypeOK, LockInv
<1>5. RegistryInv'  BY DEF IInv, RegistryInv
<1>6. OutcomeInv'  BY DEF IInv, OutcomeInv
<1>7. LeaseIsValid'  BY DEF IInv, TypeOK, LeaseIsValid
<1>8. CancelledIsOwn'  BY DEF IInv, CancelledIsOwn
<1>9. QED  BY <1>1, <1>2, <1>3, <1>4, <1>5, <1>6, <1>7, <1>8 DEF IInv

\* A holder that changes its answer and moves between points that hold.
LEMMA HolderMoves ==
    ASSUME IInv, NEW c \in Callers, NEW r \in {"none", "dropped"} \cup Outcomes,
           NEW p \in Holding, pc[c] \in Holding,
           UNCHANGED <<registry, opVars, want, op, callerCancelled>>,
           seen' \in [Callers -> BOOLEAN],
           answer' = [answer EXCEPT ![c] = r],
           pc' = [pc EXCEPT ![c] = p],
           p = "leased" => result[op[c]] = "ok",
           r = "cancelled" => c \in callerCancelled
    PROVE  IInv'
<1> USE DEF opVars
<1>1. TypeOK'  BY DEF IInv, TypeOK, ControlPoints, Holding
<1>2. UsersCounted'
  <2>1. \A s \in Ops : Holders(s)' = Holders(s)
    BY DEF IInv, TypeOK, Holders
  <2>2. QED  BY <2>1, CountKept DEF IInv
<1>3. CallerInv'  BY DEF IInv, TypeOK, CallerInv, Holding
<1>4. LockInv'  BY DEF IInv, TypeOK, LockInv, Holding
<1>5. RegistryInv'  BY DEF IInv, RegistryInv
<1>6. OutcomeInv'  BY DEF IInv, OutcomeInv
<1>7. LeaseIsValid'  BY DEF IInv, TypeOK, LeaseIsValid, CallerInv, Holding
<1>8. CancelledIsOwn'  BY DEF IInv, TypeOK, CancelledIsOwn
<1>9. QED  BY <1>1, <1>2, <1>3, <1>4, <1>5, <1>6, <1>7, <1>8 DEF IInv

LEMMA ReturnKeepsIInv ==
    ASSUME IInv, NEW c \in Callers, pc[c] \in Holding,
           NEW r \in {"dropped"} \cup Outcomes, Return(c, r),
           UNCHANGED <<registry, opVars, want, op, callerCancelled>>,
           r = "ok" => result[op[c]] = "ok",
           r = "cancelled" => c \in callerCancelled
    PROVE  IInv'
<1>1. CASE r = "ok"
  <2>1. pc' = [pc EXCEPT ![c] = "leased"]  BY <1>1 DEF Return
  <2>2. QED  BY <1>1, <2>1, HolderMoves DEF Return, Holding, IInv, TypeOK
<1>2. CASE r # "ok"
  <2>1. pc' = [pc EXCEPT ![c] = "leaving"]  BY <1>2 DEF Return
  <2>2. QED  BY <1>2, <2>1, HolderMoves DEF Return, Holding, IInv, TypeOK
<1>3. QED  BY <1>1, <1>2

LEMMA CheckKeepsIInv ==
    ASSUME IInv, NEW c \in Callers, Check(c)
    PROVE  IInv'
<1>0. pc[c] \in Holding  BY DEF Check, Holding
<1>1. CASE c \in callerCancelled /\ Return(c, "cancelled")
  BY <1>0, <1>1, ReturnKeepsIInv DEF Check, Outcomes
<1>2. CASE result[op[c]] # "none" /\ Return(c, result[op[c]])
  <2>1. op[c] \in Ops /\ op[c] \notin cancelled  BY <1>0, HolderKeepsUsers
  <2>2. result[op[c]] \in Outcomes  BY <1>2, <2>1 DEF IInv, TypeOK
  <2>3. result[op[c]] # "cancelled"  BY <2>1 DEF IInv, OutcomeInv
  <2>4. QED  BY <1>0, <1>2, <2>2, <2>3, ReturnKeepsIInv DEF Check
<1>3. CASE pc' = [pc EXCEPT ![c] = "waiting"] /\ UNCHANGED <<seen, answer>>
  <2>1. answer[c] \in {"none", "dropped"} \cup Outcomes
    BY DEF IInv, TypeOK
  <2>2. answer' = [answer EXCEPT ![c] = answer[c]]
    BY <1>3 DEF IInv, TypeOK
  <2>3. answer[c] = "cancelled" => c \in callerCancelled
    BY DEF IInv, CancelledIsOwn
  <2>4. QED
    BY <1>0, <1>3, <2>1, <2>2, <2>3, HolderMoves
    DEF Check, Holding, IInv, TypeOK
<1>4. QED  BY <1>1, <1>2, <1>3 DEF Check

LEMMA WakeKeepsIInv ==
    ASSUME IInv, NEW c \in Callers, Wake(c)
    PROVE  IInv'
<1>0. pc[c] \in Holding  BY DEF Wake, CancelReady, Holding
<1>1. CASE c \in callerCancelled /\ Return(c, "cancelled")
  BY <1>0, <1>1, ReturnKeepsIInv DEF Wake, CancelReady, Outcomes
<1>2. CASE /\ seen' = [seen EXCEPT ![c] = TRUE]
           /\ pc' = [pc EXCEPT ![c] = "checking"]
           /\ UNCHANGED answer
  <2>1. answer[c] \in {"none", "dropped"} \cup Outcomes
    BY DEF IInv, TypeOK
  <2>2. answer' = [answer EXCEPT ![c] = answer[c]]
    BY <1>2 DEF IInv, TypeOK
  <2>3. answer[c] = "cancelled" => c \in callerCancelled
    BY DEF IInv, CancelledIsOwn
  <2>4. seen' \in [Callers -> BOOLEAN]  BY <1>2 DEF IInv, TypeOK
  <2>5. QED
    BY <1>0, <1>2, <2>1, <2>2, <2>3, <2>4, HolderMoves DEF Wake, CancelReady, Holding
<1>3. QED  BY <1>1, <1>2 DEF Wake, CancelReady

LEMMA AbandonKeepsIInv ==
    ASSUME IInv, NEW c \in Callers, Abandon(c)
    PROVE  IInv'
BY ReturnKeepsIInv DEF Abandon, Holding

LEMMA ReleaseKeepsIInv ==
    ASSUME IInv, NEW c \in Callers, Release(c)
    PROVE  IInv'
<1>1. answer[c] \in {"none", "dropped"} \cup Outcomes  BY DEF IInv, TypeOK
<1>2. answer' = [answer EXCEPT ![c] = answer[c]]
  BY DEF Release, IInv, TypeOK
<1>3. answer[c] = "cancelled" => c \in callerCancelled
  BY DEF IInv, CancelledIsOwn
<1>4. QED  BY <1>1, <1>2, <1>3, HolderMoves DEF Release, Holding, IInv, TypeOK

-----------------------------------------------------------------------------
(* The two steps of Waiter::drop.                                          *)

LEMMA DropUserKeepsIInv ==
    ASSUME IInv, NEW c \in Callers, DropUser(c)
    PROVE  IInv'
<1> USE DEF DropUser, LastUser
<1>0. PICK s \in Ops :
        /\ s = op[c] /\ s \notin cancelled
        /\ users[s] \in Nat /\ users[s] > 0
        /\ c \in Holders(s)
        /\ opKey[s] = want[c] /\ want[c] \in Keys
  <2>1. pc[c] \in Holding  BY DEF Holding
  <2>2. QED  BY <2>1, HolderKeepsUsers DEF Holders, IInv, CallerInv, Holding
<1>a. users' = [users EXCEPT ![s] = @ - 1]  BY <1>0
<1>b. users'[s] = users[s] - 1 /\ users'[s] \in Nat
  BY <1>a, <1>0 DEF IInv, TypeOK
<1>c. \A d \in Callers : d # c => pc'[d] = pc[d] /\ op'[d] = op[d]
  BY DEF IInv, TypeOK
<1>d. /\ pc'[c] \in {"cancelling", "idle"}
      /\ pc'[c] = "cancelling" => op'[c] = s /\ users'[s] = 0
      /\ pc'[c] = "idle" => op'[c] = NoOp
  BY <1>0, <1>b DEF IInv, TypeOK
<1>1. TypeOK'
  <2>1. users' \in [Ops -> Nat]  BY <1>a, <1>b DEF IInv, TypeOK
  <2>2. pc' \in [Callers -> ControlPoints] /\ op' \in [Callers -> Ops \cup {NoOp}]
    BY DEF IInv, TypeOK, ControlPoints
  <2>3. QED  BY <2>1, <2>2 DEF IInv, TypeOK
<1>2. UsersCounted'
  <2>1. Holders(s)' = Holders(s) \ {c}
    BY <1>c, <1>d DEF Holders, Holding
  <2>2. \A t \in Ops \ {s} : Holders(t)' = Holders(t)
    BY <1>0, <1>c, <1>d DEF Holders, Holding
  <2>3. QED  BY <1>0, <1>a, <2>1, <2>2, CountLost DEF IInv
<1>e. \A t \in Ops : users'[t] = users[t] \/ (t = s /\ users'[t] = users[t] - 1)
  BY <1>a DEF IInv, TypeOK
<1>3. CallerInv'
  <2>1. ASSUME NEW d \in Callers, d # c, pc[d] = "cancelling"
        PROVE  users'[op[d]] = 0
    <3>1. op[d] \in Ops /\ users[op[d]] = 0
      BY <2>1 DEF IInv, CallerInv, Holding
    <3>2. QED  BY <1>0, <1>e, <3>1
  <2>2. QED  BY <1>0, <1>c, <1>d, <2>1 DEF IInv, CallerInv, Holding
<1>4. LockInv'
  <2>1. ASSUME NEW d \in Callers, pc'[d] = "locked"
        PROVE  d # c /\ pc[d] = "locked" /\ op'[d] = op[d]
    BY <1>c, <1>d, <2>1
  <2>2. \A t \in Ops : users[t] = 0 => users'[t] = 0  BY <1>0, <1>e
  <2>3. QED  BY <2>1, <2>2 DEF IInv, LockInv
<1>5. RegistryInv'
  <2>1. \A t \in Ops : users'[t] > 0 => users[t] > 0
    BY <1>0, <1>e DEF IInv, TypeOK
  <2>2. QED  BY <2>1 DEF IInv, RegistryInv
<1>6. OutcomeInv'
  BY <1>0, <1>e DEF IInv, OutcomeInv
<1>7. LeaseIsValid'  BY <1>c, <1>d DEF IInv, LeaseIsValid
<1>8. CancelledIsOwn'  BY DEF IInv, CancelledIsOwn
<1>9. QED  BY <1>1, <1>2, <1>3, <1>4, <1>5, <1>6, <1>7, <1>8 DEF IInv

LEMMA DropCancelKeepsIInv ==
    ASSUME IInv, NEW c \in Callers, DropCancel(c)
    PROVE  IInv'
<1> USE DEF DropCancel
<1>0. op[c] \in Ops /\ users[op[c]] = 0
  BY DEF IInv, CallerInv
<1>c. \A d \in Callers : d # c => pc'[d] = pc[d] /\ op'[d] = op[d]
  BY DEF IInv, TypeOK
<1>d. pc'[c] = "idle" /\ op'[c] = NoOp  BY DEF IInv, TypeOK
<1>1. TypeOK'  BY <1>0 DEF IInv, TypeOK, ControlPoints
<1>2. UsersCounted'
  <2>1. \A s \in Ops : Holders(s)' = Holders(s)
    BY <1>c, <1>d DEF Holders, Holding
  <2>2. QED  BY <2>1, CountKept DEF IInv
<1>3. CallerInv'  BY <1>c, <1>d DEF IInv, CallerInv, Holding
<1>4. LockInv'  BY <1>c, <1>d DEF IInv, LockInv
<1>5. RegistryInv'  BY DEF IInv, RegistryInv
<1>6. OutcomeInv'  BY <1>0 DEF IInv, OutcomeInv
<1>7. LeaseIsValid'  BY <1>c, <1>d DEF IInv, LeaseIsValid
<1>8. CancelledIsOwn'  BY DEF IInv, CancelledIsOwn
<1>9. QED  BY <1>1, <1>2, <1>3, <1>4, <1>5, <1>6, <1>7, <1>8 DEF IInv

-----------------------------------------------------------------------------
(* The producer and the environment.                                       *)

LEMMA ProducerEndsKeepsIInv ==
    ASSUME IInv, NEW s \in Ops, ProducerEnds(s)
    PROVE  IInv'
<1> USE DEF ProducerEnds, callerVars
<1>1. TypeOK'  BY DEF IInv, TypeOK
<1>2. UsersCounted'  BY CountKept DEF IInv, Holders
<1>3. CallerInv'  BY DEF IInv, CallerInv
<1>4. LockInv'  BY DEF IInv, LockInv
<1>5. RegistryInv'  BY DEF IInv, RegistryInv
<1>6. OutcomeInv'  BY DEF IInv, TypeOK, OutcomeInv, Outcomes
<1>7. LeaseIsValid'  BY DEF IInv, LeaseIsValid
<1>8. CancelledIsOwn'  BY DEF IInv, CancelledIsOwn
<1>9. QED  BY <1>1, <1>2, <1>3, <1>4, <1>5, <1>6, <1>7, <1>8 DEF IInv

LEMMA PublishKeepsIInv ==
    ASSUME IInv, NEW s \in Ops, Publish(s)
    PROVE  IInv'
<1> USE DEF Publish, callerVars
<1>1. TypeOK'  BY DEF IInv, TypeOK
<1>2. UsersCounted'  BY CountKept DEF IInv, Holders
<1>3. CallerInv'  BY DEF IInv, CallerInv
<1>4. LockInv'  BY DEF IInv, LockInv
<1>5. RegistryInv'  BY DEF IInv, RegistryInv
<1>6. OutcomeInv'  BY DEF IInv, TypeOK, OutcomeInv, Outcomes
<1>7. LeaseIsValid'
  <2>1. result[s] = "none"  BY DEF IInv, OutcomeInv, Outcomes
  <2>2. \A c \in Callers : pc[c] = "leased" => op[c] # s
    BY <2>1 DEF IInv, LeaseIsValid
  <2>3. QED  BY <2>2 DEF IInv, TypeOK, LeaseIsValid
<1>8. CancelledIsOwn'  BY DEF IInv, CancelledIsOwn
<1>9. QED  BY <1>1, <1>2, <1>3, <1>4, <1>5, <1>6, <1>7, <1>8 DEF IInv

LEMMA CancelCallerKeepsIInv ==
    ASSUME IInv, NEW c \in Callers, CancelCaller(c)
    PROVE  IInv'
<1> USE DEF CancelCaller, opVars, callerVars
<1>1. TypeOK'  BY DEF IInv, TypeOK
<1>2. UsersCounted'  BY CountKept DEF IInv, Holders
<1>3. CancelledIsOwn'  BY DEF IInv, CancelledIsOwn
<1>4. QED
  BY <1>1, <1>2, <1>3
  DEF IInv, CallerInv, LockInv, RegistryInv, OutcomeInv, LeaseIsValid

LEMMA StutterKeepsIInv ==
    ASSUME IInv, UNCHANGED vars
    PROVE  IInv'
<1> USE DEF vars, opVars, callerVars
<1>1. UsersCounted'  BY CountKept DEF IInv, Holders
<1>2. QED
  BY <1>1
  DEF IInv, TypeOK, CallerInv, LockInv, RegistryInv, OutcomeInv,
      LeaseIsValid, CancelledIsOwn

-----------------------------------------------------------------------------

LEMMA NextKeepsIInv == IInv /\ [Next]_vars => IInv'
<1> SUFFICES ASSUME IInv, [Next]_vars PROVE IInv'  OBVIOUS
<1>1. ASSUME NEW c \in Callers, NEW k \in Keys, LookUp(c, k) PROVE IInv'
  BY <1>1, LookUpKeepsIInv
<1>2. ASSUME NEW c \in Callers, CallerStep(c) PROVE IInv'
  BY <1>2, JoinExistingKeepsIInv, StartOperationKeepsIInv,
     SubscribeKeepsIInv, CheckKeepsIInv, WakeKeepsIInv,
     DropUserKeepsIInv, DropCancelKeepsIInv
  DEF CallerStep
<1>3. ASSUME NEW c \in Callers, Abandon(c) PROVE IInv'
  BY <1>3, AbandonKeepsIInv
<1>4. ASSUME NEW c \in Callers, Release(c) PROVE IInv'
  BY <1>4, ReleaseKeepsIInv
<1>5. ASSUME NEW c \in Callers, CancelCaller(c) PROVE IInv'
  BY <1>5, CancelCallerKeepsIInv
<1>6. ASSUME NEW s \in Ops, ProducerStep(s) PROVE IInv'
  BY <1>6, ProducerEndsKeepsIInv, PublishKeepsIInv DEF ProducerStep
<1>7. CASE UNCHANGED vars  BY <1>7, StutterKeepsIInv
<1>8. QED  BY <1>1, <1>2, <1>3, <1>4, <1>5, <1>6, <1>7 DEF Next

\* IInv holds in every reachable state, whatever the number of tasks, keys
\* and operations: join (shared.rs:50-84) and Waiter::drop (20-27) keep it.
THEOREM IInvHolds == Spec => []IInv
<1>1. Init => IInv  BY InitIInv
<1>2. IInv /\ [Next]_vars => IInv'  BY NextKeepsIInv
<1>3. QED  BY <1>1, <1>2, PTL DEF Spec

\* Every variable keeps its type.
THEOREM TypeCorrect == Spec => []TypeOK
<1>1. IInv => TypeOK  BY DEF IInv
<1>2. QED  BY <1>1, IInvHolds, PTL

\* Shared.users always equals the number of waiters and leases.
THEOREM UsersAlwaysCounted == Spec => []UsersCounted
<1>1. IInv => UsersCounted  BY DEF IInv
<1>2. QED  BY <1>1, IInvHolds, PTL

\* No operation that a caller waits for or uses is ever cancelled: one
\* caller's cancellation cannot reach another (docs/ARCHITECTURE.md:12).
THEOREM HeldNeverCancelled == Spec => []HeldIsNotCancelled
<1>1. IInv => HeldIsNotCancelled
  BY HolderKeepsUsers DEF HeldIsNotCancelled
<1>2. QED  BY <1>1, IInvHolds, PTL

\* At most one operation of a key has users.
THEOREM SingleFlightHolds == Spec => []SingleFlight
<1>1. IInv => SingleFlight
  BY DEF IInv, RegistryInv, SingleFlight
<1>2. QED  BY <1>1, IInvHolds, PTL

\* join reports "cancelled" only to a caller whose own token is cancelled.
THEOREM CancelledIsOwnHolds == Spec => []CancelledIsOwn
<1>1. IInv => CancelledIsOwn  BY DEF IInv
<1>2. QED  BY <1>1, IInvHolds, PTL

-----------------------------------------------------------------------------
(* SharedWork implements SharedPromise.  Each step of the code is one step *)
(* of the promise or a stutter: the registry and the decrement-then-cancel *)
(* destructor do not show.                                                 *)

AbsHolders == [s \in Ops |-> Holders(s)]
AbsStatus == [s \in Ops |-> StatusOf(s)]
AbsUsing == {c \in Callers : pc[c] = "leased"}

LEMMA InitRefines == Init => Promise!Init
BY DEF Init, Promise!Init, Holders, Holding, StatusOf

\* A step that leaves what the promise sees alone is a stutter of it.
LEMMA StutterRefines ==
    ASSUME opKey' = opKey, callerCancelled' = callerCancelled,
           \A s \in Ops : Holders(s)' = Holders(s),
           \A s \in Ops : StatusOf(s)' = StatusOf(s),
           AbsUsing' = AbsUsing
    PROVE  UNCHANGED Promise!vars
<1>1. AbsHolders' = AbsHolders  BY DEF AbsHolders
<1>2. AbsStatus' = AbsStatus  BY DEF AbsStatus
<1>3. QED  BY <1>1, <1>2 DEF Promise!vars, AbsHolders, AbsStatus, AbsUsing

LEMMA LookUpRefines ==
    ASSUME IInv, NEW c \in Callers, NEW k \in Keys, LookUp(c, k)
    PROVE  UNCHANGED Promise!vars
<1> USE DEF LookUp, opVars
<1>1. \A s \in Ops : Holders(s)' = Holders(s)
  BY DEF IInv, TypeOK, Holders, Holding
<1>2. \A s \in Ops : StatusOf(s)' = StatusOf(s)  BY DEF StatusOf
<1>3. AbsUsing' = AbsUsing  BY DEF IInv, TypeOK, AbsUsing
<1>4. QED  BY <1>1, <1>2, <1>3, StutterRefines

LEMMA JoinExistingRefines ==
    ASSUME IInv, NEW c \in Callers, JoinExisting(c)
    PROVE  Promise!Next
<1> USE DEF JoinExisting, Joinable, MoreUsers
<1>0. PICK s \in Ops : s = op[c] /\ Holders(s) # {}
  BY UsersMeanHolders DEF IInv, TypeOK
<1>1. \A t \in Ops : c \notin Holders(t)  BY DEF Holders, Holding
<1>2. Holders(s)' = Holders(s) \cup {c}
  BY <1>0 DEF IInv, TypeOK, Holders, Holding
<1>3. \A t \in Ops \ {s} : Holders(t)' = Holders(t)
  BY <1>0 DEF IInv, TypeOK, Holders, Holding
<1>4. AbsHolders' = [AbsHolders EXCEPT ![s] = @ \cup {c}]
  BY <1>2, <1>3 DEF AbsHolders
<1>5. AbsStatus' = AbsStatus  BY DEF AbsStatus, StatusOf
<1>6. AbsUsing' = AbsUsing  BY DEF IInv, TypeOK, AbsUsing
<1>7. Promise!Share(c, s)
  BY <1>0, <1>1, <1>4, <1>5, <1>6
  DEF Promise!Share, Promise!Outside, AbsHolders, AbsStatus, AbsUsing
<1>8. QED  BY <1>7 DEF Promise!Next

LEMMA StartOperationRefines ==
    ASSUME IInv, NEW c \in Callers, StartOperation(c)
    PROVE  Promise!Next
<1> USE DEF StartOperation, Joinable
<1>0. PICK s \in Ops :
         /\ Free(s)
         /\ registry' = [registry EXCEPT ![want[c]] = s]
         /\ opKey' = [opKey EXCEPT ![s] = want[c]]
         /\ users' = [users EXCEPT ![s] = 1]
         /\ cancelled' = cancelled \ {s}
         /\ producer' = [producer EXCEPT ![s] = "running"]
         /\ result' = [result EXCEPT ![s] = "none"]
         /\ op' = [op EXCEPT ![c] = s]
  OBVIOUS
<1>a. Holders(s) = {} /\ StatusOf(s) # "running"
  BY <1>0, FreeIsUnused DEF Free, Alive, StatusOf, IInv, TypeOK, Outcomes
<1>b. want[c] \in Keys  BY DEF IInv, CallerInv
<1>c. \A t \in Ops : opKey[t] = want[c] => Holders(t) = {}
  <2> SUFFICES ASSUME NEW t \in Ops, opKey[t] = want[c], users[t] > 0
               PROVE  FALSE
    BY UsersMeanHolders DEF IInv
  <2>1. registry[want[c]] = t  BY DEF IInv, RegistryInv
  <2>2. op[c] # NoOp => op[c] = t  BY <2>1 DEF IInv, LockInv
  <2>3. op[c] = NoOp => users[t] = 0  BY <2>1 DEF IInv, LockInv
  <2>4. QED  BY <2>2, <2>3
<1>1. \A t \in Ops : c \notin Holders(t)  BY DEF Holders, Holding
<1>2. Holders(s)' = {c}
  BY <1>0, <1>a DEF IInv, TypeOK, Holders, Holding
<1>3. \A t \in Ops \ {s} : Holders(t)' = Holders(t)
  BY <1>0 DEF IInv, TypeOK, Holders, Holding
<1>4. AbsHolders' = [AbsHolders EXCEPT ![s] = {c}]
  BY <1>2, <1>3 DEF AbsHolders
<1>5. AbsStatus' = [AbsStatus EXCEPT ![s] = "running"]
  BY <1>0 DEF AbsStatus, StatusOf, IInv, TypeOK
<1>6. AbsUsing' = AbsUsing  BY DEF IInv, TypeOK, AbsUsing
<1>7. Promise!Begin(c, want[c], s)
  BY <1>0, <1>a, <1>c, <1>1, <1>4, <1>5, <1>6
  DEF Promise!Begin, Promise!Outside, AbsHolders, AbsStatus, AbsUsing
<1>8. QED  BY <1>7, <1>b DEF Promise!Next

LEMMA SubscribeRefines ==
    ASSUME IInv, NEW c \in Callers, Subscribe(c)
    PROVE  UNCHANGED Promise!vars
<1> USE DEF Subscribe, SeenNow, opVars
<1>1. \A s \in Ops : Holders(s)' = Holders(s)
  BY DEF IInv, TypeOK, Holders, Holding
<1>2. \A s \in Ops : StatusOf(s)' = StatusOf(s)  BY DEF StatusOf
<1>3. AbsUsing' = AbsUsing  BY DEF IInv, TypeOK, AbsUsing
<1>4. QED  BY <1>1, <1>2, <1>3, StutterRefines

\* A holder moves on and either is given the payload or is not.
LEMMA HolderMoveRefines ==
    ASSUME IInv, NEW c \in Callers, pc[c] \in Holding \ {"leased"},
           NEW p \in Holding, pc' = [pc EXCEPT ![c] = p],
           p = "leased" => result[op[c]] = "ok",
           UNCHANGED <<registry, opVars, op, callerCancelled>>
    PROVE  [Promise!Next]_Promise!vars
<1> USE DEF opVars
<1>1. \A s \in Ops : Holders(s)' = Holders(s)
  BY DEF IInv, TypeOK, Holders
<1>2. \A s \in Ops : StatusOf(s)' = StatusOf(s)  BY DEF StatusOf
<1>3. CASE p = "leased"
  <2>0. PICK s \in Ops : s = op[c]  BY HolderKeepsUsers
  <2>1. StatusOf(s) = "ok"
    BY <2>0, <1>3 DEF StatusOf, IInv, OutcomeInv
  <2>2. AbsUsing' = AbsUsing \cup {c}
    BY <1>3 DEF AbsUsing, IInv, TypeOK
  <2>3. c \in Holders(s) /\ c \notin AbsUsing
    BY <2>0 DEF Holders, AbsUsing
  <2>4. AbsHolders' = AbsHolders /\ AbsStatus' = AbsStatus
    BY <1>1, <1>2 DEF AbsHolders, AbsStatus
  <2>5. Promise!Use(c, s)
    BY <2>1, <2>2, <2>3, <2>4
    DEF Promise!Use, AbsHolders, AbsStatus, AbsUsing
  <2>6. QED  BY <2>5 DEF Promise!Next
<1>4. CASE p # "leased"
  <2>1. AbsUsing' = AbsUsing  BY <1>4 DEF AbsUsing, IInv, TypeOK
  <2>2. QED  BY <1>1, <1>2, <2>1, StutterRefines
<1>5. QED  BY <1>3, <1>4

LEMMA CheckRefines ==
    ASSUME IInv, NEW c \in Callers, Check(c) \/ Wake(c) \/ Abandon(c)
    PROVE  [Promise!Next]_Promise!vars
<1>1. pc[c] \in Holding \ {"leased"}
  BY DEF Check, Wake, CancelReady, Abandon, Holding
<1>2. PICK p \in Holding :
         /\ pc' = [pc EXCEPT ![c] = p]
         /\ p = "leased" => result[op[c]] = "ok"
  BY DEF Check, Wake, CancelReady, Abandon, Return, Holding
<1>3. UNCHANGED <<registry, opVars, op, callerCancelled>>
  BY DEF Check, Wake, CancelReady, Abandon
<1>4. QED  BY <1>1, <1>2, <1>3, HolderMoveRefines

LEMMA ReleaseRefines ==
    ASSUME IInv, NEW c \in Callers, Release(c)
    PROVE  Promise!Next
<1> USE DEF Release, opVars
<1>1. AbsHolders' = AbsHolders
  BY DEF AbsHolders, IInv, TypeOK, Holders, Holding
<1>2. AbsStatus' = AbsStatus  BY DEF AbsStatus, StatusOf
<1>3. c \in AbsUsing /\ AbsUsing' = AbsUsing \ {c}
  BY DEF AbsUsing, IInv, TypeOK
<1>4. Promise!Finish(c)
  BY <1>1, <1>2, <1>3 DEF Promise!Finish, AbsHolders, AbsStatus, AbsUsing
<1>5. QED  BY <1>4 DEF Promise!Next

LEMMA DropUserRefines ==
    ASSUME IInv, NEW c \in Callers, DropUser(c)
    PROVE  Promise!Next
<1> USE DEF DropUser, LastUser
<1>0. PICK s \in Ops : s = op[c] /\ c \in Holders(s)
  BY HolderKeepsUsers DEF Holders, Holding
<1>a. \A d \in Callers : d # c => pc'[d] = pc[d] /\ op'[d] = op[d]
  BY DEF IInv, TypeOK
<1>b. pc'[c] \in {"cancelling", "idle"}  BY DEF IInv, TypeOK
<1>1. Holders(s)' = Holders(s) \ {c}
  BY <1>a, <1>b DEF Holders, Holding
<1>2. \A t \in Ops \ {s} : Holders(t)' = Holders(t)
  BY <1>0, <1>a, <1>b DEF Holders, Holding
<1>3. AbsHolders' = [AbsHolders EXCEPT ![s] = @ \ {c}]
  BY <1>1, <1>2 DEF AbsHolders
<1>4. AbsStatus' = AbsStatus  BY DEF AbsStatus, StatusOf
<1>5. AbsUsing' = AbsUsing /\ c \notin AbsUsing
  BY <1>a, <1>b DEF AbsUsing
<1>6. Promise!Leave(c, s)
  BY <1>0, <1>3, <1>4, <1>5
  DEF Promise!Leave, AbsHolders, AbsStatus, AbsUsing
<1>7. QED  BY <1>6 DEF Promise!Next

LEMMA DropCancelRefines ==
    ASSUME IInv, NEW c \in Callers, DropCancel(c)
    PROVE  UNCHANGED Promise!vars
<1> USE DEF DropCancel
<1>1. \A s \in Ops : Holders(s)' = Holders(s)
  BY DEF IInv, TypeOK, Holders, Holding
<1>2. \A s \in Ops : StatusOf(s)' = StatusOf(s)  BY DEF StatusOf
<1>3. AbsUsing' = AbsUsing  BY DEF IInv, TypeOK, AbsUsing
<1>4. QED  BY <1>1, <1>2, <1>3, StutterRefines

LEMMA ProducerEndsRefines ==
    ASSUME IInv, NEW s \in Ops, ProducerEnds(s)
    PROVE  UNCHANGED Promise!vars
<1> USE DEF ProducerEnds, callerVars
<1>1. \A t \in Ops : Holders(t)' = Holders(t)  BY DEF Holders
<1>2. \A t \in Ops : StatusOf(t)' = StatusOf(t)
  BY DEF IInv, TypeOK, StatusOf, Outcomes
<1>3. AbsUsing' = AbsUsing  BY DEF AbsUsing
<1>4. QED  BY <1>1, <1>2, <1>3, StutterRefines

\* A cancelled outcome is published only after the last holder has left.
LEMMA PublishRefines ==
    ASSUME IInv, NEW s \in Ops, Publish(s)
    PROVE  Promise!Next
<1> USE DEF Publish, callerVars
<1>0. PICK r \in Outcomes : r = producer[s]  OBVIOUS
<1>1. AbsHolders' = AbsHolders  BY DEF AbsHolders, Holders
<1>2. AbsUsing' = AbsUsing  BY DEF AbsUsing
<1>3. StatusOf(s) = "running"  BY DEF StatusOf, Outcomes
<1>4. AbsStatus' = [AbsStatus EXCEPT ![s] = r]
  BY <1>0 DEF AbsStatus, StatusOf, IInv, TypeOK
<1>5. r = "cancelled" => Holders(s) = {}
  BY <1>0, UsersMeanHolders DEF IInv, OutcomeInv
<1>6. Promise!Settle(s, r)
  BY <1>1, <1>2, <1>3, <1>4, <1>5
  DEF Promise!Settle, AbsHolders, AbsStatus, AbsUsing
<1>7. QED  BY <1>0, <1>6 DEF Promise!Next, Outcomes, Promise!Outcomes

LEMMA CancelCallerRefines ==
    ASSUME NEW c \in Callers, CancelCaller(c)
    PROVE  Promise!Next
<1> USE DEF CancelCaller, opVars, callerVars
<1>1. AbsHolders' = AbsHolders  BY DEF AbsHolders, Holders
<1>2. AbsStatus' = AbsStatus  BY DEF AbsStatus, StatusOf
<1>3. AbsUsing' = AbsUsing  BY DEF AbsUsing
<1>4. Promise!Withdraw(c)
  BY <1>1, <1>2, <1>3 DEF Promise!Withdraw, AbsHolders, AbsStatus, AbsUsing
<1>5. QED  BY <1>4 DEF Promise!Next

LEMMA NextRefines ==
    IInv /\ [Next]_vars => [Promise!Next]_Promise!vars
<1> SUFFICES ASSUME IInv, [Next]_vars
             PROVE  [Promise!Next]_Promise!vars
  OBVIOUS
<1> DEFINE Goal == [Promise!Next]_Promise!vars
<1>1. ASSUME NEW c \in Callers, NEW k \in Keys, LookUp(c, k) PROVE Goal
  BY <1>1, LookUpRefines
<1>2. ASSUME NEW c \in Callers, CallerStep(c) PROVE Goal
  BY <1>2, JoinExistingRefines, StartOperationRefines, SubscribeRefines,
     CheckRefines, DropUserRefines, DropCancelRefines
  DEF CallerStep
<1>3. ASSUME NEW c \in Callers, Abandon(c) PROVE Goal
  BY <1>3, CheckRefines
<1>4. ASSUME NEW c \in Callers, Release(c) PROVE Goal
  BY <1>4, ReleaseRefines
<1>5. ASSUME NEW c \in Callers, CancelCaller(c) PROVE Goal
  BY <1>5, CancelCallerRefines
<1>6. ASSUME NEW s \in Ops, ProducerStep(s) PROVE Goal
  BY <1>6, ProducerEndsRefines, PublishRefines DEF ProducerStep
<1>7. CASE UNCHANGED vars
  <2>1. \A s \in Ops : Holders(s)' = Holders(s) /\ StatusOf(s)' = StatusOf(s)
    BY <1>7 DEF vars, opVars, callerVars, Holders, StatusOf
  <2>2. AbsUsing' = AbsUsing  BY <1>7 DEF vars, callerVars, AbsUsing
  <2>3. opKey' = opKey /\ callerCancelled' = callerCancelled
    BY <1>7 DEF vars, opVars
  <2>4. QED  BY <2>1, <2>2, <2>3, StutterRefines
<1>8. QED  BY <1>1, <1>2, <1>3, <1>4, <1>5, <1>6, <1>7 DEF Next

\* The code of shared.rs keeps the promise of SharedPromise.
THEOREM SharedWorkRefines == Spec => ImplementsPromise
<1>1. Init => Promise!Init  BY InitRefines
<1>2. IInv /\ [Next]_vars => [Promise!Next]_Promise!vars  BY NextRefines
<1>3. QED
  BY <1>1, <1>2, IInvHolds, PTL DEF Spec, ImplementsPromise, Promise!Spec

=============================================================================
