----------------------------- MODULE Trees_proofs -----------------------------
(***************************************************************************)
(* An exported tree and its upload.                                        *)
(*                                                                         *)
(* Upload: its invariants hold for any bucket, trees and uploads.  The     *)
(* bucket only grows (Grows), so what was complete or verified stays so    *)
(* (RemoteChanges); a manifest is sent by who has verified its objects.    *)
(*                                                                         *)
(* ExportTree: for any runs, exports, files, names and selections the   *)
(* index lists what the tree holds, success means that everything is       *)
(* indexed, what was cut short can be run again and no file ever changes.  *)
(* The lemmas on the preflight come first; each step of a run then has     *)
(* one.                                                                    *)
(***************************************************************************)
EXTENDS Upload, ExportTree, TLAPS

-----------------------------------------------------------------------------
(* Upload.                                                                 *)

LEMMA ExpectedValues ==
    ASSUME NEW t \in Trees, NEW k \in DOMAIN Index[t] \cup {Manifest}
    PROVE  /\ k \in Names
           /\ Expected(t, k) \in Contents \cup Trees
           /\ Expected(t, Manifest) = t
           /\ k # Manifest => Expected(t, k) = Index[t][k]
BY UploadAssumption DEF Expected, Names

\* The bucket with one more conditional PUT: nothing in it changes.
LEMMA Grows ==
    ASSUME TypeOK, NEW k \in Names, NEW x \in Contents \cup Trees,
           remote' = Created(k, x)
    PROVE  /\ remote' \in [Names -> Contents \cup Trees \cup {Absent}]
           /\ \A j \in Names : remote[j] # Absent => remote'[j] = remote[j]
           /\ \A j \in Names : j # k => remote'[j] = remote[j]
           /\ remote'[k] = IF remote[k] = Absent THEN x ELSE remote[k]
BY DEF TypeOK, Created

LEMMA CompleteStays ==
    ASSUME \A j \in Names : remote[j] # Absent => remote'[j] = remote[j],
           NEW t \in Trees, Complete(t)
    PROVE  Complete(t)'
<1> SUFFICES ASSUME NEW k \in DOMAIN Index[t]
             PROVE  remote'[k] = Index[t][k]
    BY DEF Complete
<1>1. k \in Names /\ Index[t][k] \in Contents /\ Index[t][k] # Absent
    BY UploadAssumption DEF Names
<1>2. remote[k] = Index[t][k]
    BY DEF Complete
<1> QED BY <1>1, <1>2

\* A conditional PUT keeps the invariants that speak of the bucket.
LEMMA RemoteChanges ==
    ASSUME IInv, NEW k \in Names, NEW x \in Contents \cup Trees,
           remote' = Created(k, x),
           k = Manifest => x \in Trees /\ Complete(x)
    PROVE  /\ remote' \in [Names -> Contents \cup Trees \cup {Absent}]
           /\ \A t \in Trees : Complete(t) => Complete(t)'
           /\ ManifestIsLast'
           /\ \A u \in Uploads, j \in Names :
                step[u][j] = "verified" => remote'[j] = Expected(tree[u], j)
<1>1. /\ remote' \in [Names -> Contents \cup Trees \cup {Absent}]
      /\ \A j \in Names : remote[j] # Absent => remote'[j] = remote[j]
      /\ \/ remote'[Manifest] = remote[Manifest]
         \/ k = Manifest /\ remote'[Manifest] = x
    BY Grows DEF IInv, Names
<1>2. \A t \in Trees : Complete(t) => Complete(t)'
    BY <1>1, CompleteStays
<1>3. ManifestIsLast'
    BY <1>1, <1>2 DEF ManifestIsLast, IInv
<1>4. ASSUME NEW u \in Uploads, NEW j \in Names, step[u][j] = "verified"
      PROVE  remote'[j] = Expected(tree[u], j)
    <2>1. tree[u] \in Trees
        BY <1>4 DEF IInv, TypeOK, ProgressInv, NothingDone
    <2>2. j \in DOMAIN Index[tree[u]] \cup {Manifest}
        BY <1>4 DEF IInv, ProgressInv
    <2>3. Expected(tree[u], j) # Absent
        BY <2>1, <2>2, ExpectedValues, UploadAssumption
    <2>4. remote[j] = Expected(tree[u], j)
        BY <1>4 DEF IInv, VerifiedStays
    <2> QED BY <1>1, <2>3, <2>4
<1> QED BY <1>1, <1>2, <1>3, <1>4

-----------------------------------------------------------------------------

LEMMA InitIInv == Init => IInv
<1> SUFFICES ASSUME Init PROVE IInv
    OBVIOUS
<1> USE UploadAssumption
<1>1. TypeOK
    BY DEF Init, TypeOK, NothingDone, NothingTried, Working, Requested
<1>2. VerifiedStays
    BY DEF Init, VerifiedStays, NothingDone
<1>3. ManifestsSentAreComplete
    BY DEF Init, ManifestsSentAreComplete, NothingDone, Names
<1>4. ManifestIsLast
    BY DEF Init, ManifestIsLast, Names
<1>5. ProgressInv
    BY DEF Init, ProgressInv, NothingDone, NothingTried
<1> QED BY <1>1, <1>2, <1>3, <1>4, <1>5 DEF IInv

LEMMA LateArrivesKeepsIInv ==
    ASSUME IInv, NEW k \in Names, NEW x \in Contents \cup Trees, LateArrives(k, x),
           k = Manifest => x \in Trees
    PROVE  IInv'
<1>1. k = Manifest => x \in Trees /\ Complete(x)
    BY DEF LateArrives, IInv, ManifestsSentAreComplete
<1>2. /\ remote' \in [Names -> Contents \cup Trees \cup {Absent}]
      /\ \A t \in Trees : Complete(t) => Complete(t)'
      /\ ManifestIsLast'
      /\ \A u \in Uploads, j \in Names :
           step[u][j] = "verified" => remote'[j] = Expected(tree[u], j)
    BY <1>1, RemoteChanges DEF LateArrives
<1>3. TypeOK'
    BY <1>2 DEF LateArrives, IInv, TypeOK
<1>4. VerifiedStays'
    BY <1>2 DEF LateArrives, VerifiedStays
<1>5. ManifestsSentAreComplete'
    <2>1. ASSUME NEW u \in Uploads, phase[u] = "manifest" \/ step[u][Manifest] # "waiting"
          PROVE  Complete(tree[u])'
        <3>1. tree[u] \in Trees
            BY <2>1 DEF IInv, TypeOK, ProgressInv, NothingDone, Names
        <3>2. tree' = tree
            BY DEF LateArrives
        <3> QED BY <2>1, <3>1, <3>2, <1>2 DEF IInv, ManifestsSentAreComplete, Complete
    <2>2. ASSUME NEW t \in Trees, <<Manifest, t>> \in late'
          PROVE  Complete(t)'
        BY <2>2, <1>2 DEF LateArrives, IInv, ManifestsSentAreComplete
    <2> QED BY <2>1, <2>2 DEF ManifestsSentAreComplete, LateArrives
<1>6. ProgressInv'
    BY DEF LateArrives, IInv, ProgressInv, ObjectsIn
<1> QED BY <1>2, <1>3, <1>4, <1>5, <1>6 DEF IInv

LEMMA ForeignPutKeepsIInv ==
    ASSUME IInv, NEW k \in Objects, NEW x \in Contents, ForeignPut(k, x)
    PROVE  IInv'
<1>1. k \in Names /\ k # Manifest
    BY UploadAssumption DEF Names
<1>2. /\ remote' \in [Names -> Contents \cup Trees \cup {Absent}]
      /\ \A t \in Trees : Complete(t) => Complete(t)'
      /\ ManifestIsLast'
      /\ \A u \in Uploads, j \in Names :
           step[u][j] = "verified" => remote'[j] = Expected(tree[u], j)
    BY <1>1, RemoteChanges DEF ForeignPut
<1>3. TypeOK'
    BY <1>2 DEF ForeignPut, IInv, TypeOK
<1>4. VerifiedStays'
    BY <1>2 DEF ForeignPut, VerifiedStays
<1>5. ManifestsSentAreComplete'
    <2>1. ASSUME NEW u \in Uploads, phase[u] = "manifest" \/ step[u][Manifest] # "waiting"
          PROVE  Complete(tree[u])'
        <3>1. tree[u] \in Trees
            BY <2>1 DEF IInv, TypeOK, ProgressInv, NothingDone, Names
        <3>2. tree' = tree
            BY DEF ForeignPut
        <3> QED BY <2>1, <3>1, <3>2, <1>2 DEF IInv, ManifestsSentAreComplete, Complete
    <2> QED BY <2>1, <1>2 DEF ManifestsSentAreComplete, ForeignPut, IInv
<1>6. ProgressInv'
    BY DEF ForeignPut, IInv, ProgressInv, ObjectsIn
<1> QED BY <1>2, <1>3, <1>4, <1>5, <1>6 DEF IInv

\* What a request of an upload means: it has a tree, and the key is in it.
LEMMA Requesting ==
    ASSUME IInv, NEW u \in Uploads, NEW k \in Names, step[u][k] # "waiting"
    PROVE  /\ tree[u] \in Trees
           /\ k \in DOMAIN Index[tree[u]] \cup {Manifest}
           /\ Expected(tree[u], k) \in Contents \cup Trees
           /\ k = Manifest => Expected(tree[u], k) \in Trees
           /\ k = Manifest => Complete(Expected(tree[u], k))
<1>1. tree[u] \in Trees
    BY DEF IInv, TypeOK, ProgressInv, NothingDone
<1>2. k \in DOMAIN Index[tree[u]] \cup {Manifest}
    BY DEF IInv, ProgressInv
<1>3. k = Manifest => Complete(tree[u])
    BY DEF IInv, ManifestsSentAreComplete
<1> QED BY <1>1, <1>2, <1>3, ExpectedValues

LEMMA AnswerKeepsIInv ==
    ASSUME IInv, NEW u \in Uploads, NEW k \in Names, Answer(u, k)
    PROVE  IInv'
<1> DEFINE x == Expected(tree[u], k)
<1>1. step[u][k] # "waiting" /\ x \in Contents \cup Trees
        /\ (k = Manifest => x \in Trees /\ Complete(x))
    BY Requesting DEF Answer
<1>2. /\ remote' \in [Names -> Contents \cup Trees \cup {Absent}]
      /\ \A t \in Trees : Complete(t) => Complete(t)'
      /\ ManifestIsLast'
      /\ \A v \in Uploads, j \in Names :
           step[v][j] = "verified" => remote'[j] = Expected(tree[v], j)
    BY <1>1, RemoteChanges DEF Answer
<1>3. TypeOK'
    BY <1>2 DEF Answer, SetStep, IInv, TypeOK, Requested
<1>4. \A v \in Uploads, j \in Names :
         \/ step'[v][j] = step[v][j]
         \/ v = u /\ j = k /\ step'[v][j] = "verifying" /\ step[v][j] = "sent"
    BY DEF Answer, SetStep, IInv, TypeOK
<1>5. VerifiedStays'
    BY <1>2, <1>4 DEF Answer, VerifiedStays
<1>6. ManifestsSentAreComplete'
    <2>1. ASSUME NEW v \in Uploads, phase[v] = "manifest" \/ step'[v][Manifest] # "waiting"
          PROVE  Complete(tree[v])'
        <3>1. phase[v] = "manifest" \/ step[v][Manifest] # "waiting"
            BY <2>1, <1>4 DEF Names
        <3>2. tree[v] \in Trees
            BY <3>1 DEF IInv, TypeOK, ProgressInv, NothingDone, Names
        <3>3. tree' = tree
            BY DEF Answer
        <3> QED BY <3>1, <3>2, <3>3, <1>2 DEF IInv, ManifestsSentAreComplete, Complete
    <2> QED BY <2>1, <1>2 DEF ManifestsSentAreComplete, Answer, IInv
<1>7. ProgressInv'
    BY <1>4 DEF Answer, SetStep, IInv, TypeOK, ProgressInv, ObjectsIn, NothingDone, Names
<1> QED BY <1>2, <1>3, <1>5, <1>6, <1>7 DEF IInv

\* What giving requests up may add to the late ones.
LEMMA GivenUpIsSound ==
    ASSUME IInv, NEW u \in Uploads, NEW K \in SUBSET Names
    PROVE  /\ GivenUp(u, K) \subseteq Names \X (Contents \cup Trees)
           /\ \A t \in Trees : <<Manifest, t>> \in GivenUp(u, K) => Complete(t)
<1>1. ASSUME NEW k \in K, step[u][k] = "sent"
      PROVE  /\ k \in Names
             /\ Expected(tree[u], k) \in Contents \cup Trees
             /\ k = Manifest => Complete(Expected(tree[u], k))
    BY <1>1, Requesting
<1> QED BY <1>1 DEF GivenUp, IInv, TypeOK, ManifestsSentAreComplete

\* upload_object moves on for one key, the bucket as it is.
LEMMA StepMoves ==
    ASSUME IInv, NEW u \in Uploads, NEW k \in Names,
           NEW s \in {"sent", "backoff", "verified", "failed"},
           SetStep(u, k, s), UNCHANGED <<remote, phase, tree, cancelled, runs>>,
           step[u][k] \notin {"verified", "failed"},
           step[u][k] = "waiting" => HasTurn(u, k),
           s = "verified" => remote[k] = Expected(tree[u], k),
           late' = late \/ late' = GivenUp(u, {k}),
           attempt' \in [Uploads -> [Names -> 0..Attempts]],
           \A v \in Uploads, j \in Names :
              (v = u /\ j = k) \/ attempt'[v][j] = attempt[v][j],
           s = "backoff" => attempt'[u][k] < Attempts
    PROVE  IInv'
<1>1. \A v \in Uploads, j \in Names :
         step'[v][j] = IF v = u /\ j = k THEN s ELSE step[v][j]
    BY DEF SetStep, IInv, TypeOK
<1>2. /\ tree[u] # Absent
      /\ k \in DOMAIN Index[tree[u]] \cup {Manifest}
      /\ k = Manifest => Complete(tree[u])
    <2>1. CASE step[u][k] = "waiting"
        <3>1. HasTurn(u, k)
            BY <2>1
        <3>2. phase[u] \in Working
            BY <3>1 DEF HasTurn, Working
        <3>3. tree[u] # Absent
            BY <3>2 DEF IInv, ProgressInv, Working
        <3>4. tree[u] \in Trees
            BY <3>3 DEF IInv, TypeOK
        <3>5. CASE phase[u] = "objects"
            BY <3>1, <3>3, <3>4, <3>5, UploadAssumption DEF HasTurn
        <3>6. CASE phase[u] = "manifest"
            BY <3>1, <3>3, <3>6 DEF HasTurn, IInv, ManifestsSentAreComplete
        <3> QED BY <3>2, <3>5, <3>6 DEF Working
    <2>2. CASE step[u][k] # "waiting"
        BY <2>2 DEF IInv, ProgressInv, ManifestsSentAreComplete, NothingDone
    <2> QED BY <2>1, <2>2
<1>3. TypeOK'
    <2>1. late' \subseteq Names \X (Contents \cup Trees)
        BY GivenUpIsSound DEF IInv, TypeOK
    <2>2. step' \in [Uploads -> [Names -> {"waiting", "backoff", "verified", "failed"}
                                          \cup Requested]]
        BY DEF SetStep, IInv, TypeOK, Requested
    <2> QED BY <2>1, <2>2 DEF IInv, TypeOK
<1>4. VerifiedStays'
    BY <1>1 DEF IInv, VerifiedStays, Expected
<1>5. ManifestsSentAreComplete'
    <2>1. ASSUME NEW v \in Uploads, phase[v] = "manifest" \/ step'[v][Manifest] # "waiting"
          PROVE  Complete(tree[v])
        BY <2>1, <1>1, <1>2 DEF IInv, ManifestsSentAreComplete, Names
    <2>2. ASSUME NEW t \in Trees, <<Manifest, t>> \in late'
          PROVE  Complete(t)
        BY <2>2, GivenUpIsSound DEF IInv, ManifestsSentAreComplete
    <2> QED BY <2>1, <2>2 DEF ManifestsSentAreComplete, Complete
<1>6. ManifestIsLast'
    BY DEF IInv, ManifestIsLast, Complete
<1>7. ProgressInv'
    <2> SUFFICES ASSUME NEW v \in Uploads
                 PROVE  /\ tree[v] = Absent => phase[v] = "idle" /\ step'[v] = NothingDone
                        /\ phase[v] = "succeeded" => step'[v][Manifest] = "verified"
                        /\ phase[v] = "manifest" => ObjectsIn(v, {"verified"})'
                        /\ \A j \in Names :
                             /\ step'[v][j] # "waiting"
                                  => j \in DOMAIN Index[tree[v]] \cup {Manifest}
                             /\ step'[v][j] = "waiting" => attempt'[v][j] = 0
                             /\ step'[v][j] = "backoff" => attempt'[v][j] < Attempts
        BY DEF ProgressInv, ObjectsIn
    <2>1. CASE v # u
        <3>1. step'[v] = step[v]
            BY <2>1 DEF SetStep, IInv, TypeOK
        <3> QED BY <2>1, <3>1 DEF IInv, ProgressInv, ObjectsIn
    <2>2. CASE v = u
        <3>1. phase[u] = "succeeded" => step'[u][Manifest] = "verified"
            BY <1>1 DEF IInv, ProgressInv, Names
        <3>2. phase[u] = "manifest" => \A j \in DOMAIN Index[tree[u]] : step'[u][j] \in {"verified"}
            <4>1. ASSUME phase[u] = "manifest", NEW j \in DOMAIN Index[tree[u]]
                  PROVE  step[u][j] = "verified" /\ j \in Names
                BY <4>1, <1>2, UploadAssumption DEF IInv, ProgressInv, ObjectsIn, TypeOK, Names
            <4> QED BY <1>1, <4>1
        <3>3. \A j \in Names :
                 /\ step'[u][j] # "waiting" => j \in DOMAIN Index[tree[u]] \cup {Manifest}
                 /\ step'[u][j] = "waiting" => attempt'[u][j] = 0
                 /\ step'[u][j] = "backoff" => attempt'[u][j] < Attempts
            BY <1>1, <1>2 DEF IInv, ProgressInv
        <3> QED BY <2>2, <1>2, <3>1, <3>2, <3>3 DEF ObjectsIn
    <2> QED BY <2>1, <2>2
<1> QED BY <1>3, <1>4, <1>5, <1>6, <1>7 DEF IInv

LEMMA AttemptKeepsIInv ==
    ASSUME IInv, NEW u \in Uploads, NEW k \in Names, Attempt(u, k)
    PROVE  IInv'
<1>1. /\ HasTurn(u, k)
      /\ step[u][k] \in {"waiting", "backoff"}
      /\ UNCHANGED <<remote, late, phase, tree, cancelled, runs>>
    BY DEF Attempt
<1>2. CASE u \in cancelled
    <2>1. SetStep(u, k, "failed") /\ attempt' = attempt
        BY <1>2 DEF Attempt
    <2> QED BY <1>1, <2>1, StepMoves DEF IInv, TypeOK
<1>3. CASE u \notin cancelled
    <2>1. /\ SetStep(u, k, "sent")
          /\ attempt' = [attempt EXCEPT ![u][k] = attempt[u][k] + 1]
        BY <1>3 DEF Attempt, NextAttempt
    <2>2. attempt[u][k] \in 0..Attempts /\ attempt[u][k] < Attempts
        BY <1>1, UploadAssumption DEF IInv, TypeOK, ProgressInv
    <2>3. attempt[u][k] + 1 \in 0..Attempts
        BY <2>2, UploadAssumption
    <2>4. attempt' \in [Uploads -> [Names -> 0..Attempts]]
        BY <2>1, <2>3 DEF IInv, TypeOK
    <2>5. \A v \in Uploads, j \in Names :
             (v = u /\ j = k) \/ attempt'[v][j] = attempt[v][j]
        BY <2>1 DEF IInv, TypeOK
    <2> QED BY <1>1, <2>1, <2>4, <2>5, StepMoves
<1> QED BY <1>2, <1>3

LEMMA VerifyKeepsIInv ==
    ASSUME IInv, NEW u \in Uploads, NEW k \in Names, Verify(u, k)
    PROVE  IInv'
<1>1. /\ step[u][k] = "verifying"
      /\ remote[k] = Expected(tree[u], k)
      /\ UNCHANGED <<remote, late, phase, tree, attempt, cancelled, runs>>
    BY DEF Verify, Matches
<1>2. PICK s \in {"verified", "failed"} : SetStep(u, k, s)
    BY DEF Verify
<1>3. /\ attempt' \in [Uploads -> [Names -> 0..Attempts]]
      /\ \A v \in Uploads, j \in Names : attempt'[v][j] = attempt[v][j]
    BY <1>1 DEF IInv, TypeOK
<1> QED BY <1>1, <1>2, <1>3, StepMoves

LEMMA AttemptFailsKeepsIInv ==
    ASSUME IInv, NEW u \in Uploads, NEW k \in Names, AttemptFails(u, k)
    PROVE  IInv'
<1>1. /\ step[u][k] \in {"sent", "verifying"}
      /\ late' = GivenUp(u, {k})
      /\ UNCHANGED <<remote, phase, tree, attempt, cancelled, runs>>
    BY DEF AttemptFails, Requested
<1>2. PICK s \in {"failed", "backoff"} :
         SetStep(u, k, s) /\ (s = "backoff" => attempt[u][k] < Attempts)
    BY DEF AttemptFails
<1>3. /\ attempt' \in [Uploads -> [Names -> 0..Attempts]]
      /\ \A v \in Uploads, j \in Names : attempt'[v][j] = attempt[v][j]
      /\ s = "backoff" => attempt'[u][k] < Attempts
    BY <1>1, <1>2 DEF IInv, TypeOK
<1> QED BY <1>1, <1>2, <1>3, StepMoves

-----------------------------------------------------------------------------

LEMMA StartKeepsIInv ==
    ASSUME IInv, NEW u \in Uploads, NEW t \in Trees, Start(u, t)
    PROVE  IInv'
<1> USE DEF IInv, TypeOK, Start
<1>1. TypeOK'
    <2>1. step' \in [Uploads -> [Names -> {"waiting", "backoff", "verified", "failed"}
                                          \cup Requested]]
        BY DEF NothingDone
    <2>2. attempt' \in [Uploads -> [Names -> 0..Attempts]]
        BY UploadAssumption DEF NothingTried
    <2>3. runs' \in 0..MaxRuns
        BY UploadAssumption
    <2>4. phase' \in [Uploads -> {"idle", "failed", "succeeded"} \cup Working]
        BY DEF Working
    <2> QED BY <2>1, <2>2, <2>3, <2>4
<1>2. \A v \in Uploads : IF v = u
         THEN /\ phase'[v] = "objects" /\ tree'[v] = t
              /\ \A k \in Names : step'[v][k] = "waiting" /\ attempt'[v][k] = 0
         ELSE /\ phase'[v] = phase[v] /\ tree'[v] = tree[v]
              /\ step'[v] = step[v] /\ attempt'[v] = attempt[v]
    BY DEF NothingDone, NothingTried
<1> USE <1>2
<1> HIDE DEF IInv, TypeOK, Start
<1>3. remote' = remote /\ late' = late
    BY DEF Start
<1>4. VerifiedStays'
    BY <1>3 DEF IInv, VerifiedStays, Expected
<1>5. ManifestsSentAreComplete'
    BY <1>3 DEF IInv, ManifestsSentAreComplete, Complete, Names
<1>6. ManifestIsLast'
    BY <1>3 DEF IInv, ManifestIsLast, Complete
<1>7. ProgressInv'
    BY UploadAssumption DEF IInv, ProgressInv, ObjectsIn, Names
<1> QED BY <1>1, <1>4, <1>5, <1>6, <1>7 DEF IInv

\* Nothing but the phase of one upload changes.
LEMMA PhaseMoves ==
    ASSUME IInv, NEW u \in Uploads, NEW p \in {"manifest", "failed", "succeeded"},
           phase' = [phase EXCEPT ![u] = p], phase[u] \in Working,
           UNCHANGED <<remote, late, tree, step, attempt, cancelled, runs>>,
           p = "manifest" => ObjectsIn(u, {"verified"}),
           p = "succeeded" => step[u][Manifest] = "verified"
    PROVE  IInv'
<1>1. tree[u] # Absent /\ tree[u] \in Trees
    BY DEF IInv, TypeOK, ProgressInv, Working
<1>2. TypeOK'
    BY DEF IInv, TypeOK, Working
<1>3. \A v \in Uploads : phase'[v] = IF v = u THEN p ELSE phase[v]
    BY DEF IInv, TypeOK
<1>4. p = "manifest" => Complete(tree[u])
    <2> SUFFICES ASSUME p = "manifest", NEW k \in DOMAIN Index[tree[u]]
                 PROVE  remote[k] = Index[tree[u]][k]
        BY DEF Complete
    <2>1. k \in Names /\ k # Manifest /\ Expected(tree[u], k) = Index[tree[u]][k]
        BY <1>1, UploadAssumption DEF Names, Expected
    <2>2. step[u][k] = "verified"
        BY DEF ObjectsIn
    <2> QED BY <2>1, <2>2 DEF IInv, VerifiedStays
<1>5. VerifiedStays'
    BY DEF IInv, VerifiedStays, Expected
<1>6. ManifestsSentAreComplete'
    BY <1>3, <1>4 DEF IInv, ManifestsSentAreComplete, Complete
<1>7. ManifestIsLast'
    BY DEF IInv, ManifestIsLast, Complete
<1>8. ProgressInv'
    BY <1>1, <1>3 DEF IInv, ProgressInv, ObjectsIn
<1> QED BY <1>2, <1>5, <1>6, <1>7, <1>8 DEF IInv

LEMMA ObjectsEndKeepsIInv ==
    ASSUME IInv, NEW u \in Uploads, ObjectsEnd(u)
    PROVE  IInv'
<1>1. CASE ObjectsIn(u, {"verified"})
    BY <1>1, PhaseMoves DEF ObjectsEnd, NoErrors, Working
<1>2. CASE ~ObjectsIn(u, {"verified"})
    BY <1>2, PhaseMoves DEF ObjectsEnd, NoErrors, Working
<1> QED BY <1>1, <1>2

LEMMA ManifestEndsKeepsIInv ==
    ASSUME IInv, NEW u \in Uploads, ManifestEnds(u)
    PROVE  IInv'
<1>1. CASE step[u][Manifest] = "verified"
    BY <1>1, PhaseMoves DEF ManifestEnds, Working
<1>2. CASE step[u][Manifest] # "verified"
    BY <1>2, PhaseMoves DEF ManifestEnds, Working
<1> QED BY <1>1, <1>2

LEMMA CancelKeepsIInv ==
    ASSUME IInv, NEW u \in Uploads, Cancel(u)
    PROVE  IInv'
BY DEF Cancel, IInv, TypeOK, VerifiedStays, ManifestsSentAreComplete,
       ManifestIsLast, ProgressInv, Complete, ObjectsIn, Expected

LEMMA CrashKeepsIInv ==
    ASSUME IInv, NEW u \in Uploads, Crash(u)
    PROVE  IInv'
<1>1. \A v \in Uploads : IF v = u
         THEN /\ phase'[v] = "idle" /\ tree'[v] = Absent
              /\ step'[v] = NothingDone /\ attempt'[v] = NothingTried
         ELSE /\ phase'[v] = phase[v] /\ tree'[v] = tree[v]
              /\ step'[v] = step[v] /\ attempt'[v] = attempt[v]
    BY DEF Crash, IInv, TypeOK
<1>2. remote' = remote /\ late' = GivenUp(u, Names)
    BY DEF Crash
<1>3. /\ late' \subseteq Names \X (Contents \cup Trees)
      /\ \A t \in Trees : <<Manifest, t>> \in late' => Complete(t)
    BY <1>2, GivenUpIsSound
<1>4. TypeOK'
    <2>1. NothingDone \in [Names -> {"waiting", "backoff", "verified", "failed"}
                                       \cup Requested]
        BY DEF NothingDone
    <2>2. NothingTried \in [Names -> 0..Attempts]
        BY UploadAssumption DEF NothingTried
    <2> QED BY <1>3, <2>1, <2>2 DEF Crash, IInv, TypeOK
<1>5. \A k \in Names : NothingDone[k] = "waiting" /\ NothingTried[k] = 0
    BY DEF NothingDone, NothingTried
<1>6. VerifiedStays'
    BY <1>1, <1>2, <1>5 DEF IInv, VerifiedStays, Expected
<1>7. ManifestsSentAreComplete'
    <2>1. ASSUME NEW v \in Uploads,
                 phase'[v] = "manifest" \/ step'[v][Manifest] # "waiting"
          PROVE  Complete(tree'[v])
        <3>1. v # u
            BY <2>1, <1>1, <1>5 DEF Names
        <3> QED BY <2>1, <3>1, <1>1 DEF IInv, ManifestsSentAreComplete
    <2> QED BY <2>1, <1>2, <1>3 DEF ManifestsSentAreComplete, Complete
<1>8. ManifestIsLast'
    BY <1>2 DEF IInv, ManifestIsLast, Complete
<1>9. ProgressInv'
    BY <1>1, <1>5 DEF IInv, ProgressInv, ObjectsIn
<1> QED BY <1>4, <1>6, <1>7, <1>8, <1>9 DEF IInv

LEMMA StutterKeepsIInv ==
    ASSUME IInv, UNCHANGED vars
    PROVE  IInv'
BY DEF vars, IInv, TypeOK, VerifiedStays, ManifestsSentAreComplete,
       ManifestIsLast, ProgressInv, Complete, ObjectsIn, Expected

-----------------------------------------------------------------------------

LEMMA NextKeepsIInv == IInv /\ [Next]_vars => IInv'
<1> SUFFICES ASSUME IInv, [Next]_vars PROVE IInv'
    OBVIOUS
<1>1. ASSUME NEW u \in Uploads, NEW t \in Trees, Start(u, t) PROVE IInv'
    BY <1>1, StartKeepsIInv
<1>2. ASSUME NEW u \in Uploads, ClientStep(u) PROVE IInv'
    BY <1>2, AttemptKeepsIInv, ObjectsEndKeepsIInv, ManifestEndsKeepsIInv DEF ClientStep
<1>3. ASSUME NEW u \in Uploads, NEW k \in Names, Answer(u, k) PROVE IInv'
    BY <1>3, AnswerKeepsIInv
<1>4. ASSUME NEW u \in Uploads, NEW k \in Names, Ends(u, k) PROVE IInv'
    BY <1>4, VerifyKeepsIInv, AttemptFailsKeepsIInv DEF Ends
<1>5. ASSUME NEW u \in Uploads, Cancel(u) PROVE IInv'
    BY <1>5, CancelKeepsIInv
<1>6. ASSUME NEW u \in Uploads, Crash(u) PROVE IInv'
    BY <1>6, CrashKeepsIInv
<1>7. ASSUME NEW k \in Objects, NEW x \in Contents, LateArrives(k, x) PROVE IInv'
    BY <1>7, LateArrivesKeepsIInv, UploadAssumption DEF Names
<1>8. ASSUME NEW k \in Objects, NEW x \in Contents, ForeignPut(k, x) PROVE IInv'
    BY <1>8, ForeignPutKeepsIInv
<1>9. ASSUME NEW t \in Trees, LateArrives(Manifest, t) PROVE IInv'
    BY <1>9, LateArrivesKeepsIInv DEF Names
<1>10. CASE UNCHANGED vars
    BY <1>10, StutterKeepsIInv
<1> QED
    BY <1>1, <1>2, <1>3, <1>4, <1>5, <1>6, <1>7, <1>8, <1>9, <1>10 DEF Next

\* The inductive invariant of the upload holds for any number of uploads,
\* trees, objects, attempts and any concurrency.
THEOREM IInvHolds == Spec => []IInv
<1>1. Init => IInv
    BY InitIInv
<1>2. IInv /\ [Next]_vars => IInv'
    BY NextKeepsIInv
<1> QED BY <1>1, <1>2, PTL DEF Spec

\* The variables keep their types: in particular an object is attempted at most
\* Attempts times in a run (upload.rs:366).
THEOREM TypeCorrect == Spec => []TypeOK
<1>1. IInv => TypeOK
    BY DEF IInv
<1> QED BY <1>1, IInvHolds, PTL

\* Whoever reads a manifest from the bucket finds every object it lists, with
\* the listed content (upload.rs:338).
THEOREM ManifestAlwaysLast == Spec => []ManifestIsLast
<1>1. IInv => ManifestIsLast
    BY DEF IInv
<1> QED BY <1>1, IInvHolds, PTL

\* A reported success stays true: the manifest of the tree and all its objects
\* are in the bucket (upload.rs:342-357).
THEOREM SuccessAlwaysPublished == Spec => []SuccessIsPublished
<1>1. IInv => SuccessIsPublished
    <2> SUFFICES ASSUME IInv, NEW u \in Uploads, phase[u] = "succeeded"
                 PROVE  remote[Manifest] = tree[u] /\ Complete(tree[u])
        BY DEF SuccessIsPublished
    <2>1. step[u][Manifest] = "verified"
        BY DEF IInv, ProgressInv
    <2>2. remote[Manifest] = tree[u]
        BY <2>1 DEF IInv, VerifiedStays, Expected, Names
    <2>3. Complete(tree[u])
        BY <2>1 DEF IInv, ManifestsSentAreComplete
    <2> QED BY <2>2, <2>3
<1> QED BY <1>1, IInvHolds, PTL

-----------------------------------------------------------------------------
(* TreeObjects and the preflight.                                              *)

LEMMA WantedFacts ==
    ASSUME NEW es \in SUBSET Exports
    PROVE  /\ Wanted(es) \subseteq TreeObjects
           /\ \A o \in Wanted(es) : o.export \in es
<1>1. \A o \in Wanted(es) : \E e \in es : o \in ObjectsOf(e)  BY DEF Wanted
<1>2. \A e \in es : \A o \in ObjectsOf(e) : o.export = e  BY DEF ObjectsOf
<1>3. QED  BY <1>1, <1>2 DEF Wanted, TreeObjects

LEMMA ObjectFacts ==
    \A o \in TreeObjects : o.name \in FileNames /\ o.content # None
<1> SUFFICES ASSUME NEW e \in Exports, NEW o \in ObjectsOf(e)
             PROVE  o.name \in FileNames /\ o.content # None
  BY DEF TreeObjects, Wanted
<1>1. PICK f \in Files[e] :
        o = [name |-> f.name, artifact |-> f.artifact, content |-> f.content, export |-> e]
  BY DEF ObjectsOf
<1>2. QED  BY TreeAssumption, <1>1 DEF FileNames

\* No two objects of the index share a name, whatever its case, and no two of
\* its exports an asset key.
Distinct(i) ==
    /\ \A o, p \in i.objects : Fold[o.name] = Fold[p.name] => o = p
    /\ \A d, e \in Indexed(i) : Key[d] = Key[e] => d = e

LEMMA TrueIndex ==
    /\ IndexIsTrue <=> /\ \A o \in index.objects : Holds(o)
                       /\ uploadPlan.objects \subseteq index.objects
                       /\ Distinct(index)
    /\ IndexIsTrue' <=> /\ \A o \in index'.objects : Holds(o)'
                        /\ uploadPlan'.objects \subseteq index'.objects
                        /\ Distinct(index')
BY DEF IndexIsTrue, Distinct

\* An index that grows by what the preflight has seen passes it again.
LEMMA GrownIndexIsAcceptable ==
    ASSUME NEW es \in SUBSET Exports, NEW i, NEW j,
           Acceptable(es, i), Distinct(i),
           i.objects \subseteq j.objects,
           j.objects \subseteq i.objects \cup Wanted(es),
           i.empty \subseteq j.empty, j.empty \subseteq i.empty \cup es,
           \A o \in j.objects : Holds(o)
    PROVE  Acceptable(es, j) /\ Distinct(j)
<1>1. Indexed(j) \subseteq Indexed(i) \cup es
  BY WantedFacts DEF Indexed
<1>2. OneExportPerKey(es, j)
  BY <1>1 DEF Acceptable, OneExportPerKey
<1>3. DirectoriesDiffer(es, j)
  <2> DEFINE D(k) == es \cup {o.export : o \in k.objects}
  <2>1. D(j) \subseteq D(i)  BY WantedFacts
  <2>2. {Key[e] : e \in D(j)} \subseteq {Key[e] : e \in D(i)}  BY <2>1
  <2> HIDE DEF D
  <2>3. \A k, l \in {Key[e] : e \in D(i)} : FoldKey[k] = FoldKey[l] => k = l
    BY DEF Acceptable, DirectoriesDiffer, D
  <2>4. \A k, l \in {Key[e] : e \in D(j)} : FoldKey[k] = FoldKey[l] => k = l
    BY <2>2, <2>3
  <2>5. QED  BY <2>4 DEF DirectoriesDiffer, D
<1>4. NamesDiffer(es, j)  BY DEF Acceptable, NamesDiffer
<1>5. \A o \in Wanted(es) \ j.objects : Placeable(o)  BY DEF Acceptable
<1>6. Distinct(j)
  <2>1. \A o, p \in j.objects : Fold[o.name] = Fold[p.name] => o = p
    <3> SUFFICES ASSUME NEW o \in j.objects, NEW p \in j.objects,
                        Fold[o.name] = Fold[p.name]
                 PROVE  o = p
      OBVIOUS
    <3>1. CASE o \in i.objects /\ p \in i.objects  BY <3>1 DEF Distinct
    <3>2. CASE o \in Wanted(es)  BY <3>2 DEF Acceptable, NamesDiffer
    <3>3. CASE p \in Wanted(es)  BY <3>3 DEF Acceptable, NamesDiffer
    <3>4. QED  BY <3>1, <3>2, <3>3
  <2>2. \A d, e \in Indexed(j) : Key[d] = Key[e] => d = e
    BY <1>1 DEF Distinct, Acceptable, OneExportPerKey
  <2>3. QED  BY <2>1, <2>2 DEF Distinct
<1>7. QED  BY <1>2, <1>3, <1>4, <1>5, <1>6 DEF Acceptable

\* Placing an object of the selection changes no file and leaves everything
\* else of the selection placeable.
LEMMA PlacingKeeps ==
    ASSUME TreeTypeOK, NEW es \in SUBSET Exports, Acceptable(es, index),
           NEW o \in Wanted(es), Placeable(o),
           folder' = IF Holds(o) THEN folder ELSE Copied(o)
    PROVE  /\ folder' \in [FileNames -> {p.content : p \in TreeObjects} \cup {None}]
           /\ \A n \in FileNames : folder[n] # None => folder'[n] = folder[n]
           /\ Holds(o)'
           /\ \A p \in TreeObjects : Holds(p) => Holds(p)'
           /\ \A p \in Wanted(es) \ index.objects : Placeable(p)'
<1>1. o \in TreeObjects /\ o.name \in FileNames /\ o.content # None
  BY WantedFacts, ObjectFacts
<1>2. folder \in [FileNames -> {p.content : p \in TreeObjects} \cup {None}]
  BY DEF TreeTypeOK
<1>3. folder' \in [FileNames -> {p.content : p \in TreeObjects} \cup {None}]
  BY <1>1, <1>2 DEF Copied
<1>4. /\ folder'[o.name] = o.content
      /\ \A n \in FileNames \ {o.name} : folder'[n] = folder[n]
  BY <1>1, <1>2 DEF Copied, Holds
<1>5. \A n \in FileNames : folder[n] # None => folder'[n] = folder[n]
  BY <1>4 DEF Placeable, Holds
<1>6. \A p \in TreeObjects : Holds(p) => Holds(p)'
  BY <1>5, ObjectFacts DEF Holds
<1>7. \A p \in Wanted(es) \ index.objects : Placeable(p)'
  <2> SUFFICES ASSUME NEW p \in Wanted(es) \ index.objects  PROVE Placeable(p)'
    OBVIOUS
  <2>1. Placeable(p) /\ p \in TreeObjects /\ p.name \in FileNames
    BY WantedFacts, ObjectFacts DEF Acceptable
  <2>2. CASE p.name = o.name
    <3>1. p = o  BY <2>2 DEF Acceptable, NamesDiffer
    <3>2. QED  BY <3>1, <1>4 DEF Placeable, Holds
  <2>3. CASE p.name # o.name
    BY <1>4, <2>1, <2>3 DEF Placeable, Holds
  <2>4. QED  BY <2>2, <2>3
<1>8. QED  BY <1>3, <1>4, <1>5, <1>6, <1>7 DEF Holds

-----------------------------------------------------------------------------
(* ExportTree: the steps of a run.                                         *)

\* The part of the invariant that is not about runs, when tree and index stay.
TreeInv ==
    /\ folder \in [FileNames -> {o.content : o \in TreeObjects} \cup {None}]
    /\ index \in Indices /\ uploadPlan \in Indices
    /\ resumable \subseteq Exports
    /\ AcceptInv /\ IndexIsTrue

LEMMA TreeInvStays ==
    ASSUME TreeIInv, UNCHANGED <<folderVars, resumable>>
    PROVE  TreeInv'
BY DEF TreeIInv, TreeTypeOK, TreeInv, folderVars, AcceptInv, IndexIsTrue, Acceptable,
   OneExportPerKey, DirectoriesDiffer, NamesDiffer, Placeable, Holds, Indexed,
   Wanted, ObjectsOf

RunTypes ==
    /\ published \subseteq Exports
    /\ lock \in Runs \cup {None}
    /\ stage \in [Runs -> {"unused", "preflight", "place", "record", "plan", "ended"}]
    /\ chosen \in [Runs -> SUBSET Exports]
    /\ todo \in [Runs -> SUBSET TreeObjects]
    /\ placing \in [Runs -> TreeObjects \cup {None}]
    /\ mine \in [Runs -> Indices]
    /\ outcome \in [Runs -> {"none", "ok", "refused", "stopped"}]

LEMMA Halves ==
    /\ TreeIInv <=> TreeInv /\ RunTypes /\ LockInv /\ RunInv /\ SuccessIsComplete
    /\ TreeIInv' <=> TreeInv' /\ RunTypes' /\ LockInv' /\ RunInv' /\ SuccessIsComplete'
BY DEF TreeIInv, TreeTypeOK, TreeInv, RunTypes

\* Only the run that holds the lock is at work.
LEMMA OthersRest ==
    ASSUME TreeIInv, NEW r \in Runs, lock \in {r, None}
    PROVE  \A q \in Runs \ {r} : stage[q] \in {"unused", "ended"}
<1>1. \A q \in Runs \ {r} : lock # q  BY TreeAssumption
<1>2. QED  BY <1>1 DEF TreeIInv, TreeTypeOK, LockInv, Writing

LEMMA BeginKeeps ==
    ASSUME TreeIInv, NEW r \in Runs, NEW s \in Selections, Begin(r, s),
           published' = published
    PROVE  TreeIInv'
<1> USE DEF TreeIInv
<1>1. /\ stage[r] = "unused" /\ lock = None /\ lock' = r
      /\ stage' = [stage EXCEPT ![r] = "preflight"]
      /\ mine' = [mine EXCEPT ![r] = index]
      /\ chosen' = [chosen EXCEPT ![r] = published \cap s]
      /\ UNCHANGED <<folder, index, uploadPlan, todo, placing, outcome, resumable>>
  BY DEF Begin, Advance, folderVars
<1>2. TreeInv'  BY <1>1, TreeInvStays DEF folderVars
<1>3. RunTypes'
  <2>1. published \cap s \in SUBSET Exports /\ index \in Indices  BY DEF TreeTypeOK
  <2>2. QED  BY <1>1, <2>1 DEF TreeTypeOK, RunTypes
<1>4. /\ \A q \in Runs \ {r} : /\ stage[q] \in {"unused", "ended"} /\ stage'[q] = stage[q]
                               /\ mine'[q] = mine[q] /\ chosen'[q] = chosen[q]
      /\ stage'[r] = "preflight" /\ mine'[r] = index
  BY <1>1, OthersRest DEF TreeTypeOK
<1>5. LockInv'
  BY TreeAssumption, <1>1, <1>4 DEF LockInv, Writing
<1>6. RunInv'
  BY <1>1, <1>4 DEF RunInv, Writing
<1>7. SuccessIsComplete'
  <2>1. outcome[r] # "ok"  BY <1>1 DEF LockInv
  <2>2. QED  BY <1>1, <1>4, <2>1 DEF SuccessIsComplete, Wanted, ObjectsOf
<1>8. QED  BY <1>2, <1>3, <1>5, <1>6, <1>7, Halves

\* A run that ends gives the lock back and leaves the rest as it is.
LEMMA EndKeeps ==
    ASSUME TreeIInv, NEW r \in Runs, NEW how \in {"ok", "refused", "stopped"},
           End(r, how), lock = r, TreeInv',
           how = "ok" => /\ Wanted(chosen[r]) \subseteq index.objects
                         /\ EmptyOnes(chosen[r]) \subseteq index.empty,
           UNCHANGED <<published, index, chosen, todo, placing, mine, resumable>>
    PROVE  TreeIInv'
<1> USE DEF TreeIInv
<1>1. /\ stage' = [stage EXCEPT ![r] = "ended"] /\ outcome' = [outcome EXCEPT ![r] = how]
      /\ lock' = None
  BY DEF End, Advance
<1>2. RunTypes'  BY <1>1 DEF TreeTypeOK, RunTypes
<1>3. /\ \A q \in Runs \ {r} : /\ stage[q] \in {"unused", "ended"} /\ stage'[q] = stage[q]
                               /\ outcome'[q] = outcome[q]
      /\ stage'[r] = "ended" /\ outcome'[r] = how
  BY <1>1, OthersRest DEF TreeTypeOK
<1>4. LockInv'
  BY TreeAssumption, <1>1, <1>3 DEF LockInv, Writing
<1>5. RunInv'  BY <1>3 DEF RunInv, Writing
<1>6. SuccessIsComplete'
  BY <1>3 DEF SuccessIsComplete, EmptyOnes, Wanted, ObjectsOf
<1>7. QED  BY <1>2, <1>4, <1>5, <1>6, Halves

LEMMA StopKeeps ==
    ASSUME TreeIInv, NEW r \in Runs, Stop(r), published' = published
    PROVE  TreeIInv'
<1>1. lock = r  BY DEF Stop, TreeIInv, LockInv, Writing
<1>2. TreeInv'  BY TreeInvStays DEF Stop
<1>3. End(r, "stopped") /\ UNCHANGED <<index, chosen, todo, placing, mine, resumable>>
  BY DEF Stop, folderVars
<1>4. QED  BY <1>1, <1>2, <1>3, EndKeeps

\* For the steps of a run that goes on: the other runs rest.
LEMMA WorkKeeps ==
    ASSUME TreeIInv, NEW r \in Runs, lock = r, TreeInv', RunTypes',
           NEW next \in {"place", "record", "plan"}, Advance(r, next),
           index.objects \subseteq index'.objects, index.empty \subseteq index'.empty,
           chosen'[r] = resumable',
           mine'[r].objects = index'.objects,
           mine'[r].empty = index'.empty \cup EmptyOnes(chosen[r]),
           Unrecorded(r)' \subseteq Wanted(chosen[r]),
           Wanted(chosen[r]) \subseteq index'.objects \cup Unrecorded(r)',
           next = "record" => Holds(placing[r])',
           next = "plan" => mine'[r] = index' /\ todo'[r] = {},
           UNCHANGED <<lock, chosen, outcome>>
    PROVE  TreeIInv'
<1> USE DEF TreeIInv
<1>1. /\ \A q \in Runs \ {r} : stage[q] \in {"unused", "ended"} /\ stage'[q] = stage[q]
      /\ stage'[r] = next
  BY OthersRest DEF TreeTypeOK, Advance
<1>2. outcome[r] # "ok"
  BY DEF LockInv, Writing
<1>3. LockInv'
  BY TreeAssumption, <1>1, <1>2 DEF LockInv, Writing
<1>4. RunInv'
  <2>1. /\ Wanted(chosen[r])' = Wanted(chosen[r])
        /\ EmptyOnes(chosen[r])' = EmptyOnes(chosen[r])
    BY DEF Wanted, ObjectsOf, EmptyOnes
  <2> SUFFICES ASSUME NEW q \in Runs
               PROVE  /\ stage'[q] = "preflight" => mine'[q] = index'
                      /\ Writing(q)' =>
                           /\ chosen'[q] = resumable'
                           /\ mine'[q].objects = index'.objects
                           /\ mine'[q].empty = index'.empty \cup EmptyOnes(chosen[q])'
                           /\ Unrecorded(q)' \subseteq Wanted(chosen[q])'
                           /\ Wanted(chosen[q])' \subseteq index'.objects \cup Unrecorded(q)'
                      /\ stage'[q] = "record" => Holds(placing[q])'
                      /\ stage'[q] = "plan" => mine'[q] = index' /\ todo'[q] = {}
    BY DEF RunInv
  <2>2. CASE q # r  BY <1>1, <2>2 DEF Writing
  <2>3. CASE q = r  BY <1>1, <2>1, <2>3 DEF Unrecorded, Holds
  <2>4. QED  BY <2>2, <2>3
<1>5. SuccessIsComplete'
  <2>1. \A q \in Runs : Wanted(chosen[q])' = Wanted(chosen[q])
    BY DEF Wanted, ObjectsOf
  <2>2. QED  BY <2>1 DEF SuccessIsComplete
<1>6. QED  BY <1>3, <1>4, <1>5, Halves

LEMMA PreflightKeeps ==
    ASSUME TreeIInv, NEW r \in Runs, Preflight(r), published' = published
    PROVE  TreeIInv'
<1> USE DEF TreeIInv
<1>1. /\ stage[r] = "preflight" /\ UNCHANGED <<folder, index, uploadPlan, chosen, placing>>
  BY DEF Preflight, folderVars
<1>2. lock = r /\ mine[r] = index
  BY <1>1 DEF LockInv, RunInv
<1>3. CASE ~Acceptable(chosen[r], mine[r])
  <2>1. End(r, "refused") /\ UNCHANGED <<todo, mine, resumable>>
    BY <1>3 DEF Preflight
  <2>2. TreeInv'  BY <1>1, <2>1, TreeInvStays DEF folderVars
  <2>3. QED  BY <1>1, <1>2, <2>1, <2>2, EndKeeps
<1>4. CASE Acceptable(chosen[r], mine[r])
  <2>1. /\ Advance(r, "place")
        /\ todo' = [todo EXCEPT ![r] = Planned(chosen[r], mine[r])]
        /\ mine' = [mine EXCEPT ![r].empty = @ \cup {e \in chosen[r] : Files[e] = {}}]
        /\ resumable' = chosen[r]
        /\ UNCHANGED <<lock, outcome>>
    BY <1>4 DEF Preflight
  <2>2. chosen[r] \in SUBSET Exports /\ index \in Indices  BY DEF TreeTypeOK
  <2>3. TreeInv'
    <3>1. Acceptable(chosen[r], index)  BY <1>2, <1>4
    <3>2. AcceptInv'
      BY <1>1, <2>1, <3>1
         DEF AcceptInv, Acceptable, OneExportPerKey, DirectoriesDiffer, NamesDiffer,
             Placeable, Holds, Indexed, Wanted, ObjectsOf
    <3>3. IndexIsTrue'  BY <1>1 DEF IndexIsTrue, Holds, Indexed
    <3>4. QED  BY <1>1, <2>1, <2>2, <3>2, <3>3 DEF TreeTypeOK, TreeInv
  <2>4. /\ mine'[r].objects = index.objects
        /\ mine'[r].empty = index.empty \cup EmptyOnes(chosen[r])
        /\ mine' \in [Runs -> Indices]
    <3>1. mine' = [mine EXCEPT ![r] =
                     [index EXCEPT !.empty = @ \cup EmptyOnes(chosen[r])]]
      BY <1>2, <2>1 DEF EmptyOnes
    <3>2. EmptyOnes(chosen[r]) \subseteq Exports  BY <2>2 DEF EmptyOnes
    <3>3. [index EXCEPT !.empty = @ \cup EmptyOnes(chosen[r])]
            = [objects |-> index.objects, empty |-> index.empty \cup EmptyOnes(chosen[r])]
      BY <2>2 DEF Indices
    <3>4. [index EXCEPT !.empty = @ \cup EmptyOnes(chosen[r])] \in Indices
      BY <2>2, <3>2, <3>3 DEF Indices
    <3>5. mine \in [Runs -> Indices]  BY DEF TreeTypeOK
    <3>6. QED  BY <3>1, <3>3, <3>4, <3>5
  <2>5. todo'[r] = Wanted(chosen[r]) \ index.objects
    BY <1>2, <2>1 DEF TreeTypeOK, Planned
  <2>6. RunTypes'
    <3>1. Wanted(chosen[r]) \ index.objects \in SUBSET TreeObjects
      BY <2>2, WantedFacts
    <3>2. todo' \in [Runs -> SUBSET TreeObjects]
      BY <1>2, <2>1, <3>1 DEF TreeTypeOK, Planned
    <3>3. QED  BY <1>1, <2>1, <2>4, <3>2 DEF TreeTypeOK, RunTypes, Advance
  <2>7. stage'[r] = "place"  BY <2>1 DEF Advance, TreeTypeOK
  <2>8. Unrecorded(r)' = Wanted(chosen[r]) \ index.objects
    BY <2>5, <2>7 DEF Unrecorded
  <2>9. QED
    BY <1>1, <1>2, <2>1, <2>3, <2>4, <2>6, <2>8, WorkKeeps
<1>5. QED  BY <1>3, <1>4

LEMMA PlaceKeeps ==
    ASSUME TreeIInv, NEW r \in Runs, NEW o \in todo[r], Place(r, o),
           published' = published
    PROVE  TreeIInv' /\ \A n \in FileNames : folder[n] # None => folder'[n] = folder[n]
<1> USE DEF TreeIInv
<1>1. /\ stage[r] = "place"
      /\ UNCHANGED <<index, uploadPlan, chosen, mine, resumable>>
  BY DEF Place
<1>2. lock = r /\ Writing(r)
  BY <1>1 DEF LockInv, Writing
<1>3. CASE ~Placeable(o)
  <2>1. End(r, "refused") /\ UNCHANGED <<folder, placing, todo>>
    BY <1>3 DEF Place
  <2>2. TreeInv'  BY <1>1, <2>1, TreeInvStays DEF folderVars
  <2>3. QED  BY <1>1, <1>2, <2>1, <2>2, EndKeeps
<1>4. CASE Placeable(o)
  <2>1. /\ folder' = IF Holds(o) THEN folder ELSE Copied(o)
        /\ placing' = [placing EXCEPT ![r] = o]
        /\ todo' = [todo EXCEPT ![r] = @ \ {o}]
        /\ Advance(r, "record")
        /\ UNCHANGED <<lock, outcome>>
    BY <1>4 DEF Place
  <2>2. /\ chosen[r] = resumable /\ resumable \in SUBSET Exports
        /\ mine[r].objects = index.objects
        /\ mine[r].empty = index.empty \cup EmptyOnes(chosen[r])
        /\ todo[r] \subseteq Wanted(chosen[r])
        /\ Wanted(chosen[r]) \subseteq index.objects \cup todo[r]
    BY <1>1, <1>2 DEF RunInv, TreeTypeOK, Unrecorded
  <2>3. o \in Wanted(resumable) /\ Acceptable(resumable, index)
    BY <2>2 DEF AcceptInv
  <2>4. /\ folder' \in [FileNames -> {p.content : p \in TreeObjects} \cup {None}]
        /\ \A n \in FileNames : folder[n] # None => folder'[n] = folder[n]
        /\ Holds(o)'
        /\ \A p \in TreeObjects : Holds(p) => Holds(p)'
        /\ \A p \in Wanted(resumable) \ index.objects : Placeable(p)'
    BY <1>4, <2>1, <2>2, <2>3, PlacingKeeps
  <2>5. TreeInv'
    <3>1. index.objects \subseteq TreeObjects  BY DEF TreeTypeOK, Indices
    <3>2. IndexIsTrue'  BY <1>1, <2>4, <3>1, TrueIndex
    <3>3. \A p \in index.objects : Holds(p)'  BY <2>4, <3>1, TrueIndex
    <3>4. AcceptInv'
      BY <1>1, <2>3, <2>4, <3>3
         DEF AcceptInv, Acceptable, OneExportPerKey, DirectoriesDiffer, NamesDiffer,
             Wanted, ObjectsOf, Indexed
    <3>5. QED  BY <1>1, <2>4, <3>2, <3>4 DEF TreeTypeOK, TreeInv
  <2>6. /\ stage'[r] = "record" /\ placing'[r] = o /\ todo'[r] = todo[r] \ {o}
    BY <2>1 DEF TreeTypeOK, Advance
  <2>7. o \in TreeObjects  BY DEF TreeTypeOK
  <2>8. RunTypes'
    <3>1. placing' \in [Runs -> TreeObjects \cup {None}]
      BY <2>1, <2>7 DEF TreeTypeOK
    <3>2. todo' \in [Runs -> SUBSET TreeObjects]  BY <2>1 DEF TreeTypeOK
    <3>3. stage' \in [Runs -> {"unused", "preflight", "place", "record", "plan", "ended"}]
      BY <2>1 DEF TreeTypeOK, Advance
    <3>4. QED  BY <1>1, <2>1, <3>1, <3>2, <3>3 DEF TreeTypeOK, RunTypes
  <2>9. Unrecorded(r)' = todo[r]
    BY <2>6 DEF Unrecorded
  <2>10. Holds(placing[r])'  BY <2>4, <2>6 DEF Holds
  <2>11. TreeIInv'
    BY <1>1, <1>2, <2>1, <2>2, <2>5, <2>8, <2>9, <2>10, WorkKeeps
  <2>12. QED  BY <2>4, <2>11
<1>5. QED  BY <1>3, <1>4

LEMMA RecordKeeps ==
    ASSUME TreeIInv, NEW r \in Runs, Record(r), published' = published
    PROVE  TreeIInv' /\ index.objects \subseteq index'.objects
<1> USE DEF TreeIInv
<1> DEFINE o == placing[r]
<1>1. /\ stage[r] = "record"
      /\ mine' = [mine EXCEPT ![r].objects = @ \cup {o}]
      /\ index' = mine'[r]
      /\ Advance(r, "place")
      /\ UNCHANGED <<folder, uploadPlan, lock, chosen, todo, placing, outcome, resumable>>
  BY DEF Record
<1>2. /\ lock = r /\ Writing(r) /\ Holds(o)
  BY <1>1 DEF LockInv, RunInv, Writing
<1>3. /\ chosen[r] = resumable /\ resumable \in SUBSET Exports
      /\ mine[r].objects = index.objects
      /\ mine[r].empty = index.empty \cup EmptyOnes(chosen[r])
      /\ todo[r] \cup {o} \subseteq Wanted(chosen[r])
      /\ Wanted(chosen[r]) \subseteq index.objects \cup (todo[r] \cup {o})
  BY <1>1, <1>2 DEF RunInv, TreeTypeOK, Unrecorded
<1>4. mine[r] \in Indices /\ index \in Indices /\ o \in TreeObjects
  BY <1>3, WantedFacts DEF TreeTypeOK
<1> HIDE DEF o
<1>5. /\ mine'[r].objects = index.objects \cup {o}
      /\ mine'[r].empty = index.empty \cup EmptyOnes(chosen[r])
      /\ mine' \in [Runs -> Indices] /\ mine'[r] \in Indices
  <2>1. mine' = [mine EXCEPT ![r] = [mine[r] EXCEPT !.objects = @ \cup {o}]]
    BY <1>1
  <2>2. [mine[r] EXCEPT !.objects = @ \cup {o}]
          = [objects |-> mine[r].objects \cup {o}, empty |-> mine[r].empty]
    BY <1>4 DEF Indices
  <2>3. [mine[r] EXCEPT !.objects = @ \cup {o}] \in Indices
    BY <1>4, <2>2 DEF Indices
  <2>4. mine \in [Runs -> Indices]  BY DEF TreeTypeOK
  <2>5. QED  BY <1>3, <2>1, <2>2, <2>3, <2>4
<1>6. /\ index'.objects = index.objects \cup {o}
      /\ index'.empty = index.empty \cup EmptyOnes(chosen[r])
      /\ index' \in Indices
  BY <1>1, <1>5
<1>7. TreeInv'
  <2>1. EmptyOnes(chosen[r]) \subseteq resumable  BY <1>3 DEF EmptyOnes
  <2>2. \A p \in index'.objects : Holds(p)
    BY <1>2, <1>6, TrueIndex DEF o
  <2>3. Acceptable(resumable, index) /\ Distinct(index)
    BY TrueIndex DEF AcceptInv
  <2>4. Acceptable(resumable, index') /\ Distinct(index')
    BY <1>3, <1>6, <2>1, <2>2, <2>3, GrownIndexIsAcceptable
  <2>5. AcceptInv'
    BY <1>1, <2>4
       DEF AcceptInv, Acceptable, OneExportPerKey, DirectoriesDiffer, NamesDiffer,
           Placeable, Holds, Indexed, Wanted, ObjectsOf
  <2>6. \A p \in index'.objects : Holds(p)'  BY <1>1, <2>2 DEF Holds
  <2>7. uploadPlan'.objects \subseteq index'.objects
    BY <1>1, <1>6, TrueIndex
  <2>8. IndexIsTrue'  BY <2>4, <2>6, <2>7, TrueIndex
  <2>9. QED  BY <1>1, <1>3, <1>6, <2>5, <2>8 DEF TreeTypeOK, TreeInv
<1>8. RunTypes'  BY <1>1, <1>5 DEF TreeTypeOK, RunTypes, Advance
<1>9. stage'[r] = "place"  BY <1>1 DEF Advance, TreeTypeOK
<1>10. Unrecorded(r)' = todo[r]  BY <1>1, <1>9 DEF Unrecorded
<1>11. TreeIInv'
  <2>1. /\ mine'[r].objects = index'.objects
        /\ mine'[r].empty = index'.empty \cup EmptyOnes(chosen[r])
    BY <1>5, <1>6
  <2>2. Unrecorded(r)' \subseteq Wanted(chosen[r])  BY <1>3, <1>10
  <2>3. Wanted(chosen[r]) \subseteq index'.objects \cup Unrecorded(r)'
    BY <1>3, <1>6, <1>10
  <2>4. chosen'[r] = resumable'  BY <1>1, <1>3
  <2>5. QED
    BY <1>1, <1>2, <1>6, <1>7, <1>8, <2>1, <2>2, <2>3, <2>4, WorkKeeps
<1>12. QED  BY <1>6, <1>11

LEMMA WriteIndexKeeps ==
    ASSUME TreeIInv, NEW r \in Runs, WriteIndex(r), published' = published
    PROVE  TreeIInv' /\ index.objects \subseteq index'.objects
<1> USE DEF TreeIInv
<1>1. /\ stage[r] = "place" /\ todo[r] = {} /\ index' = mine[r]
      /\ Advance(r, "plan")
      /\ UNCHANGED <<folder, uploadPlan, lock, chosen, todo, placing, mine, outcome, resumable>>
  BY DEF WriteIndex
<1>2. lock = r /\ Writing(r)
  BY <1>1 DEF LockInv, Writing
<1>3. /\ chosen[r] = resumable /\ resumable \in SUBSET Exports
      /\ mine[r].objects = index.objects
      /\ mine[r].empty = index.empty \cup EmptyOnes(chosen[r])
      /\ Wanted(chosen[r]) \subseteq index.objects
  BY <1>1, <1>2 DEF RunInv, TreeTypeOK, Unrecorded
<1>4. /\ index'.objects = index.objects
      /\ index'.empty = index.empty \cup EmptyOnes(chosen[r])
      /\ index' \in Indices
  BY <1>1, <1>3 DEF TreeTypeOK
<1>5. TreeInv'
  <2>1. EmptyOnes(chosen[r]) \subseteq resumable  BY <1>3 DEF EmptyOnes
  <2>2. \A p \in index'.objects : Holds(p)  BY <1>4, TrueIndex
  <2>3. Acceptable(resumable, index) /\ Distinct(index)
    BY TrueIndex DEF AcceptInv
  <2>4. Acceptable(resumable, index') /\ Distinct(index')
    BY <1>3, <1>4, <2>1, <2>2, <2>3, GrownIndexIsAcceptable
  <2>5. AcceptInv'
    BY <1>1, <2>4
       DEF AcceptInv, Acceptable, OneExportPerKey, DirectoriesDiffer, NamesDiffer,
           Placeable, Holds, Indexed, Wanted, ObjectsOf
  <2>6. \A p \in index'.objects : Holds(p)'  BY <1>1, <2>2 DEF Holds
  <2>7. uploadPlan'.objects \subseteq index'.objects
    BY <1>1, <1>4, TrueIndex
  <2>8. IndexIsTrue'  BY <2>4, <2>6, <2>7, TrueIndex
  <2>9. QED  BY <1>1, <1>3, <1>4, <2>5, <2>8 DEF TreeTypeOK, TreeInv
<1>6. RunTypes'  BY <1>1 DEF TreeTypeOK, RunTypes, Advance
<1>7. stage'[r] = "plan"  BY <1>1 DEF Advance, TreeTypeOK
<1>8. Unrecorded(r)' = {}  BY <1>1, <1>7 DEF Unrecorded
<1>9. TreeIInv'
  <2>1. /\ mine'[r].objects = index'.objects
        /\ mine'[r].empty = index'.empty \cup EmptyOnes(chosen[r])
    BY <1>1, <1>3, <1>4
  <2>2. Unrecorded(r)' \subseteq Wanted(chosen[r])  BY <1>8
  <2>3. Wanted(chosen[r]) \subseteq index'.objects \cup Unrecorded(r)'
    BY <1>3, <1>4, <1>8
  <2>4. chosen'[r] = resumable' /\ mine'[r] = index' /\ todo'[r] = {}
    BY <1>1, <1>3
  <2>5. QED
    BY <1>1, <1>2, <1>4, <1>5, <1>6, <2>1, <2>2, <2>3, <2>4, WorkKeeps
<1>10. QED  BY <1>4, <1>9

LEMMA WriteUploadPlanKeeps ==
    ASSUME TreeIInv, NEW r \in Runs, WriteUploadPlan(r), published' = published
    PROVE  TreeIInv'
<1> USE DEF TreeIInv
<1>1. /\ stage[r] = "plan" /\ uploadPlan' = mine[r] /\ End(r, "ok")
      /\ UNCHANGED <<folder, index, chosen, todo, placing, mine, resumable>>
  BY DEF WriteUploadPlan
<1>2. /\ lock = r /\ Writing(r) /\ mine[r] = index /\ todo[r] = {}
  BY <1>1 DEF LockInv, RunInv, Writing
<1>3. /\ Wanted(chosen[r]) \subseteq index.objects
      /\ EmptyOnes(chosen[r]) \subseteq index.empty
  <2>1. Unrecorded(r) = {}  BY <1>1, <1>2 DEF Unrecorded
  <2>2. /\ mine[r].empty = index.empty \cup EmptyOnes(chosen[r])
        /\ Wanted(chosen[r]) \subseteq index.objects \cup Unrecorded(r)
    BY <1>2 DEF RunInv
  <2>3. QED  BY <1>2, <2>1, <2>2
<1>4. TreeInv'
  <2>1. AcceptInv'
    BY <1>1 DEF AcceptInv, Acceptable, OneExportPerKey, DirectoriesDiffer, NamesDiffer,
           Placeable, Holds, Indexed, Wanted, ObjectsOf
  <2>2. IndexIsTrue'  BY <1>1, <1>2 DEF IndexIsTrue, Holds, Indexed
  <2>3. QED  BY <1>1, <1>2, <2>1, <2>2 DEF TreeTypeOK, TreeInv
<1>5. QED  BY <1>1, <1>2, <1>3, <1>4, EndKeeps

LEMMA PublishKeeps == ASSUME TreeIInv, NEW e \in Exports, Publish(e) PROVE TreeIInv'
<1>1. UNCHANGED <<folder, index, uploadPlan, lock, stage, chosen, todo, placing, mine,
                  outcome, resumable>>
  BY DEF Publish, folderVars, runVars
<1>2. TreeInv'  BY <1>1, TreeInvStays DEF folderVars
<1>3. RunTypes'  BY <1>1 DEF Publish, TreeIInv, TreeTypeOK, RunTypes
<1>4. LockInv' /\ RunInv'
  BY <1>1 DEF TreeIInv, LockInv, RunInv, Writing, Unrecorded, EmptyOnes,
         Holds, Wanted, ObjectsOf
<1>5. SuccessIsComplete'
  BY <1>1 DEF TreeIInv, SuccessIsComplete, Wanted, ObjectsOf
<1>6. QED  BY <1>2, <1>3, <1>4, <1>5, Halves

-----------------------------------------------------------------------------
(* ExportTree: the theorems.                                               *)

LEMMA TreeInitKeeps == TreeInit => TreeIInv
<1> SUFFICES ASSUME TreeInit PROVE TreeIInv  OBVIOUS
<1> USE DEF TreeInit, EmptyIndex
<1>1. index \in Indices  BY DEF Indices
<1>2. TreeTypeOK  BY <1>1 DEF TreeTypeOK
<1>3. LockInv  BY TreeAssumption DEF LockInv, Writing
<1>4. RunInv  BY DEF RunInv, Writing
<1>5. AcceptInv
  BY DEF AcceptInv, Acceptable, OneExportPerKey, DirectoriesDiffer,
         NamesDiffer, Wanted
<1>6. IndexIsTrue  BY DEF IndexIsTrue, Indexed
<1>7. SuccessIsComplete  BY DEF SuccessIsComplete
<1>8. QED  BY <1>2, <1>3, <1>4, <1>5, <1>6, <1>7 DEF TreeIInv

\* Each step keeps the invariant, the files and the objects of the index.
StableStep ==
    /\ \A n \in FileNames : folder[n] # None => folder'[n] = folder[n]
    /\ index.objects \subseteq index'.objects

LEMMA TreeNextKeeps == TreeIInv /\ [TreeNext]_treeVars => TreeIInv' /\ StableStep
<1> SUFFICES ASSUME TreeIInv, [TreeNext]_treeVars PROVE TreeIInv' /\ StableStep  OBVIOUS
<1> USE DEF StableStep
<1>1. CASE \E e \in Exports : Publish(e)
  BY <1>1, PublishKeeps DEF Publish, folderVars
<1>2. ASSUME NEW r \in Runs, published' = published,
             \/ \E s \in Selections : Begin(r, s)
             \/ Preflight(r)
             \/ \E o \in todo[r] : Place(r, o)
             \/ Record(r) \/ WriteIndex(r) \/ WriteUploadPlan(r) \/ Stop(r)
      PROVE  TreeIInv' /\ StableStep
  <2>1. CASE \E s \in Selections : Begin(r, s)
    BY <1>2, <2>1, BeginKeeps DEF Begin, folderVars
  <2>2. CASE Preflight(r)  BY <1>2, <2>2, PreflightKeeps DEF Preflight, folderVars
  <2>3. CASE \E o \in todo[r] : Place(r, o)  BY <1>2, <2>3, PlaceKeeps DEF Place
  <2>4. CASE Record(r)  BY <1>2, <2>4, RecordKeeps DEF Record
  <2>5. CASE WriteIndex(r)  BY <1>2, <2>5, WriteIndexKeeps DEF WriteIndex
  <2>6. CASE WriteUploadPlan(r)
    BY <1>2, <2>6, WriteUploadPlanKeeps DEF WriteUploadPlan
  <2>7. CASE Stop(r)  BY <1>2, <2>7, StopKeeps DEF Stop, folderVars
  <2>8. QED  BY <1>2, <2>1, <2>2, <2>3, <2>4, <2>5, <2>6, <2>7
<1>3. CASE UNCHANGED treeVars
  <2>1. UNCHANGED <<published, folder, index, uploadPlan, lock, stage, chosen, todo, placing,
                    mine, outcome, resumable>>
    BY <1>3 DEF treeVars, folderVars, runVars
  <2>2. TreeInv'  BY <2>1, TreeInvStays DEF folderVars
  <2>3. RunTypes'  BY <2>1 DEF TreeIInv, TreeTypeOK, RunTypes
  <2>4. LockInv' /\ RunInv'
    BY <2>1 DEF TreeIInv, LockInv, RunInv, Writing, Unrecorded, EmptyOnes,
         Holds, Wanted, ObjectsOf
  <2>5. SuccessIsComplete'
    BY <2>1 DEF TreeIInv, SuccessIsComplete, Wanted, ObjectsOf
  <2>6. QED  BY <2>1, <2>2, <2>3, <2>4, <2>5, Halves
<1>4. QED  BY <1>1, <1>2, <1>3 DEF TreeNext

\* The inductive invariant, for any runs of any selections.
THEOREM TreeIInvHolds == TreeSpec => []TreeIInv
BY TreeInitKeeps, TreeNextKeeps, PTL DEF TreeSpec

\* The variables keep their types.
THEOREM TreeTypeCorrect == TreeSpec => []TreeTypeOK
<1>1. TreeIInv => TreeTypeOK  BY DEF TreeIInv
<1>2. QED  BY <1>1, TreeIInvHolds, PTL

\* At every write of export_profile, and wherever a run is cut short, what
\* _meta/manifest.json lists is in the tree with its content, without a clash of
\* names or keys, and the upload plan lists nothing else.
THEOREM IndexAlwaysTrue == TreeSpec => []IndexIsTrue
<1>1. TreeIInv => IndexIsTrue  BY DEF TreeIInv
<1>2. QED  BY <1>1, TreeIInvHolds, PTL

\* A run that returns without an error has indexed all it selected.
THEOREM SuccessAlwaysComplete == TreeSpec => []SuccessIsComplete
<1>1. TreeIInv => SuccessIsComplete  BY DEF TreeIInv
<1>2. QED  BY <1>1, TreeIInvHolds, PTL

\* The preflight of export_profile accepts the selection of a run that was cut
\* short again, whatever it had placed.
THEOREM RerunAlwaysAccepted == TreeSpec => []RerunIsAccepted
<1>1. TreeIInv => RerunIsAccepted  BY DEF TreeIInv, AcceptInv, RerunIsAccepted
<1>2. QED  BY <1>1, TreeIInvHolds, PTL

\* No step changes or removes a file of the tree or an object of the index.
THEOREM NamesAlwaysStable == TreeSpec => NamesAreStable
<1>1. TreeIInv /\ [TreeNext]_treeVars =>
        [/\ \A n \in FileNames : folder[n] # None => folder'[n] = folder[n]
         /\ index.objects \subseteq index'.objects]_treeVars
  BY TreeNextKeeps DEF StableStep
<1>2. QED  BY <1>1, TreeIInvHolds, PTL DEF TreeSpec, NamesAreStable

=============================================================================
