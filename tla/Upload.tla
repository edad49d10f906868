-------------------------------- MODULE Upload --------------------------------
(***************************************************************************)
(* src/src/upload.rs: one-way publication of an exported tree to an S3     *)
(* bucket.  Objects are sent concurrently with conditional PUTs, each read *)
(* back in full; only when all are verified is the manifest of the tree    *)
(* sent the same way.  A PUT may be lost, refused or time out at the       *)
(* client and still arrive later; the client retries, may be cancelled or  *)
(* die, and is run again.  Several uploads, of copies of one tree or of    *)
(* different ones, may share the bucket; names are stable, so two trees    *)
(* may disagree on the content of one.                                     *)
(*                                                                         *)
(* The bucket is external: upload.rs relies on an endpoint that honours    *)
(* If-None-Match and reads its writes.  Bounds: MaxRuns starts in all.     *)
(***************************************************************************)
EXTENDS Naturals, FiniteSets

CONSTANTS
    Uploads,      \* processes running upload
    Trees,        \* exported trees; each is the content of its own manifest
    Objects,      \* object keys
    Contents,     \* contents of objects
    Index,        \* the object index of a tree: contents by object key
    Manifest,     \* the key _meta/manifest.json
    Absent,       \* no object in the bucket
    Concurrency,  \* config.concurrency
    Attempts,     \* 3 in the code
    MaxRuns

ASSUME UploadAssumption ==
    /\ Manifest \notin Objects
    /\ Absent \notin Contents \cup Trees
    /\ \A t \in Trees :
         /\ DOMAIN Index[t] \subseteq Objects
         /\ \A k \in DOMAIN Index[t] : Index[t][k] \in Contents
    /\ Concurrency \in Nat \ {0}
    /\ Attempts \in Nat \ {0}
    /\ MaxRuns \in Nat

VARIABLES
    remote,     \* the bucket
    late,       \* PUTs their sender no longer waits for: <<key, content>>
    phase,      \* what an upload is doing
    tree,       \* the tree it uploads, Absent before it has one
    step,       \* progress of upload_object for a key
    attempt,    \* number of its last attempt
    cancelled,  \* uploads that were interrupted by the operator
    runs        \* how often an upload was started

vars == <<remote, late, phase, tree, step, attempt, cancelled, runs>>

-----------------------------------------------------------------------------

Names == Objects \cup {Manifest}

Working == {"objects", "manifest"}
Requested == {"sent", "verifying"}

NothingDone == [k \in Names |-> "waiting"]
NothingTried == [k \in Names |-> 0]

Expected(t, k) == IF k = Manifest THEN t ELSE Index[t][k]

Init ==
    /\ remote = [k \in Names |-> Absent]
    /\ late = {}
    /\ phase = [u \in Uploads |-> "idle"]
    /\ tree = [u \in Uploads |-> Absent]
    /\ step = [u \in Uploads |-> NothingDone]
    /\ attempt = [u \in Uploads |-> NothingTried]
    /\ cancelled = {}
    /\ runs = 0

SetStep(u, k, s) == step' = [step EXCEPT ![u][k] = s]

-----------------------------------------------------------------------------
(* The bucket.                                                             *)

\* If-None-Match: *: the key is created, or the answer is 412.
Created(k, x) == [remote EXCEPT ![k] = IF @ = Absent THEN x ELSE @]

LateArrives(k, x) ==
    /\ <<k, x>> \in late
    /\ remote' = Created(k, x)
    /\ late' = late \ {<<k, x>>}
    /\ UNCHANGED <<phase, tree, step, attempt, cancelled, runs>>

\* Somebody else creates an object; manifests come from uploads alone.
ForeignPut(k, x) ==
    /\ remote[k] = Absent
    /\ remote' = Created(k, x)
    /\ UNCHANGED <<late, phase, tree, step, attempt, cancelled, runs>>

-----------------------------------------------------------------------------
(* upload_object.                                                          *)

\* buffer_unordered(concurrency) has room, or the manifest is next.
HasTurn(u, k) ==
    \/ /\ phase[u] = "objects"
       /\ k \in DOMAIN Index[tree[u]]
       /\ step[u][k] = "waiting" =>
            Cardinality({j \in Objects : step[u][j] \in Requested \cup {"backoff"}})
                < Concurrency
    \/ phase[u] = "manifest" /\ k = Manifest

SameAttempt(n) == n  \* broken: the loop does not count
NextAttempt(n) == n + 1

\* An attempt of a cancelled upload, or its backoff, ends before a request.
Attempt(u, k) ==
    /\ HasTurn(u, k)
    /\ step[u][k] \in {"waiting", "backoff"}
    /\ IF u \in cancelled
       THEN SetStep(u, k, "failed") /\ UNCHANGED attempt
       ELSE /\ SetStep(u, k, "sent")
            /\ attempt' = [attempt EXCEPT ![u][k] = NextAttempt(@)]
    /\ UNCHANGED <<remote, late, phase, tree, cancelled, runs>>

\* The endpoint answers 2xx or 412; either way the object is read back.
Answer(u, k) ==
    /\ step[u][k] = "sent"
    /\ remote' = Created(k, Expected(tree[u], k))
    /\ SetStep(u, k, "verifying")
    /\ UNCHANGED <<late, phase, tree, attempt, cancelled, runs>>

\* verify: bytes and digest of a complete GET.
AnyContent(u, k) == TRUE  \* broken: a 412 is taken for success
Matches(u, k) == remote[k] = Expected(tree[u], k)

\* Without its line in the journal a verified object counts as failed.
Verify(u, k) ==
    /\ step[u][k] = "verifying"
    /\ Matches(u, k)
    /\ SetStep(u, k, "verified") \/ SetStep(u, k, "failed")
    /\ UNCHANGED <<remote, late, phase, tree, attempt, cancelled, runs>>

\* A PUT that was given up may arrive later; a refused one just never does.
GivenUp(u, K) ==
    late \cup {<<k, Expected(tree[u], k)>> : k \in {j \in K : step[u][j] = "sent"}}

\* The request, its status, the GET, the comparison or the journal failed, a
\* deadline passed, or the upload was cancelled.
AttemptFails(u, k) ==
    /\ step[u][k] \in Requested
    /\ late' = GivenUp(u, {k})
    /\ \/ SetStep(u, k, "failed")
       \/ /\ attempt[u][k] < Attempts /\ u \notin cancelled
          /\ SetStep(u, k, "backoff")
    /\ UNCHANGED <<remote, phase, tree, attempt, cancelled, runs>>

-----------------------------------------------------------------------------
(* upload.                                                                 *)

\* The local tree was locked and verified against its index.
Start(u, t) ==
    /\ phase[u] \notin Working
    /\ runs < MaxRuns
    /\ runs' = runs + 1
    /\ phase' = [phase EXCEPT ![u] = "objects"]
    /\ tree' = [tree EXCEPT ![u] = t]
    /\ step' = [step EXCEPT ![u] = NothingDone]
    /\ attempt' = [attempt EXCEPT ![u] = NothingTried]
    /\ cancelled' = cancelled \ {u}
    /\ UNCHANGED <<remote, late>>

ObjectsIn(u, steps) == \A k \in DOMAIN Index[tree[u]] : step[u][k] \in steps

IgnoreErrors(u) == TRUE  \* broken: the manifest follows in any case
NoErrors(u) == ObjectsIn(u, {"verified"})

\* One failed object does not stop the others; it stops the manifest.
ObjectsEnd(u) ==
    /\ phase[u] = "objects"
    /\ ObjectsIn(u, {"verified", "failed"})
    /\ phase' = [phase EXCEPT ![u] = IF NoErrors(u) THEN "manifest" ELSE "failed"]
    /\ UNCHANGED <<remote, late, tree, step, attempt, cancelled, runs>>

ManifestEnds(u) ==
    /\ phase[u] = "manifest"
    /\ step[u][Manifest] \in {"verified", "failed"}
    /\ phase' = [phase EXCEPT ![u] = IF step[u][Manifest] = "verified"
                                     THEN "succeeded" ELSE "failed"]
    /\ UNCHANGED <<remote, late, tree, step, attempt, cancelled, runs>>

\* Ctrl-C.
Cancel(u) ==
    /\ phase[u] \in Working /\ u \notin cancelled
    /\ cancelled' = cancelled \cup {u}
    /\ UNCHANGED <<remote, late, phase, tree, step, attempt, runs>>

\* The process dies; what it had sent may still arrive.
Crash(u) ==
    /\ phase[u] \in Working
    /\ late' = GivenUp(u, Names)
    /\ phase' = [phase EXCEPT ![u] = "idle"]
    /\ tree' = [tree EXCEPT ![u] = Absent]
    /\ step' = [step EXCEPT ![u] = NothingDone]
    /\ attempt' = [attempt EXCEPT ![u] = NothingTried]
    /\ UNCHANGED <<remote, cancelled, runs>>

-----------------------------------------------------------------------------

ClientStep(u) ==
    \/ \E k \in Names : Attempt(u, k)
    \/ ObjectsEnd(u)
    \/ ManifestEnds(u)

Ends(u, k) == Verify(u, k) \/ AttemptFails(u, k)

Next ==
    \/ \E u \in Uploads :
         \/ \E t \in Trees : Start(u, t)
         \/ ClientStep(u)
         \/ \E k \in Names : Answer(u, k) \/ Ends(u, k)
         \/ Cancel(u)
         \/ Crash(u)
    \/ \E k \in Objects, x \in Contents : LateArrives(k, x) \/ ForeignPut(k, x)
    \/ \E t \in Trees : LateArrives(Manifest, t)

Spec == Init /\ [][Next]_vars

\* The client is polled, and every request has a deadline (config
\* timeout_seconds); the bucket owes nothing.
FairSpec ==
    /\ Spec
    /\ \A u \in Uploads :
         /\ WF_vars(ClientStep(u))
         /\ \A k \in Names : WF_vars(Ends(u, k))

-----------------------------------------------------------------------------
(* Properties.                                                             *)

TypeOK ==
    /\ remote \in [Names -> Contents \cup Trees \cup {Absent}]
    /\ late \subseteq Names \X (Contents \cup Trees)
    /\ phase \in [Uploads -> {"idle", "failed", "succeeded"} \cup Working]
    /\ tree \in [Uploads -> Trees \cup {Absent}]
    /\ step \in [Uploads -> [Names -> {"waiting", "backoff", "verified", "failed"}
                                          \cup Requested]]
    /\ attempt \in [Uploads -> [Names -> 0..Attempts]]
    /\ cancelled \subseteq Uploads
    /\ runs \in 0..MaxRuns

Complete(t) == \A k \in DOMAIN Index[t] : remote[k] = Index[t][k]

\* "Only after every resource is verified is _meta/manifest.json conditionally
\* published" (docs/EXPORT.md:104): whoever reads a manifest from the bucket
\* finds all its objects there with the content it lists, whatever was lost,
\* late, retried, cancelled or sent by another upload.
ManifestIsLast ==
    \A t \in Trees : remote[Manifest] = t => Complete(t)

\* An upload that reports success has published exactly its tree, and later
\* uploads of other trees do not take it away.
SuccessIsPublished ==
    \A u \in Uploads : phase[u] = "succeeded" =>
        remote[Manifest] = tree[u] /\ Complete(tree[u])

\* The strengthening that a step preserves.

\* A verified object stays.
VerifiedStays ==
    \A u \in Uploads, k \in Names :
        step[u][k] = "verified" => remote[k] = Expected(tree[u], k)

\* Nobody sends a manifest, now or late, whose objects are not there.
ManifestsSentAreComplete ==
    /\ \A u \in Uploads :
         phase[u] = "manifest" \/ step[u][Manifest] # "waiting" => Complete(tree[u])
    /\ \A t \in Trees : <<Manifest, t>> \in late => Complete(t)

\* What phase, steps and attempts of an upload say of each other.
ProgressInv ==
    \A u \in Uploads :
        /\ tree[u] = Absent => phase[u] = "idle" /\ step[u] = NothingDone
        /\ phase[u] = "succeeded" => step[u][Manifest] = "verified"
        /\ phase[u] = "manifest" => ObjectsIn(u, {"verified"})
        /\ \A k \in Names :
             /\ step[u][k] # "waiting" => k \in DOMAIN Index[tree[u]] \cup {Manifest}
             /\ step[u][k] = "waiting" => attempt[u][k] = 0
             /\ step[u][k] = "backoff" => attempt[u][k] < Attempts

IInv ==
    /\ TypeOK
    /\ VerifiedStays
    /\ ManifestsSentAreComplete
    /\ ManifestIsLast
    /\ ProgressInv

\* An upload that nobody restarts ends, whatever the bucket does: attempts are
\* counted, requests time out, and a cancelled upload does not wait.
UploadEnds ==
    \A u \in Uploads : phase[u] \in Working ~> phase[u] \notin Working

=============================================================================
