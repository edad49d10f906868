---------------------------- MODULE ResourceLimits ----------------------------
(***************************************************************************)
(* src/src/service.rs: what exports compete for.  export_one collects its  *)
(* downloads, each shared with whoever wants the same location, then waits *)
(* for a video permit, then for a worker permit, and reserves the storage  *)
(* of its worker.  A download waits for a slot and reserves its size.  The *)
(* byte budget never blocks: it is an error to exceed it.  Everything is   *)
(* given back by destructors, a download only by the last who shares it.   *)
(*                                                                         *)
(* The sharing is that of SharedPromise: an operation nobody holds is      *)
(* cancelled and may still run beside a new one of its location.  Sizes    *)
(* stand for bytes; semaphores are the counts of who holds them.  The      *)
(* limits are those of any configuration that Config::validate accepts.    *)
(* Bound: an export runs once; the size of Ops bounds downloads at a time. *)
(***************************************************************************)
EXTENDS Naturals, Sequences, FiniteSets, FiniteSetsExt

CONSTANTS
    Exports,     \* executions of export_one, of different export ids
    Videos,      \* those of them whose input is a CRID stream
    Locations,   \* locations of one snapshot
    Needs,       \* the HTTP dependencies of an export, none for a font reference
    Size,        \* catalogue size of a location
    Encrypted,   \* locations of the encrypted provider, built-in bundles aside
    Masked,      \* leading bytes that encryption covers: 16384 in the code
    Ops,         \* download operations
    None,
    Configs,     \* configurations an operator may write
    LeastBudget, MostBudget  \* 1 MiB and 1 TiB in the code

ASSUME LimitsAssumption ==
    /\ IsFiniteSet(Exports) /\ IsFiniteSet(Locations) /\ IsFiniteSet(Ops)
    /\ Videos \subseteq Exports
    /\ Needs \in [Exports -> SUBSET Locations]
    /\ Size \in [Locations -> Nat]
    /\ Encrypted \subseteq Locations /\ Masked \in Nat
    /\ None \notin Locations
    /\ Configs \subseteq
         [downloads : Nat, workers : Nat, videos : Nat,
          input : Nat, output : Nat, expanded : Nat, temp : Nat]

VARIABLES
    pc,        \* control of an export
    location,  \* what an operation downloads
    phase,     \* progress of an operation
    holders,   \* exports that wait for it or lease its payload
    used,      \* Budget.used
    payload,   \* the file of an operation, as far as it is written
    config     \* Config, the same for the life of the process

vars == <<pc, location, phase, holders, used, payload, config>>

-----------------------------------------------------------------------------

\* Config::validate, as far as exports compete for what it limits.
InputForgotten(c) ==  \* broken: the payloads need no room beside the worker
    /\ c.downloads \in 1..64 /\ c.workers \in 1..16 /\ c.videos \in 1..16
    /\ c.output + c.expanded * 2 <= c.temp
Valid(c) ==
    /\ c.downloads \in 1..64 /\ c.workers \in 1..16 /\ c.videos \in 1..16
    /\ {c.temp, c.input, c.output, c.expanded} \subseteq LeastBudget..MostBudget
    /\ c.input + c.output + c.expanded * 2 <= c.temp

\* What a worker may write.
Storage == config.output + config.expanded * 2

Active == {"collecting", "video", "worker", "running"}

Init ==
    /\ pc = [e \in Exports |-> "idle"]
    /\ location = [o \in Ops |-> None]
    /\ phase = [o \in Ops |-> "none"]
    /\ holders = [o \in Ops |-> {}]
    /\ used = 0
    /\ payload = [o \in Ops |-> <<>>]
    /\ config \in {c \in Configs : Valid(c)}

Held(e) == {o \in Ops : e \in holders[o]}
Reserved(o) == IF phase[o] \in {"fetching", "ready"} THEN Size[location[o]] ELSE 0
ReservedBy(ops) == SumFunctionOnSet([o \in Ops |-> Reserved(o)], ops)

\* Budget::reserve
Fits(n) == used + n <= config.temp

Goto(e, point) == pc' = [pc EXCEPT ![e] = point]

\* The payloads that lose their last lease are removed with their reservation.
Unleased(e) == {o \in Held(e) : holders[o] = {e} /\ phase[o] = "ready"}
FreedBy(e) == ReservedBy(Unleased(e))

\* The future of an export is over: it drops its storage, permits and leases.
LastLease(e) == Unleased(e)

End(e, storage) ==
    /\ Goto(e, "ended")
    /\ holders' = [o \in Ops |-> holders[o] \ {e}]
    /\ phase' = [o \in Ops |-> IF o \in LastLease(e) THEN "none" ELSE phase[o]]
    /\ payload' = [o \in Ops |-> IF o \in LastLease(e) THEN <<>> ELSE payload[o]]
    /\ used' = used - (storage + FreedBy(e))

-----------------------------------------------------------------------------
(* export_one.                                                             *)

Begin(e) ==
    /\ pc[e] = "idle"
    /\ Goto(e, "collecting")
    /\ UNCHANGED <<location, phase, holders, used, payload, config>>

Unused == {o \in Ops : holders[o] = {} /\ phase[o] \in {"none", "failed"}}

\* buffer_unordered(downloads) polls the next join; it shares the operation of
\* its location that somebody holds, or starts one.
JoinDownload(e, l) ==
    /\ pc[e] = "collecting"
    /\ l \in Needs[e] /\ \A o \in Held(e) : location[o] # l
    /\ Cardinality({o \in Held(e) : phase[o] # "ready"}) < config.downloads
    /\ LET shared == {o \in Ops : location[o] = l /\ holders[o] # {}}
       IN  \/ \E o \in shared :
                /\ holders' = [holders EXCEPT ![o] = @ \cup {e}]
                /\ UNCHANGED <<location, phase>>
           \/ /\ shared = {}
              /\ Unused # {}
              /\ LET o == CHOOSE o \in Unused : TRUE  \* they are all alike
                 IN  /\ location' = [location EXCEPT ![o] = l]
                     /\ phase' = [phase EXCEPT ![o] = "slot"]
                     /\ holders' = [holders EXCEPT ![o] = {e}]
    /\ UNCHANGED <<pc, used, payload, config>>

\* try_collect: all payloads are there, or the first error drops the others.
Collected(e) ==
    /\ pc[e] = "collecting"
    /\ \A l \in Needs[e] : \E o \in Held(e) : location[o] = l /\ phase[o] = "ready"
    /\ Goto(e, IF e \in Videos THEN "video" ELSE "worker")
    /\ UNCHANGED <<location, phase, holders, used, payload, config>>

CollectFails(e) ==
    /\ pc[e] = "collecting"
    /\ \E o \in Held(e) : phase[o] = "failed"
    /\ End(e, 0)
    /\ UNCHANGED <<location, config>>

\* The video permit is kept while the export waits for a worker and runs.
VideoPermit(e) ==
    /\ pc[e] = "video"
    /\ Cardinality({d \in Videos : pc[d] \in {"worker", "running"}}) < config.videos
    /\ Goto(e, "worker")
    /\ UNCHANGED <<location, phase, holders, used, payload, config>>

WorkerFree == Cardinality({d \in Exports : pc[d] = "running"}) < config.workers

\* Broken: the reservation waits for room, with the payloads leased.
WaitForRoom(e) ==
    /\ pc[e] = "worker" /\ WorkerFree
    /\ Fits(Storage)
    /\ Goto(e, "running") /\ used' = used + Storage
    /\ UNCHANGED <<location, phase, holders, payload, config>>

\* A worker permit, and its storage or an error.
WorkerPermit(e) ==
    /\ pc[e] = "worker" /\ WorkerFree
    /\ \/ /\ Fits(Storage)
          /\ Goto(e, "running") /\ used' = used + Storage
          /\ UNCHANGED <<phase, holders, payload>>
       \/ /\ ~Fits(Storage)
          /\ End(e, 0)
    /\ UNCHANGED <<location, config>>

\* The worker ended, was killed or timed out; its output is published or not.
RunEnds(e) ==
    /\ pc[e] = "running"
    /\ End(e, Storage)
    /\ UNCHANGED <<location, config>>

\* The operation is cancelled, or a step of it fails: it stops where it waits.
Stops(e) ==
    /\ pc[e] \in Active
    /\ End(e, IF pc[e] = "running" THEN Storage ELSE 0)
    /\ UNCHANGED <<location, config>>

-----------------------------------------------------------------------------
(* The producer of a download.                                             *)

Fetching == Cardinality({o \in Ops : phase[o] = "fetching"})

Settle(o, p) == phase' = [phase EXCEPT ![o] = p]

\* A slot, and the reservation or an error; sizes over the limit are refused.
GetSlot(o) ==
    /\ phase[o] = "slot"
    /\ Fetching < config.downloads
    /\ LET size == Size[location[o]]
       IN  IF size \in 1..config.input /\ Fits(size)
           THEN Settle(o, "fetching") /\ used' = used + size
           ELSE Settle(o, "failed") /\ UNCHANGED used
    /\ UNCHANGED <<pc, location, holders, payload, config>>

\* Nobody holds it any more: it is cancelled while it waits.
AbandonSlot(o) ==
    /\ phase[o] = "slot" /\ holders[o] = {}
    /\ Settle(o, "failed")
    /\ UNCHANGED <<pc, location, holders, used, payload, config>>

\* A byte is its position and the positions of the keystream it was combined
\* with: exclusive or, so that the same one twice is none.
Byte(i, stream) == [position |-> i, keystream |-> stream]
Combined(byte, i) ==
    Byte(byte.position, SymDiff(byte.keystream, {i}))

\* What the CDN has at a location, and what the worker has to find.
Remote(l) == [i \in 1..Size[l] |-> Byte(i, IF l \in Encrypted /\ i <= Masked THEN {i} ELSE {})]
Plain(l) == [i \in 1..Size[l] |-> Byte(i, {})]

\* crypto::decrypt of a chunk whose first byte is at the given offset.
EachAsFirst(l, chunk, offset) ==  \* broken: the keystream starts anew
    IF l \notin Encrypted THEN chunk
    ELSE [i \in DOMAIN chunk |-> IF i <= Masked THEN Combined(chunk[i], i) ELSE chunk[i]]
Decrypted(l, chunk, offset) ==
    IF l \notin Encrypted THEN chunk
    ELSE [i \in DOMAIN chunk |->
            IF offset + i <= Masked THEN Combined(chunk[i], offset + i) ELSE chunk[i]]

FetchFails(o) ==
    /\ Settle(o, "failed")
    /\ used' = used - Size[location[o]]
    /\ payload' = [payload EXCEPT ![o] = <<>>]

\* The next chunk of the body, which the network divides as it likes, is
\* decrypted and written; a body longer than the catalogue says is an error.
Receive(o) ==
    /\ phase[o] = "fetching"
    /\ LET l == location[o]
           received == Len(payload[o])
       IN  \/ \E n \in (received + 1)..Size[l] :
                payload' = [payload EXCEPT ![o] =
                  @ \o Decrypted(l, SubSeq(Remote(l), received + 1, n), received)]
              /\ UNCHANGED <<phase, used>>
           \/ FetchFails(o)
    /\ UNCHANGED <<pc, location, holders, config>>

\* The body ends.  The slot is given back; the reservation stays with a payload
\* that is whole, synced and held.
FetchEnds(o) ==
    /\ phase[o] = "fetching"
    /\ \/ /\ holders[o] # {} /\ Len(payload[o]) = Size[location[o]]
          /\ Settle(o, "ready")
          /\ UNCHANGED <<used, payload>>
       \/ FetchFails(o)
    /\ UNCHANGED <<pc, location, holders, config>>

-----------------------------------------------------------------------------

ExportStep(e) ==
    \/ \E l \in Locations : JoinDownload(e, l)
    \/ Collected(e) \/ CollectFails(e)
    \/ VideoPermit(e) \/ WorkerPermit(e) \/ RunEnds(e)

DownloadStep(o) ==
    GetSlot(o) \/ AbandonSlot(o) \/ Receive(o) \/ FetchEnds(o)

Next ==
    \/ \E e \in Exports : Begin(e) \/ ExportStep(e) \/ Stops(e)
    \/ \E o \in Ops : DownloadStep(o)

Spec == Init /\ [][Next]_vars

\* Tasks are polled, tokio's semaphores are fair, requests and workers are
\* limited in time.  Nobody has to start or to cancel an export.
FairSpec ==
    /\ Spec
    /\ \A e \in Exports : WF_vars(ExportStep(e))
    /\ \A o \in Ops : WF_vars(DownloadStep(o))

-----------------------------------------------------------------------------
(* Properties.                                                             *)

TypeOK ==
    /\ pc \in [Exports -> {"idle", "ended"} \cup Active]
    /\ location \in [Ops -> Locations \cup {None}]
    /\ phase \in [Ops -> {"none", "slot", "fetching", "ready", "failed"}]
    /\ holders \in [Ops -> SUBSET Exports]
    /\ used \in 0..config.temp
    /\ payload \in [Ops -> Seq([position : Nat, keystream : SUBSET Nat])]
    /\ config \in Configs

TotalSize(e) == SumFunctionOnSet(Size, Needs[e])
OwnBytes(e) == ReservedBy(Held(e))

\* Budget.used is exactly what live downloads and workers have reserved: no
\* failed, abandoned, shared or cancelled download leaks bytes or gives them
\* back twice, never more than the volume has, and stop() sees zero once nothing
\* runs.  And the volume of a valid configuration has room for one: an export
\* whose payloads are within the input limit is only refused for the bytes of
\* others.
ReservationsExact ==
    /\ used = ReservedBy(Ops)
                + Storage * Cardinality({e \in Exports : pc[e] = "running"})
    /\ used <= config.temp
    /\ \A e \in Exports :
         /\ pc[e] = "worker" /\ ~Fits(Storage)
         /\ TotalSize(e) <= config.input
         => used > OwnBytes(e)

\* "Retain shared payload references until this resource finishes"
\* (src/src/service.rs:826): an export that waits for a permit or runs its
\* worker has all its payloads, whoever else shared them and ended, whole and in
\* clear, however the network cut the bodies.
PayloadsStay ==
    \A e \in Exports : pc[e] \in Active \ {"collecting"} =>
        \A l \in Needs[e] :
            \E o \in Held(e) :
                /\ location[o] = l /\ phase[o] = "ready"
                /\ payload[o] = Plain(l)

\* Slots, permits and bytes are never waited for in a circle: every export that
\* starts ends.
ExportsEnd ==
    \A e \in Exports : pc[e] = "collecting" ~> pc[e] = "ended"

-----------------------------------------------------------------------------
(* The inductive invariant of ResourceLimits_proofs.                       *)

\* Payloads are with the exports that need them, and a location that somebody
\* wants has one operation.
SharingInv ==
    /\ \A o \in Ops : \A e \in holders[o] : pc[e] \in Active /\ location[o] \in Needs[e]
    /\ \A o, p \in Ops :
         holders[o] # {} /\ holders[p] # {} /\ location[o] = location[p] => o = p

\* What is written of a payload, by the state of its operation.
PayloadInv ==
    \A o \in Ops :
        /\ phase[o] \in {"slot", "fetching", "ready"} => location[o] \in Locations
        /\ phase[o] \in {"none", "ready"} => (holders[o] # {} <=> phase[o] = "ready")
        /\ phase[o] \in {"none", "slot", "failed"} => payload[o] = <<>>
        /\ phase[o] \in {"fetching", "ready"} =>
             /\ Len(payload[o]) <= Size[location[o]]
             /\ \A i \in 1..Len(payload[o]) : payload[o][i] = Byte(i, {})
        /\ phase[o] = "ready" => Len(payload[o]) = Size[location[o]]

Collectible(e) ==
    \A l \in Needs[e] : \E o \in Held(e) : location[o] = l /\ phase[o] = "ready"

\* An export that has collected its payloads keeps them.
CollectedInv ==
    \A e \in Exports : pc[e] \in Active \ {"collecting"} => Collectible(e)

UsedInv ==
    used = ReservedBy(Ops) + Storage * Cardinality({e \in Exports : pc[e] = "running"})

IInv ==
    /\ TypeOK /\ Valid(config)
    /\ SharingInv /\ PayloadInv /\ CollectedInv /\ UsedInv

=============================================================================
