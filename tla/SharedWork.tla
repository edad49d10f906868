------------------------------ MODULE SharedWork ------------------------------
(***************************************************************************)
(* src/src/shared.rs: callers that ask for the same key share one          *)
(* operation.  `join` finds or creates a reference-counted `Shared` under  *)
(* the registry mutex, waits for its result and hands out a `Lease`; the   *)
(* destructor of `Waiter` gives the reference up in two separate atomic    *)
(* steps (decrement `users`, then cancel the token) outside that mutex.    *)
(* The service uses it twice: one registry of downloads and one of exports.*)
(*                                                                         *)
(* A caller is one task that calls join again and again.  An operation is  *)
(* one allocation of `Shared`; its identifier is reused only once the      *)
(* allocation is dead and no Weak entry names it, as an address is.  The   *)
(* size of Ops is the only bound: a call waits for a free identifier.      *)
(***************************************************************************)
EXTENDS Naturals, FiniteSets

CONSTANTS
    Callers,   \* tasks that call join
    Keys,      \* export ids, or snapshot:location of a download
    Ops,       \* allocations of Shared
    NoKey,     \* key of an identifier that was never allocated
    NoOp       \* no operation

ASSUME CallersAssumption == IsFiniteSet(Callers)
ASSUME KeysAssumption == NoKey \notin Keys
ASSUME OpsAssumption == NoOp \notin Ops

VARIABLES
    registry,         \* HashMap<key, Weak<Shared>>
    opKey,            \* the key an operation was created for
    users,            \* Shared.users
    cancelled,        \* operations whose Shared.cancel is cancelled
    producer,         \* progress of the spawned producer of an operation
    result,           \* the value in the watch channel
    pc,               \* control of a caller
    want,             \* the key it asked for
    op,               \* the Arc<Shared> it holds
    seen,             \* its receiver has seen the version the result made
    answer,           \* what its last join returned
    callerCancelled   \* callers whose own token is cancelled

opVars == <<opKey, users, cancelled, producer, result>>
callerVars == <<pc, want, op, seen, answer>>
vars == <<registry, opVars, callerVars, callerCancelled>>

-----------------------------------------------------------------------------

Outcomes == {"ok", "error", "cancelled"}

\* Control points at which the caller owns a Waiter, that is one of `users`.
Holding == {"attached", "checking", "waiting", "leased", "leaving"}
ControlPoints == {"idle", "locked", "cancelling"} \cup Holding

Holders(s) == {c \in Callers : op[c] = s /\ pc[c] \in Holding}

\* Weak::strong_count > 0: the producer task or some caller has an Arc.
Alive(s) == producer[s] # "gone" \/ \E c \in Callers : op[c] = s

Registered(s) == \E k \in Keys : registry[k] = s

Free(s) == ~Alive(s) /\ ~Registered(s)

\* registry.lock(): the only control point inside the critical section.
NoLock == TRUE  \* broken: the map is not locked from lookup to insertion
LockFree == \A c \in Callers : pc[c] # "locked"

Init ==
    /\ registry = [k \in Keys |-> NoOp]
    /\ opKey = [s \in Ops |-> NoKey]
    /\ users = [s \in Ops |-> 0]
    /\ cancelled = {}
    /\ producer = [s \in Ops |-> "gone"]
    /\ result = [s \in Ops |-> "none"]
    /\ pc = [c \in Callers |-> "idle"]
    /\ want = [c \in Callers |-> NoKey]
    /\ op = [c \in Callers |-> NoOp]
    /\ seen = [c \in Callers |-> FALSE]
    /\ answer = [c \in Callers |-> "none"]
    /\ callerCancelled = {}

-----------------------------------------------------------------------------
(* join: the critical section.                                             *)

\* Lock, drop dead entries, upgrade the Weak and filter cancelled operations.
LookUp(c, k) ==
    /\ pc[c] = "idle"
    /\ LockFree
    /\ \E s \in Ops : Free(s)
    /\ registry' = [j \in Keys |->
                      IF registry[j] \in Ops /\ Alive(registry[j])
                      THEN registry[j] ELSE NoOp]
    /\ op' = [op EXCEPT ![c] = IF registry'[k] \in cancelled
                               THEN NoOp ELSE registry'[k]]
    /\ want' = [want EXCEPT ![c] = k]
    /\ answer' = [answer EXCEPT ![c] = "none"]
    /\ pc' = [pc EXCEPT ![c] = "locked"]
    /\ UNCHANGED <<opVars, seen, callerCancelled>>

\* users.fetch_update(n > 0 => n + 1) succeeded.
AnyFound(c) == op[c] # NoOp  \* broken: plain fetch_add
Joinable(c) == op[c] # NoOp /\ users[op[c]] > 0

MoreUsers(s) == [users EXCEPT ![s] = @ + 1]

JoinExisting(c) ==
    /\ pc[c] = "locked"
    /\ Joinable(c)
    /\ users' = MoreUsers(op[c])
    /\ pc' = [pc EXCEPT ![c] = "attached"]
    /\ UNCHANGED <<registry, opKey, cancelled, producer, result,
                   want, op, seen, answer, callerCancelled>>

\* A new Shared with one user, its Weak entry and its producer task.
StartOperation(c) ==
    /\ pc[c] = "locked"
    /\ ~Joinable(c)
    /\ \E s \in Ops :
         /\ Free(s)
         /\ registry' = [registry EXCEPT ![want[c]] = s]
         /\ opKey' = [opKey EXCEPT ![s] = want[c]]
         /\ users' = [users EXCEPT ![s] = 1]
         /\ cancelled' = cancelled \ {s}
         /\ producer' = [producer EXCEPT ![s] = "running"]
         /\ result' = [result EXCEPT ![s] = "none"]
         /\ op' = [op EXCEPT ![c] = s]
    /\ pc' = [pc EXCEPT ![c] = "attached"]
    /\ UNCHANGED <<want, seen, answer, callerCancelled>>

-----------------------------------------------------------------------------
(* join: waiting for the result.                                           *)

\* result.subscribe(): the receiver starts at the channel's version.
SeenNext(s) == TRUE  \* broken: it starts at the next one
SeenNow(s) == result[s] # "none"

Subscribe(c) ==
    /\ pc[c] = "attached"
    /\ seen' = [seen EXCEPT ![c] = SeenNow(op[c])]
    /\ pc' = [pc EXCEPT ![c] = "checking"]
    /\ UNCHANGED <<registry, opVars, want, op, answer, callerCancelled>>

\* join returns: the receiver is dropped, and the waiter with it on an error.
Return(c, r) ==
    /\ seen' = [seen EXCEPT ![c] = FALSE]
    /\ answer' = [answer EXCEPT ![c] = r]
    /\ pc' = [pc EXCEPT ![c] = IF r = "ok" THEN "leased" ELSE "leaving"]

\* The body of the loop: the caller's own token first, then the result.
Check(c) ==
    /\ pc[c] = "checking"
    /\ \/ /\ c \in callerCancelled
          /\ Return(c, "cancelled")
       \/ /\ c \notin callerCancelled
          /\ result[op[c]] # "none"
          /\ Return(c, result[op[c]])
       \/ /\ c \notin callerCancelled
          /\ result[op[c]] = "none"
          /\ pc' = [pc EXCEPT ![c] = "waiting"]
          /\ UNCHANGED <<seen, answer>>
    /\ UNCHANGED <<registry, opVars, want, op, callerCancelled>>

\* select!: caller.cancelled() or rx.changed(), whichever is polled ready.
NeverTold(c) == FALSE  \* broken: only the channel is awaited
CancelReady(c) == c \in callerCancelled

Wake(c) ==
    /\ pc[c] = "waiting"
    /\ \/ /\ CancelReady(c)
          /\ Return(c, "cancelled")
       \/ /\ result[op[c]] # "none" /\ ~seen[c]
          /\ seen' = [seen EXCEPT ![c] = TRUE]
          /\ pc' = [pc EXCEPT ![c] = "checking"]
          /\ UNCHANGED answer
    /\ UNCHANGED <<registry, opVars, want, op, callerCancelled>>

\* The future is dropped at its await: a sibling download of the same export
\* failed, so try_collect drops the rest (src/src/service.rs:827-831).
Abandon(c) ==
    /\ pc[c] = "waiting"
    /\ Return(c, "dropped")
    /\ UNCHANGED <<registry, opVars, want, op, callerCancelled>>

\* The holder is done with the payload and drops its Lease.
Release(c) ==
    /\ pc[c] = "leased"
    /\ pc' = [pc EXCEPT ![c] = "leaving"]
    /\ UNCHANGED <<registry, opVars, want, op, seen, answer, callerCancelled>>

-----------------------------------------------------------------------------
(* Waiter::drop.  The Arc goes after it; until then the operation counts   *)
(* as alive, which join cannot tell from dead: it is cancelled or unused.  *)

\* users.fetch_sub(1) returned 1.
NoneLeft(s) == users[s] = 0  \* broken: it returns the value before
LastUser(s) == users[s] = 1

DropUser(c) ==
    /\ pc[c] = "leaving"
    /\ users' = [users EXCEPT ![op[c]] = @ - 1]
    /\ IF LastUser(op[c])
       THEN /\ pc' = [pc EXCEPT ![c] = "cancelling"]
            /\ UNCHANGED op
       ELSE /\ pc' = [pc EXCEPT ![c] = "idle"]
            /\ op' = [op EXCEPT ![c] = NoOp]
    /\ UNCHANGED <<registry, opKey, cancelled, producer, result,
                   want, seen, answer, callerCancelled>>

\* cancel.cancel() by the caller that took users to zero.
DropCancel(c) ==
    /\ pc[c] = "cancelling"
    /\ cancelled' = cancelled \cup {op[c]}
    /\ pc' = [pc EXCEPT ![c] = "idle"]
    /\ op' = [op EXCEPT ![c] = NoOp]
    /\ UNCHANGED <<registry, opKey, users, producer, result,
                   want, seen, answer, callerCancelled>>

-----------------------------------------------------------------------------
(* The producer: the inner task runs `create`, the outer one publishes.    *)

\* `create` returns, or panics ("error").  Both creators say "cancelled" only
\* after they have seen the token cancelled, and may still succeed then.
ProducerEnds(s) ==
    /\ producer[s] = "running"
    /\ \E r \in Outcomes :
         /\ r = "cancelled" => s \in cancelled
         /\ producer' = [producer EXCEPT ![s] = r]
    /\ UNCHANGED <<registry, opKey, users, cancelled, result,
                   callerVars, callerCancelled>>

\* result.send_replace(Some(r)); the task ends and drops its Arc.
Publish(s) ==
    /\ producer[s] \in Outcomes
    /\ result' = [result EXCEPT ![s] = producer[s]]
    /\ producer' = [producer EXCEPT ![s] = "gone"]
    /\ UNCHANGED <<registry, opKey, users, cancelled, callerVars,
                   callerCancelled>>

\* A task is cancelled: its token reaches every join it makes.
CancelCaller(c) ==
    /\ c \notin callerCancelled
    /\ callerCancelled' = callerCancelled \cup {c}
    /\ UNCHANGED <<registry, opVars, callerVars>>

-----------------------------------------------------------------------------

CallerStep(c) ==
    \/ JoinExisting(c)
    \/ StartOperation(c)
    \/ Subscribe(c)
    \/ Check(c)
    \/ Wake(c)
    \/ DropUser(c)
    \/ DropCancel(c)

ProducerStep(s) == ProducerEnds(s) \/ Publish(s)

Next ==
    \/ \E c \in Callers :
         \/ \E k \in Keys : LookUp(c, k)
         \/ CallerStep(c)
         \/ Abandon(c)
         \/ Release(c)
         \/ CancelCaller(c)
    \/ \E s \in Ops : ProducerStep(s)

Spec == Init /\ [][Next]_vars

\* The runtime polls every task that is ready.  Nothing makes a caller call
\* join again, drop its future or give a lease back.
FairCallers == \A c \in Callers : WF_vars(CallerStep(c))

\* `create` ends: requests and the worker have timeouts (service.rs:320, 924).
FairProducers == \A s \in Ops : WF_vars(ProducerStep(s))

FairSpec == Spec /\ FairCallers

-----------------------------------------------------------------------------
(* The refinement mapping.                                                 *)

StatusOf(s) == IF producer[s] = "gone" THEN result[s] ELSE "running"

Promise == INSTANCE SharedPromise WITH
    keyOf <- opKey,
    holders <- [s \in Ops |-> Holders(s)],
    status <- [s \in Ops |-> StatusOf(s)],
    using <- {c \in Callers : pc[c] = "leased"},
    withdrawn <- callerCancelled

\* The registry, the counter, the two-step destructor and the watch channel
\* together implement the abstract holders of SharedPromise.
ImplementsPromise == Promise!Spec

-----------------------------------------------------------------------------
(* Properties.                                                             *)

TypeOK ==
    /\ registry \in [Keys -> Ops \cup {NoOp}]
    /\ opKey \in [Ops -> Keys \cup {NoKey}]
    /\ users \in [Ops -> Nat]
    /\ cancelled \in SUBSET Ops
    /\ producer \in [Ops -> {"running", "gone"} \cup Outcomes]
    /\ result \in [Ops -> {"none"} \cup Outcomes]
    /\ pc \in [Callers -> ControlPoints]
    /\ want \in [Callers -> Keys \cup {NoKey}]
    /\ op \in [Callers -> Ops \cup {NoOp}]
    /\ seen \in [Callers -> BOOLEAN]
    /\ answer \in [Callers -> {"none", "dropped"} \cup Outcomes]
    /\ callerCancelled \in SUBSET Callers

\* Shared.users is exactly the number of waiters and leases: no interleaving
\* of join with the two steps of Waiter::drop loses or invents one.
UsersCounted == \A s \in Ops : users[s] = Cardinality(Holders(s))

\* "One caller's cancellation does not cancel another caller's lease"
\* (docs/ARCHITECTURE.md:12): an operation somebody waits for, or whose
\* payload somebody uses, is not cancelled.
HeldIsNotCancelled ==
    \A c \in Callers : pc[c] \in Holding => op[c] \notin cancelled

\* Work is shared: two operations of one key never both have users, so a key
\* is produced twice at once only while the first production is abandoned.
SingleFlight ==
    \A s, t \in Ops :
        /\ users[s] > 0 /\ users[t] > 0
        /\ opKey[s] = opKey[t]
        => s = t

\* join says "cancelled" only to a caller that was cancelled itself; it never
\* hands on the result of an operation that others gave up.
CancelledIsOwn ==
    \A c \in Callers : answer[c] = "cancelled" => c \in callerCancelled

\* A lease is on a successful operation of the key the caller asked for, and
\* the operation is not freed or restarted under it.
LeaseIsValid ==
    \A c \in Callers : pc[c] = "leased" =>
        result[op[c]] = "ok" /\ opKey[op[c]] = want[c]

\* The strengthening of the invariants above that a step preserves.

\* What control point and operation of a caller say of each other.
CallerInv ==
    \A c \in Callers :
        /\ pc[c] = "idle" => op[c] = NoOp
        /\ pc[c] # "idle" => want[c] \in Keys
        /\ pc[c] \in Holding \cup {"cancelling"} => op[c] \in Ops
        /\ pc[c] \in Holding => opKey[op[c]] = want[c]
        /\ pc[c] = "cancelling" => users[op[c]] = 0

\* The mutex, and what the lookup found stays what the registry holds.
LockInv ==
    \A c \in Callers : pc[c] = "locked" =>
        /\ \A d \in Callers : pc[d] = "locked" => d = c
        /\ op[c] # NoOp => op[c] = registry[want[c]]
        /\ op[c] = NoOp => \A s \in Ops : registry[want[c]] = s => users[s] = 0

\* An operation with users is the one its key's Weak entry names.
RegistryInv ==
    /\ \A k \in Keys : registry[k] # NoOp => opKey[registry[k]] = k
    /\ \A s \in Ops : users[s] > 0 => opKey[s] \in Keys /\ registry[opKey[s]] = s

\* Only an operation without users is cancelled, only a cancelled one says so.
OutcomeInv ==
    \A s \in Ops :
        /\ s \in cancelled => users[s] = 0
        /\ "cancelled" \in {producer[s], result[s]} => s \in cancelled
        /\ producer[s] # "gone" => result[s] = "none"

IInv ==
    /\ TypeOK
    /\ UsersCounted
    /\ CallerInv
    /\ LockInv
    /\ RegistryInv
    /\ OutcomeInv
    /\ LeaseIsValid
    /\ CancelledIsOwn

\* A join that took the lock returns, whichever step of the producer its
\* subscription falls between: no wakeup is lost.
Answered ==
    FairProducers =>
        \A c \in Callers : pc[c] = "locked" ~> pc[c] \in {"leased", "idle"}

\* A cancelled caller gets out of join even if the producer hangs for ever.
CancelledReturns ==
    \A c \in Callers :
        (c \in callerCancelled /\ pc[c] \in Holding \ {"leased"})
            ~> pc[c] \in {"leased", "idle"}

\* Work nobody waits for any more is told to stop.
AbandonedIsCancelled ==
    \A s \in Ops :
        (Alive(s) /\ users[s] = 0) ~> (s \in cancelled \/ ~Alive(s))

=============================================================================
