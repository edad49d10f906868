---------------------------- MODULE SharedPromise -----------------------------
(***************************************************************************)
(* What src/src/shared.rs promises to its callers, without counters,       *)
(* tokens, locks or channels: a set of holders per operation.  A key has   *)
(* at most one operation with holders; joining adds a holder to it or      *)
(* begins another one; an operation may settle as cancelled only when      *)
(* nobody holds it; only a holder of a successful operation uses it.       *)
(***************************************************************************)
CONSTANTS Callers, Keys, Ops, NoKey

VARIABLES
    keyOf,     \* the key of an operation
    holders,   \* the callers that wait for an operation or use its payload
    status,    \* none, running, or how it settled
    using,     \* callers that were given the payload
    withdrawn  \* callers that were told to stop

vars == <<keyOf, holders, status, using, withdrawn>>

Outcomes == {"ok", "error", "cancelled"}

Init ==
    /\ keyOf = [s \in Ops |-> NoKey]
    /\ holders = [s \in Ops |-> {}]
    /\ status = [s \in Ops |-> "none"]
    /\ using = {}
    /\ withdrawn = {}

Outside(c) == \A s \in Ops : c \notin holders[s]

\* The first caller of a key that nobody holds starts an operation.
Begin(c, k, s) ==
    /\ Outside(c)
    /\ holders[s] = {} /\ status[s] # "running"
    /\ \A t \in Ops : keyOf[t] = k => holders[t] = {}
    /\ keyOf' = [keyOf EXCEPT ![s] = k]
    /\ holders' = [holders EXCEPT ![s] = {c}]
    /\ status' = [status EXCEPT ![s] = "running"]
    /\ UNCHANGED <<using, withdrawn>>

\* A later caller shares the operation somebody holds, settled or not.
Share(c, s) ==
    /\ Outside(c)
    /\ holders[s] # {}
    /\ holders' = [holders EXCEPT ![s] = @ \cup {c}]
    /\ UNCHANGED <<keyOf, status, using, withdrawn>>

Use(c, s) ==
    /\ c \in holders[s] /\ c \notin using
    /\ status[s] = "ok"
    /\ using' = using \cup {c}
    /\ UNCHANGED <<keyOf, holders, status, withdrawn>>

Finish(c) ==
    /\ c \in using
    /\ using' = using \ {c}
    /\ UNCHANGED <<keyOf, holders, status, withdrawn>>

Leave(c, s) ==
    /\ c \in holders[s] /\ c \notin using
    /\ holders' = [holders EXCEPT ![s] = @ \ {c}]
    /\ UNCHANGED <<keyOf, status, using, withdrawn>>

\* Holders keep an operation from being cancelled.
Settle(s, r) ==
    /\ status[s] = "running"
    /\ r = "cancelled" => holders[s] = {}
    /\ status' = [status EXCEPT ![s] = r]
    /\ UNCHANGED <<keyOf, holders, using, withdrawn>>

Withdraw(c) ==
    /\ withdrawn' = withdrawn \cup {c}
    /\ UNCHANGED <<keyOf, holders, status, using>>

Next ==
    \/ \E c \in Callers :
         \/ \E s \in Ops : Share(c, s) \/ Use(c, s) \/ Leave(c, s)
         \/ \E k \in Keys, s \in Ops : Begin(c, k, s)
         \/ Finish(c)
         \/ Withdraw(c)
    \/ \E s \in Ops, r \in Outcomes : Settle(s, r)

Spec == Init /\ [][Next]_vars

=============================================================================
