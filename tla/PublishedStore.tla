---------------------------- MODULE PublishedStore ----------------------------
(***************************************************************************)
(* What publication in src/src/service.rs promises, without gates, files,  *)
(* syncs, transactions or recovery: an export id is absent or has one      *)
(* content for ever, which appears at once and whole; it is the work of an *)
(* execution that was asked for it and has not answered.  "ok" is answered *)
(* of an id that has its content, a failure only by an execution whose     *)
(* work never appears.  The process may end at any time.                   *)
(***************************************************************************)
CONSTANTS Producers, Eids, None

VARIABLES
    asked,    \* the export id an execution was asked for
    content,  \* of an id: None, or the execution that made it
    answer    \* of an execution: none, ok, error, cancelled, or lost with the process

vars == <<asked, content, answer>>

Init ==
    /\ asked = [p \in Producers |-> None]
    /\ content = [e \in Eids |-> None]
    /\ answer = [p \in Producers |-> "none"]

AtWork(p) == asked[p] \in Eids /\ answer[p] = "none"

Ask(p, e) ==
    /\ asked[p] = None
    /\ asked' = [asked EXCEPT ![p] = e]
    /\ UNCHANGED <<content, answer>>

Publish(p) ==
    /\ AtWork(p)
    /\ content[asked[p]] = None
    /\ content' = [content EXCEPT ![asked[p]] = p]
    /\ UNCHANGED <<asked, answer>>

Answer(p, why) ==
    /\ AtWork(p)
    /\ IF why = "ok" THEN content[asked[p]] # None ELSE content[asked[p]] # p
    /\ answer' = [answer EXCEPT ![p] = why]
    /\ UNCHANGED <<asked, content>>

Stop ==
    /\ answer' = [p \in Producers |-> IF AtWork(p) THEN "lost" ELSE answer[p]]
    /\ UNCHANGED <<asked, content>>

Next ==
    \/ \E p \in Producers :
         \/ \E e \in Eids : Ask(p, e)
         \/ Publish(p)
         \/ \E why \in {"ok", "error", "cancelled"} : Answer(p, why)
    \/ Stop

Spec == Init /\ [][Next]_vars

=============================================================================
