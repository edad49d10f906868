----------------------------- MODULE ChildProcess -----------------------------
(***************************************************************************)
(* src/src/diagnostics.rs, export_one of service.rs and the two exec       *)
(* wrappers of main.rs: how a caller runs a child and reads its pipes.     *)
(*   "worker"  export_one runs a worker in a process group, with a wall    *)
(*             deadline and a token, and keeps the tail of its stderr;     *)
(*             the worker itself runs tools, the Descendants                *)
(*   "tool"    capture: a worker runs ffmpeg or ffprobe, waits for it and   *)
(*             reads both pipes in threads                                 *)
(*   "probe"   inspect_tool: App::open runs a tool in a process group,      *)
(*             with a deadline, and reads both pipes                       *)
(* A caller can die at any step; no process group is left to signal then,  *)
(* only the parent-death signal that wrapped children ask for.             *)
(*                                                                         *)
(* Bytes are the numbers 1, 2, ... of their pipe.  Bound: Amounts, what a  *)
(* child writes.  Process and pipe errors are not modelled, and no process *)
(* id is used again between the wait and the signal to its group.          *)
(***************************************************************************)
EXTENDS Naturals, Sequences

CONSTANTS
    Kinds,        \* of the above
    Descendants,  \* tools a worker runs
    Amounts,      \* numbers of bytes a child writes to a pipe
    PipeSize,     \* capacity of a pipe
    ReadSize,     \* the buffer of a drain
    OutLimit,     \* STDOUT_LIMIT
    ErrLimit      \* STDERR_LIMIT

ASSUME ChildProcessAssumption ==
    /\ Kinds \subseteq {"worker", "tool", "probe"}
    /\ Amounts \subseteq Nat /\ 0 \in Amounts
    /\ {PipeSize, ReadSize, OutLimit, ErrLimit} \subseteq Nat \ {0}
    /\ "child" \notin Descendants

VARIABLES
    kind,
    caller,    \* control of the caller, or "dead"
    token,     \* the cancellation token
    outcome,   \* what ended the select or the wait
    answer,    \* what the call returned
    proc,      \* state of the child and of its descendants
    status,    \* wait status of the child
    reaped,    \* it has been waited for
    goal,      \* bytes the child wants to write to each pipe
    written,   \* and has written
    pipe,      \* contents of a pipe
    captured,  \* Capture: bytes and total
    drained    \* the drain of a pipe has read its end

procVars == <<proc, status, reaped>>
pipeVars == <<written, pipe, captured, drained>>
vars == <<kind, caller, token, outcome, answer, procVars, goal, pipeVars>>

-----------------------------------------------------------------------------

Child == "child"
Procs == {Child} \cup Descendants
PipeNames == {"out", "err"}

\* A worker's stdout is /dev/null.
Pipes == IF kind = "worker" THEN {"err"} ELSE PipeNames

Grouped == kind \in {"worker", "probe"}

\* Runs through an exec wrapper.
Wrapped(p) == p # Child \/ kind # "probe"

Alive(p) == proc[p] \notin {"none", "gone"}

CallerAlive == caller # "dead"

ParentAlive(p) == IF p = Child THEN CallerAlive ELSE Alive(Child)

Init ==
    /\ kind \in Kinds
    /\ caller = "wait"
    /\ token = FALSE
    /\ outcome = "none" /\ answer = "none"
    /\ proc = [p \in Procs |->
                 IF p # Child THEN "none" ELSE IF kind = "probe" THEN "running" ELSE "started"]
    /\ status = "none"
    /\ reaped = FALSE
    /\ goal \in [PipeNames -> Amounts]
    /\ kind = "worker" => goal["out"] = 0
    /\ written = [i \in PipeNames |-> 0]
    /\ pipe = [i \in PipeNames |-> <<>>]
    /\ captured = [i \in PipeNames |-> [bytes |-> <<>>, total |-> 0]]
    /\ drained = [i \in PipeNames |-> i \notin Pipes]

-----------------------------------------------------------------------------
(* Processes.                                                              *)

\* Those that die with dead: the parent-death signal is set before the last
\* look at the parent.
Orphaned(dead) ==
    IF Child \in dead THEN {d \in Descendants : proc[d] \in {"armed", "running"}} ELSE {}

Die(dead) ==
    proc' = [p \in Procs |->
               IF p \in dead \cup Orphaned(dead) /\ Alive(p) THEN "gone" ELSE proc[p]]

\* The child's status is that of its first death.
StatusOnDeath(dead, how) ==
    status' = IF Child \in dead /\ Alive(Child) THEN how ELSE status

ProcUnchanged == UNCHANGED <<kind, caller, token, outcome, answer, reaped, goal, pipeVars>>

Become(p, state) ==
    /\ proc' = [proc EXCEPT ![p] = state]
    /\ UNCHANGED status
    /\ ProcUnchanged

Exit(p, how) ==
    /\ Die({p}) /\ StatusOnDeath({p}, how)
    /\ ProcUnchanged

\* A worker starts a tool.
Fork(d) ==
    /\ kind = "worker" /\ proc[Child] = "running" /\ proc[d] = "none"
    /\ Become(d, "started")

\* getppid: an orphan's parent is init.
AskParent(p) ==
    /\ proc[p] = "started"
    /\ IF ParentAlive(p) THEN Become(p, "parented") ELSE Exit(p, "failed")

Arm(p) ==
    /\ proc[p] = "parented"
    /\ Become(p, "armed")

Unchecked(p) == TRUE  \* broken: the signal is trusted to come
StillChild(p) == ParentAlive(p)

\* getppid again: the parent may have died before the signal was set.
CheckParent(p) ==
    /\ proc[p] = "armed"
    /\ IF StillChild(p) THEN Become(p, "running") ELSE Exit(p, "failed")

Start(p) == AskParent(p) \/ Arm(p) \/ CheckParent(p)

Write(i) ==
    /\ proc[Child] = "running" /\ i \in Pipes
    /\ written[i] < goal[i] /\ Len(pipe[i]) < PipeSize
    /\ written' = [written EXCEPT ![i] = @ + 1]
    /\ pipe' = [pipe EXCEPT ![i] = Append(@, written'[i])]
    /\ UNCHANGED <<kind, caller, token, outcome, answer, procVars, goal, captured, drained>>

Finish ==
    /\ proc[Child] = "running"
    /\ \A i \in Pipes : written[i] = goal[i]
    /\ \A d \in Descendants : ~Alive(d)
    /\ Exit(Child, "ok")

\* An error, a limit of prlimit, or a signal from elsewhere.
Crash(p) == Alive(p) /\ Exit(p, "failed")

ToolEnds(d) == proc[d] = "running" /\ Exit(d, "ok")

-----------------------------------------------------------------------------
(* Capture and the drains.                                                 *)

Smaller(m, n) == IF m < n THEN m ELSE n

LastOf(s, n) == SubSeq(s, Len(s) - Smaller(n, Len(s)) + 1, Len(s))
FirstOf(s, n) == SubSeq(s, 1, Smaller(n, Len(s)))

\* drain(..remove) and extend: what is kept never exceeds the limit.
KeepTail(bytes, data) ==
    LET chunk == LastOf(data, ErrLimit)
        all == Len(bytes) + Len(chunk)
        remove == all - Smaller(ErrLimit, all)
    IN  SubSeq(bytes, remove + 1, Len(bytes)) \o chunk

KeepHead(bytes, data) == bytes \o FirstOf(data, OutLimit - Len(bytes))

AppendTo(i, data) ==
    [bytes |-> IF i = "err" THEN KeepTail(captured[i].bytes, data)
               ELSE KeepHead(captured[i].bytes, data),
     total |-> captured[i].total + Len(data)]

Concurrent(i) == TRUE

\* A task or thread of its own reads a pipe.
Drain(i) ==
    /\ caller \notin {"dead", "ended"} /\ Concurrent(i)
    /\ i \in Pipes /\ ~drained[i]
    /\ IF pipe[i] # <<>>
       THEN \E n \in 1..Smaller(ReadSize, Len(pipe[i])) :
              /\ captured' = [captured EXCEPT ![i] = AppendTo(i, FirstOf(pipe[i], n))]
              /\ pipe' = [pipe EXCEPT ![i] = SubSeq(@, n + 1, Len(@))]
              /\ UNCHANGED drained
       ELSE /\ ~Alive(Child)
            /\ drained' = [drained EXCEPT ![i] = TRUE]
            /\ UNCHANGED <<captured, pipe>>
    /\ UNCHANGED <<kind, caller, token, outcome, answer, procVars, goal, written>>

-----------------------------------------------------------------------------
(* The caller.                                                             *)

Goto(point) == caller' = point

\* The select of export_one, the timeout of inspect_tool, the wait of capture.
Waited(how) ==
    /\ caller = "wait"
    /\ outcome' = how
    /\ Goto(IF Grouped THEN "kill" ELSE "collect")

ChildExits ==
    /\ ~Alive(Child)
    /\ Waited("exited")
    /\ reaped' = TRUE
    /\ UNCHANGED <<proc, status>>

Deadline == Grouped /\ Waited("timeout") /\ UNCHANGED procVars

Cancelled == token /\ Waited("cancelled") /\ UNCHANGED procVars

OnlyChild == {Child}  \* broken: child.kill()
Group == Procs

\* killpg, on success too.
KillGroup ==
    /\ caller = "kill"
    /\ Die(Group) /\ StatusOnDeath(Group, "failed")
    /\ Goto("reap")
    /\ UNCHANGED <<outcome, reaped>>

Reap ==
    /\ caller = "reap" /\ ~Alive(Child)
    /\ reaped' = TRUE
    /\ Goto("collect")
    /\ UNCHANGED <<outcome, proc, status>>

KeptTooMuch == Len(captured["out"].bytes) > OutLimit  \* broken: what is kept counts
TooMuch == captured["out"].total > OutLimit

Verdict ==
    CASE outcome # "exited" -> outcome
      [] outcome = "exited" /\ TooMuch -> "limit"
      [] outcome = "exited" /\ ~TooMuch /\ status # "ok" -> "failed"
      [] OTHER -> IF token THEN "cancelled" ELSE "ok"

\* The drains are joined.
Collect ==
    /\ caller = "collect" /\ \A i \in Pipes : drained[i]
    /\ answer' = Verdict
    /\ Goto("ended")
    /\ UNCHANGED <<outcome, procVars>>

CallerStep ==
    /\ \/ (ChildExits \/ Deadline \/ Cancelled \/ KillGroup \/ Reap) /\ UNCHANGED answer
       \/ Collect
    /\ UNCHANGED <<kind, token, goal, pipeVars>>

\* Only an export has a token.
Cancel ==
    /\ kind = "worker" /\ ~token /\ caller \notin {"dead", "ended"}
    /\ token' = TRUE
    /\ UNCHANGED <<kind, caller, outcome, answer, procVars, goal, pipeVars>>

\* The caller dies; a wrapped child that runs is killed.
CallerDies ==
    /\ caller \notin {"dead", "ended"}
    /\ Goto("dead")
    /\ LET dead == {p \in {Child} : Wrapped(p) /\ proc[p] \in {"armed", "running"}}
       IN  Die(dead) /\ StatusOnDeath(dead, "failed")
    /\ UNCHANGED <<kind, token, outcome, answer, reaped, goal, pipeVars>>

Next ==
    \/ \E d \in Descendants : Fork(d) \/ ToolEnds(d)
    \/ \E p \in Procs : Start(p) \/ Crash(p)
    \/ \E i \in PipeNames : Write(i) \/ Drain(i)
    \/ Finish \/ CallerStep \/ Cancel \/ CallerDies

Spec == Init /\ [][Next]_vars

\* The kernel runs what can run, and so does the runtime; the deadline is a
\* timer.  Only a tool of capture has to do its work: nothing else ends it.
Fairness ==
    /\ \A p \in Procs : WF_vars(Start(p))
    /\ \A i \in PipeNames : WF_vars(Drain(i)) /\ WF_vars(kind = "tool" /\ Write(i))
    /\ WF_vars(kind = "tool" /\ Finish)
    /\ WF_vars(CallerStep)

FairSpec == Spec /\ Fairness

-----------------------------------------------------------------------------
(* Properties.                                                             *)

TypeOK ==
    /\ kind \in Kinds
    /\ caller \in {"wait", "kill", "reap", "collect", "ended", "dead"}
    /\ token \in BOOLEAN /\ reaped \in BOOLEAN
    /\ outcome \in {"none", "exited", "timeout", "cancelled"}
    /\ answer \in {"none", "ok", "failed", "limit", "timeout", "cancelled"}
    /\ proc \in [Procs -> {"none", "started", "parented", "armed", "running", "gone"}]
    /\ status \in {"none", "ok", "failed"}
    /\ goal \in [PipeNames -> Amounts]
    /\ written \in [PipeNames -> Nat]
    /\ pipe \in [PipeNames -> Seq(Nat)]
    /\ captured \in [PipeNames -> [bytes : Seq(Nat), total : Nat]]
    /\ drained \in [PipeNames -> BOOLEAN]

\* When a call returns, its child is reaped and nothing of the child's process
\* group runs on, the tools a dead worker had just started included: nobody
\* writes to the directory or holds the memory that is given back then.
GroupIsGone == caller = "ended" => reaped /\ \A p \in Procs : ~Alive(p)

Bytes(m, n) == [k \in 1..(n + 1 - m) |-> m + k - 1]

\* "stderr retains a 16 KiB tail and probe stdout a 1 MiB prefix (oversize
\* output fails)" (docs/ARCHITECTURE.md:40): output that is returned is all
\* there was, and a diagnostic has the last bytes of stderr and their number.
CaptureIsExact ==
    caller = "ended" =>
        LET err == captured["err"]
            out == captured["out"]
        IN  /\ err.total = written["err"]
            /\ err.bytes = Bytes(err.total + 1 - Smaller(ErrLimit, err.total), err.total)
            /\ answer = "ok" =>
                 /\ status = "ok"
                 /\ kind # "worker" => out.bytes = Bytes(1, goal["out"])
            /\ Len(out.bytes) <= OutLimit

\* A child that hangs, or writes more than its pipes hold, keeps no caller, and
\* a caller that dies leaves no process of an export behind.
ProcessesEnd ==
    /\ (caller = "wait") ~> (caller \in {"ended", "dead"})
    /\ (caller = "dead" /\ kind # "probe") ~> (\A p \in Procs : ~Alive(p))

-----------------------------------------------------------------------------
(* The inductive invariant of ChildProcess_proofs.                         *)

\* Who is gone at which point of the caller.
GroupInv ==
    /\ proc[Child] # "none"
    /\ kind # "worker" => ~token /\ \A d \in Descendants : proc[d] = "none"
    /\ caller \in {"reap", "collect", "ended"} /\ Grouped => \A p \in Procs : ~Alive(p)
    /\ caller \in {"collect", "ended"} => ~Alive(Child) /\ reaped

\* A child that ended well has written everything.
StatusInv ==
    /\ Alive(Child) <=> status = "none"
    /\ status = "ok" => \A i \in Pipes : written[i] = goal[i]

TailOf(n) == Bytes(n + 1 - Smaller(ErrLimit, n), n)
HeadOf(n) == Bytes(1, Smaller(OutLimit, n))

\* What was written has been read or is in the pipe, in its order.
PipeInv ==
    /\ \A i \in PipeNames :
         /\ captured[i].total <= written[i] /\ written[i] <= goal[i]
         /\ pipe[i] = Bytes(captured[i].total + 1, written[i])
         /\ drained[i] => captured[i].total = written[i]
         /\ drained[i] /\ i \in Pipes => ~Alive(Child)
         /\ i \notin Pipes => goal[i] = 0
    /\ captured["err"].bytes = TailOf(captured["err"].total)
    /\ captured["out"].bytes = HeadOf(captured["out"].total)

EndedInv ==
    caller = "ended" =>
        /\ \A i \in Pipes : drained[i]
        /\ answer = "ok" => status = "ok" /\ ~TooMuch

IInv == TypeOK /\ GroupInv /\ StatusInv /\ PipeInv /\ EndedInv

=============================================================================
