-------------------------- MODULE ChildProcess_proofs --------------------------
(***************************************************************************)
(* For any kinds of child, any descendants, any output and any sizes of    *)
(* pipes, buffers and limits: a call that returns leaves no process behind *)
(* and has captured what it should.  The lemmas on sequences of bytes come *)
(* first, then what deaths, drains and the caller do to the invariant.     *)
(***************************************************************************)
EXTENDS ChildProcess, Integers, SequenceTheorems, TLAPS

-----------------------------------------------------------------------------
(* Sequences of bytes.                                                     *)

LEMMA BytesType ==
    ASSUME NEW m \in Nat \ {0}, NEW n \in Nat, m <= n + 1
    PROVE  /\ Bytes(m, n) \in Seq(Nat)
           /\ Len(Bytes(m, n)) = n + 1 - m
           /\ \A k \in 1..(n + 1 - m) : Bytes(m, n)[k] = m + k - 1
<1>1. n + 1 - m \in Nat  OBVIOUS
<1>2. \A k \in 1..(n + 1 - m) : m + k - 1 \in Nat  OBVIOUS
<1>3. Bytes(m, n) \in [1..(n + 1 - m) -> Nat]  BY <1>2 DEF Bytes
<1>4. Bytes(m, n) \in Seq(Nat)  BY <1>1, <1>3, SeqDef
<1>5. Len(Bytes(m, n)) = n + 1 - m
  BY <1>1, <1>3, <1>4, LenProperties
<1>6. QED  BY <1>4, <1>5 DEF Bytes

\* A sequence of the right length with the right bytes.
LEMMA IsBytes ==
    ASSUME NEW m \in Nat \ {0}, NEW n \in Nat, m <= n + 1,
           NEW s \in Seq(Nat), Len(s) = n + 1 - m,
           \A k \in 1..Len(s) : s[k] = m + k - 1
    PROVE  s = Bytes(m, n)
<1>1. /\ Bytes(m, n) \in Seq(Nat) /\ Len(Bytes(m, n)) = n + 1 - m
      /\ \A k \in 1..(n + 1 - m) : Bytes(m, n)[k] = m + k - 1
  BY BytesType
<1>2. Len(s) = Len(Bytes(m, n))  BY <1>1
<1>3. \A k \in 1..Len(s) : s[k] = Bytes(m, n)[k]  BY <1>1
<1>4. QED  BY <1>1, <1>2, <1>3, SeqEqual

LEMMA AppendByte ==
    ASSUME NEW m \in Nat \ {0}, NEW n \in Nat, m <= n + 1
    PROVE  Append(Bytes(m, n), n + 1) = Bytes(m, n + 1)
<1> DEFINE b == Bytes(m, n)
<1>1. /\ b \in Seq(Nat) /\ Len(b) = n + 1 - m
      /\ \A k \in 1..(n + 1 - m) : b[k] = m + k - 1
  BY BytesType
<1> HIDE DEF b
<1>2. /\ Append(b, n + 1) \in Seq(Nat)
      /\ Len(Append(b, n + 1)) = Len(b) + 1
      /\ \A i \in 1..Len(b) : Append(b, n + 1)[i] = b[i]
      /\ Append(b, n + 1)[Len(b) + 1] = n + 1
  BY <1>1, AppendProperties
<1>3. \A k \in 1..Len(Append(b, n + 1)) : Append(b, n + 1)[k] = m + k - 1
  <2> TAKE k \in 1..Len(Append(b, n + 1))
  <2>1. CASE k \in 1..Len(b)  BY <1>1, <1>2, <2>1
  <2>2. CASE k = Len(b) + 1  BY <1>1, <1>2, <2>2
  <2>3. QED  BY <1>1, <1>2, <2>1, <2>2
<1>4. m <= (n + 1) + 1 /\ n + 1 \in Nat /\ Len(Append(b, n + 1)) = (n + 1) + 1 - m
  BY <1>1, <1>2
<1>5. Append(b, n + 1) = Bytes(m, n + 1)
  BY <1>2, <1>3, <1>4, IsBytes
<1>6. QED  BY <1>5 DEF b

\* Part of a run of bytes, which may be empty.
LEMMA PartOfBytes ==
    ASSUME NEW m \in Nat \ {0}, NEW n \in Nat, m <= n + 1,
           NEW i \in Nat \ {0}, NEW j \in Nat, i <= j + 1, j <= n + 1 - m
    PROVE  SubSeq(Bytes(m, n), i, j) = Bytes(m + i - 1, m + j - 1)
<1> DEFINE b == Bytes(m, n)
           s == SubSeq(b, i, j)
<1>1. /\ b \in Seq(Nat) /\ Len(b) = n + 1 - m
      /\ \A k \in 1..(n + 1 - m) : b[k] = m + k - 1
  BY BytesType
<1> HIDE DEF b
<1>2. \A k \in i..j : b[k] \in Nat  BY <1>1
<1>3. /\ s \in Seq(Nat)
      /\ Len(s) = IF i <= j THEN j - i + 1 ELSE 0
      /\ \A k \in 1..(j - i + 1) : s[k] = b[i + k - 1]
  BY <1>2, SubSeqProperties, i \in Int, j \in Int
<1> HIDE DEF s
<1>4. Len(s) = (m + j - 1) + 1 - (m + i - 1)  BY <1>3
<1>5. \A k \in 1..Len(s) : s[k] = (m + i - 1) + k - 1
  <2> TAKE k \in 1..Len(s)
  <2>1. k \in 1..(j - i + 1) /\ i + k - 1 \in 1..(n + 1 - m)  BY <1>4
  <2>2. s[k] = m + (i + k - 1) - 1  BY <1>1, <1>3, <2>1
  <2>3. QED  BY <2>2
<1>6. /\ m + i - 1 \in Nat \ {0} /\ m + j - 1 \in Nat
      /\ m + i - 1 <= (m + j - 1) + 1
  OBVIOUS
<1>7. s = Bytes(m + i - 1, m + j - 1)  BY <1>3, <1>4, <1>5, <1>6, IsBytes
<1>8. QED  BY <1>7 DEF s, b

LEMMA JoinBytes ==
    ASSUME NEW m \in Nat \ {0}, NEW n \in Nat, m <= n + 1,
           NEW q \in Nat, n <= q
    PROVE  Bytes(m, n) \o Bytes(n + 1, q) = Bytes(m, q)
<1> DEFINE a == Bytes(m, n)
           b == Bytes(n + 1, q)
           s == a \o b
<1>1. /\ a \in Seq(Nat) /\ Len(a) = n + 1 - m
      /\ \A k \in 1..(n + 1 - m) : a[k] = m + k - 1
  BY BytesType
<1>2. /\ b \in Seq(Nat) /\ Len(b) = q - n
      /\ \A k \in 1..(q - n) : b[k] = n + k
  <2>1. n + 1 \in Nat \ {0} /\ n + 1 <= q + 1  OBVIOUS
  <2>2. /\ b \in Seq(Nat) /\ Len(b) = q + 1 - (n + 1)
        /\ \A k \in 1..(q + 1 - (n + 1)) : b[k] = (n + 1) + k - 1
    BY <2>1, BytesType
  <2>3. q + 1 - (n + 1) = q - n  OBVIOUS
  <2>4. \A k \in 1..(q - n) : (n + 1) + k - 1 = n + k  OBVIOUS
  <2> HIDE DEF b
  <2>5. QED  BY <2>2, <2>3, <2>4
<1> HIDE DEF a, b
<1>3. /\ s \in Seq(Nat) /\ Len(s) = Len(a) + Len(b)
      /\ \A i \in 1..(Len(a) + Len(b)) :
           s[i] = IF i <= Len(a) THEN a[i] ELSE b[i - Len(a)]
  BY <1>1, <1>2, ConcatProperties
<1> HIDE DEF s
<1>4. Len(s) = q + 1 - m  BY <1>1, <1>2, <1>3
<1>5. \A k \in 1..Len(s) : s[k] = m + k - 1
  <2> TAKE k \in 1..Len(s)
  <2>1. CASE k <= Len(a)  BY <1>1, <1>2, <1>3, <2>1
  <2>2. CASE ~(k <= Len(a))
    <3>1. k - Len(a) \in 1..(q - n)  BY <1>1, <1>4, <2>2
    <3>2. s[k] = n + (k - Len(a))  BY <1>1, <1>2, <1>3, <2>2, <3>1
    <3>3. QED  BY <1>1, <3>2
  <2>3. QED  BY <2>1, <2>2
<1>6. m <= q + 1  OBVIOUS
<1>7. s = Bytes(m, q)  BY <1>3, <1>4, <1>5, <1>6, IsBytes
<1>8. QED  BY <1>7 DEF s, a, b

LEMMA SmallerType ==
    \A m \in Nat, n \in Nat :
        /\ Smaller(m, n) \in Nat /\ Smaller(m, n) <= m /\ Smaller(m, n) <= n
        /\ Smaller(m, n) \in {m, n}
BY DEF Smaller

LEMMA LimitsAreNats == {PipeSize, ReadSize, OutLimit, ErrLimit} \subseteq Nat \ {0}
BY ChildProcessAssumption

LEMMA TailOfType ==
    ASSUME NEW t \in Nat
    PROVE  TailOf(t) \in Seq(Nat) /\ Len(TailOf(t)) = Smaller(ErrLimit, t)
<1>1. /\ Smaller(ErrLimit, t) \in Nat /\ Smaller(ErrLimit, t) <= t
  BY LimitsAreNats, SmallerType
<1> DEFINE k == Smaller(ErrLimit, t)
<1> HIDE DEF k
<1>2. t + 1 - k \in Nat \ {0} /\ t + 1 - k <= t + 1 /\ t + 1 - (t + 1 - k) = k
  BY <1>1 DEF k
<1>3. Bytes(t + 1 - k, t) \in Seq(Nat) /\ Len(Bytes(t + 1 - k, t)) = k
  BY <1>2, BytesType
<1>4. QED  BY <1>3 DEF TailOf, k

LEMMA HeadOfType ==
    ASSUME NEW t \in Nat
    PROVE  HeadOf(t) \in Seq(Nat) /\ Len(HeadOf(t)) = Smaller(OutLimit, t)
<1> DEFINE k == Smaller(OutLimit, t)
<1>1. k \in Nat  BY LimitsAreNats, SmallerType
<1> HIDE DEF k
<1>2. 1 <= k + 1 /\ k + 1 - 1 = k  BY <1>1
<1>3. Bytes(1, k) \in Seq(Nat) /\ Len(Bytes(1, k)) = k
  BY <1>1, <1>2, BytesType
<1>4. QED  BY <1>3 DEF HeadOf, k

\* A drain keeps the tail of stderr.
LEMMA KeepTailKeepsTail ==
    ASSUME NEW t \in Nat, NEW n \in Nat
    PROVE  KeepTail(TailOf(t), Bytes(t + 1, t + n)) = TailOf(t + n)
<1> DEFINE data == Bytes(t + 1, t + n)
           k == Smaller(ErrLimit, t)
           c == Smaller(ErrLimit, n)
           all == k + c
           remove == all - Smaller(ErrLimit, all)
           old == TailOf(t)
           chunk == LastOf(data, ErrLimit)
<1>1. ErrLimit \in Nat \ {0}  BY LimitsAreNats
<1>2. /\ k \in Nat /\ k <= t /\ k <= ErrLimit
      /\ c \in Nat /\ c <= n /\ c <= ErrLimit
      /\ remove \in Nat /\ remove <= k
      /\ k + c - remove = Smaller(ErrLimit, t + n)
  BY <1>1 DEF Smaller
<1>3. Len(old) = k  BY TailOfType
<1>4. Len(data) = n
  <2>1. t + 1 \in Nat \ {0} /\ t + n \in Nat /\ t + 1 <= (t + n) + 1
    OBVIOUS
  <2>2. Len(data) = (t + n) + 1 - (t + 1)  BY <2>1, BytesType
  <2>3. QED  BY <2>2
<1>5. chunk = Bytes(t + n + 1 - c, t + n)
  <2>1. Smaller(ErrLimit, Len(data)) = c  BY <1>4
  <2>2. Smaller(ErrLimit, n) = c /\ chunk = SubSeq(data, n - c + 1, n)
    BY <1>1, <1>2, <1>4 DEF LastOf, Smaller
  <2>3. /\ t + 1 \in Nat \ {0} /\ t + n \in Nat /\ t + 1 <= (t + n) + 1
        /\ n - c + 1 \in Nat \ {0} /\ n - c + 1 <= n + 1
        /\ n <= (t + n) + 1 - (t + 1)
    BY <1>2
  <2> HIDE DEF c
  <2>4. SubSeq(data, n - c + 1, n)
          = Bytes((t + 1) + (n - c + 1) - 1, (t + 1) + n - 1)
    BY <2>3, PartOfBytes
  <2>5. (t + 1) + (n - c + 1) - 1 = t + n + 1 - c /\ (t + 1) + n - 1 = t + n
    BY <1>2
  <2>6. QED  BY <2>2, <2>4, <2>5
<1>6. Len(chunk) = c
  <2> HIDE DEF c, chunk
  <2>1. /\ t + n + 1 - c \in Nat \ {0} /\ t + n \in Nat
        /\ t + n + 1 - c <= (t + n) + 1
    BY <1>2
  <2>2. Len(Bytes(t + n + 1 - c, t + n)) = (t + n) + 1 - (t + n + 1 - c)
    BY <2>1, BytesType
  <2>3. QED  BY <1>2, <1>5, <2>2
<1>7. KeepTail(old, data) = SubSeq(old, remove + 1, k) \o chunk
  BY <1>3, <1>6 DEF KeepTail
<1> HIDE DEF k, c, all, remove, chunk, data, old
<1>8. SubSeq(old, remove + 1, k) = Bytes(t + 1 - k + remove, t)
  <2>1. /\ t + 1 - k \in Nat \ {0} /\ t + 1 - k <= t + 1
        /\ remove + 1 \in Nat \ {0} /\ remove + 1 <= k + 1
        /\ k <= t + 1 - (t + 1 - k) /\ k \in Nat
    BY <1>2
  <2>2. SubSeq(Bytes(t + 1 - k, t), remove + 1, k)
          = Bytes((t + 1 - k) + (remove + 1) - 1, (t + 1 - k) + k - 1)
    BY ONLY <2>1, t \in Nat, PartOfBytes
  <2>3. /\ (t + 1 - k) + (remove + 1) - 1 = t + 1 - k + remove
        /\ (t + 1 - k) + k - 1 = t
    BY <1>2
  <2>4. QED  BY <2>2, <2>3 DEF old, TailOf, k
<1>9. CASE c = n
  <2>1. /\ t + 1 - k + remove \in Nat \ {0} /\ t + 1 - k + remove <= t + 1
        /\ t + n \in Nat /\ t <= t + n /\ t + n + 1 - c = t + 1
    BY <1>2, <1>9
  <2>2. Bytes(t + 1 - k + remove, t) \o Bytes(t + 1, t + n)
          = Bytes(t + 1 - k + remove, t + n)
    BY <2>1, JoinBytes
  <2>3. t + 1 - k + remove = (t + n) + 1 - Smaller(ErrLimit, t + n)
    BY <1>2, <1>9
  <2>4. QED
    BY <1>5, <1>7, <1>8, <2>1, <2>2, <2>3 DEF TailOf, old, data
<1>10. CASE c # n
  <2>1. c = ErrLimit /\ remove = k /\ Smaller(ErrLimit, t + n) = c
    BY <1>1, <1>2, <1>10 DEF c, k, remove, all, Smaller
  <2>2. SubSeq(old, remove + 1, k) = << >>
    BY <1>2, <2>1, SubSeqEmpty, k + 1 \in Int, k \in Int, k < k + 1
  <2>3. chunk \in Seq(Nat)
    <3>1. /\ t + n + 1 - c \in Nat \ {0} /\ t + n \in Nat
          /\ t + n + 1 - c <= (t + n) + 1
      BY <1>2
    <3>2. QED  BY <1>5, <3>1, BytesType
  <2>4. KeepTail(old, data) = chunk
    BY <1>7, <2>2, <2>3, ConcatEmptySeq
  <2>5. QED  BY <1>5, <2>1, <2>4 DEF TailOf, old, data
<1>11. QED  BY <1>9, <1>10

\* A drain keeps the head of stdout.
LEMMA KeepHeadKeepsHead ==
    ASSUME NEW t \in Nat, NEW n \in Nat
    PROVE  KeepHead(HeadOf(t), Bytes(t + 1, t + n)) = HeadOf(t + n)
<1> DEFINE data == Bytes(t + 1, t + n)
           k == Smaller(OutLimit, t)
           c == Smaller(OutLimit - k, n)
           old == HeadOf(t)
           new == FirstOf(data, OutLimit - Len(old))
<1>1. OutLimit \in Nat \ {0}  BY LimitsAreNats
<1>2. /\ k \in Nat /\ k <= t /\ k <= OutLimit
      /\ OutLimit - k \in Nat
      /\ c \in Nat /\ c <= n
      /\ k + c = Smaller(OutLimit, t + n)
      /\ k = t \/ c = 0
  BY <1>1 DEF Smaller
<1>3. Len(old) = k /\ old \in Seq(Nat)  BY HeadOfType
<1>4. /\ t + 1 \in Nat \ {0} /\ t + n \in Nat /\ t + 1 <= (t + n) + 1
  OBVIOUS
<1>5. Len(data) = n
  <2>1. Len(data) = (t + n) + 1 - (t + 1)  BY <1>4, BytesType
  <2>2. QED  BY <2>1
<1>6. new = Bytes(t + 1, t + c)
  <2>1. new = SubSeq(data, 1, c)  BY <1>3, <1>5 DEF FirstOf
  <2> HIDE DEF c
  <2>2. /\ 1 \in Nat \ {0} /\ c \in Nat /\ 1 <= c + 1
        /\ c <= (t + n) + 1 - (t + 1)
    BY <1>2
  <2>3. SubSeq(data, 1, c) = Bytes((t + 1) + 1 - 1, (t + 1) + c - 1)
    BY ONLY <1>4, <2>2, PartOfBytes
  <2>4. (t + 1) + 1 - 1 = t + 1 /\ (t + 1) + c - 1 = t + c  BY <1>2
  <2>5. QED  BY <2>1, <2>3, <2>4
<1>7. KeepHead(old, data) = old \o new  BY DEF KeepHead
<1> HIDE DEF k, c, new, data, old
<1>8. CASE k = t
  <2>1. 1 \in Nat \ {0} /\ t + c \in Nat /\ 1 <= t + 1 /\ t <= t + c  BY <1>2
  <2>2. Bytes(1, t) \o Bytes(t + 1, t + c) = Bytes(1, t + c)
    BY ONLY <2>1, t \in Nat, JoinBytes
  <2>3. t + c = Smaller(OutLimit, t + n)  BY <1>2, <1>8
  <2>4. old = Bytes(1, t)  BY <1>8 DEF old, HeadOf, k
  <2>5. QED  BY <1>6, <1>7, <2>2, <2>3, <2>4 DEF HeadOf, old, data
<1>9. CASE k # t
  <2>1. c = 0 /\ k = Smaller(OutLimit, t + n)  BY <1>2, <1>9
  <2>2. /\ Len(new) = 0 /\ new \in Seq(Nat)
    <3>1. t + c = t /\ t + 1 <= t + 1  BY <2>1
    <3>2. Len(Bytes(t + 1, t)) = t + 1 - (t + 1) /\ Bytes(t + 1, t) \in Seq(Nat)
      BY <1>4, <3>1, BytesType
    <3>3. QED  BY <1>6, <3>1, <3>2
  <2>3. new = << >>  BY <2>2, EmptySeq
  <2>4. old \o new = old  BY <1>3, <2>3, ConcatEmptySeq
  <2>5. QED  BY <1>7, <2>1, <2>4 DEF HeadOf, old, data, k
<1>10. QED  BY <1>8, <1>9

-----------------------------------------------------------------------------
(* Deaths.                                                                 *)

ProcStates == {"none", "started", "parented", "armed", "running", "gone"}

\* What is left of the type invariant when processes are looked at alone.
ProcTypes == proc \in [Procs -> ProcStates] /\ status \in {"none", "ok", "failed"}

\* The conjuncts of GroupInv that do not look at the caller.
ProcInv ==
    /\ proc[Child] # "none"
    /\ kind # "worker" => \A d \in Descendants : proc[d] = "none"

LEMMA ChildIsNoDescendant == Child \in Procs /\ Child \notin Descendants
BY ChildProcessAssumption DEF Procs, Child

LEMMA DieFacts ==
    ASSUME ProcTypes, NEW dead \in SUBSET Procs, Die(dead)
    PROVE  /\ proc' \in [Procs -> ProcStates]
           /\ \A p \in Procs : proc'[p] = proc[p] \/ (Alive(p) /\ proc'[p] = "gone")
           /\ \A p \in dead : ~Alive(p)'
           /\ proc'[Child] = IF Child \in dead /\ Alive(Child) THEN "gone" ELSE proc[Child]
<1>1. Child \in Procs /\ Child \notin Orphaned(dead)
  BY ChildIsNoDescendant DEF Orphaned
<1>2. QED  BY <1>1 DEF Die, Alive, ProcTypes, ProcStates

\* What deaths keep of the invariant, whoever dies and however.
LEMMA DeathsKeep ==
    ASSUME IInv, NEW dead \in SUBSET Procs, NEW how \in {"ok", "failed"},
           Die(dead), StatusOnDeath(dead, how),
           Child \in dead /\ how = "ok" => \A i \in Pipes : written[i] = goal[i],
           UNCHANGED <<kind, goal, pipeVars>>
    PROVE  /\ ProcTypes' /\ ProcInv' /\ StatusInv' /\ PipeInv'
           /\ \A p \in Procs : Alive(p)' => Alive(p)
           /\ \A p \in dead : ~Alive(p)'
           /\ status = "ok" => status' = "ok"
<1> USE DEF IInv
<1>1. ProcTypes  BY DEF TypeOK, ProcTypes, ProcStates
<1>2. /\ proc' \in [Procs -> ProcStates]
      /\ \A p \in Procs : proc'[p] = proc[p] \/ (Alive(p) /\ proc'[p] = "gone")
      /\ \A p \in dead : ~Alive(p)'
      /\ proc'[Child] = IF Child \in dead /\ Alive(Child) THEN "gone" ELSE proc[Child]
  BY <1>1, DieFacts
<1>3. \A p \in Procs : Alive(p)' => Alive(p)  BY <1>2 DEF Alive
<1>4. ProcTypes'  BY <1>1, <1>2 DEF ProcTypes, StatusOnDeath
<1>5. ProcInv'
  <2>1. \A d \in Descendants : proc[d] = "none" => proc'[d] = "none"
    BY <1>2 DEF Alive, Procs
  <2>2. QED  BY <1>2, <2>1 DEF ProcInv, GroupInv
<1>6. Pipes' = Pipes  BY DEF Pipes
<1>7. status = "ok" => status' = "ok"
  BY DEF StatusInv, StatusOnDeath
<1>8. StatusInv'
  <2>1. Alive(Child)' <=> status' = "none"
    BY <1>1, <1>2 DEF StatusInv, StatusOnDeath, Alive
  <2>2. status' = "ok" => status = "ok" \/ (Child \in dead /\ how = "ok")
    BY DEF StatusOnDeath
  <2>3. status' = "ok" => \A i \in Pipes' : written'[i] = goal'[i]
    BY <1>6, <2>2 DEF StatusInv, pipeVars
  <2>4. QED  BY <2>1, <2>3 DEF StatusInv
<1>9. PipeInv'
  <2>1. Alive(Child)' => Alive(Child)  BY <1>3, ChildIsNoDescendant
  <2>2. UNCHANGED <<goal, written, pipe, captured, drained>>  BY DEF pipeVars
  <2>3. QED  BY <1>6, <2>1, <2>2 DEF PipeInv
<1>10. QED  BY <1>2, <1>3, <1>4, <1>5, <1>7, <1>8, <1>9

\* The rest of the invariant, for steps that leave the caller where it is.
LEMMA ProcStepKeeps ==
    ASSUME IInv, ProcUnchanged, ProcTypes', ProcInv', StatusInv', PipeInv',
           \A p \in Procs : caller \in {"reap", "collect", "ended"} /\ Alive(p)' => Alive(p),
           status = "ok" => status' = "ok"
    PROVE  IInv'
<1> USE DEF IInv, ProcUnchanged, pipeVars
<1>1. TypeOK'  BY DEF TypeOK, ProcTypes, ProcStates
<1>2. GroupInv'
  <2>1. caller \in {"collect", "ended"} => ~Alive(Child)'
    BY ChildIsNoDescendant DEF GroupInv
  <2>2. QED  BY <2>1 DEF GroupInv, ProcInv, Grouped
<1>3. EndedInv'
  <2>1. Pipes' = Pipes  BY DEF Pipes
  <2>2. QED  BY <2>1 DEF EndedInv, TooMuch
<1>4. QED  BY <1>1, <1>2, <1>3

LEMMA ExitKeeps ==
    ASSUME IInv, NEW p \in Procs, NEW how \in {"ok", "failed"}, Exit(p, how),
           p = Child /\ how = "ok" => \A i \in Pipes : written[i] = goal[i]
    PROVE  IInv'
<1>1. /\ ProcTypes' /\ ProcInv' /\ StatusInv' /\ PipeInv'
      /\ \A q \in Procs : Alive(q)' => Alive(q)
      /\ status = "ok" => status' = "ok"
  <2>1. {p} \in SUBSET Procs  OBVIOUS
  <2>2. Child \in {p} /\ how = "ok" => \A i \in Pipes : written[i] = goal[i]
    OBVIOUS
  <2>3. Die({p}) /\ StatusOnDeath({p}, how) /\ UNCHANGED <<kind, goal, pipeVars>>
    BY DEF Exit, ProcUnchanged
  <2>4. QED  BY <2>1, <2>2, <2>3, DeathsKeep
<1>2. ProcUnchanged  BY DEF Exit
<1>3. QED  BY <1>1, <1>2, ProcStepKeeps

\* A process that lives goes on; one that starts does so in a worker that runs.
LEMMA BecomeKeeps ==
    ASSUME IInv, NEW p \in Procs, NEW state \in ProcStates \ {"none", "gone"},
           Become(p, state),
           Alive(p) \/ (p # Child /\ kind = "worker" /\ Alive(Child))
    PROVE  IInv'
<1> USE DEF IInv
<1>1. /\ proc' \in [Procs -> ProcStates] /\ proc'[p] = state
      /\ \A q \in Procs \ {p} : proc'[q] = proc[q]
      /\ UNCHANGED <<kind, caller, token, outcome, answer, status, reaped, goal, pipeVars>>
  BY DEF Become, TypeOK, ProcUnchanged, ProcStates
<1>2. ProcTypes'  BY <1>1 DEF ProcTypes, TypeOK
<1>3. Alive(Child)' <=> Alive(Child)
  BY <1>1, ChildIsNoDescendant DEF Alive
<1>4. ProcInv'
  <2>1. proc'[Child] # "none"
    BY <1>1, ChildIsNoDescendant DEF GroupInv
  <2>2. kind # "worker" => p \notin Descendants
    BY DEF GroupInv, Alive
  <2>3. kind # "worker" => \A d \in Descendants : proc'[d] = "none"
    BY <1>1, <2>2 DEF GroupInv, Procs
  <2>4. QED  BY <1>1, <2>1, <2>3 DEF ProcInv
<1>5. Pipes' = Pipes  BY <1>1 DEF Pipes
<1>6. StatusInv'  BY <1>1, <1>3, <1>5 DEF StatusInv, pipeVars
<1>7. PipeInv'  BY <1>1, <1>3, <1>5 DEF PipeInv, pipeVars
<1>8. ASSUME NEW q \in Procs, caller \in {"reap", "collect", "ended"}, Alive(q)'
      PROVE  Alive(q)
  <2>1. CASE q # p  BY <1>1, <1>8, <2>1 DEF Alive
  <2>2. CASE q = p
    <3>1. CASE Alive(p)  BY <2>2, <3>1
    <3>2. CASE p # Child /\ kind = "worker" /\ Alive(Child)
      BY <1>8, <3>2, ChildIsNoDescendant DEF GroupInv, Grouped
    <3>3. QED  BY <3>1, <3>2
  <2>3. QED  BY <2>1, <2>2
<1>9. ProcUnchanged  BY DEF Become
<1>10. QED  BY <1>1, <1>2, <1>4, <1>6, <1>7, <1>8, <1>9, ProcStepKeeps

LEMMA ForkKeeps == ASSUME IInv, NEW d \in Descendants, Fork(d) PROVE IInv'
BY BecomeKeeps, ChildIsNoDescendant DEF Fork, Alive, Procs, ProcStates

LEMMA StartKeeps == ASSUME IInv, NEW p \in Procs, Start(p) PROVE IInv'
<1>1. CASE AskParent(p)
  <2>1. Alive(p) /\ p \in Procs  BY <1>1 DEF AskParent, Alive
  <2>2. Become(p, "parented") \/ Exit(p, "failed")  BY <1>1 DEF AskParent
  <2>3. QED  BY <2>1, <2>2, BecomeKeeps, ExitKeeps DEF ProcStates
<1>2. CASE Arm(p)
  <2>1. Alive(p) /\ Become(p, "armed")  BY <1>2 DEF Arm, Alive
  <2>2. QED  BY <2>1, BecomeKeeps DEF ProcStates
<1>3. CASE CheckParent(p)
  <2>1. Alive(p)  BY <1>3 DEF CheckParent, Alive
  <2>2. Become(p, "running") \/ Exit(p, "failed")  BY <1>3 DEF CheckParent
  <2>3. QED  BY <2>1, <2>2, BecomeKeeps, ExitKeeps DEF ProcStates
<1>4. QED  BY <1>1, <1>2, <1>3 DEF Start

LEMMA EndKeeps ==
    ASSUME IInv,
           \/ \E p \in Procs : Crash(p)
           \/ \E d \in Descendants : ToolEnds(d)
           \/ Finish
    PROVE  IInv'
<1>1. CASE \E p \in Procs : Crash(p)  BY <1>1, ExitKeeps DEF Crash
<1>2. CASE \E d \in Descendants : ToolEnds(d)
  BY <1>2, ExitKeeps, ChildIsNoDescendant DEF ToolEnds, Procs
<1>3. CASE Finish  BY <1>3, ExitKeeps, ChildIsNoDescendant DEF Finish
<1>4. QED  BY <1>1, <1>2, <1>3

-----------------------------------------------------------------------------
(* Pipes.                                                                  *)

LEMMA GoalsAreNats == ASSUME TypeOK PROVE goal \in [PipeNames -> Nat]
BY ChildProcessAssumption DEF TypeOK

LEMMA WriteKeeps ==
    ASSUME IInv, NEW i \in PipeNames, Write(i)
    PROVE  IInv'
<1> USE DEF IInv
<1> DEFINE w == written[i]
           t == captured[i].total
<1>1. /\ w \in Nat /\ t \in Nat /\ goal[i] \in Nat /\ w < goal[i] /\ t <= w
      /\ pipe[i] = Bytes(t + 1, w)
  BY GoalsAreNats DEF Write, TypeOK, PipeInv
<1>2. /\ written' = [written EXCEPT ![i] = w + 1]
      /\ pipe' = [pipe EXCEPT ![i] = Append(pipe[i], w + 1)]
      /\ UNCHANGED <<kind, caller, token, outcome, answer, procVars, goal, captured, drained>>
  BY DEF Write, TypeOK
<1> HIDE DEF w, t
<1>3. Append(pipe[i], w + 1) = Bytes(t + 1, w + 1)
  <2>1. t + 1 \in Nat \ {0} /\ t + 1 <= w + 1  BY <1>1
  <2>2. QED  BY ONLY <1>1, <2>1, AppendByte
<1>4. Bytes(t + 1, w + 1) \in Seq(Nat)
  <2>1. t + 1 \in Nat \ {0} /\ w + 1 \in Nat /\ t + 1 <= (w + 1) + 1  BY <1>1
  <2>2. QED  BY ONLY <2>1, BytesType
<1>5. proc[Child] = "running" /\ Alive(Child) /\ status = "none"
  BY DEF Write, Alive, StatusInv
<1>6. Pipes' = Pipes /\ (Alive(Child)' <=> Alive(Child))
  BY <1>2 DEF Pipes, Alive, procVars
<1>7. TypeOK'
  <2>1. /\ written' \in [PipeNames -> Nat]
        /\ pipe' \in [PipeNames -> Seq(Nat)]
    BY <1>1, <1>2, <1>3, <1>4 DEF TypeOK
  <2>2. QED  BY <1>2, <2>1 DEF TypeOK, procVars
<1>8. GroupInv'  BY <1>2 DEF GroupInv, Grouped, Alive, procVars
<1>9. StatusInv'  BY <1>2, <1>5, <1>6 DEF StatusInv, procVars
<1>10. PipeInv'
  <2>1. ASSUME NEW j \in PipeNames
        PROVE  /\ captured'[j].total <= written'[j] /\ written'[j] <= goal'[j]
               /\ pipe'[j] = Bytes(captured'[j].total + 1, written'[j])
               /\ drained'[j] => captured'[j].total = written'[j]
               /\ drained'[j] /\ j \in Pipes' => ~Alive(Child)'
               /\ j \notin Pipes' => goal'[j] = 0
    <3>1. CASE j # i
      <4>1. written'[j] = written[j] /\ pipe'[j] = pipe[j]
        BY <1>2, <3>1 DEF TypeOK
      <4>2. QED  BY <1>2, <1>6, <4>1 DEF PipeInv
    <3>2. CASE j = i
      <4>1. i \in Pipes /\ ~drained[i]  BY <1>5 DEF Write, PipeInv
      <4>2. written'[i] = w + 1 /\ pipe'[i] = Bytes(t + 1, w + 1)
        BY <1>2, <1>3 DEF TypeOK
      <4>3. captured'[i].total = t /\ UNCHANGED <<goal, drained>>  BY <1>2 DEF t
      <4>4. t <= w + 1 /\ w + 1 <= goal[i]  BY <1>1
      <4>5. QED  BY <1>6, <3>2, <4>1, <4>2, <4>3, <4>4
    <3>3. QED  BY <3>1, <3>2
  <2>2. captured' = captured  BY <1>2
  <2>3. QED  BY <2>1, <2>2 DEF PipeInv
<1>11. EndedInv'  BY <1>2, <1>6 DEF EndedInv, TooMuch, procVars
<1>12. QED  BY <1>7, <1>8, <1>9, <1>10, <1>11

\* What a read of n bytes does to a pipe and to what has been captured.
LEMMA ReadFacts ==
    ASSUME IInv, NEW i \in PipeNames, NEW n \in 1..Len(pipe[i])
    PROVE  LET t == captured[i].total
               data == FirstOf(pipe[i], n)
           IN  /\ t \in Nat /\ t + n <= written[i]
               /\ data = Bytes(t + 1, t + n) /\ Len(data) = n
               /\ SubSeq(pipe[i], n + 1, Len(pipe[i])) = Bytes(t + n + 1, written[i])
<1> USE DEF IInv
<1> DEFINE w == written[i]
           t == captured[i].total
           data == FirstOf(pipe[i], n)
<1>1. /\ w \in Nat /\ t \in Nat /\ t <= w
      /\ pipe[i] = Bytes(t + 1, w)
  BY DEF TypeOK, PipeInv
<1> HIDE DEF w, t
<1>2. t + 1 \in Nat \ {0} /\ t + 1 <= w + 1 /\ w + 1 - (t + 1) = w - t
  BY <1>1
<1>3. Len(pipe[i]) = w - t
  <2>1. Len(Bytes(t + 1, w)) = w + 1 - (t + 1)  BY ONLY <1>1, <1>2, BytesType
  <2>2. QED  BY <1>1, <1>2, <2>1
<1>4. n \in Nat \ {0} /\ n <= w - t /\ t + n <= w  BY <1>1, <1>3
<1>5. data = SubSeq(Bytes(t + 1, w), 1, n)
  BY <1>1, <1>3, <1>4 DEF FirstOf, Smaller
<1>6. data = Bytes(t + 1, t + n)
  <2>1. /\ 1 \in Nat \ {0} /\ n \in Nat /\ 1 <= n + 1 /\ n <= w + 1 - (t + 1)
    BY <1>1, <1>4
  <2>2. SubSeq(Bytes(t + 1, w), 1, n) = Bytes((t + 1) + 1 - 1, (t + 1) + n - 1)
    BY ONLY <1>1, <1>2, <2>1, PartOfBytes
  <2>3. (t + 1) + 1 - 1 = t + 1 /\ (t + 1) + n - 1 = t + n  BY <1>1, <1>4
  <2>4. QED  BY <1>5, <2>2, <2>3
<1>7. Len(data) = n
  <2>1. t + n \in Nat /\ t + 1 <= (t + n) + 1  BY <1>1, <1>4
  <2>2. Len(Bytes(t + 1, t + n)) = (t + n) + 1 - (t + 1)
    BY ONLY <1>1, <1>2, <2>1, BytesType
  <2>3. (t + n) + 1 - (t + 1) = n  BY <1>1, <1>4
  <2>4. QED  BY <1>6, <2>2, <2>3
<1>8. SubSeq(pipe[i], n + 1, Len(pipe[i])) = Bytes(t + n + 1, w)
  <2>1. /\ n + 1 \in Nat \ {0} /\ w - t \in Nat /\ n + 1 <= (w - t) + 1
        /\ w - t <= w + 1 - (t + 1)
    BY <1>1, <1>4
  <2>2. SubSeq(Bytes(t + 1, w), n + 1, w - t)
          = Bytes((t + 1) + (n + 1) - 1, (t + 1) + (w - t) - 1)
    BY ONLY <1>1, <1>2, <2>1, PartOfBytes
  <2>3. /\ (t + 1) + (n + 1) - 1 = t + n + 1
        /\ (t + 1) + (w - t) - 1 = w
    BY <1>1, <1>4
  <2>4. QED  BY <1>1, <1>3, <2>2, <2>3
<1>9. QED  BY <1>1, <1>4, <1>6, <1>7, <1>8 DEF t, w

LEMMA ReadKeeps ==
    ASSUME IInv, NEW i \in Pipes, ~drained[i], caller \notin {"dead", "ended"},
           NEW n \in 1..Len(pipe[i]),
           captured' = [captured EXCEPT ![i] = AppendTo(i, FirstOf(pipe[i], n))],
           pipe' = [pipe EXCEPT ![i] = SubSeq(@, n + 1, Len(@))],
           UNCHANGED <<kind, caller, token, outcome, answer, procVars, goal, written, drained>>
    PROVE  IInv'
<1> USE DEF IInv
<1> DEFINE t == captured[i].total
           w == written[i]
           data == FirstOf(pipe[i], n)
<1>1. i \in PipeNames  BY DEF Pipes, PipeNames
<1>2. /\ t \in Nat /\ t + n <= w
      /\ data = Bytes(t + 1, t + n) /\ Len(data) = n
      /\ SubSeq(pipe[i], n + 1, Len(pipe[i])) = Bytes(t + n + 1, w)
  BY <1>1, ReadFacts
<1>3. n \in Nat /\ w \in Nat /\ t + n \in Nat
  <2>1. Len(pipe[i]) \in Nat  BY <1>1, LenProperties DEF TypeOK
  <2>2. w \in Nat  BY <1>1 DEF TypeOK
  <2>3. QED  BY <1>2, <2>1, <2>2
<1> DEFINE new == AppendTo(i, data)
           rest == Bytes(t + n + 1, w)
<1>4. new.total = t + n  BY <1>2 DEF AppendTo
<1>5. /\ i = "err" => new.bytes = TailOf(t + n)
      /\ i = "out" => new.bytes = HeadOf(t + n)
  <2>1. CASE i = "err"
    <3>1. captured[i].bytes = TailOf(t)  BY <2>1 DEF PipeInv
    <3>2. new.bytes = KeepTail(TailOf(t), Bytes(t + 1, t + n))
      BY <1>2, <2>1, <3>1 DEF AppendTo
    <3> HIDE DEF t, new
    <3>3. QED  BY <1>2, <1>3, <2>1, <3>2, KeepTailKeepsTail
  <2>2. CASE i = "out"
    <3>1. captured[i].bytes = HeadOf(t)  BY <2>2 DEF PipeInv
    <3>2. new.bytes = KeepHead(HeadOf(t), Bytes(t + 1, t + n))
      BY <1>2, <2>2, <3>1 DEF AppendTo
    <3> HIDE DEF t, new
    <3>3. QED  BY <1>2, <1>3, <2>2, <3>2, KeepHeadKeepsHead
  <2>3. QED  BY <2>1, <2>2
<1>6. new \in [bytes : Seq(Nat), total : Nat]
  <2>1. new.bytes \in Seq(Nat)
    BY <1>1, <1>3, <1>5, TailOfType, HeadOfType DEF PipeNames
  <2>2. new = [bytes |-> new.bytes, total |-> new.total]  BY DEF AppendTo
  <2> HIDE DEF new
  <2>3. QED  BY <1>3, <1>4, <2>1, <2>2
<1>7. rest \in Seq(Nat)
  <2>1. t + n + 1 \in Nat \ {0} /\ t + n + 1 <= w + 1  BY <1>2, <1>3
  <2> HIDE DEF t, w
  <2>2. QED  BY ONLY <1>3, <2>1, BytesType
<1>8. /\ captured' = [captured EXCEPT ![i] = new]
      /\ pipe' = [pipe EXCEPT ![i] = rest]
  BY <1>2
<1> HIDE DEF t, w, new, rest, data
<1>9. TypeOK'
  <2>1. /\ captured' \in [PipeNames -> [bytes : Seq(Nat), total : Nat]]
        /\ pipe' \in [PipeNames -> Seq(Nat)]
    <3>1. /\ captured \in [PipeNames -> [bytes : Seq(Nat), total : Nat]]
          /\ pipe \in [PipeNames -> Seq(Nat)]
      BY DEF TypeOK
    <3>2. captured' \in [PipeNames -> [bytes : Seq(Nat), total : Nat]]
      BY ONLY <3>1, <1>1, <1>6, <1>8
    <3>3. pipe' \in [PipeNames -> Seq(Nat)]
      BY ONLY <3>1, <1>1, <1>7, <1>8
    <3>4. QED  BY <3>2, <3>3
  <2>2. QED  BY <2>1 DEF TypeOK, procVars
<1>10. Pipes' = Pipes /\ (Alive(Child)' <=> Alive(Child))
  BY DEF Pipes, Alive, procVars
<1>11. GroupInv'  BY DEF GroupInv, Grouped, Alive, procVars
<1>12. StatusInv'  BY <1>10 DEF StatusInv, procVars
<1>13. PipeInv'
  <2>1. captured'[i] = new /\ pipe'[i] = rest
    BY <1>1, <1>8 DEF TypeOK
  <2>2. \A j \in PipeNames \ {i} : captured'[j] = captured[j] /\ pipe'[j] = pipe[j]
    BY <1>8 DEF TypeOK
  <2>3. ASSUME NEW j \in PipeNames
        PROVE  /\ captured'[j].total <= written'[j] /\ written'[j] <= goal'[j]
               /\ pipe'[j] = Bytes(captured'[j].total + 1, written'[j])
               /\ drained'[j] => captured'[j].total = written'[j]
               /\ drained'[j] /\ j \in Pipes' => ~Alive(Child)'
               /\ j \notin Pipes' => goal'[j] = 0
    <3>1. CASE j # i
      BY <1>10, <2>2, <3>1 DEF PipeInv
    <3>2. CASE j = i
      <4>1. w <= goal[i] /\ written'[i] = w  BY <1>1 DEF PipeInv, w
      <4>2. rest = Bytes(new.total + 1, w)  BY <1>4 DEF rest
      <4>3. new.total <= w  BY <1>2, <1>4
      <4>4. QED  BY <1>10, <2>1, <3>2, <4>1, <4>2, <4>3
    <3>3. QED  BY <3>1, <3>2
  <2>4. captured'["err"].bytes = TailOf(captured'["err"].total)
    BY <1>4, <1>5, <2>1, <2>2 DEF PipeInv, PipeNames
  <2>5. captured'["out"].bytes = HeadOf(captured'["out"].total)
    BY <1>4, <1>5, <2>1, <2>2 DEF PipeInv, PipeNames
  <2>6. QED  BY <2>3, <2>4, <2>5 DEF PipeInv
<1>14. EndedInv'  BY DEF EndedInv
<1>15. QED  BY <1>9, <1>11, <1>12, <1>13, <1>14

LEMMA DrainKeeps ==
    ASSUME IInv, NEW i \in PipeNames, Drain(i)
    PROVE  IInv'
<1> USE DEF IInv
<1>1. CASE pipe[i] # <<>>
  <2>1. PICK n \in 1..Smaller(ReadSize, Len(pipe[i])) :
          /\ captured' = [captured EXCEPT ![i] = AppendTo(i, FirstOf(pipe[i], n))]
          /\ pipe' = [pipe EXCEPT ![i] = SubSeq(@, n + 1, Len(@))]
          /\ UNCHANGED drained
    BY <1>1 DEF Drain
  <2>2. Len(pipe[i]) \in Nat /\ ReadSize \in Nat
    BY LenProperties, LimitsAreNats DEF TypeOK
  <2>3. n \in 1..Len(pipe[i])  BY <2>2 DEF Smaller
  <2>4. QED  BY <2>1, <2>3, ReadKeeps DEF Drain
<1>2. CASE pipe[i] = <<>>
  <2>1. /\ i \in Pipes /\ ~Alive(Child) /\ drained' = [drained EXCEPT ![i] = TRUE]
        /\ caller \notin {"dead", "ended"}
        /\ UNCHANGED <<captured, pipe, kind, caller, token, outcome, answer,
                       procVars, goal, written>>
    BY <1>2 DEF Drain
  <2>2. Pipes' = Pipes /\ (Alive(Child)' <=> Alive(Child))
    BY <2>1 DEF Pipes, Alive, procVars
  <2>3. captured[i].total = written[i]
    <3> DEFINE t == captured[i].total
               w == written[i]
    <3>1. /\ w \in Nat /\ t \in Nat /\ t <= w
          /\ pipe[i] = Bytes(t + 1, w)
      BY DEF TypeOK, PipeInv
    <3>2. Len(pipe[i]) = 0  BY <1>2
    <3> HIDE DEF t, w
    <3>3. t + 1 \in Nat \ {0} /\ t + 1 <= w + 1  BY <3>1
    <3>4. Len(Bytes(t + 1, w)) = w + 1 - (t + 1)  BY ONLY <3>1, <3>3, BytesType
    <3>5. t = w  BY <3>1, <3>2, <3>4
    <3>6. QED  BY <3>5 DEF t, w
  <2>4. /\ drained' \in [PipeNames -> BOOLEAN]
        /\ \A j \in PipeNames : drained'[j] => j = i \/ drained[j]
    BY <2>1 DEF TypeOK
  <2>5. TypeOK'  BY <2>1, <2>4 DEF TypeOK, procVars
  <2>6. GroupInv'  BY <2>1 DEF GroupInv, Grouped, Alive, procVars
  <2>7. StatusInv'  BY <2>1, <2>2 DEF StatusInv, procVars
  <2>8. PipeInv'  BY <2>1, <2>2, <2>3, <2>4 DEF PipeInv
  <2>9. EndedInv'  BY <2>1 DEF EndedInv
  <2>10. QED  BY <2>5, <2>6, <2>7, <2>8, <2>9
<1>3. QED  BY <1>1, <1>2

-----------------------------------------------------------------------------
(* The caller.                                                             *)

\* Steps of the caller that touch no process and no pipe.
LEMMA CallerKeeps ==
    ASSUME IInv, TypeOK', GroupInv', EndedInv',
           UNCHANGED <<kind, proc, status, goal, pipeVars>>
    PROVE  IInv'
<1> USE DEF IInv
<1>1. Pipes' = Pipes /\ (Alive(Child)' <=> Alive(Child))
  BY DEF Pipes, Alive
<1>2. StatusInv'  BY <1>1 DEF StatusInv, pipeVars
<1>3. PipeInv'  BY <1>1 DEF PipeInv, pipeVars
<1>4. QED  BY <1>2, <1>3

LEMMA WaitedKeeps ==
    ASSUME IInv, NEW how \in {"exited", "timeout", "cancelled"}, Waited(how),
           Grouped \/ (how = "exited" /\ ~Alive(Child) /\ reaped'),
           reaped' \in BOOLEAN,
           UNCHANGED <<kind, token, answer, proc, status, goal, pipeVars>>
    PROVE  IInv'
<1> USE DEF IInv
<1>1. caller' = IF Grouped THEN "kill" ELSE "collect"
  BY DEF Waited, Goto
<1>2. TypeOK'  BY <1>1 DEF TypeOK, Waited, pipeVars
<1>3. GroupInv'  BY <1>1 DEF GroupInv, Grouped, Alive
<1>4. EndedInv'  BY <1>1 DEF EndedInv
<1>5. QED  BY <1>2, <1>3, <1>4, CallerKeeps

LEMMA KillGroupKeeps ==
    ASSUME IInv, KillGroup, UNCHANGED <<kind, token, answer, goal, pipeVars>>
    PROVE  IInv'
<1> USE DEF IInv
<1>1. /\ ProcTypes' /\ ProcInv' /\ StatusInv' /\ PipeInv'
      /\ \A p \in Procs : ~Alive(p)'
  <2>1. Group \in SUBSET Procs /\ "failed" \in {"ok", "failed"} /\ "failed" # "ok"
    BY DEF Group
  <2>2. Die(Group) /\ StatusOnDeath(Group, "failed")
    BY DEF KillGroup
  <2>3. QED  BY <2>1, <2>2, DeathsKeep DEF Group
<1>2. caller' = "reap" /\ UNCHANGED <<outcome, reaped>>
  BY DEF KillGroup, Goto
<1>3. TypeOK'  BY <1>1, <1>2 DEF TypeOK, ProcTypes, ProcStates, pipeVars
<1>4. GroupInv'  BY <1>1, <1>2 DEF GroupInv, ProcInv, Grouped
<1>5. EndedInv'  BY <1>2 DEF EndedInv
<1>6. QED  BY <1>1, <1>3, <1>4, <1>5

LEMMA ReapKeeps ==
    ASSUME IInv, Reap, UNCHANGED <<kind, token, answer, goal, pipeVars>>
    PROVE  IInv'
<1> USE DEF IInv
<1>1. caller' = "collect" /\ reaped' = TRUE /\ ~Alive(Child) /\ caller = "reap"
      /\ UNCHANGED <<outcome, proc, status>>
  BY DEF Reap, Goto
<1>2. TypeOK'  BY <1>1 DEF TypeOK, pipeVars
<1>3. GroupInv'  BY <1>1 DEF GroupInv, Grouped, Alive
<1>4. EndedInv'  BY <1>1 DEF EndedInv
<1>5. QED  BY <1>1, <1>2, <1>3, <1>4, CallerKeeps

LEMMA CollectKeeps ==
    ASSUME IInv, Collect, UNCHANGED <<kind, token, goal, pipeVars>>
    PROVE  IInv'
<1> USE DEF IInv
<1>1. /\ caller = "collect" /\ caller' = "ended" /\ answer' = Verdict
      /\ \A i \in Pipes : drained[i]
      /\ UNCHANGED <<outcome, proc, status, reaped>>
  BY DEF Collect, Goto, procVars
<1>2. ~Alive(Child) /\ status \in {"ok", "failed"}
  BY <1>1 DEF GroupInv, StatusInv, TypeOK
<1>3. /\ Verdict \in {"none", "ok", "failed", "limit", "timeout", "cancelled"}
      /\ Verdict = "ok" => status = "ok" /\ ~TooMuch
  <2>1. TooMuch \in BOOLEAN  BY DEF TooMuch
  <2>2. CASE outcome # "exited"  BY <2>2 DEF Verdict, TypeOK
  <2>3. CASE outcome = "exited"
    <3>1. CASE TooMuch  BY <2>3, <3>1 DEF Verdict
    <3>2. CASE ~TooMuch  BY <2>3, <3>2 DEF Verdict, TypeOK
    <3>3. QED  BY <3>1, <3>2
  <2>4. QED  BY <2>2, <2>3
<1>4. TypeOK'  BY <1>1, <1>3 DEF TypeOK, pipeVars
<1>5. GroupInv'  BY <1>1 DEF GroupInv, Grouped, Alive
<1>6. EndedInv'
  <2>1. Pipes' = Pipes /\ (TooMuch' <=> TooMuch)  BY DEF Pipes, TooMuch, pipeVars
  <2>2. \A i \in Pipes : drained'[i]  BY <1>1 DEF pipeVars
  <2>3. QED  BY <1>1, <1>3, <2>1, <2>2 DEF EndedInv
<1>7. QED  BY <1>1, <1>4, <1>5, <1>6, CallerKeeps

LEMMA CallerStepKeeps == ASSUME IInv, CallerStep PROVE IInv'
<1> USE DEF CallerStep
<1>1. UNCHANGED <<kind, token, goal, pipeVars>>  OBVIOUS
<1>2. CASE ChildExits /\ UNCHANGED answer
  <2>1. /\ Waited("exited") /\ ~Alive(Child) /\ reaped' /\ reaped' \in BOOLEAN
        /\ UNCHANGED <<proc, status>>
    BY <1>2 DEF ChildExits
  <2>2. QED  BY <1>1, <1>2, <2>1, WaitedKeeps
<1>3. CASE Deadline /\ UNCHANGED answer
  <2>1. /\ Waited("timeout") /\ Grouped /\ UNCHANGED <<proc, status, reaped>>
    BY <1>3 DEF Deadline, procVars
  <2>2. reaped' \in BOOLEAN  BY <2>1 DEF IInv, TypeOK
  <2>3. QED  BY <1>1, <1>3, <2>1, <2>2, WaitedKeeps
<1>4. CASE Cancelled /\ UNCHANGED answer
  <2>1. /\ Waited("cancelled") /\ token /\ UNCHANGED <<proc, status, reaped>>
    BY <1>4 DEF Cancelled, procVars
  <2>2. reaped' \in BOOLEAN  BY <2>1 DEF IInv, TypeOK
  <2>3. Grouped  BY <2>1 DEF IInv, GroupInv, Grouped
  <2>4. QED  BY <1>1, <1>4, <2>1, <2>2, <2>3, WaitedKeeps
<1>5. CASE KillGroup /\ UNCHANGED answer  BY <1>1, <1>5, KillGroupKeeps
<1>6. CASE Reap /\ UNCHANGED answer  BY <1>1, <1>6, ReapKeeps
<1>7. CASE Collect  BY <1>1, <1>7, CollectKeeps
<1>8. QED  BY <1>2, <1>3, <1>4, <1>5, <1>6, <1>7

LEMMA CancelKeeps == ASSUME IInv, Cancel PROVE IInv'
<1>1. /\ kind = "worker" /\ token' = TRUE
      /\ UNCHANGED <<kind, caller, outcome, answer, proc, status, reaped, goal, pipeVars>>
  BY DEF Cancel, procVars
<1>2. TypeOK'  BY <1>1 DEF IInv, TypeOK, pipeVars
<1>3. GroupInv'  BY <1>1 DEF IInv, GroupInv, Grouped, Alive
<1>4. EndedInv'
  <2>1. Pipes' = Pipes /\ (TooMuch' <=> TooMuch)  BY <1>1 DEF Pipes, TooMuch, pipeVars
  <2>2. QED  BY <1>1, <2>1 DEF IInv, EndedInv, pipeVars
<1>5. QED  BY <1>1, <1>2, <1>3, <1>4, CallerKeeps

LEMMA CallerDiesKeeps == ASSUME IInv, CallerDies PROVE IInv'
<1> USE DEF IInv
<1> DEFINE dead == {p \in {Child} : Wrapped(p) /\ proc[p] \in {"armed", "running"}}
<1>1. /\ Die(dead) /\ StatusOnDeath(dead, "failed") /\ caller' = "dead"
      /\ UNCHANGED <<kind, token, outcome, answer, reaped, goal, pipeVars>>
  BY DEF CallerDies, Goto
<1>2. dead \in SUBSET Procs  BY ChildIsNoDescendant
<1> HIDE DEF dead
<1>3. /\ ProcTypes' /\ ProcInv' /\ StatusInv' /\ PipeInv'
  <2>1. "failed" \in {"ok", "failed"} /\ "failed" # "ok"  OBVIOUS
  <2>2. QED  BY <1>1, <1>2, <2>1, DeathsKeep
<1>4. TypeOK'  BY <1>1, <1>3 DEF TypeOK, ProcTypes, ProcStates, pipeVars
<1>5. GroupInv'  BY <1>1, <1>3 DEF GroupInv, ProcInv
<1>6. EndedInv'  BY <1>1 DEF EndedInv
<1>7. QED  BY <1>3, <1>4, <1>5, <1>6

-----------------------------------------------------------------------------
(* The theorems.                                                           *)

LEMMA InitIInv == Init => IInv
<1> SUFFICES ASSUME Init PROVE IInv  OBVIOUS
<1> USE DEF Init
<1>1. <<>> \in Seq(Nat) /\ 0 \in Nat  BY EmptySeq
<1>2. TypeOK  BY <1>1, ChildIsNoDescendant DEF TypeOK, Pipes, PipeNames
<1>3. proc[Child] \in {"running", "started"} /\ Alive(Child)
  BY ChildIsNoDescendant DEF Alive
<1>4. GroupInv
  <2>1. \A d \in Descendants : proc[d] = "none"
    BY ChildIsNoDescendant DEF Procs
  <2>2. QED  BY <1>3, <2>1 DEF GroupInv
<1>5. StatusInv  BY <1>3 DEF StatusInv
<1>6. Bytes(1, 0) = <<>>
  <2>1. 1 \in Nat \ {0} /\ 0 \in Nat /\ 1 <= 0 + 1 /\ 0 + 1 - 1 = 0  OBVIOUS
  <2>2. Bytes(1, 0) \in Seq(Nat) /\ Len(Bytes(1, 0)) = 0
    BY ONLY <2>1, BytesType
  <2>3. QED  BY <2>2, EmptySeq
<1>7. TailOf(0) = <<>> /\ HeadOf(0) = <<>>
  <2>1. Smaller(ErrLimit, 0) = 0 /\ Smaller(OutLimit, 0) = 0
    BY LimitsAreNats DEF Smaller
  <2>2. 0 + 1 - 0 = 1  OBVIOUS
  <2>3. QED  BY <1>6, <2>1, <2>2 DEF TailOf, HeadOf
<1>8. PipeInv
  <2>1. goal \in [PipeNames -> Nat]  BY <1>2, GoalsAreNats
  <2>2. \A i \in PipeNames : i \notin Pipes => goal[i] = 0
    BY DEF Pipes, PipeNames
  <2>3. 0 + 1 = 1  OBVIOUS
  <2>4. \A i \in PipeNames :
          /\ captured[i].total = 0 /\ written[i] = 0 /\ pipe[i] = Bytes(0 + 1, 0)
          /\ goal[i] \in Nat /\ (drained[i] => i \notin Pipes)
    BY <1>6, <2>1, <2>3
  <2>5. captured["err"].bytes = TailOf(0) /\ captured["out"].bytes = HeadOf(0)
    BY <1>7 DEF PipeNames
  <2>6. captured["err"].total = 0 /\ captured["out"].total = 0
    BY DEF PipeNames
  <2>7. QED  BY <2>2, <2>4, <2>5, <2>6 DEF PipeInv
<1>9. EndedInv  BY DEF EndedInv
<1>10. QED  BY <1>2, <1>4, <1>5, <1>8, <1>9 DEF IInv

LEMMA NextKeepsIInv == IInv /\ [Next]_vars => IInv'
<1> SUFFICES ASSUME IInv, [Next]_vars PROVE IInv'  OBVIOUS
<1>1. CASE \E d \in Descendants : Fork(d) \/ ToolEnds(d)
  BY <1>1, ForkKeeps, EndKeeps
<1>2. CASE \E p \in Procs : Start(p) \/ Crash(p)
  BY <1>2, StartKeeps, EndKeeps
<1>3. CASE \E i \in PipeNames : Write(i) \/ Drain(i)
  BY <1>3, WriteKeeps, DrainKeeps
<1>4. CASE Finish  BY <1>4, EndKeeps
<1>5. CASE CallerStep  BY <1>5, CallerStepKeeps
<1>6. CASE Cancel  BY <1>6, CancelKeeps
<1>7. CASE CallerDies  BY <1>7, CallerDiesKeeps
<1>8. CASE UNCHANGED vars
  BY <1>8 DEF vars, procVars, pipeVars, IInv, TypeOK, GroupInv, StatusInv, PipeInv,
       EndedInv, Grouped, Alive, Pipes, TooMuch
<1>9. QED
  BY <1>1, <1>2, <1>3, <1>4, <1>5, <1>6, <1>7, <1>8 DEF Next

\* The inductive invariant of every child, caller and pipe.
THEOREM IInvHolds == Spec => []IInv
BY InitIInv, NextKeepsIInv, PTL DEF Spec

\* The variables keep their types.
THEOREM TypeCorrect == Spec => []TypeOK
<1>1. IInv => TypeOK  BY DEF IInv
<1>2. QED  BY <1>1, IInvHolds, PTL

\* When export_one, capture or inspect_tool returns, the child is reaped and
\* neither it nor any of its tools lives: a killpg reaches the group also after
\* an orderly exit, and only a worker that is alive can start a tool.
THEOREM NothingOutlivesACall == Spec => []GroupIsGone
<1>1. IInv => GroupIsGone
  <2> SUFFICES ASSUME IInv, caller = "ended"
               PROVE  reaped /\ \A p \in Procs : ~Alive(p)
    BY DEF GroupIsGone
  <2> USE DEF IInv
  <2>1. reaped /\ ~Alive(Child)  BY DEF GroupInv
  <2>2. CASE Grouped  BY <2>1, <2>2 DEF GroupInv
  <2>3. CASE ~Grouped
    <3>1. \A d \in Descendants : proc[d] = "none"  BY <2>3 DEF GroupInv, Grouped
    <3>2. QED  BY <2>1, <3>1 DEF Procs, Alive
  <2>4. QED  BY <2>2, <2>3
<1>2. QED  BY <1>1, IInvHolds, PTL

\* Whatever the reads, the child's output and the limits: stdout that is
\* returned with success is all the child meant to write, and the diagnostic is
\* the last ErrLimit bytes of stderr with their true total.
THEOREM CaptureHolds == Spec => []CaptureIsExact
<1>1. IInv => CaptureIsExact
  <2> SUFFICES ASSUME IInv, caller = "ended"
               PROVE  LET err == captured["err"]
                          out == captured["out"]
                      IN  /\ err.total = written["err"]
                          /\ err.bytes = Bytes(err.total + 1 - Smaller(ErrLimit, err.total), err.total)
                          /\ answer = "ok" =>
                               /\ status = "ok"
                               /\ kind # "worker" => out.bytes = Bytes(1, goal["out"])
                          /\ Len(out.bytes) <= OutLimit
    BY DEF CaptureIsExact
  <2> USE DEF IInv
  <2> DEFINE t == captured["out"].total
  <2>1. "err" \in Pipes /\ "err" \in PipeNames /\ "out" \in PipeNames
    BY DEF Pipes, PipeNames
  <2>2. captured["err"].total = written["err"]
    BY <2>1 DEF EndedInv, PipeInv
  <2>3. captured["err"].bytes
          = Bytes(captured["err"].total + 1 - Smaller(ErrLimit, captured["err"].total),
                  captured["err"].total)
    BY DEF PipeInv, TailOf
  <2>4. t \in Nat /\ captured["out"].bytes = HeadOf(t)
    BY <2>1 DEF TypeOK, PipeInv
  <2>5. Len(captured["out"].bytes) <= OutLimit
    <3> HIDE DEF t
    <3>1. OutLimit \in Nat /\ Len(HeadOf(t)) = Smaller(OutLimit, t)
      BY <2>4, LimitsAreNats, HeadOfType
    <3>2. QED  BY <2>4, <3>1, SmallerType
  <2>6. ASSUME answer = "ok", kind # "worker"
        PROVE  captured["out"].bytes = Bytes(1, goal["out"])
    <3>1. "out" \in Pipes /\ status = "ok" /\ ~TooMuch
      BY <2>1, <2>6 DEF Pipes, EndedInv
    <3>2. t = goal["out"]
      BY <2>1, <3>1 DEF EndedInv, PipeInv, StatusInv
    <3>3. ~(t > OutLimit)  BY <3>1 DEF TooMuch
    <3> HIDE DEF t
    <3>4. Smaller(OutLimit, t) = t
      BY <2>4, <3>3, LimitsAreNats DEF Smaller
    <3>5. QED  BY <2>4, <3>2, <3>4 DEF HeadOf
  <2>7. answer = "ok" => status = "ok"  BY DEF EndedInv
  <2>8. QED  BY <2>2, <2>3, <2>5, <2>6, <2>7
<1>2. QED  BY <1>1, IInvHolds, PTL

=============================================================================
