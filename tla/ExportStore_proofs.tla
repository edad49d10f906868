-------------------------- MODULE ExportStore_proofs --------------------------
(***************************************************************************)
(* Proofs about ExportStore for every number of producers, export ids and  *)
(* ends of the process.  The inductive invariant is IInv of ExportStore:   *)
(* running producers of an id share one gate and only its owner is inside; *)
(* a publication under way owns its directory; what is indexed is synced.  *)
(* Last, that ExportStore implements PublishedStore.                       *)
(***************************************************************************)
EXTENDS ExportStore, TLAPS

\* Inside the gate a producer is alone with its export id.
LEMMA InsideIsAlone ==
    ASSUME IInv, NEW p \in Producers, NEW q \in Producers,
           pc[p] \in Inside, pc[q] \in Inside, eid[p] = eid[q]
    PROVE  p = q
<1>1. pc[p] \in Active /\ pc[q] \in Active  BY DEF Inside
<1>2. p \in owner /\ q \in owner  BY DEF IInv, GateInv
<1>3. gate[p] = gate[q]  BY <1>1 DEF IInv, GateInv
<1>4. QED  BY <1>2, <1>3 DEF IInv, GateInv

\* A step on the directory or row of p's export id leaves the publications of
\* the other producers alone.
LEMMA OthersPublishElsewhere ==
    ASSUME IInv, NEW p \in Producers, NEW q \in Producers, q # p,
           pc[p] \in Inside, pc[q] \in Inside
    PROVE  eid[q] # eid[p] /\ eid[q] \in Eids
<1>1. pc[q] # "unused"  BY DEF Inside, Active
<1>2. QED  BY <1>1, InsideIsAlone DEF IInv, GateInv

LEMMA InitIInv == Init => IInv
<1> SUFFICES ASSUME Init PROVE IInv  OBVIOUS
<1> USE DEF Init
<1>1. TypeOK  BY StoreAssumption DEF TypeOK, Points
<1>2. IndexedIsComplete  BY DEF IndexedIsComplete
<1>3. OkIsIndexed  BY DEF OkIsIndexed
<1>4. GateInv  BY DEF GateInv, Active, Inside, Points
<1>5. PublicationInv  BY DEF PublicationInv, Publishing
<1>6. IndexedIsSynced  BY DEF IndexedIsSynced
<1>7. ProcessInv  BY DEF ProcessInv
<1>8. QED  BY <1>1, <1>2, <1>3, <1>4, <1>5, <1>6, <1>7 DEF IInv

-----------------------------------------------------------------------------
(* Steps of a producer.                                                    *)

LEMMA GetGateKeepsIInv ==
    ASSUME IInv, NEW p \in Producers, NEW e \in Eids, GetGate(p, e)
    PROVE  IInv'
<1> USE DEF GetGate, Goto, diskVars, IInv
<1>0. p \notin owner /\ gate[p] = None /\ answer'[p] = answer[p]
  BY DEF GateInv, Active, TypeOK
<1>1. PICK g \in IF LiveGates(e) = {} THEN {p} ELSE LiveGates(e) :
        gate' = [gate EXCEPT ![p] = g]
  OBVIOUS
<1>2. g \in Producers
  BY <1>1 DEF LiveGates, TypeOK
<1>3. TypeOK'
  BY <1>1, <1>2 DEF TypeOK, Points
<1>4. GateInv'
  <2>1. ASSUME NEW q \in Producers
        PROVE  /\ pc'[q] \in Active <=> gate'[q] # None
               /\ pc'[q] # "unused" => eid'[q] \in Eids
               /\ pc'[q] = "unused" => eid'[q] = None /\ answer'[q] = "none"
               /\ pc'[q] \in Inside => q \in owner'
               /\ q \in owner' => pc'[q] \in Active
    <3>1. CASE q = p
      BY <1>0, <1>1, <1>2, <3>1, StoreAssumption
      DEF TypeOK, Active, Inside, Points
    <3>2. CASE q # p
      BY <1>1, <3>2 DEF TypeOK, GateInv
    <3>3. QED  BY <3>1, <3>2
  <2>2. ASSUME NEW q \in Producers, q # p, pc'[q] \in Active, eid'[q] = e
        PROVE  gate'[q] = g
    <3>1. pc[q] \in Active /\ eid[q] = e /\ gate'[q] = gate[q]
      BY <1>1, <2>2 DEF TypeOK
    <3>2. gate[q] \in LiveGates(e)
      BY <3>1 DEF LiveGates, GateInv
    <3>3. PICK r \in Producers : eid[r] = e /\ gate[r] = g /\ gate[r] # None
      BY <1>1, <3>2 DEF LiveGates
    <3>4. pc[r] \in Active  BY <3>3 DEF GateInv
    <3>5. QED  BY <3>1, <3>3, <3>4 DEF GateInv
  <2>3. ASSUME NEW q \in Producers, NEW r \in Producers,
               pc'[q] \in Active, pc'[r] \in Active, eid'[q] = eid'[r]
        PROVE  gate'[q] = gate'[r]
    <3>1. eid'[p] = e /\ gate'[p] = g  BY <1>1 DEF TypeOK
    <3>2. CASE q = p \/ r = p
      BY <2>2, <2>3, <3>1, <3>2
    <3>3. CASE q # p /\ r # p
      BY <1>1, <2>3, <3>3 DEF TypeOK, GateInv
    <3>4. QED  BY <3>2, <3>3
  <2>4. ASSUME NEW q \in Producers, NEW r \in Producers,
               q \in owner', r \in owner', gate'[q] = gate'[r]
        PROVE  q = r
    BY <1>0, <1>1, <2>4 DEF TypeOK, GateInv
  <2>5. QED  BY <2>1, <2>3, <2>4 DEF GateInv
<1>5. IndexedIsComplete'  BY DEF IndexedIsComplete
<1>6. OkIsIndexed'
  BY DEF OkIsIndexed, TypeOK, GateInv
<1>7. PublicationInv'
  BY DEF PublicationInv, TypeOK, Publishing
<1>8. IndexedIsSynced'  BY DEF IndexedIsSynced
<1>9. ProcessInv'  BY DEF ProcessInv
<1>10. QED  BY <1>3, <1>4, <1>5, <1>6, <1>7, <1>8, <1>9

\* A producer that stays active, and inside only with the gate, keeps GateInv.
LEMMA GateKept ==
    ASSUME IInv, NEW p \in Producers, NEW x \in Active,
           pc[p] \in Active, Goto(p, x), x \in Inside => p \in owner,
           UNCHANGED <<eid, gate, owner>>,
           \A q \in Producers \ {p} : answer'[q] = answer[q]
    PROVE  GateInv'
<1> USE DEF IInv, Goto
<1>1. ASSUME NEW q \in Producers
      PROVE  /\ pc'[q] \in Active <=> gate[q] # None
             /\ pc'[q] # "unused" => eid[q] \in Eids
             /\ pc'[q] = "unused" => eid[q] = None /\ answer'[q] = "none"
             /\ pc'[q] \in Inside => q \in owner
             /\ q \in owner => pc'[q] \in Active
             /\ pc'[q] \in Active => pc[q] \in Active
  <2>1. CASE q = p  BY <2>1 DEF TypeOK, GateInv, Active
  <2>2. CASE q # p  BY <2>2 DEF TypeOK, GateInv
  <2>3. QED  BY <2>1, <2>2
<1>2. QED  BY <1>1 DEF GateInv

\* Returning leaves the row alone, so "ok" needs one.
LEMMA AnswerKept ==
    ASSUME IInv, NEW p \in Producers, NEW why, Return(p, why),
           why = "ok" => row[eid[p]] # None,
           UNCHANGED <<eid, row>>
    PROVE  OkIsIndexed'
BY DEF IInv, TypeOK, Return, OkIsIndexed

LEMMA LockGateKeepsIInv ==
    ASSUME IInv, NEW p \in Producers, LockGate(p)
    PROVE  IInv'
<1> USE DEF LockGate, diskVars, IInv
<1>1. TypeOK'  BY DEF TypeOK, Points, Goto, Return
<1>2. IndexedIsComplete'  BY DEF IndexedIsComplete
<1>3. OkIsIndexed'
  BY AnswerKept DEF OkIsIndexed
<1>4. GateInv'
  <2>1. CASE Goto(p, "recheck") /\ owner' = owner \cup {p} /\ UNCHANGED answer
             /\ \A q \in owner : gate[q] # gate[p]
    <3>1. ASSUME NEW q \in Producers
          PROVE  /\ pc'[q] \in Active <=> gate[q] # None
                 /\ pc'[q] # "unused" => eid[q] \in Eids
                 /\ pc'[q] = "unused" => eid[q] = None /\ answer[q] = "none"
                 /\ pc'[q] \in Inside => q \in owner'
                 /\ q \in owner' => pc'[q] \in Active
                 /\ pc'[q] \in Active => pc[q] \in Active
      <4>1. CASE q = p
        BY <2>1, <4>1 DEF TypeOK, GateInv, Active, Points, Goto
      <4>2. CASE q # p
        BY <2>1, <4>2 DEF TypeOK, GateInv, Goto
      <4>3. QED  BY <4>1, <4>2
    <3>2. QED  BY <2>1, <3>1 DEF GateInv
  <2>2. CASE Return(p, "cancelled") /\ UNCHANGED owner
    <3>1. "drop" \in Active /\ "drop" \notin Inside /\ pc[p] \in Active
      BY DEF Active, Inside, Points
    <3>2. QED  BY <2>2, <3>1, GateKept DEF Return, TypeOK
  <2>3. QED  BY <2>1, <2>2
<1>5. PublicationInv'
  BY DEF PublicationInv, TypeOK, Publishing, Goto, Return
<1>6. IndexedIsSynced'  BY DEF IndexedIsSynced
<1>7. ProcessInv'
  BY DEF ProcessInv, TypeOK, Active, Points
<1>8. QED  BY <1>1, <1>2, <1>3, <1>4, <1>5, <1>6, <1>7

\* The same for a producer that is inside: it owns the gate already.
LEMMA InsiderKeepsGate ==
    ASSUME IInv, NEW p \in Producers, NEW x \in Active,
           pc[p] \in Inside, Goto(p, x), UNCHANGED <<eid, gate, owner>>,
           \A q \in Producers \ {p} : answer'[q] = answer[q]
    PROVE  GateInv'
<1>1. p \in owner /\ pc[p] \in Active  BY DEF IInv, GateInv, Inside
<1>2. QED  BY <1>1, GateKept

LEMMA RecheckKeepsIInv ==
    ASSUME IInv, NEW p \in Producers, Recheck(p)
    PROVE  IInv'
<1> USE DEF Recheck, diskVars, IInv
<1>0. pc[p] \in Inside /\ pc[p] \in Active
  BY DEF Inside, Active, Points
<1>1. TypeOK'  BY DEF TypeOK, Points, Goto, Return
<1>2. IndexedIsComplete'  BY DEF IndexedIsComplete
<1>3. OkIsIndexed'  BY AnswerKept DEF OkIsIndexed
<1>4. GateInv'
  <2>1. {"build", "drop"} \subseteq Active  BY DEF Active, Points
  <2>2. \A q \in Producers \ {p} : answer'[q] = answer[q]
    BY DEF Return, TypeOK
  <2>3. QED  BY <1>0, <2>1, <2>2, InsiderKeepsGate DEF Return
<1>5. PublicationInv'
  BY DEF PublicationInv, TypeOK, Publishing, Goto, Return
<1>6. IndexedIsSynced'  BY DEF IndexedIsSynced
<1>7. ProcessInv'  BY <1>0 DEF ProcessInv
<1>8. QED  BY <1>1, <1>2, <1>3, <1>4, <1>5, <1>6, <1>7

LEMMA BuildKeepsIInv ==
    ASSUME IInv, NEW p \in Producers, Build(p)
    PROVE  IInv'
<1> USE DEF Build, IInv
<1>0. pc[p] \in Inside /\ pc[p] \in Active
  BY DEF Inside, Active, Points
<1>1. TypeOK'  BY DEF TypeOK, Points, Goto, Return
<1>2. IndexedIsComplete'  BY DEF IndexedIsComplete
<1>3. OkIsIndexed'  BY AnswerKept DEF OkIsIndexed
<1>4. GateInv'
  <2>1. {"write", "drop"} \subseteq Active  BY DEF Active, Points
  <2>2. \A q \in Producers \ {p} : answer'[q] = answer[q]
    BY DEF Return, TypeOK
  <2>3. QED  BY <1>0, <2>1, <2>2, InsiderKeepsGate DEF Return
<1>5. PublicationInv'
  BY DEF PublicationInv, TypeOK, Publishing, Goto, Return
<1>6. IndexedIsSynced'  BY DEF IndexedIsSynced
<1>7. ProcessInv'  BY <1>0 DEF ProcessInv
<1>8. QED  BY <1>1, <1>2, <1>3, <1>4, <1>5, <1>6, <1>7

LEMMA WriteManifestKeepsIInv ==
    ASSUME IInv, NEW p \in Producers, WriteManifest(p)
    PROVE  IInv'
<1> USE DEF WriteManifest, IInv
<1>0. pc[p] \in Inside /\ pc[p] \in Active
  BY DEF Inside, Active, Points
<1>1. TypeOK'  BY DEF TypeOK, Points, Goto, Return
<1>2. IndexedIsComplete'  BY DEF IndexedIsComplete
<1>3. OkIsIndexed'  BY AnswerKept DEF OkIsIndexed
<1>4. GateInv'
  <2>1. {"rename", "drop"} \subseteq Active  BY DEF Active, Points
  <2>2. \A q \in Producers \ {p} : answer'[q] = answer[q]
    BY DEF Return, TypeOK
  <2>3. QED  BY <1>0, <2>1, <2>2, InsiderKeepsGate DEF Return
<1>5. PublicationInv'
  BY DEF PublicationInv, TypeOK, Publishing, Goto, Return
<1>6. IndexedIsSynced'  BY DEF IndexedIsSynced
<1>7. ProcessInv'  BY <1>0 DEF ProcessInv
<1>8. QED  BY <1>1, <1>2, <1>3, <1>4, <1>5, <1>6, <1>7

\* A rename succeeds only where no directory is, so over no indexed export.
LEMMA RenameKeepsIInv ==
    ASSUME IInv, NEW p \in Producers, Rename(p)
    PROVE  IInv'
<1> USE DEF Rename, AfterRename, IInv
<1>0. pc[p] \in Inside /\ pc[p] \in Active
  BY DEF Inside, Active, Points
<1>a. eid[p] \in Eids  BY <1>0 DEF GateInv
<1>1. TypeOK'  BY DEF TypeOK, Points, Goto, Return
<1>4. GateInv'
  <2>1. {"sync", "drop"} \subseteq Active  BY DEF Active, Points
  <2>2. \A q \in Producers \ {p} : answer'[q] = answer[q]
    BY DEF Return, TypeOK
  <2>3. QED  BY <1>0, <2>1, <2>2, InsiderKeepsGate DEF Return
<1>7. ProcessInv'  BY <1>0 DEF ProcessInv
<1>8. CASE Return(p, "error") /\ UNCHANGED <<exports, torn, entrySynced>>
  <2>1. IndexedIsComplete'  BY <1>8 DEF IndexedIsComplete
  <2>2. OkIsIndexed'  BY <1>8, AnswerKept
  <2>3. PublicationInv'
    BY <1>8 DEF PublicationInv, TypeOK, Publishing, Goto, Return
  <2>4. IndexedIsSynced'  BY <1>8 DEF IndexedIsSynced
  <2>5. QED  BY <1>1, <1>4, <1>7, <2>1, <2>2, <2>3, <2>4
<1>9. CASE /\ exports[eid[p]] = None
           /\ exports' = [exports EXCEPT ![eid[p]] = p]
           /\ torn' = torn \ {eid[p]}
           /\ entrySynced' = entrySynced \ {eid[p]}
           /\ Goto(p, "sync")
           /\ UNCHANGED answer
  <2>0. row[eid[p]] = None
    BY <1>a, <1>9 DEF IndexedIsComplete
  <2>1. IndexedIsComplete'
    BY <1>9, <2>0 DEF IndexedIsComplete, TypeOK
  <2>2. OkIsIndexed'  BY <1>9 DEF OkIsIndexed
  <2>3. PublicationInv'
    <3>1. ASSUME NEW q \in Producers, q # p, pc[q] \in Publishing
          PROVE  eid[q] # eid[p] /\ eid[q] \in Eids
      <4>1. pc[q] \in Inside
        BY <3>1 DEF Inside, Active, Points, Publishing
      <4>2. QED  BY <1>0, <3>1, <4>1, OthersPublishElsewhere
    <3>2. ASSUME NEW q \in Producers, q # p
          PROVE  /\ pc'[q] \in {"rename"} \cup Publishing => q \in outSynced'
                 /\ pc'[q] \in Publishing =>
                      /\ exports'[eid'[q]] = q /\ row'[eid'[q]] = None
                      /\ eid'[q] \notin torn'
                 /\ pc'[q] = "commit" => eid'[q] \in entrySynced'
                 /\ pc'[q] = "disarm" => row'[eid'[q]] # None
      BY <1>9, <3>1, <3>2 DEF PublicationInv, TypeOK, Goto, Publishing
    <3>3. /\ pc'[p] = "sync" /\ p \in outSynced'
          /\ exports'[eid'[p]] = p /\ row'[eid'[p]] = None
          /\ eid'[p] \notin torn'
      BY <1>a, <1>9, <2>0 DEF PublicationInv, TypeOK, Goto
    <3>4. QED  BY <3>2, <3>3 DEF PublicationInv
  <2>4. IndexedIsSynced'
    BY <1>9, <2>0 DEF IndexedIsSynced
  <2>5. QED  BY <1>1, <1>4, <1>7, <2>1, <2>2, <2>3, <2>4
<1>10. QED  BY <1>8, <1>9

LEMMA SyncEntryKeepsIInv ==
    ASSUME IInv, NEW p \in Producers, SyncEntry(p)
    PROVE  IInv'
<1> USE DEF SyncEntry, IInv
<1>0. pc[p] \in Inside /\ pc[p] \in Active
  BY DEF Inside, Active, Points
<1>a. eid[p] \in Eids  BY <1>0 DEF GateInv
<1>1. TypeOK'  BY <1>a DEF TypeOK, Points, Goto
<1>2. IndexedIsComplete'  BY DEF IndexedIsComplete
<1>3. OkIsIndexed'  BY DEF OkIsIndexed
<1>4. GateInv'
  <2>1. {"commit", "cleanup"} \subseteq Active  BY DEF Active, Points
  <2>2. QED  BY <1>0, <2>1, InsiderKeepsGate
<1>5. PublicationInv'
  BY DEF PublicationInv, TypeOK, Publishing, Goto
<1>6. IndexedIsSynced'  BY DEF IndexedIsSynced
<1>7. ProcessInv'  BY <1>0 DEF ProcessInv
<1>8. QED  BY <1>1, <1>2, <1>3, <1>4, <1>5, <1>6, <1>7

\* What the transaction indexes is published, whole and synced.
LEMMA CommitKeepsIInv ==
    ASSUME IInv, NEW p \in Producers, Commit(p)
    PROVE  IInv'
<1> USE DEF Commit, AfterFailedCommit, diskVars, IInv
<1>0. pc[p] \in Inside /\ pc[p] \in Active
  BY DEF Inside, Active, Points
<1>a. eid[p] \in Eids  BY <1>0 DEF GateInv
<1>b. /\ p \in outSynced /\ eid[p] \in entrySynced
      /\ exports[eid[p]] = p /\ eid[p] \notin torn
  BY DEF PublicationInv, Publishing
<1>1. TypeOK'  BY DEF TypeOK, Points, Goto
<1>2. IndexedIsComplete'
  BY <1>a, <1>b DEF IndexedIsComplete, TypeOK
<1>3. OkIsIndexed'
  BY StoreAssumption DEF OkIsIndexed, TypeOK, GateInv
<1>4. GateInv'
  <2>1. {"disarm", "cleanup"} \subseteq Active  BY DEF Active, Points
  <2>2. QED  BY <1>0, <2>1, InsiderKeepsGate
<1>5. PublicationInv'
  <2>1. ASSUME NEW q \in Producers, q # p, pc[q] \in Publishing
        PROVE  eid[q] # eid[p] /\ eid[q] \in Eids
    <3>1. pc[q] \in Inside
      BY <2>1 DEF Inside, Active, Points, Publishing
    <3>2. QED  BY <1>0, <2>1, <3>1, OthersPublishElsewhere
  <2>2. ASSUME NEW q \in Producers, q # p
        PROVE  /\ pc'[q] \in {"rename"} \cup Publishing => q \in outSynced'
               /\ pc'[q] \in Publishing =>
                    /\ exports'[eid'[q]] = q /\ row'[eid'[q]] = None
                    /\ eid'[q] \notin torn'
               /\ pc'[q] = "commit" => eid'[q] \in entrySynced'
               /\ pc'[q] = "disarm" => row'[eid'[q]] # None
    <3>1. pc'[q] = pc[q]  BY <2>2 DEF TypeOK, Goto
    <3>2. pc[q] \in Publishing => row'[eid[q]] = row[eid[q]]
      BY <2>1, <2>2 DEF TypeOK
    <3>3. pc[q] = "disarm" => row'[eid[q]] # None
      BY StoreAssumption DEF PublicationInv, TypeOK, GateInv
    <3>4. QED  BY <3>1, <3>2, <3>3 DEF PublicationInv
  <2>3. /\ pc'[p] \in {"rename"} \cup Publishing => p \in outSynced'
        /\ pc'[p] \in Publishing =>
             /\ exports'[eid'[p]] = p /\ row'[eid'[p]] = None
             /\ eid'[p] \notin torn'
        /\ pc'[p] = "commit" => eid'[p] \in entrySynced'
        /\ pc'[p] = "disarm" => row'[eid'[p]] # None
    BY <1>a, StoreAssumption DEF PublicationInv, TypeOK, Goto, Publishing
  <2>4. QED  BY <2>2, <2>3 DEF PublicationInv
<1>6. IndexedIsSynced'
  BY <1>a, <1>b DEF IndexedIsSynced, TypeOK
<1>7. ProcessInv'  BY <1>0 DEF ProcessInv
<1>8. QED  BY <1>1, <1>2, <1>3, <1>4, <1>5, <1>6, <1>7

LEMMA DisarmKeepsIInv ==
    ASSUME IInv, NEW p \in Producers, Disarm(p)
    PROVE  IInv'
<1> USE DEF Disarm, diskVars, IInv
<1>0. pc[p] \in Inside /\ pc[p] \in Active
  BY DEF Inside, Active, Points
<1>1. TypeOK'  BY DEF TypeOK, Points, Goto, Return
<1>2. IndexedIsComplete'  BY DEF IndexedIsComplete
<1>3. OkIsIndexed'
  BY AnswerKept DEF PublicationInv
<1>4. GateInv'
  <2>1. "drop" \in Active  BY DEF Active, Points
  <2>2. \A q \in Producers \ {p} : answer'[q] = answer[q]
    BY DEF Return, TypeOK
  <2>3. QED  BY <1>0, <2>1, <2>2, InsiderKeepsGate DEF Return
<1>5. PublicationInv'
  BY DEF PublicationInv, TypeOK, Publishing, Goto, Return
<1>6. IndexedIsSynced'  BY DEF IndexedIsSynced
<1>7. ProcessInv'  BY <1>0 DEF ProcessInv
<1>8. QED  BY <1>1, <1>2, <1>3, <1>4, <1>5, <1>6, <1>7

\* The directory removed is the producer's own, which no row names.
LEMMA CleanupKeepsIInv ==
    ASSUME IInv, NEW p \in Producers, Cleanup(p)
    PROVE  IInv'
<1> USE DEF Cleanup, IInv
<1>0. pc[p] \in Inside /\ pc[p] \in Active
  BY DEF Inside, Active, Points
<1>a. eid[p] \in Eids  BY <1>0 DEF GateInv
<1>b. row[eid[p]] = None  BY DEF PublicationInv, Publishing
<1>1. TypeOK'  BY <1>a DEF TypeOK, Points, Goto, Return
<1>2. IndexedIsComplete'
  BY <1>b DEF IndexedIsComplete, TypeOK
<1>3. OkIsIndexed'  BY AnswerKept
<1>4. GateInv'
  <2>1. "drop" \in Active  BY DEF Active, Points
  <2>2. \A q \in Producers \ {p} : answer'[q] = answer[q]
    BY DEF Return, TypeOK
  <2>3. QED  BY <1>0, <2>1, <2>2, InsiderKeepsGate DEF Return
<1>5. PublicationInv'
  <2>1. ASSUME NEW q \in Producers, q # p, pc[q] \in Publishing
        PROVE  eid[q] # eid[p] /\ eid[q] \in Eids
    <3>1. pc[q] \in Inside
      BY <2>1 DEF Inside, Active, Points, Publishing
    <3>2. QED  BY <1>0, <2>1, <3>1, OthersPublishElsewhere
  <2>2. \A q \in Producers : pc'[q] = IF q = p THEN "drop" ELSE pc[q]
    BY DEF Return, Goto, TypeOK
  <2>3. QED
    BY <2>1, <2>2 DEF PublicationInv, TypeOK, Publishing
<1>6. IndexedIsSynced'  BY DEF IndexedIsSynced
<1>7. ProcessInv'  BY <1>0 DEF ProcessInv
<1>8. QED  BY <1>1, <1>2, <1>3, <1>4, <1>5, <1>6, <1>7

LEMMA DropLocalsKeepsIInv ==
    ASSUME IInv, NEW p \in Producers, DropLocals(p)
    PROVE  IInv'
<1> USE DEF DropLocals, IInv
<1>0. pc[p] \in Active  BY DEF Active, Points
<1>1. TypeOK'  BY DEF TypeOK, Points, Goto
<1>2. IndexedIsComplete'  BY DEF IndexedIsComplete
<1>3. OkIsIndexed'  BY DEF OkIsIndexed
<1>4. GateInv'
  <2>1. ASSUME NEW q \in Producers
        PROVE  /\ pc'[q] \in Active <=> gate'[q] # None
               /\ pc'[q] # "unused" => eid[q] \in Eids
               /\ pc'[q] = "unused" => eid[q] = None /\ answer[q] = "none"
               /\ pc'[q] \in Inside => q \in owner'
               /\ q \in owner' => pc'[q] \in Active
               /\ pc'[q] \in Active => pc[q] \in Active /\ gate'[q] = gate[q]
               /\ q \in owner' => q \in owner /\ gate'[q] = gate[q]
    <3>1. CASE q = p
      BY <3>1 DEF TypeOK, GateInv, Active, Inside, Points, Goto
    <3>2. CASE q # p  BY <3>2 DEF TypeOK, GateInv, Goto
    <3>3. QED  BY <3>1, <3>2
  <2>2. QED  BY <2>1 DEF GateInv
<1>5. PublicationInv'
  BY DEF PublicationInv, TypeOK, Publishing, Goto
<1>6. IndexedIsSynced'  BY DEF IndexedIsSynced
<1>7. ProcessInv'  BY <1>0 DEF ProcessInv
<1>8. QED  BY <1>1, <1>2, <1>3, <1>4, <1>5, <1>6, <1>7

LEMMA CancelKeepsIInv ==
    ASSUME IInv, NEW p \in Producers, Cancel(p)
    PROVE  IInv'
<1> USE DEF Cancel, diskVars, IInv
<1>1. TypeOK'  BY DEF TypeOK
<1>2. IndexedIsComplete' /\ OkIsIndexed'
  BY DEF IndexedIsComplete, OkIsIndexed
<1>3. GateInv'  BY DEF GateInv
<1>4. PublicationInv' /\ IndexedIsSynced' /\ ProcessInv'
  BY DEF PublicationInv, IndexedIsSynced, ProcessInv
<1>5. QED  BY <1>1, <1>2, <1>3, <1>4

-----------------------------------------------------------------------------
(* The end of the process and App::open.                                   *)

\* After it nobody is active, so only the disk and the rows matter.
LEMMA EndProcessKeeps ==
    ASSUME IInv, EndProcess, UNCHANGED row
    PROVE  /\ pc' \in [Producers -> Points]
           /\ gate' \in [Producers -> Producers \cup {None}]
           /\ process' \in {"up", "down", "opening"}
           /\ stops' \in 0..MaxStops
           /\ OkIsIndexed' /\ GateInv' /\ PublicationInv' /\ ProcessInv'
<1> USE DEF EndProcess, IInv
<1>1. \A p \in Producers : pc'[p] \in {"unused", "ended", "lost"}
  BY DEF TypeOK, Active
<1>2. \A p \in Producers : pc'[p] = "unused" => pc[p] = "unused"
  BY DEF TypeOK
<1>3. pc' \in [Producers -> Points]  BY DEF TypeOK, Points
<1>4. stops' \in 0..MaxStops  BY StoreAssumption DEF TypeOK
<1>5. OkIsIndexed'  BY DEF OkIsIndexed
<1>6. GateInv'  BY <1>1, <1>2 DEF GateInv, Active, Inside
<1>7. PublicationInv'  BY <1>1 DEF PublicationInv, Publishing
<1>8. ProcessInv'  BY <1>1 DEF ProcessInv, Active
<1>9. QED  BY <1>3, <1>4, <1>5, <1>6, <1>7, <1>8

LEMMA CrashKeepsIInv ==
    ASSUME IInv, Crash
    PROVE  IInv'
<1> USE DEF Crash, diskVars, IInv
<1>1. TypeOK'  BY EndProcessKeeps DEF EndProcess, TypeOK
<1>2. IndexedIsComplete' /\ IndexedIsSynced'
  BY DEF EndProcess, IndexedIsComplete, IndexedIsSynced
<1>3. QED  BY <1>1, <1>2, EndProcessKeeps

\* Power failure spares what is synced, and what is indexed is synced.
LEMMA PowerFailureKeepsIInv ==
    ASSUME IInv, PowerFailure
    PROVE  IInv'
<1> USE DEF PowerFailure, IInv
<1>1. PICK lost \in SUBSET (Eids \ entrySynced) :
        exports' = [e \in Eids |-> IF e \in lost THEN None ELSE exports[e]]
  OBVIOUS
<1>2. PICK broken \in SUBSET {e \in Eids : exports'[e] \notin outSynced \cup {None}} :
        torn' = torn \cup broken
  OBVIOUS
<1>3. TypeOK'
  BY <1>1, <1>2, EndProcessKeeps DEF EndProcess, TypeOK
<1>4. IndexedIsComplete'
  BY <1>1, <1>2 DEF EndProcess, IndexedIsComplete, IndexedIsSynced
<1>5. IndexedIsSynced'  BY DEF EndProcess, IndexedIsSynced
<1>6. QED  BY <1>3, <1>4, <1>5, EndProcessKeeps

LEMMA OpenKeepsIInv ==
    ASSUME IInv, Open
    PROVE  IInv'
<1> USE DEF Open, IInv
<1>1. TypeOK'  BY DEF TypeOK
<1>2. IndexedIsComplete' /\ OkIsIndexed'
  BY DEF IndexedIsComplete, OkIsIndexed
<1>3. GateInv'  BY DEF GateInv
<1>4. PublicationInv' /\ IndexedIsSynced' /\ ProcessInv'
  BY DEF PublicationInv, IndexedIsSynced, ProcessInv
<1>5. QED  BY <1>1, <1>2, <1>3, <1>4

LEMMA RemoveOrphanKeepsIInv ==
    ASSUME IInv, NEW e \in Eids, RemoveOrphan(e)
    PROVE  IInv'
<1> USE DEF RemoveOrphan, Orphan, IInv
<1>1. TypeOK'  BY DEF TypeOK
<1>2. IndexedIsComplete' /\ OkIsIndexed'
  BY DEF IndexedIsComplete, OkIsIndexed, TypeOK
<1>3. GateInv'  BY DEF GateInv
<1>4. PublicationInv'
  <2>1. \A p \in Producers : pc[p] \notin Active  BY DEF ProcessInv
  <2>2. QED  BY <2>1 DEF PublicationInv, Publishing, Active, Points
<1>5. IndexedIsSynced' /\ ProcessInv'
  BY DEF IndexedIsSynced, ProcessInv
<1>6. QED  BY <1>1, <1>2, <1>3, <1>4, <1>5

LEMMA OpenedKeepsIInv ==
    ASSUME IInv, Opened
    PROVE  IInv'
<1> USE DEF Opened, diskVars, IInv
<1>1. TypeOK'  BY DEF TypeOK
<1>2. IndexedIsComplete' /\ OkIsIndexed'
  BY DEF IndexedIsComplete, OkIsIndexed
<1>3. GateInv'  BY DEF GateInv
<1>4. PublicationInv' /\ IndexedIsSynced' /\ ProcessInv'
  BY DEF PublicationInv, IndexedIsSynced, ProcessInv
<1>5. QED  BY <1>1, <1>2, <1>3, <1>4

LEMMA StutterKeepsIInv ==
    ASSUME IInv, UNCHANGED vars
    PROVE  IInv'
<1> USE DEF vars, diskVars, IInv
<1>1. TypeOK'  BY DEF TypeOK
<1>2. IndexedIsComplete' /\ OkIsIndexed'
  BY DEF IndexedIsComplete, OkIsIndexed
<1>3. GateInv'  BY DEF GateInv
<1>4. PublicationInv' /\ IndexedIsSynced' /\ ProcessInv'
  BY DEF PublicationInv, IndexedIsSynced, ProcessInv
<1>5. QED  BY <1>1, <1>2, <1>3, <1>4

-----------------------------------------------------------------------------
(* Theorems.                                                               *)

LEMMA NextKeepsIInv == IInv /\ [Next]_vars => IInv'
<1> SUFFICES ASSUME IInv, [Next]_vars PROVE IInv'  OBVIOUS
<1>1. ASSUME NEW p \in Producers, NEW e \in Eids, GetGate(p, e)  PROVE IInv'
  BY <1>1, GetGateKeepsIInv
<1>2. ASSUME NEW p \in Producers, ProducerStep(p)  PROVE IInv'
  BY <1>2, LockGateKeepsIInv, RecheckKeepsIInv, BuildKeepsIInv,
     WriteManifestKeepsIInv, RenameKeepsIInv, SyncEntryKeepsIInv,
     CommitKeepsIInv, DisarmKeepsIInv, CleanupKeepsIInv, DropLocalsKeepsIInv
  DEF ProducerStep
<1>3. ASSUME NEW p \in Producers, Cancel(p)  PROVE IInv'
  BY <1>3, CancelKeepsIInv
<1>4. CASE Crash  BY <1>4, CrashKeepsIInv
<1>5. CASE PowerFailure  BY <1>5, PowerFailureKeepsIInv
<1>6. CASE Open  BY <1>6, OpenKeepsIInv
<1>7. ASSUME NEW e \in Eids, RemoveOrphan(e)  PROVE IInv'
  BY <1>7, RemoveOrphanKeepsIInv
<1>8. CASE Opened  BY <1>8, OpenedKeepsIInv
<1>9. CASE UNCHANGED vars  BY <1>9, StutterKeepsIInv
<1>10. QED
  BY <1>1, <1>2, <1>3, <1>4, <1>5, <1>6, <1>7, <1>8, <1>9 DEF Next

\* The inductive invariant holds in every reachable state.
THEOREM IInvHolds == Spec => []IInv
BY InitIInv, NextKeepsIInv, PTL DEF Spec

\* Every variable keeps its type.
THEOREM TypeCorrect == Spec => []TypeOK
<1>1. IInv => TypeOK  BY DEF IInv
<1>2. QED  BY <1>1, IInvHolds, PTL

\* The index (service.rs:1023-1044) never names an export whose directory is
\* missing, foreign or incomplete, whatever ended the process and when.
THEOREM IndexedAlwaysComplete == Spec => []IndexedIsComplete
<1>1. IInv => IndexedIsComplete  BY DEF IInv
<1>2. QED  BY <1>1, IInvHolds, PTL

\* A caller that got a manifest from export_one finds its id in the index.
THEOREM OkAlwaysIndexed == Spec => []OkIsIndexed
<1>1. IInv => OkIsIndexed  BY DEF IInv
<1>2. QED  BY <1>1, IInvHolds, PTL

\* The gate of service.rs:806-817 is mutual exclusion per export id although
\* its lock is found through a Weak and dropped with its last user.
THEOREM GateAlwaysExcludes == Spec => []GateExcludes
<1>1. IInv => GateExcludes  BY InsideIsAlone DEF GateExcludes
<1>2. QED  BY <1>1, IInvHolds, PTL

-----------------------------------------------------------------------------

\* A producer's own step: the directories of the others stay owned, its own is
\* indexed, removed, torn or still being published; its tmp goes with it.
LEMMA ProducerKeepsStrayInv ==
    ASSUME IInv, StrayInv, process = "up", NEW p \in Producers, ProducerStep(p)
    PROVE  StrayInv'
<1> DEFINE Owned(e) == \/ e \in torn
                       \/ pc[exports[e]] \in Publishing /\ eid[exports[e]] = e
<1> USE DEF IInv, diskVars
<1>0. process' = "up" /\ eid' = eid
  BY DEF ProducerStep, LockGate, Recheck, Build, WriteManifest, Rename,
         SyncEntry, Commit, Disarm, Cleanup, DropLocals
<1>1. ASSUME NEW e \in Eids, exports'[e] # None, row'[e] = None
      PROVE  Owned(e)'
  <2>0. exports[e] \in Producers \cup {None} /\ row[e] \in Producers \cup {None}
    BY DEF TypeOK
  <2>1. CASE Rename(p)
    BY <1>0, <1>1, <2>0, <2>1 DEF Rename, AfterRename, StrayInv, TypeOK, Goto,
       Return, Publishing
  <2>2. CASE Commit(p)
    <3>1. row[e] = None
      BY <1>1, <2>2, StoreAssumption DEF Commit, TypeOK
    <3>2. CASE e = eid[p] /\ row'[e] = p
      BY <1>1, <3>2, StoreAssumption
    <3>3. CASE ~(e = eid[p] /\ row'[e] = p)
      <4>1. Owned(e)  BY <1>1, <2>2, <3>1 DEF Commit, StrayInv
      <4>2. CASE exports[e] = p /\ e \notin torn
        BY <1>0, <2>2, <3>3, <4>1, <4>2 DEF Commit, AfterFailedCommit, TypeOK,
           Goto, Publishing
      <4>3. CASE exports[e] # p \/ e \in torn
        BY <1>0, <1>1, <2>0, <2>2, <4>1, <4>3 DEF Commit, TypeOK, Goto
      <4>4. QED  BY <4>2, <4>3
    <3>4. QED  BY <3>2, <3>3
  <2>3. CASE Cleanup(p)
    <3>1. Owned(e)  BY <1>1, <2>3 DEF Cleanup, StrayInv, TypeOK
    <3>2. CASE e = eid[p]
      BY <1>1, <2>3, <3>2 DEF Cleanup, TypeOK
    <3>3. CASE e # eid[p]
      BY <1>0, <2>3, <3>1, <3>3 DEF Cleanup, TypeOK, Goto, Return
    <3>4. QED  BY <3>2, <3>3
  <2>4. CASE SyncEntry(p)
    BY <1>0, <1>1, <2>4 DEF SyncEntry, StrayInv, TypeOK, Goto, Publishing
  <2>5. CASE LockGate(p) \/ Recheck(p) \/ Build(p) \/ WriteManifest(p)
               \/ Disarm(p) \/ DropLocals(p)
    <3>1. pc[p] \notin Publishing /\ UNCHANGED <<exports, torn, row>>
      BY <2>5 DEF LockGate, Recheck, Build, WriteManifest, Disarm, DropLocals,
                  Publishing
    <3>2. \A q \in Producers \ {p} : pc'[q] = pc[q]
      BY <2>5 DEF LockGate, Recheck, Build, WriteManifest, Disarm, DropLocals,
                  Goto, Return, TypeOK
    <3>3. Owned(e)  BY <1>1, <3>1 DEF StrayInv
    <3>4. QED  BY <1>0, <1>1, <2>0, <3>1, <3>2, <3>3
  <2>6. QED  BY <2>1, <2>2, <2>3, <2>4, <2>5 DEF ProducerStep
<1>2. ASSUME NEW q \in tmp'  PROVE pc'[q] \in Active
  <2>1. CASE q = p
    BY <1>2, <2>1 DEF ProducerStep, LockGate, Recheck, Build, WriteManifest,
       Rename, AfterRename, SyncEntry, Commit, AfterFailedCommit, Disarm, Cleanup,
       DropLocals, Goto, Return, TypeOK, Active, Points
  <2>2. CASE q # p
    <3>1. q \in tmp /\ q \in Producers /\ pc'[q] = pc[q]
      BY <1>2, <2>2 DEF ProducerStep, LockGate, Recheck, Build, WriteManifest,
         Rename, SyncEntry, Commit, Disarm, Cleanup, DropLocals, Goto, Return,
         TypeOK
    <3>2. QED  BY <3>1 DEF StrayInv
  <2>3. QED  BY <2>1, <2>2
<1>3. QED  BY <1>0, <1>1, <1>2 DEF StrayInv

LEMMA NextKeepsStrayInv == IInv /\ StrayInv /\ [Next]_vars => StrayInv'
<1> SUFFICES ASSUME IInv, StrayInv, [Next]_vars PROVE StrayInv'  OBVIOUS
<1> USE DEF diskVars
<1>1. ASSUME NEW p \in Producers, NEW e \in Eids, GetGate(p, e)  PROVE StrayInv'
  BY <1>1 DEF GetGate, StrayInv, IInv, TypeOK, Goto, Publishing, Active, Points
<1>2. ASSUME NEW p \in Producers, ProducerStep(p)  PROVE StrayInv'
  <2>1. pc[p] \in Active
    BY <1>2 DEF ProducerStep, LockGate, Recheck, Build, WriteManifest, Rename,
       SyncEntry, Commit, Disarm, Cleanup, DropLocals, Active, Points
  <2>2. process = "up"  BY <2>1 DEF IInv, ProcessInv
  <2>3. QED  BY <1>2, <2>2, ProducerKeepsStrayInv
<1>3. ASSUME NEW p \in Producers, Cancel(p)  PROVE StrayInv'
  BY <1>3 DEF Cancel, StrayInv
<1>4. CASE Crash \/ PowerFailure
  BY <1>4 DEF Crash, PowerFailure, EndProcess, StrayInv
<1>5. CASE Open  BY <1>5 DEF Open, StrayInv
<1>6. ASSUME NEW e \in Eids, RemoveOrphan(e)  PROVE StrayInv'
  BY <1>6 DEF RemoveOrphan, StrayInv
<1>7. CASE Opened  BY <1>7 DEF Opened, Orphan, StrayInv
<1>8. CASE UNCHANGED vars  BY <1>8 DEF vars, StrayInv
<1>9. QED
  BY <1>1, <1>2, <1>3, <1>4, <1>5, <1>6, <1>7, <1>8 DEF Next

\* While the service is up, every directory without a row belongs to a
\* publication under way or is what a failed removal left (service.rs:185-203),
\* and nothing stays in tmp after its producer: cleanup on every path, and the
\* sweep of App::open before the first request.
THEOREM NeverStrays == Spec => []NoStrays
<1>1. Init => StrayInv  BY DEF Init, StrayInv
<1>2. StrayInv => NoStrays  BY DEF StrayInv, NoStrays
<1>3. QED  BY <1>1, <1>2, IInvHolds, NextKeepsStrayInv, PTL DEF Spec

-----------------------------------------------------------------------------

\* A step that writes exports/ finds no row for the entry, or spares it.
LEMMA IndexedIsKept ==
    ASSUME IInv, [Next]_vars, NEW e \in Eids, row[e] # None
    PROVE  row'[e] = row[e] /\ exports'[e] = exports[e]
<1> USE DEF diskVars
<1>0. exports[e] # None /\ e \in entrySynced
  BY DEF IInv, IndexedIsComplete, IndexedIsSynced
<1>1. ASSUME NEW p \in Producers, NEW f \in Eids, GetGate(p, f)
      PROVE  row'[e] = row[e] /\ exports'[e] = exports[e]
  BY <1>1 DEF GetGate
<1>2. ASSUME NEW p \in Producers, ProducerStep(p)
      PROVE  row'[e] = row[e] /\ exports'[e] = exports[e]
  <2>1. CASE Rename(p)
    BY <1>0, <2>1 DEF Rename, IInv, TypeOK
  <2>2. CASE Commit(p)
    BY <2>2 DEF Commit, IInv, TypeOK
  <2>3. CASE Cleanup(p)
    <3>1. row[eid[p]] = None
      BY <2>3 DEF Cleanup, IInv, PublicationInv, Publishing
    <3>2. QED  BY <2>3, <3>1 DEF Cleanup, IInv, TypeOK
  <2>4. CASE LockGate(p) \/ Recheck(p) \/ Build(p) \/ WriteManifest(p)
               \/ SyncEntry(p) \/ Disarm(p) \/ DropLocals(p)
    BY <2>4 DEF LockGate, Recheck, Build, WriteManifest, SyncEntry, Disarm,
                DropLocals
  <2>5. QED  BY <1>2, <2>1, <2>2, <2>3, <2>4 DEF ProducerStep
<1>3. ASSUME NEW p \in Producers, Cancel(p)
      PROVE  row'[e] = row[e] /\ exports'[e] = exports[e]
  BY <1>3 DEF Cancel
<1>4. CASE Crash  BY <1>4 DEF Crash, EndProcess
<1>5. CASE PowerFailure  BY <1>0, <1>5 DEF PowerFailure, EndProcess
<1>6. CASE Open \/ Opened  BY <1>6 DEF Open, Opened
<1>7. ASSUME NEW f \in Eids, RemoveOrphan(f)
      PROVE  row'[e] = row[e] /\ exports'[e] = exports[e]
  BY <1>7 DEF RemoveOrphan, Orphan, IInv, TypeOK
<1>8. CASE UNCHANGED vars  BY <1>8 DEF vars
<1>9. QED
  BY <1>1, <1>2, <1>3, <1>4, <1>5, <1>6, <1>7, <1>8 DEF Next

\* "Published exports remain available" (docs/API.md:46): no step of any
\* producer, crash or restart replaces or removes an indexed export.
THEOREM PublishedStaysFinal == Spec => PublishedIsFinal
<1>1. IInv /\ [Next]_vars =>
        [\A e \in Eids : row[e] # None =>
           row'[e] = row[e] /\ exports'[e] = exports[e]]_vars
  BY IndexedIsKept
<1>2. QED  BY <1>1, IInvHolds, PTL DEF Spec, PublishedIsFinal

-----------------------------------------------------------------------------
(* Refinement of PublishedStore.                                           *)

AbsContent == [e \in Eids |-> Content(e)]
AbsAnswer == [p \in Producers |-> AnswerOf(p)]

LEMMA ContentIsRow ==
    /\ IInv => AbsContent = row
    /\ IInv' => AbsContent' = row'
BY DEF IInv, IndexedIsComplete, AbsContent, Content, TypeOK

LEMMA ProducerKeepsAnswerInv ==
    ASSUME IInv, AnswerInv, NEW p \in Producers, ProducerStep(p)
    PROVE  AnswerInv'
<1> USE DEF diskVars
<1>1. /\ pc[p] \in Active
      /\ \A q \in Producers \ {p} : pc'[q] = pc[q] /\ answer'[q] = answer[q]
  BY DEF ProducerStep, LockGate, Recheck, Build, WriteManifest, Rename, SyncEntry,
         Commit, Disarm, Cleanup, DropLocals, Goto, Return, Active, Points, IInv, TypeOK
<1>2. CASE LockGate(p) \/ Recheck(p) \/ Build(p) \/ WriteManifest(p) \/ Rename(p)
             \/ SyncEntry(p) \/ Disarm(p) \/ Cleanup(p)
  <2>1. /\ pc[p] \in Active \ {"drop"} /\ row' = row
        /\ \/ pc'[p] \in Active \ {"drop"} /\ answer'[p] = answer[p]
           \/ pc'[p] = "drop" /\ answer'[p] # "none"
        /\ pc[p] = "disarm" => pc'[p] = "drop"
    BY <1>2 DEF LockGate, Recheck, Build, WriteManifest, Rename, AfterRename, SyncEntry,
                Disarm, Cleanup, Goto, Return, Active, Points, IInv, TypeOK
  <2>2. \A q \in Producers : /\ pc'[q] \in Active \ {"drop"} => answer'[q] = "none"
                             /\ pc'[q] \in {"drop", "ended"} => answer'[q] # "none"
    BY <1>1, <2>1 DEF AnswerInv, Active, Points
  <2>3. \A e \in Eids : row[e] # None =>
             row[e] \in Producers /\ pc'[row[e]] \in {"disarm", "drop", "ended", "lost"}
    BY <1>1, <2>1, StoreAssumption DEF AnswerInv, IInv, TypeOK, Active, Points
  <2>4. QED  BY <2>1, <2>2, <2>3 DEF AnswerInv
<1>3. CASE Commit(p)
  <2>1. /\ answer' = answer /\ answer[p] = "none" /\ pc[p] = "commit"
        /\ pc'[p] \in {"cleanup", "disarm"}
        /\ \A e \in Eids : row'[e] = row[e] \/ (row'[e] = p /\ pc'[p] = "disarm")
    <3>1. answer' = answer /\ pc[p] = "commit"  BY <1>3 DEF Commit
    <3>2. answer[p] = "none"  BY <3>1 DEF AnswerInv, Active, Points
    <3>3. pc'[p] \in {"cleanup", "disarm"}
      BY <1>3 DEF Commit, AfterFailedCommit, Goto, IInv, TypeOK
    <3>4. \A e \in Eids : row'[e] = row[e] \/ (row'[e] = p /\ pc'[p] = "disarm")
      <4>1. CASE row' = row  BY <4>1
      <4>2. CASE row' = [row EXCEPT ![eid[p]] = p] /\ Goto(p, "disarm")
        <5>1. pc'[p] = "disarm"  BY <4>2 DEF Goto, IInv, TypeOK
        <5>2. \A e \in Eids : row'[e] = row[e] \/ row'[e] = p
          BY <4>2 DEF IInv, TypeOK
        <5>3. QED  BY <5>1, <5>2
      <4>3. QED  BY <1>3, <4>1, <4>2 DEF Commit
    <3>5. QED  BY <3>1, <3>2, <3>3, <3>4
  <2>2. \A q \in Producers : /\ pc'[q] \in Active \ {"drop"} => answer'[q] = "none"
                             /\ pc'[q] \in {"drop", "ended"} => answer'[q] # "none"
    BY <1>1, <2>1 DEF AnswerInv
  <2>3. ASSUME NEW e \in Eids, row'[e] # None
        PROVE  pc'[row'[e]] \in {"disarm", "drop", "ended", "lost"}
    <3>1. CASE row'[e] = row[e]
      <4>1. row[e] \in Producers /\ row[e] # p
        BY <2>1, <2>3, <3>1 DEF AnswerInv, IInv, TypeOK
      <4>2. QED  BY <1>1, <2>3, <3>1, <4>1 DEF AnswerInv
    <3>2. CASE row'[e] # row[e]
      <4>1. row'[e] = p /\ pc'[p] = "disarm"  BY <2>1, <3>2
      <4>2. QED  BY <4>1
    <3>3. QED  BY <3>1, <3>2
  <2>4. QED  BY <2>2, <2>3 DEF AnswerInv
<1>4. CASE DropLocals(p)
  <2>1. answer' = answer /\ row' = row /\ pc[p] = "drop" /\ pc'[p] = "ended"
    BY <1>4 DEF DropLocals, Goto, IInv, TypeOK
  <2>2. \A q \in Producers : /\ pc'[q] \in Active \ {"drop"} => answer'[q] = "none"
                             /\ pc'[q] \in {"drop", "ended"} => answer'[q] # "none"
    BY <1>1, <2>1 DEF AnswerInv, Active, Points
  <2>3. \A e \in Eids : row[e] # None =>
             row[e] \in Producers /\ pc'[row[e]] \in {"disarm", "drop", "ended", "lost"}
    BY <1>1, <2>1 DEF AnswerInv, IInv, TypeOK
  <2>4. QED  BY <2>1, <2>2, <2>3 DEF AnswerInv
<1>5. QED  BY <1>2, <1>3, <1>4 DEF ProducerStep

LEMMA NextKeepsAnswerInv == IInv /\ AnswerInv /\ [Next]_vars => AnswerInv'
<1> SUFFICES ASSUME IInv, AnswerInv, [Next]_vars PROVE AnswerInv'  OBVIOUS
<1> USE DEF diskVars
<1>1. ASSUME NEW p \in Producers, NEW e \in Eids, GetGate(p, e)  PROVE AnswerInv'
  BY <1>1 DEF GetGate, AnswerInv, IInv, GateInv, TypeOK, Goto
<1>2. ASSUME NEW p \in Producers, ProducerStep(p)  PROVE AnswerInv'
  BY <1>2, ProducerKeepsAnswerInv
<1>3. ASSUME NEW p \in Producers, Cancel(p)  PROVE AnswerInv'
  BY <1>3 DEF Cancel, AnswerInv
<1>4. CASE Crash \/ PowerFailure
  <2>1. EndProcess /\ row' = row  BY <1>4 DEF Crash, PowerFailure
  <2>2. QED  BY <2>1 DEF EndProcess, AnswerInv, Active, Points, IInv, TypeOK
<1>5. CASE Open \/ Opened  BY <1>5 DEF Open, Opened, AnswerInv
<1>6. ASSUME NEW e \in Eids, RemoveOrphan(e)  PROVE AnswerInv'
  BY <1>6 DEF RemoveOrphan, AnswerInv
<1>7. CASE UNCHANGED vars  BY <1>7 DEF vars, AnswerInv
<1>8. QED
  BY <1>1, <1>2, <1>3, <1>4, <1>5, <1>6, <1>7 DEF Next

\* A producer that is at work in ExportStore is so in PublishedStore.
LEMMA AtWorkMaps ==
    ASSUME IInv, AnswerInv, NEW p \in Producers
    PROVE  Store!AtWork(p) <=> pc[p] \in Active \ {"drop"}
<1>1. AbsAnswer[p] = AnswerOf(p)  BY DEF AbsAnswer
<1>2. pc[p] \in Points  BY DEF IInv, TypeOK
<1>3. CASE pc[p] = "unused"
  BY <1>3, StoreAssumption DEF Store!AtWork, Active, IInv, GateInv
<1>4. CASE pc[p] = "lost"
  BY <1>4 DEF Store!AtWork, Active, AnswerOf
<1>5. CASE pc[p] \in {"drop", "ended"}
  BY <1>5 DEF Store!AtWork, Active, AnswerOf, AnswerInv
<1>6. CASE pc[p] \in Active \ {"drop"}
  BY <1>6 DEF Store!AtWork, Active, AnswerOf, AnswerInv, IInv, GateInv
<1>7. QED  BY <1>2, <1>3, <1>4, <1>5, <1>6 DEF Active

LEMMA StutterRefines ==
    ASSUME IInv, IInv', UNCHANGED <<eid, row, AbsAnswer>>
    PROVE  UNCHANGED Store!vars
<1>1. AbsContent' = AbsContent  BY ContentIsRow
<1>2. QED  BY <1>1 DEF Store!vars, AbsContent, AbsAnswer

\* A step of a producer at work that does not answer.
LEMMA MoveRefines ==
    ASSUME IInv, IInv', NEW p \in Producers, pc[p] # "lost", pc'[p] # "lost",
           \A q \in Producers \ {p} : pc'[q] = pc[q],
           UNCHANGED <<eid, row, answer>>
    PROVE  UNCHANGED Store!vars
<1>1. \A q \in Producers : AnswerOf(q)' = AnswerOf(q)  BY DEF AnswerOf
<1>2. AbsAnswer' = AbsAnswer  BY <1>1 DEF AbsAnswer
<1>3. QED  BY <1>2, StutterRefines

LEMMA ReturnRefines ==
    ASSUME IInv, IInv', AnswerInv, NEW p \in Producers, pc[p] \in Active \ {"drop"},
           NEW why \in {"ok", "error", "cancelled"}, Return(p, why),
           UNCHANGED <<eid, row>>,
           IF why = "ok" THEN row[eid[p]] # None ELSE row[eid[p]] # p
    PROVE  Store!Next
<1>1. Store!AtWork(p)  BY AtWorkMaps
<1>2. AbsContent = row /\ AbsContent' = AbsContent
  BY ContentIsRow
<1>3. AbsAnswer' = [AbsAnswer EXCEPT ![p] = why]
  <2>1. AnswerOf(p)' = why  BY DEF Return, Goto, AnswerOf, IInv, TypeOK
  <2>2. \A q \in Producers \ {p} : AnswerOf(q)' = AnswerOf(q)
    BY DEF Return, Goto, AnswerOf, IInv, TypeOK
  <2>3. QED  BY <2>1, <2>2 DEF AbsAnswer
<1>4. Store!Answer(p, why)
  BY <1>1, <1>2, <1>3 DEF Store!Answer, AbsContent, AbsAnswer
<1>5. QED  BY <1>4 DEF Store!Next
LEMMA ProducerRefines ==
    ASSUME IInv, IInv', AnswerInv, NEW p \in Producers, ProducerStep(p)
    PROVE  [Store!Next]_Store!vars
<1> USE DEF diskVars
<1>1. /\ pc[p] # "lost" /\ pc'[p] # "lost" /\ eid' = eid
      /\ \A q \in Producers \ {p} : pc'[q] = pc[q]
  BY DEF ProducerStep, LockGate, Recheck, Build, WriteManifest, Rename, AfterRename,
         SyncEntry, Commit, AfterFailedCommit, Disarm, Cleanup, DropLocals, Goto, Return,
         IInv, TypeOK
<1>2. CASE UNCHANGED <<row, answer>>  BY <1>1, <1>2, MoveRefines
<1>3. CASE ~UNCHANGED <<row, answer>>
  <2>1. CASE Commit(p)
    <3>1. /\ pc[p] = "commit" /\ answer' = answer
          /\ row[eid[p]] = None /\ row' = [row EXCEPT ![eid[p]] = p]
      BY <1>3, <2>1 DEF Commit
    <3>2. Store!AtWork(p)  BY <3>1, AtWorkMaps DEF Active, Points
    <3>3. AbsContent = row /\ AbsContent' = row'  BY ContentIsRow
    <3>4. AbsAnswer' = AbsAnswer
      <4>1. \A q \in Producers : AnswerOf(q)' = AnswerOf(q)
        BY <1>1, <3>1 DEF AnswerOf
      <4>2. QED  BY <4>1 DEF AbsAnswer
    <3>5. Store!Publish(p)
      BY <1>1, <3>1, <3>2, <3>3, <3>4 DEF Store!Publish, AbsContent, AbsAnswer
    <3>6. QED  BY <3>5 DEF Store!Next
  <2>2. CASE ~Commit(p)
    <3>1. PICK why \in {"ok", "error", "cancelled"} :
            /\ Return(p, why) /\ UNCHANGED row /\ pc[p] \in Active \ {"drop"}
            /\ why = "ok" => row[eid[p]] # None
            /\ why # "ok" => pc[p] \notin {"disarm", "lost"}
      BY <1>2, <1>3, <2>2 DEF ProducerStep, LockGate, Recheck, Build, WriteManifest, Rename,
         SyncEntry, Disarm, Cleanup, DropLocals, Active, Points, IInv, PublicationInv
    <3>2. why # "ok" => row[eid[p]] # p
      <4>1. eid[p] \in Eids /\ p # None  BY <3>1, StoreAssumption DEF IInv, GateInv, Active
      <4>2. pc[p] \in {"disarm", "drop", "ended", "lost"} => pc[p] \in {"disarm", "lost"}
        BY <3>1 DEF Active, Points
      <4>3. QED  BY <3>1, <4>1, <4>2 DEF AnswerInv
    <3>3. QED  BY <1>1, <3>1, <3>2, ReturnRefines
  <2>3. QED  BY <2>1, <2>2
<1>4. QED  BY <1>2, <1>3

LEMMA AskRefines ==
    ASSUME IInv, IInv', AnswerInv, NEW p \in Producers, NEW e \in Eids, GetGate(p, e)
    PROVE  Store!Next
<1> USE DEF GetGate
<1>1. eid[p] = None  BY DEF IInv, GateInv
<1>2. AbsContent' = AbsContent  BY ContentIsRow
<1>3. AbsAnswer' = AbsAnswer
  <2>1. \A q \in Producers : AnswerOf(q)' = AnswerOf(q)
    BY DEF AnswerOf, Goto, IInv, TypeOK
  <2>2. QED  BY <2>1 DEF AbsAnswer
<1>4. Store!Ask(p, e)  BY <1>1, <1>2, <1>3 DEF Store!Ask, AbsContent, AbsAnswer
<1>5. QED  BY <1>4 DEF Store!Next

LEMMA EndRefines ==
    ASSUME IInv, IInv', AnswerInv, EndProcess, row' = row
    PROVE  Store!Next
<1> USE DEF EndProcess
<1>1. AbsContent' = AbsContent  BY ContentIsRow
<1>2. ASSUME NEW p \in Producers
      PROVE  AnswerOf(p)' = IF Store!AtWork(p) THEN "lost" ELSE AnswerOf(p)
  <2>1. Store!AtWork(p) <=> pc[p] \in Active \ {"drop"}  BY AtWorkMaps
  <2>2. pc'[p] = IF pc[p] \in Active THEN "lost" ELSE pc[p]  OBVIOUS
  <2>3. answer' = answer  OBVIOUS
  <2>4. pc[p] = "drop" => answer[p] # "none"  BY DEF AnswerInv
  <2>5. pc[p] \in Active \ {"drop"} => answer[p] = "none"  BY DEF AnswerInv
  <2>6. pc[p] = "lost" => pc[p] \notin Active  BY DEF Active
  <2>7. QED  BY <2>1, <2>2, <2>3, <2>4, <2>5, <2>6 DEF AnswerOf
<1>3. AbsAnswer' = [p \in Producers |-> IF Store!AtWork(p) THEN "lost" ELSE AbsAnswer[p]]
  BY <1>2 DEF AbsAnswer
<1>4. Store!Stop  BY <1>1, <1>3 DEF Store!Stop, AbsContent, AbsAnswer
<1>5. QED  BY <1>4 DEF Store!Next

LEMMA NextRefines ==
    IInv /\ IInv' /\ AnswerInv /\ [Next]_vars => [Store!Next]_Store!vars
<1> SUFFICES ASSUME IInv, IInv', AnswerInv, [Next]_vars PROVE [Store!Next]_Store!vars
  OBVIOUS
<1> DEFINE Goal == [Store!Next]_Store!vars
<1> USE DEF diskVars
<1>1. ASSUME NEW p \in Producers, NEW e \in Eids, GetGate(p, e)  PROVE Goal
  BY <1>1, AskRefines
<1>2. ASSUME NEW p \in Producers, ProducerStep(p)  PROVE Goal
  BY <1>2, ProducerRefines
<1>3. ASSUME UNCHANGED <<pc, eid, answer, row>>  PROVE Goal
  <2>1. \A p \in Producers : AnswerOf(p)' = AnswerOf(p)  BY <1>3 DEF AnswerOf
  <2>2. AbsAnswer' = AbsAnswer  BY <2>1 DEF AbsAnswer
  <2>3. QED  BY <1>3, <2>2, StutterRefines
<1>4. ASSUME NEW p \in Producers, Cancel(p)  PROVE Goal  BY <1>3, <1>4 DEF Cancel
<1>5. CASE Crash \/ PowerFailure  BY <1>5, EndRefines DEF Crash, PowerFailure
<1>6. CASE Open \/ Opened  BY <1>3, <1>6 DEF Open, Opened
<1>7. ASSUME NEW e \in Eids, RemoveOrphan(e)  PROVE Goal
  BY <1>3, <1>7 DEF RemoveOrphan
<1>8. CASE UNCHANGED vars  BY <1>3, <1>8 DEF vars
<1>9. QED  BY <1>1, <1>2, <1>4, <1>5, <1>6, <1>7, <1>8 DEF Next

LEMMA InitRefines == Init => Store!Init /\ AnswerInv
BY StoreAssumption DEF Init, Store!Init, Content, AnswerOf, AnswerInv, Active, Points

\* Publication, with crashes, power failures and recovery, is a store in which an
\* id gets one content once and whole, by an execution that has not answered; one
\* that answers with a failure or a cancellation never publishes (service.rs:806-1047).
THEOREM ExportStoreRefines == Spec => ImplementsStore
<1>1. Init => Store!Init /\ AnswerInv  BY InitRefines
<1>2. IInv /\ IInv' /\ AnswerInv /\ [Next]_vars => [Store!Next]_Store!vars
  BY NextRefines
<1>3. QED
  BY <1>1, <1>2, IInvHolds, NextKeepsAnswerInv, PTL
  DEF Spec, ImplementsStore, Store!Spec

=============================================================================
