----------------------------- MODULE Worker_proofs -----------------------------
(***************************************************************************)
(* For any streams, directories, limits, shapes of files and jobs: the     *)
(* demultiplexer accepts exactly the whole files.  The invariant relates   *)
(* what it remembers of each stream to the history of its parts; the heart *)
(* of the proof is OnlyTheseFollow, that the checks of a part are exactly  *)
(* those a stream needs to become whole.  The worker starts an extraction, *)
(* drops one and otherwise leaves it alone.                                *)
(***************************************************************************)
EXTENDS Worker, FiniteSetTheorems, SequenceTheorems, WellFoundedInduction, TLAPS

-----------------------------------------------------------------------------
(* UsmDemux: what a file has grown by.                                     *)

\* One more part of a stream.
Grows(id, part) == parts' = [parts EXCEPT ![id] = Append(@, part)]

LEMMA PartsGrow ==
    ASSUME DemuxTypeOK, NEW id \in Streams, NEW part \in Parts, Grows(id, part)
    PROVE  LET n == Len(parts[id]) + 1
           IN  /\ n \in Nat \ {0}
               /\ parts' \in [Streams -> Seq(Parts)]
               /\ DOMAIN parts[id] = 1..(n - 1) /\ DOMAIN parts'[id] = 1..n
               /\ Len(parts'[id]) = n /\ parts'[id][n] = part
               /\ \A k \in 1..(n - 1) : parts'[id][k] = parts[id][k]
               /\ \A i \in Streams \ {id} : parts'[i] = parts[i]
BY DEF DemuxTypeOK, Grows

LEMMA PlacesGrow ==
    ASSUME DemuxTypeOK, NEW id \in Streams, NEW part \in Parts, Grows(id, part)
    PROVE  LET n == Len(parts[id]) + 1
           IN  /\ \A q \in Parts :
                    /\ Places(id, q) \in SUBSET (1..(n - 1))
                    /\ Places(id, q)' = Places(id, q) \cup IF q = part THEN {n} ELSE {}
               /\ \A i \in Streams \ {id}, q \in Parts : Places(i, q)' = Places(i, q)
               /\ Found' = Found \cup {id}
<1> DEFINE n == Len(parts[id]) + 1
<1>1. /\ n \in Nat \ {0}
      /\ DOMAIN parts[id] = 1..(n - 1) /\ DOMAIN parts'[id] = 1..n
      /\ Len(parts'[id]) = n /\ parts'[id][n] = part
      /\ \A k \in 1..(n - 1) : parts'[id][k] = parts[id][k]
      /\ \A i \in Streams \ {id} : parts'[i] = parts[i]
  BY PartsGrow
<1> HIDE DEF n
<1>2. 1..n = 1..(n - 1) \cup {n} /\ n \notin 1..(n - 1)  BY <1>1
<1>3. ASSUME NEW q \in Parts
      PROVE  /\ Places(id, q) \in SUBSET (1..(n - 1))
             /\ Places(id, q)' = Places(id, q) \cup IF q = part THEN {n} ELSE {}
  BY <1>1, <1>2 DEF Places
<1>4. \A i \in Streams \ {id}, q \in Parts : Places(i, q)' = Places(i, q)
  BY <1>1 DEF Places
<1>5. parts'[id] # <<>>
  <2>1. Len(parts'[id]) # 0  BY <1>1
  <2> QED  BY <2>1
<1>6. Found' = Found \cup {id}  BY <1>1, <1>5 DEF Found
<1>7. QED  BY <1>3, <1>4, <1>6 DEF n

LEMMA PlacesAreFinite ==
    ASSUME DemuxTypeOK, NEW id \in Streams, NEW q \in Parts
    PROVE  /\ IsFiniteSet(Places(id, q)) /\ Payloads(id) \in Nat
           /\ Places(id, q) \in SUBSET (1..Len(parts[id]))
<1>1. Len(parts[id]) \in Nat /\ DOMAIN parts[id] = 1..Len(parts[id])
  BY DEF DemuxTypeOK
<1>2. \A p : Places(id, p) \in SUBSET (1..Len(parts[id]))  BY <1>1 DEF Places
<1>3. IsFiniteSet(1..Len(parts[id]))  BY <1>1, FS_Interval
<1>4. \A p : IsFiniteSet(Places(id, p))  BY <1>2, <1>3, FS_Subset
<1>5. QED  BY <1>2, <1>4, FS_CardinalityType DEF Payloads

LEMMA PayloadsAreFinite == DemuxTypeOK => IsFiniteSet(AllPayloads)
<1> SUFFICES ASSUME DemuxTypeOK PROVE IsFiniteSet(AllPayloads)  OBVIOUS
<1> DEFINE of(id) == {<<id, k>> : k \in Places(id, "payload")}
           sets == {of(id) : id \in Streams}
<1>1. ASSUME NEW id \in Streams PROVE IsFiniteSet(of(id))
  <2> DEFINE S == Places(id, "payload")
             f == [k \in S |-> <<id, k>>]
  <2>1. IsFiniteSet(S)  BY PlacesAreFinite DEF Parts
  <2>2. f \in Surjection(S, of(id))  BY DEF Surjection
  <2> HIDE DEF f, S
  <2>3. QED  BY <2>1, <2>2, FS_Surjection
<1>2. IsFiniteSet(sets)
  <2> DEFINE f == [id \in Streams |-> of(id)]
  <2>1. f \in Surjection(Streams, sets)  BY DEF Surjection
  <2> HIDE DEF f, sets
  <2>2. QED  BY <2>1, DemuxAssumption, FS_Surjection
<1>3. \A T \in sets : IsFiniteSet(T)  BY <1>1
<1> HIDE DEF sets
<1>4. IsFiniteSet(UNION sets)  BY <1>2, <1>3, FS_UNION
<1>5. QED  BY <1>4 DEF sets, AllPayloads

\* A payload is one more of its stream and of the file.
LEMMA PayloadsGrow ==
    ASSUME DemuxTypeOK, NEW id \in Streams, NEW part \in Parts, Grows(id, part)
    PROVE  LET more == IF part = "payload" THEN 1 ELSE 0
           IN  /\ Payloads(id)' = Payloads(id) + more
               /\ \A i \in Streams \ {id} : Payloads(i)' = Payloads(i)
               /\ Cardinality(AllPayloads)' = Cardinality(AllPayloads) + more
<1> DEFINE n == Len(parts[id]) + 1
<1>1. "payload" \in Parts  BY DEF Parts
<1>2. /\ Places(id, "payload") \in SUBSET (1..(n - 1))
      /\ Places(id, "payload")' =
           Places(id, "payload") \cup IF "payload" = part THEN {n} ELSE {}
      /\ \A i \in Streams \ {id} : Places(i, "payload")' = Places(i, "payload")
  BY <1>1, PlacesGrow
<1>3. n \in Nat  BY PartsGrow
<1> HIDE DEF n
<1>4. n \notin Places(id, "payload")  BY <1>2, <1>3
<1>5. IsFiniteSet(Places(id, "payload"))  BY <1>1, PlacesAreFinite
<1>6. \A i \in Streams \ {id} : Payloads(i)' = Payloads(i)  BY <1>2 DEF Payloads
<1>7. CASE part = "payload"
  <2>1. Places(id, "payload")' = Places(id, "payload") \cup {n}  BY <1>2, <1>7
  <2>2. Cardinality(Places(id, "payload") \cup {n}) = Cardinality(Places(id, "payload")) + 1
    BY <1>4, <1>5, FS_AddElement
  <2>3. AllPayloads' = AllPayloads \cup {<<id, n>>}
    BY <1>2, <2>1 DEF AllPayloads
  <2>4. <<id, n>> \notin AllPayloads  BY <1>4 DEF AllPayloads
  <2>5. Cardinality(AllPayloads \cup {<<id, n>>}) = Cardinality(AllPayloads) + 1
    BY <2>4, PayloadsAreFinite, FS_AddElement
  <2> QED  BY <1>6, <1>7, <2>1, <2>2, <2>3, <2>5 DEF Payloads
<1>8. CASE part # "payload"
  <2>1. \A i \in Streams : Places(i, "payload")' = Places(i, "payload")  BY <1>2, <1>8
  <2>2. AllPayloads' = AllPayloads  BY <2>1 DEF AllPayloads
  <2>3. Cardinality(AllPayloads) \in Nat  BY PayloadsAreFinite, FS_CardinalityType
  <2>4. Payloads(id) \in Nat  BY <1>1, PlacesAreFinite
  <2> QED  BY <1>6, <1>8, <2>1, <2>2, <2>3, <2>4 DEF Payloads
<1>9. QED  BY <1>7, <1>8

\* The parts that may come next are those that leave a stream whole or able to
\* become so.
MayFollow(id, part) ==
    /\ Places(id, "end") = {}
    /\ \/ part = "payload" /\ Places(id, "header") # {}
       \/ part = "header" /\ Places(id, "header") = {}
       \/ part = "end" /\ Places(id, "payload") # {}
       \/ part = "other"

LEMMA OnlyTheseFollow ==
    ASSUME DemuxTypeOK, NEW id \in Streams, NEW part \in Parts, Grows(id, part),
           CanBeWhole(id)
    PROVE  CanBeWhole(id)' <=> MayFollow(id, part)
<1> DEFINE n == Len(parts[id]) + 1
           Old(q) == Places(id, q)
           New(q) == Places(id, q)'
<1>1. /\ n \in Nat \ {0} /\ Len(parts'[id]) = n /\ parts'[id][n] = part
      /\ \A k \in 1..(n - 1) : parts'[id][k] = parts[id][k]
      /\ DOMAIN parts[id] = 1..(n - 1)
  BY PartsGrow
<1>2. \A q \in Parts : /\ Old(q) \in SUBSET (1..(n - 1))
                       /\ New(q) = Old(q) \cup IF q = part THEN {n} ELSE {}
  BY PlacesGrow
<1>3. Len(parts[id]) = n - 1  BY DEF DemuxTypeOK
<1>4. CanBeWhole(id)' <=>
        /\ New("bad") = {}
        /\ \A k \in New("header") : \A j \in 1..(k - 1) : parts'[id][j] = "other"
        /\ \A k \in New("payload") \cup New("end") : \E j \in New("header") : j < k
        /\ \A k \in New("end") : k = n /\ New("payload") # {}
  BY <1>1 DEF CanBeWhole
<1>5. /\ Old("bad") = {}
      /\ \A k \in Old("header") : \A j \in 1..(k - 1) : parts[id][j] = "other"
      /\ \A k \in Old("payload") \cup Old("end") : \E j \in Old("header") : j < k
      /\ \A k \in Old("end") : k = n - 1 /\ Old("payload") # {}
  BY <1>3 DEF CanBeWhole
<1>6. \A k \in 1..(n - 1), q \in Parts : k \in Old(q) <=> parts[id][k] = q
  BY <1>1 DEF Places
<1>7. \A k \in 1..(n - 1) : parts[id][k] \in Parts  BY <1>1 DEF DemuxTypeOK
<1>8. MayFollow(id, part) <=>
        /\ Old("end") = {}
        /\ \/ part = "payload" /\ Old("header") # {}
           \/ part = "header" /\ Old("header") = {}
           \/ part = "end" /\ Old("payload") # {}
           \/ part = "other"
  BY DEF MayFollow
<1> HIDE DEF n, Old, New
<1> USE DEF Parts
<1>9. ASSUME MayFollow(id, part) PROVE CanBeWhole(id)'
  <2>1. New("bad") = {}  BY <1>2, <1>5, <1>8, <1>9
  <2>2. ASSUME NEW k \in New("header"), NEW j \in 1..(k - 1)
        PROVE  parts'[id][j] = "other"
    <3>1. CASE k \in Old("header")
      <4>1. k \in 1..(n - 1) /\ j \in 1..(n - 1)  BY <1>1, <1>2, <2>2, <3>1
      <4> QED  BY <1>1, <1>5, <2>2, <3>1, <4>1
    <3>2. CASE k \notin Old("header")
      <4>1. k = n /\ part = "header"  BY <1>2, <2>2, <3>2
      <4>2. Old("header") = {} /\ Old("end") = {} /\ Old("payload") = {}
        BY <1>5, <1>8, <1>9, <4>1
      <4>3. j \in 1..(n - 1)  BY <1>1, <2>2, <4>1
      <4> QED  BY <1>1, <1>5, <1>6, <1>7, <4>2, <4>3
    <3> QED  BY <3>1, <3>2
  <2>3. ASSUME NEW k \in New("payload") \cup New("end")
        PROVE  \E j \in New("header") : j < k
    <3>1. CASE k \in Old("payload") \cup Old("end")  BY <1>2, <1>5, <3>1
    <3>2. CASE k \notin Old("payload") \cup Old("end")
      <4>1. k = n /\ part \in {"payload", "end"}  BY <1>2, <2>3, <3>2
      <4>2. Old("header") # {}  BY <1>5, <1>8, <1>9, <4>1
      <4>3. PICK j \in Old("header") : j \in 1..(n - 1)  BY <1>2, <4>2
      <4>4. j < n /\ j \in New("header")  BY <1>1, <1>2, <4>3
      <4> QED  BY <4>1, <4>4
    <3> QED  BY <3>1, <3>2
  <2>4. \A k \in New("end") : k = n /\ New("payload") # {}
    BY <1>2, <1>8, <1>9
  <2> QED  BY <1>4, <2>1, <2>2, <2>3, <2>4
<1>10. ASSUME CanBeWhole(id)' PROVE MayFollow(id, part)
  <2>1. Old("end") = {}
    <3>1. \A k \in Old("end") : k \in 1..(n - 1) /\ k \in New("end")  BY <1>2
    <3> QED  BY <1>1, <1>4, <1>10, <3>1
  <2>2. part # "bad"  BY <1>2, <1>4, <1>10
  <2>3. part = "payload" => Old("header") # {}
    <3> HAVE part = "payload"
    <3>1. n \in New("payload") /\ New("header") = Old("header")  BY <1>2
    <3> QED  BY <1>4, <1>10, <3>1
  <2>4. part = "header" => Old("header") = {}
    <3> HAVE part = "header"
    <3>1. n \in New("header")  BY <1>2
    <3>2. \A j \in 1..(n - 1) : parts'[id][j] = "other"  BY <1>4, <1>10, <3>1
    <3> QED  BY <1>1, <1>2, <1>6, <3>2
  <2>5. part = "end" => Old("payload") # {}
    <3> HAVE part = "end"
    <3>1. n \in New("end") /\ New("payload") = Old("payload")  BY <1>2
    <3> QED  BY <1>4, <1>10, <3>1
  <2> QED  BY <1>8, <2>1, <2>2, <2>3, <2>4, <2>5
<1>11. QED  BY <1>9, <1>10

-----------------------------------------------------------------------------
(* UsmDemux: a step of the extraction.                                     *)

\* What is checked of a part is whether it may follow, and the limits.
LEMMA FitsIsMayFollow ==
    ASSUME DemuxTypeOK, NEW id \in Streams, NEW part \in Parts, StreamInv(id)
    PROVE  MayGoOn(id) /\ Fits(id, part) <=>
             MayFollow(id, part) /\ (part = "payload" => total < Limit)
<1>1. IsFiniteSet(Places(id, "payload"))  BY PlacesAreFinite DEF Parts
<1>2. Payloads(id) \in Nat /\ (Payloads(id) = 0 <=> Places(id, "payload") = {})
  BY <1>1, FS_CardinalityType, FS_EmptySet DEF Payloads
<1>3. out[id] # <<>> <=> Payloads(id) # 0
  <2>1. out[id] \in Seq(BOOLEAN)  BY DEF DemuxTypeOK
  <2>2. Len(out[id]) = Payloads(id)  BY <1>2 DEF StreamInv
  <2> QED  BY <2>1, <2>2
<1>4. QED  BY <1>2, <1>3 DEF StreamInv, MayGoOn, Fits, MayFollow, HasHeader

LEMMA TakeKeepsType ==
    ASSUME DemuxTypeOK, NEW id \in Streams, NEW part \in Parts, Grows(id, part),
           Take(id, part), UNCHANGED <<key, phase, crid, declared>>, last' = "chunk"
    PROVE  DemuxTypeOK'
<1>1. parts' \in [Streams -> Seq(Parts)]  BY PartsGrow
<1>2. codec' \in [Streams -> {0, 2, 4}]  BY DEF DemuxTypeOK, Take
<1>3. out' \in [Streams -> Seq(BOOLEAN)]
  <2>1. Unmasked(id) \in BOOLEAN  BY DEF Unmasked, DemuxTypeOK
  <2> QED  BY <2>1 DEF DemuxTypeOK, Take
<1>4. total' \in Nat  BY DEF DemuxTypeOK, Take
<1>5. QED  BY <1>1, <1>2, <1>3, <1>4 DEF DemuxTypeOK, Take

LEMMA TakeKeepsStream ==
    ASSUME DemuxTypeOK, NEW id \in Streams, NEW part \in Parts, Grows(id, part),
           Take(id, part), UNCHANGED key, MayFollow(id, part), StreamInv(id)
    PROVE  StreamInv(id)'
<1>1. CanBeWhole(id)'  BY OnlyTheseFollow DEF StreamInv
<1>2. \A q \in Parts :
        Places(id, q)' = Places(id, q) \cup IF q = part THEN {Len(parts[id]) + 1} ELSE {}
  BY PlacesGrow
<1>3. id \in header' <=> Places(id, "header")' # {}
  BY <1>2 DEF StreamInv, Take, Parts
<1>4. id \in ended' <=> Places(id, "end")' # {}
  BY <1>2 DEF StreamInv, Take, Parts
<1>5. Payloads(id)' = Payloads(id) + IF part = "payload" THEN 1 ELSE 0
  BY PayloadsGrow
<1>6. Payloads(id) \in Nat  BY PlacesAreFinite DEF Parts
<1>7. out[id] = [k \in 1..Payloads(id) |-> Unmasked(id)]  BY DEF StreamInv
<1>8. CASE part = "payload"
  <2>1. codec' = codec /\ out'[id] = Append(out[id], Unmasked(id))
    BY <1>8 DEF Take, DemuxTypeOK
  <2>2. Unmasked(id)' = Unmasked(id)  BY <2>1 DEF Unmasked
  <2> DEFINE p == Payloads(id)
             u == Unmasked(id)
  <2>3. out'[id] = [k \in 1..(p + 1) |-> u]
    <3>1. p \in Nat /\ out[id] = [k \in 1..p |-> u]
          /\ out'[id] = Append(out[id], u)
      BY <1>6, <1>7, <2>1
    <3> HIDE DEF p, u
    <3> QED  BY <3>1
  <2>4. out'[id] = [k \in 1..Payloads(id)' |-> Unmasked(id)']
    BY <1>5, <1>8, <2>2, <2>3
  <2> QED  BY <1>1, <1>3, <1>4, <2>4 DEF StreamInv
<1>9. CASE part # "payload"
  <2>1. Payloads(id)' = Payloads(id) /\ out' = out  BY <1>5, <1>6, <1>9 DEF Take
  <2>2. codec'[id] = codec[id] \/ Payloads(id) = 0
    <3>1. CASE part = "header"
      <4>1. Places(id, "header") = {} /\ CanBeWhole(id)
        BY <3>1 DEF MayFollow, StreamInv
      <4>2. Places(id, "payload") = {}  BY <4>1 DEF CanBeWhole
      <4> QED  BY <4>2, FS_EmptySet DEF Payloads
    <3>2. CASE part # "header"  BY <3>2 DEF Take
    <3> QED  BY <3>1, <3>2
  <2>3. out'[id] = [k \in 1..Payloads(id)' |-> Unmasked(id)']
    <3>1. CASE codec'[id] = codec[id]
      <4>1. Unmasked(id)' = Unmasked(id)  BY <3>1 DEF Unmasked
      <4> QED  BY <1>7, <2>1, <4>1
    <3>2. CASE Payloads(id) = 0
      <4>1. \A u, v : [k \in 1..0 |-> u] = [k \in 1..0 |-> v]  OBVIOUS
      <4>2. out'[id] = [k \in 1..0 |-> Unmasked(id)]  BY <1>7, <2>1, <3>2
      <4>3. out'[id] = [k \in 1..0 |-> Unmasked(id)']  BY <4>1, <4>2
      <4> QED  BY <2>1, <3>2, <4>3
    <3> QED  BY <2>2, <3>1, <3>2
  <2> QED  BY <1>1, <1>3, <1>4, <2>3 DEF StreamInv
<1>10. QED  BY <1>8, <1>9

LEMMA OthersStay ==
    ASSUME DemuxTypeOK, NEW id \in Streams, NEW part \in Parts, Grows(id, part),
           Take(id, part), UNCHANGED key, NEW i \in Streams \ {id}, StreamInv(i)
    PROVE  StreamInv(i)'
<1>1. \A q \in Parts : Places(i, q)' = Places(i, q)  BY PlacesGrow
<1>2. parts'[i] = parts[i]  BY PartsGrow
<1>3. CanBeWhole(i)'
  BY <1>1, <1>2 DEF StreamInv, CanBeWhole, Parts
<1>4. Payloads(i)' = Payloads(i)  BY PayloadsGrow
<1>5. codec'[i] = codec[i] /\ out'[i] = out[i]  BY DEF Take, DemuxTypeOK
<1>6. Unmasked(i)' = Unmasked(i)  BY <1>5 DEF Unmasked
<1>7. (i \in header' <=> i \in header) /\ (i \in ended' <=> i \in ended)  BY DEF Take
<1>8. out'[i] = [k \in 1..Payloads(i)' |-> Unmasked(i)']
  BY <1>4, <1>5, <1>6 DEF StreamInv
<1>9. QED  BY <1>1, <1>3, <1>7, <1>8 DEF StreamInv, Parts

LEMMA FoundIsFinite == Found \in SUBSET Streams /\ IsFiniteSet(Found)
BY DemuxAssumption, FS_Subset DEF Found

\* A part that is refused could not be part of any file that is accepted.
LEMMA ChunkKeeps ==
    ASSUME DemuxIInv, NEW id \in Streams, NEW part \in Parts, Chunk(id, part)
    PROVE  DemuxIInv'
<1>1. /\ DemuxTypeOK /\ phase = "read" /\ Grows(id, part)
      /\ opened = Found /\ total = Cardinality(AllPayloads)
      /\ \A i \in Streams : StreamInv(i)
      /\ last' = "chunk" /\ UNCHANGED key
  BY DEF DemuxIInv, DemuxInv, Chunk, Grows
<1>2. Found' = Found \cup {id}  BY <1>1, PlacesGrow
<1>3. Cardinality(AllPayloads)' =
        Cardinality(AllPayloads) + IF part = "payload" THEN 1 ELSE 0
  BY <1>1, PayloadsGrow
<1>4. CASE crid /\ HasTrack(id) /\ MayGoOn(id) /\ Fits(id, part)
  <2>1. Take(id, part) /\ UNCHANGED <<phase, crid, declared>>  BY <1>4 DEF Chunk
  <2>2. MayFollow(id, part)  BY <1>1, <1>4, FitsIsMayFollow
  <2>3. DemuxTypeOK'  BY <1>1, <2>1, TakeKeepsType
  <2>4. StreamInv(id)'  BY <1>1, <2>1, <2>2, TakeKeepsStream
  <2>5. \A i \in Streams : StreamInv(i)'  BY <1>1, <2>1, <2>4, OthersStay
  <2>6. opened' = Found'  BY <1>1, <1>2, <2>1 DEF Take
  <2>7. total' = Cardinality(AllPayloads)'
    <3>1. total \in Nat /\ total' = IF part = "payload" THEN total + 1 ELSE total
      BY <1>1, <2>1 DEF Take, DemuxTypeOK
    <3> QED  BY <1>1, <1>3, <3>1
  <2>8. phase' = "read"  BY <1>1, <2>1
  <2> QED
    BY <2>3, <2>5, <2>6, <2>7, <2>8 DEF DemuxIInv, DemuxInv, AcceptsExactlyWholeFiles
<1>5. CASE ~(crid /\ HasTrack(id) /\ MayGoOn(id) /\ Fits(id, part))
  <2>1. phase' = "rejected" /\ UNCHANGED <<crid, declared, streamVars>>
    BY <1>5 DEF Chunk, Reject
  <2>2. DemuxTypeOK'
    <3>1. parts' \in [Streams -> Seq(Parts)]  BY <1>1, PartsGrow
    <3> QED  BY <1>1, <2>1, <3>1 DEF DemuxTypeOK, streamVars
  <2>3. CASE ~crid
    BY <1>1, <2>1, <2>2, <2>3 DEF DemuxIInv, DemuxInv, AcceptsExactlyWholeFiles
  <2>4. CASE ~HasTrack(id)
    <3>1. id \notin Found /\ ~(Cardinality(Found) < MaxTracks)
      BY <1>1, <2>4 DEF HasTrack
    <3>2. Cardinality(Found \cup {id}) = Cardinality(Found) + 1
          /\ Cardinality(Found) \in Nat
      BY <3>1, FoundIsFinite, FS_AddElement, FS_CardinalityType
    <3>3. Cardinality(Found') = Cardinality(Found) + 1  BY <1>2, <3>2
    <3>4. Cardinality(Found') > MaxTracks  BY <3>1, <3>2, <3>3, DemuxAssumption
    <3> QED
      BY <1>1, <2>1, <2>2, <3>4
      DEF DemuxIInv, DemuxInv, AcceptsExactlyWholeFiles
  <2>5. CASE ~MayFollow(id, part)
    <3>1. ~CanBeWhole(id)'  BY <1>1, <2>5, OnlyTheseFollow DEF StreamInv
    <3>2. id \in Found'  BY <1>2
    <3> QED
      BY <1>1, <2>1, <2>2, <3>1, <3>2
      DEF DemuxIInv, DemuxInv, AcceptsExactlyWholeFiles
  <2>6. CASE part = "payload" /\ ~(total < Limit)
    <3>1. total \in Nat  BY <1>1 DEF DemuxTypeOK
    <3>2. Cardinality(AllPayloads)' > Limit  BY <1>1, <1>3, <2>6, <3>1, DemuxAssumption
    <3> QED
      BY <1>1, <2>1, <2>2, <3>2
      DEF DemuxIInv, DemuxInv, AcceptsExactlyWholeFiles
  <2>7. QED  BY <1>1, <1>5, <2>3, <2>4, <2>5, <2>6, FitsIsMayFollow
<1>6. QED  BY <1>4, <1>5

LEMMA SameParts ==
    ASSUME UNCHANGED <<key, streamVars, parts>>
    PROVE  /\ Found' = Found /\ AllPayloads' = AllPayloads
           /\ WholeFile' <=> crid' /\ declared' \in {{}, Found}
                             /\ (\A id \in Found : Whole(id))
                             /\ Cardinality({id \in Found : Video(id)}) = 1
                             /\ \A i, j \in Found : i[1] = j[1] => i = j
           /\ \A id : StreamInv(id)' <=> StreamInv(id)
BY DEF streamVars, Found, AllPayloads, Places, WholeFile, Whole, CanBeWhole, Payloads,
       StreamInv, Unmasked, Audio, Video

LEMMA DirectoryKeeps ==
    ASSUME DemuxIInv, NEW streams \in Directories, NEW good \in BOOLEAN,
           Directory(streams, good)
    PROVE  DemuxIInv'
<1>1. UNCHANGED <<key, streamVars, parts>>  BY DEF Directory, Reject
<1>2. DemuxTypeOK'
  <2>1. declared' \in {declared, streams} /\ crid' \in {crid, TRUE}
        /\ phase' \in {phase, "rejected"} /\ last' = "directory"
    BY DEF Directory, Reject
  <2>2. streams \in SUBSET Streams  BY DemuxAssumption
  <2> QED  BY <1>1, <2>1, <2>2 DEF DemuxIInv, DemuxTypeOK, streamVars
<1>3. DemuxInv'
  BY <1>1, SameParts DEF Directory, Reject, DemuxIInv, DemuxInv, streamVars
<1>4. phase' \in {"read", "rejected"} /\ last' = "directory"
  BY DEF Directory, Reject
<1>5. QED  BY <1>2, <1>3, <1>4 DEF DemuxIInv, AcceptsExactlyWholeFiles

\* At most one of a kind, for each kind there is, is what pairwise difference says.
LEMMA AtMostOne ==
    ASSUME NEW S, IsFiniteSet(S)
    PROVE  Cardinality(S) <= 1 <=> \A i, j \in S : i = j
<1>1. Cardinality(S) \in Nat  BY FS_CardinalityType
<1>2. ASSUME Cardinality(S) <= 1, NEW i \in S, NEW j \in S  PROVE i = j
  <2>1. CASE Cardinality(S) = 0  BY <1>2, <2>1, FS_EmptySet
  <2>2. CASE Cardinality(S) = 1
    <3>1. \E x : S = {x}  BY <2>2, FS_Singleton
    <3> QED  BY <1>2, <3>1
  <2> QED  BY <1>1, <1>2, <2>1, <2>2
<1>3. ASSUME \A i, j \in S : i = j  PROVE Cardinality(S) <= 1
  <2>1. CASE S = {}  BY <2>1, FS_EmptySet
  <2>2. CASE S # {}
    <3>1. PICK x \in S : TRUE  BY <2>2
    <3>2. S = {x}  BY <1>3, <3>1
    <3> QED  BY <3>2, FS_Singleton
  <2> QED  BY <2>1, <2>2
<1>4. QED  BY <1>2, <1>3

LEMMA OneOfAKind ==
    /\ Tracks("SFV") = 1 /\ Tracks("SFA") <= 1 /\ Tracks("ALP") <= 1 /\ opened = Found
    <=> /\ opened = Found
        /\ Cardinality({id \in Found : Video(id)}) = 1
        /\ \A i, j \in Found : i[1] = j[1] => i = j
<1> SUFFICES ASSUME opened = Found
             PROVE  Tracks("SFV") = 1 /\ Tracks("SFA") <= 1 /\ Tracks("ALP") <= 1
                    <=> /\ Cardinality({id \in Found : Video(id)}) = 1
                        /\ \A i, j \in Found : i[1] = j[1] => i = j
  OBVIOUS
<1> DEFINE of(s) == {id \in Found : id[1] = s}
<1>1. \A s : Tracks(s) = Cardinality(of(s))  BY DEF Tracks
<1>2. of("SFV") = {id \in Found : Video(id)}  BY DEF Video
<1>3. \A s : IsFiniteSet(of(s))  BY FoundIsFinite, FS_Subset
<1>4. \A i \in Found : i[1] \in {"SFV", "SFA", "ALP"}
  BY FoundIsFinite, DemuxAssumption
<1>5. (\A i, j \in Found : i[1] = j[1] => i = j)
      <=> \A s \in {"SFV", "SFA", "ALP"} : \A i, j \in of(s) : i = j
  BY <1>4
<1>6. \A s : (Tracks(s) <= 1) <=> (\A i, j \in of(s) : i = j)
  BY <1>1, <1>3, AtMostOne
<1> HIDE DEF of
<1>7. Tracks("SFV") = 1 => Tracks("SFV") <= 1  OBVIOUS
<1>8. QED  BY <1>1, <1>2, <1>5, <1>6, <1>7

LEMMA EndOfFileKeeps == ASSUME DemuxIInv, EndOfFile PROVE DemuxIInv'
<1>1. /\ DemuxTypeOK /\ phase = "read" /\ opened = Found
      /\ \A id \in Streams : StreamInv(id)
  BY DEF DemuxIInv, DemuxInv, EndOfFile
<1>2. UNCHANGED <<key, crid, declared, streamVars, parts>> /\ last' = "end"
  BY DEF EndOfFile
<1> DEFINE good == /\ AsDeclared /\ crid /\ Complete
                   /\ Tracks("SFV") = 1 /\ Tracks("SFA") <= 1 /\ Tracks("ALP") <= 1
<1>3. phase' = IF good THEN "accepted" ELSE "rejected"  BY DEF EndOfFile
<1>4. Complete <=> \A id \in Found : Whole(id)
  <2>1. ASSUME NEW id \in Found
        PROVE  id \in header /\ id \in ended <=> Whole(id)
    <3>1. id \in Streams  BY FoundIsFinite
    <3>2. Places(id, "end") # {} => Places(id, "header") # {}
      BY <1>1, <3>1 DEF StreamInv, CanBeWhole
    <3> QED  BY <1>1, <3>1, <3>2 DEF StreamInv, Whole
  <2> QED  BY <1>1, <2>1 DEF Complete
<1>5. good <=> WholeFile
  BY <1>1, <1>4, OneOfAKind DEF AsDeclared, WholeFile
<1>6. WholeFile' <=> WholeFile  BY <1>2, SameParts DEF WholeFile
<1>7. \A id \in Found : StreamInv(id)'  BY <1>1, <1>2, SameParts, FoundIsFinite
<1>8. Found' = Found  BY <1>2, SameParts
<1>9. DemuxTypeOK'
  BY <1>1, <1>2, <1>3 DEF DemuxTypeOK, streamVars
<1> HIDE DEF good
<1>10. AcceptsExactlyWholeFiles'
  BY <1>2, <1>3, <1>5, <1>6, <1>7, <1>8
  DEF AcceptsExactlyWholeFiles, StreamInv, Unmasked
<1>11. QED  BY <1>3, <1>9, <1>10 DEF DemuxIInv, DemuxInv

LEMMA DemuxKeeps == DemuxIInv /\ Demux => DemuxIInv'
BY DirectoryKeeps, ChunkKeeps, EndOfFileKeeps DEF Demux

LEMMA NothingRead ==
    ASSUME parts = OfNone(<<>>), DemuxTypeOK
    PROVE  /\ Found = {}
           /\ AllPayloads = {} /\ Cardinality(AllPayloads) = 0
           /\ \A id \in Streams, q \in Parts : Places(id, q) = {}
<1>1. \A id \in Streams : parts[id] = <<>>  BY DEF OfNone
<1>2. \A id \in Streams, q \in Parts : Places(id, q) = {}  BY <1>1 DEF Places
<1>3. AllPayloads = {}  BY <1>2 DEF AllPayloads, Parts
<1>4. QED  BY <1>1, <1>2, <1>3, FS_EmptySet DEF Found

\* A file of which nothing is read: before the first one, and after a restart.
Blank ==
    /\ phase \in {"idle", "read", "rejected"} /\ last = "none"
    /\ opened = {} /\ header = {} /\ ended = {}
    /\ out = OfNone(<<>>) /\ total = 0 /\ parts = OfNone(<<>>)

LEMMA BlankIsFine == Blank /\ DemuxTypeOK => DemuxIInv
<1> SUFFICES ASSUME Blank, DemuxTypeOK PROVE DemuxIInv  OBVIOUS
<1> USE DEF Blank
<1>1. AcceptsExactlyWholeFiles  BY DEF AcceptsExactlyWholeFiles
<1>2. ASSUME NEW id \in Streams PROVE StreamInv(id)
  <2>1. \A q \in Parts : Places(id, q) = {}  BY NothingRead
  <2>2. Payloads(id) = 0  BY <2>1, FS_EmptySet DEF Payloads, Parts
  <2>3. out[id] = [k \in 1..0 |-> Unmasked(id)]  BY DEF OfNone
  <2> QED  BY <2>1, <2>2, <2>3 DEF StreamInv, CanBeWhole, Parts
<1>3. DemuxInv  BY <1>2, NothingRead DEF DemuxInv
<1>4. QED  BY <1>1, <1>3 DEF DemuxIInv

LEMMA NothingOfAny ==
    /\ OfNone(0) \in [Streams -> {0, 2, 4}]
    /\ \A S : OfNone(<<>>) \in [Streams -> Seq(S)]
BY EmptySeq DEF OfNone

LEMMA DemuxInitHolds == DemuxInit => DemuxIInv
<1> SUFFICES ASSUME DemuxInit PROVE DemuxIInv  OBVIOUS
<1>1. DemuxTypeOK  BY NothingOfAny DEF DemuxInit, DemuxTypeOK
<1>2. Blank  BY DEF DemuxInit, Blank
<1>3. QED  BY <1>1, <1>2, BlankIsFine

LEMMA RestartKeeps ==
    ASSUME DemuxIInv, NEW next \in {"idle", "read", "rejected"}, Restart(next)
    PROVE  DemuxIInv'
<1>1. DemuxTypeOK'  BY NothingOfAny DEF Restart, DemuxTypeOK, DemuxIInv
<1>2. Blank'  BY DEF Restart, Blank, OfNone
<1>3. (Blank /\ DemuxTypeOK => DemuxIInv)'  BY BlankIsFine, PTL
<1>4. QED  BY <1>1, <1>2, <1>3

-----------------------------------------------------------------------------
(* The worker.                                                             *)

LEMMA SameDemux == DemuxIInv /\ UNCHANGED demuxVars => DemuxIInv'
<1> SUFFICES ASSUME DemuxIInv, UNCHANGED demuxVars PROVE DemuxIInv'  OBVIOUS
<1>1. UNCHANGED <<key, phase, crid, declared, streamVars, parts, last>>  BY DEF demuxVars
<1>2. UNCHANGED <<opened, header, codec, ended, out, total>>  BY <1>1 DEF streamVars
<1>3. DemuxTypeOK'  BY <1>1, <1>2 DEF DemuxIInv, DemuxTypeOK
<1>4. DemuxInv'  BY <1>1, <1>2, SameParts DEF DemuxIInv, DemuxInv
<1>5. AcceptsExactlyWholeFiles'
  <2>1. Found' = Found /\ AllPayloads' = AllPayloads  BY <1>1, SameParts
  <2>2. \A id : (CanBeWhole(id)' <=> CanBeWhole(id)) /\ Payloads(id)' = Payloads(id)
    BY <1>1 DEF CanBeWhole, Payloads, Places
  <2>3. WholeFile' <=> WholeFile
    BY <1>1, <1>2 DEF WholeFile, Whole, CanBeWhole, Found, Places, Video
  <2> QED  BY <1>1, <1>2, <2>1, <2>2, <2>3 DEF DemuxIInv, AcceptsExactlyWholeFiles
<1>6. QED  BY <1>3, <1>4, <1>5 DEF DemuxIInv

LEMMA WorkerStep == DemuxIInv /\ [Next]_vars => DemuxIInv'
<1> SUFFICES ASSUME DemuxIInv, [Next]_vars PROVE DemuxIInv'  OBVIOUS
<1>1. CASE Begin  BY <1>1, SameDemux DEF Begin
<1>2. CASE Convert  BY <1>2, SameDemux DEF Convert
<1>3. CASE OpenWrapper \/ OpenAtlas \/ OpenAcb \/ Unsupported
  BY <1>3, SameDemux DEF OpenWrapper, OpenAtlas, OpenAcb, Unsupported, Replace
<1>4. CASE OpenUsm  BY <1>4, SameDemux, RestartKeeps DEF OpenUsm
<1>5. CASE DemuxStep  BY <1>5, DemuxKeeps DEF DemuxStep
<1>6. CASE Extracted  BY <1>6, RestartKeeps DEF Extracted
<1>7. CASE PrepareVideo \/ DecodeWave
  BY <1>7, SameDemux DEF PrepareVideo, DecodeWave
<1>8. CASE Encode \/ Check \/ Keep \/ ToolFails
  BY <1>8, SameDemux DEF Encode, Check, Keep, ToolFails
<1>9. CASE Finish \/ ReadResult  BY <1>9, SameDemux DEF Finish, ReadResult
<1>10. CASE Killed  BY <1>10, RestartKeeps DEF Killed
<1>11. CASE UNCHANGED vars  BY <1>11, SameDemux DEF vars
<1>12. QED
  BY <1>1, <1>2, <1>3, <1>4, <1>5, <1>6, <1>7, <1>8, <1>9, <1>10, <1>11 DEF Next

\* The inductive invariant of usm::extract, for any worker that calls it.
THEOREM DemuxIInvHolds == Spec => []DemuxIInv
<1>1. Init => DemuxIInv  BY DemuxInitHolds DEF Init
<1>2. QED  BY <1>1, WorkerStep, PTL DEF Spec

\* The variables of the extraction keep their types.
THEOREM DemuxTypeCorrect == Spec => []DemuxTypeOK
<1>1. DemuxIInv => DemuxTypeOK  BY DEF DemuxIInv
<1>2. QED  BY <1>1, DemuxIInvHolds, PTL

\* usm::extract accepts a file exactly when all of its streams are whole, there
\* is one video and what the directory declares, gives one up early only when it
\* can not become such a file, and unmasks each payload as the header of its own
\* stream says, however the chunks of the streams interleave.
THEOREM AlwaysAcceptsExactly == Spec => []AcceptsExactlyWholeFiles
<1>1. DemuxIInv => AcceptsExactlyWholeFiles  BY DEF DemuxIInv
<1>2. QED  BY <1>1, DemuxIInvHolds, PTL

-----------------------------------------------------------------------------
(* Sequences, and least elements.                                          *)

LEMMA IsSeqDef ==
    ASSUME NEW s
    PROVE  /\ IsSeq(s) => /\ Len(s) \in Nat /\ DOMAIN s = 1..Len(s)
                          /\ s \in [1..Len(s) -> ToSet(s)]
           /\ \A S : s \in Seq(S) => IsSeq(s)
<1>1. IsSeq(s) => /\ Len(s) \in Nat /\ DOMAIN s = 1..Len(s)
                  /\ s \in [1..Len(s) -> ToSet(s)]
  BY LenProperties DEF IsSeq
<1>2. ASSUME NEW S, s \in Seq(S) PROVE IsSeq(s)
  <2>1. Len(s) \in Nat /\ DOMAIN s = 1..Len(s) /\ s \in [1..Len(s) -> S]
    BY <1>2, LenProperties
  <2>2. s \in [1..Len(s) -> ToSet(s)]  BY <2>1 DEF ToSet
  <2>3. QED  BY <2>1, <2>2, SeqDef DEF IsSeq
<1>3. QED  BY <1>1, <1>2

\* Two sequences, and one more element, are over one set.
LEMMA Common ==
    ASSUME NEW s, NEW t, NEW u, IsSeq(s), IsSeq(t), IsSeq(u), NEW x
    PROVE  \E S : s \in Seq(S) /\ t \in Seq(S) /\ u \in Seq(S) /\ x \in S
<1> DEFINE S == ToSet(s) \cup ToSet(t) \cup ToSet(u) \cup {x}
<1>1. s \in Seq(S) /\ t \in Seq(S) /\ u \in Seq(S)
  BY SeqMonotonic DEF IsSeq
<1>2. QED  BY <1>1

LEMMA SameSeq ==
    ASSUME NEW s, NEW t, IsSeq(s), IsSeq(t), Len(s) = Len(t),
           \A i \in 1..Len(s) : s[i] = t[i]
    PROVE  s = t
BY Common, SeqEqual

LEMMA Joined ==
    ASSUME NEW s, NEW t, IsSeq(s), IsSeq(t)
    PROVE  /\ IsSeq(s \o t) /\ Len(s \o t) = Len(s) + Len(t)
           /\ \A i \in 1..(Len(s) + Len(t)) :
                (s \o t)[i] = IF i <= Len(s) THEN s[i] ELSE t[i - Len(s)]
           /\ s \o <<>> = s /\ <<>> \o s = s
<1>1. PICK S : s \in Seq(S) /\ t \in Seq(S)  BY Common
<1>2. /\ s \o t \in Seq(S) /\ Len(s \o t) = Len(s) + Len(t)
      /\ \A i \in 1..(Len(s) + Len(t)) :
           (s \o t)[i] = IF i <= Len(s) THEN s[i] ELSE t[i - Len(s)]
  BY <1>1, ConcatProperties
<1>3. s \o <<>> = s /\ <<>> \o t = t /\ <<>> \o s = s  BY <1>1, ConcatEmptySeq
<1>4. QED  BY <1>2, <1>3, IsSeqDef

LEMMA One == ASSUME NEW x PROVE IsSeq(<<x>>) /\ Len(<<x>>) = 1 /\ <<x>>[1] = x
<1>1. <<x>> \in Seq({x})  OBVIOUS
<1>2. QED  BY <1>1, IsSeqDef

LEMMA NoSeq == IsSeq(<<>>) /\ Len(<<>>) = 0
BY EmptySeq, IsSeqDef

LEMMA JoinedHead ==
    ASSUME NEW x, NEW t, IsSeq(t)
    PROVE  /\ <<x>> \o t # <<>> /\ Head(<<x>> \o t) = x /\ Tail(<<x>> \o t) = t
<1>1. PICK S : t \in Seq(S) /\ x \in S  BY Common
<1>2. <<x>> \in Seq(S) /\ Len(<<x>>) = 1  BY <1>1
<1>3. QED  BY <1>1, <1>2

LEMMA Assoc ==
    ASSUME NEW s, NEW t, NEW u, IsSeq(s), IsSeq(t), IsSeq(u)
    PROVE  (s \o t) \o u = s \o (t \o u)
BY Common, ConcatAssociative

LEMMA Appended ==
    ASSUME NEW s, IsSeq(s), NEW x
    PROVE  /\ IsSeq(Append(s, x)) /\ Append(s, x) = s \o <<x>>
           /\ Len(Append(s, x)) = Len(s) + 1 /\ Append(s, x) # <<>>
           /\ DOMAIN Append(s, x) = 1..(Len(s) + 1)
           /\ \A i \in 1..Len(s) : Append(s, x)[i] = s[i]
           /\ Append(s, x)[Len(s) + 1] = x
<1>1. PICK S : s \in Seq(S) /\ x \in S  BY Common
<1>2. /\ Append(s, x) \in Seq(S) /\ Append(s, x) # <<>>
      /\ Len(Append(s, x)) = Len(s) + 1
      /\ \A i \in 1..Len(s) : Append(s, x)[i] = s[i]
      /\ Append(s, x)[Len(s) + 1] = x
  BY <1>1, AppendProperties
<1>3. Append(s, x) = s \o <<x>>  BY <1>1, AppendIsConcat
<1>4. IsSeq(Append(s, x)) /\ DOMAIN Append(s, x) = 1..(Len(s) + 1)
  BY <1>2, IsSeqDef
<1>5. QED  BY <1>2, <1>3, <1>4

LEMMA CutSeq ==
    ASSUME NEW s, IsSeq(s), NEW j \in 0..Len(s)
    PROVE  /\ IsSeq(SubSeq(s, j + 1, Len(s))) /\ IsSeq(SubSeq(s, 1, j))
           /\ Len(SubSeq(s, j + 1, Len(s))) = Len(s) - j /\ Len(SubSeq(s, 1, j)) = j
           /\ j = 0 => SubSeq(s, j + 1, Len(s)) = s /\ SubSeq(s, 1, j) = <<>>
           /\ j = Len(s) => SubSeq(s, j + 1, Len(s)) = <<>> /\ SubSeq(s, 1, j) = s
           /\ j < Len(s) =>
                /\ SubSeq(s, j + 1, Len(s)) = <<s[j + 1]>> \o SubSeq(s, j + 1 + 1, Len(s))
                /\ SubSeq(s, 1, j + 1) = SubSeq(s, 1, j) \o <<s[j + 1]>>
<1>1. s \in Seq(ToSet(s)) /\ Len(s) \in Nat /\ j \in Nat /\ j <= Len(s)
  BY IsSeqDef DEF IsSeq
<1>2. \A i \in 1..Len(s) : s[i] \in ToSet(s)  BY <1>1, ElementOfSeq
<1>3. SubSeq(s, j + 1, Len(s)) \in Seq(ToSet(s)) /\ Len(SubSeq(s, j + 1, Len(s))) = Len(s) - j
  <2>1. \A i \in (j + 1)..Len(s) : s[i] \in ToSet(s)  BY <1>1, <1>2
  <2>2. /\ SubSeq(s, j + 1, Len(s)) \in Seq(ToSet(s))
        /\ Len(SubSeq(s, j + 1, Len(s))) =
             IF j + 1 <= Len(s) THEN Len(s) - (j + 1) + 1 ELSE 0
    BY <1>1, <2>1, SubSeqProperties
  <2>3. QED  BY <1>1, <2>2
<1>4. SubSeq(s, 1, j) \in Seq(ToSet(s)) /\ Len(SubSeq(s, 1, j)) = j
  <2>1. \A i \in 1..j : s[i] \in ToSet(s)  BY <1>1, <1>2
  <2>2. /\ SubSeq(s, 1, j) \in Seq(ToSet(s))
        /\ Len(SubSeq(s, 1, j)) = IF 1 <= j THEN j - 1 + 1 ELSE 0
    BY <1>1, <2>1, SubSeqProperties
  <2>3. QED  BY <1>1, <2>2
<1>5. SubSeq(s, 1, Len(s)) = s  BY <1>1, SubSeqFull
<1>6. j = Len(s) => SubSeq(s, j + 1, Len(s)) = <<>>  BY <1>1, SubSeqEmpty
<1>7. j = 0 => SubSeq(s, 1, j) = <<>>  BY <1>1, SubSeqEmpty
<1>8. ASSUME j < Len(s)
      PROVE  /\ SubSeq(s, j + 1, Len(s)) = <<s[j + 1]>> \o SubSeq(s, j + 1 + 1, Len(s))
             /\ SubSeq(s, 1, j + 1) = SubSeq(s, 1, j) \o <<s[j + 1]>>
  <2>1. j + 1 \in 1..Len(s) /\ Len(s) \in (j + 1)..Len(s) /\ 1 \in 1..Len(s)
        /\ j + 1 - 1 = j
    BY <1>1, <1>8
  <2>2. SubSeq(s, j + 1, Len(s)) = <<s[j + 1]>> \o SubSeq(s, j + 1 + 1, Len(s))
    BY <1>1, <2>1, SubSeqRecursiveFirst
  <2>3. SubSeq(s, 1, j + 1) = SubSeq(s, 1, j + 1 - 1) \o <<s[j + 1]>>
    BY <1>1, <2>1, SubSeqRecursiveSecond
  <2>4. QED  BY <2>1, <2>2, <2>3
<1>9. j = 0 => SubSeq(s, j + 1, Len(s)) = s  BY <1>5
<1>10. j = Len(s) => SubSeq(s, 1, j) = s  BY <1>5
<1>11. IsSeq(SubSeq(s, j + 1, Len(s))) /\ IsSeq(SubSeq(s, 1, j))  BY <1>3, <1>4, IsSeqDef
<1>12. QED  BY <1>3, <1>4, <1>6, <1>7, <1>8, <1>9, <1>10, <1>11

LEMMA Listed ==
    ASSUME NEW n \in Nat, NEW s, DOMAIN s = 1..n, s = [i \in 1..n |-> s[i]]
    PROVE  IsSeq(s) /\ Len(s) = n
<1>1. s \in [1..n -> {s[i] : i \in 1..n}]  OBVIOUS
<1>2. s \in Seq({s[i] : i \in 1..n})  BY <1>1, SeqDef
<1>3. QED  BY <1>2, IsSeqDef

\* A set of naturals that is not empty has a least element.
LEMMA LeastOf ==
    ASSUME NEW T \in SUBSET Nat, T # {}
    PROVE  \E n \in T : \A m \in T : ~(m < n)
<1> DEFINE R == OpToRel(<, Nat)
<1>1. IsWellFoundedOn(R, Nat)  BY NatLessThanWellFounded
<1> HIDE DEF R
<1>2. PICK n \in T : \A m \in T : ~(<<m, n>> \in R)
  BY <1>1, WFMin
<1>3. \A m \in T : m < n => <<m, n>> \in R  BY DEF R, OpToRel
<1> QED  BY <1>2, <1>3

-----------------------------------------------------------------------------
(* FlattenSeq.                                                             *)

\* The function that FlattenSeq is defined by, for the first n.
Flattens(g, s, n) == g = [i \in 1..n |-> IF i = 1 THEN s[i] ELSE g[i - 1] \o s[i]]

LEMMA FlattensExists == ASSUME NEW s, NEW n \in Nat PROVE \E g : Flattens(g, s, n)
<1> DEFINE T == {m \in Nat : ~\E g : Flattens(g, s, m)}
<1>1. ASSUME T # {} PROVE FALSE
  <2>1. PICK m \in T : \A k \in T : ~(k < m)  BY <1>1, LeastOf
  <2>2. m \in Nat /\ ~\E g : Flattens(g, s, m)  BY <2>1
  <2>3. CASE m = 0
    <3>1. Flattens([i \in 1..0 |-> 0], s, 0)
      BY DEF Flattens
    <3>2. QED  BY <2>2, <2>3, <3>1
  <2>4. CASE m # 0
    <3>1. m - 1 \in Nat /\ m - 1 < m  BY <2>2, <2>4
    <3>2. PICK g : Flattens(g, s, m - 1)  BY <2>1, <3>1
    <3> DEFINE h == [i \in 1..m |-> IF i < m THEN g[i]
                                    ELSE IF i = 1 THEN s[i] ELSE g[i - 1] \o s[i]]
    <3>3. ASSUME NEW i \in 1..m
          PROVE  h[i] = IF i = 1 THEN s[i] ELSE h[i - 1] \o s[i]
      <4>1. i # 1 => i - 1 \in 1..m /\ i - 1 < m  BY <2>2
      <4>2. i # 1 => h[i - 1] = g[i - 1]  BY <4>1
      <4>3. i < m => i \in 1..(m - 1)  BY <2>2
      <4>4. i < m => g[i] = IF i = 1 THEN s[i] ELSE g[i - 1] \o s[i]
        BY <3>2, <4>3 DEF Flattens
      <4>5. QED  BY <4>2, <4>4
    <3>4. h = [i \in 1..m |-> h[i]]  OBVIOUS
    <3> HIDE DEF h
    <3>5. h = [i \in 1..m |-> IF i = 1 THEN s[i] ELSE h[i - 1] \o s[i]]
      BY <3>3, <3>4
    <3>6. QED  BY <2>2, <3>5 DEF Flattens
  <2>5. QED  BY <2>3, <2>4
<1>2. QED  BY <1>1

LEMMA FlattensAgree ==
    ASSUME NEW s, NEW t, NEW g, NEW h, NEW n \in Nat, NEW m \in Nat, n <= m,
           Flattens(g, s, n), Flattens(h, t, m), \A i \in 1..n : s[i] = t[i],
           NEW j \in 1..n
    PROVE  g[j] = h[j]
<1> DEFINE T == {i \in 1..n : g[i] # h[i]}
<1>1. ASSUME T # {} PROVE FALSE
  <2>1. T \in SUBSET Nat  OBVIOUS
  <2>2. PICK i \in T : \A k \in T : ~(k < i)  BY <1>1, <2>1, LeastOf
  <2>3. i \in 1..n /\ i \in 1..m /\ g[i] # h[i]  OBVIOUS
  <2>4. g[i] = IF i = 1 THEN s[i] ELSE g[i - 1] \o s[i]  BY <2>3 DEF Flattens
  <2>5. h[i] = IF i = 1 THEN t[i] ELSE h[i - 1] \o t[i]  BY <2>3 DEF Flattens
  <2>6. i # 1 => i - 1 \in 1..n /\ i - 1 < i  BY <2>3
  <2>7. i # 1 => g[i - 1] = h[i - 1]  BY <2>2, <2>6
  <2>8. QED  BY <2>3, <2>4, <2>5, <2>7
<1>2. QED  BY <1>1

LEMMA FlattenIs ==
    ASSUME NEW s, Len(s) \in Nat, Len(s) # 0
    PROVE  \E g : Flattens(g, s, Len(s)) /\ FlattenSeq(s) = g[Len(s)]
<1> DEFINE f == CHOOSE g : g = [i \in 1..Len(s) |-> IF i = 1 THEN s[i] ELSE g[i - 1] \o s[i]]
<1>1. \E g : g = [i \in 1..Len(s) |-> IF i = 1 THEN s[i] ELSE g[i - 1] \o s[i]]
  BY FlattensExists DEF Flattens
<1>2. f = [i \in 1..Len(s) |-> IF i = 1 THEN s[i] ELSE f[i - 1] \o s[i]]
  BY <1>1
<1>3. FlattenSeq(s) = f[Len(s)]  BY DEF FlattenSeq
<1> HIDE DEF f
<1>4. QED  BY <1>2, <1>3 DEF Flattens

LEMMA FlattenNone == FlattenSeq(<<>>) = <<>>
BY NoSeq DEF FlattenSeq

\* One more sequence is appended to what the others make up.
LEMMA FlattenMore ==
    ASSUME NEW s, NEW t, NEW n \in Nat, Len(s) = n, Len(t) = n + 1,
           IsSeq(s), \A i \in 1..n : s[i] = t[i], IsSeq(t[n + 1])
    PROVE  FlattenSeq(t) = FlattenSeq(s) \o t[n + 1]
<1>1. PICK h : Flattens(h, t, n + 1) /\ FlattenSeq(t) = h[n + 1]
  BY FlattenIs
<1>2. h[n + 1] = IF n + 1 = 1 THEN t[n + 1] ELSE h[n + 1 - 1] \o t[n + 1]
  <2>1. h = [i \in 1..(n + 1) |-> IF i = 1 THEN t[i] ELSE h[i - 1] \o t[i]]
    BY <1>1 DEF Flattens
  <2>2. \A i \in 1..(n + 1) : h[i] = IF i = 1 THEN t[i] ELSE h[i - 1] \o t[i]
    BY <2>1
  <2>3. n + 1 \in 1..(n + 1)  OBVIOUS
  <2>4. QED  BY <2>2, <2>3
<1>3. CASE n = 0
  <2>1. s = <<>>  BY <1>3, IsSeqDef, NoSeq, SameSeq
  <2>2. FlattenSeq(s) \o t[n + 1] = t[n + 1]  BY <2>1, FlattenNone, Joined, NoSeq
  <2>3. h[n + 1] = t[n + 1]  BY <1>2, <1>3
  <2>4. QED  BY <1>1, <2>2, <2>3
<1>4. CASE n # 0
  <2>1. PICK g : Flattens(g, s, n) /\ FlattenSeq(s) = g[n]  BY <1>4, FlattenIs
  <2>2. n \in 1..n /\ n <= n + 1 /\ n + 1 # 1 /\ n + 1 - 1 = n /\ n + 1 \in Nat  BY <1>4
  <2>3. g[n] = h[n]  BY <1>1, <2>1, <2>2, FlattensAgree
  <2>4. QED  BY <1>1, <1>2, <2>1, <2>2, <2>3
<1>5. QED  BY <1>3, <1>4

-----------------------------------------------------------------------------
(* Total: the bytes of a list of sizes.                                    *)

BytesOf(sizes) == UNION {{i} \X (1..sizes[i]) : i \in DOMAIN sizes}

LEMMA BytesAreFinite ==
    ASSUME NEW n \in Nat, NEW s, DOMAIN s = 1..n, \A i \in 1..n : s[i] \in Nat
    PROVE  IsFiniteSet(BytesOf(s)) /\ Total(s) = Cardinality(BytesOf(s)) /\ Total(s) \in Nat
<1> DEFINE row(i) == {i} \X (1..s[i])
           rows == {row(i) : i \in 1..n}
<1>1. IsFiniteSet(1..n)  BY FS_Interval
<1>2. IsFiniteSet(rows)
  <2> DEFINE f == [i \in 1..n |-> row(i)]
  <2>1. f \in Surjection(1..n, rows)  BY DEF Surjection
  <2> HIDE DEF f, rows
  <2>2. QED  BY <1>1, <2>1, FS_Surjection
<1>3. ASSUME NEW R \in rows PROVE IsFiniteSet(R)
  <2>1. PICK i \in 1..n : R = row(i)  BY <1>3
  <2>2. s[i] \in Int  OBVIOUS
  <2>3. IsFiniteSet({i})  BY FS_Singleton
  <2>4. IsFiniteSet(1..s[i])  BY <2>2, FS_Interval
  <2>5. QED  BY <2>1, <2>3, <2>4, FS_Product
<1> HIDE DEF rows
<1>4. IsFiniteSet(UNION rows)  BY <1>2, <1>3, FS_UNION
<1> USE DEF rows
<1>5. IsFiniteSet(BytesOf(s)) /\ Total(s) = Cardinality(BytesOf(s))
  BY <1>4 DEF BytesOf, Total
<1>6. QED  BY <1>5, FS_CardinalityType

LEMMA TotalMore ==
    ASSUME NEW n \in Nat, NEW s, NEW t, DOMAIN s = 1..n, DOMAIN t = 1..(n + 1),
           \A i \in 1..n : s[i] \in Nat /\ t[i] = s[i], t[n + 1] \in Nat
    PROVE  Total(s) \in Nat /\ Total(t) = Total(s) + t[n + 1]
<1> DEFINE A == BytesOf(s)
           B == {n + 1} \X (1..t[n + 1])
<1>1. IsFiniteSet(A) /\ Total(s) = Cardinality(A) /\ Total(s) \in Nat
  BY BytesAreFinite
<1>2. Total(t) = Cardinality(BytesOf(t))
  BY BytesAreFinite
<1>3. BytesOf(t) = A \cup B
  BY DEF BytesOf
<1>4. A \cap B = {}
  BY DEF BytesOf
<1>5. IsFiniteSet(B) /\ Cardinality(B) = t[n + 1]
  <2>1. IsFiniteSet({n + 1}) /\ Cardinality({n + 1}) = 1  BY FS_Singleton
  <2>2. IsFiniteSet(1..t[n + 1]) /\ Cardinality(1..t[n + 1]) = t[n + 1]
    BY FS_Interval
  <2>3. QED  BY <2>1, <2>2, FS_Product
<1> HIDE DEF A, B
<1>6. Cardinality(A \cup B) = Cardinality(A) + Cardinality(B)
  <2>1. Cardinality(A \cap B) = 0  BY <1>4, FS_EmptySet
  <2>2. Cardinality(A) \in Nat /\ Cardinality(B) \in Nat  BY <1>1, <1>5, FS_CardinalityType
  <2>3. Cardinality(A \cup B) = Cardinality(A) + Cardinality(B) - Cardinality(A \cap B)
    BY <1>1, <1>5, FS_Union
  <2>4. QED  BY <2>1, <2>2, <2>3
<1>7. QED  BY <1>1, <1>2, <1>3, <1>5, <1>6

-----------------------------------------------------------------------------
(* The inductive invariant of a job.                                       *)

\* The content of each file.
Made == [i \in DOMAIN files |-> output[files[i].path].of]

\* What the first k units become, and the units after them.
Flat(k) == FlattenSeq([i \in 1..k |-> Becomes(Units[i])])
Rest(k) == SubSeq(Units, k + 1, Len(Units))

\* What is known of a unit all of which is converted.
Passed(u) ==
    /\ Inner(u).do = "acb" => AcbAccepted(Inner(u))
    /\ Inner(u).do = "usm" =>
         /\ Inner(u).source \in DOMAIN found
         /\ Inner(u).streams # None => found[Inner(u).source] = Inner(u).streams

\* Unit k is converted: front is left of it, done is made of it.
Inside(k, front, done) ==
    /\ k \in 1..Len(Units)
    /\ todo = front \o Rest(k)
    /\ Made = Flat(k - 1) \o done
    /\ \A i \in 1..(k - 1) : Passed(Units[i])

\* k units are converted.
Between(k) ==
    /\ k \in 0..Len(Units)
    /\ todo = Rest(k) /\ Made = Flat(k)
    /\ \A i \in 1..k : Passed(Units[i])
    /\ k > 0 => files # <<>> \/ empties > 0

\* The container of a unit, out of its wrapper if it has one.
Opened(u) ==
    /\ Inner(u).do \in {"acb", "usm"}
    /\ u.do = "wrapper" => Route(u) \in {"split", "embedded"}
    /\ Route(u) = "split" => Assembled(u)
    /\ Route(u) = "embedded" => Unwrapped(u)

Holds(k) == Inside(k, <<Inner(Units[k])>>, <<>>) /\ Opened(Units[k])

\* What a unit is converted as: its waves, its sprites, or itself.
LeavesOf(u) ==
    CASE Inner(u).do = "acb" -> Waves(Inner(u))
      [] u.do = "atlas" -> u.sprites
      [] OTHER -> <<u>>

Leafy(u) ==
    \/ Inner(u).do = "acb" /\ Opened(u) /\ AcbAccepted(Inner(u))
    \/ u.do = "atlas" /\ Route(u) = "atlas"
    \/ Route(u) \in Direct

Left(k) == 0..(Len(LeavesOf(Units[k])) - 1)

\* j leaves of unit k are converted, and there is another one.
Leaves(k, j) ==
    LET u == Units[k]
    IN  /\ Inside(k, SubSeq(LeavesOf(u), j + 1, Len(LeavesOf(u))), SubSeq(Becomes(u), 1, j))
        /\ Leafy(u)

\* A video of unit k whose streams are extracted.
Split(k, done) ==
    LET u == Inner(Units[k])
    IN  /\ Inside(k, <<u>>, done) /\ Opened(Units[k]) /\ u.do = "usm"
        /\ Passed(Units[k])
        /\ Has(u, "SFV")
        /\ \A id \in found[u.source].ids :
             id[1] \in {"SFV", "SFA", "ALP"} /\ id \in DOMAIN temp /\ temp[id] = u.source

Content == {<<t.kind, temp[t.file]>> : t \in current.tracks}

\* What is encoded of unit k.
Making(k) ==
    LET u == Inner(Units[k])
    IN  \/ /\ current.role = "wave" /\ Inner(Units[k]).do = "acb"
           /\ \E j \in Left(k) : Leaves(k, j) /\ Content = Becomes(Units[k])[j + 1]
        \/ /\ current.role = "video" /\ Split(k, <<>>) /\ <<Content>> = Becomes(Units[k])
        \/ /\ current.role = "color" /\ Split(k, <<>>)
           /\ Has(u, "ALP") /\ <<Content, {<<"alpha", u.source>>}>> = Becomes(Units[k])
        \/ /\ current.role = "alpha"
           /\ \E x \in ToSet(Becomes(Units[k])) :
                Split(k, <<x>>) /\ <<x, Content>> = Becomes(Units[k])

\* What is encoded, not yet counted.
Encoded ==
    /\ Target \in DOMAIN output
    /\ output[Target].of = Content
    /\ output[Target].size \in Nat
    /\ written + output[Target].size <= wanted
    /\ output[Target].lost \in {"nothing", "audio tail", "more"}
    /\ output[Target].lost # "nothing" => wanted > OutputBytes

FileSizes == [i \in DOMAIN files |-> files[i].size]

FilesInv ==
    /\ IsSeq(files) /\ Len(files) <= MaxFiles
    /\ \A i \in DOMAIN files :
         /\ files[i].path[1] = i - 1
         /\ files[i].path \in DOMAIN output
         /\ files[i].size \in Nat
         /\ output[files[i].path].size = files[i].size
         /\ output[files[i].path].lost \in {"nothing", "audio tail"}
    /\ Total(FileSizes) = written
    /\ written \in Nat /\ wanted \in Nat
    /\ written <= OutputBytes /\ written <= wanted
    /\ empties \in Nat

NextInv ==
    \/ \E k \in 0..Len(Units) : Between(k)
    \/ \E k \in 1..Len(Units) : Holds(k) \/ \E j \in Left(k) : Leaves(k, j)

ControlInv ==
    /\ stage = "begin" => files = <<>> /\ empties = 0
    /\ stage = "next" => NextInv
    /\ stage = "demux" =>
         \E k \in 1..Len(Units) : /\ Holds(k) /\ Inner(Units[k]).do = "usm"
                                  /\ Inner(Units[k]).streams = None
    /\ stage = "verify" => \E k \in 1..Len(Units) : Split(k, <<>>)
    /\ stage \in {"encode", "check", "keep"} => \E k \in 1..Len(Units) : Making(k)
    /\ stage \in {"check", "keep"} => Encoded
    /\ stage = "keep" => output[Target].lost # "more"
    /\ stage \notin {"begin", "result", "ended"} => JobAccepted
    /\ stage = "result" =>
         IF result.error THEN Reason
         ELSE /\ JobAccepted /\ Between(Len(Units)) /\ result.files = files
              /\ files # <<>> \/ result.empty
    /\ stage = "ended" => PublishedIsComplete /\ FailsWithReason
    /\ stage # "ended" => verdict = "none"

VideoFound == phase = "accepted" => \E id \in opened : id[1] = "SFV"

WorkerInv == job \in Jobs /\ FilesInv /\ ControlInv /\ VideoFound

-----------------------------------------------------------------------------
(* Units of a job.                                                         *)

UnitShape(u) == u.do \in {"font", "input"} \/ ObjectShape(u) \/ ContainerShape(u)

IsUsm(u) == Inner(u).do = "usm"

\* A job's units are of the shapes its inputs and objects have.
LEMMA UnitsOfJob ==
    ASSUME job \in Jobs, JobAccepted
    PROVE  /\ IsSeq(Units) /\ Len(Units) \in Nat /\ Len(Units) > 0
           /\ DOMAIN Units = 1..Len(Units)
           /\ \A i \in 1..Len(Units) : UnitShape(Units[i])
           /\ \A i, k \in 1..Len(Units) :
                /\ IsUsm(Units[i]) /\ IsUsm(Units[k])
                /\ Inner(Units[i]).source = Inner(Units[k]).source
                => i = k
<1>1. JobShape(job)  BY WorkerAssumption
<1>2. /\ IsSeq(job.inputs) /\ IsSeq(job.objects)
      /\ Len(job.inputs) \in Nat /\ DOMAIN job.inputs = 1..Len(job.inputs)
      /\ Len(job.objects) \in Nat /\ DOMAIN job.objects = 1..Len(job.objects)
  BY <1>1, IsSeqDef DEF JobShape
<1>3. \A i \in DOMAIN job.inputs : job.inputs[i].do = "input"  BY <1>1 DEF JobShape
<1>4. CASE job.archive
  <2> DEFINE font == IF job.font THEN <<[do |-> "font", id |-> "font", good |-> TRUE]>> ELSE <<>>
  <2>1. Units = font \o job.inputs  BY <1>4 DEF Units
  <2>2. IsSeq(font) /\ (job.font => Len(font) = 1 /\ font[1].do = "font")
        /\ (~job.font => Len(font) = 0)
    BY One, NoSeq
  <2> HIDE DEF font
  <2>3. /\ IsSeq(Units) /\ Len(Units) = Len(font) + Len(job.inputs)
        /\ \A i \in 1..(Len(font) + Len(job.inputs)) :
             Units[i] = IF i <= Len(font) THEN font[i] ELSE job.inputs[i - Len(font)]
    BY <1>2, <2>1, <2>2, Joined
  <2>4. Len(Units) \in Nat /\ DOMAIN Units = 1..Len(Units)  BY <2>3, IsSeqDef
  <2>5. job.inputs # <<>> => Len(job.inputs) > 0
    BY <1>2, NoSeq, SameSeq
  <2>6. Len(Units) > 0
    BY <1>2, <1>4, <2>2, <2>3, <2>5 DEF JobAccepted
  <2>7. ASSUME NEW i \in 1..Len(Units) PROVE Units[i].do \in {"font", "input"}
    <3>1. CASE i <= Len(font)
      <4>1. Len(font) = 1 /\ font[1].do = "font" /\ i = 1  BY <2>2, <2>3, <3>1
      <4>2. Units[i] = font[i]  BY <2>3, <3>1
      <4>3. QED  BY <4>1, <4>2
    <3>2. CASE ~(i <= Len(font))
      <4>1. Len(font) \in Nat  BY <2>2
      <4>2. i - Len(font) \in DOMAIN job.inputs  BY <1>2, <2>3, <3>2, <4>1
      <4>3. Units[i] = job.inputs[i - Len(font)]  BY <2>3, <3>2
      <4>4. QED  BY <1>3, <4>2, <4>3
    <3>3. QED  BY <3>1, <3>2
  <2>8. \A i \in 1..Len(Units) : ~IsUsm(Units[i])  BY <2>7 DEF IsUsm, Inner
  <2>9. \A i \in 1..Len(Units) : UnitShape(Units[i])  BY <2>7 DEF UnitShape
  <2>10. QED  BY <2>3, <2>4, <2>6, <2>8, <2>9
<1>5. CASE ~job.archive /\ Media
  <2>1. Cardinality(Raw) = 1  BY <1>5 DEF JobAccepted
  <2>2. IsFiniteSet(Raw)
    <3>1. IsFiniteSet(1..Len(job.inputs))  BY <1>2, FS_Interval
    <3>2. QED  BY <1>2, <3>1, FS_Subset DEF Raw
  <2>3. Raw # {}  BY <2>1, FS_EmptySet
  <2> DEFINE r == CHOOSE i \in Raw : TRUE
  <2>4. r \in Raw  BY <2>3
  <2> HIDE DEF r
  <2>5. ContainerShape(job.inputs[r].container)  BY <1>1, <2>4 DEF JobShape, Raw
  <2>6. Units = <<job.inputs[r].container>>  BY <1>5 DEF Units, r
  <2>7. IsSeq(Units) /\ Len(Units) = 1 /\ Units[1] = job.inputs[r].container
    BY <2>6, One
  <2>8. DOMAIN Units = 1..Len(Units)  BY <2>7, IsSeqDef
  <2>9. \A i \in 1..Len(Units) : i = 1  BY <2>7
  <2>10. UnitShape(Units[1])  BY <2>5, <2>7 DEF UnitShape
  <2>11. \A i \in 1..Len(Units) : UnitShape(Units[i])  BY <2>9, <2>10
  <2>12. QED  BY <2>7, <2>8, <2>9, <2>11
<1>6. CASE ~job.archive /\ ~Media
  <2>1. Units = job.objects  BY <1>6 DEF Units
  <2>2. job.objects # <<>>  BY <1>6 DEF JobAccepted, BundlesAccepted
  <2>3. Len(job.objects) > 0  BY <1>2, <2>2, NoSeq, SameSeq
  <2>4. \A i \in DOMAIN job.objects : ObjectShape(job.objects[i])  BY <1>1 DEF JobShape
  <2>5. ASSUME NEW i \in 1..Len(Units), IsUsm(Units[i])
        PROVE  /\ Units[i].do = "wrapper" /\ Inner(Units[i]) = Units[i].container
               /\ Units[i].container.do = "usm"
    <3>1. ObjectShape(Units[i])  BY <1>2, <2>1, <2>4
    <3>2. QED  BY <2>5, <3>1 DEF IsUsm, Inner, ObjectShape, Plain
  <2>6. \A i, k \in {n \in DOMAIN job.objects :
                job.objects[n].do = "wrapper" /\ job.objects[n].container.do = "usm"} :
           job.objects[i].container.source = job.objects[k].container.source => i = k
    BY <1>1 DEF JobShape
  <2>7. \A i, k \in 1..Len(Units) :
                /\ IsUsm(Units[i]) /\ IsUsm(Units[k])
                /\ Inner(Units[i]).source = Inner(Units[k]).source
                => i = k
    BY <1>2, <2>1, <2>5, <2>6
  <2>8. \A i \in 1..Len(Units) : UnitShape(Units[i])
    BY <1>2, <2>1, <2>4 DEF UnitShape
  <2>9. QED  BY <1>2, <2>1, <2>3, <2>7, <2>8
<1>7. QED  BY <1>4, <1>5, <1>6

\* What an accepted ACB refers to.
LEMMA AcbWaves ==
    ASSUME NEW u, AcbShape(u)
    PROVE  /\ IsFiniteSet(Referenced(u)) /\ Cardinality(Referenced(u)) \in Nat
           /\ Referenced(u) # {} => Cardinality(Referenced(u)) > 0
           /\ IsSeq(Waves(u)) /\ Len(Waves(u)) = Cardinality(Referenced(u))
           /\ \A i \in 1..Cardinality(Referenced(u)) :
                /\ Waves(u)[i].do = "wave" /\ Waves(u)[i].index = i
                /\ Waves(u)[i].source = <<u.source, Nth(Referenced(u), i)>>
<1>1. IsFiniteSet(Referenced(u))
  <2> DEFINE f == [t \in u.tracks |-> t.wave]
  <2>1. f \in Surjection(u.tracks, Referenced(u))  BY DEF Surjection, Referenced
  <2>2. IsFiniteSet(u.tracks)  BY DEF AcbShape
  <2> HIDE DEF f
  <2>3. QED  BY <2>1, <2>2, FS_Surjection
<1>2. Cardinality(Referenced(u)) \in Nat  BY <1>1, FS_CardinalityType
<1>3. Referenced(u) # {} => Cardinality(Referenced(u)) > 0  BY <1>1, <1>2, FS_EmptySet
<1> DEFINE n == Cardinality(Referenced(u))
<1>4. Waves(u) = [i \in 1..n |-> Waves(u)[i]] /\ DOMAIN Waves(u) = 1..n  BY DEF Waves
<1>5. \A i \in 1..n : /\ Waves(u)[i].do = "wave" /\ Waves(u)[i].index = i
                      /\ Waves(u)[i].source = <<u.source, Nth(Referenced(u), i)>>
  BY DEF Waves
<1>6. IsSeq(Waves(u)) /\ Len(Waves(u)) = n
  <2> DEFINE w == Waves(u)
  <2>1. w = [i \in 1..n |-> w[i]] /\ DOMAIN w = 1..n  BY <1>4
  <2> HIDE DEF n, w
  <2>2. n \in Nat  BY <1>2 DEF n
  <2>3. IsSeq(w) /\ Len(w) = n  BY <2>1, <2>2, Listed
  <2>4. QED  BY <2>3 DEF w
<1>7. QED  BY <1>1, <1>2, <1>3, <1>5, <1>6

LEMMA InnerShape ==
    ASSUME NEW u, UnitShape(u), Inner(u).do \in {"acb", "usm"}
    PROVE  /\ Inner(u).do = "acb" => AcbShape(Inner(u))
           /\ Inner(u).do = "usm" => UsmShape(Inner(u))
           /\ u.do = "wrapper" \/ (Inner(u) = u /\ u.do \in {"acb", "usm"})
BY DEF Inner, UnitShape, ObjectShape, ContainerShape, Plain

LEMMA Pair ==
    ASSUME NEW x, NEW y
    PROVE  /\ <<x>> \o <<y>> = <<x, y>> /\ IsSeq(<<x, y>>) /\ Len(<<x, y>>) = 2
           /\ <<x, y>>[1] = x /\ <<x, y>>[2] = y
<1>1. <<x, y>> \in Seq({x, y})  OBVIOUS
<1>2. IsSeq(<<x, y>>) /\ Len(<<x, y>>) = 2 /\ <<x, y>>[1] = x /\ <<x, y>>[2] = y
  BY <1>1, IsSeqDef
<1> DEFINE a == <<x>>
           b == <<y>>
           c == <<x, y>>
<1>3. /\ IsSeq(a) /\ Len(a) = 1 /\ a[1] = x
      /\ IsSeq(b) /\ Len(b) = 1 /\ b[1] = y
  BY One
<1>4. a \o b = c
  <2> HIDE DEF a, b, c
  <2>1. IsSeq(c) /\ Len(c) = 2 /\ c[1] = x /\ c[2] = y  BY <1>2 DEF c
  <2>2. IsSeq(a \o b) /\ Len(a \o b) = 2 /\ (a \o b)[1] = x /\ (a \o b)[2] = y
    <3>1. /\ IsSeq(a \o b) /\ Len(a \o b) = Len(a) + Len(b)
          /\ \A i \in 1..(Len(a) + Len(b)) :
               (a \o b)[i] = IF i <= Len(a) THEN a[i] ELSE b[i - Len(a)]
      BY <1>3, Joined
    <3>2. Len(a) + Len(b) = 2 /\ 2 - Len(a) = 1 /\ 1 <= Len(a) /\ ~(2 <= Len(a))
      BY <1>3
    <3>3. QED  BY <1>3, <3>1, <3>2
  <2>3. \A i \in 1..2 : i = 1 \/ i = 2  OBVIOUS
  <2>4. QED  BY <2>1, <2>2, <2>3, SameSeq
<1>5. QED  BY <1>2, <1>4

Color(v) ==
    {<<"video", v.source>>} \cup IF Has(v, "SFA") THEN {<<"audio", v.source>>} ELSE {}

LEMMA UsmBecomes ==
    ASSUME NEW u, IsUsm(u)
    PROVE  Becomes(u) = IF Has(Inner(u), "ALP")
                        THEN <<Color(Inner(u)), {<<"alpha", Inner(u).source>>}>>
                        ELSE <<Color(Inner(u))>>
<1> DEFINE v == Inner(u)
           alpha == {<<"alpha", v.source>>}
<1>0. u.do # "atlas"  BY DEF IsUsm, Inner
<1>1. Becomes(u) = Contained(v)  BY <1>0 DEF Becomes, IsUsm
<1>2. Contained(v) = <<Color(v)>> \o (IF Has(v, "ALP") THEN <<alpha>> ELSE <<>>)
  BY DEF Contained, IsUsm, Color
<1> HIDE DEF v, alpha
<1>3. <<Color(v)>> \o <<alpha>> = <<Color(v), alpha>>  BY Pair
<1>4. <<Color(v)>> \o <<>> = <<Color(v)>>  BY One, NoSeq, Joined
<1>5. QED  BY <1>1, <1>2, <1>3, <1>4 DEF v, alpha

\* The leaves of a unit, and what each becomes.
LEMMA LeavesBecome ==
    ASSUME NEW u, UnitShape(u), Leafy(u)
    PROVE  /\ IsSeq(LeavesOf(u)) /\ IsSeq(Becomes(u)) /\ Len(LeavesOf(u)) = Len(Becomes(u))
           /\ \A j \in 1..Len(LeavesOf(u)) :
                \/ /\ LeavesOf(u)[j].do = "wave" /\ Inner(u).do = "acb"
                   /\ Becomes(u)[j] = {<<"audio", LeavesOf(u)[j].source>>}
                \/ /\ LeavesOf(u)[j].do \in Direct \cup Plain /\ Inner(u).do # "acb"
                   /\ Becomes(u)[j] = {<<LeavesOf(u)[j].do, LeavesOf(u)[j].id>>}
           /\ Passed(u)
<1>1. CASE Inner(u).do = "acb"
  <2> DEFINE v == Inner(u)
             n == Cardinality(Referenced(v))
             b == [i \in 1..n |-> {<<"audio", <<v.source, Nth(Referenced(v), i)>>>>}]
  <2>1. AcbShape(v)  BY <1>1, InnerShape
  <2>0. u.do # "atlas"  BY <1>1 DEF Inner
  <2>2. LeavesOf(u) = Waves(v)  BY <1>1, <2>0 DEF LeavesOf
  <2>3. Becomes(u) = b  BY <1>1, <2>0 DEF Becomes, Contained
  <2>4. /\ n \in Nat /\ IsSeq(Waves(v)) /\ Len(Waves(v)) = n
        /\ \A i \in 1..n : /\ Waves(v)[i].do = "wave"
                           /\ Waves(v)[i].source = <<v.source, Nth(Referenced(v), i)>>
    BY <2>1, AcbWaves
  <2>5. IsSeq(b) /\ Len(b) = n
    <3>1. b = [i \in 1..n |-> b[i]] /\ DOMAIN b = 1..n  OBVIOUS
    <3> HIDE DEF b, n
    <3>2. QED  BY <2>4, <3>1, Listed
  <2>6. \A i \in 1..n : b[i] = {<<"audio", Waves(v)[i].source>>}  BY <2>4
  <2>7. AcbAccepted(v)
    <3>1. u.do # "atlas"  BY <1>1, InnerShape
    <3>2. Route(u) \notin Direct
      BY <1>1, InnerShape DEF Route, Direct
    <3>3. QED  BY <3>1, <3>2 DEF Leafy
  <2>8. Passed(u)  BY <1>1, <2>7 DEF Passed
  <2> HIDE DEF b, n, v
  <2>9. QED  BY <1>1, <2>2, <2>3, <2>4, <2>5, <2>6, <2>8
<1>2. CASE u.do = "atlas"
  <2>1. Inner(u) = u  BY <1>2 DEF Inner
  <2>2. LeavesOf(u) = u.sprites  BY <1>2, <2>1 DEF LeavesOf
  <2>3. IsSeq(u.sprites) /\ \A i \in DOMAIN u.sprites : u.sprites[i].do \in Plain
    BY <1>2 DEF UnitShape, ObjectShape, ContainerShape, Plain
  <2> DEFINE n == Len(u.sprites)
             b == [i \in 1..n |-> {<<u.sprites[i].do, u.sprites[i].id>>}]
  <2>4. n \in Nat /\ DOMAIN u.sprites = 1..n  BY <2>3, IsSeqDef
  <2>5. Becomes(u) = b  BY <1>2, <2>1, <2>4 DEF Becomes
  <2>6. IsSeq(b) /\ Len(b) = n
    <3>1. b = [i \in 1..n |-> b[i]] /\ DOMAIN b = 1..n  OBVIOUS
    <3> HIDE DEF b, n
    <3>2. QED  BY <2>4, <3>1, Listed
  <2>7. \A i \in 1..n : b[i] = {<<u.sprites[i].do, u.sprites[i].id>>}  OBVIOUS
  <2>8. Passed(u)  BY <1>2, <2>1 DEF Passed
  <2>9. Inner(u).do # "acb"  BY <1>2, <2>1
  <2> HIDE DEF b
  <2>10. QED  BY <2>2, <2>3, <2>4, <2>5, <2>6, <2>7, <2>8, <2>9
<1>3. CASE Route(u) \in Direct /\ u.do # "atlas" /\ Inner(u).do # "acb"
  <2>1. u.do \in Direct  BY <1>3 DEF Route, Direct
  <2>2. Inner(u) = u /\ u.do \notin {"acb", "usm", "atlas"}  BY <2>1 DEF Inner, Direct
  <2>3. LeavesOf(u) = <<u>>  BY <2>2 DEF LeavesOf
  <2>4. Becomes(u) = << {<<u.do, u.id>>} >>  BY <2>2 DEF Becomes
  <2>5. Passed(u)  BY <2>2 DEF Passed
  <2> DEFINE c == {<<u.do, u.id>>}
  <2>6. IsSeq(<<u>>) /\ Len(<<u>>) = 1 /\ <<u>>[1] = u  BY One
  <2>7. IsSeq(<<c>>) /\ Len(<<c>>) = 1 /\ <<c>>[1] = c  BY One
  <2>8. \A j \in 1..1 : j = 1  OBVIOUS
  <2>9. QED  BY <1>3, <2>1, <2>3, <2>4, <2>5, <2>6, <2>7, <2>8
<1>4. QED  BY <1>1, <1>2, <1>3 DEF Leafy

LEMMA BecomesSeq == ASSUME NEW u, UnitShape(u) PROVE IsSeq(Becomes(u))
<1>1. CASE IsUsm(u)
  <2> DEFINE c == Color(Inner(u))
             a == {<<"alpha", Inner(u).source>>}
  <2>1. <<c, a>> \in Seq({c, a}) /\ <<c>> \in Seq({c})
    <3> HIDE DEF c, a
    <3> QED  OBVIOUS
  <2>2. Becomes(u) \in {<<c, a>>, <<c>>}  BY <1>1, UsmBecomes
  <2> HIDE DEF c, a
  <2>3. QED  BY <2>1, <2>2, IsSeqDef
<1>2. CASE Inner(u).do = "acb"
  <2> DEFINE v == Inner(u)
             n == Cardinality(Referenced(v))
             b == [i \in 1..n |-> {<<"audio", <<v.source, Nth(Referenced(v), i)>>>>}]
  <2>1. AcbShape(v)  BY <1>2, InnerShape
  <2>0. u.do # "atlas"  BY <1>2 DEF Inner
  <2>2. Becomes(u) = b  BY <1>2, <2>0 DEF Becomes, Contained
  <2>3. n \in Nat  BY <2>1, AcbWaves
  <2>4. b = [i \in 1..n |-> b[i]] /\ DOMAIN b = 1..n  OBVIOUS
  <2> HIDE DEF b, n, v
  <2>5. QED  BY <2>2, <2>3, <2>4, Listed
<1>3. CASE u.do = "atlas" /\ Inner(u).do \notin {"acb", "usm"}
  <2>1. IsSeq(u.sprites)
    BY <1>3 DEF UnitShape, ObjectShape, ContainerShape, Plain
  <2> DEFINE n == Len(u.sprites)
             b == [i \in 1..n |-> {<<u.sprites[i].do, u.sprites[i].id>>}]
  <2>2. n \in Nat /\ DOMAIN u.sprites = 1..n  BY <2>1, IsSeqDef
  <2>3. Becomes(u) = b  BY <1>3, <2>2 DEF Becomes
  <2>4. b = [i \in 1..n |-> b[i]] /\ DOMAIN b = 1..n  OBVIOUS
  <2> HIDE DEF b, n
  <2>5. QED  BY <2>2, <2>3, <2>4, Listed
<1>4. CASE u.do # "atlas" /\ Inner(u).do \notin {"acb", "usm"}
  <2>1. Becomes(u) = << {<<u.do, u.id>>} >>  BY <1>4 DEF Becomes
  <2>2. QED  BY <2>1, One
<1>5. QED  BY <1>1, <1>2, <1>3, <1>4 DEF IsUsm

-----------------------------------------------------------------------------
(* What has been made.                                                     *)

LEMMA FlatMore ==
    ASSUME NEW k \in Nat, \A i \in 1..(k + 1) : IsSeq(Becomes(Units[i]))
    PROVE  Flat(k + 1) = Flat(k) \o Becomes(Units[k + 1])
<1> DEFINE s == [i \in 1..k |-> Becomes(Units[i])]
           t == [i \in 1..(k + 1) |-> Becomes(Units[i])]
<1>1. /\ s = [i \in 1..k |-> s[i]] /\ DOMAIN s = 1..k
      /\ t = [i \in 1..(k + 1) |-> t[i]] /\ DOMAIN t = 1..(k + 1)
      /\ \A i \in 1..k : s[i] = t[i]
      /\ t[k + 1] = Becomes(Units[k + 1])
  OBVIOUS
<1>2. Flat(k) = FlattenSeq(s) /\ Flat(k + 1) = FlattenSeq(t)  BY DEF Flat
<1>3. IsSeq(Becomes(Units[k + 1]))  OBVIOUS
<1> HIDE DEF s, t
<1>4. IsSeq(s) /\ Len(s) = k  BY <1>1, Listed
<1>5. IsSeq(t) /\ Len(t) = k + 1  BY <1>1, Listed
<1>6. FlattenSeq(t) = FlattenSeq(s) \o t[k + 1]
  <2>1. \A i \in 1..k : s[i] = t[i]  BY <1>1
  <2>2. IsSeq(t[k + 1])  BY <1>1, <1>3
  <2>3. QED  BY <1>4, <1>5, <2>1, <2>2, FlattenMore
<1>7. QED  BY <1>1, <1>2, <1>6

LEMMA FlatNone == Flat(0) = <<>>
<1>1. [i \in 1..0 |-> Becomes(Units[i])] = <<>>  OBVIOUS
<1>2. QED  BY <1>1, FlattenNone DEF Flat

LEMMA FlatSeq ==
    ASSUME NEW n \in Nat, \A i \in 1..n : IsSeq(Becomes(Units[i])), NEW k \in 0..n
    PROVE  IsSeq(Flat(k))
<1> DEFINE T == {m \in 0..n : ~IsSeq(Flat(m))}
<1>1. ASSUME T # {} PROVE FALSE
  <2>1. T \in SUBSET Nat  OBVIOUS
  <2>2. PICK m \in T : \A i \in T : ~(i < m)  BY <1>1, <2>1, LeastOf
  <2>3. m \in 0..n /\ ~IsSeq(Flat(m))  OBVIOUS
  <2>4. m # 0  BY <2>3, FlatNone, NoSeq
  <2>5. m - 1 \in 0..n /\ m - 1 \in Nat /\ m - 1 < m /\ m - 1 + 1 = m  BY <2>3, <2>4
  <2>6. IsSeq(Flat(m - 1))  BY <2>2, <2>5
  <2>7. \A i \in 1..m : i \in 1..n  BY <2>3
  <2>8. m \in 1..n  BY <2>3, <2>4
  <2>9. Flat(m - 1 + 1) = Flat(m - 1) \o Becomes(Units[m - 1 + 1])
    BY <2>5, <2>7, FlatMore
  <2>10. Flat(m) = Flat(m - 1) \o Becomes(Units[m])  BY <2>5, <2>9
  <2>11. QED  BY <2>3, <2>6, <2>8, <2>10, Joined
<1>2. QED  BY <1>1

LEMMA FlatAll ==
    ASSUME job \in Jobs, JobAccepted PROVE Flat(Len(Units)) = Expected
BY UnitsOfJob DEF Flat, Expected

\* All of what the invariant speaks of is sequences.
LEMMA PlaceSeqs ==
    ASSUME job \in Jobs, JobAccepted
    PROVE  /\ Len(Units) \in Nat
           /\ \A k \in 0..Len(Units) : IsSeq(Rest(k)) /\ IsSeq(Flat(k))
           /\ \A k \in 1..Len(Units) :
                /\ UnitShape(Units[k]) /\ IsSeq(Becomes(Units[k]))
                /\ k - 1 \in 0..Len(Units)
                /\ Rest(k - 1) = <<Units[k]>> \o Rest(k)
                /\ Flat(k) = Flat(k - 1) \o Becomes(Units[k])
           /\ Rest(0) = Units /\ Rest(Len(Units)) = <<>>
<1>1. /\ IsSeq(Units) /\ Len(Units) \in Nat
      /\ \A k \in 1..Len(Units) : UnitShape(Units[k])
  BY UnitsOfJob
<1>2. \A k \in 1..Len(Units) : IsSeq(Becomes(Units[k]))  BY <1>1, BecomesSeq
<1>3. \A k \in 0..Len(Units) : IsSeq(Rest(k))  BY <1>1, CutSeq DEF Rest
<1>4. \A k \in 0..Len(Units) : IsSeq(Flat(k))  BY <1>1, <1>2, FlatSeq
<1>5. ASSUME NEW k \in 1..Len(Units)
      PROVE  /\ k - 1 \in 0..Len(Units)
             /\ Rest(k - 1) = <<Units[k]>> \o Rest(k)
             /\ Flat(k) = Flat(k - 1) \o Becomes(Units[k])
  <2>1. k - 1 \in 0..Len(Units) /\ k - 1 \in Nat /\ k - 1 < Len(Units) /\ k - 1 + 1 = k
        /\ \A i \in 1..(k - 1 + 1) : i \in 1..Len(Units)
    BY <1>1
  <2>2. SubSeq(Units, k - 1 + 1, Len(Units)) =
          <<Units[k - 1 + 1]>> \o SubSeq(Units, k - 1 + 1 + 1, Len(Units))
    BY <1>1, <2>1, CutSeq
  <2>3. Rest(k - 1) = <<Units[k]>> \o Rest(k)  BY <2>1, <2>2 DEF Rest
  <2>4. Flat(k - 1 + 1) = Flat(k - 1) \o Becomes(Units[k - 1 + 1])
    BY <1>2, <2>1, FlatMore
  <2>5. QED  BY <2>1, <2>3, <2>4
<1>6. Rest(0) = Units /\ Rest(Len(Units)) = <<>>
  <2>1. 0 \in 0..Len(Units) /\ Len(Units) \in 0..Len(Units)  BY <1>1
  <2>2. QED  BY <1>1, <2>1, CutSeq DEF Rest
<1>7. QED  BY <1>1, <1>2, <1>3, <1>4, <1>5, <1>6

\* The next unit is taken up.
LEMMA TakeUp ==
    ASSUME job \in Jobs, JobAccepted, NEW k, Between(k), k # Len(Units)
    PROVE  k + 1 \in 1..Len(Units) /\ Inside(k + 1, <<Units[k + 1]>>, <<>>)
<1>1. k \in 0..Len(Units) /\ Len(Units) \in Nat  BY PlaceSeqs DEF Between
<1>2. k + 1 \in 1..Len(Units) /\ k + 1 - 1 = k  BY <1>1
<1>3. Rest(k) = <<Units[k + 1]>> \o Rest(k + 1)
  <2>1. \A m \in 1..Len(Units) : m - 1 = k => Rest(k) = <<Units[m]>> \o Rest(m)
    BY PlaceSeqs
  <2> DEFINE m == k + 1
  <2>2. m \in 1..Len(Units) /\ m - 1 = k  BY <1>1, <1>2
  <2> HIDE DEF m
  <2>3. Rest(k) = <<Units[m]>> \o Rest(m)  BY <2>1, <2>2
  <2>4. QED  BY <2>3 DEF m
<1>4. IsSeq(Flat(k))  BY <1>1, PlaceSeqs
<1>5. Flat(k) \o <<>> = Flat(k)  BY <1>4, NoSeq, Joined
<1>6. QED  BY <1>2, <1>3, <1>5 DEF Between, Inside

\* A unit is done with.
LEMMA DoneWith ==
    ASSUME job \in Jobs, JobAccepted, NEW k, Inside(k, <<>>, Becomes(Units[k])),
           Passed(Units[k]), files # <<>> \/ empties > 0
    PROVE  Between(k)
<1>1. k \in 1..Len(Units) /\ Len(Units) \in Nat  BY PlaceSeqs DEF Inside
<1>2. k \in 0..Len(Units)  BY <1>1
<1>3. <<>> \o Rest(k) = Rest(k)  BY <1>2, PlaceSeqs, NoSeq, Joined
<1>4. Flat(k) = Flat(k - 1) \o Becomes(Units[k])  BY <1>1, PlaceSeqs
<1>5. \A i \in 1..k : i \in 1..(k - 1) \/ i = k  BY <1>1
<1>6. QED  BY <1>2, <1>3, <1>4, <1>5 DEF Inside, Between

\* The first of what is left of a unit.
LEMMA FirstOf ==
    ASSUME job \in Jobs, JobAccepted, NEW k, NEW x, NEW front, NEW done, IsSeq(front),
           Inside(k, <<x>> \o front, done)
    PROVE  todo # <<>> /\ Unit = x /\ Tail(todo) = front \o Rest(k)
<1>1. k \in 0..Len(Units)  BY PlaceSeqs DEF Inside
<1>2. IsSeq(Rest(k)) /\ IsSeq(<<x>>)  BY <1>1, PlaceSeqs, One
<1>3. todo = (<<x>> \o front) \o Rest(k)  BY DEF Inside
<1>4. todo = <<x>> \o (front \o Rest(k))  BY <1>2, <1>3, Assoc
<1>5. IsSeq(front \o Rest(k))  BY <1>2, Joined
<1>6. QED  BY <1>4, <1>5, JoinedHead DEF Unit

LEMMA OnlyOf ==
    ASSUME job \in Jobs, JobAccepted, NEW k, NEW x, NEW done, Inside(k, <<x>>, done)
    PROVE  todo # <<>> /\ Unit = x /\ Tail(todo) = Rest(k) /\ Tail(todo) = <<>> \o Rest(k)
<1>1. <<x>> \o <<>> = <<x>>  BY One, NoSeq, Joined
<1>2. k \in 0..Len(Units)  BY PlaceSeqs DEF Inside
<1>3. <<>> \o Rest(k) = Rest(k)  BY <1>2, PlaceSeqs, NoSeq, Joined
<1>4. QED  BY <1>1, <1>3, FirstOf, NoSeq

-----------------------------------------------------------------------------
(* Steps.                                                                  *)

LEMMA SameUnits ==
    ASSUME job' = job
    PROVE  /\ Units' = Units /\ Len(Units)' = Len(Units) /\ (JobAccepted' <=> JobAccepted)
           /\ Media' = Media
           /\ \A k : Rest(k)' = Rest(k)
           /\ \A u : Route(u)' = Route(u) /\ Opened(u)' = Opened(u) /\ Leafy(u)' = Leafy(u)
<1>1. Raw' = Raw  BY DEF Raw
<1>2. Media' = Media  BY <1>1 DEF Media
<1>3. Units' = Units  BY <1>1, <1>2 DEF Units
<1>4. JobAccepted' <=> JobAccepted
  BY <1>1, <1>2 DEF JobAccepted, BundlesAccepted
<1>5. \A u : Route(u)' = Route(u)  BY DEF Route
<1>6. \A u : Opened(u)' = Opened(u)  BY <1>5 DEF Opened
<1>7. \A u : Leafy(u)' = Leafy(u)  BY <1>5, <1>6 DEF Leafy
<1>8. \A k : Rest(k)' = Rest(k)  BY <1>3 DEF Rest
<1>9. QED  BY <1>2, <1>3, <1>4, <1>5, <1>6, <1>7, <1>8

LEMMA SameFound ==
    ASSUME found' = found
    PROVE  \A u : /\ Becomes(u)' = Becomes(u) /\ Passed(u)' = Passed(u)
                  /\ \A s : Has(u, s)' = Has(u, s)
<1>1. \A u : \A s : Has(u, s)' = Has(u, s)  BY DEF Has, StreamOf
<1>2. \A u : Becomes(u)' = Becomes(u)  BY <1>1 DEF Becomes, Contained
<1>3. \A u : Passed(u)' = Passed(u)  BY DEF Passed
<1>4. QED  BY <1>1, <1>2, <1>3

LEMMA SameFlat ==
    ASSUME job' = job, NEW k, \A i \in 1..k : Becomes(Units[i])' = Becomes(Units[i])
    PROVE  Flat(k)' = Flat(k)
<1>2. [i \in 1..k |-> Becomes(Units[i])]' = [i \in 1..k |-> Becomes(Units[i])]
  OBVIOUS
<1>3. QED  BY <1>2 DEF Flat

-----------------------------------------------------------------------------
(* Files.                                                                  *)

LEMMA MadeSeq ==
    FilesInv => /\ IsSeq(Made) /\ DOMAIN files = 1..Len(files) /\ Len(files) \in Nat
                /\ Len(Made) = Len(files)
<1> SUFFICES ASSUME FilesInv
             PROVE  /\ IsSeq(Made) /\ DOMAIN files = 1..Len(files) /\ Len(files) \in Nat
                    /\ Len(Made) = Len(files)
  OBVIOUS
<1>1. DOMAIN files = 1..Len(files) /\ Len(files) \in Nat  BY IsSeqDef DEF FilesInv
<1>2. Made = [i \in 1..Len(files) |-> Made[i]] /\ DOMAIN Made = 1..Len(files)
  BY <1>1 DEF Made
<1>3. IsSeq(Made) /\ Len(Made) = Len(files)  BY <1>1, <1>2, Listed
<1>4. QED  BY <1>1, <1>3

LEMMA SameFiles ==
    ASSUME FilesInv, UNCHANGED <<files, output, written, wanted>>, empties' \in Nat
    PROVE  FilesInv' /\ Made' = Made
<1>1. FileSizes' = FileSizes  BY DEF FileSizes
<1>2. FilesInv'  BY <1>1 DEF FilesInv
<1>3. QED  BY <1>2 DEF Made

\* A file that is encoded but not counted is no artifact yet.
LEMMA NewPath ==
    ASSUME FilesInv, NEW ext, NEW i \in DOMAIN files
    PROVE  files[i].path # Path(ext)
<1>1. i \in 1..Len(files) /\ Len(files) \in Nat  BY MadeSeq
<1>2. files[i].path[1] = i - 1  BY DEF FilesInv
<1>3. Path(ext)[1] = Len(files)  BY DEF Path
<1>4. QED  BY <1>1, <1>2, <1>3

LEMMA Written ==
    ASSUME FilesInv, NEW ext, NEW v, output' = With(output, Path(ext), v)
    PROVE  /\ Path(ext) \in DOMAIN output' /\ output'[Path(ext)] = v
           /\ \A i \in DOMAIN files : /\ files[i].path \in DOMAIN output'
                                    /\ output'[files[i].path] = output[files[i].path]
<1>1. \A i \in DOMAIN files : files[i].path # Path(ext)  BY NewPath
<1>2. \A i \in DOMAIN files : files[i].path \in DOMAIN output  BY DEF FilesInv
<1> DEFINE p == Path(ext)
<1> HIDE DEF p
<1>3. output' = With(output, p, v)  BY DEF p
<1>4. /\ DOMAIN output' = {p} \cup DOMAIN output /\ output'[p] = v
      /\ \A y \in DOMAIN output \ {p} : output'[y] = output[y]
  BY <1>3 DEF With
<1>5. \A i \in DOMAIN files : /\ files[i].path \in DOMAIN output'
                              /\ output'[files[i].path] = output[files[i].path]
  BY <1>1, <1>2, <1>4 DEF p
<1>6. QED  BY <1>4, <1>5 DEF p

LEMMA Produced ==
    ASSUME FilesInv, NEW ext, NEW v, output' = With(output, Path(ext), v),
           UNCHANGED <<files, written, empties>>, NEW n \in Nat, wanted' = wanted + n
    PROVE  FilesInv' /\ Made' = Made
<1>1. \A i \in DOMAIN files : /\ files[i].path \in DOMAIN output'
                              /\ output'[files[i].path] = output[files[i].path]
  BY Written
<1>2. Made' = Made  BY <1>1 DEF Made
<1>3. FileSizes' = FileSizes  BY DEF FileSizes
<1>4. wanted' \in Nat /\ written <= wanted'
  <2>1. written \in Nat /\ wanted \in Nat /\ written <= wanted  BY DEF FilesInv
  <2>2. QED  BY <2>1
<1>5. FilesInv'  BY <1>1, <1>3, <1>4 DEF FilesInv
<1>6. QED  BY <1>2, <1>5

\* The file of the next artifact is written, and then counted.
Stored(ext, n) ==
    /\ Path(ext) \in DOMAIN output'
    /\ output'[Path(ext)].size = n /\ output'[Path(ext)].lost \in {"nothing", "audio tail"}
    /\ \A i \in DOMAIN files : /\ files[i].path \in DOMAIN output'
                             /\ output'[files[i].path] = output[files[i].path]

Counted(ext, n, l, s, r) ==
    /\ files' = Append(files, [path |-> Path(ext), size |-> n, label |-> l, stable |-> s,
                               role |-> r])
    /\ written' = written + n
    /\ wanted' \in Nat /\ written' <= wanted'
    /\ empties' \in Nat

\* An artifact is added.
LEMMA Added ==
    ASSUME FilesInv, NEW ext, NEW n \in Nat, NEW l, NEW s, NEW r, Room(n),
           Stored(ext, n), Counted(ext, n, l, s, r)
    PROVE  /\ FilesInv' /\ files' # <<>>
           /\ Made' = Append(Made, output'[Path(ext)].of)
<1> DEFINE file == [path |-> Path(ext), size |-> n, label |-> l,
                    stable |-> s, role |-> r]
           m == Len(files)
<1>1. IsSeq(files) /\ DOMAIN files = 1..m /\ m \in Nat /\ IsSeq(Made) /\ Len(Made) = m
  BY MadeSeq DEF FilesInv
<1>2. file.path = Path(ext) /\ file.size = n /\ file.path[1] = m  BY DEF Path
<1> HIDE DEF file, m
<1>3. files' = Append(files, file)  BY DEF file, Counted
<1>4. /\ IsSeq(files') /\ Len(files') = m + 1
      /\ DOMAIN files' = 1..(m + 1)
      /\ \A i \in 1..m : files'[i] = files[i]
      /\ files'[m + 1] = file
  <2> DEFINE a == Append(files, file)
  <2>1. /\ IsSeq(a) /\ Len(a) = m + 1 /\ DOMAIN a = 1..(m + 1)
        /\ \A i \in 1..m : a[i] = files[i]
        /\ a[m + 1] = file
    BY <1>1, Appended DEF m
  <2>2. files' = a  BY <1>3
  <2> HIDE DEF a
  <2>3. QED  BY <2>1, <2>2
<1>5. \A i \in 1..(m + 1) : i \in 1..m \/ i = m + 1  BY <1>1
<1>6. ASSUME NEW i \in DOMAIN files'
      PROVE  /\ files'[i].path[1] = i - 1
             /\ files'[i].path \in DOMAIN output'
             /\ files'[i].size \in Nat
             /\ output'[files'[i].path].size = files'[i].size
             /\ output'[files'[i].path].lost \in {"nothing", "audio tail"}
  <2>1. CASE i \in 1..m
    <3>1. i \in DOMAIN files /\ files'[i] = files[i]  BY <1>1, <1>4, <2>1
    <3>2. /\ files[i].path \in DOMAIN output'
          /\ output'[files[i].path] = output[files[i].path]
      BY <3>1 DEF Stored
    <3>3. QED  BY <3>1, <3>2 DEF FilesInv
  <2>2. CASE i = m + 1
    <3>1. files'[i] = file /\ i - 1 = m  BY <1>1, <1>4, <2>2
    <3>2. QED  BY <1>2, <3>1 DEF Stored
  <2>3. QED  BY <1>4, <1>5, <1>6, <2>1, <2>2
<1>7. Total(FileSizes)' = written'
  <2> DEFINE q == FileSizes
             t == [i \in DOMAIN files' |-> files'[i].size]
  <2>1. /\ DOMAIN q = 1..m /\ DOMAIN t = 1..(m + 1)
        /\ \A i \in 1..m : q[i] = files[i].size
        /\ \A i \in 1..(m + 1) : t[i] = files'[i].size
    BY <1>1, <1>4 DEF FileSizes
  <2>2. \A i \in 1..m : files[i].size \in Nat  BY <1>1 DEF FilesInv
  <2>3. \A i \in 1..m : q[i] \in Nat /\ t[i] = q[i]
    BY <1>1, <1>4, <2>1, <2>2
  <2>4. t[m + 1] = n  BY <1>1, <1>2, <1>4, <2>1
  <2> HIDE DEF q, t
  <2>5. Total(t) = Total(q) + t[m + 1]  BY <1>1, <2>1, <2>3, <2>4, TotalMore
  <2>6. Total(q) = written  BY DEF FilesInv, q
  <2>7. Total(t) = written'  BY <2>4, <2>5, <2>6 DEF Counted
  <2>8. FileSizes' = t  BY DEF FileSizes, t
  <2>9. QED  BY <2>7, <2>8
<1>8. /\ m + 1 <= MaxFiles /\ written' \in Nat /\ written' <= OutputBytes
  <2>1. written + n <= OutputBytes /\ m < MaxFiles  BY DEF Room, m
  <2>2. written' = written + n  BY DEF Counted
  <2>3. written \in Nat  BY DEF FilesInv
  <2>4. MaxFiles \in Nat  BY WorkerAssumption
  <2>5. QED  BY <1>1, <2>1, <2>2, <2>3, <2>4
<1>9. FilesInv'
  <2>1. wanted' \in Nat /\ written' <= wanted' /\ empties' \in Nat  BY DEF Counted
  <2>2. QED  BY <1>4, <1>6, <1>7, <1>8, <2>1 DEF FilesInv
<1>10. Made' = Append(Made, output'[Path(ext)].of)
  <2> DEFINE x == output'[Path(ext)].of
             a == Append(Made, x)
             b == [i \in 1..(m + 1) |-> output'[files'[i].path].of]
  <2>1. /\ IsSeq(a) /\ Len(a) = m + 1
        /\ \A i \in 1..m : a[i] = Made[i]
        /\ a[m + 1] = x
    <3> HIDE DEF x
    <3>1. QED  BY <1>1, Appended
  <2>2. Made' = b  BY <1>4 DEF Made
  <2>3. IsSeq(b) /\ Len(b) = m + 1
    <3>1. b = [i \in 1..(m + 1) |-> b[i]] /\ DOMAIN b = 1..(m + 1)  OBVIOUS
    <3> HIDE DEF b
    <3>2. QED  BY <1>1, <3>1, Listed
  <2>4. ASSUME NEW i \in 1..m PROVE b[i] = a[i]
    <3>1. i \in DOMAIN files /\ i \in 1..(m + 1)  BY <1>1, <2>4
    <3>2. b[i] = output'[files[i].path].of  BY <1>4, <3>1
    <3>3. output'[files[i].path] = output[files[i].path]  BY <3>1 DEF Stored
    <3>4. Made[i] = output[files[i].path].of  BY <3>1 DEF Made
    <3>5. QED  BY <2>1, <3>2, <3>3, <3>4
  <2>5. b[m + 1] = a[m + 1]
    <3>1. m + 1 \in 1..(m + 1)  BY <1>1
    <3>2. QED  BY <1>2, <1>4, <2>1, <3>1
  <2> HIDE DEF a, b, x
  <2>6. a = b  BY <1>1, <1>5, <2>1, <2>3, <2>4, <2>5, SameSeq
  <2>7. QED  BY <2>2, <2>6 DEF a, x
<1>11. files' # <<>>  BY <1>1, <1>4, NoSeq
<1>12. QED  BY <1>9, <1>10, <1>11

-----------------------------------------------------------------------------
(* Steps among the units.                                                  *)

LEMMA SamePlace ==
    ASSUME UNCHANGED <<job, found>>, NEW k
    PROVE  /\ Len(Units)' = Len(Units) /\ Units' = Units
           /\ Rest(k)' = Rest(k)
           /\ Flat(k)' = Flat(k) /\ Flat(k - 1)' = Flat(k - 1)
           /\ \A i : /\ Becomes(Units[i])' = Becomes(Units[i])
                     /\ Passed(Units[i])' = Passed(Units[i])
<1>1. Units' = Units /\ Len(Units)' = Len(Units) /\ Rest(k)' = Rest(k)  BY SameUnits
<1>2. \A u : Becomes(u)' = Becomes(u) /\ Passed(u)' = Passed(u)  BY SameFound
<1>3. \A i : /\ Becomes(Units[i])' = Becomes(Units[i])
             /\ Passed(Units[i])' = Passed(Units[i])
  <2> TAKE i
  <2>1. Becomes(Units[i])' = Becomes(Units[i])
    <3>1. \A u : Has(u, "SFA")' = Has(u, "SFA") /\ Has(u, "ALP")' = Has(u, "ALP")
      BY SameFound
    <3>2. QED  BY <1>1, <3>1 DEF Becomes, Contained
  <2>2. Passed(Units[i])' = Passed(Units[i])  BY <1>1 DEF Passed
  <2>3. QED  BY <2>1, <2>2
<1>4. Flat(k)' = Flat(k)  BY <1>3, SameFlat
<1>5. Flat(k - 1)' = Flat(k - 1)  BY <1>3, SameFlat
<1>6. QED  BY <1>1, <1>3, <1>4, <1>5

LEMMA StepIn ==
    ASSUME UNCHANGED <<job, found>>, NEW k, NEW f, NEW d, NEW g, NEW e, Inside(k, f, d),
           todo' = g \o Rest(k), Made' = Flat(k - 1) \o e
    PROVE  Inside(k, g, e)'
BY SamePlace DEF Inside

LEMMA StepDone ==
    ASSUME job \in Jobs, JobAccepted, UNCHANGED <<job, found>>, NEW k, NEW f, NEW d,
           Inside(k, f, d), Passed(Units[k]), todo' = Rest(k),
           Made' = Flat(k - 1) \o Becomes(Units[k]), files' # <<>> \/ empties' > 0
    PROVE  Between(k)'
<1>1. k \in 1..Len(Units) /\ Len(Units) \in Nat  BY PlaceSeqs DEF Inside
<1>2. k \in 0..Len(Units)  BY <1>1
<1>3. Flat(k) = Flat(k - 1) \o Becomes(Units[k])  BY <1>1, PlaceSeqs
<1>4. \A i \in 1..k : i \in 1..(k - 1) \/ i = k  BY <1>1
<1>5. \A i \in 1..k : Passed(Units[i])  BY <1>4 DEF Inside
<1>6. QED  BY <1>2, <1>3, <1>5, SamePlace DEF Between

LEMMA ToLeaves ==
    ASSUME job \in Jobs, JobAccepted, UNCHANGED <<job, found>>, NEW k, NEW f, NEW d,
           Inside(k, f, d), Leafy(Units[k]), NEW j \in 0..Len(LeavesOf(Units[k])),
           todo' = SubSeq(LeavesOf(Units[k]), j + 1, Len(LeavesOf(Units[k]))) \o Rest(k),
           Made' = Flat(k - 1) \o SubSeq(Becomes(Units[k]), 1, j),
           j = Len(LeavesOf(Units[k])) => files' # <<>> \/ empties' > 0
    PROVE  NextInv'
<1>1. k \in 1..Len(Units) /\ Len(Units) \in Nat /\ UnitShape(Units[k])
  BY PlaceSeqs DEF Inside
<1> DEFINE u == Units[k]
           n == Len(LeavesOf(u))
<1>2. /\ IsSeq(LeavesOf(u)) /\ IsSeq(Becomes(u)) /\ n = Len(Becomes(u))
      /\ Passed(u) /\ n \in Nat
  BY <1>1, LeavesBecome, IsSeqDef
<1>3. u' = u /\ LeavesOf(u)' = LeavesOf(u) /\ Becomes(u)' = Becomes(u) /\ Leafy(u)' = Leafy(u)
      /\ Len(Units)' = Len(Units) /\ Left(k)' = Left(k)
  <2>1. Units' = Units /\ Len(Units)' = Len(Units) /\ Becomes(u)' = Becomes(u)  BY SamePlace
  <2>2. LeavesOf(u)' = LeavesOf(u) /\ Left(k)' = Left(k)  BY <2>1 DEF LeavesOf, Left
  <2>3. Leafy(u)' = Leafy(u)
    <3>1. \A x : Route(x)' = Route(x) /\ Opened(x)' = Opened(x)  BY SameUnits
    <3>2. QED  BY <2>1, <3>1 DEF Leafy
  <2>4. QED  BY <2>1, <2>2, <2>3
<1>4. CASE j = n
  <2>1. /\ SubSeq(LeavesOf(u), j + 1, n) = <<>> /\ SubSeq(Becomes(u), 1, j) = Becomes(u)
    BY <1>2, <1>4, CutSeq
  <2>2. k \in 0..Len(Units)  BY <1>1
  <2>3. <<>> \o Rest(k) = Rest(k)  BY <2>2, PlaceSeqs, NoSeq, Joined
  <2>4. Between(k)'  BY <1>2, <1>4, <2>1, <2>3, StepDone
  <2>5. (\E i \in 0..Len(Units) : Between(i))'  BY <1>3, <2>2, <2>4
  <2>6. QED  BY <2>5 DEF NextInv
<1>5. CASE j # n
  <2>1. j \in Left(k)  BY <1>2, <1>5 DEF Left
  <2> DEFINE g == SubSeq(LeavesOf(Units[k]), j + 1, Len(LeavesOf(Units[k])))
             e == SubSeq(Becomes(Units[k]), 1, j)
  <2>2. g' = g /\ e' = e  BY <1>3
  <2>3. Inside(k, g, e)'
    <3>1. PICK g1, e1 : g1 = g /\ e1 = e  OBVIOUS
    <3>2. Inside(k, g1, e1)'  BY <3>1, StepIn
    <3>3. QED  BY <2>2, <3>1, <3>2
  <2>4. Leaves(k, j)'  BY <1>3, <2>3 DEF Leaves
  <2>5. (\E i \in 1..Len(Units) : Holds(i) \/ \E x \in Left(i) : Leaves(i, x))'
    BY <1>1, <1>3, <2>1, <2>4
  <2>6. QED  BY <2>5 DEF NextInv
<1>6. QED  BY <1>4, <1>5

LEMMA MadeMore ==
    ASSUME job \in Jobs, JobAccepted, FilesInv, NEW k, NEW f, NEW d, Inside(k, f, d),
           IsSeq(d), NEW x, Made' = Append(Made, x)
    PROVE  Made' = Flat(k - 1) \o (d \o <<x>>)
<1>1. k \in 1..Len(Units)  BY DEF Inside
<1>2. IsSeq(Flat(k - 1))  BY <1>1, PlaceSeqs
<1>3. IsSeq(Made) /\ Made = Flat(k - 1) \o d  BY MadeSeq DEF Inside
<1>4. Append(Made, x) = Made \o <<x>>  BY <1>3, Appended
<1>5. IsSeq(<<x>>)  BY One
<1>6. (Flat(k - 1) \o d) \o <<x>> = Flat(k - 1) \o (d \o <<x>>)  BY <1>2, <1>5, Assoc
<1>7. QED  BY <1>3, <1>4, <1>6

\* The next leaf.
LEMMA AtLeaf ==
    ASSUME job \in Jobs, JobAccepted, NEW k, NEW j \in Left(k), Leaves(k, j)
    PROVE  LET n == Len(LeavesOf(Units[k]))
           IN  /\ todo # <<>> /\ Unit = LeavesOf(Units[k])[j + 1]
               /\ Tail(todo) = SubSeq(LeavesOf(Units[k]), j + 1 + 1, n) \o Rest(k)
               /\ k \in 1..Len(Units) /\ UnitShape(Units[k]) /\ Leafy(Units[k])
               /\ j \in 0..n /\ n \in Nat /\ j + 1 \in 1..n
<1> DEFINE u == Units[k]
           n == Len(LeavesOf(u))
<1>1. Leafy(u) /\ k \in 1..Len(Units)  BY DEF Leaves, Inside
<1>2. UnitShape(u)  BY <1>1, PlaceSeqs
<1>3. IsSeq(LeavesOf(u)) /\ n \in Nat  BY <1>1, <1>2, LeavesBecome, IsSeqDef
<1>4. j \in 0..n /\ j < n /\ j + 1 \in 1..n /\ j + 1 \in 0..n  BY <1>3 DEF Left
<1>5. SubSeq(LeavesOf(u), j + 1, n) = <<LeavesOf(u)[j + 1]>> \o SubSeq(LeavesOf(u), j + 1 + 1, n)
  BY <1>3, <1>4, CutSeq
<1>6. IsSeq(SubSeq(LeavesOf(u), j + 1 + 1, n))  BY <1>3, <1>4, CutSeq
<1>7. PICK x, g : /\ x = LeavesOf(u)[j + 1] /\ g = SubSeq(LeavesOf(u), j + 1 + 1, n)
  OBVIOUS
<1>8. Inside(k, <<x>> \o g, SubSeq(Becomes(u), 1, j))  BY <1>5, <1>7 DEF Leaves
<1>9. todo # <<>> /\ Unit = x /\ Tail(todo) = g \o Rest(k)
  BY <1>6, <1>7, <1>8, FirstOf
<1>10. QED  BY <1>1, <1>2, <1>3, <1>4, <1>7, <1>9

\* A leaf is converted.
LEMMA LeafDone ==
    ASSUME job \in Jobs, JobAccepted, FilesInv, UNCHANGED <<job, found>>, NEW k,
           NEW j \in Left(k), Leaves(k, j), todo' = Tail(todo),
           Made' = Append(Made, Becomes(Units[k])[j + 1]), files' # <<>>
    PROVE  NextInv'
<1> DEFINE u == Units[k]
           n == Len(LeavesOf(u))
<1>1. /\ Tail(todo) = SubSeq(LeavesOf(u), j + 1 + 1, n) \o Rest(k)
      /\ k \in 1..Len(Units) /\ UnitShape(u) /\ Leafy(u)
      /\ j \in 0..n /\ n \in Nat /\ j + 1 \in 1..n
  BY AtLeaf
<1>2. IsSeq(Becomes(u)) /\ Len(Becomes(u)) = n  BY <1>1, LeavesBecome
<1>3. /\ SubSeq(Becomes(u), 1, j + 1) = SubSeq(Becomes(u), 1, j) \o <<Becomes(u)[j + 1]>>
      /\ IsSeq(SubSeq(Becomes(u), 1, j))
  <2>1. j < n  BY <1>1
  <2>2. QED  BY <1>1, <1>2, <2>1, CutSeq
<1>4. PICK f, d, x : /\ f = SubSeq(LeavesOf(u), j + 1, n) /\ d = SubSeq(Becomes(u), 1, j)
                     /\ x = Becomes(u)[j + 1]
  OBVIOUS
<1>5. Inside(k, f, d)  BY <1>4 DEF Leaves
<1>6. Made' = Flat(k - 1) \o (d \o <<x>>)  BY <1>3, <1>4, <1>5, MadeMore
<1>7. PICK m : m = j + 1  OBVIOUS
<1>8. m \in 0..n  BY <1>1, <1>7
<1>9. QED  BY <1>1, <1>3, <1>4, <1>5, <1>6, <1>7, <1>8, ToLeaves

-----------------------------------------------------------------------------
(* The unit that is next.                                                  *)

LEMMA RouteIs ==
    ASSUME NEW u
    PROVE  /\ u.do \in {"acb", "usm", "wave", "font", "input", "unknown"} => Route(u) = u.do
           /\ Route(u) \notin {"split", "embedded"} => Route(u) = u.do
           /\ u.do # "split" /\ Route(u) = "split" =>
                job.target = "split" /\ u.do \in {"wrapper", "text", "image", "other", "atlas"}
           /\ u.do # "embedded" /\ Route(u) = "embedded" => u.do = "wrapper"
           /\ u.do = "atlas" /\ Route(u) = "atlas" => job.target # "split"
           /\ u.do \in Plain /\ job.target # "split" => Route(u) = u.do
<1>1. CASE u.do = "wrapper" /\ job.target = "criware"
  <2>1. Route(u) = "embedded"  BY <1>1 DEF Route
  <2>2. QED  BY <1>1, <2>1 DEF Plain
<1>2. CASE u.do \in {"wrapper", "text", "image", "other", "atlas"} /\ job.target = "split"
  <2>1. Route(u) = "split"  BY <1>2 DEF Route
  <2>2. QED  BY <1>2, <2>1 DEF Plain
<1>3. CASE /\ ~(u.do = "wrapper" /\ job.target = "criware")
           /\ ~(u.do \in {"wrapper", "text", "image", "other", "atlas"} /\ job.target = "split")
  <2>1. Route(u) = u.do  BY <1>3 DEF Route
  <2>2. QED  BY <1>3, <2>1 DEF Plain
<1>4. QED  BY <1>1, <1>2, <1>3

Kinds == {"font", "input", "wrapper", "text", "image", "other", "atlas", "acb", "usm", "unknown"}

LEMMA UnitDoes ==
    ASSUME NEW u, UnitShape(u)
    PROVE  /\ u.do \in Kinds
           /\ u.do = "wrapper" => ContainerShape(u.container)
           /\ u.do = "atlas" =>
                IsSeq(u.sprites) /\ \A i \in DOMAIN u.sprites : u.sprites[i].do \in Plain
BY DEF UnitShape, ObjectShape, ContainerShape, Plain, Kinds

\* What is next: a unit that is taken up, the container of one, or a leaf of one.
LEMMA AtUnit ==
    ASSUME job \in Jobs, JobAccepted, NextInv, todo # <<>>
    PROVE  \E k \in 1..Len(Units) :
             /\ UnitShape(Units[k])
             /\ \/ /\ Inside(k, <<Units[k]>>, <<>>)
                   /\ Unit = Units[k] /\ Tail(todo) = Rest(k)
                \/ Holds(k) /\ Unit = Inner(Units[k]) /\ Tail(todo) = Rest(k)
                \/ \E j \in Left(k) : Leaves(k, j) /\ Unit = LeavesOf(Units[k])[j + 1]
<1>1. CASE \E k \in 0..Len(Units) : Between(k)
  <2>1. PICK k \in 0..Len(Units) : Between(k)  BY <1>1
  <2>2. k # Len(Units)
    <3>1. SUFFICES ASSUME k = Len(Units) PROVE FALSE  OBVIOUS
    <3>2. todo = Rest(Len(Units))  BY <2>1, <3>1 DEF Between
    <3>3. QED  BY <3>2, PlaceSeqs
  <2>3. PICK m, x : m = k + 1 /\ x = Units[k + 1]  OBVIOUS
  <2>4. m \in 1..Len(Units) /\ Inside(m, <<x>>, <<>>) /\ x = Units[m]
    BY <2>1, <2>2, <2>3, TakeUp
  <2>5. Unit = x /\ Tail(todo) = Rest(m)  BY <2>4, OnlyOf
  <2>6. UnitShape(Units[m])  BY <2>4, PlaceSeqs
  <2>7. QED  BY <2>4, <2>5, <2>6
<1>2. CASE \E k \in 1..Len(Units) : Holds(k)
  <2>1. PICK k \in 1..Len(Units) : Holds(k)  BY <1>2
  <2>2. PICK x : x = Inner(Units[k])  OBVIOUS
  <2>3. Inside(k, <<x>>, <<>>)  BY <2>1, <2>2 DEF Holds
  <2>4. Unit = x /\ Tail(todo) = Rest(k)  BY <2>3, OnlyOf
  <2>5. UnitShape(Units[k])  BY PlaceSeqs
  <2>6. QED  BY <2>1, <2>2, <2>4, <2>5
<1>3. CASE \E k \in 1..Len(Units) : \E j \in Left(k) : Leaves(k, j)
  <2>1. PICK k \in 1..Len(Units) : \E j \in Left(k) : Leaves(k, j)  BY <1>3
  <2>2. PICK j \in Left(k) : Leaves(k, j)  BY <2>1
  <2>3. Unit = LeavesOf(Units[k])[j + 1] /\ UnitShape(Units[k])  BY <2>2, AtLeaf
  <2>4. QED  BY <2>1, <2>2, <2>3
<1>4. QED  BY <1>1, <1>2, <1>3 DEF NextInv

\* A leaf is a wave of an ACB, or of a class of its own.
LEMMA LeafDoes ==
    ASSUME NEW u, UnitShape(u), Leafy(u), NEW j \in 1..Len(LeavesOf(u))
    PROVE  \/ /\ LeavesOf(u)[j].do = "wave" /\ Route(LeavesOf(u)[j]) = "wave"
              /\ Inner(u).do = "acb" /\ Becomes(u)[j] = {<<"audio", LeavesOf(u)[j].source>>}
           \/ /\ LeavesOf(u)[j].do \in Direct \cup Plain
              /\ Route(LeavesOf(u)[j]) = LeavesOf(u)[j].do
              /\ Becomes(u)[j] = {<<LeavesOf(u)[j].do, LeavesOf(u)[j].id>>}
<1>1. CASE LeavesOf(u)[j].do = "wave"
  <2>1. Route(LeavesOf(u)[j]) = "wave"  BY <1>1, RouteIs
  <2>2. "wave" \notin Direct \cup Plain  BY DEF Direct, Plain
  <2>3. QED  BY <1>1, <2>1, <2>2, LeavesBecome
<1>2. CASE LeavesOf(u)[j].do # "wave"
  <2>1. /\ LeavesOf(u)[j].do \in Direct \cup Plain /\ Inner(u).do # "acb"
        /\ Becomes(u)[j] = {<<LeavesOf(u)[j].do, LeavesOf(u)[j].id>>}
    BY <1>2, LeavesBecome
  <2>2. Route(LeavesOf(u)[j]) = LeavesOf(u)[j].do
    <3>1. CASE u.do = "atlas" /\ Route(u) = "atlas"
      <4>1. LeavesOf(u) = u.sprites  BY <2>1, <3>1 DEF LeavesOf
      <4>2. IsSeq(u.sprites) /\ \A i \in DOMAIN u.sprites : u.sprites[i].do \in Plain
        BY <3>1, UnitDoes
      <4>3. DOMAIN u.sprites = 1..Len(u.sprites)  BY <4>2, IsSeqDef
      <4>4. LeavesOf(u)[j].do \in Plain  BY <4>1, <4>2, <4>3
      <4>5. job.target # "split"  BY <3>1, RouteIs
      <4>6. QED  BY <4>4, <4>5, RouteIs
    <3>2. CASE Route(u) \in Direct
      <4>1. Route(u) = u.do  BY <3>2, RouteIs DEF Direct
      <4>2. u.do # "atlas"  BY <3>2, <4>1 DEF Direct
      <4>3. LeavesOf(u) = <<u>>  BY <2>1, <4>2 DEF LeavesOf
      <4>4. Len(LeavesOf(u)) = 1 /\ LeavesOf(u)[1] = u  BY <4>3
      <4>5. j = 1  BY <4>4
      <4>6. QED  BY <4>1, <4>4, <4>5
    <3>3. QED  BY <2>1, <3>1, <3>2 DEF Leafy
  <2>3. QED  BY <2>1, <2>2
<1>3. QED  BY <1>1, <1>2

LEMMA AtContainer ==
    ASSUME job \in Jobs, JobAccepted, NextInv, todo # <<>>, Route(Unit) \in {"acb", "usm"}
    PROVE  \E k \in 1..Len(Units) :
             /\ UnitShape(Units[k]) /\ Holds(k)
             /\ Unit = Inner(Units[k]) /\ Tail(todo) = Rest(k) /\ Route(Unit) = Unit.do
<1>1. Route(Unit) = Unit.do  BY RouteIs
<1>2. PICK k \in 1..Len(Units) :
             /\ UnitShape(Units[k])
             /\ \/ /\ Inside(k, <<Units[k]>>, <<>>)
                   /\ Unit = Units[k] /\ Tail(todo) = Rest(k)
                \/ Holds(k) /\ Unit = Inner(Units[k]) /\ Tail(todo) = Rest(k)
                \/ \E j \in Left(k) : Leaves(k, j) /\ Unit = LeavesOf(Units[k])[j + 1]
  BY AtUnit
<1>3. CASE Holds(k) /\ Unit = Inner(Units[k]) /\ Tail(todo) = Rest(k)  BY <1>1, <1>2, <1>3
<1>4. CASE Inside(k, <<Units[k]>>, <<>>) /\ Unit = Units[k] /\ Tail(todo) = Rest(k)
  <2>1. Inner(Units[k]) = Units[k]  BY <1>1, <1>4 DEF Inner
  <2>2. Opened(Units[k])  BY <1>1, <1>4, <2>1 DEF Opened
  <2>3. Holds(k)  BY <1>4, <2>1, <2>2 DEF Holds
  <2>4. QED  BY <1>1, <1>2, <1>4, <2>1, <2>3
<1>5. CASE \E j \in Left(k) : Leaves(k, j) /\ Unit = LeavesOf(Units[k])[j + 1]
  <2>1. PICK j \in Left(k) : Leaves(k, j) /\ Unit = LeavesOf(Units[k])[j + 1]  BY <1>5
  <2>2. Leafy(Units[k]) /\ j + 1 \in 1..Len(LeavesOf(Units[k]))  BY <2>1, AtLeaf
  <2>3. Unit.do = "wave" \/ Unit.do \in Direct \cup Plain  BY <1>2, <2>1, <2>2, LeafDoes
  <2>4. QED  BY <1>1, <2>3 DEF Direct, Plain
<1>6. QED  BY <1>2, <1>3, <1>4, <1>5

LEMMA AtWave ==
    ASSUME job \in Jobs, JobAccepted, NextInv, todo # <<>>, Route(Unit) = "wave"
    PROVE  \E k \in 1..Len(Units) : \E j \in Left(k) :
             /\ UnitShape(Units[k]) /\ Leaves(k, j)
             /\ Unit = LeavesOf(Units[k])[j + 1] /\ Unit.do = "wave"
             /\ Inner(Units[k]).do = "acb" /\ Becomes(Units[k])[j + 1] = {<<"audio", Unit.source>>}
<1>1. Route(Unit) = Unit.do  BY RouteIs
<1>2. PICK k \in 1..Len(Units) :
             /\ UnitShape(Units[k])
             /\ \/ /\ Inside(k, <<Units[k]>>, <<>>)
                   /\ Unit = Units[k] /\ Tail(todo) = Rest(k)
                \/ Holds(k) /\ Unit = Inner(Units[k]) /\ Tail(todo) = Rest(k)
                \/ \E j \in Left(k) : Leaves(k, j) /\ Unit = LeavesOf(Units[k])[j + 1]
  BY AtUnit
<1>3. ~(Holds(k) /\ Unit = Inner(Units[k]))  BY <1>1 DEF Holds, Opened
<1>4. ~(Unit = Units[k])
  <2>1. Units[k].do \in Kinds  BY <1>2, UnitDoes
  <2>2. QED  BY <1>1, <2>1 DEF Kinds
<1>5. PICK j \in Left(k) : Leaves(k, j) /\ Unit = LeavesOf(Units[k])[j + 1]
  BY <1>2, <1>3, <1>4
<1>6. Leafy(Units[k]) /\ j + 1 \in 1..Len(LeavesOf(Units[k]))  BY <1>5, AtLeaf
<1>7. PICK m : m = j + 1  OBVIOUS
<1>8. m \in 1..Len(LeavesOf(Units[k])) /\ Unit = LeavesOf(Units[k])[m]  BY <1>5, <1>6, <1>7
<1>9. "wave" \notin Direct \cup Plain  BY DEF Direct, Plain
<1>10. Inner(Units[k]).do = "acb" /\ Becomes(Units[k])[m] = {<<"audio", Unit.source>>}
  BY <1>1, <1>2, <1>6, <1>8, <1>9, LeafDoes
<1>11. QED  BY <1>1, <1>2, <1>5, <1>7, <1>10

LEMMA AtDirect ==
    ASSUME job \in Jobs, JobAccepted, NextInv, todo # <<>>, Route(Unit) \in Direct
    PROVE  \E k \in 1..Len(Units) : \E j \in Left(k) :
             /\ UnitShape(Units[k]) /\ Leaves(k, j)
             /\ Unit = LeavesOf(Units[k])[j + 1]
             /\ Becomes(Units[k])[j + 1] = {<<Unit.do, Unit.id>>}
<1>1. Route(Unit) = Unit.do  BY RouteIs DEF Direct
<1>2. PICK k \in 1..Len(Units) :
             /\ UnitShape(Units[k])
             /\ \/ /\ Inside(k, <<Units[k]>>, <<>>)
                   /\ Unit = Units[k] /\ Tail(todo) = Rest(k)
                \/ Holds(k) /\ Unit = Inner(Units[k]) /\ Tail(todo) = Rest(k)
                \/ \E j \in Left(k) : Leaves(k, j) /\ Unit = LeavesOf(Units[k])[j + 1]
  BY AtUnit
<1>3. ~(Holds(k) /\ Unit = Inner(Units[k]))  BY <1>1 DEF Holds, Opened, Direct
<1>4. CASE Inside(k, <<Units[k]>>, <<>>) /\ Unit = Units[k]
  <2> DEFINE u == Units[k]
  <2>1. Inner(u) = u /\ u.do \notin {"acb", "usm", "atlas"}  BY <1>1, <1>4 DEF Inner, Direct
  <2>2. Leafy(u)  BY <1>4 DEF Leafy
  <2>3. LeavesOf(u) = <<u>>  BY <2>1 DEF LeavesOf
  <2>4. Len(LeavesOf(u)) = 1 /\ LeavesOf(u)[1] = u  BY <2>3
  <2>5. IsSeq(LeavesOf(u)) /\ IsSeq(Becomes(u)) /\ Len(Becomes(u)) = 1
    BY <1>2, <2>2, <2>4, LeavesBecome
  <2>6. SubSeq(LeavesOf(u), 0 + 1, Len(LeavesOf(u))) = LeavesOf(u)
    <3>1. \A j \in 0..Len(LeavesOf(u)) :
            j = 0 => SubSeq(LeavesOf(u), j + 1, Len(LeavesOf(u))) = LeavesOf(u)
      BY <2>5, CutSeq
    <3>2. PICK z : z = 0  OBVIOUS
    <3>3. z \in 0..Len(LeavesOf(u))  BY <2>4, <3>2
    <3>4. QED  BY <3>1, <3>2, <3>3
  <2>7. SubSeq(Becomes(u), 1, 0) = <<>>  BY <2>5, CutSeq
  <2>8. Leaves(k, 0)  BY <1>4, <2>2, <2>3, <2>6, <2>7 DEF Leaves
  <2>9. 0 \in Left(k)  BY <2>4 DEF Left
  <2>10. Becomes(u)[1] = {<<u.do, u.id>>}
    <3>1. LeavesOf(u)[1].do # "wave"  BY <1>1, <1>4, <2>4 DEF Direct
    <3>2. 1 \in 1..Len(LeavesOf(u))  BY <2>4
    <3>3. Becomes(u)[1] = {<<LeavesOf(u)[1].do, LeavesOf(u)[1].id>>}
      BY <1>2, <2>2, <3>1, <3>2, LeafDoes
    <3>4. QED  BY <2>4, <3>3
  <2>11. 0 + 1 = 1  OBVIOUS
  <2>12. QED  BY <1>2, <1>4, <2>4, <2>8, <2>9, <2>10, <2>11
<1>5. CASE \E j \in Left(k) : Leaves(k, j) /\ Unit = LeavesOf(Units[k])[j + 1]
  <2>1. PICK j \in Left(k) : Leaves(k, j) /\ Unit = LeavesOf(Units[k])[j + 1]  BY <1>5
  <2>2. Leafy(Units[k]) /\ j + 1 \in 1..Len(LeavesOf(Units[k]))  BY <2>1, AtLeaf
  <2>3. PICK m : m = j + 1  OBVIOUS
  <2>4. m \in 1..Len(LeavesOf(Units[k])) /\ Unit = LeavesOf(Units[k])[m]
    BY <2>1, <2>2, <2>3
  <2>5. Unit.do # "wave"  BY <1>1 DEF Direct
  <2>6. Becomes(Units[k])[m] = {<<Unit.do, Unit.id>>}
    BY <1>2, <2>2, <2>4, <2>5, LeafDoes
  <2>7. QED  BY <1>2, <2>1, <2>3, <2>6
<1>6. QED  BY <1>2, <1>3, <1>4, <1>5

\* A unit of these kinds is no leaf and no container of another.
LEMMA AtFresh ==
    ASSUME job \in Jobs, JobAccepted, NextInv, todo # <<>>,
           Route(Unit) \in {"split", "embedded", "atlas"}
    PROVE  \E k \in 1..Len(Units) :
             /\ UnitShape(Units[k]) /\ Inside(k, <<Units[k]>>, <<>>)
             /\ Unit = Units[k] /\ Tail(todo) = Rest(k)
<1>1. PICK k \in 1..Len(Units) :
             /\ UnitShape(Units[k])
             /\ \/ /\ Inside(k, <<Units[k]>>, <<>>)
                   /\ Unit = Units[k] /\ Tail(todo) = Rest(k)
                \/ Holds(k) /\ Unit = Inner(Units[k]) /\ Tail(todo) = Rest(k)
                \/ \E j \in Left(k) : Leaves(k, j) /\ Unit = LeavesOf(Units[k])[j + 1]
  BY AtUnit
<1>2. ~(Holds(k) /\ Unit = Inner(Units[k]))
  <2>1. SUFFICES ASSUME Unit.do \in {"acb", "usm"} PROVE FALSE  BY DEF Holds, Opened
  <2>2. Route(Unit) = Unit.do  BY <2>1, RouteIs
  <2>3. QED  BY <2>1, <2>2
<1>3. ~(\E j \in Left(k) : Leaves(k, j) /\ Unit = LeavesOf(Units[k])[j + 1])
  <2>1. SUFFICES ASSUME NEW j \in Left(k), Leaves(k, j), Unit = LeavesOf(Units[k])[j + 1]
                 PROVE  FALSE
    OBVIOUS
  <2>2. Leafy(Units[k]) /\ j + 1 \in 1..Len(LeavesOf(Units[k]))  BY <2>1, AtLeaf
  <2>3. Route(Unit) = "wave" \/ Route(Unit) \in Direct \cup Plain
    BY <1>1, <2>1, <2>2, LeafDoes
  <2>4. QED  BY <2>3 DEF Direct, Plain
<1>4. QED  BY <1>1, <1>2, <1>3

-----------------------------------------------------------------------------
(* What is sound, and reasons to fail.                                     *)

LEMMA OpenedSound ==
    ASSUME NEW u, Opened(u), SoundUnit(u)
    PROVE  Sound(Inner(u))
<1>1. CASE u.do = "wrapper"
  <2>1. Inner(u) = u.container /\ Route(u) \in {"split", "embedded"}
    BY <1>1 DEF Inner, Opened
  <2>2. QED  BY <2>1 DEF SoundUnit
<1>2. CASE u.do # "wrapper"
  <2>1. Inner(u) = u /\ u.do \in {"acb", "usm"}  BY <1>2 DEF Inner, Opened
  <2>2. Route(u) \in {"acb", "usm"}  BY <2>1, RouteIs
  <2>3. QED  BY <2>1, <2>2 DEF SoundUnit
<1>3. QED  BY <1>1, <1>2

LEMMA SoundAcb ==
    ASSUME NEW u, u.do = "acb", Sound(u)
    PROVE  AcbAccepted(u) /\ \A i \in DOMAIN Waves(u) : Waves(u)[i].good
<1>1. Route(u) = "acb"  BY RouteIs
<1>2. QED  BY <1>1 DEF Sound, Direct

LEMMA SoundUsm ==
    ASSUME NEW u, u.do = "usm", Sound(u), u.source \in DOMAIN found
    PROVE  VideoAccepted(u) /\ AudioAccepted(u)
<1>1. Route(u) = "usm"  BY RouteIs
<1>2. QED  BY <1>1 DEF Sound, Direct

LEMMA SoundLeaf ==
    ASSUME NEW u, UnitShape(u), Leafy(u), SoundUnit(u), NEW j \in 1..Len(LeavesOf(u))
    PROVE  IF LeavesOf(u)[j].do = "wave" THEN LeavesOf(u)[j].good ELSE Sound(LeavesOf(u)[j])
<1>1. CASE Inner(u).do = "acb"
  <2>1. LeavesOf(u) = Waves(Inner(u)) /\ AcbShape(Inner(u))
    BY <1>1, InnerShape DEF LeavesOf
  <2>2. Opened(u)
    <3>1. u.do # "atlas" /\ u.do \notin Direct  BY <1>1 DEF Inner, Direct
    <3>2. Route(u) \notin Direct  BY <3>1, RouteIs DEF Direct
    <3>3. QED  BY <3>1, <3>2 DEF Leafy
  <2>3. \A i \in DOMAIN Waves(Inner(u)) : Waves(Inner(u))[i].good
    BY <1>1, <2>2, OpenedSound, SoundAcb
  <2>4. IsSeq(Waves(Inner(u)))
        /\ \A i \in 1..Len(Waves(Inner(u))) : Waves(Inner(u))[i].do = "wave"
    BY <2>1, AcbWaves
  <2>5. DOMAIN Waves(Inner(u)) = 1..Len(Waves(Inner(u)))  BY <2>4, IsSeqDef
  <2>6. QED  BY <2>1, <2>3, <2>4, <2>5
<1>2. CASE Inner(u).do # "acb" /\ u.do = "atlas" /\ Route(u) = "atlas"
  <2>1. LeavesOf(u) = u.sprites  BY <1>2 DEF LeavesOf
  <2>2. IsSeq(u.sprites) /\ \A i \in DOMAIN u.sprites : u.sprites[i].do \in Plain
    BY <1>2, UnitDoes
  <2>3. DOMAIN u.sprites = 1..Len(u.sprites) /\ Len(u.sprites) \in Nat  BY <2>2, IsSeqDef
  <2>4. u.sprites # <<>>  BY <2>1, <2>3
  <2>5. \A i \in DOMAIN u.sprites : Sound(u.sprites[i])  BY <1>2, <2>4 DEF SoundUnit
  <2>6. QED  BY <2>1, <2>2, <2>3, <2>5 DEF Plain
<1>3. CASE Inner(u).do # "acb" /\ ~(u.do = "atlas" /\ Route(u) = "atlas") /\ Route(u) \in Direct
  <2>1. Route(u) = u.do  BY <1>3, RouteIs DEF Direct
  <2>2. LeavesOf(u) = <<u>>  BY <1>3, <2>1 DEF LeavesOf, Direct
  <2>3. Len(LeavesOf(u)) = 1 /\ LeavesOf(u)[1] = u  BY <2>2
  <2>4. j = 1  BY <2>3
  <2>5. Sound(u)  BY <1>3 DEF SoundUnit, Direct
  <2>6. u.do # "wave"  BY <1>3, <2>1 DEF Direct
  <2>7. QED  BY <2>3, <2>4, <2>5, <2>6
<1>4. QED  BY <1>1, <1>2, <1>3 DEF Leafy

LEMMA SameSound ==
    ASSUME UNCHANGED <<job, found>>
    PROVE  \A u : SoundUnit(u)' <=> SoundUnit(u)
<1>1. \A u : Route(u)' = Route(u)  BY SameUnits
<1>2. \A u, s : Has(u, s)' <=> Has(u, s)  BY DEF Has, StreamOf
<1>3. \A u : /\ VideoAccepted(u)' <=> VideoAccepted(u)
             /\ AudioAccepted(u)' <=> AudioAccepted(u)
  BY <1>2 DEF VideoAccepted, AudioAccepted
<1>4. \A u : Sound(u)' <=> Sound(u)  BY <1>1, <1>3 DEF Sound
<1>5. QED  BY <1>1, <1>4 DEF SoundUnit

LEMMA UnsoundStays ==
    ASSUME job \in Jobs, JobAccepted, UNCHANGED <<job, found>>, NEW i \in 1..Len(Units),
           ~SoundUnit(Units[i])
    PROVE  Reason'
<1>1. DOMAIN Units = 1..Len(Units)  BY UnitsOfJob
<1>2. Units' = Units  BY SameUnits
<1>3. ~SoundUnit(Units[i])'  BY <1>2, SameSound DEF SoundUnit, Sound, VideoAccepted, AudioAccepted
<1>4. (\E k \in DOMAIN Units : ~SoundUnit(Units[k]))'  BY <1>1, <1>2, <1>3
<1>5. QED  BY <1>4 DEF Reason

-----------------------------------------------------------------------------
(* Where a step leads.                                                     *)

LEMMA Fails ==
    ASSUME ControlInv, stage # "ended", Fail, UNCHANGED verdict, Reason'
    PROVE  ControlInv'
<1>1. stage' = "result" /\ result'.error  BY DEF Fail
<1>2. verdict' = "none"  BY DEF ControlInv
<1>3. QED  BY <1>1, <1>2 DEF ControlInv

LEMMA GoesOn ==
    ASSUME ControlInv, stage \notin {"begin", "result", "ended"}, UNCHANGED <<job, verdict>>,
           \/ stage' = "next" /\ NextInv'
           \/ stage' = "demux"
              /\ (\E k \in 1..Len(Units) : /\ Holds(k) /\ Inner(Units[k]).do = "usm"
                                           /\ Inner(Units[k]).streams = None)'
           \/ stage' = "verify" /\ (\E k \in 1..Len(Units) : Split(k, <<>>))'
           \/ stage' = "encode" /\ (\E k \in 1..Len(Units) : Making(k))'
           \/ stage' = "check" /\ (\E k \in 1..Len(Units) : Making(k))' /\ Encoded'
           \/ stage' = "keep" /\ (\E k \in 1..Len(Units) : Making(k))' /\ Encoded'
              /\ (output[Target].lost # "more")'
    PROVE  ControlInv'
<1>1. verdict' = "none" /\ JobAccepted'  BY SameUnits DEF ControlInv
<1>2. CASE stage' = "next" /\ NextInv'  BY <1>1, <1>2 DEF ControlInv
<1>3. CASE stage' = "demux"
              /\ (\E k \in 1..Len(Units) : /\ Holds(k) /\ Inner(Units[k]).do = "usm"
                                           /\ Inner(Units[k]).streams = None)'
  BY <1>1, <1>3 DEF ControlInv
<1>4. CASE stage' = "verify" /\ (\E k \in 1..Len(Units) : Split(k, <<>>))'
  BY <1>1, <1>4 DEF ControlInv
<1>5. CASE stage' = "encode" /\ (\E k \in 1..Len(Units) : Making(k))'
  BY <1>1, <1>5 DEF ControlInv
<1>6. CASE stage' = "check" /\ (\E k \in 1..Len(Units) : Making(k))' /\ Encoded'
  BY <1>1, <1>6 DEF ControlInv
<1>7. CASE stage' = "keep" /\ (\E k \in 1..Len(Units) : Making(k))' /\ Encoded'
           /\ (output[Target].lost # "more")'
  BY <1>1, <1>7 DEF ControlInv
<1>8. QED  BY <1>2, <1>3, <1>4, <1>5, <1>6, <1>7

\* Steps that neither write nor count anything.
LEMMA NoFiles ==
    ASSUME FilesInv, UNCHANGED <<outVars, wanted, empties>>
    PROVE  FilesInv' /\ Made' = Made
<1>1. empties' \in Nat  BY DEF FilesInv
<1>2. UNCHANGED <<files, output, written, wanted>>  BY DEF outVars
<1>3. QED  BY <1>1, <1>2, SameFiles

LEMMA NoVideo == VideoFound /\ UNCHANGED demuxVars => VideoFound'
<1> SUFFICES ASSUME VideoFound, UNCHANGED demuxVars PROVE VideoFound'  OBVIOUS
<1>1. UNCHANGED <<phase, opened>>  BY DEF demuxVars, streamVars
<1>2. QED  BY <1>1 DEF VideoFound

-----------------------------------------------------------------------------
(* Begin, and what is converted at once.                                   *)

LEMMA BeginKeeps == WorkerInv /\ Begin => WorkerInv'
<1> SUFFICES ASSUME WorkerInv, Begin PROVE WorkerInv'  OBVIOUS
<1>1. job \in Jobs /\ FilesInv /\ ControlInv /\ VideoFound  BY DEF WorkerInv
<1>2. /\ stage = "begin"
      /\ UNCHANGED <<demuxVars, job, outVars, found, empties, verdict, wanted>>
  BY DEF Begin
<1>3. FilesInv' /\ Made' = Made  BY <1>1, <1>2, NoFiles
<1>4. VideoFound'  BY <1>1, <1>2, NoVideo
<1>5. verdict' = "none" /\ files = <<>> /\ files' = <<>>  BY <1>1, <1>2 DEF ControlInv, outVars
<1>6. CASE JobAccepted
  <2>1. stage' = "next" /\ todo' = Units  BY <1>6 DEF Begin, Write
  <2>2. Made = <<>>
    <3>1. IsSeq(Made) /\ Len(Made) = Len(files) /\ Len(files) = 0
      BY <1>1, <1>5, MadeSeq, NoSeq
    <3>2. QED  BY <3>1, NoSeq, SameSeq
  <2>3. Len(Units) \in Nat /\ 0 \in 0..Len(Units) /\ Rest(0) = Units
    BY <1>1, <1>6, PlaceSeqs
  <2>4. Units' = Units /\ JobAccepted' /\ Rest(0)' = Rest(0)  BY <1>2, <1>6, SameUnits
  <2>5. Flat(0)' = <<>>  BY FlatNone DEF Flat
  <2>6. Between(0)'  BY <1>3, <2>1, <2>2, <2>3, <2>4, <2>5 DEF Between
  <2>7. (\E k \in 0..Len(Units) : Between(k))'  BY <2>3, <2>4, <2>6
  <2>8. NextInv'  BY <2>7 DEF NextInv
  <2>9. ControlInv'  BY <1>5, <2>1, <2>4, <2>8 DEF ControlInv
  <2>10. QED  BY <1>1, <1>2, <1>3, <1>4, <2>9 DEF WorkerInv
<1>7. CASE ~JobAccepted
  <2>1. Fail  BY <1>7 DEF Begin
  <2>2. ~JobAccepted'  BY <1>2, <1>7, SameUnits
  <2>3. Reason'  BY <2>2 DEF Reason
  <2>4. ControlInv'  BY <1>1, <1>2, <2>1, <2>3, Fails
  <2>5. QED  BY <1>1, <1>2, <1>3, <1>4, <2>4 DEF WorkerInv
<1>8. QED  BY <1>6, <1>7

LEMMA UnsoundLeaf ==
    ASSUME job \in Jobs, JobAccepted, UNCHANGED <<job, found>>,
           NEW k, NEW j \in Left(k), Leaves(k, j),
           IF Unit.do = "wave" THEN ~Unit.good ELSE ~Sound(Unit)
    PROVE  Reason'
<1>1. /\ k \in 1..Len(Units) /\ UnitShape(Units[k]) /\ Leafy(Units[k])
      /\ j + 1 \in 1..Len(LeavesOf(Units[k])) /\ Unit = LeavesOf(Units[k])[j + 1]
  BY AtLeaf
<1>2. PICK m : m = j + 1  OBVIOUS
<1>3. m \in 1..Len(LeavesOf(Units[k])) /\ Unit = LeavesOf(Units[k])[m]  BY <1>1, <1>2
<1>4. ~SoundUnit(Units[k])  BY <1>1, <1>3, SoundLeaf
<1>5. QED  BY <1>1, <1>4, UnsoundStays

\* No room is left: what all outputs need is more than a limit allows.
LEMMA NoRoom ==
    ASSUME FilesInv, NEW n \in Nat, ~Room(n), files' = files,
           wanted' \in Nat, written + n <= wanted'
    PROVE  Reason'
<1>1. written \in Nat /\ Len(files) \in Nat /\ Len(files) <= MaxFiles
  BY MadeSeq DEF FilesInv
<1>2. OutputBytes \in Nat /\ MaxFiles \in Nat  BY WorkerAssumption
<1>3. ~(written + n <= OutputBytes) \/ ~(Len(files) < MaxFiles)  BY DEF Room
<1>4. wanted' > OutputBytes \/ Len(files) = MaxFiles  BY <1>1, <1>2, <1>3
<1>5. Len(files)' = Len(files)  OBVIOUS
<1>6. QED  BY <1>4, <1>5 DEF Reason

LEMMA ConvertKeeps == WorkerInv /\ Convert => WorkerInv'
<1> SUFFICES ASSUME WorkerInv, Convert PROVE WorkerInv'  OBVIOUS
<1>1. job \in Jobs /\ FilesInv /\ ControlInv /\ VideoFound  BY DEF WorkerInv
<1>2. /\ stage = "next" /\ todo # <<>> /\ Route(Unit) \in Direct
      /\ UNCHANGED <<demuxVars, job, found, empties, verdict>>
  BY DEF Convert, At
<1>3. VideoFound'  BY <1>1, <1>2, NoVideo
<1>4. JobAccepted /\ NextInv  BY <1>1, <1>2 DEF ControlInv
<1>5. PICK k \in 1..Len(Units) : \E j \in Left(k) :
             /\ UnitShape(Units[k]) /\ Leaves(k, j)
             /\ Unit = LeavesOf(Units[k])[j + 1]
             /\ Becomes(Units[k])[j + 1] = {<<Unit.do, Unit.id>>}
  BY <1>1, <1>2, <1>4, AtDirect
<1>6. PICK j \in Left(k) :
             /\ UnitShape(Units[k]) /\ Leaves(k, j)
             /\ Unit = LeavesOf(Units[k])[j + 1]
             /\ Becomes(Units[k])[j + 1] = {<<Unit.do, Unit.id>>}
  BY <1>5
<1>7. CASE Unit.good
  <2> DEFINE ext == Ext[Unit.do]
             x == {<<Unit.do, Unit.id>>}
  <2>1. PICK n \in Sizes :
              /\ wanted' = wanted + n
              /\ output' = With(output, Path(ext), [of |-> x, size |-> n, lost |-> "nothing"])
              /\ Add(Path(ext), n, Unit.id, <<Unit.do, Unit.id>>, "asset", Tail(todo), "next")
    BY <1>7 DEF Convert
  <2>2. n \in Nat  BY WorkerAssumption
  <2>3. PICK e, v, l, s : /\ e = ext /\ v = [of |-> x, size |-> n, lost |-> "nothing"]
                          /\ l = Unit.id /\ s = <<Unit.do, Unit.id>>
    OBVIOUS
  <2>4. output' = With(output, Path(e), v)  BY <2>1, <2>3
  <2>5. /\ Path(e) \in DOMAIN output' /\ output'[Path(e)] = v
        /\ \A i \in DOMAIN files : /\ files[i].path \in DOMAIN output'
                                   /\ output'[files[i].path] = output[files[i].path]
    BY <1>1, <2>4, Written
  <2>6. CASE Room(n)
    <3>1. /\ files' = Append(files, [path |-> Path(e), size |-> n, label |-> l,
                                     stable |-> s, role |-> "asset"])
          /\ written' = written + n /\ stage' = "next" /\ todo' = Tail(todo)
      BY <2>1, <2>3, <2>6 DEF Add, Write
    <3>2. v.size = n /\ v.lost = "nothing" /\ v.of = x  BY <2>3
    <3>3. Stored(e, n)  BY <2>5, <3>2 DEF Stored
    <3>4. wanted' \in Nat /\ written' <= wanted' /\ empties' \in Nat
      <4>1. written \in Nat /\ wanted \in Nat /\ written <= wanted /\ empties \in Nat
        BY <1>1 DEF FilesInv
      <4>2. QED  BY <1>2, <2>1, <2>2, <3>1, <4>1
    <3>5. Counted(e, n, l, s, "asset")  BY <3>1, <3>4 DEF Counted
    <3>6. FilesInv' /\ files' # <<>> /\ Made' = Append(Made, output'[Path(e)].of)
      BY <1>1, <2>2, <2>6, <3>3, <3>5, Added
    <3>7. Made' = Append(Made, Becomes(Units[k])[j + 1])  BY <1>6, <2>5, <3>2, <3>6
    <3>8. NextInv'  BY <1>1, <1>2, <1>4, <1>6, <3>1, <3>6, <3>7, LeafDone
    <3>9. ControlInv'  BY <1>1, <1>2, <3>1, <3>8, GoesOn
    <3>10. QED  BY <1>1, <1>2, <1>3, <3>6, <3>9 DEF WorkerInv
  <2>7. CASE ~Room(n)
    <3>1. Fail /\ UNCHANGED <<files, written>>  BY <2>1, <2>7 DEF Add
    <3>2. FilesInv'  BY <1>1, <1>2, <2>1, <2>2, <2>4, <3>1, Produced
    <3>3. wanted' \in Nat /\ written + n <= wanted'
      <4>1. written \in Nat /\ wanted \in Nat /\ written <= wanted  BY <1>1 DEF FilesInv
      <4>2. QED  BY <2>1, <2>2, <4>1
    <3>4. Reason'  BY <1>1, <2>2, <2>7, <3>1, <3>3, NoRoom
    <3>5. ControlInv'  BY <1>1, <1>2, <3>1, <3>4, Fails
    <3>6. QED  BY <1>1, <1>2, <1>3, <3>2, <3>5 DEF WorkerInv
  <2>8. QED  BY <2>6, <2>7
<1>8. CASE ~Unit.good
  <2>1. Fail /\ UNCHANGED <<outVars, wanted>>  BY <1>8 DEF Convert
  <2>2. FilesInv'  BY <1>1, <1>2, <2>1, NoFiles
  <2>3. Unit.do # "wave" /\ ~Sound(Unit)
    <3>1. Route(Unit) = Unit.do  BY <1>2, RouteIs DEF Direct
    <3>2. QED  BY <1>2, <1>8, <3>1 DEF Sound, Direct
  <2>4. Reason'  BY <1>1, <1>2, <1>4, <1>6, <2>3, UnsoundLeaf
  <2>5. ControlInv'  BY <1>1, <1>2, <2>1, <2>4, Fails
  <2>6. QED  BY <1>1, <1>2, <1>3, <2>2, <2>5 DEF WorkerInv
<1>9. QED  BY <1>7, <1>8

-----------------------------------------------------------------------------
(* Units that hold others.                                                 *)

LEMMA ToAllLeaves ==
    ASSUME job \in Jobs, JobAccepted, UNCHANGED <<job, found>>, NEW k, NEW f,
           Inside(k, f, <<>>), Leafy(Units[k]), Made' = Made,
           todo' = LeavesOf(Units[k]) \o Rest(k),
           LeavesOf(Units[k]) = <<>> => files' # <<>> \/ empties' > 0
    PROVE  NextInv'
<1>1. k \in 1..Len(Units) /\ UnitShape(Units[k])  BY PlaceSeqs DEF Inside
<1> DEFINE u == Units[k]
           n == Len(LeavesOf(u))
<1>2. IsSeq(LeavesOf(u)) /\ IsSeq(Becomes(u)) /\ n = Len(Becomes(u)) /\ n \in Nat
  BY <1>1, LeavesBecome, IsSeqDef
<1>3. PICK z : z = 0  OBVIOUS
<1>4. z \in 0..n  BY <1>2, <1>3
<1>5. SubSeq(LeavesOf(u), z + 1, n) = LeavesOf(u) /\ SubSeq(Becomes(u), 1, z) = <<>>
  BY <1>2, <1>3, <1>4, CutSeq
<1>6. z = n => LeavesOf(u) = <<>>
  <2>1. SUFFICES ASSUME n = 0 PROVE LeavesOf(u) = <<>>  BY <1>3
  <2>2. QED  BY <1>2, <2>1, NoSeq, SameSeq
<1>7. Made' = Flat(k - 1) \o SubSeq(Becomes(u), 1, z)  BY <1>5 DEF Inside
<1>8. QED  BY <1>4, <1>5, <1>6, <1>7, ToLeaves

LEMMA ReplaceDoes ==
    ASSUME WorkerInv, NEW kinds, At("next", kinds), NEW accepted, NEW units,
           Replace(accepted, units)
    PROVE  /\ job \in Jobs /\ FilesInv /\ ControlInv /\ VideoFound /\ VideoFound'
           /\ JobAccepted /\ NextInv /\ todo # <<>> /\ Route(Unit) \in kinds
           /\ stage = "next"
           /\ UNCHANGED <<demuxVars, job, outVars, found, verdict, wanted>>
           /\ UNCHANGED <<files, output, written>>
           /\ accepted => stage' = "next" /\ todo' = units \o Tail(todo)
           /\ ~accepted => Fail
<1>1. /\ job \in Jobs /\ FilesInv /\ ControlInv /\ VideoFound  BY DEF WorkerInv
<1>2. /\ stage = "next" /\ todo # <<>> /\ Route(Unit) \in kinds  BY DEF At
<1>3. /\ UNCHANGED <<demuxVars, job, outVars, found, verdict, wanted>>  BY DEF Replace
<1>4. UNCHANGED <<files, output, written>>  BY <1>3 DEF outVars
<1>5. /\ accepted => stage' = "next" /\ todo' = units \o Tail(todo)
      /\ ~accepted => Fail
  BY DEF Replace, Write
<1>6. VideoFound'  BY <1>1, <1>3, NoVideo
<1>7. JobAccepted /\ NextInv  BY <1>1, <1>2 DEF ControlInv
<1>8. QED  BY <1>1, <1>2, <1>3, <1>4, <1>5, <1>6, <1>7

Opens(u) == IF Route(u) = "split" THEN Assembled(u) ELSE Unwrapped(u)

LEMMA OpenWrapperKeeps == WorkerInv /\ OpenWrapper => WorkerInv'
<1> SUFFICES ASSUME WorkerInv, OpenWrapper PROVE WorkerInv'  OBVIOUS
<1>1. At("next", {"split", "embedded"}) /\ Replace(Opens(Unit), <<Unit.container>>)
      /\ UNCHANGED empties
  BY DEF OpenWrapper, Opens
<1>2. /\ job \in Jobs /\ FilesInv /\ ControlInv /\ VideoFound /\ VideoFound'
      /\ JobAccepted /\ NextInv /\ todo # <<>> /\ Route(Unit) \in {"split", "embedded"}
      /\ stage = "next"
      /\ UNCHANGED <<demuxVars, job, outVars, found, verdict, wanted>>
      /\ Opens(Unit) => stage' = "next" /\ todo' = <<Unit.container>> \o Tail(todo)
      /\ ~Opens(Unit) => Fail
  <2>1. PICK front : front = <<Unit.container>>  OBVIOUS
  <2>2. Replace(Opens(Unit), front)  BY <1>1, <2>1
  <2>3. Opens(Unit) => stage' = "next" /\ todo' = front \o Tail(todo)
    BY <1>1, <2>2, ReplaceDoes
  <2>4. ~Opens(Unit) => Fail  BY <1>1, <2>2, ReplaceDoes
  <2>5. JobAccepted /\ NextInv /\ todo # <<>> /\ Route(Unit) \in {"split", "embedded"}
    BY <1>1, <2>2, ReplaceDoes
  <2>6. QED  BY <1>1, <2>1, <2>2, <2>3, <2>4, <2>5, ReplaceDoes
<1>3. FilesInv' /\ Made' = Made  BY <1>1, <1>2, NoFiles
<1>4. PICK k \in 1..Len(Units) :
             /\ UnitShape(Units[k]) /\ Inside(k, <<Units[k]>>, <<>>)
             /\ Unit = Units[k] /\ Tail(todo) = Rest(k)
  BY <1>2, AtFresh
<1>5. Unit.do \in Kinds  BY <1>4, UnitDoes
<1>6. CASE Opens(Unit)
  <2>1. Unit.do = "wrapper" /\ Inner(Unit).do \in {"acb", "usm"}
    <3>1. CASE Route(Unit) = "split"
      <4>1. Assembled(Unit)  BY <1>6, <3>1 DEF Opens
      <4>2. QED  BY <4>1 DEF Assembled, Inner
    <3>2. CASE Route(Unit) = "embedded"
      <4>1. Unwrapped(Unit)  BY <1>6, <3>2 DEF Opens
      <4>2. Unit.do = "wrapper"  BY <1>5, <3>2, RouteIs DEF Kinds
      <4>3. QED  BY <4>1, <4>2 DEF Unwrapped, Inner
    <3>3. QED  BY <1>2, <3>1, <3>2
  <2>2. Opened(Unit)  BY <1>2, <1>6, <2>1 DEF Opened, Opens
  <2>3. Unit.container = Inner(Units[k])  BY <1>4, <2>1 DEF Inner
  <2>4. Units' = Units /\ Len(Units)' = Len(Units)  BY <1>2, SamePlace
  <2>5. Opened(Units[k])'
    <3>1. \A u : Opened(u)' = Opened(u)  BY <1>2, SameUnits
    <3>2. Opened(Units[k])  BY <1>4, <2>2
    <3>3. QED  BY <2>4, <3>1, <3>2 DEF Opened
  <2>6. Holds(k)'
    <3>1. PICK f, g : f = <<Units[k]>> /\ g = <<Inner(Units[k])>>  OBVIOUS
    <3>2. todo' = g \o Rest(k)  BY <1>2, <1>4, <1>6, <2>3, <3>1
    <3>3. Made' = Flat(k - 1) \o <<>>  BY <1>3, <1>4 DEF Inside
    <3>4. Inside(k, f, <<>>)  BY <1>4, <3>1
    <3>5. Inside(k, g, <<>>)'  BY <1>2, <3>2, <3>3, <3>4, StepIn
    <3>6. <<Inner(Units[k])>>' = g  BY <2>4, <3>1 DEF Inner
    <3>7. QED  BY <2>5, <3>5, <3>6 DEF Holds
  <2>7. (\E m \in 1..Len(Units) : Holds(m) \/ \E j \in Left(m) : Leaves(m, j))'
    BY <1>4, <2>4, <2>6
  <2>8. NextInv'  BY <2>7 DEF NextInv
  <2>9. ControlInv'  BY <1>2, <1>6, <2>8, GoesOn
  <2>10. QED  BY <1>2, <1>3, <2>9 DEF WorkerInv
<1>7. CASE ~Opens(Unit)
  <2>1. ~SoundUnit(Units[k])  BY <1>2, <1>4, <1>7 DEF SoundUnit, Opens
  <2>2. Reason'  BY <1>2, <2>1, UnsoundStays
  <2>3. ControlInv'  BY <1>2, <1>7, <2>2, Fails
  <2>4. QED  BY <1>2, <1>3, <2>3 DEF WorkerInv
<1>8. QED  BY <1>6, <1>7

Spread(u) == u.sprites # <<>> \/ ~u.leftovers

LEMMA OpenAtlasKeeps == WorkerInv /\ OpenAtlas => WorkerInv'
<1> SUFFICES ASSUME WorkerInv, OpenAtlas PROVE WorkerInv'  OBVIOUS
<1>1. At("next", {"atlas"}) /\ Replace(Spread(Unit), Unit.sprites)
      /\ empties' = IF Unit.sprites = <<>> /\ ~Unit.leftovers THEN empties + 1 ELSE empties
  BY DEF OpenAtlas, Spread
<1>2. /\ job \in Jobs /\ FilesInv /\ ControlInv /\ VideoFound /\ VideoFound'
      /\ JobAccepted /\ NextInv /\ todo # <<>> /\ Route(Unit) = "atlas" /\ stage = "next"
      /\ UNCHANGED <<demuxVars, job, outVars, found, verdict, wanted>>
      /\ UNCHANGED <<files, output, written>>
      /\ Spread(Unit) => stage' = "next" /\ todo' = Unit.sprites \o Tail(todo)
      /\ ~Spread(Unit) => Fail
  <2>1. PICK front : front = Unit.sprites  OBVIOUS
  <2>2. Replace(Spread(Unit), front)  BY <1>1, <2>1
  <2>3. Spread(Unit) => stage' = "next" /\ todo' = front \o Tail(todo)
    BY <1>1, <2>2, ReplaceDoes
  <2>4. ~Spread(Unit) => Fail  BY <1>1, <2>2, ReplaceDoes
  <2>5. JobAccepted /\ NextInv /\ todo # <<>> /\ Route(Unit) \in {"atlas"}
    BY <1>1, <2>2, ReplaceDoes
  <2>6. QED  BY <1>1, <2>1, <2>2, <2>3, <2>4, <2>5, ReplaceDoes
<1>3. empties' \in Nat /\ (Unit.sprites = <<>> /\ ~Unit.leftovers => empties' > 0)
  <2>1. empties \in Nat  BY <1>2 DEF FilesInv
  <2>2. QED  BY <1>1, <2>1
<1>4. FilesInv' /\ Made' = Made  BY <1>2, <1>3, SameFiles
<1>5. PICK k \in 1..Len(Units) :
             /\ UnitShape(Units[k]) /\ Inside(k, <<Units[k]>>, <<>>)
             /\ Unit = Units[k] /\ Tail(todo) = Rest(k)
  BY <1>2, AtFresh
<1>6. Unit.do = "atlas"  BY <1>2, RouteIs
<1>7. CASE Spread(Unit)
  <2>1. Leafy(Units[k])  BY <1>2, <1>5, <1>6 DEF Leafy
  <2>2. LeavesOf(Units[k]) = Unit.sprites  BY <1>5, <1>6 DEF LeavesOf, Inner
  <2>3. LeavesOf(Units[k]) = <<>> => files' # <<>> \/ empties' > 0
    BY <1>3, <1>7, <2>2 DEF Spread
  <2>4. PICK f : f = <<Units[k]>>  OBVIOUS
  <2>5. Inside(k, f, <<>>)  BY <1>5, <2>4
  <2>6. todo' = LeavesOf(Units[k]) \o Rest(k)  BY <1>2, <1>5, <1>7, <2>2
  <2>7. NextInv'  BY <1>2, <1>4, <2>1, <2>3, <2>5, <2>6, ToAllLeaves
  <2>8. ControlInv'  BY <1>2, <1>7, <2>7, GoesOn
  <2>9. QED  BY <1>2, <1>4, <2>8 DEF WorkerInv
<1>8. CASE ~Spread(Unit)
  <2>1. Unit.sprites = <<>> /\ Unit.leftovers  BY <1>8 DEF Spread
  <2>2. ~SoundUnit(Units[k])  BY <1>2, <1>5, <2>1 DEF SoundUnit
  <2>3. Reason'  BY <1>2, <2>2, UnsoundStays
  <2>4. ControlInv'  BY <1>2, <1>8, <2>3, Fails
  <2>5. QED  BY <1>2, <1>4, <2>4 DEF WorkerInv
<1>9. QED  BY <1>7, <1>8

LEMMA OpenAcbKeeps == WorkerInv /\ OpenAcb => WorkerInv'
<1> SUFFICES ASSUME WorkerInv, OpenAcb PROVE WorkerInv'  OBVIOUS
<1>1. At("next", {"acb"}) /\ Replace(AcbAccepted(Unit), Waves(Unit)) /\ UNCHANGED empties
  BY DEF OpenAcb
<1>2. /\ job \in Jobs /\ FilesInv /\ ControlInv /\ VideoFound /\ VideoFound'
      /\ JobAccepted /\ NextInv /\ todo # <<>> /\ Route(Unit) = "acb" /\ stage = "next"
      /\ UNCHANGED <<demuxVars, job, outVars, found, verdict, wanted>>
      /\ AcbAccepted(Unit) => stage' = "next" /\ todo' = Waves(Unit) \o Tail(todo)
      /\ ~AcbAccepted(Unit) => Fail
  BY <1>1, ReplaceDoes
<1>3. FilesInv' /\ Made' = Made  BY <1>1, <1>2, NoFiles
<1>4. PICK k \in 1..Len(Units) :
             /\ UnitShape(Units[k]) /\ Holds(k)
             /\ Unit = Inner(Units[k]) /\ Tail(todo) = Rest(k) /\ Route(Unit) = Unit.do
  BY <1>2, AtContainer
<1>5. Opened(Units[k]) /\ Inner(Units[k]).do = "acb"  BY <1>2, <1>4 DEF Holds
<1>6. CASE AcbAccepted(Unit)
  <2>1. Leafy(Units[k]) /\ LeavesOf(Units[k]) = Waves(Unit)
    <3>1. Units[k].do # "atlas"  BY <1>5 DEF Inner
    <3>2. Leafy(Units[k])  BY <1>4, <1>5, <1>6 DEF Leafy
    <3>3. LeavesOf(Units[k]) = Waves(Unit)  BY <1>4, <1>5, <3>1 DEF LeavesOf
    <3>4. QED  BY <3>2, <3>3
  <2>2. AcbShape(Unit)  BY <1>4, <1>5, InnerShape
  <2>3. LeavesOf(Units[k]) # <<>>
    <3>1. Referenced(Unit) # {}  BY <1>6 DEF AcbAccepted
    <3>2. PICK v : v = Unit  OBVIOUS
    <3>3. Len(Waves(v)) > 0  BY <2>2, <3>1, <3>2, AcbWaves
    <3>4. QED  BY <2>1, <3>2, <3>3, NoSeq
  <2>4. PICK f : f = <<Inner(Units[k])>>  OBVIOUS
  <2>5. Inside(k, f, <<>>)  BY <1>4, <2>4 DEF Holds
  <2>6. todo' = LeavesOf(Units[k]) \o Rest(k)  BY <1>2, <1>4, <1>6, <2>1
  <2>7. NextInv'  BY <1>2, <1>3, <2>1, <2>3, <2>5, <2>6, ToAllLeaves
  <2>8. ControlInv'  BY <1>2, <1>6, <2>7, GoesOn
  <2>9. QED  BY <1>2, <1>3, <2>8 DEF WorkerInv
<1>7. CASE ~AcbAccepted(Unit)
  <2>1. ~SoundUnit(Units[k])  BY <1>4, <1>5, <1>7, OpenedSound, SoundAcb
  <2>2. Reason'  BY <1>2, <2>1, UnsoundStays
  <2>3. ControlInv'  BY <1>2, <1>7, <2>2, Fails
  <2>4. QED  BY <1>2, <1>3, <2>3 DEF WorkerInv
<1>8. QED  BY <1>6, <1>7

LEMMA UnsupportedKeeps == WorkerInv /\ Unsupported => WorkerInv'
<1> SUFFICES ASSUME WorkerInv, Unsupported PROVE WorkerInv'  OBVIOUS
<1>1. At("next", {"wrapper", "other", "unknown"}) /\ Replace(FALSE, <<>>) /\ UNCHANGED empties
  BY DEF Unsupported
<1>2. /\ job \in Jobs /\ FilesInv /\ ControlInv /\ VideoFound /\ VideoFound'
      /\ JobAccepted /\ NextInv /\ todo # <<>>
      /\ Route(Unit) \in {"wrapper", "other", "unknown"} /\ stage = "next"
      /\ UNCHANGED <<demuxVars, job, outVars, found, verdict, wanted>>
      /\ Fail
  BY <1>1, ReplaceDoes
<1>3. FilesInv'  BY <1>1, <1>2, NoFiles
<1>4. PICK k \in 1..Len(Units) :
             /\ UnitShape(Units[k])
             /\ \/ /\ Inside(k, <<Units[k]>>, <<>>)
                   /\ Unit = Units[k] /\ Tail(todo) = Rest(k)
                \/ Holds(k) /\ Unit = Inner(Units[k]) /\ Tail(todo) = Rest(k)
                \/ \E j \in Left(k) : Leaves(k, j) /\ Unit = LeavesOf(Units[k])[j + 1]
  BY <1>2, AtUnit
<1>5. ~Sound(Unit)  BY <1>2 DEF Sound, Direct
<1>6. Route(Unit) = Unit.do  BY <1>2, RouteIs
<1>7. ~(Holds(k) /\ Unit = Inner(Units[k]))  BY <1>2, <1>6 DEF Holds, Opened
<1>8. Reason'
  <2>1. CASE Unit = Units[k]
    <3>1. ~SoundUnit(Units[k])  BY <1>2, <1>5, <2>1 DEF SoundUnit
    <3>2. QED  BY <1>2, <3>1, UnsoundStays
  <2>2. CASE \E j \in Left(k) : Leaves(k, j) /\ Unit = LeavesOf(Units[k])[j + 1]
    <3>1. PICK j \in Left(k) : Leaves(k, j)  BY <2>2
    <3>2. Unit.do # "wave"  BY <1>2, <1>6
    <3>3. QED  BY <1>2, <1>5, <3>1, <3>2, UnsoundLeaf
  <2>3. QED  BY <1>4, <1>7, <2>1, <2>2
<1>9. ControlInv'  BY <1>2, <1>8, Fails
<1>10. QED  BY <1>2, <1>3, <1>9 DEF WorkerInv

-----------------------------------------------------------------------------
(* The streams of a video.                                                 *)

\* What is found in one container changes nothing for the units before it.
LEMMA FoundMore ==
    ASSUME job \in Jobs, JobAccepted, job' = job, NEW k \in 1..Len(Units), IsUsm(Units[k]),
           NEW x, found' = With(found, Inner(Units[k]).source, x),
           NEW i \in 1..(k - 1), Passed(Units[i])
    PROVE  Becomes(Units[i])' = Becomes(Units[i]) /\ Passed(Units[i])'
<1>1. Units' = Units /\ Len(Units) \in Nat  BY SameUnits, PlaceSeqs
<1>2. i \in 1..Len(Units) /\ i # k  BY <1>1
<1> DEFINE u == Units[i]
           v == Inner(u)
           s == Inner(Units[k]).source
<1>3. CASE ~IsUsm(u)
  <2>1. Becomes(u)' = Becomes(u)
    <3>1. CASE v.do = "acb"
      <4>1. Contained(v)' = Contained(v)  BY <1>1, <3>1 DEF Contained
      <4>2. u.do # "atlas"  BY <3>1 DEF Inner
      <4>3. QED  BY <1>1, <3>1, <4>1, <4>2 DEF Becomes, Inner, Contained
    <3>2. CASE v.do \notin {"acb", "usm"}  BY <1>1, <3>2 DEF Becomes, Inner
    <3>3. QED  BY <1>3, <3>1, <3>2 DEF IsUsm
  <2>2. Passed(u)'  BY <1>1, <1>3 DEF Passed, IsUsm, Inner
  <2>3. QED  BY <2>1, <2>2
<1>4. CASE IsUsm(u)
  <2>1. v.source # s  BY <1>2, <1>4, UnitsOfJob
  <2>2. v.source \in DOMAIN found  BY <1>4 DEF Passed, IsUsm
  <2>3. v.source \in DOMAIN found' /\ found'[v.source] = found[v.source]
    <3>1. PICK y, z : y = v.source /\ z = s  OBVIOUS
    <3>2. found' = With(found, z, x)  BY <3>1
    <3>3. y # z /\ y \in DOMAIN found  BY <2>1, <2>2, <3>1
    <3>4. y \in DOMAIN found' /\ found'[y] = found[y]  BY <3>2, <3>3 DEF With
    <3>5. QED  BY <3>1, <3>4
  <2>4. v' = v /\ (IsUsm(u))'  BY <1>1, <1>4 DEF Inner, IsUsm
  <2>5. \A signature : Has(v, signature)' <=> Has(v, signature)
    BY <1>1, <2>3 DEF Has, StreamOf, Inner
  <2>6. Becomes(u)' = Becomes(u)
    <3>1. u.do # "atlas" /\ v.do = "usm"  BY <1>4 DEF IsUsm, Inner
    <3>2. Contained(v)' = Contained(v)
      <4>1. PICK w : w = v  OBVIOUS
      <4>2. Has(w, "SFA")' <=> Has(w, "SFA")  BY <2>4, <2>5, <4>1 DEF Has, StreamOf
      <4>3. Has(w, "ALP")' <=> Has(w, "ALP")  BY <2>4, <2>5, <4>1 DEF Has, StreamOf
      <4>4. Contained(w)' = Contained(w)  BY <4>2, <4>3 DEF Contained
      <4>5. QED  BY <2>4, <4>1, <4>4 DEF Contained, Has, StreamOf
    <3>3. Becomes(u) = Contained(v)  BY <3>1 DEF Becomes
    <3>4. Becomes(u)' = Contained(v)'  BY <1>1, <2>4, <3>1 DEF Becomes
    <3>5. QED  BY <3>2, <3>3, <3>4
  <2>7. Passed(u)'
    <3>1. v.do = "usm"  BY <1>4 DEF IsUsm
    <3>2. v.streams # None => found[v.source] = v.streams  BY <3>1 DEF Passed
    <3>3. QED  BY <1>1, <2>3, <2>4, <3>1, <3>2 DEF Passed
  <2>8. QED  BY <2>6, <2>7
<1>5. QED  BY <1>3, <1>4

\* A container is split into its streams.
LEMMA ToSplit ==
    ASSUME job \in Jobs, JobAccepted, job' = job, NEW k \in 1..Len(Units), Holds(k),
           Unit = Inner(Units[k]), Unit.do = "usm",
           NEW x, found' = With(found, Unit.source, x), temp' = Streamed(x.ids),
           x.ids \subseteq {"SFV", "SFA", "ALP"} \X Nat, \E id \in x.ids : id[1] = "SFV",
           Unit.streams # None => x = Unit.streams,
           todo' = todo, Made' = Made
    PROVE  Split(k, <<>>)'
<1> DEFINE u == Inner(Units[k])
<1>1. Units' = Units /\ Len(Units)' = Len(Units) /\ u' = u /\ Rest(k)' = Rest(k)
  BY SameUnits DEF Inner
<1>2. IsUsm(Units[k])  BY DEF IsUsm
<1>3. found' = With(found, u.source, x)  OBVIOUS
<1>4. /\ u.source \in DOMAIN found' /\ found'[u.source] = x
  <2>1. PICK s : s = u.source  OBVIOUS
  <2>2. found' = With(found, s, x)  BY <1>3, <2>1
  <2>3. s \in DOMAIN found' /\ found'[s] = x  BY <2>2 DEF With
  <2>4. QED  BY <2>1, <2>3
<1>5. Inside(k, <<u>>, <<>>) /\ Opened(Units[k])  BY DEF Holds
<1>6. \A i \in 1..(k - 1) : Becomes(Units[i])' = Becomes(Units[i]) /\ Passed(Units[i])'
  <2>1. \A i \in 1..(k - 1) : Passed(Units[i])  BY <1>5 DEF Inside
  <2>2. TAKE i \in 1..(k - 1)
  <2>3. QED  BY <1>2, <1>3, <2>1, FoundMore
<1>7. Flat(k - 1)' = Flat(k - 1)  BY <1>6, SameFlat
<1>8. Inside(k, <<u>>, <<>>)'
  <2>1. todo' = <<u>> \o Rest(k) /\ Made' = Flat(k - 1) \o <<>>  BY <1>5 DEF Inside
  <2>2. QED  BY <1>1, <1>6, <1>7, <2>1 DEF Inside
<1>9. Opened(Units[k])'
  <2>1. \A w : Opened(w)' = Opened(w)  BY SameUnits
  <2>2. PICK w : w = Units[k]  OBVIOUS
  <2>3. Opened(w)'  BY <1>5, <2>1, <2>2
  <2>4. QED  BY <1>1, <2>2, <2>3
<1>10. Passed(Units[k])'  BY <1>1, <1>4 DEF Passed
<1>11. Has(u, "SFV")'  BY <1>1, <1>4 DEF Has, StreamOf
<1>12. \A id \in x.ids :
         id[1] \in {"SFV", "SFA", "ALP"} /\ id \in DOMAIN temp' /\ temp'[id] = u.source
  BY DEF Streamed
<1>13. QED  BY <1>1, <1>4, <1>8, <1>9, <1>10, <1>11, <1>12 DEF Split

LEMMA StillHolds ==
    ASSUME UNCHANGED <<job, found, todo>>, Made' = Made, NEW k, Holds(k)
    PROVE  Holds(k)'
<1>1. Units' = Units  BY SameUnits
<1>2. PICK f : f = <<Inner(Units[k])>>  OBVIOUS
<1>3. Inside(k, f, <<>>)  BY <1>2 DEF Holds
<1>4. todo' = f \o Rest(k) /\ Made' = Flat(k - 1) \o <<>>  BY <1>3 DEF Inside
<1>5. Inside(k, f, <<>>)'  BY <1>3, <1>4, StepIn
<1>6. <<Inner(Units[k])>>' = f  BY <1>1, <1>2 DEF Inner
<1>7. Opened(Units[k])'
  <2>1. \A w : Opened(w)' = Opened(w)  BY SameUnits
  <2>2. PICK w : w = Units[k]  OBVIOUS
  <2>3. Opened(w)'  BY <2>1, <2>2 DEF Holds
  <2>4. QED  BY <1>1, <2>2, <2>3
<1>8. QED  BY <1>5, <1>6, <1>7 DEF Holds

LEMMA OpenUsmKeeps == WorkerInv /\ OpenUsm => WorkerInv'
<1> SUFFICES ASSUME WorkerInv, OpenUsm PROVE WorkerInv'  OBVIOUS
<1>1. job \in Jobs /\ FilesInv /\ ControlInv /\ VideoFound  BY DEF WorkerInv
<1>2. /\ stage = "next" /\ todo # <<>> /\ Route(Unit) = "usm"
      /\ UNCHANGED <<job, outVars, empties, verdict, wanted>>
  BY DEF OpenUsm, At
<1>3. JobAccepted /\ NextInv  BY <1>1, <1>2 DEF ControlInv
<1>4. FilesInv' /\ Made' = Made  BY <1>1, <1>2, NoFiles
<1>5. PICK k \in 1..Len(Units) :
             /\ UnitShape(Units[k]) /\ Holds(k)
             /\ Unit = Inner(Units[k]) /\ Tail(todo) = Rest(k) /\ Route(Unit) = Unit.do
  BY <1>1, <1>2, <1>3, AtContainer
<1>6. Unit.do = "usm" /\ UsmShape(Unit)  BY <1>2, <1>5, InnerShape
<1>7. Units' = Units /\ Len(Units)' = Len(Units)  BY <1>2, SameUnits
<1>8. CASE Unit.streams = None
  <2>1. Restart("read") /\ stage' = "demux" /\ todo' = todo /\ UNCHANGED <<temp, found>>
    BY <1>8 DEF OpenUsm, Write
  <2>2. VideoFound'  BY <2>1 DEF Restart, VideoFound
  <2>3. Holds(k)'  BY <1>2, <1>4, <1>5, <2>1, StillHolds
  <2>4. (Inner(Units[k]).do = "usm" /\ Inner(Units[k]).streams = None)'
    BY <1>5, <1>6, <1>7, <1>8 DEF Inner
  <2>5. (\E m \in 1..Len(Units) : /\ Holds(m) /\ Inner(Units[m]).do = "usm"
                                  /\ Inner(Units[m]).streams = None)'
    BY <1>7, <2>3, <2>4
  <2>6. ControlInv'  BY <1>1, <1>2, <2>1, <2>5, GoesOn
  <2>7. QED  BY <1>1, <1>2, <1>4, <2>2, <2>6 DEF WorkerInv
<1>9. CASE Unit.streams # None
  <2>1. /\ found' = With(found, Unit.source, Unit.streams)
        /\ temp' = Streamed(Unit.streams.ids) /\ stage' = "verify" /\ todo' = todo
        /\ UNCHANGED demuxVars
    BY <1>9 DEF OpenUsm, Write
  <2>2. VideoFound'  BY <1>1, <2>1, NoVideo
  <2>3. PICK x : x = Unit.streams  OBVIOUS
  <2>4. x.ids \subseteq {"SFV", "SFA", "ALP"} \X Nat /\ \E id \in x.ids : id[1] = "SFV"
    BY <1>6, <1>9, <2>3 DEF UsmShape
  <2>5. found' = With(found, Unit.source, x) /\ temp' = Streamed(x.ids)  BY <2>1, <2>3
  <2>6. Split(k, <<>>)'  BY <1>1, <1>2, <1>3, <1>4, <1>5, <1>6, <2>1, <2>3, <2>4, <2>5, ToSplit
  <2>7. (\E m \in 1..Len(Units) : Split(m, <<>>))'  BY <1>7, <2>6
  <2>8. ControlInv'  BY <1>1, <1>2, <2>1, <2>7, GoesOn
  <2>9. QED  BY <1>1, <1>2, <1>4, <2>2, <2>8 DEF WorkerInv
<1>10. QED  BY <1>8, <1>9

LEMMA DemuxFindsVideo == VideoFound /\ Demux => VideoFound'
<1> SUFFICES ASSUME VideoFound, Demux, phase' = "accepted"
             PROVE  \E id \in opened' : id[1] = "SFV"
  BY DEF VideoFound
<1>1. CASE \E d \in Directories, good \in BOOLEAN : Directory(d, good)
  BY <1>1 DEF Directory, Reject
<1>2. CASE \E id \in Streams, part \in Parts : Chunk(id, part)
  BY <1>2 DEF Chunk, Reject
<1>3. CASE EndOfFile
  <2>1. Tracks("SFV") = 1 /\ opened' = opened  BY <1>3 DEF EndOfFile, streamVars
  <2>2. {id \in opened : id[1] = "SFV"} # {}  BY <2>1, FS_EmptySet DEF Tracks
  <2>3. QED  BY <2>1, <2>2
<1>4. QED  BY <1>1, <1>2, <1>3 DEF Demux

LEMMA DemuxStepKeeps == WorkerInv /\ DemuxStep => WorkerInv'
<1> SUFFICES ASSUME WorkerInv, DemuxStep PROVE WorkerInv'  OBVIOUS
<1>1. job \in Jobs /\ FilesInv /\ ControlInv /\ VideoFound  BY DEF WorkerInv
<1>2. /\ stage = "demux" /\ stage' = "demux" /\ Demux
      /\ UNCHANGED <<job, outVars, todo, temp, found, empties, verdict, wanted>>
  BY DEF DemuxStep, workVars, endVars
<1>3. FilesInv' /\ Made' = Made  BY <1>1, <1>2, NoFiles
<1>4. VideoFound'  BY <1>1, <1>2, DemuxFindsVideo
<1>5. PICK k \in 1..Len(Units) : /\ Holds(k) /\ Inner(Units[k]).do = "usm"
                                 /\ Inner(Units[k]).streams = None
  BY <1>1, <1>2 DEF ControlInv
<1>6. Units' = Units /\ Len(Units)' = Len(Units)  BY <1>2, SameUnits
<1>7. Holds(k)'  BY <1>2, <1>3, <1>5, StillHolds
<1>8. (Inner(Units[k]).do = "usm" /\ Inner(Units[k]).streams = None)'
  BY <1>5, <1>6 DEF Inner
<1>9. (\E m \in 1..Len(Units) : /\ Holds(m) /\ Inner(Units[m]).do = "usm"
                                /\ Inner(Units[m]).streams = None)'
  BY <1>6, <1>7, <1>8
<1>10. ControlInv'  BY <1>1, <1>2, <1>9, GoesOn
<1>11. QED  BY <1>1, <1>2, <1>3, <1>4, <1>10 DEF WorkerInv

LEMMA ExtractedKeeps == WorkerInv /\ DemuxIInv /\ Extracted => WorkerInv'
<1> SUFFICES ASSUME WorkerInv, DemuxIInv, Extracted PROVE WorkerInv'  OBVIOUS
<1>1. job \in Jobs /\ FilesInv /\ ControlInv /\ VideoFound  BY DEF WorkerInv
<1>2. /\ stage = "demux" /\ phase \in {"accepted", "rejected"}
      /\ UNCHANGED <<job, outVars, empties, verdict, wanted>>
  BY DEF Extracted
<1>3. JobAccepted  BY <1>1, <1>2 DEF ControlInv
<1>4. FilesInv' /\ Made' = Made  BY <1>1, <1>2, NoFiles
<1>5. PICK k \in 1..Len(Units) : /\ Holds(k) /\ Inner(Units[k]).do = "usm"
                                 /\ Inner(Units[k]).streams = None
  BY <1>1, <1>2 DEF ControlInv
<1>6. Unit = Inner(Units[k])
  <2>1. PICK x : x = Inner(Units[k])  OBVIOUS
  <2>2. Inside(k, <<x>>, <<>>)  BY <1>5, <2>1 DEF Holds
  <2>3. QED  BY <1>1, <1>3, <2>1, <2>2, OnlyOf
<1>7. Units' = Units /\ Len(Units)' = Len(Units)  BY <1>2, SameUnits
<1>8. CASE phase = "accepted"
  <2>1. PICK x : x = [ids |-> opened,
                      codec |-> Audible({codec[id] : id \in {i \in opened : Audio(i)}})]
    OBVIOUS
  <2>2. /\ found' = With(found, Unit.source, x) /\ temp' = Streamed(opened)
        /\ stage' = "verify" /\ todo' = todo /\ Restart("idle")
    BY <1>8, <2>1 DEF Extracted, Write
  <2>3. x.ids = opened  BY <2>1
  <2>4. opened \subseteq Streams  BY DEF DemuxIInv, DemuxTypeOK
  <2>5. x.ids \subseteq {"SFV", "SFA", "ALP"} \X Nat  BY <2>3, <2>4, DemuxAssumption
  <2>6. \E id \in x.ids : id[1] = "SFV"  BY <1>1, <1>8, <2>3 DEF VideoFound
  <2>7. Split(k, <<>>)'
    BY <1>1, <1>2, <1>3, <1>4, <1>5, <1>6, <2>2, <2>3, <2>5, <2>6, ToSplit
  <2>8. (\E m \in 1..Len(Units) : Split(m, <<>>))'  BY <1>7, <2>7
  <2>9. ControlInv'  BY <1>1, <1>2, <2>2, <2>8, GoesOn
  <2>10. VideoFound'  BY <2>2 DEF Restart, VideoFound
  <2>11. QED  BY <1>1, <1>2, <1>4, <2>9, <2>10 DEF WorkerInv
<1>9. CASE phase # "accepted"
  <2>1. Fail /\ Restart("rejected")  BY <1>9 DEF Extracted
  <2>2. Reason' /\ VideoFound'  BY <2>1 DEF Restart, Reason, VideoFound
  <2>3. ControlInv'  BY <1>1, <1>2, <2>1, <2>2, Fails
  <2>4. QED  BY <1>1, <1>2, <1>4, <2>2, <2>3 DEF WorkerInv
<1>10. QED  BY <1>8, <1>9

-----------------------------------------------------------------------------
(* Conversions.                                                            *)

LEMMA StillSplit ==
    ASSUME UNCHANGED <<job, found, todo>>, NEW k, NEW d, NEW e, Split(k, d),
           Made' = Flat(k - 1) \o e,
           \A id \in DOMAIN temp : id[1] \in {"SFV", "SFA", "ALP"} =>
              id \in DOMAIN temp' /\ temp'[id] = temp[id]
    PROVE  Split(k, e)'
<1>1. Units' = Units  BY SameUnits
<1>2. PICK u : u = Inner(Units[k])  OBVIOUS
<1>3. PICK f : f = <<u>>  OBVIOUS
<1>4. Inside(k, f, d)  BY <1>2, <1>3 DEF Split
<1>5. todo' = f \o Rest(k)  BY <1>4 DEF Inside
<1>6. Inside(k, f, e)'  BY <1>4, <1>5, StepIn
<1>7. Inner(Units[k])' = u  BY <1>1, <1>2 DEF Inner
<1>8. Opened(Units[k])'
  <2>1. \A w : Opened(w)' = Opened(w)  BY SameUnits
  <2>2. PICK w : w = Units[k]  OBVIOUS
  <2>3. Opened(w)'  BY <2>1, <2>2 DEF Split
  <2>4. QED  BY <1>1, <2>2, <2>3
<1>9. Passed(Units[k])'  BY SamePlace DEF Split
<1>10. Has(u, "SFV")'
  <2>1. Has(u, "SFV")  BY <1>2 DEF Split
  <2>2. QED  BY <2>1 DEF Has, StreamOf
<1>11. u.do = "usm"  BY <1>2 DEF Split
<1>12. \A id \in found'[u.source].ids :
         id[1] \in {"SFV", "SFA", "ALP"} /\ id \in DOMAIN temp' /\ temp'[id] = u.source
  BY <1>2 DEF Split
<1>13. <<Inner(Units[k])>>' = f  BY <1>3, <1>7
<1>14. QED  BY <1>6, <1>7, <1>8, <1>9, <1>10, <1>11, <1>12, <1>13 DEF Split, Has, StreamOf

LEMMA StillLeaves ==
    ASSUME UNCHANGED <<job, found, todo>>, Made' = Made, NEW k, NEW j, Leaves(k, j)
    PROVE  Leaves(k, j)' /\ Left(k)' = Left(k)
           /\ Becomes(Units[k])' = Becomes(Units[k])
<1>1. Units' = Units /\ Becomes(Units[k])' = Becomes(Units[k])  BY SamePlace
<1>2. LeavesOf(Units[k])' = LeavesOf(Units[k]) /\ Left(k)' = Left(k)
  BY <1>1 DEF LeavesOf, Left
<1>3. PICK f, d : /\ f = SubSeq(LeavesOf(Units[k]), j + 1, Len(LeavesOf(Units[k])))
                  /\ d = SubSeq(Becomes(Units[k]), 1, j)
  OBVIOUS
<1>4. Inside(k, f, d)  BY <1>3 DEF Leaves
<1>5. todo' = f \o Rest(k) /\ Made' = Flat(k - 1) \o d  BY <1>4 DEF Inside
<1>6. Inside(k, f, d)'  BY <1>4, <1>5, StepIn
<1>7. /\ f = SubSeq(LeavesOf(Units[k]), j + 1, Len(LeavesOf(Units[k])))'
      /\ d = SubSeq(Becomes(Units[k]), 1, j)'
  BY <1>1, <1>2, <1>3
<1>8. Leafy(Units[k])'
  <2>1. \A w : Leafy(w)' = Leafy(w)  BY SameUnits
  <2>2. PICK w : w = Units[k]  OBVIOUS
  <2>3. Leafy(w)'  BY <2>1, <2>2 DEF Leaves
  <2>4. QED  BY <1>1, <2>2, <2>3
<1>9. Leaves(k, j)'  BY <1>6, <1>7, <1>8 DEF Leaves
<1>10. QED  BY <1>1, <1>2, <1>9

LEMMA SplitOf ==
    ASSUME job \in Jobs, JobAccepted, NEW k, NEW d, Split(k, d)
    PROVE  /\ k \in 1..Len(Units) /\ UnitShape(Units[k]) /\ IsUsm(Units[k])
           /\ Unit = Inner(Units[k]) /\ todo # <<>> /\ Tail(todo) = Rest(k)
           /\ Unit.source \in DOMAIN found
           /\ Made = Flat(k - 1) \o d
<1>1. PICK x : x = Inner(Units[k])  OBVIOUS
<1>2. Inside(k, <<x>>, d)  BY <1>1 DEF Split
<1>3. Unit = x /\ todo # <<>> /\ Tail(todo) = Rest(k)  BY <1>2, OnlyOf
<1>4. k \in 1..Len(Units) /\ Made = Flat(k - 1) \o d  BY <1>2 DEF Inside
<1>5. UnitShape(Units[k])  BY <1>4, PlaceSeqs
<1>6. x.do = "usm" /\ x.source \in DOMAIN found  BY <1>1 DEF Split, Passed
<1>7. QED  BY <1>1, <1>3, <1>4, <1>5, <1>6 DEF IsUsm

\* The file of a stream that was found.
LEMMA FileOf ==
    ASSUME job \in Jobs, JobAccepted, NEW k, NEW d, Split(k, d), NEW signature,
           Has(Unit, signature)
    PROVE  /\ File(Unit, signature) \in DOMAIN temp
           /\ File(Unit, signature)[1] \in {"SFV", "SFA", "ALP"}
           /\ temp[File(Unit, signature)] = Unit.source
<1>1. Unit = Inner(Units[k])  BY SplitOf
<1>2. File(Unit, signature) \in StreamOf(Unit, signature)  BY DEF File, Has
<1>3. File(Unit, signature) \in found[Unit.source].ids  BY <1>2 DEF StreamOf
<1>4. QED  BY <1>1, <1>3 DEF Split

LEMMA MakingStarts ==
    ASSUME ControlInv, stage \notin {"begin", "result", "ended"}, UNCHANGED <<job, verdict>>,
           stage' = "encode", NEW k \in 1..Len(Units), Making(k)'
    PROVE  ControlInv'
<1>1. Len(Units)' = Len(Units)  BY SameUnits
<1>2. (\E m \in 1..Len(Units) : Making(m))'  BY <1>1
<1>3. QED  BY <1>2, GoesOn

LEMMA PrepareVideoKeeps == WorkerInv /\ PrepareVideo => WorkerInv'
<1> SUFFICES ASSUME WorkerInv, PrepareVideo PROVE WorkerInv'  OBVIOUS
<1>1. job \in Jobs /\ FilesInv /\ ControlInv /\ VideoFound  BY DEF WorkerInv
<1>2. /\ stage = "verify"
      /\ UNCHANGED <<demuxVars, job, outVars, found, empties, verdict, wanted>>
  BY DEF PrepareVideo, At
<1>3. JobAccepted  BY <1>1, <1>2 DEF ControlInv
<1>4. FilesInv' /\ Made' = Made  BY <1>1, <1>2, NoFiles
<1>5. VideoFound'  BY <1>1, <1>2, NoVideo
<1>6. PICK k \in 1..Len(Units) : Split(k, <<>>)  BY <1>1, <1>2 DEF ControlInv
<1>7. /\ UnitShape(Units[k]) /\ IsUsm(Units[k]) /\ Unit = Inner(Units[k])
      /\ Unit.source \in DOMAIN found /\ Made = Flat(k - 1) \o <<>>
  BY <1>1, <1>3, <1>6, SplitOf
<1>8. Units' = Units  BY <1>2, SameUnits
<1>9. CASE VideoAccepted(Unit) /\ AudioAccepted(Unit)
  <2> DEFINE wav == IF found[Unit.source].codec = 4 THEN <<"audio.wav", 0>>
                                                    ELSE <<"normalized.wav", 0>>
             tracks == {Track("video", File(Unit, "SFV"))} \cup
                         IF Has(Unit, "SFA") THEN {Track("audio", wav)} ELSE {}
  <2>1. /\ temp' = IF Has(Unit, "SFA") THEN With(temp, wav, temp[File(Unit, "SFA")]) ELSE temp
        /\ Conversion(IF Has(Unit, "ALP") THEN "color" ELSE "video", tracks,
                      "key", "video-color")
        /\ stage' = "encode" /\ todo' = todo
    BY <1>9 DEF PrepareVideo, HasAudio, Write
  <2>2. wav[1] \notin {"SFV", "SFA", "ALP"}  OBVIOUS
  <2> HIDE DEF wav
  <2>3. Has(Unit, "SFV")  BY <1>6, <1>7 DEF Split
  <2>4. \A id \in DOMAIN temp : id[1] \in {"SFV", "SFA", "ALP"} =>
              id \in DOMAIN temp' /\ temp'[id] = temp[id]
    BY <2>1, <2>2 DEF With
  <2>5. Split(k, <<>>)'  BY <1>2, <1>4, <1>6, <1>7, <2>1, <2>4, StillSplit
  <2>6. temp'[File(Unit, "SFV")] = Unit.source
    <3>1. PICK f : f = File(Unit, "SFV")  OBVIOUS
    <3>2. f \in DOMAIN temp /\ f[1] \in {"SFV", "SFA", "ALP"} /\ temp[f] = Unit.source
      BY <1>1, <1>3, <1>6, <2>3, <3>1, FileOf
    <3>3. QED  BY <2>4, <3>1, <3>2
  <2>7. Has(Unit, "SFA") => temp'[wav] = Unit.source
    <3>1. SUFFICES ASSUME Has(Unit, "SFA") PROVE temp'[wav] = Unit.source  OBVIOUS
    <3>2. temp[File(Unit, "SFA")] = Unit.source  BY <1>1, <1>3, <1>6, <3>1, FileOf
    <3>3. temp' = With(temp, wav, Unit.source)  BY <2>1, <3>1, <3>2
    <3>4. QED  BY <3>3 DEF With
  <2>8. Content' = Color(Unit)
    <3>1. Content' = {<<t.kind, temp'[t.file]>> : t \in tracks}
      BY <2>1 DEF Content, Conversion
    <3>2. CASE Has(Unit, "SFA")
      <4>1. tracks = {Track("video", File(Unit, "SFV")), Track("audio", wav)}  BY <3>2
      <4>2. {<<t.kind, temp'[t.file]>> : t \in tracks}
              = {<<"video", Unit.source>>, <<"audio", Unit.source>>}
        BY <2>6, <2>7, <3>2, <4>1 DEF Track
      <4>3. QED  BY <3>1, <3>2, <4>2 DEF Color
    <3>3. CASE ~Has(Unit, "SFA")
      <4>1. tracks = {Track("video", File(Unit, "SFV"))}  BY <3>3
      <4>2. {<<t.kind, temp'[t.file]>> : t \in tracks} = {<<"video", Unit.source>>}
        <5>1. PICK v : v = Track("video", File(Unit, "SFV"))  OBVIOUS
        <5>2. v.kind = "video" /\ temp'[v.file] = Unit.source  BY <2>6, <5>1 DEF Track
        <5>3. tracks = {v}  BY <4>1, <5>1
        <5>4. QED  BY <5>2, <5>3
      <4>3. QED  BY <3>1, <3>3, <4>2 DEF Color
    <3>4. QED  BY <3>2, <3>3
  <2>9. Becomes(Units[k])' = Becomes(Units[k])  BY <1>2, SamePlace
  <2>10. Inner(Units[k])' = Unit  BY <1>7, <1>8 DEF Inner
  <2>11. current'.role = IF Has(Unit, "ALP") THEN "color" ELSE "video"
    BY <2>1 DEF Conversion
  <2>12. Making(k)'
    <3>1. PICK v : v = Unit  OBVIOUS
    <3>2. Has(v, "ALP")' <=> Has(v, "ALP")  BY <1>2 DEF Has, StreamOf
    <3>3. Has(Inner(Units[k]), "ALP")' <=> Has(v, "ALP")
      BY <2>10, <3>1, <3>2 DEF Has, StreamOf
    <3>4. CASE Has(Unit, "ALP")
      <4>1. Becomes(Units[k]) = <<Color(Unit), {<<"alpha", Unit.source>>}>>
        BY <1>7, <3>4, UsmBecomes
      <4>2. <<Content', {<<"alpha", Inner(Units[k])'.source>>}>> = Becomes(Units[k])'
        BY <2>8, <2>9, <2>10, <4>1
      <4>3. QED  BY <2>5, <2>11, <3>1, <3>3, <3>4, <4>2 DEF Making
    <3>5. CASE ~Has(Unit, "ALP")
      <4>1. Becomes(Units[k]) = <<Color(Unit)>>  BY <1>7, <3>5, UsmBecomes
      <4>2. <<Content'>> = Becomes(Units[k])'  BY <2>8, <2>9, <4>1
      <4>3. QED  BY <2>5, <2>11, <3>5, <4>2 DEF Making
    <3>6. QED  BY <3>4, <3>5
  <2>13. ControlInv'  BY <1>1, <1>2, <2>1, <2>12, MakingStarts
  <2>14. QED  BY <1>1, <1>2, <1>4, <1>5, <2>13 DEF WorkerInv
<1>10. CASE ~(VideoAccepted(Unit) /\ AudioAccepted(Unit))
  <2>1. Fail  BY <1>10 DEF PrepareVideo
  <2>2. ~SoundUnit(Units[k])
    <3>1. Opened(Units[k]) /\ Unit.do = "usm"  BY <1>6, <1>7 DEF Split, IsUsm
    <3>2. QED  BY <1>7, <1>10, <3>1, OpenedSound, SoundUsm
  <2>3. Reason'  BY <1>1, <1>2, <1>3, <2>2, UnsoundStays
  <2>4. ControlInv'  BY <1>1, <1>2, <2>1, <2>3, Fails
  <2>5. QED  BY <1>1, <1>2, <1>4, <1>5, <2>4 DEF WorkerInv
<1>11. QED  BY <1>9, <1>10

LEMMA DecodeWaveKeeps == WorkerInv /\ DecodeWave => WorkerInv'
<1> SUFFICES ASSUME WorkerInv, DecodeWave PROVE WorkerInv'  OBVIOUS
<1>1. job \in Jobs /\ FilesInv /\ ControlInv /\ VideoFound  BY DEF WorkerInv
<1>2. /\ stage = "next" /\ todo # <<>> /\ Route(Unit) = "wave"
      /\ UNCHANGED <<demuxVars, job, outVars, found, empties, verdict, wanted>>
  BY DEF DecodeWave, At
<1>3. JobAccepted /\ NextInv  BY <1>1, <1>2 DEF ControlInv
<1>4. FilesInv' /\ Made' = Made  BY <1>1, <1>2, NoFiles
<1>5. VideoFound'  BY <1>1, <1>2, NoVideo
<1>6. PICK k \in 1..Len(Units) : \E j \in Left(k) :
        /\ UnitShape(Units[k]) /\ Leaves(k, j)
        /\ Unit = LeavesOf(Units[k])[j + 1] /\ Unit.do = "wave"
        /\ Inner(Units[k]).do = "acb" /\ Becomes(Units[k])[j + 1] = {<<"audio", Unit.source>>}
  BY <1>1, <1>2, <1>3, AtWave
<1>7. PICK j \in Left(k) :
        /\ UnitShape(Units[k]) /\ Leaves(k, j)
        /\ Unit = LeavesOf(Units[k])[j + 1] /\ Unit.do = "wave"
        /\ Inner(Units[k]).do = "acb" /\ Becomes(Units[k])[j + 1] = {<<"audio", Unit.source>>}
  BY <1>6
<1>8. CASE Unit.good
  <2>1. PICK l, s : /\ temp' = With(temp, WaveFile(Unit), Unit.source)
                    /\ Conversion("wave", {Track("audio", WaveFile(Unit))}, l, s)
                    /\ stage' = "encode" /\ todo' = todo
    BY <1>8 DEF DecodeWave, Write
  <2>2. Leaves(k, j)' /\ Left(k)' = Left(k) /\ Becomes(Units[k])' = Becomes(Units[k])
    BY <1>2, <1>4, <1>7, <2>1, StillLeaves
  <2>3. temp'[WaveFile(Unit)] = Unit.source  BY <2>1 DEF With
  <2>4. Content' = {<<"audio", Unit.source>>}
    BY <2>1, <2>3 DEF Content, Conversion, Track
  <2>5. Content' = Becomes(Units[k])'[j + 1]  BY <1>7, <2>2, <2>4
  <2>6. current'.role = "wave"  BY <2>1 DEF Conversion
  <2>7. Inner(Units[k])'.do = "acb"
    <3>1. Units' = Units  BY <1>2, SameUnits
    <3>2. QED  BY <1>7, <3>1 DEF Inner
  <2>8. Making(k)'  BY <2>2, <2>5, <2>6, <2>7 DEF Making
  <2>9. ControlInv'  BY <1>1, <1>2, <2>1, <2>8, MakingStarts
  <2>10. QED  BY <1>1, <1>2, <1>4, <1>5, <2>9 DEF WorkerInv
<1>9. CASE ~Unit.good
  <2>1. Fail  BY <1>9 DEF DecodeWave
  <2>2. Reason'  BY <1>1, <1>2, <1>3, <1>7, <1>9, UnsoundLeaf
  <2>3. ControlInv'  BY <1>1, <1>2, <2>1, <2>2, Fails
  <2>4. QED  BY <1>1, <1>2, <1>4, <1>5, <2>3 DEF WorkerInv
<1>10. QED  BY <1>8, <1>9

-----------------------------------------------------------------------------
(* What is encoded.                                                        *)

LEMMA StillMaking ==
    ASSUME UNCHANGED <<job, found, todo, current, temp>>, Made' = Made, NEW k, Making(k)
    PROVE  Making(k)' /\ Content' = Content
<1>1. Content' = Content  BY DEF Content
<1>2. Units' = Units /\ Becomes(Units[k])' = Becomes(Units[k])  BY SamePlace
<1>3. Inner(Units[k])' = Inner(Units[k])  BY <1>2 DEF Inner
<1>4. \A d : Split(k, d) => Split(k, d)'
  <2>1. SUFFICES ASSUME NEW d, Split(k, d) PROVE Split(k, d)'  OBVIOUS
  <2>2. PICK f : f = <<Inner(Units[k])>>  OBVIOUS
  <2>3. Inside(k, f, d)  BY <2>1, <2>2 DEF Split
  <2>4. Made' = Flat(k - 1) \o d  BY <2>3 DEF Inside
  <2>5. QED  BY <2>1, <2>4, StillSplit
<1>5. CASE /\ current.role = "wave" /\ Inner(Units[k]).do = "acb"
           /\ \E j \in Left(k) : Leaves(k, j) /\ Content = Becomes(Units[k])[j + 1]
  <2>1. PICK j \in Left(k) : Leaves(k, j) /\ Content = Becomes(Units[k])[j + 1]  BY <1>5
  <2>2. Leaves(k, j)' /\ Left(k)' = Left(k)  BY <2>1, StillLeaves
  <2>3. QED  BY <1>1, <1>2, <1>3, <1>5, <2>1, <2>2 DEF Making
<1>6. CASE current.role = "video" /\ Split(k, <<>>) /\ <<Content>> = Becomes(Units[k])
  BY <1>1, <1>2, <1>4, <1>6 DEF Making
<1>7. CASE /\ current.role = "color" /\ Split(k, <<>>)
           /\ Has(Inner(Units[k]), "ALP")
           /\ <<Content, {<<"alpha", Inner(Units[k]).source>>}>> = Becomes(Units[k])
  <2>1. Has(Inner(Units[k]), "ALP")'
    <3>1. PICK v : v = Inner(Units[k])  OBVIOUS
    <3>2. Has(v, "ALP")'  BY <1>7, <3>1 DEF Has, StreamOf
    <3>3. QED  BY <1>3, <3>1, <3>2 DEF Has, StreamOf
  <2>2. QED  BY <1>1, <1>2, <1>3, <1>4, <1>7, <2>1 DEF Making
<1>8. CASE /\ current.role = "alpha"
           /\ \E x \in ToSet(Becomes(Units[k])) :
                Split(k, <<x>>) /\ <<x, Content>> = Becomes(Units[k])
  <2>1. PICK x \in ToSet(Becomes(Units[k])) :
                Split(k, <<x>>) /\ <<x, Content>> = Becomes(Units[k])
    BY <1>8
  <2>2. PICK d : d = <<x>>  OBVIOUS
  <2>3. Split(k, d)'  BY <1>4, <2>1, <2>2
  <2>4. ToSet(Becomes(Units[k]))' = ToSet(Becomes(Units[k]))  BY <1>2 DEF ToSet
  <2>5. QED  BY <1>1, <1>2, <1>8, <2>1, <2>2, <2>3, <2>4 DEF Making
<1>9. QED  BY <1>1, <1>5, <1>6, <1>7, <1>8 DEF Making

LEMMA StillMade ==
    ASSUME UNCHANGED <<job, found, todo, current, temp>>, Made' = Made,
           \E k \in 1..Len(Units) : Making(k)
    PROVE  (\E k \in 1..Len(Units) : Making(k))' /\ Content' = Content
<1>1. PICK k \in 1..Len(Units) : Making(k)  OBVIOUS
<1>2. Making(k)' /\ Content' = Content  BY <1>1, StillMaking
<1>3. Len(Units)' = Len(Units)  BY SameUnits
<1>4. QED  BY <1>2, <1>3

LEMMA CapIs ==
    FilesInv => Cap \in Nat /\ Cap <= OutputBytes /\ (current.role # "alpha" => Cap = OutputBytes)
                /\ written + Cap >= OutputBytes
<1> SUFFICES ASSUME FilesInv
             PROVE  Cap \in Nat /\ Cap <= OutputBytes
                    /\ (current.role # "alpha" => Cap = OutputBytes)
                    /\ written + Cap >= OutputBytes
  OBVIOUS
<1>1. OutputBytes \in Nat /\ written \in Nat /\ written <= OutputBytes
  BY WorkerAssumption DEF FilesInv
<1>2. CASE current.role = "alpha"  BY <1>1, <1>2 DEF Cap
<1>3. CASE current.role # "alpha"  BY <1>1, <1>3 DEF Cap
<1>4. QED  BY <1>2, <1>3

LEMMA EncodeKeeps == WorkerInv /\ Encode => WorkerInv'
<1> SUFFICES ASSUME WorkerInv, Encode PROVE WorkerInv'  OBVIOUS
<1>1. job \in Jobs /\ FilesInv /\ ControlInv /\ VideoFound  BY DEF WorkerInv
<1>2. /\ stage = "encode" /\ stage' = "check" /\ todo' = todo
      /\ UNCHANGED <<demuxVars, job, files, written, current, temp, found, empties, verdict>>
  BY DEF Encode, Write
<1>3. VideoFound'  BY <1>1, <1>2, NoVideo
<1>4. PICK n \in Sizes :
        /\ wanted' = wanted + n
        /\ \E size \in IF n <= Cap THEN {n} ELSE {Cap, Cap + 1},
              lost \in IF n <= Cap THEN {"nothing"} ELSE Losses :
             output' = With(output, Target, [of |-> Content, size |-> size, lost |-> lost])
  BY DEF Encode, Content
<1>5. PICK size, lost :
        /\ size \in IF n <= Cap THEN {n} ELSE {Cap, Cap + 1}
        /\ lost \in IF n <= Cap THEN {"nothing"} ELSE Losses
        /\ output' = With(output, Target, [of |-> Content, size |-> size, lost |-> lost])
  BY <1>4
<1>6. PICK e, v : /\ e = ExtOf[current.role]
                  /\ v = [of |-> Content, size |-> size, lost |-> lost]
  OBVIOUS
<1>7. Target = Path(e) /\ output' = With(output, Path(e), v)  BY <1>5, <1>6 DEF Target
<1>8. n \in Nat  BY WorkerAssumption
<1>9. FilesInv' /\ Made' = Made  BY <1>1, <1>2, <1>4, <1>7, <1>8, Produced
<1>10. Path(e) \in DOMAIN output' /\ output'[Path(e)] = v  BY <1>1, <1>7, Written
<1>11. Target' = Path(e)  BY <1>2, <1>6 DEF Target, Path
<1>12. (\E k \in 1..Len(Units) : Making(k))' /\ Content' = Content
  BY <1>1, <1>2, <1>9, StillMade DEF ControlInv
<1>13. v.of = Content /\ v.size = size /\ v.lost = lost  BY <1>6
<1>14. /\ size \in Nat /\ written + size <= wanted'
       /\ lost \in {"nothing", "audio tail", "more"}
       /\ lost # "nothing" => wanted' > OutputBytes
  <2>1. /\ Cap \in Nat /\ written + Cap >= OutputBytes
    BY <1>1, CapIs
  <2>2. written \in Nat /\ wanted \in Nat /\ written <= wanted  BY <1>1 DEF FilesInv
  <2>3. OutputBytes \in Nat  BY WorkerAssumption
  <2>4. CASE n <= Cap
    <3>1. size = n /\ lost = "nothing"  BY <1>5, <2>4
    <3>2. QED  BY <1>4, <1>8, <2>2, <3>1
  <2>5. CASE ~(n <= Cap)
    <3>1. (size = Cap \/ size = Cap + 1) /\ lost \in {"audio tail", "more"}
      BY <1>5, <2>5 DEF Losses
    <3>2. size \in Nat /\ size <= n
      <4>1. PICK c : c = Cap  OBVIOUS
      <4>2. c \in Nat /\ ~(n <= c) /\ (size = c \/ size = c + 1)
        BY <2>1, <2>5, <3>1, <4>1
      <4>3. QED  BY <1>8, <4>2
    <3>3. written + size <= wanted'  BY <1>4, <1>8, <2>2, <3>2
    <3>4. wanted' > OutputBytes  BY <1>4, <1>8, <2>1, <2>2, <2>3, <2>5
    <3>5. QED  BY <3>1, <3>2, <3>3, <3>4
  <2>6. QED  BY <2>4, <2>5
<1>15. Encoded'
  <2>1. output'[Target'] = v /\ Target' \in DOMAIN output'  BY <1>10, <1>11
  <2>2. QED  BY <1>2, <1>12, <1>13, <1>14, <2>1 DEF Encoded
<1>16. ControlInv'  BY <1>1, <1>2, <1>12, <1>15, GoesOn
<1>17. QED  BY <1>1, <1>2, <1>3, <1>9, <1>16 DEF WorkerInv

LEMMA SameEncoded ==
    ASSUME Encoded, UNCHANGED <<files, output, written, current, temp, wanted>>
    PROVE  Encoded' /\ Target' = Target
<1>1. Target' = Target  BY DEF Target, Path
<1>2. Content' = Content  BY DEF Content
<1>3. QED  BY <1>1, <1>2 DEF Encoded

LEMMA CheckKeeps == WorkerInv /\ Check => WorkerInv'
<1> SUFFICES ASSUME WorkerInv, Check PROVE WorkerInv'  OBVIOUS
<1>1. job \in Jobs /\ FilesInv /\ ControlInv /\ VideoFound  BY DEF WorkerInv
<1>2. /\ stage = "check"
      /\ UNCHANGED <<demuxVars, job, outVars, current, temp, found, empties, verdict, wanted>>
      /\ UNCHANGED <<files, output, written>>
  BY DEF Check, outVars
<1>3. VideoFound'  BY <1>1, <1>2, NoVideo
<1>4. FilesInv' /\ Made' = Made  BY <1>1, <1>2, NoFiles
<1>5. Encoded /\ \E k \in 1..Len(Units) : Making(k)  BY <1>1, <1>2 DEF ControlInv
<1>6. Encoded' /\ Target' = Target  BY <1>2, <1>5, SameEncoded
<1>7. CASE SameLength(output[Target].lost)
  <2>1. stage' = "keep" /\ todo' = todo  BY <1>7 DEF Check, Write
  <2>2. (\E k \in 1..Len(Units) : Making(k))'  BY <1>2, <1>4, <1>5, <2>1, StillMade
  <2>3. (output[Target].lost # "more")'  BY <1>2, <1>6, <1>7 DEF SameLength
  <2>4. ControlInv'  BY <1>1, <1>2, <1>6, <2>1, <2>2, <2>3, GoesOn
  <2>5. QED  BY <1>1, <1>2, <1>3, <1>4, <2>4 DEF WorkerInv
<1>8. CASE ~SameLength(output[Target].lost)
  <2>1. Fail  BY <1>8 DEF Check
  <2>2. wanted > OutputBytes  BY <1>5, <1>8 DEF Encoded, SameLength
  <2>3. Reason'  BY <1>2, <2>2 DEF Reason
  <2>4. ControlInv'  BY <1>1, <1>2, <2>1, <2>3, Fails
  <2>5. QED  BY <1>1, <1>2, <1>3, <1>4, <2>4 DEF WorkerInv
<1>9. QED  BY <1>7, <1>8

LEMMA ToolFailsKeeps == WorkerInv /\ ToolFails => WorkerInv'
<1> SUFFICES ASSUME WorkerInv, ToolFails PROVE WorkerInv'  OBVIOUS
<1>1. job \in Jobs /\ FilesInv /\ ControlInv /\ VideoFound  BY DEF WorkerInv
<1>2. /\ stage # "ended" /\ Fail /\ faults' = TRUE
      /\ UNCHANGED <<demuxVars, job, outVars, empties, verdict, wanted>>
  BY DEF ToolFails
<1>3. VideoFound'  BY <1>1, <1>2, NoVideo
<1>4. FilesInv'  BY <1>1, <1>2, NoFiles
<1>5. Reason'  BY <1>2 DEF Reason
<1>6. ControlInv'  BY <1>1, <1>2, <1>5, Fails
<1>7. QED  BY <1>1, <1>2, <1>3, <1>4, <1>6 DEF WorkerInv

-----------------------------------------------------------------------------
(* An encoding is kept.                                                    *)

LEMMA UnitDone ==
    ASSUME job \in Jobs, JobAccepted, FilesInv, UNCHANGED <<job, found>>, NEW k, NEW d,
           Split(k, d), IsSeq(d), NEW c, Becomes(Units[k]) = d \o <<c>>,
           Made' = Append(Made, c), todo' = Tail(todo), files' # <<>>
    PROVE  NextInv'
<1>1. PICK f : f = <<Inner(Units[k])>>  OBVIOUS
<1>2. Inside(k, f, d) /\ Passed(Units[k])  BY <1>1 DEF Split
<1>3. Made' = Flat(k - 1) \o (d \o <<c>>)  BY <1>2, MadeMore
<1>4. k \in 1..Len(Units) /\ Len(Units) \in Nat /\ Tail(todo) = Rest(k)
  BY SplitOf, PlaceSeqs
<1>5. Between(k)'  BY <1>2, <1>3, <1>4, StepDone
<1>6. k \in 0..Len(Units) /\ Len(Units)' = Len(Units)  BY <1>4, SameUnits
<1>7. (\E m \in 0..Len(Units) : Between(m))'  BY <1>5, <1>6
<1>8. QED  BY <1>7 DEF NextInv

\* After the color of a video comes its alpha.
LEMMA AlphaNext ==
    ASSUME job \in Jobs, JobAccepted, FilesInv, UNCHANGED <<job, found, todo, temp>>, NEW k,
           current.role = "color", Split(k, <<>>), Has(Inner(Units[k]), "ALP"),
           <<Content, {<<"alpha", Inner(Units[k]).source>>}>> = Becomes(Units[k]),
           Made' = Append(Made, Content), NEW l, NEW s,
           Conversion("alpha", {Track("alpha", File(Unit, "ALP"))}, l, s)
    PROVE  Making(k)'
<1>1. PICK c, f, y : /\ c = Content /\ f = <<Inner(Units[k])>>
                     /\ y = {<<"alpha", Inner(Units[k]).source>>}
  OBVIOUS
<1>2. Inside(k, f, <<>>)  BY <1>1 DEF Split
<1>3. Made' = Flat(k - 1) \o (<<>> \o <<c>>)
  <2>1. Made' = Append(Made, c)  BY <1>1
  <2>2. QED  BY <1>2, <2>1, MadeMore, NoSeq
<1>4. <<>> \o <<c>> = <<c>>  BY One, Joined
<1>5. PICK d : d = <<c>>  OBVIOUS
<1>6. Split(k, d)'
  <2>1. Made' = Flat(k - 1) \o d  BY <1>3, <1>4, <1>5
  <2>2. QED  BY <2>1, StillSplit
<1>7. Unit = Inner(Units[k])  BY SplitOf
<1>8. temp[File(Unit, "ALP")] = Unit.source  BY <1>7, FileOf
<1>9. Content' = y
  <2>1. PICK v : v = Track("alpha", File(Unit, "ALP"))  OBVIOUS
  <2>2. current'.tracks = {v} /\ v.kind = "alpha" /\ temp'[v.file] = Unit.source
    BY <1>8, <2>1 DEF Conversion, Track
  <2>3. QED  BY <1>1, <1>7, <2>2 DEF Content
<1>10. Becomes(Units[k])' = <<c, y>>  BY <1>1, SamePlace
<1>11. c \in ToSet(Becomes(Units[k])')
  <2>1. PICK b : b = <<c, y>>  OBVIOUS
  <2>2. IsSeq(b) /\ Len(b) = 2 /\ b[1] = c  BY <2>1, Pair
  <2>3. 1 \in DOMAIN b  BY <2>2, IsSeqDef
  <2>4. c \in ToSet(b)  BY <2>2, <2>3 DEF ToSet
  <2>5. QED  BY <1>10, <2>1, <2>4
<1>12. current'.role = "alpha"  BY DEF Conversion
<1>13. QED  BY <1>5, <1>6, <1>9, <1>10, <1>11, <1>12 DEF Making, ToSet

LEMMA KeptNext ==
    ASSUME job \in Jobs, JobAccepted, FilesInv, UNCHANGED <<job, found>>, NEW k, Making(k),
           current.role # "color", Made' = Append(Made, Content), todo' = Tail(todo),
           files' # <<>>
    PROVE  NextInv'
<1>1. PICK c : c = Content  OBVIOUS
<1>2. Made' = Append(Made, c)  BY <1>1
<1>3. CASE \E j \in Left(k) : Leaves(k, j) /\ Content = Becomes(Units[k])[j + 1]
  <2>1. PICK j \in Left(k) : Leaves(k, j) /\ Content = Becomes(Units[k])[j + 1]  BY <1>3
  <2>2. Made' = Append(Made, Becomes(Units[k])[j + 1])  BY <1>2, <2>1, <1>1
  <2>3. QED  BY <2>1, <2>2, LeafDone
<1>4. CASE Split(k, <<>>) /\ <<Content>> = Becomes(Units[k])
  <2>1. <<>> \o <<c>> = <<c>> /\ IsSeq(<<>>)  BY One, NoSeq, Joined
  <2>2. Becomes(Units[k]) = <<>> \o <<c>>  BY <1>1, <1>4, <2>1
  <2>3. QED  BY <1>2, <1>4, <2>1, <2>2, UnitDone
<1>5. CASE \E x \in ToSet(Becomes(Units[k])) :
             Split(k, <<x>>) /\ <<x, Content>> = Becomes(Units[k])
  <2>1. PICK x : Split(k, <<x>>) /\ <<x, Content>> = Becomes(Units[k])  BY <1>5
  <2>2. PICK d : d = <<x>>  OBVIOUS
  <2>3. IsSeq(d) /\ d \o <<c>> = <<x, c>>  BY <2>2, One, Pair
  <2>4. Becomes(Units[k]) = d \o <<c>>  BY <1>1, <2>1, <2>3
  <2>5. Split(k, d)  BY <2>1, <2>2
  <2>6. QED  BY <1>2, <2>3, <2>4, <2>5, UnitDone
<1>6. QED  BY <1>3, <1>4, <1>5 DEF Making

LEMMA KeepKeeps == WorkerInv /\ Keep => WorkerInv'
<1> SUFFICES ASSUME WorkerInv, Keep PROVE WorkerInv'  OBVIOUS
<1>1. job \in Jobs /\ FilesInv /\ ControlInv /\ VideoFound  BY DEF WorkerInv
<1>2. /\ stage = "keep"
      /\ UNCHANGED <<demuxVars, job, output, found, empties, verdict, wanted>>
  BY DEF Keep
<1>3. VideoFound'  BY <1>1, <1>2, NoVideo
<1>4. JobAccepted /\ Encoded /\ output[Target].lost # "more"  BY <1>1, <1>2 DEF ControlInv
<1>5. PICK k \in 1..Len(Units) : Making(k)  BY <1>1, <1>2 DEF ControlInv
<1>6. PICK e, n, l, s, r : /\ e = ExtOf[current.role] /\ n = output[Target].size
                           /\ l = current.label /\ s = current.stable /\ r = current.role
  OBVIOUS
<1>7. Target = Path(e)  BY <1>6 DEF Target
<1>8. n \in Nat /\ written + n <= wanted /\ wanted \in Nat
  BY <1>1, <1>4, <1>6 DEF Encoded, FilesInv
<1>9. /\ Add(Path(e), n, l, s, r, IF r = "color" THEN todo ELSE Tail(todo),
             IF r = "color" THEN "encode" ELSE "next")
      /\ IF r = "color"
         THEN Conversion("alpha", {Track("alpha", File(Unit, "ALP"))}, "key.alpha", "video-alpha")
         ELSE current' = None
      /\ temp' = IF r = "wave" THEN [f \in DOMAIN temp \ {WaveFile(Unit)} |-> temp[f]] ELSE temp
  BY <1>6, <1>7 DEF Keep
<1>10. CASE Room(n)
  <2>1. /\ files' = Append(files, [path |-> Path(e), size |-> n, label |-> l,
                                   stable |-> s, role |-> r])
        /\ written' = written + n
        /\ stage' = (IF r = "color" THEN "encode" ELSE "next")
        /\ todo' = (IF r = "color" THEN todo ELSE Tail(todo))
    BY <1>9, <1>10 DEF Add, Write
  <2>2. Stored(e, n)
    <3>1. \A i \in DOMAIN files : files[i].path \in DOMAIN output  BY <1>1 DEF FilesInv
    <3>2. /\ Path(e) \in DOMAIN output /\ output[Path(e)].size = n
          /\ output[Path(e)].lost \in {"nothing", "audio tail"}
      BY <1>4, <1>6, <1>7 DEF Encoded
    <3>3. output' = output  BY <1>2
    <3>4. QED  BY <3>1, <3>2, <3>3 DEF Stored
  <2>3. Counted(e, n, l, s, r)
    <3>1. empties' \in Nat  BY <1>1, <1>2 DEF FilesInv
    <3>2. wanted' \in Nat /\ written' <= wanted'  BY <1>2, <1>8, <2>1
    <3>3. QED  BY <2>1, <3>1, <3>2 DEF Counted
  <2>4. FilesInv' /\ files' # <<>> /\ Made' = Append(Made, output'[Path(e)].of)
    BY <1>1, <1>8, <1>10, <2>2, <2>3, Added
  <2>5. Made' = Append(Made, Content)
    <3>1. output'[Path(e)].of = Content  BY <1>2, <1>4, <1>7 DEF Encoded
    <3>2. QED  BY <2>4, <3>1
  <2>6. CASE r = "color"
    <3>1. /\ stage' = "encode" /\ todo' = todo /\ temp' = temp
          /\ Conversion("alpha", {Track("alpha", File(Unit, "ALP"))}, "key.alpha", "video-alpha")
      BY <1>9, <2>1, <2>6
    <3>2. /\ current.role = "color" /\ Split(k, <<>>) /\ Has(Inner(Units[k]), "ALP")
          /\ <<Content, {<<"alpha", Inner(Units[k]).source>>}>> = Becomes(Units[k])
      BY <1>5, <1>6, <2>6 DEF Making
    <3>3. Making(k)'  BY <1>1, <1>2, <1>4, <2>5, <3>1, <3>2, AlphaNext
    <3>4. ControlInv'  BY <1>1, <1>2, <3>1, <3>3, MakingStarts
    <3>5. QED  BY <1>1, <1>2, <1>3, <2>4, <3>4 DEF WorkerInv
  <2>7. CASE r # "color"
    <3>1. stage' = "next" /\ todo' = Tail(todo)  BY <2>1, <2>7
    <3>2. NextInv'  BY <1>1, <1>2, <1>4, <1>5, <1>6, <2>4, <2>5, <2>7, <3>1, KeptNext
    <3>3. ControlInv'  BY <1>1, <1>2, <3>1, <3>2, GoesOn
    <3>4. QED  BY <1>1, <1>2, <1>3, <2>4, <3>3 DEF WorkerInv
  <2>8. QED  BY <2>6, <2>7
<1>11. CASE ~Room(n)
  <2>1. Fail /\ UNCHANGED <<files, written>>  BY <1>9, <1>11 DEF Add
  <2>2. FilesInv'
    <3>1. empties' \in Nat  BY <1>1, <1>2 DEF FilesInv
    <3>2. QED  BY <1>1, <1>2, <2>1, <3>1, SameFiles
  <2>3. Reason'  BY <1>1, <1>2, <1>8, <1>11, <2>1, NoRoom
  <2>4. ControlInv'  BY <1>1, <1>2, <2>1, <2>3, Fails
  <2>5. QED  BY <1>1, <1>2, <1>3, <2>2, <2>4 DEF WorkerInv
<1>12. QED  BY <1>10, <1>11

-----------------------------------------------------------------------------
(* The slices of an AWB.                                                   *)

LEMMA AlignedIs ==
    ASSUME NEW n \in Nat, NEW a \in Nat, a > 0
    PROVE  Aligned(n, a) \in Nat /\ n <= Aligned(n, a)
<1> DEFINE m == n + a - 1
           q == m \div a
           r == m % a
<1>1. m \in Nat /\ m = n + a - 1  OBVIOUS
<1>2. q \in Nat /\ r \in 0..(a - 1) /\ m = a * q + r
  <2> HIDE DEF m
  <2>1. QED  BY <1>1
<1>3. Aligned(n, a) = q * a  BY DEF Aligned
<1> HIDE DEF m, q, r
<1>4. q * a \in Nat /\ q * a = a * q  BY <1>2
<1>5. PICK p : p = q * a  OBVIOUS
<1>6. p \in Nat /\ m = p + r  BY <1>2, <1>4, <1>5
<1>7. n <= p  BY <1>1, <1>2, <1>6
<1>8. QED  BY <1>3, <1>5, <1>6, <1>7

\* Offsets that are in order one by one are in order.
LEMMA OffsetsRise ==
    ASSUME NEW n \in Nat, NEW o, \A i \in 1..n : o[i] \in Nat,
           \A i \in 1..(n - 1) : o[i] <= o[i + 1]
    PROVE  \A i, j \in 1..n : i <= j => o[i] <= o[j]
<1> DEFINE T == {j \in 1..n : \E i \in 1..j : ~(o[i] <= o[j])}
<1>1. T = {}
  <2>1. SUFFICES ASSUME T # {} PROVE FALSE  OBVIOUS
  <2>2. T \in SUBSET Nat  OBVIOUS
  <2>3. PICK j \in T : \A m \in T : ~(m < j)
    <3> HIDE DEF T
    <3>1. QED  BY <2>1, <2>2, LeastOf
  <2>4. PICK i \in 1..j : ~(o[i] <= o[j])  BY <2>3
  <2>5. j \in 1..n /\ o[i] \in Nat /\ o[j] \in Nat  BY <2>3, <2>4
  <2>6. i # j  BY <2>4, <2>5
  <2>7. PICK h : h = j - 1  OBVIOUS
  <2>8. h \in 1..(n - 1) /\ h + 1 = j /\ i \in 1..h /\ h < j /\ h \in 1..n
    BY <2>4, <2>5, <2>6, <2>7
  <2>9. h \notin T  BY <2>3, <2>8
  <2>10. o[i] <= o[h]  BY <2>8, <2>9
  <2>11. o[h] <= o[j]  BY <2>8
  <2>12. o[h] \in Nat  BY <2>8
  <2>13. QED  BY <2>4, <2>5, <2>10, <2>11, <2>12
<1>2. TAKE i, j \in 1..n
<1>3. HAVE i <= j
<1>4. i \in 1..j  BY <1>3
<1>5. QED  BY <1>1, <1>4

LEMMA AcceptedIsSliced ==
    ASSUME NEW u, AcbShape(u), AcbAccepted(u)
    PROVE  Sliced(u)
<1> DEFINE awb == u.awb
           o == awb.offsets
           n == Len(awb.ids)
           S(i) == EntryStart(awb, i)
<1>1. /\ awb.ids \in Seq(Nat) /\ o \in Seq(Nat) /\ Len(o) = n + 1
      /\ awb.alignment \in Nat /\ awb.table \in Nat /\ awb.length \in Nat
  BY DEF AcbShape
<1>2. /\ n \in Nat /\ DOMAIN awb.ids = 1..n /\ DOMAIN o = 1..(n + 1)
      /\ \A i \in 1..(n + 1) : o[i] \in Nat
  <2>1. PICK s, t : s = awb.ids /\ t = o  OBVIOUS
  <2>2. s \in Seq(Nat) /\ t \in Seq(Nat) /\ Len(t) = Len(s) + 1  BY <1>1, <2>1
  <2>3. /\ Len(s) \in Nat /\ DOMAIN s = 1..Len(s) /\ DOMAIN t = 1..(Len(s) + 1)
        /\ \A i \in 1..(Len(s) + 1) : t[i] \in Nat
    BY <2>2
  <2>4. QED  BY <2>1, <2>3
<1>3. /\ awb.alignment > 0 /\ o[1] >= awb.table /\ InOrder(awb)
      /\ \A i, j \in DOMAIN awb.ids : awb.ids[i] = awb.ids[j] => i = j
      /\ \A i \in DOMAIN o : o[i] <= awb.length
      /\ Referenced(u) \subseteq ToSet(awb.ids)
  BY DEF AcbAccepted, AwbAccepted
<1>4. \A i \in 1..(n + 1) : S(i) \in Nat /\ o[i] <= S(i)
  BY <1>1, <1>2, <1>3, AlignedIs DEF EntryStart
<1>5. \A i \in 1..n : S(i) <= o[i + 1]
  <2>1. \A i \in 2..(n + 1) : o[i] >= S(i - 1)  BY <1>1, <1>3 DEF InOrder
  <2> HIDE DEF S, o, n
  <2>2. TAKE i \in 1..n
  <2>3. PICK j : j = i + 1  OBVIOUS
  <2>4. j \in 2..(n + 1) /\ j - 1 = i /\ i \in 1..(n + 1) /\ j \in 1..(n + 1)
    BY <1>2, <2>3
  <2>5. o[j] >= S(i)  BY <2>1, <2>4
  <2>6. o[j] \in Nat /\ S(i) \in Nat  BY <1>2, <1>4, <2>4
  <2>7. QED  BY <2>3, <2>5, <2>6
<1>6. \A w \in Referenced(u) : Cardinality({i \in DOMAIN awb.ids : awb.ids[i] = w}) = 1
  <2>1. TAKE w \in Referenced(u)
  <2>2. PICK i \in DOMAIN awb.ids : awb.ids[i] = w  BY <1>3 DEF ToSet
  <2>3. {k \in DOMAIN awb.ids : awb.ids[k] = w} = {i}  BY <1>3, <2>2
  <2>4. QED  BY <2>3, FS_Singleton
<1> HIDE DEF S, o, n
<1>7. \A i, j \in 1..(n + 1) : i <= j => o[i] <= o[j]
  <2>1. PICK m : m = n + 1  OBVIOUS
  <2>2. m \in Nat /\ \A i \in 1..m : o[i] \in Nat  BY <1>2, <2>1
  <2>3. ASSUME NEW i \in 1..(m - 1) PROVE o[i] <= o[i + 1]
    <3>1. i \in 1..n /\ i \in 1..(n + 1) /\ i + 1 \in 1..(n + 1)  BY <1>2, <2>1
    <3>2. /\ o[i] \in Nat /\ S(i) \in Nat /\ o[i + 1] \in Nat
          /\ o[i] <= S(i) /\ S(i) <= o[i + 1]
      BY <1>2, <1>4, <1>5, <3>1
    <3>3. QED  BY <3>2
  <2>4. \A i, j \in 1..m : i <= j => o[i] <= o[j]  BY <2>2, <2>3, OffsetsRise
  <2>5. QED  BY <2>1, <2>4
<1> DEFINE bytes(i) == S(i)..(o[i + 1] - 1)
<1>8. ASSUME NEW i \in 1..n
      PROVE  S(i) <= o[i + 1] /\ bytes(i) \subseteq awb.table..(awb.length - 1)
  <2>1. i \in 1..(n + 1) /\ i + 1 \in 1..(n + 1) /\ 1 \in 1..(n + 1) /\ 1 <= i  BY <1>2
  <2>2. /\ o[1] \in Nat /\ o[i] \in Nat /\ o[i + 1] \in Nat /\ S(i) \in Nat
        /\ o[1] <= o[i] /\ o[i] <= S(i) /\ S(i) <= o[i + 1]
    BY <1>2, <1>4, <1>5, <1>7, <2>1
  <2>3. awb.table <= o[1] /\ o[i + 1] <= awb.length
    <3>1. o[i + 1] <= awb.length  BY <1>2, <1>3, <2>1 DEF o
    <3>2. o[1] >= awb.table  BY <1>3 DEF o
    <3>3. QED  BY <1>1, <2>2, <3>1, <3>2
  <2>4. awb.table \in Nat /\ awb.length \in Nat  BY <1>1
  <2> HIDE DEF awb
  <2>5. QED  BY <2>2, <2>3, <2>4
<1>9. ASSUME NEW i \in 1..n, NEW j \in 1..n, i < j
      PROVE  bytes(i) \cap bytes(j) = {}
  <2>1. i + 1 \in 1..(n + 1) /\ j \in 1..(n + 1) /\ j + 1 \in 1..(n + 1) /\ i + 1 <= j
        /\ i \in 1..(n + 1)
    BY <1>2, <1>9
  <2>2. /\ o[i + 1] \in Nat /\ o[j] \in Nat /\ o[j + 1] \in Nat /\ S(i) \in Nat /\ S(j) \in Nat
        /\ o[i + 1] <= o[j] /\ o[j] <= S(j)
    BY <1>2, <1>4, <1>7, <2>1
  <2>3. QED  BY <2>2
<1>10. \A i, j \in 1..n : i # j => bytes(i) \cap bytes(j) = {}
  <2>1. TAKE i, j \in 1..n
  <2>2. CASE i < j  BY <1>9, <2>2
  <2>3. CASE j < i  BY <1>9, <2>3
  <2>4. i < j \/ j < i \/ i = j  BY <1>2
  <2>5. QED  BY <2>2, <2>3, <2>4
<1>11. QED  BY <1>2, <1>6, <1>8, <1>10 DEF Sliced, S, o

-----------------------------------------------------------------------------
(* The end of a job.                                                       *)

LEMMA NothingLeft ==
    ASSUME job \in Jobs, JobAccepted, NextInv, todo = <<>>
    PROVE  Between(Len(Units))
<1>1. ~(\E k \in 1..Len(Units) : Holds(k) \/ \E j \in Left(k) : Leaves(k, j))
  <2>1. ASSUME NEW k, Holds(k) PROVE FALSE
    <3>1. PICK x : x = Inner(Units[k])  OBVIOUS
    <3>2. Inside(k, <<x>>, <<>>)  BY <2>1, <3>1 DEF Holds
    <3>3. QED  BY <3>2, OnlyOf
  <2>2. ASSUME NEW k, NEW j \in Left(k), Leaves(k, j) PROVE FALSE  BY <2>2, AtLeaf
  <2>3. QED  BY <2>1, <2>2
<1>2. PICK k \in 0..Len(Units) : Between(k)  BY <1>1 DEF NextInv
<1>3. k = Len(Units)
  <2>1. SUFFICES ASSUME k # Len(Units) PROVE FALSE  OBVIOUS
  <2>2. PICK m, x : m = k + 1 /\ x = Units[k + 1]  OBVIOUS
  <2>3. Inside(m, <<x>>, <<>>)  BY <1>2, <2>1, <2>2, TakeUp
  <2>4. QED  BY <2>3, OnlyOf
<1>4. QED  BY <1>2, <1>3

LEMMA StillBetween ==
    ASSUME job \in Jobs, JobAccepted, UNCHANGED <<job, found, todo, files>>, Made' = Made,
           empties' = empties, NEW k, Between(k)
    PROVE  Between(k)'
<1>1. k \in 0..Len(Units) /\ Len(Units) \in Nat  BY PlaceSeqs DEF Between
<1>2. QED  BY <1>1, SamePlace DEF Between

LEMMA FinishKeeps == WorkerInv /\ Finish => WorkerInv'
<1> SUFFICES ASSUME WorkerInv, Finish PROVE WorkerInv'  OBVIOUS
<1>1. job \in Jobs /\ FilesInv /\ ControlInv /\ VideoFound  BY DEF WorkerInv
<1>2. /\ stage = "next" /\ todo = <<>> /\ stage' = "result"
      /\ result' = [files |-> IF files # <<>> \/ empties > 0 THEN files ELSE <<>>,
                    error |-> files = <<>> /\ empties = 0,
                    empty |-> files = <<>> /\ empties > 0]
      /\ UNCHANGED <<demuxVars, job, outVars, todo, found, empties, verdict, wanted, files>>
  BY DEF Finish, workVars, outVars
<1>3. VideoFound'  BY <1>1, <1>2, NoVideo
<1>4. FilesInv' /\ Made' = Made  BY <1>1, <1>2, NoFiles
<1>5. JobAccepted /\ NextInv /\ verdict = "none"  BY <1>1, <1>2 DEF ControlInv
<1>6. Between(Len(Units))  BY <1>1, <1>2, <1>5, NothingLeft
<1>7. Len(Units) > 0  BY <1>1, <1>5, UnitsOfJob
<1>8. empties \in Nat /\ (files # <<>> \/ empties > 0)
  BY <1>1, <1>6, <1>7 DEF Between, FilesInv
<1>9. result'.files = files /\ ~result'.error /\ (files # <<>> \/ result'.empty)
  <2>1. result'.files = files  BY <1>2, <1>8
  <2>2. ~(files = <<>> /\ empties = 0)  BY <1>8
  <2>3. result'.error = (files = <<>> /\ empties = 0)  BY <1>2
  <2>4. result'.empty = (files = <<>> /\ empties > 0)  BY <1>2
  <2>5. files # <<>> \/ result'.empty  BY <1>8, <2>4
  <2>6. QED  BY <2>1, <2>2, <2>3, <2>5
<1>10. PICK k : k = Len(Units)  OBVIOUS
<1>11. Between(k)'  BY <1>1, <1>2, <1>4, <1>5, <1>6, <1>10, StillBetween
<1>12. Len(Units)' = k /\ JobAccepted'  BY <1>2, <1>5, <1>10, SameUnits
<1>13. Between(Len(Units))'  BY <1>11, <1>12
<1>14. ControlInv'  BY <1>2, <1>5, <1>9, <1>12, <1>13 DEF ControlInv
<1>15. QED  BY <1>1, <1>2, <1>3, <1>4, <1>14 DEF WorkerInv

\* A job that came to its end made all of what is expected.
LEMMA WholeAtEnd ==
    ASSUME job \in Jobs, JobAccepted, FilesInv, Between(Len(Units))
    PROVE  /\ [i \in DOMAIN files |-> output[files[i].path].of] = Expected
           /\ \A i \in DOMAIN files :
                /\ output[files[i].path].size = files[i].size
                /\ output[files[i].path].lost \in {"nothing", "audio tail"}
                /\ \A j \in DOMAIN files : files[i].path = files[j].path => i = j
           /\ Total([i \in DOMAIN files |-> files[i].size]) <= OutputBytes
           /\ \A i \in DOMAIN Units : Inner(Units[i]).do = "acb" => Sliced(Inner(Units[i]))
<1>1. Made = Expected  BY FlatAll DEF Between
<1>2. \A i \in DOMAIN files :
         /\ output[files[i].path].size = files[i].size
         /\ output[files[i].path].lost \in {"nothing", "audio tail"}
         /\ \A j \in DOMAIN files : files[i].path = files[j].path => i = j
  <2>1. TAKE i \in DOMAIN files
  <2>2. ASSUME NEW j \in DOMAIN files, files[i].path = files[j].path PROVE i = j
    <3>1. i \in 1..Len(files) /\ j \in 1..Len(files) /\ Len(files) \in Nat  BY MadeSeq
    <3>2. files[i].path[1] = i - 1 /\ files[j].path[1] = j - 1  BY DEF FilesInv
    <3>3. QED  BY <2>2, <3>1, <3>2
  <2>3. QED  BY <2>2 DEF FilesInv
<1>3. Total([i \in DOMAIN files |-> files[i].size]) <= OutputBytes
  BY DEF FilesInv, FileSizes
<1>4. \A i \in DOMAIN Units : Inner(Units[i]).do = "acb" => Sliced(Inner(Units[i]))
  <2>1. TAKE i \in DOMAIN Units
  <2>2. HAVE Inner(Units[i]).do = "acb"
  <2>3. i \in 1..Len(Units)  BY UnitsOfJob
  <2>4. UnitShape(Units[i]) /\ Passed(Units[i])  BY <2>3, PlaceSeqs DEF Between
  <2>5. AcbShape(Inner(Units[i])) /\ AcbAccepted(Inner(Units[i]))
    BY <2>2, <2>4, InnerShape DEF Passed
  <2>6. QED  BY <2>5, AcceptedIsSliced
<1>5. QED  BY <1>1, <1>2, <1>3, <1>4 DEF Made

LEMMA SameReason ==
    ASSUME UNCHANGED <<job, found, phase, files, wanted, faults>>
    PROVE  Reason' <=> Reason
<1>1. Units' = Units /\ (JobAccepted' <=> JobAccepted)  BY SameUnits
<1>2. \A u : SoundUnit(u)' <=> SoundUnit(u)  BY SameSound
<1>3. (\E i \in DOMAIN Units : ~SoundUnit(Units[i]))'
        <=> \E i \in DOMAIN Units : ~SoundUnit(Units[i])
  <2>1. \A i \in DOMAIN Units : SoundUnit(Units[i])' <=> SoundUnit(Units[i])
    <3>1. TAKE i \in DOMAIN Units
    <3>2. PICK u : u = Units[i]  OBVIOUS
    <3>3. SoundUnit(u)' <=> SoundUnit(u)  BY <1>2
    <3>4. Units[i]' = u  BY <1>1, <3>2
    <3>5. SoundUnit(Units[i])' <=> SoundUnit(u)'  BY <3>4
    <3>6. QED  BY <3>2, <3>3, <3>5
  <2>2. QED  BY <1>1, <2>1
<1>4. QED  BY <1>1, <1>3 DEF Reason

LEMMA SameComplete ==
    ASSUME UNCHANGED <<job, found, files, output>>
    PROVE  /\ Expected' = Expected
           /\ [i \in DOMAIN files |-> output[files[i].path].of]'
                = [i \in DOMAIN files |-> output[files[i].path].of]
           /\ (\A i \in DOMAIN Units : Inner(Units[i]).do = "acb" => Sliced(Inner(Units[i])))'
                <=> \A i \in DOMAIN Units : Inner(Units[i]).do = "acb" => Sliced(Inner(Units[i]))
<1>1. Units' = Units  BY SameUnits
<1>2. \A i : Becomes(Units[i])' = Becomes(Units[i])  BY SamePlace
<1>3. Expected' = Expected  BY <1>1, <1>2 DEF Expected
<1>4. QED  BY <1>1, <1>3 DEF Inner, Sliced

LEMMA ReadResultKeeps == WorkerInv /\ ReadResult => WorkerInv'
<1> SUFFICES ASSUME WorkerInv, ReadResult PROVE WorkerInv'  OBVIOUS
<1>1. job \in Jobs /\ FilesInv /\ ControlInv /\ VideoFound  BY DEF WorkerInv
<1>2. /\ stage = "result" /\ stage' = "ended"
      /\ verdict' = (IF ResultAccepted THEN "published" ELSE "failed")
      /\ UNCHANGED <<demuxVars, job, outVars, found, empties, wanted, faults, files, output>>
  BY DEF ReadResult, workVars, outVars
<1>3. VideoFound'  BY <1>1, <1>2, NoVideo
<1>4. FilesInv'  BY <1>1, <1>2, NoFiles
<1>5. phase' = phase  BY <1>2 DEF demuxVars
<1>6. Reason' <=> Reason  BY <1>2, <1>5, SameReason
<1>7. PublishedIsComplete'
  <2>1. SUFFICES ASSUME verdict' = "published" PROVE PublishedIsComplete'
    BY DEF PublishedIsComplete
  <2>2. ResultAccepted  BY <1>2, <2>1
  <2>3. ~result.error  BY <2>2 DEF ResultAccepted
  <2>4. JobAccepted /\ Between(Len(Units))  BY <1>1, <1>2, <2>3 DEF ControlInv
  <2>5. /\ [i \in DOMAIN files |-> output[files[i].path].of] = Expected
        /\ \A i \in DOMAIN files :
                /\ output[files[i].path].size = files[i].size
                /\ output[files[i].path].lost \in {"nothing", "audio tail"}
                /\ \A j \in DOMAIN files : files[i].path = files[j].path => i = j
        /\ Total([i \in DOMAIN files |-> files[i].size]) <= OutputBytes
        /\ \A i \in DOMAIN Units : Inner(Units[i]).do = "acb" => Sliced(Inner(Units[i]))
    BY <1>1, <2>4, WholeAtEnd
  <2>6. /\ Expected' = Expected
        /\ [i \in DOMAIN files |-> output[files[i].path].of]'
             = [i \in DOMAIN files |-> output[files[i].path].of]
        /\ (\A i \in DOMAIN Units : Inner(Units[i]).do = "acb" => Sliced(Inner(Units[i])))'
    BY <1>2, <2>5, SameComplete
  <2>7. QED  BY <1>2, <2>5, <2>6 DEF PublishedIsComplete
<1>8. FailsWithReason'
  <2>1. SUFFICES ASSUME verdict' = "failed" PROVE Reason  BY <1>6 DEF FailsWithReason
  <2>2. ~ResultAccepted  BY <1>2, <2>1
  <2>3. CASE result.error  BY <1>1, <1>2, <2>3 DEF ControlInv
  <2>4. CASE ~result.error
    <3>1. result.files = files /\ (files # <<>> \/ result.empty)
      BY <1>1, <1>2, <2>4 DEF ControlInv
    <3>2. \A i \in DOMAIN files :
            files[i].path \in DOMAIN output /\ output[files[i].path].size = files[i].size
      BY <1>1 DEF FilesInv
    <3>3. Total([i \in DOMAIN files |-> files[i].size]) <= OutputBytes
      BY <1>1 DEF FilesInv, FileSizes
    <3>4. ~(Len(files) <= ResultFiles)  BY <2>2, <2>4, <3>1, <3>2, <3>3 DEF ResultAccepted
    <3>5. Len(files) \in Nat /\ ResultFiles \in Nat  BY <1>1, MadeSeq, WorkerAssumption
    <3>6. Len(files) > ResultFiles  BY <3>4, <3>5
    <3>7. QED  BY <3>6 DEF Reason
  <2>5. QED  BY <2>3, <2>4
<1>9. ControlInv'  BY <1>2, <1>7, <1>8 DEF ControlInv
<1>10. QED  BY <1>1, <1>2, <1>3, <1>4, <1>9 DEF WorkerInv

LEMMA NoTotal == ASSUME NEW s, DOMAIN s = {} PROVE Total(s) = 0
BY FS_EmptySet DEF Total

LEMMA NoFilesYet ==
    /\ files = <<>> /\ written = 0 /\ wanted = 0 /\ empties = 0 => FilesInv
<1> SUFFICES ASSUME files = <<>>, written = 0, wanted = 0, empties = 0 PROVE FilesInv
  OBVIOUS
<1>1. IsSeq(files) /\ Len(files) = 0  BY NoSeq
<1>2. DOMAIN files = {}  BY <1>1, IsSeqDef
<1>3. MaxFiles \in Nat /\ OutputBytes \in Nat  BY WorkerAssumption
<1>4. DOMAIN FileSizes = {}  BY <1>2 DEF FileSizes
<1>5. Total(FileSizes) = 0  BY <1>4, NoTotal
<1>6. QED  BY <1>1, <1>2, <1>3, <1>5 DEF FilesInv

LEMMA KilledKeeps == WorkerInv /\ Killed => WorkerInv'
<1> SUFFICES ASSUME WorkerInv, Killed PROVE WorkerInv'  OBVIOUS
<1>1. job \in Jobs  BY DEF WorkerInv
<1>2. /\ stage' = "ended" /\ verdict' = "failed" /\ faults' = TRUE /\ Restart("idle")
      /\ files' = <<>> /\ written' = 0 /\ wanted' = 0 /\ empties' = 0 /\ job' = job
  BY DEF Killed
<1>3. FilesInv'
  <2>1. (files = <<>> /\ written = 0 /\ wanted = 0 /\ empties = 0)'  BY <1>2
  <2>2. QED  BY <2>1, NoFilesYet, PTL
<1>4. VideoFound'  BY <1>2 DEF Restart, VideoFound
<1>5. Reason'  BY <1>2 DEF Reason
<1>6. ControlInv'  BY <1>2, <1>5 DEF ControlInv, PublishedIsComplete, FailsWithReason
<1>7. QED  BY <1>1, <1>2, <1>3, <1>4, <1>6 DEF WorkerInv

LEMMA StillNext ==
    ASSUME job \in Jobs, JobAccepted, UNCHANGED <<job, found, todo, files, empties>>,
           Made' = Made, NextInv
    PROVE  NextInv'
<1>1. Len(Units)' = Len(Units)  BY SameUnits
<1>2. CASE \E k \in 0..Len(Units) : Between(k)
  <2>1. PICK k \in 0..Len(Units) : Between(k)  BY <1>2
  <2>2. Between(k)'  BY <2>1, StillBetween
  <2>3. (\E m \in 0..Len(Units) : Between(m))'  BY <1>1, <2>2
  <2>4. QED  BY <2>3 DEF NextInv
<1>3. CASE \E k \in 1..Len(Units) : Holds(k)
  <2>1. PICK k \in 1..Len(Units) : Holds(k)  BY <1>3
  <2>2. Holds(k)'  BY <2>1, StillHolds
  <2>3. (\E m \in 1..Len(Units) : Holds(m) \/ \E j \in Left(m) : Leaves(m, j))'
    BY <1>1, <2>2
  <2>4. QED  BY <2>3 DEF NextInv
<1>4. CASE \E k \in 1..Len(Units) : \E j \in Left(k) : Leaves(k, j)
  <2>1. PICK k \in 1..Len(Units) : \E j \in Left(k) : Leaves(k, j)  BY <1>4
  <2>2. PICK j \in Left(k) : Leaves(k, j)  BY <2>1
  <2>3. Leaves(k, j)' /\ Left(k)' = Left(k)  BY <2>2, StillLeaves
  <2>4. (\E m \in 1..Len(Units) : Holds(m) \/ \E i \in Left(m) : Leaves(m, i))'
    BY <1>1, <2>2, <2>3
  <2>5. QED  BY <2>4 DEF NextInv
<1>5. QED  BY <1>2, <1>3, <1>4 DEF NextInv

LEMMA StutterKeeps == WorkerInv /\ UNCHANGED vars => WorkerInv'
<1> SUFFICES ASSUME WorkerInv, UNCHANGED vars PROVE WorkerInv'  OBVIOUS
<1>1. job \in Jobs /\ FilesInv /\ ControlInv /\ VideoFound  BY DEF WorkerInv
<1>2. /\ UNCHANGED <<demuxVars, job, stage, outVars, wanted, verdict, result, faults>>
      /\ UNCHANGED <<todo, current, temp, found, empties, files, output, written>>
  BY DEF vars, outVars, workVars, endVars
<1>3. VideoFound'  BY <1>1, <1>2, NoVideo
<1>4. FilesInv' /\ Made' = Made  BY <1>1, <1>2, NoFiles
<1>5. phase' = phase  BY <1>2 DEF demuxVars
<1>6. Units' = Units /\ Len(Units)' = Len(Units) /\ (JobAccepted' <=> JobAccepted)
  BY <1>2, SameUnits
<1>7. Reason' <=> Reason  BY <1>2, <1>5, SameReason
<1>8. stage' \notin {"begin", "result", "ended"} => JobAccepted' /\ JobAccepted
  BY <1>1, <1>2, <1>6 DEF ControlInv
<1>9. stage' = "begin" => files' = <<>> /\ empties' = 0  BY <1>1, <1>2 DEF ControlInv
<1>10. stage' = "next" => NextInv'
  BY <1>1, <1>2, <1>4, <1>8, StillNext DEF ControlInv
<1>11. stage' = "demux" =>
         (\E k \in 1..Len(Units) : /\ Holds(k) /\ Inner(Units[k]).do = "usm"
                                   /\ Inner(Units[k]).streams = None)'
  <2>1. HAVE stage' = "demux"
  <2>2. PICK k \in 1..Len(Units) : /\ Holds(k) /\ Inner(Units[k]).do = "usm"
                                   /\ Inner(Units[k]).streams = None
    BY <1>1, <1>2, <2>1 DEF ControlInv
  <2>3. Holds(k)'  BY <1>2, <1>4, <2>2, StillHolds
  <2>4. (Inner(Units[k]).do = "usm" /\ Inner(Units[k]).streams = None)'
    BY <1>6, <2>2 DEF Inner
  <2>5. QED  BY <1>6, <2>3, <2>4
<1>12. stage' = "verify" => (\E k \in 1..Len(Units) : Split(k, <<>>))'
  <2>1. HAVE stage' = "verify"
  <2>2. PICK k \in 1..Len(Units) : Split(k, <<>>)  BY <1>1, <1>2, <2>1 DEF ControlInv
  <2>3. PICK f : f = <<Inner(Units[k])>>  OBVIOUS
  <2>4. Inside(k, f, <<>>)  BY <2>2, <2>3 DEF Split
  <2>5. Made' = Flat(k - 1) \o <<>>  BY <1>4, <2>4 DEF Inside
  <2>6. Split(k, <<>>)'  BY <1>2, <2>2, <2>5, StillSplit
  <2>7. QED  BY <1>6, <2>6
<1>13. stage' \in {"encode", "check", "keep"} => (\E k \in 1..Len(Units) : Making(k))'
  BY <1>1, <1>2, <1>4, StillMade DEF ControlInv
<1>14. stage' \in {"check", "keep"} => Encoded' /\ Target' = Target
  BY <1>1, <1>2, SameEncoded DEF ControlInv
<1>15. stage' = "keep" => (output[Target].lost # "more")'
  BY <1>1, <1>2, <1>14 DEF ControlInv
<1>16. stage' = "result" =>
         (IF result.error THEN Reason
          ELSE /\ JobAccepted /\ Between(Len(Units)) /\ result.files = files
               /\ files # <<>> \/ result.empty)'
  <2>1. HAVE stage' = "result"
  <2>2. CASE result.error  BY <1>1, <1>2, <1>7, <2>1, <2>2 DEF ControlInv
  <2>3. CASE ~result.error
    <3>1. /\ JobAccepted /\ Between(Len(Units)) /\ result.files = files
          /\ files # <<>> \/ result.empty
      BY <1>1, <1>2, <2>1, <2>3 DEF ControlInv
    <3>2. PICK k : k = Len(Units)  OBVIOUS
    <3>3. Between(k)'  BY <1>1, <1>2, <1>4, <3>1, <3>2, StillBetween
    <3>4. Between(Len(Units))'  BY <1>6, <3>2, <3>3
    <3>5. QED  BY <1>2, <1>6, <2>3, <3>1, <3>4
  <2>4. QED  BY <2>2, <2>3
<1>17. stage' = "ended" => PublishedIsComplete' /\ FailsWithReason'
  <2>1. HAVE stage' = "ended"
  <2>2. PublishedIsComplete /\ FailsWithReason  BY <1>1, <1>2, <2>1 DEF ControlInv
  <2>3. FailsWithReason'  BY <1>2, <1>7, <2>2 DEF FailsWithReason
  <2>4. PublishedIsComplete'
    BY <1>2, <2>2, SameComplete DEF PublishedIsComplete
  <2>5. QED  BY <2>3, <2>4
<1>18. stage' # "ended" => verdict' = "none"  BY <1>1, <1>2 DEF ControlInv
<1>19. ControlInv'
  BY <1>8, <1>9, <1>10, <1>11, <1>12, <1>13, <1>14, <1>15, <1>16, <1>17, <1>18 DEF ControlInv
<1>20. QED  BY <1>1, <1>2, <1>3, <1>4, <1>19 DEF WorkerInv

-----------------------------------------------------------------------------
(* Every job.                                                              *)

LEMMA InitHolds == Init => WorkerInv
<1> SUFFICES ASSUME Init PROVE WorkerInv  OBVIOUS
<1>1. /\ job \in Jobs /\ stage = "begin" /\ verdict = "none" /\ phase = "idle"
      /\ files = <<>> /\ written = 0 /\ wanted = 0 /\ empties = 0
  BY DEF Init, DemuxInit
<1>2. FilesInv  BY <1>1, NoFilesYet
<1>3. ControlInv  BY <1>1 DEF ControlInv
<1>4. VideoFound  BY <1>1 DEF VideoFound
<1>5. QED  BY <1>1, <1>2, <1>3, <1>4 DEF WorkerInv

LEMMA JobStep == WorkerInv /\ DemuxIInv /\ [Next]_vars => WorkerInv'
<1> SUFFICES ASSUME WorkerInv, DemuxIInv, [Next]_vars PROVE WorkerInv'  OBVIOUS
<1>1. CASE Begin  BY <1>1, BeginKeeps
<1>2. CASE Convert  BY <1>2, ConvertKeeps
<1>3. CASE OpenWrapper  BY <1>3, OpenWrapperKeeps
<1>4. CASE OpenAtlas  BY <1>4, OpenAtlasKeeps
<1>5. CASE OpenAcb  BY <1>5, OpenAcbKeeps
<1>6. CASE Unsupported  BY <1>6, UnsupportedKeeps
<1>7. CASE OpenUsm  BY <1>7, OpenUsmKeeps
<1>8. CASE DemuxStep  BY <1>8, DemuxStepKeeps
<1>9. CASE Extracted  BY <1>9, ExtractedKeeps
<1>10. CASE PrepareVideo  BY <1>10, PrepareVideoKeeps
<1>11. CASE DecodeWave  BY <1>11, DecodeWaveKeeps
<1>12. CASE Encode  BY <1>12, EncodeKeeps
<1>13. CASE Check  BY <1>13, CheckKeeps
<1>14. CASE Keep  BY <1>14, KeepKeeps
<1>15. CASE ToolFails  BY <1>15, ToolFailsKeeps
<1>16. CASE Finish  BY <1>16, FinishKeeps
<1>17. CASE ReadResult  BY <1>17, ReadResultKeeps
<1>18. CASE Killed  BY <1>18, KilledKeeps
<1>19. CASE UNCHANGED vars  BY <1>19, StutterKeeps
<1>20. QED
  BY <1>1, <1>2, <1>3, <1>4, <1>5, <1>6, <1>7, <1>8, <1>9, <1>10, <1>11, <1>12, <1>13,
     <1>14, <1>15, <1>16, <1>17, <1>18, <1>19 DEF Next

\* The inductive invariant of a job: its files are counted and distinct, and what
\* is left to convert, what is made and what is known of each container fit the
\* place in the job that control has reached.
THEOREM WorkerInvHolds == Spec => []WorkerInv
<1>1. Init => WorkerInv  BY InitHolds
<1>2. QED  BY <1>1, JobStep, DemuxIInvHolds, PTL DEF Spec

LEMMA InvIsEnough == WorkerInv => PublishedIsComplete /\ FailsWithReason
<1> SUFFICES ASSUME WorkerInv PROVE PublishedIsComplete /\ FailsWithReason  OBVIOUS
<1>1. ControlInv  BY DEF WorkerInv
<1>2. CASE stage = "ended"  BY <1>1, <1>2 DEF ControlInv
<1>3. CASE stage # "ended"
  <2>1. verdict = "none"  BY <1>1, <1>3 DEF ControlInv
  <2>2. QED  BY <2>1 DEF PublishedIsComplete, FailsWithReason
<1>4. QED  BY <1>2, <1>3

\* What the parent publishes is every part of every source of the job, in order
\* and each made from its own source, in a file of its own of the recorded size
\* that no cap of the encoder cut short; no byte of an AWB is in two waves.
THEOREM AlwaysComplete == Spec => []PublishedIsComplete
<1>1. QED  BY WorkerInvHolds, InvIsEnough, PTL

\* A job that fails had a fault outside of it, a source that is not sound by
\* itself, or more output than a limit allows: the order of the sources and what
\* the conversion of another one left behind are never why.
THEOREM AlwaysFailsWithReason == Spec => []FailsWithReason
<1>1. QED  BY WorkerInvHolds, InvIsEnough, PTL

\* No more is ever written than the budget of the worker allows, what is written
\* is what the artifacts of the job are long, and each has a name of its own.
THEOREM FilesInvHolds == Spec => []FilesInv
<1>1. WorkerInv => FilesInv  BY DEF WorkerInv
<1>2. QED  BY <1>1, WorkerInvHolds, PTL

=============================================================================
