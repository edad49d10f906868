------------------------------- MODULE UsmDemux --------------------------------
(***************************************************************************)
(* src/src/usm.rs: extract splits a USM file into its streams.  Chunks of  *)
(* several streams interleave; a stream has one header, payloads and one   *)
(* end, and is masked as its header says.  The directory in the first      *)
(* chunk may or may not declare the streams.                               *)
(*                                                                         *)
(* A chunk is a part of a stream; all that is malformed in one is "bad".   *)
(* A payload is of size 1.  What a rejected file left behind is dropped.   *)
(* Bound: a file has one of Shapes.  Worker starts the extraction.         *)
(***************************************************************************)
EXTENDS Naturals, Sequences, FiniteSets, FiniteSetsExt, SequencesExt

CONSTANTS
    Streams,     \* <<signature, channel>>
    Directories, \* sets of streams a directory declares
    Limit,       \* bytes of all payloads
    MaxTracks,   \* 3 in the code
    Shapes       \* how many chunks of each stream a file may have

ASSUME DemuxAssumption ==
    /\ Streams \subseteq {"SFV", "SFA", "ALP"} \X Nat
    /\ IsFiniteSet(Streams)
    /\ Directories \subseteq SUBSET Streams
    /\ Limit \in Nat /\ MaxTracks \in Nat

VARIABLES
    key,      \* a key is configured
    phase,    \* "idle", "read", "accepted" or "rejected"
    crid,     \* the directory has been read
    declared,
    opened,   \* streams with an output file
    header,   \* streams whose header was read
    codec,    \* audio codec of a stream, 0 before its header
    ended,
    out,      \* output: for each payload, whether it was unmasked
    total,
    parts,    \* history: the parts of a stream in the file
    last      \* history: what was read last

streamVars == <<opened, header, codec, ended, out, total>>
demuxVars == <<key, phase, crid, declared, streamVars, parts, last>>

-----------------------------------------------------------------------------

Video(id) == id[1] = "SFV"
Audio(id) == id[1] = "SFA"

OfNone(x) == [id \in Streams |-> x]

DemuxInit ==
    /\ key \in BOOLEAN
    /\ phase = "idle"
    /\ crid = FALSE /\ declared = {}
    /\ opened = {} /\ header = {} /\ ended = {}
    /\ codec = OfNone(0) /\ out = OfNone(<<>>)
    /\ total = 0
    /\ parts = OfNone(<<>>)
    /\ last = "none"

\* A file is opened, or what was read of one is forgotten.
Restart(next) ==
    /\ phase' = next
    /\ crid' = FALSE /\ declared' = {}
    /\ opened' = {} /\ header' = {} /\ ended' = {}
    /\ codec' = OfNone(0) /\ out' = OfNone(<<>>)
    /\ total' = 0
    /\ parts' = OfNone(<<>>)
    /\ last' = "none"
    /\ UNCHANGED key

Reject == phase' = "rejected" /\ UNCHANGED <<crid, declared, streamVars>>

\* The first chunk, a second one, or a malformed one.
Directory(streams, good) ==
    /\ phase = "read"
    /\ IF good /\ ~crid
       THEN /\ crid' = TRUE /\ declared' = streams
            /\ UNCHANGED <<phase, streamVars>>
       ELSE Reject
    /\ last' = "directory"
    /\ UNCHANGED <<key, parts>>

AnyStream(id) == TRUE  \* broken: a stream may go on after its end
MayGoOn(id) == id \notin ended

HasTrack(id) == id \in opened \/ Cardinality(opened) < MaxTracks

HasHeader(id) == id \in header

Unmasked(id) == key /\ (Audio(id) => codec[id] = 2)

Fits(id, part) ==
    \/ part = "payload" /\ HasHeader(id) /\ total < Limit
    \/ part = "header" /\ id \notin header
    \/ part = "end" /\ out[id] # <<>>
    \/ part = "other"

\* "other": #HEADER END, #METADATA END, and tables that are only checked.
Take(id, part) ==
    /\ opened' = opened \cup {id}
    /\ header' = IF part = "header" THEN header \cup {id} ELSE header
    /\ ended' = IF part = "end" THEN ended \cup {id} ELSE ended
    /\ \E c \in {2, 4} :
         codec' = IF part = "header" /\ Audio(id) THEN [codec EXCEPT ![id] = c] ELSE codec
    /\ out' = IF part = "payload" THEN [out EXCEPT ![id] = Append(@, Unmasked(id))] ELSE out
    /\ total' = IF part = "payload" THEN total + 1 ELSE total

Chunk(id, part) ==
    /\ phase = "read"
    /\ parts' = [parts EXCEPT ![id] = Append(@, part)]
    /\ \E shape \in Shapes : \A i \in Streams : Len(parts'[i]) <= shape[i]
    /\ IF crid /\ HasTrack(id) /\ MayGoOn(id) /\ Fits(id, part)
       THEN Take(id, part) /\ UNCHANGED <<phase, crid, declared>>
       ELSE Reject
    /\ last' = "chunk"
    /\ UNCHANGED key

Parts == {"payload", "header", "end", "other", "bad"}

AsDeclared == declared \in {{}, opened}

Complete == opened \subseteq header \cap ended

Tracks(signature) == Cardinality({id \in opened : id[1] = signature})

EndOfFile ==
    /\ phase = "read"
    /\ phase' = IF /\ AsDeclared /\ crid /\ Complete
                   /\ Tracks("SFV") = 1 /\ Tracks("SFA") <= 1 /\ Tracks("ALP") <= 1
                THEN "accepted" ELSE "rejected"
    /\ last' = "end"
    /\ UNCHANGED <<key, crid, declared, streamVars, parts>>

Demux ==
    \/ \E d \in Directories, good \in BOOLEAN : Directory(d, good)
    \/ \E id \in Streams, part \in Parts : Chunk(id, part)
    \/ EndOfFile

-----------------------------------------------------------------------------
(* Properties.                                                             *)

Found == {id \in Streams : parts[id] # <<>>}

Places(id, part) == {k \in DOMAIN parts[id] : parts[id][k] = part}

Payloads(id) == Cardinality(Places(id, "payload"))

AllPayloads == UNION {{<<id, k>> : k \in Places(id, "payload")} : id \in Streams}

\* Nothing of it but "other" precedes its one header, an end is the last of all
\* parts and has payloads before it: more parts can make it whole.
CanBeWhole(id) ==
    /\ Places(id, "bad") = {}
    /\ \A k \in Places(id, "header") : \A j \in 1..(k - 1) : parts[id][j] = "other"
    /\ \A k \in Places(id, "payload") \cup Places(id, "end") :
         \E j \in Places(id, "header") : j < k
    /\ \A k \in Places(id, "end") : k = Len(parts[id]) /\ Places(id, "payload") # {}

\* A header, payloads, and an end.
Whole(id) == CanBeWhole(id) /\ Places(id, "end") # {}

WholeFile ==
    /\ crid /\ declared \in {{}, Found}
    /\ \A id \in Found : Whole(id)
    /\ Cardinality({id \in Found : Video(id)}) = 1
    /\ \A i, j \in Found : i[1] = j[1] => i = j

\* However the chunks of its streams interleave, a file is accepted exactly when
\* every stream is whole, there is one video and what was declared; it is given
\* up early only when no continuation could be accepted.  The output has every
\* payload, unmasked as the header of its own stream demands.
AcceptsExactlyWholeFiles ==
    /\ phase = "accepted" =>
         /\ WholeFile
         /\ \A id \in Found :
              out[id] = [k \in 1..Payloads(id) |-> key /\ (Audio(id) => codec[id] = 2)]
    /\ phase = "rejected" /\ last = "end" => ~WholeFile
    /\ phase = "rejected" /\ last = "chunk" =>
         \/ ~crid
         \/ \E id \in Found : ~CanBeWhole(id)
         \/ Cardinality(Found) > MaxTracks
         \/ Cardinality(AllPayloads) > Limit

-----------------------------------------------------------------------------
(* What makes the property inductive.                                      *)

DemuxTypeOK ==
    /\ key \in BOOLEAN /\ crid \in BOOLEAN
    /\ phase \in {"idle", "read", "accepted", "rejected"}
    /\ {declared, opened, header, ended} \subseteq SUBSET Streams
    /\ codec \in [Streams -> {0, 2, 4}]
    /\ out \in [Streams -> Seq(BOOLEAN)]
    /\ total \in Nat
    /\ parts \in [Streams -> Seq(Parts)]
    /\ last \in {"none", "directory", "chunk", "end"}

\* What the extraction remembers of a stream is what it has read of it.
StreamInv(id) ==
    /\ CanBeWhole(id)
    /\ id \in header <=> Places(id, "header") # {}
    /\ id \in ended <=> Places(id, "end") # {}
    /\ out[id] = [k \in 1..Payloads(id) |-> Unmasked(id)]

DemuxInv ==
    phase = "read" =>
        /\ opened = Found
        /\ \A id \in Streams : StreamInv(id)
        /\ total = Cardinality(AllPayloads)

DemuxIInv == DemuxTypeOK /\ DemuxInv /\ AcceptsExactlyWholeFiles

=============================================================================
