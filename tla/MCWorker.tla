------------------------------- MODULE MCWorker --------------------------------
(* Small jobs of every kind for TLC.                                       *)
EXTENDS Worker

v0 == <<"SFV", 0>>
v1 == <<"SFV", 1>>
a0 == <<"SFA", 0>>
p0 == <<"ALP", 0>>

SomeStreams == {v0, v1, a0, p0}
SomeDirectories == {{}, {v0, a0, p0}}

\* Three whole streams; two videos and the beginning of another stream.
SomeShapes ==
    {[id \in SomeStreams |-> IF id = v1 THEN 0 ELSE IF id = v0 THEN 4 ELSE 3],
     [id \in SomeStreams |-> IF id \in {v0, v1} THEN 3 ELSE 1],
     [id \in SomeStreams |-> IF id = v0 THEN 5 ELSE IF id = a0 THEN 3 ELSE 0]}

-----------------------------------------------------------------------------
(* Containers.                                                             *)

Signatures == {"SFV", "SFA", "ALP"}

AnyUsm == [do |-> "usm", source |-> "usm", streams |-> None, agree |-> TRUE, decodes |-> Signatures]

Usm(source, ids, audio, decodes, agree) ==
    [do |-> "usm", source |-> source, streams |-> [ids |-> ids, codec |-> audio],
     agree |-> agree, decodes |-> decodes]

Voiced == Usm("voiced", {v0, a0}, 2, Signatures, TRUE)
Silent == Usm("silent", {v0}, 0, Signatures, TRUE)
Masked == Usm("masked", {v0, p0}, 0, Signatures, TRUE)
Usms == {Voiced, Silent, Masked,
         Usm("hca", {v0, a0, p0}, 4, Signatures, TRUE),
         Usm("deaf", {v0, a0}, 4, {"SFV"}, TRUE),
         Usm("late", {v0, p0}, 0, Signatures, FALSE),
         Usm("torn", {v0}, 0, {}, TRUE)}

Plays(cue, wave) == [cue |-> cue, wave |-> wave, streamed |-> FALSE]

Awb(ids, offsets, alignment) ==
    [ids |-> ids, offsets |-> offsets, alignment |-> alignment, table |-> 2, length |-> 6]

Acb(tracks, awb, decodes) ==
    [do |-> "acb", source |-> "acb", tracks |-> tracks, awb |-> awb, decodes |-> decodes]

TwoWaves == Awb(<<0, 1>>, <<2, 4, 6>>, 2)
Song == Acb({Plays(1, 0), Plays(2, 1), Plays(3, 1)}, TwoWaves, {0, 1})

\* One cue plays both waves.
Chord == Acb({Plays(1, 0), Plays(1, 1)}, TwoWaves, {0, 1})

Acbs ==
    {Song, Acb({}, TwoWaves, {}), Acb({Plays(1, 0), Plays(2, 1)}, TwoWaves, {0}),
     Acb({[Plays(1, 0) EXCEPT !.streamed = TRUE]}, TwoWaves, {0})} \cup
    {Acb({Plays(1, 0), Plays(2, w)}, Awb(ids, <<i, j, k>>, alignment), {0, 1}) :
       w \in {0, 1, 2}, ids \in {<<0, 0>>, <<0, 1>>},
       i, j, k \in 1..7, alignment \in {0, 1, 3}}

Unknown == [do |-> "unknown"]

-----------------------------------------------------------------------------
(* Objects and inputs.                                                     *)

Object(do, id, good) == [do |-> do, id |-> id, good |-> good]
a == Object("image", "a", TRUE)
b == Object("image", "b", TRUE)
c == Object("text", "c", TRUE)

Atlas(sprites, leftovers) == [do |-> "atlas", sprites |-> sprites, leftovers |-> leftovers]

Chunk1(text, size) == [text |-> text, size |-> size]
Wrapper(container, chunks) ==
    [do |-> "wrapper", good |-> TRUE, size |-> 1, chunks |-> chunks, container |-> container]
Chunks == <<Chunk1(TRUE, 1), Chunk1(TRUE, 1)>>

Input(id, cri, container) ==
    [do |-> "input", id |-> id, cri |-> cri, good |-> TRUE, size |-> 1, container |-> container]
b1 == Input(1, FALSE, None)
b2 == Input(2, FALSE, None)
bad == [b2 EXCEPT !.good = FALSE]
big == [b2 EXCEPT !.size = 3]

-----------------------------------------------------------------------------
(* Jobs.                                                                   *)

Job(archive, font, target, inputs, objects) ==
    [archive |-> archive, font |-> font, target |-> target, inputs |-> inputs,
     objects |-> objects]

MediaJob(container) == Job(FALSE, FALSE, "cri", <<Input(1, TRUE, container)>>, <<>>)
Preview(target, objects) == Job(FALSE, FALSE, target, <<b1, b2>>, objects)

SomeJobs ==
    {MediaJob(u) : u \in Usms \cup Acbs \cup {AnyUsm, Unknown}} \cup
    {Job(TRUE, font, "other", inputs, <<>>) :
       font \in BOOLEAN, inputs \in {<<>>, <<b1>>, <<b1, bad>>, <<Input(1, TRUE, Song), b2>>}} \cup
    {Job(FALSE, FALSE, "other", inputs, <<a>>) :
       inputs \in {<<b1, b1>>, <<b1, bad>>, <<b1, big>>, <<b1, Input(2, TRUE, Song)>>}} \cup
    {Preview("other", objects) :
       objects \in {<<>>, <<a, b>>, <<c, Atlas(<<a, b>>, FALSE), b>>, <<Atlas(<<>>, FALSE)>>,
                    <<Atlas(<<>>, FALSE), a, b>>, <<Atlas(<<>>, TRUE), a>>,
                    <<Atlas(<<a, Object("image", "b", FALSE)>>, FALSE)>>,
                    <<Atlas(<<a, b, a, b, c>>, FALSE)>>,
                    <<a, Object("other", "d", TRUE)>>, <<Wrapper(Song, Chunks)>>}} \cup
    {Preview("criware", <<Wrapper(u, <<>>), Wrapper(v, <<>>)>>) :
       u \in {Voiced, Song}, v \in {Silent, Masked, Song, Unknown}} \cup
    {Preview("split", objects) :
       objects \in {<<Wrapper(Song, Chunks)>>, <<Wrapper(Song, <<>>)>>, <<Wrapper(Voiced, Chunks)>>,
                    <<Wrapper(Song, <<Chunk1(TRUE, 1), Chunk1(FALSE, 1)>>)>>,
                    <<Wrapper(Song, <<Chunk1(TRUE, 2), Chunk1(TRUE, 1)>>)>>, <<c>>}}

NamedJobs == {MediaJob(Chord), MediaJob(Song), MediaJob(Masked)}

=============================================================================
