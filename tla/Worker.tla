-------------------------------- MODULE Worker ---------------------------------
(***************************************************************************)
(* src/src/worker.rs: one job of the worker process, and what its parent   *)
(* (App::export_one) makes of the result.  The worker converts one source  *)
(* after the other: units of todo are replaced by what they contain until  *)
(* something is written.  A tool may fail at any call; the parent may kill *)
(* the worker at any time.                                                 *)
(*                                                                         *)
(* Contents are the sources they were made from.  What is malformed in one *)
(* source is a flag of it.  An encoding has any size of Sizes.             *)
(* Bound: a USM container whose streams are given is not read chunk by     *)
(* chunk; UsmDemux reads the others.                                       *)
(***************************************************************************)
EXTENDS UsmDemux, Integers

CONSTANTS
    Jobs,         \* [archive, font, target, inputs, objects]
    OutputBytes, ExpandedBytes,
    MaxFiles,     \* 10,000 in the code
    ResultFiles,  \* how many artifacts a result has that the parent reads
    Sizes,
    None

IsSeq(s) == s \in Seq(ToSet(s))

UsmShape(u) ==
    u.streams # None =>
        /\ u.streams.ids \subseteq {"SFV", "SFA", "ALP"} \X Nat
        /\ \E id \in u.streams.ids : id[1] = "SFV"

AcbShape(u) ==
    /\ IsFiniteSet(u.tracks) /\ \A t \in u.tracks : t.wave \in Nat
    /\ u.awb.ids \in Seq(Nat) /\ u.awb.offsets \in Seq(Nat)
    /\ Len(u.awb.offsets) = Len(u.awb.ids) + 1
    /\ {u.awb.alignment, u.awb.table, u.awb.length} \subseteq Nat

ContainerShape(u) ==
    \/ u.do = "usm" /\ UsmShape(u)
    \/ u.do = "acb" /\ AcbShape(u)
    \/ u.do = "unknown"

Plain == {"text", "image", "other"}

ObjectShape(u) ==
    \/ u.do \in Plain
    \/ u.do = "atlas" /\ IsSeq(u.sprites) /\ \A i \in DOMAIN u.sprites : u.sprites[i].do \in Plain
    \/ u.do = "wrapper" /\ IsSeq(u.chunks) /\ ContainerShape(u.container)

\* A source names the object that holds it.
JobShape(j) ==
    /\ IsSeq(j.inputs) /\ IsSeq(j.objects)
    /\ \A i \in DOMAIN j.inputs :
         /\ j.inputs[i].do = "input"
         /\ j.inputs[i].cri => ContainerShape(j.inputs[i].container)
    /\ \A i \in DOMAIN j.objects : ObjectShape(j.objects[i])
    /\ \A i, k \in {n \in DOMAIN j.objects :
                      j.objects[n].do = "wrapper" /\ j.objects[n].container.do = "usm"} :
         j.objects[i].container.source = j.objects[k].container.source => i = k

ASSUME WorkerAssumption ==
    /\ {OutputBytes, ExpandedBytes, MaxFiles, ResultFiles} \subseteq Nat
    /\ Sizes \subseteq Nat \ {0}
    /\ \A j \in Jobs : JobShape(j)

VARIABLES
    job,
    stage,    \* control: "begin", "next" unit, the steps of a conversion, "result", "ended"
    todo,     \* units not yet converted
    current,  \* the conversion under way: [role, tracks, label, stable]
    files,    \* artifacts: [path, size, label, stable, role]
    output,   \* what the output directory holds: [of, size, lost] of a path
    written,  \* Output.total
    temp,     \* files beside the output directory: the source of each
    found,    \* history and result of usm::extract for each container
    empties,  \* empty_atlases
    result,   \* result.json
    verdict,  \* what the parent made of it
    wanted,   \* history: bytes all outputs would have, the refused one included
    faults    \* history: a tool failed or the parent killed the worker

outVars == <<files, output, written>>
workVars == <<todo, current, temp, found, empties>>
endVars == <<result, verdict, faults>>
vars == <<demuxVars, job, stage, outVars, workVars, endVars, wanted>>

\* f with v for x.
With(f, x, v) == [y \in DOMAIN f \cup {x} |-> IF y = x THEN v ELSE f[y]]

-----------------------------------------------------------------------------
(* Sources.                                                                *)

\* What a sequence of sizes adds up to: its bytes.
Total(sizes) == Cardinality(UNION {{i} \X (1..sizes[i]) : i \in DOMAIN sizes})

Raw == {i \in DOMAIN job.inputs : job.inputs[i].cri}

Media == job.target = "cri" \/ (job.target = "criware" /\ Raw # {})

\* Bundles: distinct, none of CRI, within the budget, each with its CRC; the
\* target is among their objects.
BundlesAccepted ==
    /\ Raw = {}
    /\ \A i, j \in DOMAIN job.inputs : job.inputs[i].id = job.inputs[j].id => i = j
    /\ Total([i \in DOMAIN job.inputs |-> job.inputs[i].size]) <= ExpandedBytes
    /\ \A i \in DOMAIN job.inputs : job.inputs[i].good
    /\ job.objects # <<>>

JobAccepted ==
    /\ job.inputs # <<>> \/ (job.archive /\ job.font)
    /\ ~job.archive => IF Media THEN Cardinality(Raw) = 1 ELSE BundlesAccepted

Units ==
    IF job.archive THEN (IF job.font THEN <<[do |-> "font", id |-> "font", good |-> TRUE]>>
                                     ELSE <<>>) \o job.inputs
    ELSE IF Media THEN <<job.inputs[CHOOSE i \in Raw : TRUE].container>>
    ELSE job.objects

\* What is done with a unit: inputs of an archive are copied; objects go by
\* class and by the type of the target.
Route(u) ==
    CASE u.do = "wrapper" /\ job.target = "criware" -> "embedded"
      [] u.do \in {"wrapper", "text", "image", "other", "atlas"} /\ job.target = "split" -> "split"
      [] OTHER -> u.do

Direct == {"font", "input", "text", "image"}

\* split_acb: ordered chunks, none of them empty, that make up one ACB.
Assembled(u) ==
    /\ u.do = "wrapper"
    /\ u.chunks # <<>>
    /\ \A i \in DOMAIN u.chunks : u.chunks[i].text /\ u.chunks[i].size > 0
    /\ Total([i \in DOMAIN u.chunks |-> u.chunks[i].size]) <= ExpandedBytes
    /\ u.container.do = "acb"

\* embedded: a known layout that holds one container.
Unwrapped(u) == u.good /\ u.size \in 1..ExpandedBytes /\ u.container.do \in {"acb", "usm"}

-----------------------------------------------------------------------------
(* ACB.                                                                    *)

Aligned(n, alignment) == ((n + alignment - 1) \div alignment) * alignment

EntryStart(awb, i) == Aligned(awb.offsets[i], awb.alignment)

\* check_awb_references: the table names count waves and count + 1 offsets.
InOrder(awb) ==
    \A i \in 2..Len(awb.offsets) : awb.offsets[i] >= EntryStart(awb, i - 1)

AwbAccepted(awb) ==
    /\ awb.alignment > 0
    /\ \A i, j \in DOMAIN awb.ids : awb.ids[i] = awb.ids[j] => i = j
    /\ awb.offsets[1] >= awb.table
    /\ InOrder(awb)
    /\ \A i \in DOMAIN awb.offsets : awb.offsets[i] <= awb.length
    /\ \A i \in DOMAIN awb.ids : EntryStart(awb, i) <= awb.length

Referenced(u) == {t.wave : t \in u.tracks}

AcbAccepted(u) ==
    /\ \A t \in u.tracks : ~t.streamed
    /\ AwbAccepted(u.awb)
    /\ Referenced(u) # {} /\ Referenced(u) \subseteq ToSet(u.awb.ids)

\* The i-th of a set, in order.
Nth(S, i) == CHOOSE x \in S : Cardinality({y \in S : y <= x}) = i

\* Every wave once, with the cues that play it.
Waves(u) ==
    [i \in 1..Cardinality(Referenced(u)) |->
       LET wave == Nth(Referenced(u), i)
       IN  [do |-> "wave", index |-> i, source |-> <<u.source, wave>>,
            cues |-> {t.cue : t \in {s \in u.tracks : s.wave = wave}},
            good |-> wave \in u.decodes]]

-----------------------------------------------------------------------------
(* Control.                                                                *)

Init ==
    /\ DemuxInit
    /\ job \in Jobs
    /\ stage = "begin"
    /\ todo = <<>> /\ current = None
    /\ files = <<>> /\ output = <<>> /\ written = 0
    /\ temp = <<>> /\ found = <<>> /\ empties = 0
    /\ result = None /\ verdict = "none"
    /\ wanted = 0 /\ faults = FALSE

Unit == Head(todo)

At(point, kinds) == stage = point /\ todo # <<>> /\ Route(Unit) \in kinds

Write(next, units) ==
    /\ stage' = next /\ todo' = units
    /\ UNCHANGED result

\* An error ends run; worker_entry reports it, and no file.
Fail ==
    /\ stage' = "result"
    /\ result' = [files |-> <<>>, error |-> TRUE, empty |-> FALSE]
    /\ UNCHANGED todo

Begin ==
    /\ stage = "begin"
    /\ IF JobAccepted THEN Write("next", Units) ELSE Fail
    /\ UNCHANGED <<demuxVars, job, outVars, current, temp, found, empties, verdict, wanted,
                   faults>>

-----------------------------------------------------------------------------
(* Output.                                                                 *)

Path(ext) == <<Len(files), ext>>

Below(n) == written + n < OutputBytes /\ Len(files) < MaxFiles  \* broken
Room(n) == written + n <= OutputBytes /\ Len(files) < MaxFiles

\* Output::add.
Add(path, n, label, stable, role, units, next) ==
    IF Room(n)
    THEN /\ files' = Append(files, [path |-> path, size |-> n, label |-> label,
                                    stable |-> stable, role |-> role])
         /\ written' = written + n
         /\ Write(next, units)
    ELSE /\ Fail
         /\ UNCHANGED <<files, written>>

Ext == [font |-> "json", input |-> "raw", text |-> "txt", image |-> "png"]

\* The font's reference, the copy of an archive, a text or an image.
Convert ==
    /\ At("next", Direct)
    /\ IF Unit.good
       THEN LET path == Path(Ext[Unit.do])
            IN  \E n \in Sizes :
                  /\ wanted' = wanted + n
                  /\ output' = With(output, path, [of |-> {<<Unit.do, Unit.id>>}, size |-> n,
                                                   lost |-> "nothing"])
                  /\ Add(path, n, Unit.id, <<Unit.do, Unit.id>>, "asset", Tail(todo), "next")
       ELSE /\ Fail
            /\ UNCHANGED <<outVars, wanted>>
    /\ UNCHANGED <<demuxVars, job, current, temp, found, empties, verdict, faults>>

-----------------------------------------------------------------------------
(* Units that hold others.                                                 *)

Replace(accepted, units) ==
    /\ IF accepted THEN Write("next", units \o Tail(todo)) ELSE Fail
    /\ UNCHANGED <<demuxVars, job, outVars, current, temp, found, verdict, wanted, faults>>

OpenWrapper ==
    /\ At("next", {"split", "embedded"})
    /\ Replace(IF Route(Unit) = "split" THEN Assembled(Unit) ELSE Unwrapped(Unit),
               <<Unit.container>>)
    /\ UNCHANGED empties

\* An atlas without sprites must have nothing else; it may end as no file.
OpenAtlas ==
    /\ At("next", {"atlas"})
    /\ Replace(Unit.sprites # <<>> \/ ~Unit.leftovers, Unit.sprites)
    /\ empties' = IF Unit.sprites = <<>> /\ ~Unit.leftovers THEN empties + 1 ELSE empties

OpenAcb ==
    /\ At("next", {"acb"})
    /\ Replace(AcbAccepted(Unit), Waves(Unit))
    /\ UNCHANGED empties

\* A wrapper of another type, another class, an unknown container.
Unsupported ==
    /\ At("next", {"wrapper", "other", "unknown"})
    /\ Replace(FALSE, <<>>)
    /\ UNCHANGED empties

-----------------------------------------------------------------------------
(* USM: extraction, verification, audio.                                   *)

\* One temporary file for each stream.
Streamed(ids) == [f \in DOMAIN temp \cup ids |-> IF f \in ids THEN Unit.source ELSE temp[f]]

OpenUsm ==
    /\ At("next", {"usm"})
    /\ IF Unit.streams = None
       THEN /\ Restart("read")
            /\ Write("demux", todo)
            /\ UNCHANGED <<temp, found>>
       ELSE /\ found' = With(found, Unit.source, Unit.streams)
            /\ temp' = Streamed(Unit.streams.ids)
            /\ Write("verify", todo)
            /\ UNCHANGED demuxVars
    /\ UNCHANGED <<job, outVars, current, empties, verdict, wanted, faults>>

DemuxStep ==
    /\ stage = "demux" /\ Demux
    /\ UNCHANGED <<job, stage, outVars, workVars, endVars, wanted>>

Audible(c) == IF c = {} THEN 0 ELSE CHOOSE x \in c : TRUE

Extracted ==
    /\ stage = "demux" /\ phase \in {"accepted", "rejected"}
    /\ IF phase = "accepted"
       THEN /\ found' = With(found, Unit.source,
                             [ids |-> opened,
                              codec |-> Audible({codec[id] : id \in {i \in opened : Audio(i)}})])
            /\ temp' = Streamed(opened)
            /\ Write("verify", todo)
            /\ Restart("idle")
       ELSE /\ Fail
            /\ Restart("rejected")
            /\ UNCHANGED <<found, temp>>
    /\ UNCHANGED <<job, outVars, current, empties, verdict, wanted, faults>>

StreamOf(u, signature) == {id \in found[u.source].ids : id[1] = signature}
Has(u, signature) == StreamOf(u, signature) # {}
File(u, signature) == CHOOSE id \in StreamOf(u, signature) : TRUE

\* Alpha has the timing and size of color; each video decodes to the frames and
\* the size its header declares.
VideoAccepted(u) ==
    /\ Has(u, "ALP") => u.agree /\ "ALP" \in u.decodes
    /\ "SFV" \in u.decodes

AudioAccepted(u) == Has(u, "SFA") => "SFA" \in u.decodes

Conversion(role, tracks, label, stable) ==
    current' = [role |-> role, tracks |-> tracks, label |-> label, stable |-> stable]

Track(kind, file) == [kind |-> kind, file |-> file]

Leftover(u) == <<"normalized.wav", 0>> \in DOMAIN temp  \* broken
HasAudio(u) == Has(u, "SFA")

\* The verification of the streams, and normalize_adx or wav for the audio.
PrepareVideo ==
    /\ At("verify", {"usm"})
    /\ LET wav == IF found[Unit.source].codec = 4 THEN <<"audio.wav", 0>> ELSE <<"normalized.wav", 0>>
       IN  IF VideoAccepted(Unit) /\ AudioAccepted(Unit)
           THEN /\ temp' = IF Has(Unit, "SFA")
                           THEN With(temp, wav, temp[File(Unit, "SFA")]) ELSE temp
                /\ Conversion(IF Has(Unit, "ALP") THEN "color" ELSE "video",
                              {Track("video", File(Unit, "SFV"))} \cup
                                  IF HasAudio(Unit) THEN {Track("audio", wav)} ELSE {},
                              "key", "video-color")
                /\ Write("encode", todo)
           ELSE /\ Fail
                /\ UNCHANGED <<temp, current>>
    /\ UNCHANGED <<demuxVars, job, outVars, found, empties, verdict, wanted, faults>>

WaveFile(u) == <<"wave", u.index>>

\* wav: the blocks must decode with the key.
DecodeWave ==
    /\ At("next", {"wave"})
    /\ IF Unit.good
       THEN /\ temp' = With(temp, WaveFile(Unit), Unit.source)
            /\ Conversion("wave", {Track("audio", WaveFile(Unit))},
                          IF Unit.cues = {} THEN WaveFile(Unit) ELSE <<"cue", Min(Unit.cues)>>,
                          <<"wave", Unit.cues>>)
            /\ Write("encode", todo)
       ELSE /\ Fail
            /\ UNCHANGED <<temp, current>>
    /\ UNCHANGED <<demuxVars, job, outVars, found, empties, verdict, wanted, faults>>

-----------------------------------------------------------------------------
(* A conversion: ffmpeg, validation, Output::add.                          *)

ExtOf == [wave |-> "m4a", color |-> "mp4", video |-> "mp4", alpha |-> "mkv"]

Target == Path(ExtOf[current.role])

\* -fs of ffmpeg: alpha may only take what color has left.
Cap == IF current.role = "alpha" THEN OutputBytes - written ELSE OutputBytes

\* What is missing when the output ends at its cap: only audio, and so little
\* that durations still agree, or more.
Losses == IF \E t \in current.tracks : t.kind = "audio" THEN {"audio tail", "more"} ELSE {"more"}

Encode ==
    /\ stage = "encode"
    /\ \E n \in Sizes :
         /\ wanted' = wanted + n
         /\ \E size \in IF n <= Cap THEN {n} ELSE {Cap, Cap + 1},
               lost \in IF n <= Cap THEN {"nothing"} ELSE Losses :
              output' = With(output, Target,
                             [of |-> {<<t.kind, temp[t.file]>> : t \in current.tracks},
                              size |-> size, lost |-> lost])
    /\ Write("check", todo)
    /\ UNCHANGED <<demuxVars, job, files, written, current, temp, found, empties, verdict,
                   faults>>

SameLength(lost) == lost # "more"

\* validate_media, compare_tracks and check_frames, or those of alpha.
Check ==
    /\ stage = "check"
    /\ IF SameLength(output[Target].lost) THEN Write("keep", todo) ELSE Fail
    /\ UNCHANGED <<demuxVars, job, outVars, current, temp, found, empties, verdict, wanted,
                   faults>>

Keep ==
    /\ stage = "keep"
    /\ LET more == current.role = "color"
       IN  /\ Add(Target, output[Target].size,
                  current.label, current.stable, current.role,
                  IF more THEN todo ELSE Tail(todo), IF more THEN "encode" ELSE "next")
           /\ IF more
              THEN Conversion("alpha", {Track("alpha", File(Unit, "ALP"))}, "key.alpha",
                              "video-alpha")
              ELSE current' = None
           /\ temp' = IF current.role = "wave"
                      THEN [f \in DOMAIN temp \ {WaveFile(Unit)} |-> temp[f]] ELSE temp
    /\ UNCHANGED <<demuxVars, job, output, found, empties, verdict, wanted, faults>>

\* A call of ffmpeg or ffprobe fails.
ToolFails ==
    /\ stage \in {"verify", "encode", "check"}
    /\ Fail
    /\ faults' = TRUE
    /\ UNCHANGED <<demuxVars, job, outVars, current, temp, found, empties, verdict, wanted>>

\* The end of run; worker_entry writes result.json.
Finish ==
    /\ stage = "next" /\ todo = <<>>
    /\ stage' = "result"
    /\ result' = [files |-> IF files # <<>> \/ empties > 0 THEN files ELSE <<>>,
                  error |-> files = <<>> /\ empties = 0,
                  empty |-> files = <<>> /\ empties > 0]
    /\ UNCHANGED <<demuxVars, job, outVars, workVars, verdict, wanted, faults>>

-----------------------------------------------------------------------------
(* The parent.                                                             *)

ResultAccepted ==
    /\ Len(result.files) <= ResultFiles
    /\ ~result.error
    /\ result.files # <<>> \/ result.empty
    /\ \A i \in DOMAIN result.files :
         /\ result.files[i].path \in DOMAIN output
         /\ output[result.files[i].path].size = result.files[i].size
    /\ Total([i \in DOMAIN result.files |-> result.files[i].size]) <= OutputBytes

ReadResult ==
    /\ stage = "result"
    /\ stage' = "ended"
    /\ verdict' = IF ResultAccepted THEN "published" ELSE "failed"
    /\ UNCHANGED <<demuxVars, job, outVars, workVars, result, wanted, faults>>

\* A limit of the worker, its timeout, or its cancellation.  The directory of
\* the worker goes with what is in it.
Killed ==
    /\ stage # "ended"
    /\ stage' = "ended" /\ verdict' = "failed" /\ faults' = TRUE
    /\ Restart("idle")
    /\ todo' = <<>> /\ current' = None /\ files' = <<>> /\ output' = <<>>
    /\ temp' = <<>> /\ found' = <<>> /\ result' = None
    /\ written' = 0 /\ empties' = 0 /\ wanted' = 0
    /\ UNCHANGED job

Next ==
    \/ Begin \/ Convert
    \/ OpenWrapper \/ OpenAtlas \/ OpenAcb \/ Unsupported
    \/ OpenUsm \/ DemuxStep \/ Extracted \/ PrepareVideo \/ DecodeWave
    \/ Encode \/ Check \/ Keep \/ ToolFails
    \/ Finish \/ ReadResult \/ Killed

Spec == Init /\ [][Next]_vars

-----------------------------------------------------------------------------
(* Properties.                                                             *)

\* What a container, and then a unit, has to become.
Contained(u) ==
    IF u.do = "acb"
    THEN [i \in 1..Cardinality(Referenced(u)) |->
            {<<"audio", <<u.source, Nth(Referenced(u), i)>>>>}]
    ELSE <<{<<"video", u.source>>} \cup IF Has(u, "SFA") THEN {<<"audio", u.source>>} ELSE {}>>
         \o IF Has(u, "ALP") THEN << {<<"alpha", u.source>>} >> ELSE <<>>

Inner(u) == IF u.do = "wrapper" THEN u.container ELSE u

Becomes(u) ==
    CASE Inner(u).do \in {"acb", "usm"} -> Contained(Inner(u))
      [] u.do = "atlas" -> [i \in DOMAIN u.sprites |-> {<<u.sprites[i].do, u.sprites[i].id>>}]
      [] OTHER -> << {<<u.do, u.id>>} >>

Expected == FlattenSeq([i \in DOMAIN Units |-> Becomes(Units[i])])

\* Each wave an ACB refers to is one slice of the AWB behind its table, and no
\* byte belongs to two of them.
Sliced(u) ==
    LET bytes(i) == EntryStart(u.awb, i) .. (u.awb.offsets[i + 1] - 1)
    IN  /\ \A w \in Referenced(u) : Cardinality({i \in DOMAIN u.awb.ids : u.awb.ids[i] = w}) = 1
        /\ \A i \in DOMAIN u.awb.ids :
             /\ EntryStart(u.awb, i) <= u.awb.offsets[i + 1]
             /\ bytes(i) \subseteq u.awb.table .. (u.awb.length - 1)
        /\ \A i, j \in DOMAIN u.awb.ids : i # j => bytes(i) \cap bytes(j) = {}

\* What is published is every part of every source in order, each made from its
\* own source and whole, in a file of its own of the size that is recorded,
\* although the conversions of a job share temporary names and one budget and
\* the encoder ends where the budget does.
PublishedIsComplete ==
    verdict = "published" =>
        /\ [i \in DOMAIN files |-> output[files[i].path].of] = Expected
        /\ \A i \in DOMAIN files :
             /\ output[files[i].path].size = files[i].size
             /\ output[files[i].path].lost \in {"nothing", "audio tail"}
             /\ \A j \in DOMAIN files : files[i].path = files[j].path => i = j
        /\ Total([i \in DOMAIN files |-> files[i].size]) <= OutputBytes
        /\ \A i \in DOMAIN Units : Inner(Units[i]).do = "acb" => Sliced(Inner(Units[i]))

Sound(u) ==
    CASE Route(u) \in Direct -> u.good
      [] Route(u) = "acb" -> AcbAccepted(u) /\ \A i \in DOMAIN Waves(u) : Waves(u)[i].good
      [] Route(u) = "usm" ->
           u.source \in DOMAIN found => VideoAccepted(u) /\ AudioAccepted(u)
      [] OTHER -> FALSE

SoundUnit(u) ==
    CASE Route(u) = "split" -> Assembled(u) /\ Sound(u.container)
      [] Route(u) = "embedded" -> Unwrapped(u) /\ Sound(u.container)
      [] Route(u) = "atlas" -> IF u.sprites = <<>> THEN ~u.leftovers
                               ELSE \A i \in DOMAIN u.sprites : Sound(u.sprites[i])
      [] OTHER -> Sound(u)

\* A fault outside of the job, a source that is not sound by itself, or more
\* output than a limit allows.
Reason ==
    \/ faults
    \/ ~JobAccepted \/ phase = "rejected"
    \/ \E i \in DOMAIN Units : ~SoundUnit(Units[i])
    \/ wanted > OutputBytes
    \/ Len(files) = MaxFiles \/ Len(files) > ResultFiles

\* A job fails only for such a reason: never for the order of its sources or for
\* what the conversion of another one left behind, and never because the parent
\* reads the result more strictly than the worker made it.
FailsWithReason == verdict = "failed" => Reason

\* The name of an artifact in a tree, as src/src/tree.rs makes it.
TreeName(f) ==
    CASE f.role = "alpha" -> <<"key", "alpha.mkv">>
      [] f.role \in {"color", "video"} -> <<"key", f.path[2]>>
      [] OTHER -> <<f.label, f.stable, f.path[2]>>

\* "ACB identities use the sorted cue IDs identifying the physical waveform"
\* (docs/EXPORT.md:51): artifacts made from different sources have different
\* names in a tree, which is refused as a whole otherwise.
NamesIdentify ==
    verdict = "published" =>
        \A i, j \in DOMAIN files : TreeName(files[i]) = TreeName(files[j]) =>
            output[files[i].path].of = output[files[j].path].of

=============================================================================
