--------------------------------- MODULE Plan ---------------------------------
(***************************************************************************)
(* src/src/plan.rs and Catalog::resolve: what an export of a key downloads *)
(* and does with it, decided once for the preflight and for the export;    *)
(* and the checks with which src/src/worker.rs begins to carry it out.     *)
(*                                                                         *)
(* A request is [key, type, id, archive], with Anything where nothing is   *)
(* selected.  The type "texture" stands for all that is previewed without  *)
(* CRI media.                                                              *)
(***************************************************************************)
EXTENDS Catalog

CONSTANTS Requests, Anything

-----------------------------------------------------------------------------
(* resolve.                                                                *)

Selected(r) ==
    SelectSeq(keys[r.key],
              LAMBDA id : r.id \in {Anything, id} /\ r.type \in {Anything, file[id].type})

SameContent(i, j) ==
    /\ file[i].internal = file[j].internal
    /\ file[i].provider = file[j].provider
    /\ file[i].deps = file[j].deps

Resolves(r) ==
    /\ Selected(r) # <<>>
    /\ \A id \in ToSet(Selected(r)) : SameContent(id, Head(Selected(r)))

Target(r) == Head(Selected(r))

-----------------------------------------------------------------------------
(* Plan::build, for a request whose target is start, and its closure, out. *)

\* An alias of a font is a font.
SelectedFont(r) == file[Target(r)].type = "font"  \* broken: aliases are forgotten
Font(r) == \E id \in ToSet(keys[r.key]) : file[id].type = "font"

Archive(r) == r.archive \/ Font(r)

Remote == {id \in out : file[id].remote}
OmittedLocal == out \ Remote

IsCriType(id) == file[id].type = "cri"
Cri(r) == file[Target(r)].provider = "cri" \/ IsCriType(Target(r))

Raw == {id \in Remote : file[id].provider = "cri"}

\* The build fails for ambiguous media.
Unambiguous(r) == Cri(r) /\ ~Archive(r) => Cardinality(Raw) <= 1

Embedded(r) == Cri(r) /\ ~Archive(r) /\ Raw = {}

\* One raw medium needs none of its bundles.
Dependencies(r) == IF Cri(r) /\ ~Archive(r) /\ Raw # {} THEN Raw ELSE Remote

Supported(r) == Archive(r) \/ Cri(r) \/ file[Target(r)].type = "texture"

\* validate
Valid(r) == Supported(r) /\ (Dependencies(r) # {} \/ Font(r))

Disposition(r) ==
    CASE Font(r) /\ Dependencies(r) = {} -> "font-reference"
      [] Font(r) /\ Dependencies(r) # {} -> "font-archive"
      [] ~Font(r) /\ Archive(r) -> "http-container-archive"
      [] OTHER -> "preview"

\* ensure_preflight
Status(r) ==
    CASE Font(r) -> "retained"
      [] ~Font(r) /\ ~Supported(r) -> "unsupported"
      [] ~Font(r) /\ Supported(r) /\ Dependencies(r) = {} -> "unavailable_http"
      [] OTHER -> "remote"

-----------------------------------------------------------------------------
(* The worker's checks of its job.                                         *)

Media(r) ==
    \/ file[Target(r)].provider = "cri"
    \/ IsCriType(Target(r)) /\ \E id \in Dependencies(r) : file[id].provider = "cri"

Inputs(r) == {id \in Dependencies(r) : file[id].provider = "cri"}

WorkerAccepts(r) ==
    /\ Dependencies(r) # {} \/ (Archive(r) /\ Font(r))
    /\ Archive(r) => \A id \in Dependencies(r) : file[id].remote
    /\ ~Archive(r) /\ Media(r) => Cardinality(Inputs(r)) = 1
    /\ ~Archive(r) /\ ~Media(r) => Inputs(r) = {}

-----------------------------------------------------------------------------
(* Properties.                                                             *)

Planned ==
    {r \in Requests :
       phase = "done" /\ error = "none" /\ Resolves(r) /\ Target(r) = start}

\* A plan the preflight calls remote or retained is exactly one that validates,
\* and its worker accepts the inputs: the downloads are not in vain.  Only two
\* kinds of previews are refused that late, of an asset that is no CRI asset but
\* depends on one, and of a CRI location that is not itself downloaded.  Fonts
\* and their aliases are retained, never converted, whatever was selected.
PlansAreCarriedOut ==
    \A r \in Planned : Unambiguous(r) =>
        /\ Valid(r) <=> Status(r) \in {"remote", "retained"}
        /\ Valid(r) =>
             \/ WorkerAccepts(r)
             \/ ~Archive(r) /\ ~Cri(r) /\ Raw # {}
             \/ Embedded(r) /\ file[Target(r)].provider = "cri"
        /\ (\E id \in ToSet(keys[r.key]) : file[id].type = "font") =>
             /\ Disposition(r) \in {"font-reference", "font-archive"}
             /\ Dependencies(r) \cup OmittedLocal = out

=============================================================================
