------------------------------- MODULE DeltaLayer -------------------------------
(***************************************************************************)
(* One layer of a delta extraction, from the footer request to the last    *)
(* file: the table of contents is located and read (FetchToC), and if that *)
(* succeeds the missing files are fetched range by range (RangeGroups);    *)
(* otherwise the whole layer is applied (ExtractImage's fallback).         *)
(*                                                                         *)
(* It has the variables of RangeGroups, whose files are the layer's from   *)
(* the start, and its steps with answers as the registry gives them.       *)
(*                                                                         *)
(* Whether the registry honours a range request is never checked.  Where   *)
(* the first ones are ignored neither the footer nor a table is found, and *)
(* no file is fetched; but a request for files may be ignored as well, and *)
(* then they are read from wherever the response begins.                   *)
(***************************************************************************)
EXTENDS RangeGroups, TableOfContents

CONSTANT Layers         \* the layer blobs, with the missing files of their table

ASSUME WordAssumption == Word \in Nat /\ FooterFrameSize \in Nat

\* A size is an int64, what a footer or an annotation says is a uint64.  The table is the payload of a
\* frame, so it has a header before it; the files come before the table.
ASSUME LayersAssumption ==
  \A l \in Layers :
     /\ l.size \in 0 .. Word \div 2 - 1 /\ l.files \in SortedFiles
     /\ \A at \in {l.footer, l.info} \ {NoValue} :
          at.offset \in 0 .. Word - 1 /\ at.comp \in 0 .. Word - 1
     /\ l.toc # NoValue =>
          /\ l.toc.offset \in Nat \ {0} /\ l.toc.comp \in Nat
          /\ l.toc.offset + l.toc.comp + FooterFrameSize <= l.size
     /\ \A i \in 1 .. Len(l.files) :
          l.toc # NoValue /\ l.files[i].offset + l.files[i].size <= l.toc.offset

VARIABLES layer,    \* the layer
          step,     \* "footer", "toc", "delta" or "plain"
          loc,      \* the location found
          honoured, \* whether the Range header of the last request was honoured
          until     \* where in the layer the response being read ends

layerVars == <<layer, step, loc, honoured, until, vars>>

LayerTypeOK ==
  /\ step \in {"footer", "toc", "delta", "plain"}
  /\ honoured \in BOOLEAN /\ until \in Nat
  /\ loc # NoValue => loc.offset \in 0 .. Word - 1 /\ loc.comp \in 0 .. Word - 1
  /\ TypeOK /\ misses = layer.files

-----------------------------------------------------------------------------
\* Each request is answered with its range or without regard to it.
Requested(offset, size, answer) ==
  /\ honoured' \in BOOLEAN
  /\ answer \in Answers(layer, honoured', offset, size)

\* GetToCLocation
FindTOC ==
  /\ step = "footer"
  /\ \E answer \in Responses(layer, layer.size - FooterFrameSize, FooterFrameSize) :
       /\ Requested(layer.size - FooterFrameSize, FooterFrameSize, answer)
       /\ loc' = GetToCLocation(layer, answer)
  /\ step' = IF loc' = NoValue THEN "plain" ELSE "toc"
  /\ UNCHANGED <<layer, until, vars>>

\* A failure means that the layer is applied as a whole.
FetchToC ==
  /\ step = "toc"
  /\ \E answer \in Responses(layer, Int64(loc.offset), Int64(loc.comp)) :
       /\ Requested(Int64(loc.offset), Int64(loc.comp), answer)
       /\ step' = IF ParseTOC(layer, loc, answer) THEN "delta" ELSE "plain"
  /\ UNCHANGED <<layer, loc, until, vars>>

\* The response to a request for files: read from its first byte.
GroupRequested(offset, size) ==
  \E answer \in Responses(layer, offset, size) \ {NoValue} :
     /\ Requested(offset, size, answer)
     /\ Answered(answer.from)
     /\ until' = answer.to

\* Mutant: the request's offset and size are swapped.
FetchGroupMut == g < Len(groups) /\ GroupRequested(groups[g + 1].size, groups[g + 1].start)

\* A request for the next group.
FetchGroup == g < Len(groups) /\ GroupRequested(groups[g + 1].start, groups[g + 1].size)

ExtractFiles ==
  /\ step = "delta"
  /\ \/ FetchGroup
     \/ /\ GroupFile \/ EndGrouping \/ Unanswered \/ DiscardGap \/ Decompressed(until)
           \/ EndRange \/ Finish
        /\ UNCHANGED <<honoured, until>>
  /\ UNCHANGED <<layer, step, loc>>

LayerInit ==
  /\ layer \in Layers
  /\ step = "footer" /\ loc = NoValue
  /\ honoured = FALSE /\ until = 0
  /\ misses = layer.files
  /\ Init

LayerNext == FindTOC \/ FetchToC \/ ExtractFiles

LayerSpec == LayerInit /\ [][LayerNext]_layerVars

(***************************************************************************)
(* A registry, or what is between it and the client, that goes on          *)
(* honouring ranges once it honoured one of the layer's requests.  Nothing *)
(* in the code makes sure of it: the status of a response is not looked at *)
(* (common.go:160).                                                        *)
(***************************************************************************)
Steady == honoured => honoured'

SteadySpec == LayerInit /\ [][LayerNext /\ Steady]_layerVars

-----------------------------------------------------------------------------
(* Properties; ReadsOwnBytes, AllRead and LittleWaste are RangeGroups' *)

(***************************************************************************)
(* The extraction of a layer does what RangeGroups says, where every       *)
(* answer is the bytes asked for: a registry that ignores ranges from the  *)
(* start (common.go:160), or a location that does not fit an int64         *)
(* (common.go:218), ends in the fallback.  Of a registry that goes on as   *)
(* it began (SteadySpec), and of no other.                                 *)
(***************************************************************************)
RangesExact == Spec
=================================================================================
