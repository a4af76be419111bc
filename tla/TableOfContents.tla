---------------------------- MODULE TableOfContents ----------------------------
(***************************************************************************)
(* pkg/chunked and the range requests of pkg/ocistore: where a layer's     *)
(* table of contents is, and what a registry answers to a range request.   *)
(*                                                                         *)
(* A layer blob is its size, the location its last bytes give (footer),    *)
(* the location its manifest annotates (info), and the table really in it: *)
(* the toc.comp bytes from toc.offset.  Lengths and offsets are the code's *)
(* uint64 and int64.  The annotated checksum is left out, since it refuses *)
(* no table: the location used has no digest (common.go:209).              *)
(***************************************************************************)
EXTENDS Integers, FiniteSetsExt

CONSTANTS FooterFrameSize,  \* 72 bytes
          MaxTOCSize,       \* 150 MiB
          Word,             \* the values of a uint64 are 0 .. Word - 1
          NoValue           \* no footer, annotation, location or answer

\* The code's int64 conversion of a uint64, and its wrapping arithmetic.
Int64(n) == LET u == n % Word IN IF u < Word \div 2 THEN u ELSE u - Word

\* A response is the range of the layer its bytes are from.
Whole(layer) == [from |-> 0, to |-> layer.size]

\* A range is malformed unless it starts at zero or later and ends after that.
WellFormed(offset, size) == 0 <= offset /\ offset <= Int64(offset + size - 1)

(***************************************************************************)
(* What may come back for size bytes from offset: the range cut at the end *)
(* of the layer; the whole layer where the Range header is ignored, or is  *)
(* malformed; an error.  FetchRange does not look at which it got.         *)
(***************************************************************************)
Answers(layer, ranges, offset, size) ==
  {NoValue} \cup
  IF ranges /\ WellFormed(offset, size)
    THEN {[from |-> offset, to |-> Min({offset + size, layer.size})] :
             ok \in {o \in {offset} : o < layer.size}}
    ELSE {Whole(layer)}

\* All that may come back, whether the header is honoured or not.
Responses(layer, offset, size) ==
  Answers(layer, TRUE, offset, size) \cup Answers(layer, FALSE, offset, size)

Location(at) == [offset |-> at.offset, comp |-> at.comp, uncomp |-> at.uncomp]

ParseAnnotations(layer) ==
  IF layer.info = NoValue \/ layer.info.type # 1 THEN NoValue ELSE Location(layer.info)

\* The footer is recognised by its frame header, magic and type.
ParseFooterFrame(layer, answer) ==
  IF /\ answer # NoValue /\ answer.to - answer.from >= FooterFrameSize
     /\ answer.from = layer.size - FooterFrameSize
     /\ layer.footer # NoValue /\ layer.footer.type = 1
    THEN Location(layer.footer)
    ELSE NoValue

\* The annotation is optional, but must not contradict the footer.
GetToCLocation(layer, answer) ==
  LET fLoc == ParseFooterFrame(layer, answer)
  IN IF ParseAnnotations(layer) \in {NoValue, fLoc} THEN fLoc ELSE NoValue

\* The answer has the compressed bytes asked for, and a table is made of them.
ParseTOC(layer, loc, answer) ==
  /\ loc.comp <= MaxTOCSize /\ loc.uncomp <= MaxTOCSize
  /\ answer # NoValue /\ layer.toc # NoValue
  /\ answer.to - answer.from >= loc.comp
  /\ answer.from = layer.toc.offset /\ loc.comp >= layer.toc.comp
================================================================================
