---------------------------- MODULE DeltaLayerProofs ----------------------------
(***************************************************************************)
(* Proofs about DeltaLayer: it implements RangeGroups, for every layer     *)
(* blob and word size and for every registry that goes on honouring ranges *)
(* once it did (SteadySpec), and so has what is proved of RangeGroups.     *)
(*                                                                         *)
(* An answer that ignores the range starts at the beginning of the layer,  *)
(* where no table of contents is, because a frame header comes before it.  *)
(* So files are only fetched after a request whose range was honoured, and *)
(* the hypothesis says that theirs are too (OnlyRanges); and they are well *)
(* formed, since groups lie in the layer and its size is an int64.         *)
(***************************************************************************)
EXTENDS DeltaLayer, RangeGroupsProofs

\* Files are fetched by ranges only where ranges are honoured, and a response that
\* is read is the range asked for.
OnlyRanges ==
  /\ layer \in Layers /\ honoured \in BOOLEAN /\ until \in Nat /\ misses = layer.files
  /\ step = "delta" => honoured
  /\ phase = "read" => step = "delta" /\ until = End(groups[g])

LayerInv == OnlyRanges /\ Inv

LEMMA Int64Small == ASSUME NEW n \in 0 .. Word \div 2 - 1 PROVE Int64(n) = n
<1>1. Word \div 2 <= Word /\ Word \div 2 \in Nat
  BY WordAssumption
<1>2. n \in Nat /\ n < Word
  BY <1>1, WordAssumption
<1>3. n % Word = n
  BY <1>2, WordAssumption
<1> QED BY <1>1, <1>3 DEF Int64

\* A group lies in its layer.
LEMMA GroupInLayer ==
  ASSUME LayerInv, NEW k \in 1 .. Len(groups)
  PROVE  /\ groups[k].start \in Nat /\ groups[k].size \in Nat \ {0}
         /\ End(groups[k]) <= layer.size
         /\ layer.size \in 0 .. Word \div 2 - 1
<1>1. /\ groups[k] \in Group /\ GroupOK(groups[k]) /\ misses \in SortedFiles
  BY DEF LayerInv, Inv, TypeOK, AllGroupsOK
<1>2. PICK i \in 1 .. Len(misses) : i = groups[k].last /\ End(groups[k]) = FileEnd(i)
  BY <1>1, MissesType DEF GroupOK, Group
<1>3. layer.toc # NoValue /\ FileEnd(i) <= layer.toc.offset
  BY <1>2, LayersAssumption DEF LayerInv, OnlyRanges, FileEnd
<1>4. /\ layer.toc.offset \in Nat /\ layer.toc.comp \in Nat
      /\ layer.toc.offset + layer.toc.comp + FooterFrameSize <= layer.size
      /\ layer.size \in 0 .. Word \div 2 - 1
  BY <1>3, LayersAssumption DEF LayerInv, OnlyRanges
<1>5. End(groups[k]) <= layer.size
  <2>1. FileEnd(i) \in Nat
    BY <1>1, <1>2, MissesType
  <2>2. layer.size \in Int
    BY <1>4, WordAssumption
  <2>3. layer.toc.offset <= layer.size
    BY <1>4, <2>2, WordAssumption
  <2> QED BY <1>2, <1>3, <1>4, <2>1, <2>2, <2>3
<1>6. groups[k].size \in Nat \ {0}
  <2>1. /\ groups[k].first \in 1 .. Len(misses)
        /\ groups[k].first \in groups[k].first .. groups[k].last
        /\ groups[k].start = misses[groups[k].first].offset
        /\ FileEnd(groups[k].first) <= End(groups[k])
    BY <1>1, MissesType DEF GroupOK, Group
  <2>2. /\ misses[groups[k].first].offset \in Nat
        /\ misses[groups[k].first].size \in Nat \ {0}
    BY <1>1, <2>1, MissesType
  <2> QED BY <1>1, <2>1, <2>2 DEF End, FileEnd, Group
<1> QED BY <1>1, <1>4, <1>5, <1>6 DEF Group

\* The only answer to a request for a group that is honoured is the group's bytes.
LEMMA GroupAnswers ==
  ASSUME LayerInv, NEW k \in 1 .. Len(groups),
         NEW answer \in Answers(layer, TRUE, groups[k].start, groups[k].size) \ {NoValue}
  PROVE  answer.from = groups[k].start /\ answer.to = End(groups[k]) /\ End(groups[k]) \in Nat
<1> DEFINE start == groups[k].start
           size == groups[k].size
<1>1. /\ start \in Nat /\ size \in Nat \ {0}
      /\ start + size <= layer.size
      /\ layer.size \in 0 .. Word \div 2 - 1
  BY GroupInLayer DEF End
<1>2. start + size - 1 \in 0 .. Word \div 2 - 1
  <2> HIDE DEF start, size
  <2>1. Word \div 2 \in Nat /\ layer.size \in Nat
    BY <1>1, WordAssumption
  <2> QED BY <1>1, <2>1
<1>3. WellFormed(start, size)
  <2>1. Int64(start + size - 1) = start + size - 1
    BY <1>2, Int64Small
  <2>2. 0 <= start /\ start <= start + size - 1
    BY <1>1
  <2> HIDE DEF start, size
  <2> QED BY <2>1, <2>2 DEF WellFormed
<1>4. answer = [from |-> start, to |-> Min({start + size, layer.size})]
  BY <1>3 DEF Answers
<1>5. Min({start + size, layer.size}) = start + size /\ start + size \in Nat
  <2> HIDE DEF start, size
  <2>1. layer.size \in Int /\ start + size \in Int
    BY <1>1, WordAssumption
  <2> QED BY <1>1, <2>1 DEF Min
<1> QED BY <1>4, <1>5 DEF End

LEMMA LayerInitInv == LayerInit => LayerInv
<1>1. LayerInit => Inv
  BY InitInv DEF LayerInit
<1>2. LayerInit => phase # "read"
  BY DEF LayerInit, Init
<1>3. LayerInit => OnlyRanges
  <2> SUFFICES ASSUME LayerInit PROVE OnlyRanges
    OBVIOUS
  <2>1. layer \in Layers /\ misses = layer.files /\ honoured = FALSE /\ until = 0 /\ step = "footer"
    BY DEF LayerInit
  <2>2. honoured \in BOOLEAN
    BY <2>1
  <2>3. step # "delta" /\ until \in Nat /\ phase # "read"
    BY <1>2, <2>1
  <2> QED BY <2>1, <2>2, <2>3 DEF OnlyRanges
<1> QED BY <1>1, <1>3 DEF LayerInv

\* A request for the next group is answered with that group's bytes.
LEMMA FetchGroupExact ==
  ASSUME LayerInv, step = "delta", Steady, FetchGroup
  PROVE  /\ Answered(groups[g + 1].start)
         /\ honoured' /\ until' = End(groups[g + 1]) /\ until' \in Nat
<1> DEFINE start == groups[g + 1].start
           size == groups[g + 1].size
<1>1. g + 1 \in 1 .. Len(groups)
  BY DEF FetchGroup, LayerInv, Inv, TypeOK
<1>2. PICK answer \in Responses(layer, start, size) \ {NoValue} :
         /\ Requested(start, size, answer)
         /\ Answered(answer.from)
         /\ until' = answer.to
  BY DEF FetchGroup, GroupRequested
<1>3. honoured'
  BY DEF Steady, LayerInv, OnlyRanges
<1>4. honoured' = TRUE
  BY <1>2, <1>3 DEF Requested
<1>5. answer \in Answers(layer, TRUE, start, size) \ {NoValue}
  BY <1>2, <1>4 DEF Requested
<1>6. answer.from = start /\ answer.to = End(groups[g + 1]) /\ End(groups[g + 1]) \in Nat
  BY <1>1, <1>5, GroupAnswers
<1> QED BY <1>2, <1>3, <1>6

\* Every step is one of RangeGroups, or leaves its variables alone.
LEMMA StepMaps == LayerInv /\ [LayerNext /\ Steady]_layerVars => [Next]_vars
<1> SUFFICES ASSUME LayerInv, (LayerNext /\ Steady) \/ UNCHANGED layerVars PROVE [Next]_vars
  OBVIOUS
<1>1. CASE FindTOC \/ FetchToC \/ UNCHANGED layerVars
  BY <1>1 DEF FindTOC, FetchToC, layerVars
<1>2. CASE ExtractFiles /\ Steady
  <2>1. CASE FetchGroup
    <3>1. Answered(groups[g + 1].start)
      BY <1>2, <2>1, FetchGroupExact DEF ExtractFiles
    <3> QED BY <3>1 DEF Next, FetchRange
  <2>2. CASE Decompressed(until)
    <3>1. until = End(groups[g])
      BY <2>2 DEF Decompressed, LayerInv, OnlyRanges
    <3> QED BY <2>2, <3>1 DEF Next, DecompressFile
  <2>3. CASE ~FetchGroup /\ ~Decompressed(until)
    BY <1>2, <2>3 DEF ExtractFiles, Next, FetchRange
  <2> QED BY <2>1, <2>2, <2>3
<1> QED BY <1>1, <1>2 DEF LayerNext

LEMMA OnlyRangesStep == LayerInv /\ [LayerNext /\ Steady]_layerVars => OnlyRanges'
<1> SUFFICES ASSUME LayerInv, (LayerNext /\ Steady) \/ UNCHANGED layerVars PROVE OnlyRanges'
  OBVIOUS
<1> USE DEF LayerInv, OnlyRanges
<1>1. CASE FindTOC
  <2>1. UNCHANGED <<layer, until, vars>> /\ honoured' \in BOOLEAN /\ step = "footer"
        /\ step' \in {"plain", "toc"}
    BY <1>1 DEF FindTOC, Requested
  <2> QED BY <2>1 DEF vars
<1>2. CASE FetchToC
  <2>1. PICK answer \in Responses(layer, Int64(loc.offset), Int64(loc.comp)) :
           /\ Requested(Int64(loc.offset), Int64(loc.comp), answer)
           /\ step' = IF ParseTOC(layer, loc, answer) THEN "delta" ELSE "plain"
    BY <1>2 DEF FetchToC
  <2>2. ASSUME step' = "delta" PROVE honoured'
    <3>1. ParseTOC(layer, loc, answer)
      BY <2>1, <2>2
    <3>2. answer # NoValue /\ layer.toc # NoValue /\ answer.from = layer.toc.offset
      BY <3>1 DEF ParseTOC
    <3>3. answer.from # 0
      BY <3>2, LayersAssumption
    <3>4. answer # Whole(layer)
      BY <3>3 DEF Whole
    <3> QED BY <2>1, <3>2, <3>4 DEF Requested, Answers
  <2>3. UNCHANGED <<layer, until, vars>> /\ step = "toc" /\ honoured' \in BOOLEAN
    BY <1>2, <2>1 DEF FetchToC, Requested
  <2> QED BY <2>2, <2>3 DEF vars
<1>3. CASE ExtractFiles /\ Steady
  <2>1. CASE FetchGroup
    <3>1. /\ Answered(groups[g + 1].start)
          /\ honoured' /\ until' = End(groups[g + 1]) /\ until' \in Nat
      BY <1>3, <2>1, FetchGroupExact DEF ExtractFiles
    <3>2. honoured' \in BOOLEAN
      BY <2>1 DEF FetchGroup, GroupRequested, Requested
    <3>3. UNCHANGED <<layer, step, misses, groups>> /\ g' = g + 1
      BY <1>3, <3>1 DEF ExtractFiles, Answered
    <3> QED BY <1>3, <3>1, <3>2, <3>3 DEF ExtractFiles, End
  <2>2. CASE ~FetchGroup
    <3>1. UNCHANGED <<layer, step, honoured, until>> /\ step = "delta"
      BY <1>3, <2>2 DEF ExtractFiles
    <3>2. misses' = misses /\ (phase' = "read" => phase = "read" /\ UNCHANGED <<groups, g>>)
      BY <1>3, <2>2 DEF ExtractFiles, Unanswered, GroupFile, EndGrouping,
         DiscardGap, Decompressed, EndRange, Finish
    <3> QED BY <3>1, <3>2 DEF End
  <2> QED BY <2>1, <2>2
<1>4. CASE UNCHANGED layerVars
  BY <1>4 DEF layerVars, vars, End
<1> QED BY <1>1, <1>2, <1>3, <1>4 DEF LayerNext

LEMMA LayerInvariance == SteadySpec => []LayerInv
<1>1. LayerInv /\ [LayerNext /\ Steady]_layerVars => LayerInv'
  BY StepMaps, OnlyRangesStep, StepInv DEF LayerInv
<1> QED BY LayerInitInv, <1>1, PTL DEF SteadySpec

-----------------------------------------------------------------------------
(***************************************************************************)
(* Extracting a layer is fetching its missing files with exact answers, or *)
(* does not fetch any, if the registry goes on honouring ranges once it    *)
(* honoured one of the layer's requests (SteadySpec): where it ignores the *)
(* Range header from the start (common.go:160), or the location is odd,    *)
(* the layer is applied as a whole.                                        *)
(***************************************************************************)
THEOREM LayerImplementsRanges == SteadySpec => RangesExact
<1>1. LayerInit => Init
  BY DEF LayerInit
<1> QED BY <1>1, LayerInvariance, StepMaps, PTL DEF SteadySpec, RangesExact, Spec

(***************************************************************************)
(* So every file of a layer is decompressed from its own bytes, whatever   *)
(* the footer and the annotations are like, by the same registries: those  *)
(* that never go back on honouring ranges (SteadySpec).                    *)
(***************************************************************************)
THEOREM LayerReadsOwnBytes == SteadySpec => []ReadsOwnBytes
BY LayerImplementsRanges, FilesReadFromOwnBytes, PTL DEF RangesExact

(***************************************************************************)
(* And a layer whose requests are all answered is extracted completely,    *)
(* from such a registry (SteadySpec).                                      *)
(***************************************************************************)
THEOREM LayerReadsAll == SteadySpec => []AllRead
BY LayerImplementsRanges, EveryFileRead, PTL DEF RangesExact

(***************************************************************************)
(* Nor do its requests fetch more than the threshold's worth between two   *)
(* files that are wanted (chunked_extraction.go:322), as long as ranges    *)
(* that were honoured once are honoured (SteadySpec).                      *)
(***************************************************************************)
THEOREM LayerWastesLittle == SteadySpec => []LittleWaste
BY LayerImplementsRanges, GapsAreSmall, PTL DEF RangesExact

-----------------------------------------------------------------------------
(* The location of the table *)

\* A location that is found is the one in the footer, and a uint64 each.
LEMMA FoundInFooter ==
  ASSUME layer \in Layers, NEW answer, NEW at, at = GetToCLocation(layer, answer), at # NoValue
  PROVE  at.offset \in 0 .. Word - 1 /\ at.comp \in 0 .. Word - 1
<1>1. at = ParseFooterFrame(layer, answer)
  BY DEF GetToCLocation
<1>2. at = Location(layer.footer) /\ layer.footer # NoValue
  BY <1>1 DEF ParseFooterFrame
<1>3. layer.footer.offset \in 0 .. Word - 1 /\ layer.footer.comp \in 0 .. Word - 1
  BY <1>2, LayersAssumption
<1>4. at.offset = layer.footer.offset /\ at.comp = layer.footer.comp
  BY <1>2 DEF Location
<1> QED BY <1>3, <1>4

(***************************************************************************)
(* The steps of a layer's extraction keep their types, whatever the footer *)
(* claims: its offset and length, taken as they are from the wire, remain  *)
(* what a uint64 holds (tocutil.go:161), and the files the missing ones    *)
(* of the table (DeltaLayer.LayerTypeOK).                                  *)
(***************************************************************************)
THEOREM LayerTypeCorrect == SteadySpec => []LayerTypeOK
<1> DEFINE Steps == step \in {"footer", "toc", "delta", "plain"}
           Located == loc # NoValue => loc.offset \in 0 .. Word - 1 /\ loc.comp \in 0 .. Word - 1
<1>1. LayerInit => Steps /\ Located
  BY DEF LayerInit
<1>2. LayerInv /\ Steps /\ Located /\ [LayerNext /\ Steady]_layerVars => Steps' /\ Located'
  <2> SUFFICES ASSUME LayerInv, Steps, Located, LayerNext \/ UNCHANGED layerVars
               PROVE  Steps' /\ Located'
    OBVIOUS
  <2>1. CASE FindTOC
    <3>1. PICK answer : loc' = GetToCLocation(layer, answer)
      BY <2>1 DEF FindTOC
    <3>2. Located'
      BY <3>1, FoundInFooter DEF LayerInv, OnlyRanges
    <3> QED BY <2>1, <3>2 DEF FindTOC
  <2>2. CASE FetchToC
    BY <2>2 DEF FetchToC
  <2>3. CASE ExtractFiles
    BY <2>3 DEF ExtractFiles
  <2>4. CASE UNCHANGED layerVars
    BY <2>4 DEF layerVars
  <2> QED BY <2>1, <2>2, <2>3, <2>4 DEF LayerNext
<1>3. LayerInv /\ Steps /\ Located => LayerTypeOK
  BY DEF LayerInv, OnlyRanges, Inv, LayerTypeOK
<1> QED BY <1>1, <1>2, <1>3, LayerInvariance, PTL DEF SteadySpec
=================================================================================
