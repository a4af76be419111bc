------------------------------ MODULE RangeGroups ------------------------------
(***************************************************************************)
(* pkg/extractor: fetching the missing files of a chunked layer.           *)
(*                                                                         *)
(* groupMissingFiles walks over the files by ascending offset and merges   *)
(* those a small gap apart into one range request.  Then, range by range,  *)
(* fetchAndApplyBlobRanges reads the files one after another from the      *)
(* response, counting the bytes to know how much of a gap to discard.      *)
(* Every file must be decompressed from exactly its own bytes.             *)
(***************************************************************************)
EXTENDS Integers, Sequences

CONSTANT GapThreshold    \* bytes it is cheaper to download than to skip

ASSUME ThresholdAssumption == GapThreshold \in Nat

\* A file with content has at least one byte.
File == [offset : Nat, size : Nat \ {0}]

\* sort.Slice by offset
SortedFiles ==
  {s \in Seq(File) : \A i, j \in 1 .. Len(s) : i <= j => s[i].offset <= s[j].offset}

VARIABLES misses,   \* the files, misses[1] the one with the lowest offset
          next,     \* the next file to group
          groups,   \* finished groups: [start, size, first, last] over misses
          current,  \* the group under construction, or None
          phase,    \* "grouping", "request", "read", "done" or "failed"
          g,        \* the group being fetched
          file,     \* the file to read next
          counted,  \* currentStreamPos
          stream,   \* offset in the layer of the next byte of the response
          readAt    \* readAt[i]: offset the bytes of file i were read from

vars == <<misses, next, groups, current, phase, g, file, counted, stream, readAt>>

None == [start |-> 0, size |-> 0, first |-> 0, last |-> 0]
Unread == -1

Group == [start : Nat, size : Nat, first : Nat, last : Nat]

End(r) == r.start + r.size

TypeOK ==
  /\ misses \in SortedFiles
  /\ next \in 1 .. Len(misses) + 1
  /\ groups \in Seq(Group) /\ current \in Group
  /\ phase \in {"grouping", "request", "read", "done", "failed"}
  /\ g \in Nat /\ file \in Nat
  /\ counted \in Nat /\ stream \in Nat
  /\ readAt \in [1 .. Len(misses) -> Nat \cup {Unread}]

-----------------------------------------------------------------------------
(* groupMissingFiles *)

\* The group of file i alone.
Single(i) == [start |-> misses[i].offset, size |-> misses[i].size, first |-> i, last |-> i]

\* Mutant: the gap is measured from the start of the group.
GapMut(i) == misses[i].offset - current.start

\* Bytes between the group and file i; negative when they overlap.
Gap(i) == misses[i].offset - End(current)

\* Mutants: start and end swapped; the range is not extended.
MergedMut(i) ==
  [current EXCEPT !.size = current.start - (misses[i].offset + misses[i].size), !.last = i]
MergedLastMut(i) == [current EXCEPT !.last = i]

\* The group extended to the end of file i.
Merged(i) ==
  [current EXCEPT !.size = misses[i].offset + misses[i].size - current.start, !.last = i]

Near(i) == Gap(i) >= 0 /\ Gap(i) <= GapThreshold

GroupFile ==
  /\ phase = "grouping" /\ next <= Len(misses)
  /\ \/ /\ current = None
        /\ current' = Single(next)
        /\ UNCHANGED groups
     \/ /\ current # None /\ Near(next)
        /\ current' = Merged(next)
        /\ UNCHANGED groups
     \/ /\ current # None /\ ~Near(next)
        /\ groups' = Append(groups, current)
        /\ current' = Single(next)
  /\ next' = next + 1
  /\ UNCHANGED <<misses, phase, g, file, counted, stream, readAt>>

EndGrouping ==
  /\ phase = "grouping" /\ next > Len(misses)
  /\ groups' = IF current = None THEN groups ELSE Append(groups, current)
  /\ current' = None
  /\ phase' = "request"
  /\ UNCHANGED <<misses, next, g, file, counted, stream, readAt>>

-----------------------------------------------------------------------------
(* fetchAndApplyBlobRanges *)

\* The response's bytes start at offset from of the layer.
Answered(from) ==
  /\ phase = "request" /\ g < Len(groups)
  /\ g' = g + 1
  /\ file' = groups[g'].first
  /\ counted' = groups[g'].start
  /\ stream' = from
  /\ phase' = "read"
  /\ UNCHANGED <<misses, next, groups, current, readAt>>

Unanswered ==
  /\ phase = "request" /\ g < Len(groups)
  /\ phase' = "failed"
  /\ UNCHANGED <<misses, next, groups, current, g, file, counted, stream, readAt>>

\* The registry honours the range, or the request fails.
FetchRange == Answered(groups[g + 1].start) \/ Unanswered

\* io.CopyN(io.Discard, rc, gap)
DiscardGap ==
  /\ phase = "read" /\ file <= groups[g].last
  /\ counted < misses[file].offset
  /\ LET gap == misses[file].offset - counted
     IN /\ stream' = stream + gap
        /\ counted' = counted + gap
  /\ UNCHANGED <<misses, next, groups, current, phase, g, file, readAt>>

\* Mutant: only gaps are counted.
AdvancedMut(i) == counted

\* The position after file i.
Advanced(i) == counted + misses[i].size

\* decompressFile consumes the file's whole range of a response that has bytes
\* up to end, or fails: the response is too short, or what it has is no frame.
Decompressed(end) ==
  /\ phase = "read" /\ file <= groups[g].last
  /\ counted >= misses[file].offset
  /\ \/ /\ stream + misses[file].size <= end
        /\ readAt' = [readAt EXCEPT ![file] = stream]
        /\ stream' = stream + misses[file].size
        /\ counted' = Advanced(file)
        /\ file' = file + 1
        /\ UNCHANGED phase
     \/ /\ phase' = "failed"
        /\ UNCHANGED <<readAt, stream, counted, file>>
  /\ UNCHANGED <<misses, next, groups, current, g>>

DecompressFile == Decompressed(End(groups[g]))

EndRange ==
  /\ phase = "read" /\ file > groups[g].last
  /\ phase' = "request"
  /\ UNCHANGED <<misses, next, groups, current, g, file, counted, stream, readAt>>

Finish ==
  /\ phase = "request" /\ g = Len(groups)
  /\ phase' = "done"
  /\ UNCHANGED <<misses, next, groups, current, g, file, counted, stream, readAt>>

Init ==
  /\ misses \in SortedFiles
  /\ next = 1
  /\ groups = << >> /\ current = None
  /\ phase = "grouping"
  /\ g = 0 /\ file = 0 /\ counted = 0 /\ stream = 0
  /\ readAt = [i \in 1 .. Len(misses) |-> Unread]

Next ==
  \/ GroupFile \/ EndGrouping
  \/ FetchRange \/ DiscardGap \/ DecompressFile \/ EndRange \/ Finish

Spec == Init /\ [][Next]_vars

-----------------------------------------------------------------------------
(* Properties *)

(***************************************************************************)
(* A file is only decompressed from its own bytes of the layer, whatever   *)
(* was merged or discarded before it.                                      *)
(***************************************************************************)
ReadsOwnBytes == \A i \in DOMAIN misses : readAt[i] \in {Unread, misses[i].offset}

(***************************************************************************)
(* Requests are never too short for their files, so a layer whose requests *)
(* are all answered is extracted without a file left out.                  *)
(***************************************************************************)
AllRead ==
  /\ phase = "done" => \A i \in DOMAIN misses : readAt[i] # Unread
  /\ phase = "read" => \A i \in groups[g].first .. groups[g].last :
                          misses[i].offset + misses[i].size <= End(groups[g])

(***************************************************************************)
(* The bytes downloaded for nothing in a request are the gaps between its  *)
(* files, none longer than the threshold (toc_process.go:210).             *)
(***************************************************************************)
LittleWaste ==
  \A k \in DOMAIN groups : \A i \in groups[k].first + 1 .. groups[k].last :
     misses[i].offset - (misses[i - 1].offset + misses[i - 1].size) \in 0 .. GapThreshold
===============================================================================
