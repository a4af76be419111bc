--------------------------- MODULE RangeGroupsProofs ---------------------------
(***************************************************************************)
(* Proofs about RangeGroups, for every list of files sorted by offset and  *)
(* every threshold.                                                        *)
(*                                                                         *)
(* The inductive invariant says what a group is (GroupOK), that the groups *)
(* follow one another without leaving a file out (Consecutive), where the  *)
(* reader is (Reading) and what has been read (Progress).                  *)
(***************************************************************************)
EXTENDS RangeGroups, TLAPS

FileEnd(i) == misses[i].offset + misses[i].size

\* A group is exactly the bytes of its files and the small gaps between them.
GroupOK(r) ==
  /\ r.first \in 1 .. Len(misses) /\ r.last \in r.first .. Len(misses)
  /\ r.start = misses[r.first].offset
  /\ End(r) = FileEnd(r.last)
  /\ \A i \in r.first .. r.last : FileEnd(i) <= End(r)
  /\ \A i \in r.first + 1 .. r.last : misses[i].offset - FileEnd(i - 1) \in 0 .. GapThreshold

\* The first file after the groups numbered up to k.
After(k) == IF k = 0 THEN 1 ELSE groups[k].last + 1

AllGroupsOK == \A k \in 1 .. Len(groups) : GroupOK(groups[k])

Consecutive ==
  /\ \A k \in 1 .. Len(groups) : groups[k].first = After(k - 1)
  /\ phase = "grouping" =>
       /\ g = 0
       /\ \/ current = None /\ groups = << >> /\ next = 1
          \/ current # None /\ GroupOK(current) /\ current.first = After(Len(groups))
             /\ next = current.last + 1
  /\ phase # "grouping" => After(Len(groups)) = Len(misses) + 1
  /\ g \in 0 .. Len(groups)
  /\ phase = "done" => g = Len(groups)

\* The counted position is the real one, and not beyond the next file.
Reading ==
  phase = "read" =>
    /\ g \in 1 .. Len(groups)
    /\ file \in groups[g].first .. groups[g].last + 1
    /\ counted = stream
    /\ file <= groups[g].last => counted <= misses[file].offset

\* Every file before the next one to read has been read.
Progress ==
  /\ phase = "read" => \A i \in 1 .. file - 1 : readAt[i] # Unread
  /\ phase \in {"request", "done"} => \A i \in 1 .. After(g) - 1 : readAt[i] # Unread

Inv ==
  /\ TypeOK
  /\ AllGroupsOK
  /\ Consecutive
  /\ Reading
  /\ Progress
  /\ ReadsOwnBytes

-----------------------------------------------------------------------------
(* Groups *)

LEMMA MissesType ==
  ASSUME misses \in SortedFiles
  PROVE  /\ Len(misses) \in Nat
         /\ \A i \in 1 .. Len(misses) :
              misses[i].offset \in Nat /\ misses[i].size \in Nat \ {0} /\ FileEnd(i) \in Nat
<1>1. misses \in Seq(File)
  BY DEF SortedFiles
<1>2. Len(misses) \in Nat /\ \A i \in 1 .. Len(misses) : misses[i] \in File
  BY <1>1
<1> QED BY <1>2 DEF File, FileEnd

\* A file on its own is a group.
LEMMA SingleOK ==
  ASSUME misses \in SortedFiles, NEW i \in 1 .. Len(misses)
  PROVE  Single(i) \in Group /\ GroupOK(Single(i)) /\ Single(i) # None
<1>1. /\ misses[i].offset \in Nat /\ misses[i].size \in Nat \ {0}
      /\ FileEnd(i) \in Nat /\ Len(misses) \in Nat
  BY MissesType
<1>2. Single(i) \in Group
  BY <1>1 DEF Single, Group
<1>3. GroupOK(Single(i))
  BY <1>1, ThresholdAssumption DEF Single, GroupOK, End, FileEnd
<1>4. Single(i) # None
  BY <1>1 DEF Single, None
<1> QED BY <1>2, <1>3, <1>4

\* Merging the next file a small gap away gives a group again.
LEMMA MergedOK ==
  ASSUME misses \in SortedFiles, NEW i \in 1 .. Len(misses),
         current \in Group, GroupOK(current), i = current.last + 1,
         Near(i)
  PROVE  /\ Merged(i) \in Group /\ GroupOK(Merged(i)) /\ Merged(i) # None
         /\ Merged(i).first = current.first /\ Merged(i).last = i
<1> DEFINE r == Merged(i)
<1>1. /\ misses[i].offset \in Nat /\ misses[i].size \in Nat \ {0}
      /\ FileEnd(i) \in Nat /\ Len(misses) \in Nat
      /\ current.start \in Nat /\ current.size \in Nat
      /\ current.first \in Nat /\ current.last \in Nat
  BY MissesType DEF Group
<1>2. r.start = current.start /\ r.first = current.first /\ r.last = i
      /\ r.size = misses[i].offset + misses[i].size - current.start
  BY DEF Merged, Group
<1>3. misses[i].offset - End(current) \in 0 .. GapThreshold
  <2>1. Gap(i) >= 0 /\ Gap(i) <= GapThreshold
    BY DEF Near
  <2>2. Gap(i) = misses[i].offset - End(current)
    BY DEF Gap
  <2>3. End(current) \in Nat
    BY <1>1 DEF End
  <2> QED BY <1>1, <2>1, <2>2, <2>3, ThresholdAssumption
<1>4. End(r) = FileEnd(i) /\ End(current) <= FileEnd(i) /\ r.size \in Nat
  <2> DEFINE offset == misses[i].offset
             size == misses[i].size
             start == current.start
             length == current.size
  <2>1. /\ offset \in Nat /\ size \in Nat /\ start \in Nat /\ length \in Nat
        /\ offset >= start + length
    <3>1. offset \in Nat /\ size \in Nat /\ start \in Nat /\ length \in Nat
      BY <1>1
    <3>2. offset - (start + length) >= 0
      BY <1>3, ThresholdAssumption DEF End
    <3> HIDE DEF offset, size, start, length
    <3> QED BY <3>1, <3>2
  <2>2. /\ End(r) = start + (offset + size - start) /\ End(current) = start + length
        /\ FileEnd(i) = offset + size /\ r.size = offset + size - start
    BY <1>2 DEF End, FileEnd
  <2> HIDE DEF offset, size, start, length
  <2> QED BY <2>1, <2>2
<1>5. r \in Group
  <2>1. r = [current EXCEPT !.size = r.size, !.last = r.last]
    BY <1>2 DEF Merged
  <2>2. r.size \in Nat /\ r.last \in Nat
    BY <1>1, <1>2, <1>4
  <2> HIDE DEF r
  <2> QED BY <2>1, <2>2 DEF Group
<1> HIDE DEF r
<1>6. \A k \in r.first .. r.last : FileEnd(k) <= End(r)
  <2> SUFFICES ASSUME NEW k \in r.first .. r.last PROVE FileEnd(k) <= End(r)
    OBVIOUS
  <2>1. CASE k = i
    BY <2>1, <1>1, <1>4
  <2>2. CASE k # i
    <3>1. k \in current.first .. current.last
      BY <2>2, <1>1, <1>2
    <3>2. FileEnd(k) <= End(current)
      BY <3>1, Zenon DEF GroupOK
    <3>3. FileEnd(k) \in Nat /\ End(current) \in Nat
      <4>1. k \in 1 .. Len(misses)
        BY <3>1, <1>1 DEF GroupOK
      <4> QED BY <4>1, <1>1, MissesType DEF End
    <3> QED BY <3>2, <3>3, <1>1, <1>4
  <2> QED BY <2>1, <2>2
<1>7. \A k \in r.first + 1 .. r.last : misses[k].offset - FileEnd(k - 1) \in 0 .. GapThreshold
  <2> SUFFICES ASSUME NEW k \in r.first + 1 .. r.last
               PROVE  misses[k].offset - FileEnd(k - 1) \in 0 .. GapThreshold
    OBVIOUS
  <2>1. CASE k = i
    <3>1. FileEnd(k - 1) = End(current)
      BY <2>1, <1>1 DEF GroupOK
    <3> QED BY <3>1, <2>1, <1>3
  <2>2. CASE k # i
    <3>1. k \in current.first + 1 .. current.last
      BY <2>2, <1>1, <1>2
    <3> QED BY <3>1, Zenon DEF GroupOK
  <2> QED BY <2>1, <2>2
<1>8. /\ r.first \in 1 .. Len(misses) /\ r.last \in r.first .. Len(misses)
      /\ r.start = misses[r.first].offset
  BY <1>1, <1>2 DEF GroupOK
<1>9. GroupOK(r)
  BY <1>2, <1>4, <1>6, <1>7, <1>8 DEF GroupOK
<1>10. r # None
  BY <1>1, <1>2, <1>8 DEF None
<1> QED BY <1>2, <1>5, <1>9, <1>10 DEF r

LEMMA InitInv == Init => Inv
<1> SUFFICES ASSUME Init PROVE Inv
  OBVIOUS
<1>1. Len(misses) \in Nat /\ misses \in SortedFiles
  BY MissesType DEF Init
<1>2. TypeOK
  BY <1>1 DEF Init, TypeOK, None, Group, Unread
<1>3. AllGroupsOK /\ Consecutive /\ Reading /\ Progress
  BY <1>1 DEF Init, AllGroupsOK, Consecutive, Reading, Progress, After
<1>4. ReadsOwnBytes
  BY <1>1 DEF Init, ReadsOwnBytes, SortedFiles
<1> QED BY <1>2, <1>3, <1>4 DEF Inv

-----------------------------------------------------------------------------
(* Grouping *)

LEMMA GroupFileInv == Inv /\ GroupFile => Inv'
<1> SUFFICES ASSUME Inv, GroupFile PROVE Inv'
  OBVIOUS
<1> USE DEF Inv
<1>0. /\ misses \in SortedFiles /\ misses' = misses /\ Len(misses) \in Nat
      /\ next \in 1 .. Len(misses) /\ next' = next + 1
      /\ groups \in Seq(Group) /\ current \in Group
      /\ phase = "grouping" /\ phase' = phase /\ g = 0
      /\ UNCHANGED <<g, file, counted, stream, readAt>>
  BY MissesType DEF GroupFile, TypeOK, Consecutive
<1>1. PICK r \in Group :
        /\ r = current' /\ r # None /\ GroupOK(r) /\ r.last = next
        /\ \/ groups' = groups /\ r.first = After(Len(groups))
           \/ /\ groups' = Append(groups, current)
              /\ GroupOK(current) /\ current.first = After(Len(groups))
              /\ r.first = current.last + 1
  <2>1. CASE current = None
    <3>1. groups' = groups /\ groups = << >> /\ current' = Single(next) /\ next = 1
      BY <2>1 DEF GroupFile, Consecutive, Inv
    <3> QED BY <3>1, <1>0, SingleOK DEF Single, After
  <2>2. CASE current # None /\ Near(next)
    <3>1. groups' = groups /\ current' = Merged(next)
      BY <2>2 DEF GroupFile
    <3>2. GroupOK(current) /\ current.first = After(Len(groups)) /\ next = current.last + 1
      BY <2>2, <1>0 DEF Consecutive
    <3> QED BY <2>2, <3>1, <3>2, <1>0, MergedOK
  <2>3. CASE current # None /\ ~Near(next)
    <3>1. groups' = Append(groups, current) /\ current' = Single(next)
      BY <2>3 DEF GroupFile
    <3>2. GroupOK(current) /\ current.first = After(Len(groups)) /\ next = current.last + 1
      BY <2>3, <1>0 DEF Consecutive
    <3> QED BY <3>1, <3>2, <1>0, SingleOK DEF Single
  <2> QED BY <2>1, <2>2, <2>3
<1>2. groups' \in Seq(Group)
  BY <1>0, <1>1
<1>3. TypeOK'
  BY <1>0, <1>1, <1>2 DEF TypeOK
<1>4. \A k \in 1 .. Len(groups) : groups'[k] = groups[k]
  BY <1>0, <1>1
<1>5. \A q : GroupOK(q)' <=> GroupOK(q)
  BY <1>0 DEF GroupOK, FileEnd, End
<1>6. \A k \in 1 .. Len(groups') :
         /\ GroupOK(groups'[k])
         /\ groups'[k].first = IF k = 1 THEN 1 ELSE groups'[k - 1].last + 1
  <2>1. CASE groups' = groups
    BY <2>1, <1>0 DEF AllGroupsOK, Consecutive, After
  <2>2. CASE groups' = Append(groups, current) /\ GroupOK(current) /\ current.first = After(Len(groups))
    <3> SUFFICES ASSUME NEW k \in 1 .. Len(groups')
                 PROVE  /\ GroupOK(groups'[k])
                        /\ groups'[k].first = IF k = 1 THEN 1 ELSE groups'[k - 1].last + 1
      OBVIOUS
    <3>1. Len(groups') = Len(groups) + 1 /\ groups'[Len(groups) + 1] = current
      BY <2>2, <1>0
    <3>2. CASE k = Len(groups) + 1
      BY <2>2, <3>1, <3>2, <1>0, <1>4 DEF After
    <3>3. CASE k \in 1 .. Len(groups)
      <4>1. groups'[k] = groups[k] /\ GroupOK(groups[k]) /\ groups[k].first = After(k - 1)
        BY <3>3, <1>4 DEF AllGroupsOK, Consecutive
      <4>2. k # 1 => groups'[k - 1] = groups[k - 1]
        BY <3>3, <1>0, <1>4
      <4> QED BY <3>3, <4>1, <4>2, <1>0 DEF After
    <3> QED BY <3>1, <3>2, <3>3, <1>0
  <2> QED BY <1>1, <2>1, <2>2
<1>7. AllGroupsOK'
  BY <1>5, <1>6 DEF AllGroupsOK
<1>8. current'.first = After(Len(groups))'
  <2>1. CASE groups' = groups /\ current'.first = After(Len(groups))
    BY <2>1 DEF After
  <2>2. CASE groups' = Append(groups, current) /\ current'.first = current.last + 1
    <3>1. Len(groups') = Len(groups) + 1 /\ groups'[Len(groups) + 1] = current /\ Len(groups) \in Nat
      BY <2>2, <1>0
    <3> QED BY <2>2, <3>1 DEF After
  <2> QED BY <1>1, <2>1, <2>2
<1>9. Consecutive'
  BY <1>0, <1>1, <1>2, <1>5, <1>6, <1>8 DEF Consecutive, After
<1>10. Reading' /\ Progress' /\ ReadsOwnBytes'
  BY <1>0 DEF Reading, Progress, ReadsOwnBytes
<1> QED BY <1>3, <1>7, <1>9, <1>10

LEMMA EndGroupingInv == Inv /\ EndGrouping => Inv'
<1> SUFFICES ASSUME Inv, EndGrouping PROVE Inv'
  OBVIOUS
<1> USE DEF Inv
<1>0. /\ misses \in SortedFiles /\ misses' = misses /\ Len(misses) \in Nat
      /\ next = Len(misses) + 1
      /\ groups \in Seq(Group) /\ current \in Group /\ current' = None
      /\ phase = "grouping" /\ phase' = "request" /\ g = 0
      /\ UNCHANGED <<next, g, file, counted, stream, readAt>>
  BY MissesType DEF EndGrouping, TypeOK, Consecutive
<1>1. CASE current = None
  <2>1. groups' = groups /\ groups = << >> /\ Len(misses) = 0
    BY <1>0, <1>1 DEF EndGrouping, Consecutive
  <2>2. TypeOK'
    BY <1>0, <2>1 DEF TypeOK, None, Group
  <2> QED BY <1>0, <2>1, <2>2
          DEF AllGroupsOK, Consecutive, Reading, Progress, After, ReadsOwnBytes
<1>2. CASE current # None
  <2>1. /\ groups' = Append(groups, current) /\ GroupOK(current)
        /\ current.first = After(Len(groups)) /\ current.last = Len(misses)
    <3>1. next = current.last + 1 /\ current.last \in Nat
      BY <1>0, <1>2 DEF Consecutive, Group
    <3> QED BY <1>0, <1>2, <3>1 DEF EndGrouping, Consecutive
  <2>2. Len(groups') = Len(groups) + 1 /\ groups'[Len(groups) + 1] = current
        /\ Len(groups) \in Nat /\ \A k \in 1 .. Len(groups) : groups'[k] = groups[k]
    BY <1>0, <2>1
  <2>3. groups' \in Seq(Group)
    BY <1>0, <2>1
  <2>4. TypeOK'
    BY <1>0, <2>3 DEF TypeOK, None, Group
  <2>5. \A q : GroupOK(q)' <=> GroupOK(q)
    BY <1>0 DEF GroupOK, FileEnd, End
  <2>6. AllGroupsOK'
    BY <2>1, <2>2, <2>5 DEF AllGroupsOK
  <2>7. Consecutive'
    <3>1. \A k \in 1 .. Len(groups') : groups'[k].first = After(k - 1)'
      BY <2>1, <2>2 DEF Consecutive, After
    <3>2. After(Len(groups))' = Len(misses) + 1
      BY <2>1, <2>2 DEF After
    <3> QED BY <1>0, <2>2, <3>1, <3>2 DEF Consecutive
  <2>8. Reading' /\ Progress' /\ ReadsOwnBytes'
    BY <1>0 DEF Reading, Progress, After, ReadsOwnBytes
  <2> QED BY <2>4, <2>6, <2>7, <2>8
<1> QED BY <1>1, <1>2

-----------------------------------------------------------------------------
(* Reading *)

\* Without a change to the files and the groups, what is said of them stays.
LEMMA GroupsKept ==
  ASSUME Inv, UNCHANGED <<misses, next, groups, current>>, phase # "grouping",
         phase' # "grouping", g' \in 0 .. Len(groups), phase' = "done" => g' = Len(groups)
  PROVE  AllGroupsOK' /\ Consecutive' /\ \A k : After(k)' = After(k)
BY DEF Inv, AllGroupsOK, GroupOK, FileEnd, End, Consecutive, After

\* The facts about the group being read and its next file.
LEMMA CurrentFile ==
  ASSUME Inv, phase = "read", file <= groups[g].last
  PROVE  /\ groups[g] \in Group /\ GroupOK(groups[g])
         /\ file \in 1 .. Len(misses) /\ misses[file] \in File
         /\ counted = stream /\ stream \in Nat /\ stream <= misses[file].offset
<1>0. /\ g \in 1 .. Len(groups) /\ groups \in Seq(Group)
      /\ file \in groups[g].first .. groups[g].last + 1
      /\ misses \in SortedFiles /\ stream \in Nat
      /\ counted = stream /\ counted <= misses[file].offset
  BY DEF Inv, TypeOK, Reading
<1>1. /\ groups[g] \in Group /\ GroupOK(groups[g])
      /\ file \in groups[g].first .. groups[g].last
      /\ misses \in SortedFiles /\ stream \in Nat
      /\ counted = stream /\ counted <= misses[file].offset
  <2>1. groups[g] \in Group /\ GroupOK(groups[g])
    BY <1>0 DEF Inv, AllGroupsOK
  <2> QED BY <1>0, <2>1 DEF Group
<1>2. Len(misses) \in Nat /\ file \in 1 .. Len(misses)
  BY <1>1, MissesType DEF GroupOK, Group
<1>3. misses \in Seq(File)
  BY <1>1 DEF SortedFiles
<1> QED BY <1>1, <1>2, <1>3

LEMMA FetchRangeInv == Inv /\ FetchRange => Inv'
<1> SUFFICES ASSUME Inv, FetchRange PROVE Inv'
  OBVIOUS
<1>1. CASE Unanswered
  <2>1. /\ UNCHANGED <<misses, next, groups, current, g, file, counted, stream, readAt>>
        /\ phase = "request" /\ phase' = "failed"
    BY <1>1 DEF Unanswered
  <2>2. AllGroupsOK' /\ Consecutive'
    BY <2>1, GroupsKept DEF Inv, Consecutive
  <2> QED BY <2>1, <2>2 DEF Inv, TypeOK, Reading, Progress, ReadsOwnBytes
<1>2. CASE Answered(groups[g + 1].start)
  <2>1. /\ UNCHANGED <<misses, next, groups, current, readAt>>
        /\ phase = "request" /\ phase' = "read" /\ g < Len(groups) /\ g' = g + 1
        /\ file' = groups[g'].first /\ counted' = groups[g'].start /\ stream' = counted'
    BY <1>2 DEF Answered
  <2>2. g \in Nat /\ g' \in 1 .. Len(groups) /\ Len(groups) \in Nat
        /\ groups[g'] \in Group /\ GroupOK(groups[g']) /\ groups[g'].first = After(g)
    BY <2>1 DEF Inv, TypeOK, AllGroupsOK, Consecutive
  <2>3. AllGroupsOK' /\ Consecutive'
    BY <2>1, <2>2, GroupsKept
  <2>4. TypeOK'
    <3>1. g' \in Nat /\ file' \in Nat /\ counted' \in Nat /\ stream' \in Nat
      BY <2>1, <2>2 DEF Group
    <3> QED BY <2>1, <3>1 DEF Inv, TypeOK
  <2>5. Reading'
    <3>1. groups[g'].last \in Nat /\ file' \in groups[g'].first .. groups[g'].last + 1
      BY <2>1, <2>2 DEF GroupOK, Group
    <3>2. counted' = misses[file'].offset /\ misses[file'].offset \in Nat
      BY <2>1, <2>2 DEF GroupOK, Group
    <3> QED BY <2>1, <2>2, <3>1, <3>2 DEF Reading
  <2>6. Progress' /\ ReadsOwnBytes'
    BY <2>1, <2>2 DEF Inv, Progress, ReadsOwnBytes
  <2> QED BY <2>3, <2>4, <2>5, <2>6 DEF Inv
<1> QED BY <1>1, <1>2 DEF FetchRange

LEMMA DiscardGapInv == Inv /\ DiscardGap => Inv'
<1> SUFFICES ASSUME Inv, DiscardGap PROVE Inv'
  OBVIOUS
<1>1. /\ UNCHANGED <<misses, next, groups, current, phase, g, file, readAt>>
      /\ phase = "read" /\ file <= groups[g].last
      /\ stream' = stream + (misses[file].offset - counted)
      /\ counted' = counted + (misses[file].offset - counted)
  BY DEF DiscardGap
<1>2. /\ misses[file].offset \in Nat /\ stream \in Nat /\ counted = stream
  BY <1>1, CurrentFile DEF File
<1>3. stream' = misses[file].offset /\ counted' = stream' /\ stream' \in Nat
  BY <1>1, <1>2
<1>4. AllGroupsOK' /\ Consecutive'
  BY <1>1, GroupsKept DEF Inv, Consecutive
<1>5. TypeOK'
  BY <1>1, <1>3 DEF Inv, TypeOK
<1>6. Reading'
  BY <1>1, <1>3 DEF Inv, Reading
<1>7. Progress' /\ ReadsOwnBytes'
  BY <1>1 DEF Inv, Progress, After, ReadsOwnBytes
<1> QED BY <1>4, <1>5, <1>6, <1>7 DEF Inv

LEMMA DecompressFileInv == Inv /\ DecompressFile => Inv'
<1> SUFFICES ASSUME Inv, DecompressFile PROVE Inv'
  OBVIOUS
<1>0. /\ UNCHANGED <<misses, next, groups, current, g>>
      /\ phase = "read" /\ file <= groups[g].last /\ counted >= misses[file].offset
  BY DEF DecompressFile, Decompressed
<1>1. CASE /\ readAt' = [readAt EXCEPT ![file] = stream]
           /\ stream' = stream + misses[file].size /\ counted' = Advanced(file)
           /\ file' = file + 1 /\ phase' = phase
  <2>1. /\ readAt' = [readAt EXCEPT ![file] = stream]
        /\ stream' = stream + misses[file].size /\ counted' = Advanced(file)
        /\ file' = file + 1 /\ phase' = phase
    BY <1>1
  <2>2. /\ groups[g] \in Group /\ GroupOK(groups[g])
        /\ file \in 1 .. Len(misses) /\ Len(misses) \in Nat
        /\ misses[file].offset \in Nat /\ misses[file].size \in Nat
        /\ counted = stream /\ stream = misses[file].offset
    <3>1. misses \in SortedFiles
      BY DEF Inv, TypeOK
    <3> QED BY <1>0, <3>1, CurrentFile, MissesType DEF File
  <2>3. counted' = stream' /\ stream' = FileEnd(file) /\ stream' \in Nat
    BY <2>1, <2>2 DEF Advanced, FileEnd
  <2>4. AllGroupsOK' /\ Consecutive'
    BY <1>0, <2>1, GroupsKept DEF Inv, Consecutive
  <2>5. readAt \in [1 .. Len(misses) -> Nat \cup {Unread}]
    BY DEF Inv, TypeOK
  <2>6. readAt' \in [1 .. Len(misses) -> Nat \cup {Unread}]
    BY <2>1, <2>2, <2>5
  <2>7. TypeOK'
    <3>1. file' \in Nat /\ counted' \in Nat /\ stream' \in Nat
      BY <2>1, <2>2, <2>3
    <3>2. /\ misses \in SortedFiles /\ next \in 1 .. Len(misses) + 1
          /\ groups \in Seq(Group) /\ current \in Group /\ g \in Nat
      BY DEF Inv, TypeOK
    <3>3. phase' \in {"grouping", "request", "read", "done", "failed"}
      BY <1>0, <2>1
    <3>4. readAt' \in [1 .. Len(misses') -> Nat \cup {Unread}]
      BY <1>0, <2>6
    <3> QED BY <1>0, <3>1, <3>2, <3>3, <3>4, Zenon DEF TypeOK
  <2>8. Reading'
    <3>1. g \in 1 .. Len(groups) /\ file \in groups[g].first .. groups[g].last + 1
      BY <1>0 DEF Inv, Reading
    <3>2. file' \in groups[g].first .. groups[g].last + 1
      <4>1. groups[g].first \in Nat /\ groups[g].last \in Nat /\ file' = file + 1
        BY <2>1, <2>2 DEF Group
      <4> QED BY <1>0, <3>1, <4>1
    <3>3. ASSUME file' <= groups[g].last PROVE counted' <= misses[file'].offset
      <4>1. file' \in groups[g].first + 1 .. groups[g].last /\ file' - 1 = file
        <5>1. groups[g].first \in Nat /\ groups[g].last \in Nat /\ file' = file + 1
          BY <2>1, <2>2 DEF Group
        <5> QED BY <2>2, <3>1, <3>3, <5>1
      <4>2. misses[file'].offset - FileEnd(file) \in 0 .. GapThreshold
        BY <2>2, <4>1 DEF GroupOK
      <4>3. misses[file'].offset \in Nat
        <5>1. file' \in 1 .. Len(misses)
          BY <2>2, <4>1 DEF GroupOK, Group
        <5> QED BY <5>1, MissesType DEF Inv, TypeOK
      <4> QED BY <2>3, <4>2, <4>3, ThresholdAssumption
    <3> QED BY <1>0, <2>1, <2>3, <3>1, <3>2, <3>3 DEF Reading
  <2>9. readAt'[file] = misses[file].offset
        /\ \A i \in 1 .. Len(misses) \ {file} : readAt'[i] = readAt[i]
    BY <2>1, <2>2, <2>5
  <2>10. Progress'
    <3>1. \A i \in 1 .. file - 1 : readAt[i] # Unread
      BY <1>0 DEF Inv, Progress
    <3>2. \A i \in 1 .. file : readAt'[i] # Unread
      BY <2>2, <2>9, <3>1 DEF Unread
    <3>3. file' - 1 = file
      BY <2>1, <2>2
    <3> QED BY <1>0, <2>1, <3>2, <3>3 DEF Progress
  <2>11. ReadsOwnBytes'
    <3>1. DOMAIN misses = 1 .. Len(misses)
      BY DEF Inv, TypeOK, SortedFiles
    <3> QED BY <1>0, <2>9, <3>1 DEF Inv, ReadsOwnBytes
  <2> QED BY <2>4, <2>7, <2>8, <2>10, <2>11 DEF Inv
<1>2. CASE phase' = "failed" /\ UNCHANGED <<readAt, stream, counted, file>>
  <2>1. phase' = "failed" /\ UNCHANGED <<readAt, stream, counted, file>>
    BY <1>2
  <2>2. AllGroupsOK' /\ Consecutive'
    BY <1>0, <2>1, GroupsKept DEF Inv, Consecutive
  <2> QED BY <1>0, <2>1, <2>2 DEF Inv, TypeOK, Reading, Progress, ReadsOwnBytes
<1> QED BY <1>1, <1>2 DEF DecompressFile, Decompressed

LEMMA EndRangeInv == Inv /\ EndRange => Inv'
<1> SUFFICES ASSUME Inv, EndRange PROVE Inv'
  OBVIOUS
<1>1. /\ UNCHANGED <<misses, next, groups, current, g, file, counted, stream, readAt>>
      /\ phase = "read" /\ phase' = "request" /\ file > groups[g].last
  BY DEF EndRange
<1>2. AllGroupsOK' /\ Consecutive' /\ After(g)' = After(g)
  BY <1>1, GroupsKept DEF Inv, Consecutive
<1>3. file = After(g) /\ file \in Nat
  <2>1. g \in 1 .. Len(groups) /\ file \in groups[g].first .. groups[g].last + 1
        /\ groups[g] \in Group /\ file \in Nat
    BY <1>1 DEF Inv, Reading, TypeOK
  <2> QED BY <1>1, <2>1 DEF After, Group
<1>4. TypeOK' /\ Reading' /\ ReadsOwnBytes'
  BY <1>1 DEF Inv, TypeOK, Reading, ReadsOwnBytes
<1>5. Progress'
  BY <1>1, <1>2, <1>3 DEF Inv, Progress
<1> QED BY <1>2, <1>4, <1>5 DEF Inv

LEMMA FinishInv == Inv /\ Finish => Inv'
<1> SUFFICES ASSUME Inv, Finish PROVE Inv'
  OBVIOUS
<1>1. /\ UNCHANGED <<misses, next, groups, current, g, file, counted, stream, readAt>>
      /\ phase = "request" /\ phase' = "done" /\ g = Len(groups)
  BY DEF Finish
<1>2. AllGroupsOK' /\ Consecutive' /\ After(g)' = After(g)
  BY <1>1, GroupsKept DEF Inv, Consecutive
<1> QED BY <1>1, <1>2 DEF Inv, TypeOK, Reading, Progress, ReadsOwnBytes

LEMMA StepInv == Inv /\ [Next]_vars => Inv'
<1>1. Inv /\ UNCHANGED vars => Inv'
  BY DEF vars, Inv, TypeOK, AllGroupsOK, GroupOK, FileEnd, End, Consecutive, After,
         Reading, Progress, ReadsOwnBytes
<1> QED BY <1>1, GroupFileInv, EndGroupingInv, FetchRangeInv, DiscardGapInv, DecompressFileInv,
           EndRangeInv, FinishInv DEF Next

LEMMA Invariance == Spec => []Inv
BY InitInv, StepInv, PTL DEF Spec

-----------------------------------------------------------------------------
(***************************************************************************)
(* The variables keep their types.                                         *)
(***************************************************************************)
THEOREM TypeCorrect == Spec => []TypeOK
<1>1. Inv => TypeOK
  BY DEF Inv
<1> QED BY <1>1, Invariance, PTL

(***************************************************************************)
(* However the files lie, overlapping and equal ranges included, a file is *)
(* only decompressed from its own bytes: counting the bytes read and       *)
(* discarded (chunked_extraction.go:236-251) never loses the position.     *)
(***************************************************************************)
THEOREM FilesReadFromOwnBytes == Spec => []ReadsOwnBytes
<1>1. Inv => ReadsOwnBytes
  BY DEF Inv
<1> QED BY <1>1, Invariance, PTL

(***************************************************************************)
(* No request is too short for the files merged into it, and when all are  *)
(* answered no file is left out (toc_process.go:213-244).                  *)
(***************************************************************************)
THEOREM EveryFileRead == Spec => []AllRead
<1>1. Inv => AllRead
  <2> SUFFICES ASSUME Inv PROVE AllRead
    OBVIOUS
  <2>0. Len(misses) \in Nat /\ DOMAIN misses = 1 .. Len(misses)
    BY MissesType DEF Inv, TypeOK, SortedFiles
  <2>1. phase = "done" => \A i \in DOMAIN misses : readAt[i] # Unread
    <3> SUFFICES ASSUME phase = "done" PROVE \A i \in 1 .. Len(misses) : readAt[i] # Unread
      BY <2>0
    <3>1. After(g) = Len(misses) + 1
      BY DEF Inv, Consecutive
    <3> QED BY <2>0, <3>1 DEF Inv, Progress
  <2>2. phase = "read" => \A i \in groups[g].first .. groups[g].last : FileEnd(i) <= End(groups[g])
    BY DEF Inv, Reading, AllGroupsOK, GroupOK
  <2> QED BY <2>1, <2>2 DEF AllRead, FileEnd
<1> QED BY <1>1, Invariance, PTL

(***************************************************************************)
(* What a request downloads for nothing are gaps between its files, each   *)
(* no longer than the threshold.                                           *)
(***************************************************************************)
THEOREM GapsAreSmall == Spec => []LittleWaste
<1>1. Inv => LittleWaste
  <2> SUFFICES ASSUME Inv PROVE LittleWaste
    OBVIOUS
  <2>1. DOMAIN groups = 1 .. Len(groups)
    BY DEF Inv, TypeOK
  <2> QED BY <2>1 DEF Inv, AllGroupsOK, GroupOK, FileEnd, LittleWaste
<1> QED BY <1>1, Invariance, PTL
================================================================================
