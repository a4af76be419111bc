----------------------------- MODULE FileDBProofs -----------------------------
(***************************************************************************)
(* What TLAPS proves about the files database, for every set of roots,     *)
(* paths and digests.  Typing and the garbage collection of digest buckets *)
(* need nothing; the two facts that tie the indexes together need          *)
(* destinations that do not overlap (RootsDisjoint), and the refinement    *)
(* also the extractor's discipline of recording a path once.               *)
(***************************************************************************)
EXTENDS FileDB, TLAPS

-----------------------------------------------------------------------------
(* Typing *)

\* A transaction of any caller keeps the four buckets well typed.
LEMMA StepTypeOK ==
  ASSUME TypeOK, Next
  PROVE  TypeOK'
<1>1. ASSUME NEW root \in Root, RemoveRoot(root) PROVE TypeOK'
  <2>1. CASE root \notin rootBkts
    BY <1>1, <2>1 DEF RemoveRoot, TypeOK, vars
  <2>2. CASE root \in rootBkts
    <3>1. [p \in Rel |-> NoDigest] \in Batch
      BY DEF Batch
    <3> QED BY <1>1, <2>2, <3>1 DEF RemoveRoot, Left, TypeOK
  <2> QED BY <2>1, <2>2
<1>2. ASSUME NEW root \in Root, NEW batch \in Batch, RecordAll(root, batch) PROVE TypeOK'
  <2>1. NewKeys(root, batch) \subseteq Digest \X Abs
    BY JoinInAbs DEF NewKeys, Batch
  <2>2. {k[1] : k \in NewKeys(root, batch)} \subseteq Digest
    BY <2>1
  <2>3. Latest(root, batch) \in Batch
    BY DEF Latest, Batch, TypeOK
  <2> QED BY <1>2, <2>1, <2>2, <2>3 DEF RecordAll, TypeOK
<1> QED BY <1>1, <1>2 DEF Next

\* The buckets hold digests, roots and paths of the right kind, whoever calls
\* RecordAll and RemoveRoot.
THEOREM TypeCorrect == Spec => []TypeOK
<1>1. Init => TypeOK
  BY DEF Init, TypeOK, Batch
<1>2. TypeOK /\ [Next]_vars => TypeOK'
  <2>1. CASE UNCHANGED vars BY <2>1 DEF TypeOK, vars
  <2> QED BY <2>1, StepTypeOK
<1> QED BY <1>1, <1>2, PTL DEF Spec

-----------------------------------------------------------------------------
(* Garbage collection of digest buckets *)

\* RemoveRoot deletes exactly the digest buckets it leaves without a key:
\* a digest another path is recorded under keeps its bucket.
THEOREM BucketsFollowKeys == Spec => []NoOrphanDigest
<1>1. Init => NoOrphanDigest
  BY DEF Init, NoOrphanDigest
<1>2. TypeOK /\ NoOrphanDigest /\ [Next]_vars => NoOrphanDigest'
  <2> SUFFICES ASSUME TypeOK, NoOrphanDigest, [Next]_vars PROVE NoOrphanDigest'
    OBVIOUS
  <2>1. CASE UNCHANGED vars
    BY <2>1 DEF NoOrphanDigest, vars
  <2>2. ASSUME NEW root \in Root, NEW batch \in Batch, RecordAll(root, batch)
        PROVE  NoOrphanDigest'
    BY <2>2 DEF RecordAll, NoOrphanDigest
  <2>3. ASSUME NEW root \in Root, RemoveRoot(root) PROVE NoOrphanDigest'
    <3>1. CASE root \notin rootBkts
      BY <2>3, <3>1 DEF RemoveRoot, NoOrphanDigest, vars
    <3>2. CASE root \in rootBkts
      <4>1. checksums' = Left(root) /\ digestBkts' = digestBkts \ Emptied(root)
        BY <2>3, <3>2 DEF RemoveRoot
      <4>2. digestBkts = {k[1] : k \in checksums}
        BY DEF NoOrphanDigest
      <4>3. {k[1] : k \in checksums} \ Emptied(root) = {k[1] : k \in Left(root)}
        BY DEF Emptied, Left
      <4> QED BY <4>1, <4>2, <4>3 DEF NoOrphanDigest
    <3> QED BY <3>1, <3>2
  <2> QED BY <2>1, <2>2, <2>3 DEF Next
<1> QED BY <1>1, <1>2, TypeCorrect, PTL DEF Spec

-----------------------------------------------------------------------------
(* The second index never leads nowhere *)

\* A recorded batch adds its own keys to the root's facts and replaces those
\* of the paths it names; no other root's facts change.
LEMMA FactsAfterRecord ==
  ASSUME TypeOK, NEW root \in Root, NEW batch \in Batch, RecordAll(root, batch)
  PROVE  /\ NewKeys(root, batch) \subseteq Facts(root)'
         /\ Facts(root)' \subseteq Facts(root) \cup NewKeys(root, batch)
         /\ FreshFor(root, batch) => Facts(root) \subseteq Facts(root)'
         /\ \A r \in Root \ {root} : Facts(r)' = Facts(r)
<1>1. \A r \in Root \ {root} : relPaths'[r] = relPaths[r]
  BY DEF RecordAll, TypeOK
<1>2. relPaths'[root] = Latest(root, batch)
  BY DEF RecordAll, TypeOK
<1>3. \A p \in Rel : relPaths'[root][p] =
         IF batch[p] # NoDigest THEN batch[p] ELSE relPaths[root][p]
  BY <1>2 DEF Latest
<1>4. NewKeys(root, batch) \subseteq Facts(root)'
  BY <1>3 DEF NewKeys, Facts
<1>5. Facts(root)' \subseteq Facts(root) \cup NewKeys(root, batch)
  BY <1>3 DEF NewKeys, Facts
<1>6. FreshFor(root, batch) => Facts(root) \subseteq Facts(root)'
  BY <1>3 DEF FreshFor, Facts
<1>7. \A r \in Root \ {root} : Facts(r)' = Facts(r)
  BY <1>1 DEF Facts
<1> QED BY <1>4, <1>5, <1>6, <1>7

\* Removing a tracked root empties its facts and leaves the other roots'.
LEMMA FactsAfterRemove ==
  ASSUME TypeOK, NEW root \in Root, root \in rootBkts, RemoveRoot(root)
  PROVE  /\ Facts(root)' = {}
         /\ \A r \in Root \ {root} : Facts(r)' = Facts(r)
         /\ checksums' = checksums \ Facts(root)
         /\ rootBkts' = rootBkts \ {root}
<1>1. /\ relPaths'[root] = [p \in Rel |-> NoDigest]
      /\ \A r \in Root \ {root} : relPaths'[r] = relPaths[r]
      /\ checksums' = checksums \ Facts(root)
      /\ rootBkts' = rootBkts \ {root}
  BY DEF RemoveRoot, TypeOK, Left
<1>2. Facts(root)' = {}
  BY <1>1 DEF Facts
<1>3. \A r \in Root \ {root} : Facts(r)' = Facts(r)
  BY <1>1 DEF Facts
<1> QED BY <1>1, <1>2, <1>3

\* Destinations that do not overlap share no key.
LEMMA FactsApart ==
  ASSUME RootsDisjoint, NEW r1 \in Root, NEW r2 \in Root, r1 # r2
  PROVE  Facts(r1) \cap Facts(r2) = {}
BY DEF RootsDisjoint, Facts

\* If destinations do not overlap, every path listed under a root is found
\* through its digest, whatever any caller records: RemoveRoot of one root
\* and re-recording of a path never hide a file of another root.
THEOREM ReverseIndexCovered ==
  ASSUME RootsDisjoint
  PROVE  Spec => []ReverseCovered
<1>1. Init => ReverseCovered
  BY DEF Init, ReverseCovered, Facts
<1>2. TypeOK /\ ReverseCovered /\ [Next]_vars => ReverseCovered'
  <2> SUFFICES ASSUME TypeOK, ReverseCovered, [Next]_vars,
                      NEW r \in Root
               PROVE  Facts(r)' \subseteq checksums'
    BY DEF ReverseCovered
  <2>0. Facts(r) \subseteq checksums
    BY DEF ReverseCovered
  <2>1. CASE UNCHANGED vars
    BY <2>0, <2>1 DEF Facts, vars
  <2>2. ASSUME NEW root \in Root, NEW batch \in Batch, RecordAll(root, batch)
        PROVE  Facts(r)' \subseteq checksums'
    <3>1. checksums' = checksums \cup NewKeys(root, batch)
      BY <2>2 DEF RecordAll
    <3>2. Facts(r)' \subseteq Facts(r) \cup NewKeys(root, batch)
      BY <2>2, FactsAfterRecord
    <3> QED BY <2>0, <3>1, <3>2
  <2>3. ASSUME NEW root \in Root, RemoveRoot(root)
        PROVE  Facts(r)' \subseteq checksums'
    <3>1. CASE root \notin rootBkts
      BY <2>0, <2>3, <3>1 DEF RemoveRoot, Facts, vars
    <3>2. CASE root \in rootBkts
      <4>1. /\ Facts(root)' = {}
            /\ r # root => Facts(r)' = Facts(r)
            /\ checksums' = checksums \ Facts(root)
        BY <2>3, <3>2, FactsAfterRemove
      <4>2. r # root => Facts(r) \cap Facts(root) = {}
        BY FactsApart
      <4> QED BY <2>0, <4>1, <4>2
    <3> QED BY <3>1, <3>2
  <2> QED BY <2>1, <2>2, <2>3 DEF Next
<1> QED BY <1>1, <1>2, TypeCorrect, PTL DEF Spec

-----------------------------------------------------------------------------
(* The extractor's use: both indexes hold the same facts *)

\* The extractor is one of the callers of the package.
LEMMA ExtractorIsCaller == ExtractorNext => Next
BY DEF ExtractorNext, Next

\* One extractor transaction keeps the two indexes equal.
LEMMA StepIndexesAgree ==
  ASSUME RootsDisjoint, TypeOK, IndexesAgree, ExtractorNext
  PROVE  IndexesAgree'
<1>1. ASSUME NEW root \in Root, NEW batch \in Batch, FreshFor(root, batch), RecordAll(root, batch)
      PROVE  IndexesAgree'
  <2>1. Facts(root)' = Facts(root) \cup NewKeys(root, batch)
    BY <1>1, FactsAfterRecord
  <2>2. \A r \in Root \ {root} : Facts(r)' = Facts(r)
    BY <1>1, FactsAfterRecord
  <2>3. /\ checksums' = checksums \cup NewKeys(root, batch)
        /\ rootBkts' = rootBkts \cup {root}
    BY <1>1 DEF RecordAll
  <2> QED BY <2>1, <2>2, <2>3 DEF IndexesAgree
<1>2. ASSUME NEW root \in Root, RemoveRoot(root) PROVE IndexesAgree'
  <2>1. CASE root \notin rootBkts
    <3>1. UNCHANGED vars
      BY <1>2, <2>1 DEF RemoveRoot
    <3> QED BY <3>1 DEF IndexesAgree, Facts, vars
  <2>2. CASE root \in rootBkts
    <3>1. /\ Facts(root)' = {}
          /\ \A r \in Root \ {root} : Facts(r)' = Facts(r)
          /\ checksums' = checksums \ Facts(root)
          /\ rootBkts' = rootBkts \ {root}
      BY <1>2, <2>2, FactsAfterRemove
    <3>2. \A r \in Root \ {root} : Facts(r) \cap Facts(root) = {}
      BY FactsApart
    <3> QED BY <3>1, <3>2 DEF IndexesAgree
  <2> QED BY <2>1, <2>2
<1> QED BY <1>1, <1>2 DEF ExtractorNext

\* As the extractor uses it, the database holds every fact in both indexes and
\* none of an untracked root, so RemoveRoot forgets all a root ever recorded.
THEOREM IndexesInStep ==
  ASSUME RootsDisjoint
  PROVE  ExtractorSpec => [](TypeOK /\ IndexesAgree)
<1>1. Init => TypeOK /\ IndexesAgree
  BY DEF Init, TypeOK, Batch, IndexesAgree, Facts
<1>2. TypeOK /\ IndexesAgree /\ [ExtractorNext]_vars => (TypeOK /\ IndexesAgree)'
  <2>1. CASE UNCHANGED vars
    BY <2>1 DEF TypeOK, IndexesAgree, Facts, vars
  <2> QED BY <2>1, ExtractorIsCaller, StepTypeOK, StepIndexesAgree
<1> QED BY <1>1, <1>2, PTL DEF ExtractorSpec

-----------------------------------------------------------------------------
(* FileDB implements ExtractionIndex *)

\* RemoveRoot, which only follows the root's bucket, forgets every path below
\* the root, and RecordAll adds paths that were not there.
LEMMA StepRefines ==
  ASSUME RootsDisjoint, TypeOK, IndexesAgree, ExtractorNext
  PROVE  Index!Next \/ UNCHANGED Index!vars
<1> DEFINE paths == [d \in Digest |-> PathsForChecksum(d)]
<1>0. \A d \in Digest : \A a : a \in paths[d] <=> a \in Abs /\ <<d, a>> \in checksums
  BY DEF PathsForChecksum
<1>1. ASSUME NEW root \in Root, NEW batch \in Batch, FreshFor(root, batch), RecordAll(root, batch)
      PROVE  Index!Record(root, batch)
  <2>1. ASSUME NEW p \in Rel, batch[p] # NoDigest, NEW d \in Digest, <<d, Join(root, p)>> \in checksums
        PROVE  FALSE
    <3>1. PICK r \in Root, q \in Rel :
              relPaths[r][q] # NoDigest /\ <<d, Join(root, p)>> = <<relPaths[r][q], Join(r, q)>>
      BY <2>1 DEF IndexesAgree, Facts
    <3>2. r = root /\ q = p
      BY <3>1 DEF RootsDisjoint
    <3> QED BY <1>1, <2>1, <3>1, <3>2 DEF FreshFor
  <2>2. checksums' = checksums \cup NewKeys(root, batch) /\ rootBkts' = rootBkts \cup {root}
    BY <1>1 DEF RecordAll
  <2>3. ASSUME NEW d \in Digest
        PROVE  PathsForChecksum(d)' = PathsForChecksum(d) \cup {Join(root, p) : p \in {q \in Rel : batch[q] = d}}
    <3>1. \A a : <<d, a>> \in NewKeys(root, batch)
                   <=> a \in {Join(root, p) : p \in {q \in Rel : batch[q] = d}}
      BY NoDigestFresh DEF NewKeys
    <3>2. {Join(root, p) : p \in {q \in Rel : batch[q] = d}} \subseteq Abs
      BY JoinInAbs
    <3> QED BY <2>2, <3>1, <3>2 DEF PathsForChecksum
  <2> QED BY <2>1, <2>2, <2>3, <1>0 DEF Index!Record
<1>2. ASSUME NEW root \in Root, RemoveRoot(root), root \in rootBkts
      PROVE  Index!Forget(root)
  <2>1. checksums' = checksums \ Facts(root) /\ rootBkts' = rootBkts \ {root}
    BY <1>2, FactsAfterRemove
  <2>2. ASSUME NEW d \in Digest, NEW a \in Abs, <<d, a>> \in checksums
        PROVE  <<d, a>> \in Facts(root) <=> a \in {Join(root, p) : p \in Rel}
    <3>1. <<d, a>> \in Facts(root) => a \in {Join(root, p) : p \in Rel}
      BY DEF Facts
    <3>2. ASSUME NEW p \in Rel, a = Join(root, p) PROVE <<d, a>> \in Facts(root)
      <4>1. PICK r \in Root, q \in Rel :
                relPaths[r][q] # NoDigest /\ <<d, a>> = <<relPaths[r][q], Join(r, q)>>
        BY <2>2 DEF IndexesAgree, Facts
      <4>2. r = root /\ q = p
        BY <3>2, <4>1 DEF RootsDisjoint
      <4> QED BY <4>1, <4>2 DEF Facts
    <3> QED BY <3>1, <3>2
  <2>3. ASSUME NEW d \in Digest
        PROVE  PathsForChecksum(d)' = PathsForChecksum(d) \ {Join(root, p) : p \in Rel}
    BY <2>1, <2>2 DEF PathsForChecksum
  <2> QED BY <2>1, <2>3 DEF Index!Forget, Index!Below
<1>3. ASSUME NEW root \in Root, RemoveRoot(root), root \notin rootBkts
      PROVE  UNCHANGED Index!vars
  BY <1>3 DEF RemoveRoot, vars, Index!vars, PathsForChecksum
<1> QED BY <1>1, <1>2, <1>3 DEF ExtractorNext, Index!Next, Batch, Index!Batch

\* The two bolt indexes, as the extractor uses them, are an extraction index:
\* each transaction records fresh paths or forgets exactly a root's paths.
THEOREM FileDBImplementsIndex ==
  ASSUME RootsDisjoint
  PROVE  ExtractorSpec => ImplementsIndex
<1>1. Init => Index!Init
  BY DEF Init, Index!Init, PathsForChecksum
<1>2. TypeOK /\ IndexesAgree /\ [ExtractorNext]_vars => [Index!Next]_(Index!vars)
  <2>1. UNCHANGED vars => UNCHANGED Index!vars
    BY DEF vars, Index!vars, PathsForChecksum
  <2> QED BY <2>1, StepRefines
<1> QED BY <1>1, <1>2, IndexesInStep, PTL DEF ExtractorSpec, ImplementsIndex, Index!Spec
=============================================================================
