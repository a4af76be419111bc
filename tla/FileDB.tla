------------------------------- MODULE FileDB -------------------------------
(***************************************************************************)
(* pkg/filedb: the bolt database in which the delta extractor remembers    *)
(* where the content of every digest was extracted to.                     *)
(*                                                                         *)
(*   checksums/<digest>/<absPath>      keys in "checksums", buckets in     *)
(*                                     "digestBkts"                        *)
(*   roots/<root>/<relPath> = digest   values in "relPaths", buckets in    *)
(*                                     "rootBkts"                          *)
(*                                                                         *)
(* Every exported operation is one bolt transaction: db.Update commits all *)
(* of it or nothing, so each one is one action (a failed transaction       *)
(* changes nothing and is a stuttering step here).                         *)
(***************************************************************************)
CONSTANTS Root,         \* extraction destinations (absolute directories)
          Rel,          \* paths relative to a destination
          Digest,       \* content digests
          NoDigest,     \* the empty digest; also "no value under this key"
          Abs,          \* absolute paths, the keys of a digest bucket
          Join(_, _)    \* filepath.Join(root, relPath)

ASSUME JoinInAbs == \A root \in Root, p \in Rel : Join(root, p) \in Abs
ASSUME NoDigestFresh == NoDigest \notin Digest

VARIABLES checksums,    \* the <<digest, absPath>> keys of the first index
          digestBkts,   \* the digests that have a bucket, empty or not
          rootBkts,     \* the roots that have a bucket
          relPaths      \* relPaths[root][rel]: digest under that key, or NoDigest

vars == <<checksums, digestBkts, rootBkts, relPaths>>

(***************************************************************************)
(* The entries of one RecordAll call: the digest each relative path is     *)
(* recorded under.  NoDigest stands both for a path that is not in the     *)
(* call and for an entry without a digest, which the call skips.  An entry *)
(* has at least one path (the extractor's are files with a name).          *)
(***************************************************************************)
Batch == [Rel -> Digest \cup {NoDigest}]

\* Two roots never share a path: no destination lies inside another one.
RootsDisjoint ==
  \A r1, r2 \in Root, p1, p2 \in Rel :
     Join(r1, p1) = Join(r2, p2) => r1 = r2 /\ p1 = p2

TypeOK ==
  /\ checksums \in SUBSET (Digest \X Abs)
  /\ digestBkts \in SUBSET Digest
  /\ rootBkts \in SUBSET Root
  /\ relPaths \in [Root -> Batch]

-----------------------------------------------------------------------------
(* Queries (db.View transactions) *)

PathsForChecksum(digest) == {a \in Abs : <<digest, a>> \in checksums}

RootExists(root) == root \in rootBkts

-----------------------------------------------------------------------------
(* Updates *)

\* Mutant: entries without a digest are not skipped.
NewKeysMut(root, batch) == {<<batch[p], Join(root, p)>> : p \in Rel}

\* The keys the batch writes into the digest buckets.
NewKeys(root, batch) ==
  {<<batch[p], Join(root, p)>> : p \in {q \in Rel : batch[q] # NoDigest}}

\* Mutant: every layer starts the root bucket anew.
LatestMut(root, batch) == batch

\* The root bucket after the batch: Put overwrites, other keys stay.
Latest(root, batch) ==
  [p \in Rel |-> IF batch[p] # NoDigest THEN batch[p] ELSE relPaths[root][p]]

RecordAll(root, batch) ==
  /\ checksums' = checksums \cup NewKeys(root, batch)
  /\ digestBkts' = digestBkts \cup {k[1] : k \in NewKeys(root, batch)}
  /\ rootBkts' = rootBkts \cup {root}
  /\ relPaths' = [relPaths EXCEPT ![root] = Latest(root, batch)]

\* The keys of the digest buckets that the root bucket leads to.
Facts(root) ==
  {<<relPaths[root][p], Join(root, p)>> : p \in {q \in Rel : relPaths[root][q] # NoDigest}}

\* Mutants: the whole bucket of every digest of the root is deleted; no key is.
LeftMut(root) == {k \in checksums : \A f \in Facts(root) : k[1] # f[1]}
LeftAllMut(root) == checksums

\* The keys that survive RemoveRoot(root).
Left(root) == checksums \ Facts(root)

\* Mutant: every digest bucket RemoveRoot opens is deleted.
EmptiedMut(root) == {k[1] : k \in Facts(root)}

\* The digests of the root whose bucket is left without a key.
Emptied(root) == {k[1] : k \in Facts(root)} \ {k[1] : k \in Left(root)}

RemoveRoot(root) ==
  \/ /\ root \notin rootBkts
     /\ UNCHANGED vars
  \/ /\ root \in rootBkts
     /\ checksums' = Left(root)
     /\ digestBkts' = digestBkts \ Emptied(root)
     /\ rootBkts' = rootBkts \ {root}
     /\ relPaths' = [relPaths EXCEPT ![root] = [p \in Rel |-> NoDigest]]

-----------------------------------------------------------------------------
(***************************************************************************)
(* Two kinds of callers.  The package's API takes any batch at any time.   *)
(* The extractor only records a path once between two RemoveRoot of its    *)
(* root: seenPaths drops a path a higher layer already gave, and a tracked *)
(* destination is refused (module Extraction is checked to be such a       *)
(* caller).                                                                *)
(***************************************************************************)
Init ==
  /\ checksums = {}
  /\ digestBkts = {}
  /\ rootBkts = {}
  /\ relPaths = [root \in Root |-> [p \in Rel |-> NoDigest]]

FreshFor(root, batch) ==
  \A p \in Rel : batch[p] # NoDigest => relPaths[root][p] = NoDigest

Next ==
  \E root \in Root : RemoveRoot(root) \/ \E batch \in Batch : RecordAll(root, batch)

ExtractorNext ==
  \E root \in Root :
     \/ RemoveRoot(root)
     \/ \E batch \in Batch : FreshFor(root, batch) /\ RecordAll(root, batch)

Spec == Init /\ [][Next]_vars
ExtractorSpec == Init /\ [][ExtractorNext]_vars

-----------------------------------------------------------------------------
(* Properties *)

(***************************************************************************)
(* Whatever the callers record, the second index never leads nowhere: a    *)
(* path listed under a root is also found through its digest, so removing  *)
(* one root, or recording over a path, never hides another root's files.   *)
(* (RemoveRoot deletes keys one by one; RecordAll writes both indexes.)    *)
(***************************************************************************)
ReverseCovered == \A root \in Root : Facts(root) \subseteq checksums

(***************************************************************************)
(* A digest has a bucket exactly as long as some path is recorded under    *)
(* it: RemoveRoot's garbage collection leaves no empty bucket behind and   *)
(* never deletes one that another root still uses.                         *)
(***************************************************************************)
NoOrphanDigest == digestBkts = {k[1] : k \in checksums}

(***************************************************************************)
(* The two indexes hold the same facts, and untracked roots hold none:     *)
(* RemoveRoot, which finds what to delete through the second index only,   *)
(* then deletes everything the root ever recorded.                         *)
(***************************************************************************)
IndexesAgree ==
  /\ checksums = UNION {Facts(root) : root \in Root}
  /\ \A root \in Root \ rootBkts : Facts(root) = {}

-----------------------------------------------------------------------------
(* FileDB, used by the extractor, is an ExtractionIndex. *)

Index == INSTANCE ExtractionIndex
           WITH tracked <- rootBkts,
                paths   <- [d \in Digest |-> PathsForChecksum(d)]

(***************************************************************************)
(* Every transaction the extractor runs looks like one step of the         *)
(* abstract index: in particular RemoveRoot, which follows the second      *)
(* index, forgets exactly the paths below the root.                        *)
(***************************************************************************)
ImplementsIndex == Index!Spec
=============================================================================
