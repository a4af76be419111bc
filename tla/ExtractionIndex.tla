--------------------------- MODULE ExtractionIndex ---------------------------
(***************************************************************************)
(* What the files database promises to an extraction, with no word about   *)
(* buckets: for every digest, the absolute paths below which files with    *)
(* that content were extracted; for every destination root, whether it is  *)
(* tracked.  Forgetting a root forgets every path below it and nothing     *)
(* else.  pkg/filedb keeps this promise with two bolt indexes (FileDB).    *)
(***************************************************************************)
CONSTANTS Root,         \* extraction destinations
          Rel,          \* paths relative to a destination
          Digest,       \* content digests
          NoDigest,     \* "no digest recorded" / "entry without digest"
          Abs,          \* absolute paths
          Join(_, _)    \* filepath.Join(root, rel)

VARIABLES tracked,      \* roots known to the index
          paths         \* paths[d]: where content d was extracted to

vars == <<tracked, paths>>

Below(root) == {Join(root, p) : p \in Rel}

Batch == [Rel -> Digest \cup {NoDigest}]

Init ==
  /\ tracked = {}
  /\ paths = [d \in Digest |-> {}]

\* A layer's files enter the index; none of them was in it already.
Record(root, batch) ==
  /\ \A p \in Rel : batch[p] # NoDigest => \A d \in Digest : Join(root, p) \notin paths[d]
  /\ tracked' = tracked \cup {root}
  /\ paths' = [d \in Digest |-> paths[d] \cup {Join(root, p) : p \in {q \in Rel : batch[q] = d}}]

Forget(root) ==
  /\ tracked' = tracked \ {root}
  /\ paths' = [d \in Digest |-> paths[d] \ Below(root)]

Next == \E root \in Root : Forget(root) \/ \E batch \in Batch : Record(root, batch)

Spec == Init /\ [][Next]_vars
=============================================================================
