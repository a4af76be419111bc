----------------------------- MODULE Snapshotter -----------------------------
(***************************************************************************)
(* The overlay snapshotter of containerd as pkg/ocistore uses it, directly *)
(* and not through containerd's metadata store: its snapshots are neither  *)
(* leased nor collected, only Remove takes one away.                       *)
(*                                                                         *)
(* A committed snapshot is named by a chain ID, which is the sequence of   *)
(* layers it stands for; << >> is "no parent".                             *)
(***************************************************************************)
EXTENDS Sequences

CONSTANTS NoImage      \* a snapshot without the image reference label

VARIABLE snaps         \* the snapshots: [key, kind, parent, img]

Snap(key, kind, parent, img) == [key |-> key, kind |-> kind, parent |-> parent, img |-> img]

Keys == {s.key : s \in snaps}
Info(key) == CHOOSE s \in snaps : s.key = key
Exists(key) == key \in Keys
HasChildren(key) == \E s \in snaps : s.parent = key

\* Prepare and View refuse a taken key and a parent that is not there.
CanPrepare(key, parent) == ~Exists(key) /\ (parent = << >> \/ Exists(parent))

Prepare(key, kind, parent, img) == snaps' = snaps \cup {Snap(key, kind, parent, img)}

\* An active snapshot becomes the committed one of that name, on its parent.
CanCommit(name, key) == Info(key).kind = "active" /\ ~Exists(name)

Commit(name, key) ==
  snaps' = (snaps \ {Info(key)}) \cup {Snap(name, "committed", Info(key).parent, NoImage)}

\* Remove fails on a snapshot that has children.
CanRemove(key) == Exists(key) /\ ~HasChildren(key)

Remove(key) == snaps' = {s \in snaps : s.key # key}
==============================================================================
