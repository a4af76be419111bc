-------------------------------- MODULE Store --------------------------------
(***************************************************************************)
(* pkg/ocistore: the life of images and snapshots under the commands of    *)
(* the CLI.  The metadata database is locked by the process that opened    *)
(* it, so commands run one after the other; but each is a sequence of      *)
(* steps on two stores without a transaction over both, every step may     *)
(* fail, and the process may be killed between any two of them.            *)
(*                                                                         *)
(* An image is the sequence of its layers (its diff IDs); its chain ID is  *)
(* that sequence, and the chain IDs of its lower layers are its prefixes.  *)
(* Content blobs are left out: a stored image has all of its content.      *)
(* What is mounted where is the kernel's: a mount is its snapshot here.    *)
(***************************************************************************)
EXTENDS Integers, Sequences, SequencesExt

CONSTANTS Name,          \* image references
          NoImage,       \* no image under this reference; no image label
          Remote,        \* the images that can be pulled
          Archives,      \* the archives: sequences of [name, chain]
          Layer,         \* the diffs a commit may produce
          Key,           \* snapshot keys of mounts
          NoKey,         \* the command has no key
          Unique,        \* the keys the unpacker makes up: bounds those a kill leaks
          MaxLayers,     \* bound on the layers of a committed image
          MovingTags     \* whether a reference moves while its image is mounted

ASSUME NoImageAssumption == NoImage \notin Name

ASSUME MaxLayersAssumption == MaxLayers \in Nat

Chain == UNION {[1..n -> Layer] : n \in 0 .. MaxLayers}

ASSUME RemoteAssumption == Remote \subseteq Chain

\* An archive has images; nothing keeps it from having several of one name.
ASSUME ArchivesAssumption ==
  \A imgs \in Archives : imgs \in Seq([name : Name, chain : Chain]) /\ imgs # << >>

\* Neither users nor the unpacker take a chain ID or a key of the other as a key.
ASSUME KeysAssumption == Key \cap Unique = {} /\ (Key \cup Unique) \cap Chain = {}

VARIABLES images,        \* images[name]: the image's layers, or NoImage
          snaps,         \* the snapshots (module Snapshotter)
          pc,            \* the next step of the command, "ok" when it succeeded, or "idle"
          cmd            \* the command, its local variables

vars == <<images, snaps, pc, cmd>>

SN == INSTANCE Snapshotter

\* Mutant: the layers are counted from zero.
FirstLayerMut == 0

FirstLayer == 1

\* chain: the layers; at, tmp: the layer to unpack and the unpacker's key for it;
\* walk, depth: the snapshot to remove next and how many more below it;
\* imgs, nth: the images of the archive and the one at hand; errs: some were not deleted.
Command(op, name, chain, key, unpack) ==
  [op |-> op, name |-> name, chain |-> chain, key |-> key, unpack |-> unpack,
   kind |-> "active", at |-> FirstLayer, tmp |-> NoKey, walk |-> key, depth |-> -1,
   imgs |-> << >>, nth |-> 1, errs |-> FALSE]

NoCommand == Command("none", NoImage, << >>, NoKey, FALSE)

Steps == {"store", "unpack", "apply", "extra", "prepare", "mount", "remove", "drop",
          "commit", "image"}

TypeOK ==
  /\ images \in [Name -> Chain \cup {NoImage}]
  /\ \A s \in snaps : /\ s.kind \in {"active", "view", "committed"}
                      /\ s.parent \in Chain
                      /\ s.img \in Name \cup {NoImage}
  /\ \A s, t \in snaps : s.key = t.key => s = t
  /\ pc \in Steps \cup {"idle", "ok"}
  /\ cmd.op \in {"none", "pull", "import", "single", "unpack", "mount", "umount", "commit",
                  "delete"}
  /\ cmd.chain \in Chain /\ cmd.at \in 1 .. MaxLayers + 1
  /\ cmd.nth \in 1 .. Len(cmd.imgs) + 1

-----------------------------------------------------------------------------
(* Starting, ending and failing *)

Start(c, step) == pc = "idle" /\ cmd' = c /\ pc' = step

Goto(step) == pc' = step /\ UNCHANGED cmd

\* The end of the process, and of what its command knew.
Exit == pc' = "idle" /\ cmd' = NoCommand

Succeed == Goto("ok")

\* A command that fails before it has changed anything is no step at all.
Fail == Exit

Finish ==
  /\ pc = "ok"
  /\ Exit
  /\ UNCHANGED <<images, snaps>>

\* The reference may get this image: no mount of another one refers to it.
MayName(name, chain, mounts) ==
  MovingTags \/ \A s \in mounts : s.img = name => s.parent = chain

\* isUnpacked looks for the snapshot of the whole chain only.
IsUnpacked(name) == SN!Exists(images[name])

-----------------------------------------------------------------------------
(* Pull, Unpack *)

\* The content arrives and the reference is created or updated.
Pull(name, chain, unpack) ==
  /\ MayName(name, chain, snaps)
  /\ images' = [images EXCEPT ![name] = chain]
  /\ Start(Command("pull", name, chain, NoKey, unpack), IF unpack THEN "unpack" ELSE "ok")
  /\ UNCHANGED snaps

Unpack(name) ==
  /\ images[name] # NoImage
  /\ Start(Command("unpack", name, images[name], NoKey, TRUE),
           IF IsUnpacked(name) THEN "ok" ELSE "unpack")
  /\ UNCHANGED <<images, snaps>>

Layers(n) == SubSeq(cmd.chain, 1, n)

\* Mutant: the unpacker asks for the chain of the layer below.
PresentMut == cmd.at > 1 /\ SN!Exists(Layers(cmd.at - 1))

\* The unpacker skips a layer whose chain is there.
Present == SN!Exists(Layers(cmd.at))

\* The n-th image of the archive is next.
Turn(n, step) ==
  /\ cmd' = [cmd EXCEPT !.nth = n, !.at = FirstLayer, !.tmp = NoKey, !.name = cmd.imgs[n].name,
                        !.chain = cmd.imgs[n].chain, !.walk = cmd.imgs[n].chain]
  /\ pc' = step

\* All images of the archive are handled; SingleImportFile keeps the first one.
Imported ==
  \/ /\ cmd.op = "single" /\ Len(cmd.imgs) > 1
     /\ Turn(2, "extra")
  \/ /\ cmd.op = "single" => Len(cmd.imgs) = 1
     /\ Succeed

FromArchive == cmd.op \in {"import", "single"}

\* An image is unpacked, or it failed and its error is collected.
UnpackNext ==
  \/ /\ cmd.nth < Len(cmd.imgs)
     /\ Turn(cmd.nth + 1, "unpack")
  \/ /\ cmd.nth = Len(cmd.imgs)
     /\ Imported

UnpackFails == IF FromArchive THEN UnpackNext ELSE Fail

Unpacked ==
  IF FromArchive THEN UnpackNext
  ELSE IF cmd.op = "mount" THEN Goto("prepare") ELSE Succeed

\* The unpacker prepares a snapshot for the next layer on the ones below.
UnpackLayer ==
  /\ pc = "unpack"
  /\ \/ /\ cmd.at > Len(cmd.chain)
        /\ Unpacked
        /\ UNCHANGED snaps
     \/ /\ cmd.at <= Len(cmd.chain) /\ Present
        /\ cmd' = [cmd EXCEPT !.at = @ + 1]
        /\ UNCHANGED <<snaps, pc>>
     \/ /\ cmd.at <= Len(cmd.chain) /\ ~Present
        /\ \E key \in Unique :
              /\ SN!CanPrepare(key, Layers(cmd.at - 1))
              /\ SN!Prepare(key, "active", Layers(cmd.at - 1), NoImage)
              /\ cmd' = [cmd EXCEPT !.tmp = key]
        /\ pc' = "apply"
     \/ /\ UnpackFails
        /\ UNCHANGED snaps
  /\ UNCHANGED images

\* The layer is applied and committed, or its snapshot given up.
ApplyLayer ==
  /\ pc = "apply"
  /\ \/ /\ SN!Commit(Layers(cmd.at), cmd.tmp)
        /\ cmd' = [cmd EXCEPT !.at = @ + 1, !.tmp = NoKey]
        /\ pc' = "unpack"
     \/ /\ SN!Remove(cmd.tmp)
        /\ UnpackFails
  /\ UNCHANGED images

-----------------------------------------------------------------------------
(* ImportFile and SingleImportFile of an archive *)

Import(op, imgs, unpack) ==
  /\ \A i \in 1 .. Len(imgs) : MayName(imgs[i].name, imgs[i].chain, snaps)
  /\ Start([Command(op, NoImage, << >>, NoKey, unpack) EXCEPT !.imgs = imgs], "store")
  /\ UNCHANGED <<images, snaps>>

\* The images are stored one by one.  If that fails, those stored stay, Import
\* logs it and returns none, SingleImportFile has none to return.
StoreImage ==
  /\ pc = "store"
  /\ \/ /\ cmd.nth <= Len(cmd.imgs)
        /\ LET img == cmd.imgs[cmd.nth]
           IN images' = [images EXCEPT ![img.name] = img.chain]
        /\ cmd' = [cmd EXCEPT !.nth = @ + 1]
        /\ UNCHANGED pc
     \/ /\ cmd.nth > Len(cmd.imgs)
        /\ IF cmd.unpack THEN Turn(1, "unpack") ELSE Imported
        /\ UNCHANGED images
     \/ /\ cmd.nth <= Len(cmd.imgs)
        /\ IF cmd.op = "import" THEN Succeed ELSE Fail
        /\ UNCHANGED images
  /\ UNCHANGED snaps

\* Mutant: an image that could not be deleted is only logged.
DeleteErrorsMut(failed) == FALSE

DeleteErrors(failed) == cmd.errs \/ failed

\* One of the images is deleted, or not: the next one, at last also the first one
\* if one was not.
DeleteNext(failed) ==
  LET errs == DeleteErrors(failed)
      Next(n) == /\ cmd' = [cmd EXCEPT !.nth = n, !.errs = errs, !.name = cmd.imgs[n].name]
                 /\ pc' = "extra"
  IN \/ cmd.nth = 1 /\ Fail
     \/ cmd.nth > 1 /\ cmd.nth < Len(cmd.imgs) /\ Next(cmd.nth + 1)
     \/ cmd.nth > 1 /\ cmd.nth = Len(cmd.imgs) /\ errs /\ Next(1)
     \/ cmd.nth > 1 /\ cmd.nth = Len(cmd.imgs) /\ ~errs /\ Succeed

\* delete gets the image by its name, as the store has it now.
DeleteExtra ==
  /\ pc = "extra"
  /\ \/ /\ images[cmd.name] # NoImage
        /\ cmd' = [cmd EXCEPT !.chain = images[cmd.name], !.walk = images[cmd.name]]
        /\ pc' = IF IsUnpacked(cmd.name) THEN "remove" ELSE "drop"
     \/ DeleteNext(TRUE)
  /\ UNCHANGED <<images, snaps>>

-----------------------------------------------------------------------------
(* Mount and MountFromScratch (name = NoImage), Umount *)

Mount(name, key, kind, unpack) ==
  LET img == IF name = NoImage THEN << >> ELSE images[name]
  IN /\ img # NoImage
     /\ name = NoImage => kind = "active" /\ ~unpack
     /\ Start([Command("mount", name, img, key, unpack) EXCEPT !.kind = kind],
              IF unpack THEN "unpack" ELSE "prepare")
     /\ UNCHANGED <<images, snaps>>

\* A snapshot that has the key already is used as it is.  Failing is a panic for a
\* mount from scratch: logging the error dereferences the nil image.
PrepareMount ==
  /\ pc = "prepare"
  /\ \/ /\ SN!CanPrepare(cmd.key, cmd.chain)
        /\ SN!Prepare(cmd.key, cmd.kind, cmd.chain, cmd.name)
        /\ Goto("mount")
     \/ /\ SN!Exists(cmd.key)
        /\ Goto("mount")
        /\ UNCHANGED snaps
     \/ /\ Fail
        /\ UNCHANGED snaps
  /\ UNCHANGED images

\* If mounting fails the snapshot is removed, also one that was there before.
MountTarget ==
  /\ pc = "mount"
  /\ \/ /\ Succeed
        /\ UNCHANGED snaps
     \/ /\ SN!Remove(cmd.key)
        /\ Fail
  /\ UNCHANGED images

\* Mutant: the number of snapshots to remove is passed on as it is.
DepthMut(removeSnap) == removeSnap

\* The levels to remove below the first one; all of them if negative.
Depth(removeSnap) == IF removeSnap > 0 THEN removeSnap - 1 ELSE -1

\* removeSnap: 0 nothing, 1 the active snapshot, -1 the whole chain.
Umount(key, removeSnap) ==
  /\ LET c == [Command("umount", NoImage, << >>, key, FALSE) EXCEPT !.depth = Depth(removeSnap)]
     IN Start(c, IF removeSnap = 0 THEN "ok" ELSE "remove")
  /\ UNCHANGED <<images, snaps>>

-----------------------------------------------------------------------------
(* Commit *)

\* Mutant: the base image's layers are left out.
CommittedMut(key, layer) == <<layer>>

\* The layers of the image the snapshot is labelled with, and the diff.
Committed(key, layer) ==
  LET img == SN!Info(key).img
  IN IF img = NoImage THEN <<layer>> ELSE Append(images[img], layer)

\* The mounts that keep their reference: the committed one loses it with its key.
Remaining(chain, key) ==
  IF SN!CanCommit(chain, key) THEN snaps \ {SN!Info(key)} ELSE snaps

\* Without the base image, or a diff, nothing happens.
Commit(key, name, layer) ==
  /\ SN!Exists(key)
  /\ SN!Info(key).img # NoImage => images[SN!Info(key).img] # NoImage
  /\ Len(Committed(key, layer)) <= MaxLayers
  /\ MayName(name, Committed(key, layer), Remaining(Committed(key, layer), key))
  /\ Start(Command("commit", name, Committed(key, layer), key, TRUE), "commit")
  /\ UNCHANGED <<images, snaps>>

\* applyDiffLayer: a chain that is there already is kept, and the key with it.
\* A view cannot have the diff applied.
CommitSnapshot ==
  /\ pc = "commit"
  /\ \/ /\ SN!CanCommit(cmd.chain, cmd.key)
        /\ SN!Commit(cmd.chain, cmd.key)
        /\ Goto("image")
     \/ /\ SN!Exists(cmd.chain) /\ SN!Info(cmd.key).kind = "active"
        /\ Goto("image")
        /\ UNCHANGED snaps
     \/ /\ Fail
        /\ UNCHANGED snaps
  /\ UNCHANGED images

\* Config and manifest are written, the image updated or created.
CommitImage ==
  /\ pc = "image"
  /\ \/ /\ images' = [images EXCEPT ![cmd.name] = cmd.chain]
        /\ Goto("unpack")
     \/ /\ Fail
        /\ UNCHANGED images
  /\ UNCHANGED snaps

-----------------------------------------------------------------------------
(* Delete, and the walk it shares with Umount *)

Delete(name) ==
  /\ images[name] # NoImage
  /\ LET c == [Command("delete", name, images[name], NoKey, FALSE) EXCEPT !.walk = images[name]]
     IN Start(c, IF IsUnpacked(name) THEN "remove" ELSE "drop")
  /\ UNCHANGED <<images, snaps>>

\* delete is over, for its own command or for SingleImportFile.
Deleted(failed) ==
  IF cmd.op = "single" THEN DeleteNext(failed)
  ELSE IF failed THEN Fail ELSE Succeed

Walked == IF cmd.op = "umount" THEN Succeed ELSE Goto("drop")

WalkFails == IF cmd.op = "umount" THEN Fail ELSE Deleted(TRUE)

\* Mutant: the test on depth is for "no more than one", so -1 stops too.
WalkEndsMut(info) == info.parent = << >> \/ cmd.depth < 1

\* The walk ends with the chain, or after depth more levels.
WalkEnds(info) == info.parent = << >> \/ cmd.depth = 0

\* removeSnapshotsChain: up the parents, until one is missing or has children.
RemoveSnapshot ==
  /\ pc = "remove"
  /\ \/ /\ ~SN!CanRemove(cmd.walk)
        /\ Walked
        /\ UNCHANGED snaps
     \/ /\ SN!CanRemove(cmd.walk)
        /\ SN!Remove(cmd.walk)
        /\ LET info == SN!Info(cmd.walk)
           IN IF WalkEnds(info) THEN Walked
              ELSE /\ cmd' = [cmd EXCEPT !.walk = info.parent,
                                         !.depth = IF @ > 0 THEN @ - 1 ELSE @]
                   /\ UNCHANGED pc
     \/ /\ WalkFails
        /\ UNCHANGED snaps
  /\ UNCHANGED images

DropImage ==
  /\ pc = "drop"
  /\ \/ /\ images' = [images EXCEPT ![cmd.name] = NoImage]
        /\ Deleted(FALSE)
     \/ /\ Deleted(TRUE)
        /\ UNCHANGED images
  /\ UNCHANGED snaps

\* The process is killed; both stores stay as they are.
Kill ==
  /\ pc \in Steps
  /\ Exit
  /\ UNCHANGED <<images, snaps>>

-----------------------------------------------------------------------------
Init ==
  /\ images = [name \in Name |-> NoImage]
  /\ snaps = {}
  /\ pc = "idle"
  /\ cmd = NoCommand

Next ==
  \/ \E name \in Name :
       \/ \E chain \in Remote, unpack \in BOOLEAN : Pull(name, chain, unpack)
       \/ Unpack(name)
       \/ Delete(name)
  \/ \E op \in {"import", "single"}, imgs \in Archives, unpack \in BOOLEAN :
       Import(op, imgs, unpack)
  \/ \E key \in Key :
       \/ \E name \in Name \cup {NoImage}, kind \in {"active", "view"}, unpack \in BOOLEAN :
             Mount(name, key, kind, unpack)
       \/ \E removeSnap \in {-1, 0, 1} : Umount(key, removeSnap)
       \/ \E name \in Name, layer \in Layer : Commit(key, name, layer)
  \/ UnpackLayer \/ ApplyLayer \/ StoreImage \/ DeleteExtra \/ PrepareMount \/ MountTarget
  \/ CommitSnapshot \/ CommitImage \/ RemoveSnapshot \/ DropImage \/ Finish \/ Kill

Spec == Init /\ [][Next]_vars

-----------------------------------------------------------------------------
(* Properties *)

(***************************************************************************)
(* A chain ID names the layers below it: the committed snapshot of a chain *)
(* lies on the one of the chain without its last layer, and that one is    *)
(* there, whether it was unpacked (unpack.go:67) or committed from a mount *)
(* (commit.go:178), and across failures between the steps of either.       *)
(***************************************************************************)
ChainSound ==
  \A s \in snaps : s.kind = "committed" =>
     s.parent = Front(s.key) /\ (s.parent # << >> => SN!Exists(s.parent))

(***************************************************************************)
(* A command that was asked to unpack an image, or to commit one, and      *)
(* reports success leaves every layer of the image in the snapshotter,     *)
(* whatever partial chains earlier failures and deletions left, although   *)
(* isUnpacked looks at the last layer only (image.go:55).                  *)
(***************************************************************************)
HasAllLayers == \A n \in 1 .. Len(cmd.chain) : SN!Exists(Layers(n))

ReportedUnpacked == pc = "ok" /\ cmd.unpack /\ ~FromArchive => HasAllLayers

(***************************************************************************)
(* "Only keeping first one" (import.go:241): when SingleImportFile reports *)
(* success the store has the first image of the archive, and nothing under *)
(* the names of the others, whatever failed on the way.  It holds of       *)
(* archives that name the first image once (FirstNamedOnce): deleting by   *)
(* name takes the kept image away where a later one has its name.          *)
(***************************************************************************)
FirstNamedOnce ==
  \A imgs \in Archives : \A i \in 2 .. Len(imgs) : imgs[i].name # imgs[1].name

SingleKeepsFirst ==
  pc = "ok" /\ cmd.op = "single" =>
    LET first == cmd.imgs[1]
    IN /\ images[first.name] = first.chain
       /\ \A i \in 1 .. Len(cmd.imgs) :
             cmd.imgs[i].name # first.name => images[cmd.imgs[i].name] = NoImage

(***************************************************************************)
(* Deleting an image removes snapshots of its own chain only, though the   *)
(* walk follows the parents the snapshotter reports (snapshots.go:215).    *)
(***************************************************************************)
DeletesOwnChain ==
  [][cmd.op \in {"delete", "single"} /\ pc = "remove" =>
        \A s \in snaps \ snaps' : \E n \in 1 .. Len(cmd.chain) : s.key = Layers(n)]_vars

(***************************************************************************)
(* A walk that goes through leaves no layer of a deleted image that could  *)
(* still be removed: nothing removes it later (snapshots.go:203-215).      *)
(***************************************************************************)
NothingLeftBehind ==
  [][cmd.op \in {"delete", "single"} /\ pc = "remove" /\ pc' = "drop" =>
        (\A n \in 1 .. Len(cmd.chain) : SN!Exists(Layers(n)) => SN!HasChildren(Layers(n)))']_vars

(***************************************************************************)
(* "Removes the unmounted active snapshot" (cmd/umount.go:64): unmounting  *)
(* with --remove-active takes no layer of an image away.                   *)
(***************************************************************************)
RemoveActiveKeepsLayers ==
  [][cmd.op = "umount" /\ cmd.depth >= 0 /\ pc = "remove" =>
        \A s \in snaps \ snaps' : s.kind # "committed"]_vars
===============================================================================
