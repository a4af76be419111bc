---------------------------- MODULE StoreWalkProofs ----------------------------
(***************************************************************************)
(* What TLAPS proves about the snapshots and images that the commands of   *)
(* the store take away, under the assumption of StoreProofs and on top of  *)
(* its invariant: a deletion takes layers of the deleted image only and    *)
(* leaves none behind that could still be removed, unmounting with         *)
(* --remove-active takes no layer, and SingleImportFile keeps the first    *)
(* image of its archive and no other one.                                  *)
(*                                                                         *)
(* The walk up the parents stays on the image's chain, and what it has     *)
(* passed is gone; that its first snapshot is there at all is what         *)
(* isUnpacked found under the reference.  For the first image of an        *)
(* archive: no later one has its name, so only its own deletion, which     *)
(* follows an error, takes it away again.                                  *)
(***************************************************************************)
EXTENDS StoreProofs

Stored(i) == images[cmd.imgs[i].name] = cmd.imgs[i].chain
Gone(i) == images[cmd.imgs[i].name] = NoImage

\* The first image is kept until an error is known; the others are gone so far.
Deleting ==
  /\ cmd.name = cmd.imgs[cmd.nth].name
  /\ cmd.nth # 1 => /\ Stored(1)
                    /\ ~cmd.errs => \A i \in 2 .. cmd.nth - 1 : Gone(i)

StoreKept ==
  /\ pc = "store" /\ cmd.nth > 1 => Stored(1)
  /\ pc \in {"unpack", "apply"} /\ FromArchive => Stored(1)
  /\ pc \in {"extra", "remove", "drop"} /\ cmd.op = "single" => Deleting
  /\ SingleKeepsFirst

\* The walk is at the n-th layer, which is there, and none is above it.
WalkAt(n) == /\ cmd.walk = Layers(n) /\ SN!Exists(Layers(n))
             /\ \A m \in n + 1 .. Len(cmd.chain) : ~SN!Exists(Layers(m))

\* Without a depth the walk goes to the end, with one it is over after the mount.
WalkKept ==
  /\ pc # "idle" /\ cmd.op # "umount" => cmd.depth = -1
  /\ pc = "remove" =>
       IF cmd.op = "umount" THEN cmd.depth = -1 \/ (cmd.depth = 0 /\ cmd.walk \in Key)
       ELSE \E n \in 1 .. Len(cmd.chain) : WalkAt(n)

Kept == WalkKept /\ (FirstNamedOnce => StoreKept)

-----------------------------------------------------------------------------
(* Archives and commands *)

LEMMA ArchiveFacts ==
  ASSUME NEW imgs \in Archives
  PROVE  /\ Len(imgs) \in Nat \ {0}
         /\ \A i \in 1 .. Len(imgs) : imgs[i] \in [name : Name, chain : Chain]
<1>1. imgs \in Seq([name : Name, chain : Chain]) /\ imgs # << >>
  BY ArchivesAssumption
<1>2. Len(imgs) \in Nat \ {0}
  BY <1>1, EmptySeq, LenProperties
<1>3. \A i \in 1 .. Len(imgs) : imgs[i] \in [name : Name, chain : Chain]
  BY <1>1, ElementOfSeq
<1> QED BY <1>2, <1>3

LEMMA NewWalk ==
  ASSUME NEW op, NEW name, NEW chain, NEW key, NEW unpack
  PROVE  LET c == Command(op, name, chain, key, unpack)
         IN /\ c.op = op /\ c.chain = chain /\ c.walk = key /\ c.depth = -1 /\ c.nth = 1
            /\ DOMAIN c = {"op", "name", "chain", "key", "unpack", "kind", "at", "tmp", "walk",
                           "depth", "imgs", "nth", "errs"}
            /\ c = [x \in DOMAIN c |-> c[x]]
BY DEF Command

-----------------------------------------------------------------------------
(* Steps that do not touch an archive or a walk *)

LEMMA ExitKept == ASSUME Exit PROVE Kept'
BY DEF Exit, Kept, StoreKept, WalkKept, SingleKeepsFirst

LEMMA OtherKept ==
  ASSUME pc' \notin {"store", "extra", "remove"}, cmd'.op # "single",
         cmd'.op = "import" => pc' = "ok", cmd'.op # "umount" => cmd'.depth = -1
  PROVE  Kept'
BY DEF Kept, StoreKept, WalkKept, SingleKeepsFirst, FromArchive

\* An import that succeeds has nothing more to keep.
LEMMA ImportOver ==
  ASSUME Succeed, cmd.op = "import", cmd.depth = -1
  PROVE  Kept'
BY OtherKept DEF Succeed, Goto

\* The layers of an archive's image are unpacked.
LEMMA UnpackingKept ==
  ASSUME Kept, pc \in {"unpack", "apply"}, pc' \in {"unpack", "apply"}, images' = images,
         cmd'.op = cmd.op, cmd'.imgs = cmd.imgs, cmd'.depth = cmd.depth
  PROVE  Kept'
BY DEF Kept, StoreKept, WalkKept, SingleKeepsFirst, FromArchive, Stored

-----------------------------------------------------------------------------
(* Starting a command *)

LEMMA StartKept ==
  ASSUME NEW op \in {"pull", "unpack", "mount", "commit"}, NEW name, NEW chain, NEW key,
         NEW unpack, NEW step \in {"unpack", "ok", "prepare", "commit"},
         Start(Command(op, name, chain, key, unpack), step)
  PROVE  Kept'
<1>1. cmd'.op = op /\ cmd'.depth = -1
  BY NewWalk DEF Start
<1>2. pc' = step
  BY DEF Start
<1> QED BY <1>1, <1>2, OtherKept

LEMMA MountKept ==
  ASSUME NEW name, NEW key, NEW kind, NEW unpack, Mount(name, key, kind, unpack)
  PROVE  Kept'
<1> DEFINE img == IF name = NoImage THEN << >> ELSE images[name]
           c == Command("mount", name, img, key, unpack)
<1>1. cmd' = [c EXCEPT !.kind = kind] /\ pc' \in {"unpack", "prepare"}
  BY DEF Mount, Start
<1>2. c.op = "mount" /\ c.depth = -1
      /\ DOMAIN c = {"op", "name", "chain", "key", "unpack", "kind", "at", "tmp", "walk",
                     "depth", "imgs", "nth", "errs"}
  BY NewWalk
<1> HIDE DEF c
<1>3. cmd'.op = "mount" /\ cmd'.depth = -1
  BY <1>1, <1>2
<1> QED BY <1>1, <1>3, OtherKept

LEMMA ImportKept ==
  ASSUME NEW op \in {"import", "single"}, NEW imgs \in Archives, NEW unpack,
         Import(op, imgs, unpack)
  PROVE  Kept'
<1> DEFINE c == Command(op, NoImage, << >>, NoKey, unpack)
<1>1. cmd' = [c EXCEPT !.imgs = imgs] /\ pc' = "store"
  BY DEF Import, Start
<1>2. c.op = op /\ c.depth = -1 /\ c.nth = 1
      /\ DOMAIN c = {"op", "name", "chain", "key", "unpack", "kind", "at", "tmp", "walk",
                     "depth", "imgs", "nth", "errs"}
  BY NewWalk
<1> HIDE DEF c
<1>3. cmd'.op = op /\ cmd'.depth = -1 /\ cmd'.nth = 1
  BY <1>1, <1>2
<1>4. 1 .. cmd'.nth - 1 = {}
  BY <1>3
<1> QED BY <1>1, <1>3, <1>4 DEF Kept, StoreKept, WalkKept, SingleKeepsFirst

LEMMA UmountKept ==
  ASSUME NEW key \in Key, NEW removeSnap \in {-1, 0, 1}, Umount(key, removeSnap)
  PROVE  Kept'
<1> DEFINE unpack == FALSE
           c == Command("umount", NoImage, << >>, key, unpack)
           depth == Depth(removeSnap)
<1>1. cmd' = [c EXCEPT !.depth = depth] /\ pc' \in {"ok", "remove"}
  BY DEF Umount, Start
<1> HIDE DEF unpack
<1>2. c.op = "umount" /\ c.walk = key
      /\ DOMAIN c = {"op", "name", "chain", "key", "unpack", "kind", "at", "tmp", "walk",
                     "depth", "imgs", "nth", "errs"}
  BY NewWalk
<1>3. depth \in {-1, 0}
  BY DEF Depth
<1> HIDE DEF c, depth
<1>4. cmd'.op = "umount" /\ cmd'.walk = key /\ cmd'.depth = depth
  BY <1>1, <1>2
<1> QED BY <1>1, <1>3, <1>4 DEF Kept, StoreKept, WalkKept, SingleKeepsFirst, FromArchive

\* The deletion starts at the image's last layer, which is there.
LEMMA DeleteKept ==
  ASSUME IInv, NEW name \in Name, Delete(name)
  PROVE  Kept'
<1> DEFINE unpack == FALSE
           c == Command("delete", name, images[name], NoKey, unpack)
<1>1. /\ cmd' = [c EXCEPT !.walk = images[name]] /\ snaps' = snaps
      /\ pc' = IF IsUnpacked(name) THEN "remove" ELSE "drop"
  BY DEF Delete, Start
<1> HIDE DEF unpack
<1>2. c.op = "delete" /\ c.depth = -1 /\ c.chain = images[name]
      /\ DOMAIN c = {"op", "name", "chain", "key", "unpack", "kind", "at", "tmp", "walk",
                     "depth", "imgs", "nth", "errs"}
  BY NewWalk
<1> HIDE DEF c
<1>3. /\ cmd'.op = "delete" /\ cmd'.depth = -1 /\ cmd'.chain = images[name]
      /\ cmd'.walk = images[name]
  BY <1>1, <1>2
<1>4. images[name] \in Chain
  BY DEF Delete, IInv, SnapsSafe, SnapsTyped
<1>5. CASE pc' = "drop"
  BY <1>3, <1>5, OtherKept
<1>6. CASE pc' = "remove"
  <2>1. SN!Exists(images[name])
    BY <1>1, <1>6 DEF IsUnpacked
  <2>2. images[name] # << >>
    BY <1>4, <2>1, ChainExists DEF IInv
  <2>3. PICK n \in 1 .. MaxLayers : n = Len(images[name])
    BY <1>4, <2>2, PrefixFacts
  <2>4. SubSeq(images[name], 1, n) = images[name]
    BY <1>4, <2>3, PrefixFacts
  <2>5. Len(cmd'.chain) = n /\ n \in 1 .. n /\ n + 1 .. n = {}
    BY <1>3, <2>3, MaxLayersAssumption
  <2>6. WalkAt(n)'
    <3>1. Layers(n)' = images[name]
      BY <1>3, <2>4 DEF Layers
    <3>2. SN!Exists(Layers(n))'
      BY <1>1, <2>1, <3>1 DEF SN!Exists, SN!Keys
    <3>3. \A m \in n + 1 .. Len(cmd'.chain) : FALSE
      BY <2>5
    <3> QED BY <1>3, <3>1, <3>2, <3>3 DEF WalkAt
  <2>7. WalkKept'
    BY <1>3, <1>6, <2>5, <2>6 DEF WalkKept
  <2> QED BY <1>3, <1>6, <2>7 DEF Kept, StoreKept, SingleKeepsFirst, FromArchive
<1> QED BY <1>1, <1>5, <1>6

-----------------------------------------------------------------------------
(* Unpacking *)

LEMMA CommandTyped ==
  ASSUME IInv
  PROVE  /\ cmd \in Commands /\ cmd.chain \in Chain /\ cmd.depth \in Int /\ cmd.errs \in BOOLEAN
         /\ cmd.nth \in 1 .. Len(cmd.imgs) + 1
BY DEF IInv, Typed, Commands

\* The images of the archive are handled, or there is but one.
LEMMA ImportedKept ==
  ASSUME IInv, Kept, pc \in {"store", "unpack", "apply"}, FromArchive, images' = images,
         cmd.imgs \in Archives, FirstNamedOnce => Stored(1), Imported
  PROVE  Kept'
<1>1. cmd \in Commands /\ cmd.depth = -1 /\ Len(cmd.imgs) \in Nat \ {0}
  BY CommandTyped, ArchiveFacts DEF Kept, WalkKept, FromArchive
<1>2. CASE cmd.op = "single" /\ Len(cmd.imgs) > 1 /\ Turn(2, "extra")
  <2>1. /\ cmd'.op = cmd.op /\ cmd'.imgs = cmd.imgs /\ cmd'.depth = cmd.depth
        /\ cmd'.nth = 2 /\ cmd'.name = cmd.imgs[2].name /\ pc' = "extra"
    BY <1>1, <1>2 DEF Turn, Commands
  <2>2. FirstNamedOnce => Deleting'
    <3>1. FirstNamedOnce => Stored(1)'
      BY <2>1 DEF Stored
    <3>2. 2 .. cmd'.nth - 1 = {}
      BY <2>1
    <3> QED BY <2>1, <3>1, <3>2 DEF Deleting
  <2> QED BY <1>1, <1>2, <2>1, <2>2 DEF Kept, StoreKept, WalkKept, SingleKeepsFirst
<1>3. CASE (cmd.op = "single" => Len(cmd.imgs) = 1) /\ Succeed
  <2>1. cmd' = cmd /\ pc' = "ok"
    BY <1>3 DEF Succeed, Goto
  <2>2. CASE cmd.op = "single"
    <3>1. \A i \in 1 .. Len(cmd.imgs) : i = 1
      <4>1. Len(cmd.imgs) = 1
        BY <1>3, <2>2
      <4>2. \A i \in 1 .. 1 : i = 1
        OBVIOUS
      <4> QED BY <4>1, <4>2
    <3>2. FirstNamedOnce => SingleKeepsFirst'
      BY <2>1, <3>1 DEF SingleKeepsFirst, Stored
    <3> QED BY <1>1, <2>1, <3>2 DEF Kept, StoreKept, WalkKept
  <2> QED BY <1>1, <1>3, <2>2, ImportOver DEF FromArchive
<1> QED BY <1>2, <1>3 DEF Imported

LEMMA UnpackNextKept ==
  ASSUME IInv, Kept, pc \in {"unpack", "apply"}, FromArchive, images' = images, UnpackNext
  PROVE  Kept'
<1>1. cmd \in Commands /\ cmd.imgs \in Archives /\ (FirstNamedOnce => Stored(1))
  BY CommandTyped DEF IInv, StepSafe, Archived, Kept, StoreKept
<1>2. CASE Turn(cmd.nth + 1, "unpack")
  <2>1. /\ cmd'.op = cmd.op /\ cmd'.imgs = cmd.imgs /\ cmd'.depth = cmd.depth
        /\ pc' = "unpack"
    BY <1>1, <1>2 DEF Turn, Commands
  <2> QED BY <2>1, UnpackingKept
<1>3. CASE Imported
  BY <1>1, <1>3, ImportedKept
<1> QED BY <1>2, <1>3 DEF UnpackNext

LEMMA UnpackFailsKept ==
  ASSUME IInv, Kept, pc \in {"unpack", "apply"}, images' = images, UnpackFails
  PROVE  Kept'
BY UnpackNextKept, ExitKept DEF UnpackFails, Fail

LEMMA UnpackLayerKept ==
  ASSUME IInv, Kept, UnpackLayer
  PROVE  Kept'
<1>1. cmd \in Commands /\ pc = "unpack" /\ images' = images
  BY CommandTyped DEF UnpackLayer
<1>2. CASE Unpacked
  <2>1. CASE FromArchive
    BY <1>1, <1>2, <2>1, UnpackNextKept DEF Unpacked
  <2>2. CASE ~FromArchive
    <3>1. cmd' = cmd /\ pc' \in {"prepare", "ok"}
      BY <1>2, <2>2 DEF Unpacked, Succeed, Goto
    <3>2. cmd.op # "umount" => cmd.depth = -1
      BY <1>1 DEF Kept, WalkKept
    <3> QED BY <2>2, <3>1, <3>2, OtherKept DEF FromArchive
  <2> QED BY <2>1, <2>2
<1>3. CASE cmd' = [cmd EXCEPT !.at = @ + 1] /\ pc' = pc
  <2>1. cmd'.op = cmd.op /\ cmd'.imgs = cmd.imgs /\ cmd'.depth = cmd.depth
    BY <1>1, <1>3 DEF Commands
  <2> QED BY <1>1, <1>3, <2>1, UnpackingKept
<1>4. ASSUME NEW key \in Unique, cmd' = [cmd EXCEPT !.tmp = key], pc' = "apply"
      PROVE  Kept'
  <2>1. cmd'.op = cmd.op /\ cmd'.imgs = cmd.imgs /\ cmd'.depth = cmd.depth
    BY <1>1, <1>4 DEF Commands
  <2> QED BY <1>1, <1>4, <2>1, UnpackingKept
<1>5. CASE UnpackFails
  BY <1>1, <1>5, UnpackFailsKept
<1> QED BY <1>2, <1>3, <1>4, <1>5 DEF UnpackLayer

LEMMA ApplyLayerKept ==
  ASSUME IInv, Kept, ApplyLayer
  PROVE  Kept'
<1>1. cmd \in Commands /\ pc = "apply" /\ images' = images
  BY CommandTyped DEF ApplyLayer
<1>2. CASE cmd' = [cmd EXCEPT !.at = @ + 1, !.tmp = NoKey] /\ pc' = "unpack"
  <2>1. cmd'.op = cmd.op /\ cmd'.imgs = cmd.imgs /\ cmd'.depth = cmd.depth
    BY <1>1, <1>2 DEF Commands
  <2> QED BY <1>1, <1>2, <2>1, UnpackingKept
<1>3. CASE UnpackFails
  BY <1>1, <1>3, UnpackFailsKept
<1> QED BY <1>2, <1>3 DEF ApplyLayer

-----------------------------------------------------------------------------
(* Storing the images of an archive, and deleting those too many *)

LEMMA StoreImageKept ==
  ASSUME IInv, Kept, StoreImage
  PROVE  Kept'
<1>1. /\ cmd \in Commands /\ cmd.imgs \in Archives /\ FromArchive /\ pc = "store"
      /\ FirstNamedOnce /\ cmd.nth > 1 => Stored(1)
      /\ cmd.nth \in 1 .. Len(cmd.imgs) + 1 /\ cmd.depth = -1
      /\ images \in [Name -> Chain \cup {NoImage}]
  BY CommandTyped DEF IInv, SnapsSafe, SnapsTyped, StepSafe, Kept, StoreKept, WalkKept,
     FromArchive, StoreImage
<1>2. /\ Len(cmd.imgs) \in Nat \ {0}
      /\ \A i \in 1 .. Len(cmd.imgs) : cmd.imgs[i] \in [name : Name, chain : Chain]
  BY <1>1, ArchiveFacts
<1>3. CASE /\ cmd.nth <= Len(cmd.imgs) /\ pc' = pc /\ cmd' = [cmd EXCEPT !.nth = @ + 1]
           /\ LET img == cmd.imgs[cmd.nth]
              IN images' = [images EXCEPT ![img.name] = img.chain]
  <2>1. /\ cmd'.op = cmd.op /\ cmd'.imgs = cmd.imgs /\ cmd'.depth = cmd.depth
        /\ cmd'.nth = cmd.nth + 1
    BY <1>1, <1>3 DEF Commands
  <2>2. cmd.nth \in 1 .. Len(cmd.imgs) /\ 1 \in 1 .. Len(cmd.imgs)
    BY <1>1, <1>2, <1>3
  <2>3. cmd.imgs[1].name \in Name
    BY <1>2, <2>2
  <2>4. FirstNamedOnce => Stored(1)'
    <3>1. CASE cmd.nth = 1
      BY <1>1, <1>3, <2>1, <2>3, <3>1 DEF Stored
    <3>2. CASE cmd.nth # 1
      <4>1. cmd.nth \in 2 .. Len(cmd.imgs) /\ cmd.nth > 1
        BY <1>2, <2>2, <3>2
      <4>2. FirstNamedOnce => cmd.imgs[cmd.nth].name # cmd.imgs[1].name
        BY <1>1, <4>1 DEF FirstNamedOnce
      <4> QED BY <1>1, <1>3, <2>1, <4>1, <4>2 DEF Stored
    <3> QED BY <3>1, <3>2
  <2> QED BY <1>1, <1>3, <2>1, <2>4 DEF Kept, StoreKept, WalkKept, SingleKeepsFirst
<1>4. CASE /\ cmd.nth > Len(cmd.imgs) /\ images' = images
           /\ IF cmd.unpack THEN Turn(1, "unpack") ELSE Imported
  <2>1. FirstNamedOnce => Stored(1)
    <3>1. cmd.nth > 1
      BY <1>1, <1>2, <1>4
    <3> QED BY <1>1, <3>1
  <2>2. CASE Turn(1, "unpack")
    <3>1. /\ cmd'.op = cmd.op /\ cmd'.imgs = cmd.imgs /\ cmd'.depth = cmd.depth
          /\ pc' = "unpack"
      BY <1>1, <2>2 DEF Turn, Commands
    <3>2. FirstNamedOnce => Stored(1)'
      BY <1>4, <2>1, <3>1 DEF Stored
    <3> QED BY <1>1, <3>1, <3>2 DEF Kept, StoreKept, WalkKept, SingleKeepsFirst
  <2>3. CASE Imported
    BY <1>1, <1>4, <2>1, <2>3, ImportedKept
  <2> QED BY <1>4, <2>2, <2>3
<1>5. CASE IF cmd.op = "import" THEN Succeed ELSE Fail
  BY <1>1, <1>5, ImportOver, ExitKept DEF Fail
<1> QED BY <1>3, <1>4, <1>5 DEF StoreImage

\* What was to be deleted is gone, or the error is remembered.
LEMMA DeleteNextKept ==
  ASSUME IInv, Kept, pc \in {"extra", "remove", "drop"}, cmd.op = "single",
         NEW failed \in BOOLEAN, DeleteNext(failed),
         IF failed THEN images' = images
         ELSE images' = [images EXCEPT ![cmd.name] = NoImage]
  PROVE  Kept'
<1>1. /\ cmd \in Commands /\ cmd.imgs \in Archives /\ (FirstNamedOnce => Deleting)
      /\ cmd.nth \in 1 .. Len(cmd.imgs) /\ cmd.depth = -1 /\ cmd.errs \in BOOLEAN
      /\ images \in [Name -> Chain \cup {NoImage}]
  BY CommandTyped DEF IInv, SnapsSafe, SnapsTyped, StepSafe, Archived, FromArchive, Kept,
     StoreKept, WalkKept
<1>2. /\ Len(cmd.imgs) \in Nat \ {0}
      /\ \A i \in 1 .. Len(cmd.imgs) : cmd.imgs[i] \in [name : Name, chain : Chain]
  BY <1>1, ArchiveFacts
<1> DEFINE first == cmd.imgs[1]
           errs == DeleteErrors(failed)
\* Deleting only takes images away, and not the first one unless it is its turn.
<1>3. ASSUME NEW i \in 1 .. Len(cmd.imgs)
      PROVE  /\ Gone(i) => images'[cmd.imgs[i].name] = NoImage
             /\ FirstNamedOnce /\ i = cmd.nth /\ ~failed => images'[cmd.imgs[i].name] = NoImage
  <2>1. cmd.imgs[i].name \in Name
    BY <1>2
  <2> QED BY <1>1, <2>1 DEF Deleting, Gone
<1>4. ASSUME FirstNamedOnce, cmd.nth # 1
      PROVE  /\ images'[first.name] = first.chain
             /\ ~errs => \A i \in 2 .. cmd.nth : images'[cmd.imgs[i].name] = NoImage
  <2>1. cmd.nth \in 2 .. Len(cmd.imgs) /\ \A i \in 2 .. cmd.nth : i \in 1 .. Len(cmd.imgs)
    BY <1>1, <1>2, <1>4
  <2>2. cmd.name # first.name
    BY <1>1, <1>4, <2>1 DEF Deleting, FirstNamedOnce
  <2>3. images'[first.name] = first.chain
    <3>1. images[first.name] = first.chain
      BY <1>1, <1>4 DEF Deleting, Stored
    <3>2. images'[first.name] = images[first.name]
      <4>1. first.name \in Name
        BY <1>2
      <4> HIDE DEF first
      <4> QED BY <1>1, <2>2, <4>1
    <3> QED BY <3>1, <3>2
  <2>4. ASSUME ~errs, NEW i \in 2 .. cmd.nth
        PROVE  images'[cmd.imgs[i].name] = NoImage
    <3>1. ~failed /\ ~cmd.errs
      BY <2>4 DEF DeleteErrors
    <3>2. CASE i = cmd.nth
      BY <1>3, <1>4, <2>1, <3>1, <3>2
    <3>3. CASE i # cmd.nth
      <4>1. i \in 2 .. cmd.nth - 1
        BY <1>1, <3>3
      <4> QED BY <1>1, <1>3, <1>4, <2>1, <3>1, <4>1 DEF Deleting
    <3> QED BY <3>2, <3>3
  <2> QED BY <2>3, <2>4
<1>5. ASSUME NEW n \in 1 .. Len(cmd.imgs), pc' = "extra",
             cmd' = [cmd EXCEPT !.nth = n, !.errs = errs, !.name = cmd.imgs[n].name],
             n = 1 \/ (cmd.nth # 1 /\ n = cmd.nth + 1)
      PROVE  Kept'
  <2> HIDE DEF errs
  <2>1. /\ cmd'.op = cmd.op /\ cmd'.imgs = cmd.imgs /\ cmd'.depth = cmd.depth
        /\ cmd'.nth = n /\ cmd'.errs = errs /\ cmd'.name = cmd.imgs[n].name
    BY <1>1, <1>5 DEF Commands
  <2>2. n # 1 => cmd.nth # 1 /\ n - 1 = cmd.nth
    BY <1>1, <1>5
  <2>3. FirstNamedOnce /\ n # 1 => /\ Stored(1)'
                                   /\ ~errs => \A i \in 2 .. n - 1 : Gone(i)'
    BY <1>4, <2>1, <2>2 DEF Stored, Gone
  <2>4. FirstNamedOnce => Deleting'
    BY <2>1, <2>3 DEF Deleting
  <2> QED BY <1>1, <1>5, <2>1, <2>4 DEF Kept, StoreKept, WalkKept, SingleKeepsFirst
<1>6. CASE Fail
  BY <1>6, ExitKept DEF Fail
<1>7. CASE cmd.nth > 1 /\ cmd.nth = Len(cmd.imgs) /\ ~errs /\ Succeed
  <2>1. cmd' = cmd /\ pc' = "ok"
    BY <1>7 DEF Succeed, Goto
  <2>2. cmd.nth # 1
    <3>1. cmd.nth > 1
      BY <1>7
    <3> QED BY <3>1
  <2>3. ASSUME FirstNamedOnce, NEW i \in 1 .. Len(cmd.imgs), cmd.imgs[i].name # first.name
        PROVE  images'[cmd.imgs[i].name] = NoImage
    <3>1. i \in 2 .. cmd.nth
      <4>1. i # 1
        BY <2>3
      <4> QED BY <1>2, <1>7, <4>1
    <3> QED BY <1>4, <1>7, <2>2, <2>3, <3>1
  <2>4. FirstNamedOnce => SingleKeepsFirst'
    BY <1>4, <2>1, <2>2, <2>3 DEF SingleKeepsFirst
  <2> QED BY <1>1, <2>1, <2>4 DEF Kept, StoreKept, WalkKept
<1>8. \/ Fail \/ (cmd.nth > 1 /\ cmd.nth = Len(cmd.imgs) /\ ~errs /\ Succeed)
      \/ \E n \in 1 .. Len(cmd.imgs) :
            /\ pc' = "extra" /\ (n = 1 \/ (cmd.nth # 1 /\ n = cmd.nth + 1))
            /\ cmd' = [cmd EXCEPT !.nth = n, !.errs = errs, !.name = cmd.imgs[n].name]
  <2> HIDE DEF errs
  <2>1. 1 \in 1 .. Len(cmd.imgs)
    BY <1>2
  <2>2. cmd.nth > 1 /\ cmd.nth < Len(cmd.imgs)
        => cmd.nth # 1 /\ cmd.nth + 1 \in 1 .. Len(cmd.imgs)
    BY <1>1, <1>2
  <2> QED BY <2>1, <2>2 DEF DeleteNext, errs
<1> QED BY <1>5, <1>6, <1>7, <1>8

\* The snapshot isUnpacked found is that of the image under the name now.
LEMMA DeleteExtraKept ==
  ASSUME IInv, Kept, DeleteExtra
  PROVE  Kept'
<1>1. /\ cmd \in Commands /\ cmd.op = "single" /\ (FirstNamedOnce => Deleting)
      /\ cmd.nth \in 1 .. Len(cmd.imgs) /\ cmd.depth = -1 /\ cmd.name \in Name
      /\ snaps' = snaps /\ images' = images /\ pc = "extra" /\ SnapsSafe
  BY CommandTyped DEF IInv, StepSafe, Archived, FromArchive, Kept, StoreKept, WalkKept,
     DeleteExtra
<1> DEFINE chain == images[cmd.name]
<1>2. CASE DeleteNext(TRUE)
  <2>1. PICK failed \in BOOLEAN : failed = TRUE
    OBVIOUS
  <2> QED BY <1>1, <1>2, <2>1, DeleteNextKept
<1>3. CASE /\ chain # NoImage
           /\ cmd' = [cmd EXCEPT !.chain = chain, !.walk = chain]
           /\ pc' = IF IsUnpacked(cmd.name) THEN "remove" ELSE "drop"
  <2>1. chain \in Chain
    BY <1>1, <1>3 DEF SnapsSafe, SnapsTyped
  <2>2. /\ cmd'.op = cmd.op /\ cmd'.imgs = cmd.imgs /\ cmd'.depth = cmd.depth
        /\ cmd'.nth = cmd.nth /\ cmd'.errs = cmd.errs /\ cmd'.name = cmd.name
        /\ cmd'.chain = chain /\ cmd'.walk = chain
    BY <1>1, <1>3 DEF Commands
  <2>3. FirstNamedOnce => Deleting'
    BY <1>1, <2>2 DEF Deleting, Stored, Gone
  <2>4. ASSUME pc' = "remove"
        PROVE  \E n \in 1 .. Len(cmd'.chain) : WalkAt(n)'
    <3>1. SN!Exists(chain)
      BY <1>3, <2>4 DEF IsUnpacked
    <3>2. chain # << >>
      BY <1>1, <2>1, <3>1, ChainExists
    <3>3. PICK n \in 1 .. MaxLayers : n = Len(chain)
      BY <2>1, <3>2, PrefixFacts
    <3>4. SubSeq(chain, 1, n) = chain
      BY <2>1, <3>3, PrefixFacts
    <3>5. n \in 1 .. Len(chain) /\ \A m \in n + 1 .. Len(chain) : FALSE
      BY <3>3, MaxLayersAssumption
    <3>6. Layers(n)' = chain /\ SN!Exists(Layers(n))'
      BY <1>1, <2>2, <3>1, <3>4 DEF Layers, SN!Exists, SN!Keys
    <3> QED BY <2>2, <3>5, <3>6 DEF WalkAt
  <2> QED BY <1>1, <1>3, <2>2, <2>3, <2>4 DEF Kept, StoreKept, WalkKept, SingleKeepsFirst
<1> QED BY <1>2, <1>3 DEF DeleteExtra

-----------------------------------------------------------------------------
(* Mounting and committing *)

LEMMA MountingKept ==
  ASSUME IInv, Kept, PrepareMount \/ MountTarget \/ CommitSnapshot \/ CommitImage
  PROVE  Kept'
<1>1. cmd.op \in {"mount", "commit"} /\ cmd.depth = -1
  BY DEF IInv, StepSafe, Kept, WalkKept, PrepareMount, MountTarget, CommitSnapshot, CommitImage
<1>2. Exit \/ (cmd' = cmd /\ pc' \in {"mount", "ok", "image", "unpack"})
  BY DEF PrepareMount, MountTarget, CommitSnapshot, CommitImage, Fail, Succeed, Goto
<1> QED BY <1>1, <1>2, ExitKept, OtherKept

-----------------------------------------------------------------------------
(* Removing *)

\* What removing the snapshot that the walk is at leaves of the chain.
LEMMA WalkStep ==
  ASSUME SnapsSafe, cmd.chain \in Chain, NEW n \in 1 .. Len(cmd.chain), WalkAt(n),
         SN!CanRemove(cmd.walk), SN!Remove(cmd.walk)
  PROVE  /\ SN!Info(cmd.walk).parent = Layers(n - 1)
         /\ (Layers(n - 1) = << >>) <=> (n = 1)
         /\ n # 1 => Layers(n - 1) \in SN!Keys'
         /\ \A m \in n .. Len(cmd.chain) : Layers(m) \notin SN!Keys'
<1>1. Len(cmd.chain) \in Nat /\ n \in Nat /\ n - 1 \in 0 .. Len(cmd.chain)
      /\ n \in 0 .. Len(cmd.chain)
  BY ChainFacts, MaxLayersAssumption
<1>2. Layers(n) \in Chain /\ Layers(n - 1) \in Chain /\ Len(Layers(n - 1)) = n - 1
      /\ Len(Layers(n)) = n
  BY <1>1, ChainFacts DEF Layers
<1>3. Front(Layers(n)) = Layers(n - 1)
  BY <1>1, PrefixFacts DEF Layers
<1>4. /\ SN!Info(cmd.walk) \in snaps /\ SN!Info(cmd.walk).key = Layers(n)
      /\ SN!Info(cmd.walk).kind = "committed"
  BY <1>2, InfoFacts, ChainExists DEF SnapsSafe, WalkAt
<1>5. SN!Info(cmd.walk).parent = Layers(n - 1)
  BY <1>3, <1>4 DEF SnapsSafe, ChainsWhole
<1>6. (Layers(n - 1) = << >>) <=> (n = 1)
  <2>1. n = 1 => Layers(n - 1) = << >>
    BY PrefixFacts DEF Layers
  <2>2. Layers(n - 1) = << >> => n = 1
    BY <1>1, <1>2, EmptySeq
  <2> QED BY <2>1, <2>2
<1>7. \A key : SN!Exists(key)' <=> SN!Exists(key) /\ key # cmd.walk
  BY DEF SN!Exists, SN!Keys, SN!Remove
<1>8. n # 1 => Layers(n - 1) \in SN!Keys'
  <2> SUFFICES ASSUME n # 1 PROVE Layers(n - 1) \in SN!Keys'
    OBVIOUS
  <2>1. SN!Exists(Layers(n - 1))
    BY <1>4, <1>5, <1>6 DEF SnapsSafe, Grounded
  <2>2. Layers(n - 1) # cmd.walk
    BY <1>1, <1>2 DEF WalkAt
  <2> QED BY <1>7, <2>1, <2>2 DEF SN!Exists
<1>9. ASSUME NEW m \in n .. Len(cmd.chain) PROVE Layers(m) \notin SN!Keys'
  <2>1. m = n \/ m \in n + 1 .. Len(cmd.chain)
    BY <1>1
  <2> QED BY <1>7, <2>1 DEF WalkAt, SN!Exists
<1> QED BY <1>5, <1>6, <1>8, <1>9

\* The walk is over, for another command than Umount.
LEMMA WalkedKept ==
  ASSUME IInv, Kept, pc = "remove", cmd.op # "umount", images' = images, Goto("drop")
  PROVE  Kept'
<1>1. cmd' = cmd /\ pc' = "drop" /\ cmd.op \in {"single", "delete"} /\ cmd.depth = -1
  BY DEF IInv, StepSafe, Kept, WalkKept, Goto
<1>2. CASE cmd.op = "single"
  <2>1. FirstNamedOnce => Deleting'
    BY <1>1, <1>2 DEF Kept, StoreKept, Deleting, Stored, Gone
  <2> QED BY <1>1, <1>2, <2>1 DEF Kept, StoreKept, WalkKept, SingleKeepsFirst
<1>3. CASE cmd.op = "delete"
  BY <1>1, <1>3, OtherKept
<1> QED BY <1>1, <1>2, <1>3

LEMMA DeletedKept ==
  ASSUME IInv, Kept, pc \in {"remove", "drop"}, cmd.op \in {"single", "delete"},
         NEW failed \in BOOLEAN, Deleted(failed),
         IF failed THEN images' = images
         ELSE images' = [images EXCEPT ![cmd.name] = NoImage]
  PROVE  Kept'
<1>1. CASE cmd.op = "single"
  BY <1>1, DeleteNextKept DEF Deleted
<1>2. CASE cmd.op = "delete"
  <2>1. Exit \/ (cmd' = cmd /\ pc' = "ok")
    BY <1>2 DEF Deleted, Fail, Succeed, Goto
  <2>2. cmd.depth = -1
    BY <1>2 DEF Kept, WalkKept
  <2> QED BY <1>2, <2>1, <2>2, ExitKept, OtherKept
<1> QED BY <1>1, <1>2

LEMMA RemoveSnapshotKept ==
  ASSUME IInv, Kept, RemoveSnapshot
  PROVE  Kept'
<1>1. /\ cmd \in Commands /\ cmd.chain \in Chain /\ pc = "remove" /\ images' = images
      /\ cmd.op \in {"single", "umount", "delete"} /\ SnapsSafe
  BY CommandTyped DEF IInv, StepSafe, RemoveSnapshot
<1>2. CASE Walked
  <2>1. CASE cmd.op = "umount"
    <3>1. cmd' = cmd /\ pc' = "ok"
      BY <1>2, <2>1 DEF Walked, Succeed, Goto
    <3> QED BY <2>1, <3>1, OtherKept
  <2>2. CASE cmd.op # "umount"
    BY <1>1, <1>2, <2>2, WalkedKept DEF Walked
  <2> QED BY <2>1, <2>2
<1>3. CASE /\ SN!CanRemove(cmd.walk) /\ SN!Remove(cmd.walk) /\ pc' = pc
           /\ ~WalkEnds(SN!Info(cmd.walk))
           /\ cmd' = [cmd EXCEPT !.walk = SN!Info(cmd.walk).parent,
                                 !.depth = IF @ > 0 THEN @ - 1 ELSE @]
  <2>1. cmd.depth = -1
    BY <1>1, <1>3 DEF Kept, WalkKept, WalkEnds
  <2>2. /\ cmd'.op = cmd.op /\ cmd'.chain = cmd.chain /\ cmd'.name = cmd.name
        /\ cmd'.imgs = cmd.imgs /\ cmd'.nth = cmd.nth /\ cmd'.errs = cmd.errs
        /\ cmd'.walk = SN!Info(cmd.walk).parent /\ cmd'.depth = -1
    BY <1>1, <1>3, <2>1 DEF Commands
  <2>3. CASE cmd.op = "umount"
    BY <1>1, <1>3, <2>2, <2>3 DEF Kept, StoreKept, WalkKept, SingleKeepsFirst, FromArchive
  <2>4. CASE cmd.op # "umount"
    <3>1. PICK n \in 1 .. Len(cmd.chain) : WalkAt(n)
      BY <1>1, <2>4 DEF Kept, WalkKept
    <3>2. /\ SN!Info(cmd.walk).parent = Layers(n - 1)
          /\ (Layers(n - 1) = << >>) <=> (n = 1)
          /\ n # 1 => Layers(n - 1) \in SN!Keys'
          /\ \A m \in n .. Len(cmd.chain) : Layers(m) \notin SN!Keys'
      BY <1>1, <1>3, <3>1, WalkStep
    <3>3. n # 1 /\ n - 1 \in 1 .. Len(cmd.chain) /\ (n - 1) + 1 = n
      <4>1. n # 1
        BY <1>3, <3>2 DEF WalkEnds
      <4>2. Len(cmd.chain) \in Nat
        BY <1>1, ChainFacts, MaxLayersAssumption
      <4> QED BY <4>1, <4>2
    <3>4. \A m : Layers(m)' = Layers(m)
      BY <2>2 DEF Layers
    <3>5. WalkAt(n - 1)'
      BY <2>2, <3>2, <3>3, <3>4 DEF WalkAt, SN!Exists
    <3>6. FirstNamedOnce /\ cmd.op = "single" => Deleting'
      BY <1>1, <2>2 DEF Kept, StoreKept, Deleting, Stored, Gone
    <3> QED BY <1>1, <1>3, <2>2, <2>4, <3>3, <3>5, <3>6
            DEF Kept, StoreKept, WalkKept, SingleKeepsFirst, FromArchive
  <2> QED BY <2>3, <2>4
<1>4. CASE WalkFails
  <2>1. CASE cmd.op = "umount"
    BY <1>4, <2>1, ExitKept DEF WalkFails, Fail
  <2>2. CASE cmd.op # "umount"
    <3>1. PICK failed \in BOOLEAN : failed = TRUE
      OBVIOUS
    <3> QED BY <1>1, <1>4, <2>2, <3>1, DeletedKept DEF WalkFails
  <2> QED BY <2>1, <2>2
<1> QED BY <1>2, <1>3, <1>4 DEF RemoveSnapshot

LEMMA DropImageKept ==
  ASSUME IInv, Kept, DropImage
  PROVE  Kept'
<1>1. pc = "drop" /\ cmd.op \in {"single", "delete"}
  BY DEF IInv, StepSafe, DropImage
<1>2. PICK failed \in BOOLEAN :
        /\ Deleted(failed)
        /\ IF failed THEN images' = images
           ELSE images' = [images EXCEPT ![cmd.name] = NoImage]
  BY DEF DropImage
<1> QED BY <1>1, <1>2, DeletedKept

-----------------------------------------------------------------------------
(* The theorems *)

LEMMA InitKept == Init => Kept
BY DEF Init, Kept, StoreKept, WalkKept, SingleKeepsFirst

LEMMA StutterKept ==
  ASSUME Kept, UNCHANGED vars
  PROVE  Kept'
<1> USE DEF vars
<1>1. FirstNamedOnce => StoreKept'
  BY DEF Kept, StoreKept, SingleKeepsFirst, Deleting, Stored, Gone, FromArchive
<1>2. WalkKept'
  BY DEF Kept, WalkKept, WalkAt, Layers, SN!Exists, SN!Keys
<1> QED BY <1>1, <1>2 DEF Kept

LEMMA NextKept ==
  ASSUME IInv, Kept, [Next]_vars
  PROVE  Kept'
<1>1. ASSUME NEW name \in Name, NEW chain \in Remote, NEW unpack \in BOOLEAN,
             Pull(name, chain, unpack)
      PROVE  Kept'
  BY <1>1, StartKept DEF Pull
<1>2. ASSUME NEW name \in Name, Unpack(name) PROVE Kept'
  <2>1. PICK unpack \in BOOLEAN : unpack = TRUE
    OBVIOUS
  <2> QED BY <1>2, <2>1, StartKept DEF Unpack
<1>3. ASSUME NEW name \in Name, Delete(name) PROVE Kept'
  BY <1>3, DeleteKept
<1>4. ASSUME NEW op \in {"import", "single"}, NEW imgs \in Archives, NEW unpack \in BOOLEAN,
             Import(op, imgs, unpack)
      PROVE  Kept'
  BY <1>4, ImportKept
<1>5. ASSUME NEW key \in Key, NEW name \in Name \cup {NoImage},
             NEW kind \in {"active", "view"}, NEW unpack \in BOOLEAN,
             Mount(name, key, kind, unpack)
      PROVE  Kept'
  BY <1>5, MountKept
<1>6. ASSUME NEW key \in Key, NEW removeSnap \in {-1, 0, 1}, Umount(key, removeSnap)
      PROVE  Kept'
  BY <1>6, UmountKept
<1>7. ASSUME NEW key \in Key, NEW name \in Name, NEW layer \in Layer, Commit(key, name, layer)
      PROVE  Kept'
  <2>1. PICK unpack \in BOOLEAN : unpack = TRUE
    OBVIOUS
  <2> QED BY <1>7, <2>1, StartKept DEF Commit
<1>8. CASE UnpackLayer \/ ApplyLayer
  BY <1>8, UnpackLayerKept, ApplyLayerKept
<1>9. CASE StoreImage \/ DeleteExtra
  BY <1>9, StoreImageKept, DeleteExtraKept
<1>10. CASE PrepareMount \/ MountTarget \/ CommitSnapshot \/ CommitImage
  BY <1>10, MountingKept
<1>11. CASE RemoveSnapshot \/ DropImage
  BY <1>11, RemoveSnapshotKept, DropImageKept
<1>12. CASE Finish \/ Kill
  BY <1>12, ExitKept DEF Finish, Kill
<1>13. CASE UNCHANGED vars
  BY <1>13, StutterKept
<1> QED BY <1>1, <1>2, <1>3, <1>4, <1>5, <1>6, <1>7, <1>8, <1>9, <1>10, <1>11, <1>12, <1>13
        DEF Next

LEMMA KeptInvariance == ASSUME ~MovingTags PROVE Spec => [](IInv /\ Kept)
<1>1. IInv /\ Kept /\ [Next]_vars => Kept'
  BY NextKept
<1>2. Spec => []IInv
  BY Invariance
<1> QED BY <1>1, <1>2, InitKept, PTL DEF Spec

\* While snapshots are removed nothing else happens, unless the process is killed.
LEMMA OnlyRemoves ==
  ASSUME pc = "remove", Next
  PROVE  RemoveSnapshot \/ (pc' = "idle" /\ snaps' = snaps)
BY DEF Next, Pull, Unpack, Delete, Import, Mount, Umount, Commit, Start, UnpackLayer,
       ApplyLayer, StoreImage, DeleteExtra, PrepareMount, MountTarget, CommitSnapshot,
       CommitImage, DropImage, Finish, Kill, Exit

\* A snapshot that goes is the one the walk is at.
LEMMA RemovesWalk ==
  ASSUME RemoveSnapshot, NEW s \in snaps \ snaps'
  PROVE  s.key = cmd.walk
BY DEF RemoveSnapshot, SN!Remove

(***************************************************************************)
(* SingleImportFile that reports success has kept the first image of its   *)
(* archive and no other one, whatever failed on the way: an error makes it *)
(* delete the first one too and fail (import.go:241-255).  The archives    *)
(* name their first image once; other names may come several times.        *)
(***************************************************************************)
THEOREM FirstIsKept ==
  ASSUME ~MovingTags, FirstNamedOnce
  PROVE  Spec => []SingleKeepsFirst
<1>1. IInv /\ Kept => SingleKeepsFirst
  BY DEF Kept, StoreKept
<1> QED BY <1>1, KeptInvariance, PTL

(***************************************************************************)
(* Deleting an image removes the snapshots of its own layers only, however *)
(* the parents that the walk follows came about (snapshots.go:215).        *)
(***************************************************************************)
THEOREM DeletionStaysOnChain == ASSUME ~MovingTags PROVE Spec => DeletesOwnChain
<1> DEFINE Own == cmd.op \in {"delete", "single"} /\ pc = "remove" =>
                    \A s \in snaps \ snaps' :
                      \E n \in 1 .. Len(cmd.chain) : s.key = Layers(n)
<1>1. IInv /\ Kept /\ [Next]_vars => [Own]_vars
  <2> SUFFICES ASSUME IInv, Kept, Next, cmd.op \in {"delete", "single"}, pc = "remove",
                      NEW s \in snaps \ snaps'
               PROVE  \E n \in 1 .. Len(cmd.chain) : s.key = Layers(n)
    OBVIOUS
  <2>1. PICK n \in 1 .. Len(cmd.chain) : cmd.walk = Layers(n)
    BY DEF Kept, WalkKept, WalkAt
  <2>2. s.key = cmd.walk
    BY OnlyRemoves, RemovesWalk
  <2> QED BY <2>1, <2>2
<1> QED BY <1>1, KeptInvariance, PTL DEF Spec, DeletesOwnChain

(***************************************************************************)
(* When the walk is through, every layer of the deleted image that is left *)
(* has another snapshot on it, so that none could still be removed         *)
(* (snapshots.go:203-215).                                                 *)
(***************************************************************************)
THEOREM WalksToTheEnd == ASSUME ~MovingTags PROVE Spec => NothingLeftBehind
<1> DEFINE Left == (\A n \in 1 .. Len(cmd.chain) :
                      SN!Exists(Layers(n)) => SN!HasChildren(Layers(n)))
<1>1. IInv /\ Kept /\ [Next]_vars =>
        [cmd.op \in {"delete", "single"} /\ pc = "remove" /\ pc' = "drop" => Left']_vars
  <2> SUFFICES ASSUME IInv, Kept, Next, cmd.op \in {"delete", "single"}, pc = "remove",
                      pc' = "drop"
               PROVE  Left'
    OBVIOUS
  <2>1. RemoveSnapshot /\ SnapsSafe /\ cmd \in Commands /\ cmd.chain \in Chain
    BY OnlyRemoves, CommandTyped DEF IInv
  <2>2. PICK n \in 1 .. Len(cmd.chain) : WalkAt(n)
    BY DEF Kept, WalkKept
  <2>3. cmd.depth = -1 /\ Len(cmd.chain) \in Nat
    BY <2>1, ChainFacts, MaxLayersAssumption DEF Kept, WalkKept
  <2>4. ASSUME cmd' = cmd,
               \A m \in 1 .. Len(cmd.chain) :
                  Layers(m) \in SN!Keys' => \E s \in snaps' : s.parent = Layers(m)
        PROVE  Left'
    <3>1. \A m : Layers(m)' = Layers(m)
      BY <2>4 DEF Layers
    <3> QED BY <2>4, <3>1 DEF SN!Exists, SN!HasChildren
  <2>5. CASE ~SN!CanRemove(cmd.walk) /\ Walked /\ snaps' = snaps
    <3>1. cmd' = cmd
      BY <2>5 DEF Walked, Goto
    <3>2. SN!Exists(Layers(n)) /\ SN!HasChildren(Layers(n))
      BY <2>2, <2>5 DEF WalkAt, SN!CanRemove
    <3>3. Layers(n) \in Chain /\ n \in 0 .. Len(cmd.chain)
      BY <2>1, <2>3, ChainFacts DEF Layers
    <3>4. ASSUME NEW m \in 1 .. Len(cmd.chain), SN!Exists(Layers(m))
          PROVE  \E s \in snaps : s.parent = Layers(m)
      <4>1. m = n \/ m \in n + 1 .. Len(cmd.chain) \/ m + 1 \in 1 .. n
        BY <2>3
      <4>2. CASE m = n
        BY <3>2, <4>2 DEF SN!HasChildren
      <4>3. CASE m \in n + 1 .. Len(cmd.chain)
        BY <2>2, <3>4, <4>3 DEF WalkAt
      <4>4. CASE m + 1 \in 1 .. n
        <5> DEFINE above == Layers(m + 1)
        <5>1. /\ m + 1 \in 0 .. n /\ m + 1 \in 0 .. Len(cmd.chain) /\ m + 1 \in 1 .. Len(cmd.chain)
              /\ (m + 1) - 1 = m
          BY <2>3, <4>4
        <5>2. above \in Chain /\ Front(above) = Layers(m)
          <6>1. above \in Chain
            BY <2>1, <5>1, ChainFacts DEF Layers
          <6>2. Front(above) = SubSeq(cmd.chain, 1, (m + 1) - 1)
            BY <2>1, <5>1, PrefixFacts DEF Layers
          <6> QED BY <5>1, <6>1, <6>2 DEF Layers
        <5>3. SN!Exists(above)
          <6>1. Whole(Layers(n)) /\ Len(Layers(n)) = n
            BY <2>1, <3>2, <3>3, ChainExists, ChainFacts DEF Layers
          <6>2. SN!Exists(SubSeq(Layers(n), 1, m + 1))
            BY <4>4, <6>1 DEF Whole
          <6>3. SubSeq(Layers(n), 1, m + 1) = above
            BY <2>1, <3>3, <5>1, PrefixFacts DEF Layers
          <6> QED BY <6>2, <6>3
        <5>4. /\ SN!Info(above) \in snaps /\ SN!Info(above).key = above
              /\ SN!Info(above).kind = "committed"
          BY <2>1, <5>2, <5>3, InfoFacts, ChainExists DEF SnapsSafe
        <5>5. SN!Info(above).parent = Layers(m)
          BY <2>1, <5>2, <5>4 DEF SnapsSafe, ChainsWhole
        <5> QED BY <5>4, <5>5
      <4> QED BY <4>1, <4>2, <4>3, <4>4
    <3> QED BY <2>4, <2>5, <3>1, <3>4 DEF SN!Exists, SN!Keys
  <2>6. CASE /\ SN!CanRemove(cmd.walk) /\ SN!Remove(cmd.walk)
             /\ WalkEnds(SN!Info(cmd.walk)) /\ Walked
    <3>1. cmd' = cmd
      BY <2>6 DEF Walked, Goto
    <3>2. n = 1 /\ \A m \in n .. Len(cmd.chain) : Layers(m) \notin SN!Keys'
      BY <2>1, <2>2, <2>3, <2>6, WalkStep DEF WalkEnds
    <3> QED BY <2>4, <3>1, <3>2
  <2>7. CASE WalkFails
    BY <2>1, <2>7 DEF WalkFails, Deleted, DeleteNext, Fail, Succeed, Exit, Goto
  <2> QED BY <2>1, <2>5, <2>6, <2>7 DEF RemoveSnapshot
<1> QED BY <1>1, KeptInvariance, PTL DEF Spec, NothingLeftBehind

(***************************************************************************)
(* Unmounting with --remove-active, the only walk with a depth, removes    *)
(* the snapshot of the mount and no layer (cmd/umount.go:64).              *)
(***************************************************************************)
THEOREM LayersSurviveUmount == ASSUME ~MovingTags PROVE Spec => RemoveActiveKeepsLayers
<1> DEFINE Spared == cmd.op = "umount" /\ cmd.depth >= 0 /\ pc = "remove" =>
                       \A s \in snaps \ snaps' : s.kind # "committed"
<1>1. IInv /\ Kept /\ [Next]_vars => [Spared]_vars
  <2> SUFFICES ASSUME IInv, Kept, Next, cmd.op = "umount", cmd.depth >= 0, pc = "remove",
                      NEW s \in snaps \ snaps'
               PROVE  s.kind # "committed"
    OBVIOUS
  <2>1. cmd.walk \in Key
    BY DEF Kept, WalkKept
  <2>2. s.key = cmd.walk
    BY OnlyRemoves, RemovesWalk
  <2> QED BY <2>1, <2>2, KeysAssumption DEF IInv, SnapsSafe, Kinds
<1> QED BY <1>1, KeptInvariance, PTL DEF Spec, RemoveActiveKeepsLayers

================================================================================
