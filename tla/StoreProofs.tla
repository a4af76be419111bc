------------------------------ MODULE StoreProofs ------------------------------
(***************************************************************************)
(* What TLAPS proves about the commands of the store, for any references,  *)
(* layers, keys and archives, as long as references do not move under a    *)
(* mount (~MovingTags, as the run StoreRetag shows to be needed): a chain  *)
(* ID names what it stands for, and a command that reports success has     *)
(* unpacked every layer.                                                   *)
(*                                                                         *)
(* ChainSound is not inductive.  What keeps it is that snapshots are never *)
(* left without the one they lie on, that a chain has all of its prefixes, *)
(* that the label of a mount still names the image below it, and what the  *)
(* running command has found out and nobody else can change.               *)
(***************************************************************************)
EXTENDS Store, SequenceTheorems, TLAPS

Commands ==
  [op : {"none", "pull", "import", "single", "unpack", "mount", "umount", "commit", "delete"},
   name : Name \cup {NoImage}, chain : Chain, key : Key \cup {NoKey}, unpack : BOOLEAN,
   kind : {"active", "view"}, at : 1 .. MaxLayers + 1, tmp : Unique \cup {NoKey},
   walk : Key \cup {NoKey} \cup Chain, depth : Int, imgs : Archives \cup {<< >>}, nth : Nat,
   errs : BOOLEAN]

Snapshots ==
  [key : Key \cup Unique \cup Chain, kind : {"active", "view", "committed"}, parent : Chain,
   img : Name \cup {NoImage}]

Typed ==
  /\ pc \in Steps \cup {"idle", "ok"}
  /\ cmd \in Commands
  /\ cmd.nth \in 1 .. Len(cmd.imgs) + 1

SnapsTyped ==
  /\ images \in [Name -> Chain \cup {NoImage}]
  /\ snaps \subseteq Snapshots
  /\ \A s, t \in snaps : s.key = t.key => s = t

\* Chain IDs name committed snapshots, other keys name what is not committed.
Kinds ==
  \A s \in snaps : IF s.kind = "committed" THEN s.key \in Chain \ {<< >>}
                   ELSE s.key \in Key \cup Unique

\* What a snapshot lies on is there.
Grounded == \A s \in snaps : s.parent # << >> => SN!Exists(s.parent)

\* A committed chain has all of its prefixes, and lies on the longest of them.
Whole(chain) == \A n \in 1 .. Len(chain) : SN!Exists(SubSeq(chain, 1, n))

ChainsWhole == \A s \in snaps : s.kind = "committed" => s.parent = Front(s.key) /\ Whole(s.key)

\* A mount lies on the image that its label refers to, unless that is deleted.
Labels ==
  \A s \in snaps :
     IF s.key \in Key
     THEN IF s.img = NoImage THEN s.parent = << >> ELSE images[s.img] \in {NoImage, s.parent}
     ELSE s.img = NoImage

SnapsSafe == SnapsTyped /\ Kinds /\ Grounded /\ ChainsWhole /\ Labels

\* The layers below the one to unpack are there.
Below == cmd.at <= Len(cmd.chain) + 1 /\ \A n \in 1 .. cmd.at - 1 : SN!Exists(Layers(n))

\* The command has taken its image from the reference.
Mounting ==
  cmd.op = "mount" => /\ cmd.key \in Key
                      /\ IF cmd.name = NoImage THEN cmd.chain = << >>
                         ELSE images[cmd.name] = cmd.chain

Archived == FromArchive => cmd.imgs \in Archives /\ cmd.nth \in 1 .. Len(cmd.imgs)

StepSafe ==
  /\ pc \in {"unpack", "apply"} => Below /\ Mounting /\ Archived
  /\ pc = "apply" => /\ cmd.at <= Len(cmd.chain) /\ ~Present
                     /\ \E s \in snaps : /\ s.key = cmd.tmp /\ s.kind = "active"
                                         /\ s.key \in Unique /\ s.parent = Layers(cmd.at - 1)
  /\ pc \in {"prepare", "mount"} => /\ cmd.op = "mount" /\ Mounting
                                    /\ cmd.unpack => HasAllLayers
  /\ pc = "store" =>
       /\ FromArchive /\ cmd.imgs \in Archives
       /\ \A i \in cmd.nth .. Len(cmd.imgs) :
            MayName(cmd.imgs[i].name, cmd.imgs[i].chain, snaps)
  /\ pc = "extra" => cmd.op = "single" /\ Archived /\ cmd.name \in Name
  /\ pc \in {"remove", "drop"} =>
       /\ cmd.op \in {"single", "umount", "delete"} /\ Archived
       /\ cmd.op # "single" => ~cmd.unpack
  /\ pc = "drop" => cmd.op # "umount"
  /\ pc \in {"commit", "image"} =>
       cmd.op = "commit" /\ cmd.name \in Name /\ cmd.at = 1 /\ cmd.chain # << >>
  /\ pc = "commit" =>
       /\ MayName(cmd.name, cmd.chain, Remaining(cmd.chain, cmd.key))
       /\ \E s \in snaps : /\ s.key = cmd.key /\ s.key \in Key
                           /\ s.parent = Front(cmd.chain)
  /\ pc = "image" => MayName(cmd.name, cmd.chain, snaps)

IInv == SnapsSafe /\ Typed /\ StepSafe /\ ReportedUnpacked

-----------------------------------------------------------------------------
(* Chains *)

LEMMA ChainFacts ==
  ASSUME NEW c \in Chain
  PROVE  /\ c \in Seq(Layer) /\ Len(c) \in 0 .. MaxLayers
         /\ \A n \in 0 .. Len(c) : SubSeq(c, 1, n) \in Chain /\ Len(SubSeq(c, 1, n)) = n
<1>1. PICK n \in 0 .. MaxLayers : c \in [1 .. n -> Layer]
  BY DEF Chain
<1>2. n \in Nat /\ c \in Seq(Layer) /\ Len(c) = n
  BY <1>1, MaxLayersAssumption
<1>3. ASSUME NEW m \in 0 .. n
      PROVE  SubSeq(c, 1, m) \in [1 .. m -> Layer] /\ Len(SubSeq(c, 1, m)) = m
  <2>1. SubSeq(c, 1, m) \in Seq(Layer) /\ Len(SubSeq(c, 1, m)) = m
    BY <1>2
  <2> QED BY <2>1, LenProperties
<1>4. ASSUME NEW m \in 0 .. n PROVE SubSeq(c, 1, m) \in Chain
  BY <1>1, <1>3, MaxLayersAssumption DEF Chain
<1> QED BY <1>1, <1>2, <1>3, <1>4, MaxLayersAssumption

LEMMA PrefixFacts ==
  ASSUME NEW c \in Chain
  PROVE  /\ SubSeq(c, 1, 0) = << >> /\ SubSeq(c, 1, Len(c)) = c
         /\ \A n \in 0 .. Len(c) : \A m \in 0 .. n :
               SubSeq(SubSeq(c, 1, n), 1, m) = SubSeq(c, 1, m)
         /\ \A n \in 1 .. Len(c) : /\ SubSeq(c, 1, n) # << >>
                                   /\ Front(SubSeq(c, 1, n)) = SubSeq(c, 1, n - 1)
         /\ c # << >> => Len(c) \in 1 .. MaxLayers /\ Front(c) = SubSeq(c, 1, Len(c) - 1)
<1>1. c \in Seq(Layer) /\ Len(c) \in 0 .. MaxLayers /\ Len(c) \in Nat
  BY ChainFacts, MaxLayersAssumption
<1>2. SubSeq(c, 1, 0) = << >> /\ SubSeq(c, 1, Len(c)) = c
  BY <1>1
<1>3. ASSUME NEW n \in 0 .. Len(c), NEW m \in 0 .. n
      PROVE  SubSeq(SubSeq(c, 1, n), 1, m) = SubSeq(c, 1, m)
  BY <1>1
<1>4. ASSUME NEW n \in 1 .. Len(c)
      PROVE  SubSeq(c, 1, n) # << >> /\ Front(SubSeq(c, 1, n)) = SubSeq(c, 1, n - 1)
  <2>1. Len(SubSeq(c, 1, n)) = n
    BY <1>1
  <2>2. SubSeq(c, 1, n) # << >>
    BY <2>1
  <2>3. SubSeq(SubSeq(c, 1, n), 1, n - 1) = SubSeq(c, 1, n - 1)
    BY <1>1, <1>3
  <2> QED BY <2>1, <2>2, <2>3 DEF Front
<1>5. c # << >> => Len(c) \in 1 .. MaxLayers /\ Front(c) = SubSeq(c, 1, Len(c) - 1)
  BY <1>1 DEF Front
<1> QED BY <1>2, <1>3, <1>4, <1>5

LEMMA AppendFacts ==
  ASSUME NEW c \in Chain, NEW l \in Layer, Len(Append(c, l)) <= MaxLayers
  PROVE  Append(c, l) \in Chain \ {<< >>} /\ Front(Append(c, l)) = c
<1>1. c \in Seq(Layer) /\ Len(c) \in Nat
  BY ChainFacts, MaxLayersAssumption
<1>2. /\ Append(c, l) \in Seq(Layer) /\ Len(Append(c, l)) = Len(c) + 1
      /\ Append(c, l) # << >>
  BY <1>1
<1>3. Append(c, l) \in [1 .. Len(c) + 1 -> Layer]
  BY <1>2, LenProperties
<1>4. Append(c, l) \in Chain
  BY <1>1, <1>2, <1>3, MaxLayersAssumption DEF Chain
<1>5. SubSeq(Append(c, l), 1, Len(c)) = c
  BY <1>1, <1>2
<1> QED BY <1>2, <1>4, <1>5, <1>1 DEF Front

-----------------------------------------------------------------------------
(* Snapshots *)

LEMMA InfoFacts ==
  ASSUME SnapsTyped
  PROVE  /\ \A s \in snaps : SN!Info(s.key) = s /\ SN!Exists(s.key)
         /\ \A key : SN!Exists(key) => SN!Info(key) \in snaps /\ SN!Info(key).key = key
BY DEF SnapsTyped, SN!Info, SN!Exists, SN!Keys

\* Only chains have snapshots on them.
LEMMA KeysChildless ==
  ASSUME SnapsTyped, NEW key \in Key \cup Unique
  PROVE  ~SN!HasChildren(key)
BY KeysAssumption DEF SnapsTyped, Snapshots, SN!HasChildren

\* A chain that exists is committed, and whole.
LEMMA ChainExists ==
  ASSUME SnapsSafe, NEW c \in Chain, SN!Exists(c)
  PROVE  SN!Info(c).kind = "committed" /\ c # << >> /\ Whole(c)
<1>1. SN!Info(c) \in snaps /\ SN!Info(c).key = c
  BY InfoFacts DEF SnapsSafe
<1>2. c \notin Key \cup Unique
  BY KeysAssumption
<1> QED BY <1>1, <1>2 DEF SnapsSafe, Kinds, ChainsWhole

LEMMA PrepareSafe ==
  ASSUME SnapsSafe, NEW key \in Key \cup Unique, NEW kind \in {"active", "view"},
         NEW parent \in Chain, NEW img \in Name \cup {NoImage},
         SN!CanPrepare(key, parent), SN!Prepare(key, kind, parent, img), images' = images,
         IF key \in Key THEN IF img = NoImage THEN parent = << >> ELSE images[img] \in {NoImage, parent}
                        ELSE img = NoImage
  PROVE  /\ SnapsSafe' /\ \A k : SN!Exists(k) => SN!Exists(k)'
         /\ \A c \in Chain : SN!Exists(c)' => SN!Exists(c)
<1> DEFINE new == SN!Snap(key, kind, parent, img)
<1>1. /\ new.key = key /\ new.kind = kind /\ new.parent = parent /\ new.img = img
      /\ new \in Snapshots
  BY DEF SN!Snap, Snapshots
<1>2. snaps' = snaps \cup {new}
  BY DEF SN!Prepare
<1> HIDE DEF new
<1>3. \A k : SN!Exists(k) => SN!Exists(k)'
  BY <1>2 DEF SN!Exists, SN!Keys
<1>4. \A c \in Chain : SN!Exists(c)' => SN!Exists(c)
  BY <1>1, <1>2, KeysAssumption DEF SN!Exists, SN!Keys
<1>5. SnapsTyped'
  BY <1>1, <1>2 DEF SnapsSafe, SnapsTyped, SN!CanPrepare, SN!Exists, SN!Keys
<1>6. Kinds'
  BY <1>1, <1>2 DEF SnapsSafe, Kinds
<1>7. Grounded'
  BY <1>1, <1>2, <1>3 DEF SnapsSafe, Grounded, SN!CanPrepare
<1>8. ChainsWhole'
  BY <1>1, <1>2, <1>3 DEF SnapsSafe, ChainsWhole, Whole
<1>9. Labels'
  BY <1>1, <1>2 DEF SnapsSafe, Labels
<1> QED BY <1>3, <1>4, <1>5, <1>6, <1>7, <1>8, <1>9 DEF SnapsSafe

LEMMA CommitSafe ==
  ASSUME SnapsSafe, NEW s \in snaps, s.kind = "active", NEW name \in Chain \ {<< >>},
         s.parent = Front(name), ~SN!Exists(name), SN!Commit(name, s.key), images' = images
  PROVE  /\ SnapsSafe' /\ SN!Exists(name)'
         /\ \A c \in Chain : SN!Exists(c) => SN!Exists(c)'
         /\ snaps' \subseteq (snaps \ {s}) \cup {SN!Snap(name, "committed", s.parent, NoImage)}
<1> DEFINE new == SN!Snap(name, "committed", s.parent, NoImage)
<1>1. SN!Info(s.key) = s /\ SnapsTyped /\ s \in Snapshots
  BY InfoFacts DEF SnapsSafe, SnapsTyped
<1>2. /\ new.key = name /\ new.kind = "committed" /\ new.parent = s.parent
      /\ new.img = NoImage /\ new \in Snapshots
  BY <1>1 DEF SN!Snap, Snapshots
<1>3. snaps' = (snaps \ {s}) \cup {new}
  BY <1>1 DEF SN!Commit
<1>4. s.key \in Key \cup Unique
  BY DEF SnapsSafe, Kinds
<1> HIDE DEF new
<1>5. \A c \in Chain : SN!Exists(c) => SN!Exists(c)'
  BY <1>3, <1>4, KeysAssumption DEF SN!Exists, SN!Keys
<1>6. SN!Exists(name)'
  BY <1>2, <1>3 DEF SN!Exists, SN!Keys
<1>7. SnapsTyped'
  BY <1>1, <1>2, <1>3 DEF SnapsTyped, SN!Exists, SN!Keys
<1>8. Kinds'
  BY <1>2, <1>3 DEF SnapsSafe, Kinds
<1>9. Grounded'
  <2>1. \A t \in snaps : t.parent \in Chain
    BY <1>1 DEF SnapsTyped, Snapshots
  <2> QED BY <1>2, <1>3, <1>5, <2>1 DEF SnapsSafe, Grounded
<1>10. \A c \in Chain : Whole(c) => Whole(c)'
  <2> SUFFICES ASSUME NEW c \in Chain, Whole(c), NEW n \in 1 .. Len(c)
               PROVE  SN!Exists(SubSeq(c, 1, n))'
    BY DEF Whole
  <2>1. SubSeq(c, 1, n) \in Chain
    BY ChainFacts, MaxLayersAssumption
  <2> QED BY <1>5, <2>1 DEF Whole
<1>11. Whole(name)'
  <2>1. Len(name) \in 1 .. MaxLayers /\ s.parent = SubSeq(name, 1, Len(name) - 1)
        /\ SubSeq(name, 1, Len(name)) = name
    BY PrefixFacts
  <2>2. s.parent \in Chain /\ Len(s.parent) = Len(name) - 1
    BY <2>1, ChainFacts, MaxLayersAssumption
  <2>3. ASSUME NEW n \in 1 .. Len(name) - 1 PROVE SN!Exists(SubSeq(name, 1, n))'
    <3>1. s.parent # << >>
      <4>1. Len(s.parent) \in Nat /\ Len(s.parent) > 0
        BY <2>1, <2>2, MaxLayersAssumption
      <4> QED BY <4>1, EmptySeq
    <3>2. Whole(s.parent)'
      <4>1. SN!Exists(s.parent)
        BY <3>1 DEF SnapsSafe, Grounded
      <4>2. Whole(s.parent)
        BY <2>2, <4>1, ChainExists
      <4> QED BY <1>10, <2>2, <4>2
    <3>3. SubSeq(s.parent, 1, n) = SubSeq(name, 1, n)
      BY <2>1, PrefixFacts, MaxLayersAssumption
    <3>4. n \in 1 .. Len(s.parent)
      BY <2>2
    <3>5. SN!Exists(SubSeq(s.parent, 1, n))'
      BY <3>2, <3>4 DEF Whole
    <3> QED BY <3>3, <3>5
  <2>4. ASSUME NEW n \in 1 .. Len(name) PROVE SN!Exists(SubSeq(name, 1, n))'
    <3>1. n = Len(name) \/ n \in 1 .. Len(name) - 1
      <4>1. Len(name) \in Nat
        BY <2>1, MaxLayersAssumption
      <4> QED BY <4>1
    <3> QED BY <1>6, <2>1, <2>3, <3>1
  <2> QED BY <2>4 DEF Whole
<1>12. ChainsWhole'
  <2> SUFFICES ASSUME NEW t \in snaps', t.kind = "committed"
               PROVE  t.parent = Front(t.key) /\ Whole(t.key)'
    BY DEF ChainsWhole
  <2>1. CASE t = new
    BY <1>2, <1>11, <2>1
  <2>2. CASE t \in snaps
    BY <1>10, <2>2 DEF SnapsSafe, ChainsWhole, Kinds
  <2> QED BY <1>3, <2>1, <2>2
<1>13. Labels'
  BY <1>2, <1>3, KeysAssumption DEF SnapsSafe, Labels
<1> QED BY <1>3, <1>5, <1>6, <1>7, <1>8, <1>9, <1>12, <1>13 DEF SnapsSafe, new

LEMMA RemoveSafe ==
  ASSUME SnapsSafe, NEW key, ~SN!HasChildren(key), SN!Remove(key), images' = images
  PROVE  SnapsSafe' /\ snaps' \subseteq snaps
<1>1. snaps' = {s \in snaps : s.key # key}
  BY DEF SN!Remove
<1>2. SnapsTyped'
  BY <1>1 DEF SnapsSafe, SnapsTyped
<1>3. Kinds' /\ Labels'
  BY <1>1 DEF SnapsSafe, Kinds, Labels
<1>4. \A k : SN!Exists(k) /\ k # key => SN!Exists(k)'
  BY <1>1 DEF SN!Exists, SN!Keys
<1>5. Grounded'
  BY <1>1, <1>4 DEF SnapsSafe, Grounded, SN!HasChildren
<1>6. ChainsWhole'
  <2> SUFFICES ASSUME NEW t \in snaps, t.key # key, t.kind = "committed"
               PROVE  t.parent = Front(t.key) /\ Whole(t.key)'
    BY <1>1 DEF ChainsWhole
  <2> DEFINE c == t.key
  <2>1. t.parent = Front(c) /\ Whole(c) /\ c \in Chain
    BY DEF SnapsSafe, ChainsWhole, Kinds
  <2>2. c \in Seq(Layer) /\ Len(c) \in Nat /\ SubSeq(c, 1, Len(c)) = c
    BY <2>1, ChainFacts, PrefixFacts, MaxLayersAssumption
  <2>3. ASSUME NEW n \in 1 .. Len(c), SubSeq(c, 1, n) = key PROVE FALSE
    <3>1. n # Len(c)
      BY <2>2, <2>3
    <3>2. n + 1 \in 1 .. Len(c)
      BY <2>2, <3>1
    <3> HIDE DEF c
    <3> DEFINE above == SubSeq(c, 1, n + 1)
    <3>3. above \in Chain /\ SN!Exists(above)
      BY <2>1, <2>2, <3>2, ChainFacts DEF Whole
    <3>4. SN!Info(above) \in snaps /\ SN!Info(above).key = above
          /\ SN!Info(above).kind = "committed"
      BY <3>3, InfoFacts, ChainExists DEF SnapsSafe
    <3>5. Front(above) = SubSeq(c, 1, n)
      BY <2>1, <2>2, <3>2, PrefixFacts
    <3>6. SN!Info(above).parent = key
      BY <2>3, <3>4, <3>5 DEF SnapsSafe, ChainsWhole
    <3> QED BY <3>4, <3>6 DEF SN!HasChildren
  <2>4. \A n \in 1 .. Len(c) : SN!Exists(SubSeq(c, 1, n))'
    BY <1>4, <2>1, <2>3 DEF Whole
  <2> QED BY <2>1, <2>4 DEF Whole
<1> QED BY <1>1, <1>2, <1>3, <1>5, <1>6 DEF SnapsSafe

\* A reference gets another image, or none, when no mount depends on it.
LEMMA ImageWriteSafe ==
  ASSUME ~MovingTags, SnapsSafe, NEW name, NEW img \in Chain \cup {NoImage},
         snaps' = snaps, images' = [images EXCEPT ![name] = img],
         img # NoImage => MayName(name, img, snaps)
  PROVE  SnapsSafe'
<1>1. SnapsTyped' /\ Kinds' /\ Grounded' /\ ChainsWhole'
  BY DEF SnapsSafe, SnapsTyped, Kinds, Grounded, ChainsWhole, Whole, SN!Exists, SN!Keys
<1>2. Labels'
  <2> SUFFICES ASSUME NEW s \in snaps, s.key \in Key, s.img # NoImage
               PROVE  images'[s.img] \in {NoImage, s.parent}
    BY DEF SnapsSafe, Labels
  <2>1. s.img \in Name /\ images[s.img] \in {NoImage, s.parent}
    BY DEF SnapsSafe, SnapsTyped, Snapshots, Labels
  <2>2. CASE s.img = name
    BY <2>1, <2>2 DEF MayName, SnapsSafe, SnapsTyped
  <2>3. CASE s.img # name
    BY <2>1, <2>3 DEF SnapsSafe, SnapsTyped
  <2> QED BY <2>2, <2>3
<1> QED BY <1>1, <1>2 DEF SnapsSafe

LEMMA UnchangedSafe ==
  ASSUME SnapsSafe, snaps' = snaps, images' = images
  PROVE  SnapsSafe'
BY DEF SnapsSafe, SnapsTyped, Kinds, Grounded, ChainsWhole, Whole, Labels, SN!Exists, SN!Keys

-----------------------------------------------------------------------------
(* Commands *)

LEMMA NewCommand ==
  ASSUME NEW op \in {"none", "pull", "import", "single", "unpack", "mount", "umount", "commit",
                     "delete"},
         NEW name \in Name \cup {NoImage}, NEW chain \in Chain, NEW key \in Key \cup {NoKey},
         NEW unpack \in BOOLEAN
  PROVE  LET c == Command(op, name, chain, key, unpack)
         IN /\ c \in Commands /\ c.op = op /\ c.name = name /\ c.chain = chain /\ c.key = key
            /\ c.unpack = unpack /\ c.at = 1 /\ c.nth = 1 /\ c.imgs = << >>
<1> DEFINE c == [op |-> op, name |-> name, chain |-> chain, key |-> key, unpack |-> unpack,
                 kind |-> "active", at |-> 1, tmp |-> NoKey, walk |-> key, depth |-> -1,
                 imgs |-> << >>, nth |-> 1, errs |-> FALSE]
<1>1. c \in Commands
  BY MaxLayersAssumption DEF Commands
<1>2. Command(op, name, chain, key, unpack) = c
  BY DEF Command, FirstLayer
<1>3. /\ c.op = op /\ c.name = name /\ c.chain = chain /\ c.key = key
      /\ c.unpack = unpack /\ c.at = 1 /\ c.nth = 1 /\ c.imgs = << >>
  OBVIOUS
<1> HIDE DEF c
<1> QED BY <1>1, <1>2, <1>3

\* Changing one field of a command leaves the others.
LEMMA EditedKind ==
  ASSUME NEW r \in Commands, NEW v \in {"active", "view"}, NEW c, c = [r EXCEPT !.kind = v]
  PROVE  /\ c \in Commands /\ c.op = r.op /\ c.name = r.name /\ c.chain = r.chain
         /\ c.key = r.key /\ c.unpack = r.unpack /\ c.at = r.at /\ c.nth = r.nth
         /\ c.imgs = r.imgs
<1>1. c \in Commands
  BY DEF Commands
<1> QED BY <1>1 DEF Commands

LEMMA EditedDepth ==
  ASSUME NEW r \in Commands, NEW v \in Int, NEW c, c = [r EXCEPT !.depth = v]
  PROVE  /\ c \in Commands
         /\ c.op = r.op /\ c.unpack = r.unpack /\ c.nth = r.nth /\ c.imgs = r.imgs
<1>1. c \in Commands
  BY DEF Commands
<1> QED BY <1>1 DEF Commands

LEMMA EditedImages ==
  ASSUME NEW r \in Commands, NEW v \in Archives, NEW c, c = [r EXCEPT !.imgs = v]
  PROVE  c \in Commands /\ c.op = r.op /\ c.nth = r.nth /\ c.imgs = v
<1>1. c \in Commands
  BY DEF Commands
<1> QED BY <1>1 DEF Commands

LEMMA EditedWalk ==
  ASSUME NEW r \in Commands, NEW v \in Chain, NEW c, c = [r EXCEPT !.walk = v]
  PROVE  /\ c \in Commands
         /\ c.op = r.op /\ c.unpack = r.unpack /\ c.nth = r.nth /\ c.imgs = r.imgs
<1>1. c \in Commands
  BY DEF Commands
<1> QED BY <1>1 DEF Commands

LEMMA EmptyChain == << >> \in Chain
BY MaxLayersAssumption, EmptySeq, LenProperties DEF Chain

\* The end of a command leaves nothing to be said of it.
LEMMA EmptyCommand ==
  NoCommand \in Commands /\ NoCommand.nth = 1 /\ NoCommand.imgs = << >>
<1> DEFINE c == [op |-> "none", name |-> NoImage, chain |-> << >>, key |-> NoKey,
                 unpack |-> FALSE, kind |-> "active", at |-> 1, tmp |-> NoKey, walk |-> NoKey,
                 depth |-> -1, imgs |-> << >>, nth |-> 1, errs |-> FALSE]
<1>1. NoCommand = c
  BY DEF NoCommand, Command, FirstLayer
<1>2. c \in Commands
  BY EmptyChain, MaxLayersAssumption DEF Commands
<1>3. c.nth = 1 /\ c.imgs = << >>
  OBVIOUS
<1> HIDE DEF c
<1> QED BY <1>1, <1>2, <1>3

LEMMA ExitSafe ==
  ASSUME Exit, SnapsSafe'
  PROVE  IInv'
<1>1. cmd' \in Commands /\ cmd'.nth = 1 /\ cmd'.imgs = << >>
  BY EmptyCommand DEF Exit
<1>2. Typed'
  <2>1. Len(cmd'.imgs) = 0
    BY <1>1, EmptySeq
  <2> QED BY <1>1, <2>1 DEF Exit, Typed
<1>3. StepSafe' /\ ReportedUnpacked'
  BY DEF Exit, StepSafe, ReportedUnpacked
<1> QED BY <1>2, <1>3 DEF IInv

\* A command that unpacked nothing, or everything, may succeed.
LEMMA SucceedSafe ==
  ASSUME Typed, Succeed, SnapsSafe', (cmd.unpack /\ ~FromArchive) => HasAllLayers'
  PROVE  IInv'
<1>1. Typed' /\ StepSafe'
  BY DEF Succeed, Goto, Typed, StepSafe
<1>2. ReportedUnpacked'
  BY DEF Succeed, Goto, ReportedUnpacked, FromArchive
<1> QED BY <1>1, <1>2 DEF IInv

-----------------------------------------------------------------------------
(* Starting a command *)

LEMMA PullSafe ==
  ASSUME ~MovingTags, IInv, NEW name \in Name, NEW chain \in Remote, NEW unpack \in BOOLEAN,
         Pull(name, chain, unpack)
  PROVE  IInv'
<1> DEFINE c == Command("pull", name, chain, NoKey, unpack)
<1>1. chain \in Chain
  BY RemoteAssumption
<1>2. /\ c \in Commands /\ c.op = "pull" /\ c.unpack = unpack /\ c.at = 1
      /\ c.nth = 1 /\ c.imgs = << >>
  BY <1>1, NewCommand
<1>3. cmd' = c /\ pc' = IF unpack THEN "unpack" ELSE "ok"
  BY DEF Pull, Start
<1> HIDE DEF c
<1>4. SnapsSafe'
  BY <1>1, ImageWriteSafe DEF Pull, IInv
<1>5. Typed'
  BY <1>2, <1>3, EmptySeq DEF Typed, Steps
<1>6. StepSafe'
  <2>1. Len(c.chain) \in Nat
    BY <1>2, ChainFacts, MaxLayersAssumption DEF Commands
  <2> QED BY <1>2, <1>3, <2>1 DEF StepSafe, Below, Mounting, Archived, FromArchive
<1>7. ReportedUnpacked'
  BY <1>2, <1>3 DEF ReportedUnpacked
<1> QED BY <1>4, <1>5, <1>6, <1>7 DEF IInv

LEMMA UnpackSafe ==
  ASSUME IInv, NEW name \in Name, Unpack(name)
  PROVE  IInv'
<1> DEFINE chain == images[name]
           unpack == TRUE
           c == Command("unpack", name, chain, NoKey, unpack)
<1>1. chain \in Chain
  BY DEF Unpack, IInv, SnapsSafe, SnapsTyped
<1>c. /\ cmd' = c /\ pc' = IF IsUnpacked(name) THEN "ok" ELSE "unpack"
      /\ unpack \in BOOLEAN
  BY DEF Unpack, Start
<1> HIDE DEF unpack
<1>2. /\ c \in Commands /\ c.op = "unpack" /\ c.chain = chain /\ c.at = 1
      /\ c.nth = 1 /\ c.imgs = << >>
  BY <1>1, <1>c, NewCommand
<1>3. cmd' = c /\ pc' = IF IsUnpacked(name) THEN "ok" ELSE "unpack"
  BY <1>c
<1> HIDE DEF c
<1>4. SnapsSafe'
  BY UnchangedSafe DEF Unpack, IInv
<1>5. Typed'
  BY <1>2, <1>3, EmptySeq DEF Typed, Steps
<1>6. StepSafe'
  <2>1. Len(c.chain) \in Nat
    BY <1>1, <1>2, ChainFacts, MaxLayersAssumption
  <2> QED BY <1>2, <1>3, <2>1 DEF StepSafe, Below, Mounting, Archived, FromArchive
<1>7. IsUnpacked(name) => Whole(chain)
  BY <1>1, ChainExists DEF IsUnpacked, IInv
<1>8. ReportedUnpacked'
  BY <1>2, <1>3, <1>7 DEF ReportedUnpacked, HasAllLayers, Layers, Whole, Unpack,
                          SN!Exists, SN!Keys
<1> QED BY <1>4, <1>5, <1>6, <1>8 DEF IInv

LEMMA ImportSafe ==
  ASSUME IInv, NEW op \in {"import", "single"}, NEW imgs \in Archives, NEW unpack \in BOOLEAN,
         Import(op, imgs, unpack)
  PROVE  IInv'
<1> DEFINE r == Command(op, NoImage, << >>, NoKey, unpack)
           c == [r EXCEPT !.imgs = imgs]
<1>1. c \in Commands /\ c.op = op /\ c.nth = 1 /\ c.imgs = imgs
  <2>1. r \in Commands /\ r.op = op /\ r.nth = 1
    BY EmptyChain, NewCommand
  <2> HIDE DEF r
  <2>2. c = [r EXCEPT !.imgs = imgs]
    OBVIOUS
  <2> HIDE DEF c
  <2> QED BY <2>1, <2>2, EditedImages
<1>2. cmd' = c /\ pc' = "store" /\ snaps' = snaps
  BY DEF Import, Start
<1> HIDE DEF r, c
<1>3. SnapsSafe'
  BY UnchangedSafe DEF Import, IInv
<1>4. Len(imgs) \in Nat
  BY ArchivesAssumption, LenProperties
<1>5. Typed'
  BY <1>1, <1>2, <1>4 DEF Typed, Steps
<1>6. StepSafe'
  BY <1>1, <1>2 DEF StepSafe, FromArchive, Import, MayName
<1>7. ReportedUnpacked'
  BY <1>2 DEF ReportedUnpacked
<1> QED BY <1>3, <1>5, <1>6, <1>7 DEF IInv

LEMMA MountSafe ==
  ASSUME IInv, NEW name \in Name \cup {NoImage}, NEW key \in Key, NEW kind \in {"active", "view"},
         NEW unpack \in BOOLEAN, Mount(name, key, kind, unpack)
  PROVE  IInv'
<1> DEFINE img == IF name = NoImage THEN << >> ELSE images[name]
           r == Command("mount", name, img, key, unpack)
           c == [r EXCEPT !.kind = kind]
<1>1. img \in Chain
  BY EmptyChain DEF Mount, IInv, SnapsSafe, SnapsTyped
<1>2. /\ c \in Commands /\ c.op = "mount" /\ c.chain = img /\ c.at = 1 /\ c.unpack = unpack
      /\ c.nth = 1 /\ c.imgs = << >> /\ c.name = name /\ c.key = key
  <2>1. /\ r \in Commands /\ r.op = "mount" /\ r.chain = img /\ r.at = 1 /\ r.unpack = unpack
        /\ r.nth = 1 /\ r.imgs = << >> /\ r.name = name /\ r.key = key
    BY <1>1, NewCommand
  <2> HIDE DEF r, img
  <2>2. c = [r EXCEPT !.kind = kind]
    OBVIOUS
  <2> HIDE DEF c
  <2>3. /\ c \in Commands /\ c.op = r.op /\ c.name = r.name /\ c.chain = r.chain
        /\ c.key = r.key /\ c.unpack = r.unpack /\ c.at = r.at /\ c.nth = r.nth
        /\ c.imgs = r.imgs
    BY <2>1, <2>2, EditedKind
  <2> QED BY <2>1, <2>3, Zenon
<1>3. cmd' = c /\ pc' = IF unpack THEN "unpack" ELSE "prepare"
  BY DEF Mount, Start
<1> HIDE DEF r, c
<1>4. SnapsSafe' /\ images' = images
  BY UnchangedSafe DEF Mount, IInv
<1>5. Typed'
  BY <1>2, <1>3, EmptySeq DEF Typed, Steps
<1>6. StepSafe'
  <2>1. Len(c.chain) \in Nat
    BY <1>1, <1>2, ChainFacts, MaxLayersAssumption
  <2>2. Mounting'
    BY <1>2, <1>3, <1>4 DEF Mounting
  <2> QED BY <1>2, <1>3, <2>1, <2>2 DEF StepSafe, Below, Archived, FromArchive
<1>7. ReportedUnpacked'
  BY <1>3 DEF ReportedUnpacked
<1> QED BY <1>4, <1>5, <1>6, <1>7 DEF IInv

LEMMA UmountSafe ==
  ASSUME IInv, NEW key \in Key, NEW removeSnap \in {-1, 0, 1}, Umount(key, removeSnap)
  PROVE  IInv'
<1> DEFINE unpack == FALSE
           r == Command("umount", NoImage, << >>, key, unpack)
           c == [r EXCEPT !.depth = Depth(removeSnap)]
<1>1. Depth(removeSnap) \in Int
  BY DEF Depth
<1>2. c \in Commands /\ c.op = "umount" /\ c.unpack = FALSE /\ c.nth = 1 /\ c.imgs = << >>
  <2>u. unpack \in BOOLEAN
    OBVIOUS
  <2> HIDE DEF unpack
  <2>1. r \in Commands /\ r.unpack = unpack /\ r.nth = 1 /\ r.imgs = << >> /\ r.op = "umount"
    BY EmptyChain, <2>u, NewCommand
  <2> HIDE DEF r
  <2>2. c = [r EXCEPT !.depth = Depth(removeSnap)]
    OBVIOUS
  <2> HIDE DEF c
  <2>3. c \in Commands /\ c.unpack = unpack /\ c.nth = 1 /\ c.imgs = << >> /\ c.op = r.op
    BY <1>1, <2>1, <2>2, EditedDepth
  <2> QED BY <2>1, <2>3 DEF unpack
<1>3. cmd' = c /\ pc' = IF removeSnap = 0 THEN "ok" ELSE "remove"
  BY DEF Umount, Start
<1> HIDE DEF r, c
<1>4. SnapsSafe'
  BY UnchangedSafe DEF Umount, IInv
<1>5. Typed'
  BY <1>2, <1>3, EmptySeq DEF Typed, Steps
<1>6. StepSafe' /\ ReportedUnpacked'
  BY <1>2, <1>3 DEF StepSafe, Archived, FromArchive, ReportedUnpacked
<1> QED BY <1>4, <1>5, <1>6 DEF IInv

LEMMA DeleteSafe ==
  ASSUME IInv, NEW name \in Name, Delete(name)
  PROVE  IInv'
<1> DEFINE chain == images[name]
           unpack == FALSE
           r == Command("delete", name, chain, NoKey, unpack)
           c == [r EXCEPT !.walk = chain]
<1>1. chain \in Chain
  BY DEF Delete, IInv, SnapsSafe, SnapsTyped
<1>2. c \in Commands /\ c.op = "delete" /\ c.unpack = FALSE /\ c.nth = 1 /\ c.imgs = << >>
  <2>u. unpack \in BOOLEAN
    OBVIOUS
  <2> HIDE DEF unpack, chain
  <2>1. r \in Commands /\ r.unpack = unpack /\ r.nth = 1 /\ r.imgs = << >> /\ r.op = "delete"
    BY <1>1, <2>u, NewCommand
  <2> HIDE DEF r
  <2>2. c = [r EXCEPT !.walk = chain]
    OBVIOUS
  <2> HIDE DEF c
  <2>3. c \in Commands /\ c.unpack = unpack /\ c.nth = 1 /\ c.imgs = << >> /\ c.op = r.op
    BY <1>1, <2>1, <2>2, EditedWalk
  <2> QED BY <2>1, <2>3 DEF unpack
<1>3. cmd' = c /\ pc' = IF IsUnpacked(name) THEN "remove" ELSE "drop"
  BY DEF Delete, Start
<1> HIDE DEF r, c
<1>4. SnapsSafe'
  BY UnchangedSafe DEF Delete, IInv
<1>5. Typed'
  BY <1>2, <1>3, EmptySeq DEF Typed, Steps
<1>6. StepSafe' /\ ReportedUnpacked'
  BY <1>2, <1>3 DEF StepSafe, Archived, FromArchive, ReportedUnpacked
<1> QED BY <1>4, <1>5, <1>6 DEF IInv

LEMMA CommitStartSafe ==
  ASSUME IInv, NEW key \in Key, NEW name \in Name, NEW layer \in Layer,
         Commit(key, name, layer)
  PROVE  IInv'
<1> DEFINE s == SN!Info(key)
           chain == Committed(key, layer)
           unpack == TRUE
           c == Command("commit", name, chain, key, unpack)
<1>1. s \in snaps /\ s.key = key /\ s.parent \in Chain
  BY InfoFacts DEF Commit, IInv, SnapsSafe, SnapsTyped, Snapshots
<1>2. chain = IF s.img = NoImage THEN <<layer>> ELSE Append(images[s.img], layer)
  BY DEF Committed
<1>3. IF s.img = NoImage THEN s.parent = << >> ELSE images[s.img] = s.parent
  BY <1>1 DEF IInv, SnapsSafe, Labels, Commit
<1>4. chain = Append(s.parent, layer)
  <2>1. <<layer>> = Append(<< >>, layer)
    OBVIOUS
  <2> QED BY <1>2, <1>3, <2>1
<1>5. chain \in Chain \ {<< >>} /\ Front(chain) = s.parent
  BY <1>1, <1>4, AppendFacts DEF Commit
<1> HIDE DEF chain
<1>6. /\ c \in Commands /\ c.op = "commit" /\ c.chain = chain /\ c.at = 1 /\ c.name = name
      /\ c.nth = 1 /\ c.imgs = << >> /\ c.key = key
  <2>1. unpack \in BOOLEAN
    OBVIOUS
  <2> HIDE DEF unpack
  <2> QED BY <1>5, <2>1, NewCommand
<1>7. /\ cmd' = c /\ pc' = "commit" /\ snaps' = snaps
      /\ MayName(name, chain, Remaining(chain, key))
  BY DEF Commit, Start, chain
<1> HIDE DEF c
<1>8. SnapsSafe'
  BY UnchangedSafe DEF Commit, IInv
<1>9. Typed'
  BY <1>6, <1>7, EmptySeq DEF Typed, Steps
<1>10. MayName(cmd.name, cmd.chain, Remaining(cmd.chain, cmd.key))'
  BY <1>6, <1>7 DEF MayName, Remaining, SN!CanCommit, SN!Info, SN!Exists, SN!Keys
<1>11. StepSafe' /\ ReportedUnpacked'
  BY <1>1, <1>5, <1>6, <1>7, <1>10 DEF StepSafe, ReportedUnpacked
<1> QED BY <1>8, <1>9, <1>11 DEF IInv

-----------------------------------------------------------------------------
(* Unpacking *)

\* The next image of the archive is taken up.
LEMMA TurnSafe ==
  ASSUME Typed, FromArchive, cmd.imgs \in Archives, SnapsSafe', NEW n \in 1 .. Len(cmd.imgs),
         NEW step \in {"unpack", "extra"}, step = "extra" => cmd.op = "single", Turn(n, step)
  PROVE  IInv'
<1> DEFINE img == cmd.imgs[n]
<1>1. img.name \in Name /\ img.chain \in Chain /\ n \in Nat /\ Len(cmd.imgs) \in Nat
  <2>1. cmd.imgs \in Seq([name : Name, chain : Chain])
    BY ArchivesAssumption
  <2>2. Len(cmd.imgs) \in Nat /\ cmd.imgs[n] \in [name : Name, chain : Chain]
    BY <2>1, ElementOfSeq, LenProperties
  <2> QED BY <2>2
<1>2. /\ cmd' \in Commands /\ cmd'.op = cmd.op /\ cmd'.imgs = cmd.imgs /\ cmd'.nth = n
      /\ cmd'.at = 1 /\ cmd'.chain = img.chain /\ cmd'.name = img.name
  <2> USE DEF Turn, Commands
  <2>1. cmd \in Commands /\ FirstLayer \in 1 .. MaxLayers + 1 /\ FirstLayer = 1
    BY MaxLayersAssumption DEF Typed, FirstLayer
  <2>2. DOMAIN cmd' = DOMAIN cmd /\ cmd' = [x \in DOMAIN cmd |-> cmd'[x]]
    BY <2>1
  <2>3. /\ cmd'.op = cmd.op /\ cmd'.name = img.name /\ cmd'.chain = img.chain
        /\ cmd'.key = cmd.key /\ cmd'.unpack = cmd.unpack /\ cmd'.kind = cmd.kind
        /\ cmd'.at = FirstLayer /\ cmd'.tmp = NoKey /\ cmd'.walk = img.chain
        /\ cmd'.depth = cmd.depth /\ cmd'.imgs = cmd.imgs /\ cmd'.nth = n
        /\ cmd'.errs = cmd.errs
    BY <2>1
  <2> HIDE DEF Turn, img
  <2>4. cmd' \in Commands
    BY <1>1, <2>1, <2>2, <2>3
  <2> QED BY <2>1, <2>3, <2>4
<1>3. Typed'
  BY <1>1, <1>2 DEF Typed, Turn, Steps
<1>4. StepSafe'
  <2>1. Len(img.chain) \in Nat
    BY <1>1, ChainFacts, MaxLayersAssumption
  <2>2. Archived' /\ Mounting'
    BY <1>1, <1>2 DEF Archived, Mounting, FromArchive
  <2>3. Below'
    BY <1>2, <2>1 DEF Below
  <2> QED BY <1>1, <1>2, <2>2, <2>3 DEF StepSafe, Turn
<1>5. ReportedUnpacked'
  BY DEF ReportedUnpacked, Turn
<1> QED BY <1>3, <1>4, <1>5 DEF IInv

LEMMA ImportedSafe ==
  ASSUME Typed, FromArchive, cmd.imgs \in Archives, SnapsSafe', Imported
  PROVE  IInv'
<1>1. CASE Succeed
  BY <1>1, SucceedSafe
<1>2. CASE cmd.op = "single" /\ Len(cmd.imgs) > 1 /\ Turn(2, "extra")
  <2>1. 2 \in 1 .. Len(cmd.imgs)
    <3>1. Len(cmd.imgs) \in Nat
      BY ArchivesAssumption
    <3> QED BY <1>2, <3>1
  <2> QED BY <1>2, <2>1, TurnSafe
<1> QED BY <1>1, <1>2 DEF Imported

LEMMA UnpackNextSafe ==
  ASSUME Typed, FromArchive, Archived, SnapsSafe', UnpackNext
  PROVE  IInv'
<1>1. cmd.imgs \in Archives /\ cmd.nth \in 1 .. Len(cmd.imgs)
  BY DEF Archived
<1>2. CASE cmd.nth < Len(cmd.imgs) /\ Turn(cmd.nth + 1, "unpack")
  <2>1. cmd.nth + 1 \in 1 .. Len(cmd.imgs)
    <3>1. Len(cmd.imgs) \in Nat
      BY <1>1, ArchivesAssumption
    <3> QED BY <1>1, <1>2, <3>1
  <2> QED BY <1>1, <1>2, <2>1, TurnSafe
<1>3. CASE Imported
  BY <1>1, <1>3, ImportedSafe
<1> QED BY <1>2, <1>3 DEF UnpackNext

LEMMA UnpackFailsSafe ==
  ASSUME Typed, Archived, SnapsSafe', UnpackFails
  PROVE  IInv'
BY UnpackNextSafe, ExitSafe DEF UnpackFails, Fail

LEMMA UnpackLayerSafe ==
  ASSUME IInv, UnpackLayer
  PROVE  IInv'
<1>1. /\ cmd \in Commands /\ cmd.chain \in Chain /\ cmd.at \in 1 .. MaxLayers + 1
      /\ Below /\ Mounting /\ Archived /\ SnapsSafe /\ Typed /\ images' = images
  BY DEF IInv, Typed, Commands, StepSafe, UnpackLayer
<1>2. Len(cmd.chain) \in 0 .. MaxLayers /\ Len(cmd.chain) \in Nat /\ cmd.at \in Nat
  BY <1>1, ChainFacts, MaxLayersAssumption
<1>3. CASE cmd.at > Len(cmd.chain) /\ Unpacked /\ snaps' = snaps
  <2>1. SnapsSafe'
    BY <1>1, <1>3, UnchangedSafe
  <2>2. HasAllLayers
    BY <1>1, <1>2, <1>3 DEF Below, HasAllLayers
  <2>3. CASE FromArchive
    BY <1>1, <1>3, <2>1, <2>3, UnpackNextSafe DEF Unpacked
  <2>4. CASE ~FromArchive /\ cmd.op = "mount"
    <3>1. pc' = "prepare" /\ cmd' = cmd
      BY <1>3, <2>4 DEF Unpacked, Goto
    <3>2. Typed' /\ ReportedUnpacked'
      BY <1>1, <3>1 DEF Typed, ReportedUnpacked, Steps
    <3>3. HasAllLayers' /\ Mounting'
      BY <1>1, <1>3, <2>2, <3>1 DEF HasAllLayers, Layers, Mounting, SN!Exists, SN!Keys
    <3>4. StepSafe'
      BY <2>4, <3>1, <3>3 DEF StepSafe
    <3> QED BY <2>1, <3>2, <3>4 DEF IInv
  <2>5. CASE ~FromArchive /\ cmd.op # "mount"
    <3>1. Succeed
      BY <1>3, <2>5 DEF Unpacked
    <3>2. HasAllLayers'
      BY <1>3, <2>2, <3>1 DEF Succeed, Goto, HasAllLayers, Layers, SN!Exists, SN!Keys
    <3> QED BY <1>1, <2>1, <3>1, <3>2, SucceedSafe
  <2> QED BY <2>3, <2>4, <2>5
<1>4. CASE /\ cmd.at <= Len(cmd.chain) /\ Present /\ snaps' = snaps /\ pc' = pc
           /\ cmd' = [cmd EXCEPT !.at = @ + 1]
  <2>1. SnapsSafe'
    BY <1>1, <1>4, UnchangedSafe
  <2>2. cmd.at + 1 \in 1 .. MaxLayers + 1
    BY <1>2, <1>4, MaxLayersAssumption
  <2>3. /\ cmd' \in Commands /\ cmd'.op = cmd.op /\ cmd'.name = cmd.name /\ cmd'.key = cmd.key
        /\ cmd'.chain = cmd.chain /\ cmd'.at = cmd.at + 1 /\ cmd'.nth = cmd.nth
        /\ cmd'.imgs = cmd.imgs
    <3> USE DEF Commands
    <3>1. DOMAIN cmd' = DOMAIN cmd /\ cmd' = [x \in DOMAIN cmd |-> cmd'[x]]
      BY <1>1, <1>4
    <3>2. /\ cmd'.op = cmd.op /\ cmd'.name = cmd.name /\ cmd'.chain = cmd.chain
          /\ cmd'.key = cmd.key /\ cmd'.unpack = cmd.unpack /\ cmd'.kind = cmd.kind
          /\ cmd'.at = cmd.at + 1 /\ cmd'.tmp = cmd.tmp /\ cmd'.walk = cmd.walk
          /\ cmd'.depth = cmd.depth /\ cmd'.imgs = cmd.imgs /\ cmd'.nth = cmd.nth
          /\ cmd'.errs = cmd.errs
      BY <1>1, <1>4
    <3>3. cmd' \in Commands
      BY <1>1, <2>2, <3>1, <3>2
    <3> QED BY <3>2, <3>3
  <2>4. Typed'
    BY <1>1, <1>4, <2>3 DEF Typed
  <2>5. Below'
    <3>1. \A n \in 1 .. cmd.at : SN!Exists(Layers(n))
      <4>1. \A n \in 1 .. cmd.at : n = cmd.at \/ n \in 1 .. cmd.at - 1
        BY <1>2
      <4> QED BY <1>1, <1>4, <4>1 DEF Below, Present
    <3>2. cmd'.at - 1 = cmd.at /\ cmd'.at <= Len(cmd'.chain) + 1
      BY <1>2, <1>4, <2>3
    <3> QED BY <1>4, <2>3, <3>1, <3>2 DEF Below, Layers, SN!Exists, SN!Keys
  <2>6. Mounting' /\ Archived' /\ pc' = "unpack"
    BY <1>1, <1>4, <2>3 DEF Mounting, Archived, FromArchive, UnpackLayer
  <2>7. StepSafe' /\ ReportedUnpacked'
    BY <2>5, <2>6 DEF StepSafe, ReportedUnpacked
  <2> QED BY <2>1, <2>4, <2>7 DEF IInv
<1>5. ASSUME cmd.at <= Len(cmd.chain), ~Present, pc' = "apply", NEW key \in Unique,
             SN!CanPrepare(key, Layers(cmd.at - 1)),
             SN!Prepare(key, "active", Layers(cmd.at - 1), NoImage),
             cmd' = [cmd EXCEPT !.tmp = key]
      PROVE  IInv'
  <2>1. Layers(cmd.at - 1) \in Chain /\ Layers(cmd.at) \in Chain
    <3>1. cmd.at - 1 \in 0 .. Len(cmd.chain) /\ cmd.at \in 0 .. Len(cmd.chain)
      BY <1>1, <1>2, <1>5
    <3> QED BY <1>1, <3>1, ChainFacts DEF Layers
  <2>2. /\ SnapsSafe' /\ \A k : SN!Exists(k) => SN!Exists(k)'
        /\ \A c \in Chain : SN!Exists(c)' => SN!Exists(c)
    BY <1>1, <1>5, <2>1, KeysAssumption, PrepareSafe
  <2>3. /\ cmd' \in Commands /\ cmd'.op = cmd.op /\ cmd'.name = cmd.name /\ cmd'.key = cmd.key
        /\ cmd'.chain = cmd.chain /\ cmd'.at = cmd.at /\ cmd'.nth = cmd.nth
        /\ cmd'.imgs = cmd.imgs /\ cmd'.tmp = key
    <3> USE DEF Commands
    <3>1. DOMAIN cmd' = DOMAIN cmd /\ cmd' = [x \in DOMAIN cmd |-> cmd'[x]]
      BY <1>1, <1>5
    <3>2. /\ cmd'.op = cmd.op /\ cmd'.name = cmd.name /\ cmd'.chain = cmd.chain
          /\ cmd'.key = cmd.key /\ cmd'.unpack = cmd.unpack /\ cmd'.kind = cmd.kind
          /\ cmd'.at = cmd.at /\ cmd'.tmp = key /\ cmd'.walk = cmd.walk
          /\ cmd'.depth = cmd.depth /\ cmd'.imgs = cmd.imgs /\ cmd'.nth = cmd.nth
          /\ cmd'.errs = cmd.errs
      BY <1>1, <1>5
    <3>3. cmd' \in Commands
      BY <1>1, <3>1, <3>2
    <3> QED BY <3>2, <3>3
  <2>4. Typed'
    BY <1>1, <1>5, <2>3 DEF Typed, Steps
  <2>5. Below'
    BY <1>1, <2>2, <2>3 DEF Below, Layers
  <2>6. Mounting' /\ Archived'
    BY <1>1, <2>3 DEF Mounting, Archived, FromArchive
  <2>7. ~Present'
    BY <1>5, <2>1, <2>2, <2>3 DEF Present, Layers
  <2>8. \E s \in snaps' : /\ s.key = key /\ s.kind = "active" /\ s.parent = Layers(cmd.at - 1)
    <3> DEFINE new == SN!Snap(key, "active", Layers(cmd.at - 1), NoImage)
    <3>1. new \in snaps'
      BY <1>5 DEF SN!Prepare
    <3>2. new.key = key /\ new.kind = "active" /\ new.parent = Layers(cmd.at - 1)
      BY DEF SN!Snap
    <3> QED BY <3>1, <3>2
  <2>9. \E s \in snaps' : /\ s.key = cmd'.tmp /\ s.kind = "active" /\ s.key \in Unique
                          /\ s.parent = Layers(cmd.at - 1)'
    BY <2>3, <2>8 DEF Layers
  <2>10. StepSafe' /\ ReportedUnpacked'
    BY <1>5, <2>3, <2>5, <2>6, <2>7, <2>9 DEF StepSafe, ReportedUnpacked
  <2> QED BY <2>2, <2>4, <2>10 DEF IInv
<1>6. CASE UnpackFails /\ snaps' = snaps
  BY <1>1, <1>6, UnchangedSafe, UnpackFailsSafe
<1> QED BY <1>3, <1>4, <1>5, <1>6 DEF UnpackLayer

LEMMA ApplyLayerSafe ==
  ASSUME IInv, ApplyLayer
  PROVE  IInv'
<1>1. /\ cmd \in Commands /\ cmd.chain \in Chain /\ cmd.at \in 1 .. MaxLayers + 1
      /\ Below /\ Mounting /\ Archived /\ SnapsSafe /\ Typed /\ images' = images
      /\ cmd.at <= Len(cmd.chain) /\ ~Present
  BY DEF IInv, Typed, Commands, StepSafe, ApplyLayer
<1>2. Len(cmd.chain) \in 0 .. MaxLayers /\ Len(cmd.chain) \in Nat /\ cmd.at \in Nat
      /\ cmd.at \in 1 .. Len(cmd.chain)
  BY <1>1, ChainFacts, MaxLayersAssumption
<1>3. PICK s \in snaps : /\ s.key = cmd.tmp /\ s.kind = "active"
                         /\ s.key \in Unique /\ s.parent = Layers(cmd.at - 1)
  BY DEF IInv, StepSafe, ApplyLayer
<1>4. CASE /\ SN!Commit(Layers(cmd.at), cmd.tmp) /\ pc' = "unpack"
           /\ cmd' = [cmd EXCEPT !.at = @ + 1, !.tmp = NoKey]
  <2>0. PICK chain : chain = Layers(cmd.at)
    OBVIOUS
  <2>1. chain \in Chain \ {<< >>} /\ s.parent = Front(chain)
    <3>1. cmd.at \in 0 .. Len(cmd.chain)
      BY <1>2
    <3>2. chain \in Chain
      BY <1>1, <2>0, <3>1, ChainFacts DEF Layers
    <3>3. chain # << >> /\ Front(chain) = Layers(cmd.at - 1)
      <4>1. \A n \in 1 .. Len(cmd.chain) :
              SubSeq(cmd.chain, 1, n) # << >>
              /\ Front(SubSeq(cmd.chain, 1, n)) = SubSeq(cmd.chain, 1, n - 1)
        BY <1>1, PrefixFacts
      <4> QED BY <1>2, <2>0, <4>1 DEF Layers
    <3> QED BY <1>3, <3>2, <3>3
  <2>2. ~SN!Exists(chain) /\ SN!Commit(chain, s.key)
    BY <1>1, <1>3, <1>4, <2>0 DEF Present
  <2>3. SnapsSafe' /\ SN!Exists(chain)' /\ \A c \in Chain : SN!Exists(c) => SN!Exists(c)'
    BY <1>1, <1>3, <2>1, <2>2, CommitSafe
  <2>4. cmd.at + 1 \in 1 .. MaxLayers + 1
    BY <1>2, MaxLayersAssumption
  <2>5. /\ cmd' \in Commands /\ cmd'.op = cmd.op /\ cmd'.name = cmd.name /\ cmd'.key = cmd.key
        /\ cmd'.chain = cmd.chain /\ cmd'.at = cmd.at + 1 /\ cmd'.nth = cmd.nth
        /\ cmd'.imgs = cmd.imgs
    <3> USE DEF Commands
    <3>1. DOMAIN cmd' = DOMAIN cmd /\ cmd' = [x \in DOMAIN cmd |-> cmd'[x]]
      BY <1>1, <1>4
    <3>2. /\ cmd'.op = cmd.op /\ cmd'.name = cmd.name /\ cmd'.chain = cmd.chain
          /\ cmd'.key = cmd.key /\ cmd'.unpack = cmd.unpack /\ cmd'.kind = cmd.kind
          /\ cmd'.at = cmd.at + 1 /\ cmd'.tmp = NoKey /\ cmd'.walk = cmd.walk
          /\ cmd'.depth = cmd.depth /\ cmd'.imgs = cmd.imgs /\ cmd'.nth = cmd.nth
          /\ cmd'.errs = cmd.errs
      BY <1>1, <1>4
    <3>3. cmd' \in Commands
      BY <1>1, <2>4, <3>1, <3>2
    <3> QED BY <3>2, <3>3
  <2>6. Typed'
    BY <1>1, <1>4, <2>5 DEF Typed, Steps
  <2>7. Below'
    <3>1. \A n \in 1 .. cmd.at : Layers(n) \in Chain
      BY <1>1, <1>2, ChainFacts DEF Layers
    <3>2. \A n \in 1 .. cmd.at : n = cmd.at \/ n \in 1 .. cmd.at - 1
      BY <1>2
    <3>3. \A n \in 1 .. cmd.at : Layers(n) \in SN!Keys'
      <4> SUFFICES ASSUME NEW n \in 1 .. cmd.at
                   PROVE  Layers(n) \in SN!Keys'
        OBVIOUS
      <4>1. CASE n = cmd.at
        BY <2>0, <2>3, <4>1 DEF SN!Exists
      <4>2. CASE n \in 1 .. cmd.at - 1
        BY <1>1, <2>3, <3>1, <4>2 DEF Below, SN!Exists
      <4> QED BY <3>2, <4>1, <4>2
    <3>4. cmd'.at - 1 = cmd.at /\ cmd'.at <= Len(cmd'.chain) + 1
      BY <1>2, <2>5
    <3> QED BY <2>5, <3>3, <3>4 DEF Below, Layers, SN!Exists
  <2>8. Mounting' /\ Archived' /\ pc' = "unpack"
    BY <1>1, <1>4, <2>5 DEF Mounting, Archived, FromArchive
  <2>9. StepSafe' /\ ReportedUnpacked'
    BY <2>7, <2>8 DEF StepSafe, ReportedUnpacked
  <2> QED BY <2>3, <2>6, <2>9 DEF IInv
<1>5. CASE SN!Remove(cmd.tmp) /\ UnpackFails
  <2>1. SnapsSafe'
    BY <1>1, <1>3, <1>5, KeysChildless, RemoveSafe DEF SnapsSafe
  <2> QED BY <1>1, <1>5, <2>1, UnpackFailsSafe
<1> QED BY <1>4, <1>5 DEF ApplyLayer
-----------------------------------------------------------------------------
(* Storing the images of an archive, and deleting those too many *)

LEMMA StoreImageSafe ==
  ASSUME ~MovingTags, IInv, StoreImage
  PROVE  IInv'
<1>1. /\ SnapsSafe /\ Typed /\ FromArchive /\ cmd \in Commands /\ cmd.imgs \in Archives
      /\ snaps' = snaps /\ pc = "store"
  BY DEF IInv, StepSafe, StoreImage, Typed
<1>2. /\ cmd.imgs \in Seq([name : Name, chain : Chain]) /\ Len(cmd.imgs) \in Nat
      /\ Len(cmd.imgs) # 0 /\ cmd.nth \in 1 .. Len(cmd.imgs) + 1
  BY <1>1, ArchivesAssumption, LenProperties, EmptySeq DEF Typed
<1>3. CASE /\ cmd.nth <= Len(cmd.imgs) /\ pc' = pc /\ cmd' = [cmd EXCEPT !.nth = @ + 1]
           /\ LET img == cmd.imgs[cmd.nth]
              IN images' = [images EXCEPT ![img.name] = img.chain]
  <2> DEFINE img == cmd.imgs[cmd.nth]
  <2>1. cmd.nth \in 1 .. Len(cmd.imgs)
    BY <1>2, <1>3
  <2>2. img \in [name : Name, chain : Chain]
    BY <1>2, <2>1, ElementOfSeq
  <2>3. MayName(img.name, img.chain, snaps)
    BY <1>1, <2>1 DEF IInv, StepSafe
  <2>4. SnapsSafe'
    BY <1>1, <1>3, <2>2, <2>3, ImageWriteSafe
  <2>5. /\ cmd' \in Commands /\ cmd'.op = cmd.op /\ cmd'.imgs = cmd.imgs
        /\ cmd'.nth = cmd.nth + 1
    <3> USE DEF Commands
    <3>1. DOMAIN cmd' = DOMAIN cmd /\ cmd' = [x \in DOMAIN cmd |-> cmd'[x]]
      BY <1>1, <1>3
    <3>2. /\ cmd'.op = cmd.op /\ cmd'.name = cmd.name /\ cmd'.chain = cmd.chain
          /\ cmd'.key = cmd.key /\ cmd'.unpack = cmd.unpack /\ cmd'.kind = cmd.kind
          /\ cmd'.at = cmd.at /\ cmd'.tmp = cmd.tmp /\ cmd'.walk = cmd.walk
          /\ cmd'.depth = cmd.depth /\ cmd'.imgs = cmd.imgs /\ cmd'.nth = cmd.nth + 1
          /\ cmd'.errs = cmd.errs
      BY <1>1, <1>3
    <3>3. cmd' \in Commands
      BY <1>1, <3>1, <3>2
    <3> QED BY <3>2, <3>3
  <2>6. Typed'
    BY <1>1, <1>2, <1>3, <2>1, <2>5 DEF Typed
  <2>7. StepSafe'
    <3>1. \A i \in cmd.nth + 1 .. Len(cmd.imgs) :
             \A s \in snaps : s.img = cmd.imgs[i].name => s.parent = cmd.imgs[i].chain
      BY <1>1, <1>2 DEF IInv, StepSafe, MayName
    <3> QED BY <1>1, <1>3, <2>5, <3>1 DEF StepSafe, MayName, FromArchive
  <2>8. ReportedUnpacked'
    BY <1>1, <1>3 DEF ReportedUnpacked
  <2> QED BY <2>4, <2>6, <2>7, <2>8 DEF IInv
<1>4. ASSUME images' = images PROVE SnapsSafe'
  BY <1>1, <1>4, UnchangedSafe
<1>5. CASE images' = images /\ Turn(1, "unpack")
  BY <1>1, <1>2, <1>4, <1>5, TurnSafe
<1>6. CASE images' = images /\ Imported
  BY <1>1, <1>4, <1>6, ImportedSafe
<1>7. CASE images' = images /\ Succeed
  BY <1>1, <1>4, <1>7, SucceedSafe
<1>8. CASE images' = images /\ Fail
  BY <1>4, <1>8, ExitSafe DEF Fail
<1> QED BY <1>3, <1>5, <1>6, <1>7, <1>8 DEF StoreImage

LEMMA DeleteNextSafe ==
  ASSUME Typed, cmd.op = "single", Archived, SnapsSafe', NEW failed \in BOOLEAN,
         DeleteNext(failed)
  PROVE  IInv'
<1>1. /\ cmd \in Commands /\ cmd.imgs \in Archives /\ cmd.nth \in 1 .. Len(cmd.imgs)
      /\ cmd.imgs \in Seq([name : Name, chain : Chain]) /\ Len(cmd.imgs) \in Nat
  BY ArchivesAssumption, LenProperties DEF Typed, Archived, FromArchive
<1> DEFINE errs == DeleteErrors(failed)
<1>2. errs \in BOOLEAN
  BY DEF DeleteErrors
<1>3. ASSUME NEW n \in 1 .. Len(cmd.imgs), pc' = "extra",
             cmd' = [cmd EXCEPT !.nth = n, !.errs = errs, !.name = cmd.imgs[n].name]
      PROVE  IInv'
  <2> DEFINE img == cmd.imgs[n]
  <2>1. img \in [name : Name, chain : Chain] /\ n \in Nat
    <3>1. n \in 1 .. Len(cmd.imgs) /\ n \in Nat
      BY <1>1
    <3>2. cmd.imgs[n] \in [name : Name, chain : Chain]
      BY <1>1, <3>1, ElementOfSeq
    <3> QED BY <3>1, <3>2
  <2>2. /\ cmd' \in Commands /\ cmd'.op = cmd.op /\ cmd'.imgs = cmd.imgs /\ cmd'.nth = n
        /\ cmd'.name = img.name
    <3> USE DEF Commands
    <3> HIDE DEF img, errs
    <3>1. DOMAIN cmd' = DOMAIN cmd /\ cmd' = [x \in DOMAIN cmd |-> cmd'[x]]
      BY <1>1, <1>3
    <3>2. /\ cmd'.op = cmd.op /\ cmd'.name = img.name /\ cmd'.chain = cmd.chain
          /\ cmd'.key = cmd.key /\ cmd'.unpack = cmd.unpack /\ cmd'.kind = cmd.kind
          /\ cmd'.at = cmd.at /\ cmd'.tmp = cmd.tmp /\ cmd'.walk = cmd.walk
          /\ cmd'.depth = cmd.depth /\ cmd'.imgs = cmd.imgs /\ cmd'.nth = n /\ cmd'.errs = errs
      BY <1>1, <1>3 DEF img
    <3>3. cmd' \in Commands
      BY <1>1, <1>2, <2>1, <3>1, <3>2
    <3> QED BY <3>2, <3>3
  <2>3. Typed'
    BY <1>1, <1>3, <2>2 DEF Typed, Steps
  <2>4. StepSafe' /\ ReportedUnpacked'
    BY <1>1, <1>3, <2>1, <2>2 DEF StepSafe, Archived, ReportedUnpacked
  <2> QED BY <2>3, <2>4 DEF IInv
<1>4. CASE Fail
  BY <1>4, ExitSafe DEF Fail
<1>5. CASE Succeed
  BY <1>5, SucceedSafe DEF FromArchive
<1>6. \/ Fail \/ Succeed
      \/ \E n \in 1 .. Len(cmd.imgs) :
            /\ pc' = "extra"
            /\ cmd' = [cmd EXCEPT !.nth = n, !.errs = errs, !.name = cmd.imgs[n].name]
  <2> HIDE DEF errs
  <2>1. 1 \in 1 .. Len(cmd.imgs)
    BY <1>1
  <2>2. cmd.nth < Len(cmd.imgs) => cmd.nth + 1 \in 1 .. Len(cmd.imgs)
    BY <1>1
  <2> QED BY <2>1, <2>2 DEF DeleteNext, errs
<1> QED BY <1>3, <1>4, <1>5, <1>6

LEMMA DeleteExtraSafe ==
  ASSUME IInv, DeleteExtra
  PROVE  IInv'
<1>1. /\ Typed /\ cmd.op = "single" /\ Archived /\ SnapsSafe' /\ cmd.name \in Name
      /\ images \in [Name -> Chain \cup {NoImage}]
  BY UnchangedSafe DEF IInv, SnapsSafe, SnapsTyped, StepSafe, DeleteExtra
<1>2. CASE DeleteNext(TRUE)
  BY <1>1, <1>2, DeleteNextSafe
<1>3. ASSUME images[cmd.name] # NoImage, pc' \in {"remove", "drop"},
             cmd' = [cmd EXCEPT !.chain = images[cmd.name], !.walk = images[cmd.name]]
      PROVE  IInv'
  <2>1. /\ cmd' \in Commands /\ cmd'.op = cmd.op /\ cmd'.imgs = cmd.imgs
        /\ cmd'.nth = cmd.nth
    BY <1>1, <1>3 DEF Typed, Commands
  <2>2. Typed'
    BY <1>1, <1>3, <2>1 DEF Typed, Steps
  <2>3. StepSafe' /\ ReportedUnpacked'
    BY <1>1, <1>3, <2>1 DEF StepSafe, Archived, FromArchive, ReportedUnpacked
  <2> QED BY <1>1, <2>2, <2>3 DEF IInv
<1> QED BY <1>2, <1>3 DEF DeleteExtra

-----------------------------------------------------------------------------
(* Mounting *)

LEMMA PrepareMountSafe ==
  ASSUME IInv, PrepareMount
  PROVE  IInv'
<1>1. /\ SnapsSafe /\ Typed /\ cmd \in Commands /\ cmd.chain \in Chain /\ cmd.op = "mount"
      /\ cmd.key \in Key /\ Mounting /\ (cmd.unpack => HasAllLayers) /\ images' = images
  BY DEF IInv, StepSafe, Mounting, PrepareMount, Typed, Commands
<1>2. /\ cmd.kind \in {"active", "view"} /\ cmd.name \in Name \cup {NoImage}
      /\ IF cmd.name = NoImage THEN cmd.chain = << >> ELSE images[cmd.name] = cmd.chain
  BY <1>1 DEF Commands, Mounting
<1>3. ASSUME Goto("mount"), SnapsSafe', \A k : SN!Exists(k) => SN!Exists(k)'
      PROVE  IInv'
  <2>1. cmd' = cmd /\ pc' = "mount"
    BY <1>3 DEF Goto
  <2>2. Typed' /\ ReportedUnpacked'
    BY <1>1, <2>1 DEF Typed, Steps, ReportedUnpacked
  <2>3. Mounting'
    BY <1>1, <2>1 DEF Mounting
  <2>4. cmd'.unpack => HasAllLayers'
    <3> SUFFICES ASSUME cmd.unpack, NEW n \in 1 .. Len(cmd.chain)
                 PROVE  Layers(n) \in SN!Keys'
      BY <2>1 DEF HasAllLayers, Layers, SN!Exists
    <3> QED BY <1>1, <1>3 DEF HasAllLayers, SN!Exists
  <2>5. StepSafe'
    BY <1>1, <2>1, <2>3, <2>4 DEF StepSafe
  <2> QED BY <1>3, <2>2, <2>5 DEF IInv
<1>4. CASE /\ SN!CanPrepare(cmd.key, cmd.chain) /\ Goto("mount")
           /\ SN!Prepare(cmd.key, cmd.kind, cmd.chain, cmd.name)
  <2>1. SnapsSafe' /\ \A k : SN!Exists(k) => SN!Exists(k)'
    BY <1>1, <1>2, <1>4, PrepareSafe
  <2> QED BY <1>3, <1>4, <2>1
<1>5. CASE Goto("mount") /\ snaps' = snaps
  <2>1. SnapsSafe' /\ \A k : SN!Exists(k) => SN!Exists(k)'
    BY <1>1, <1>5, UnchangedSafe DEF SN!Exists, SN!Keys
  <2> QED BY <1>3, <1>5, <2>1
<1>6. CASE Fail /\ snaps' = snaps
  BY <1>1, <1>6, UnchangedSafe, ExitSafe DEF Fail
<1> QED BY <1>4, <1>5, <1>6 DEF PrepareMount

LEMMA MountTargetSafe ==
  ASSUME IInv, MountTarget
  PROVE  IInv'
<1>1. /\ SnapsSafe /\ Typed /\ cmd.key \in Key /\ (cmd.unpack => HasAllLayers)
      /\ images' = images
  BY DEF IInv, StepSafe, Mounting, MountTarget
<1>2. CASE Succeed /\ snaps' = snaps
  <2>1. SnapsSafe'
    BY <1>1, <1>2, UnchangedSafe
  <2>2. HasAllLayers => HasAllLayers'
    BY <1>2 DEF Succeed, Goto, HasAllLayers, Layers, SN!Exists, SN!Keys
  <2> QED BY <1>1, <1>2, <2>1, <2>2, SucceedSafe
<1>3. CASE SN!Remove(cmd.key) /\ Fail
  <2>1. SnapsSafe'
    BY <1>1, <1>3, KeysChildless, RemoveSafe DEF SnapsSafe
  <2> QED BY <1>3, <2>1, ExitSafe DEF Fail
<1> QED BY <1>2, <1>3 DEF MountTarget

-----------------------------------------------------------------------------
(* Committing *)

LEMMA CommitSnapshotSafe ==
  ASSUME IInv, CommitSnapshot
  PROVE  IInv'
<1>1. /\ SnapsSafe /\ Typed /\ cmd \in Commands /\ cmd.chain \in Chain \ {<< >>}
      /\ cmd.op = "commit" /\ cmd.name \in Name /\ cmd.at = 1 /\ images' = images
      /\ MayName(cmd.name, cmd.chain, Remaining(cmd.chain, cmd.key))
  BY DEF IInv, StepSafe, CommitSnapshot, Typed, Commands
<1>2. PICK s \in snaps : s.key = cmd.key /\ s.parent = Front(cmd.chain)
  BY DEF IInv, StepSafe, CommitSnapshot
<1>3. SN!Info(cmd.key) = s
  BY <1>1, <1>2, InfoFacts DEF SnapsSafe
<1>4. ASSUME Goto("image"), SnapsSafe', MayName(cmd.name, cmd.chain, snaps')
      PROVE  IInv'
  <2>1. cmd' = cmd /\ pc' = "image"
    BY <1>4 DEF Goto
  <2>2. Typed' /\ ReportedUnpacked'
    BY <1>1, <2>1 DEF Typed, Steps, ReportedUnpacked
  <2>3. StepSafe'
    BY <1>1, <1>4, <2>1 DEF StepSafe, MayName
  <2> QED BY <1>4, <2>2, <2>3 DEF IInv
<1>5. CASE /\ SN!CanCommit(cmd.chain, cmd.key) /\ SN!Commit(cmd.chain, cmd.key)
           /\ Goto("image")
  <2>1. /\ SnapsSafe'
        /\ snaps' \subseteq (snaps \ {s}) \cup {SN!Snap(cmd.chain, "committed", s.parent, NoImage)}
    BY <1>1, <1>2, <1>3, <1>5, CommitSafe DEF SN!CanCommit
  <2>2. MayName(cmd.name, cmd.chain, snaps \ {s})
    BY <1>1, <1>3, <1>5 DEF Remaining
  <2>3. SN!Snap(cmd.chain, "committed", s.parent, NoImage).img # cmd.name
    BY <1>1, NoImageAssumption DEF SN!Snap
  <2>4. MayName(cmd.name, cmd.chain, snaps')
    BY <2>1, <2>2, <2>3 DEF MayName
  <2> QED BY <1>4, <1>5, <2>1, <2>4
<1>6. CASE SN!Exists(cmd.chain) /\ Goto("image") /\ snaps' = snaps
  <2>1. MayName(cmd.name, cmd.chain, snaps)
    BY <1>1, <1>6 DEF Remaining, SN!CanCommit
  <2> QED BY <1>1, <1>4, <1>6, <2>1, UnchangedSafe
<1>7. CASE Fail /\ snaps' = snaps
  BY <1>1, <1>7, UnchangedSafe, ExitSafe DEF Fail
<1> QED BY <1>5, <1>6, <1>7 DEF CommitSnapshot

LEMMA CommitImageSafe ==
  ASSUME ~MovingTags, IInv, CommitImage
  PROVE  IInv'
<1>1. /\ SnapsSafe /\ Typed /\ cmd \in Commands /\ cmd.chain \in Chain /\ cmd.op = "commit"
      /\ cmd.at = 1 /\ snaps' = snaps /\ MayName(cmd.name, cmd.chain, snaps)
  BY DEF IInv, StepSafe, CommitImage, Typed, Commands
<1>2. CASE images' = [images EXCEPT ![cmd.name] = cmd.chain] /\ Goto("unpack")
  <2>1. SnapsSafe'
    BY <1>1, <1>2, ImageWriteSafe
  <2>2. cmd' = cmd /\ pc' = "unpack"
    BY <1>2 DEF Goto
  <2>3. Typed' /\ ReportedUnpacked'
    BY <1>1, <2>2 DEF Typed, Steps, ReportedUnpacked
  <2>4. Below'
    BY <1>1, <2>2, ChainFacts, MaxLayersAssumption DEF Below
  <2>5. StepSafe'
    BY <1>1, <2>2, <2>4 DEF StepSafe, Mounting, Archived, FromArchive
  <2> QED BY <2>1, <2>3, <2>5 DEF IInv
<1>3. CASE Fail /\ images' = images
  BY <1>1, <1>3, UnchangedSafe, ExitSafe DEF Fail
<1> QED BY <1>2, <1>3 DEF CommitImage

-----------------------------------------------------------------------------
(* Removing *)

LEMMA DeletedSafe ==
  ASSUME Typed, cmd.op \in {"single", "delete"}, Archived, cmd.op # "single" => ~cmd.unpack,
         SnapsSafe', NEW failed \in BOOLEAN, Deleted(failed)
  PROVE  IInv'
<1>1. CASE cmd.op = "single"
  BY <1>1, DeleteNextSafe DEF Deleted
<1>2. CASE cmd.op # "single"
  BY <1>2, SucceedSafe, ExitSafe DEF Deleted, Fail
<1> QED BY <1>1, <1>2

LEMMA RemoveSnapshotSafe ==
  ASSUME IInv, RemoveSnapshot
  PROVE  IInv'
<1>1. /\ SnapsSafe /\ Typed /\ cmd \in Commands /\ Archived /\ images' = images
      /\ cmd.op \in {"single", "umount", "delete"} /\ (cmd.op # "single" => ~cmd.unpack)
      /\ pc = "remove"
  BY DEF IInv, StepSafe, RemoveSnapshot, Typed
<1>2. ASSUME snaps' = snaps PROVE SnapsSafe'
  BY <1>1, <1>2, UnchangedSafe
<1>3. ASSUME SN!CanRemove(cmd.walk), SN!Remove(cmd.walk) PROVE SnapsSafe'
  BY <1>1, <1>3, RemoveSafe DEF SN!CanRemove
<1>4. ASSUME Walked, SnapsSafe' PROVE IInv'
  <2>1. CASE cmd.op = "umount"
    BY <1>1, <1>4, <2>1, SucceedSafe DEF Walked
  <2>2. CASE cmd.op # "umount"
    <3>1. cmd' = cmd /\ pc' = "drop"
      BY <1>4, <2>2 DEF Walked, Goto
    <3>2. Typed' /\ ReportedUnpacked'
      BY <1>1, <3>1 DEF Typed, Steps, ReportedUnpacked
    <3>3. StepSafe'
      BY <1>1, <2>2, <3>1 DEF StepSafe, Archived, FromArchive
    <3> QED BY <1>4, <3>2, <3>3 DEF IInv
  <2> QED BY <2>1, <2>2
<1>5. CASE ~SN!CanRemove(cmd.walk) /\ Walked /\ snaps' = snaps
  BY <1>2, <1>4, <1>5
<1>6. CASE SN!CanRemove(cmd.walk) /\ SN!Remove(cmd.walk) /\ Walked
  BY <1>3, <1>4, <1>6
<1>7. CASE /\ SN!CanRemove(cmd.walk) /\ SN!Remove(cmd.walk) /\ pc' = pc
           /\ cmd' = [cmd EXCEPT !.walk = SN!Info(cmd.walk).parent,
                                 !.depth = IF @ > 0 THEN @ - 1 ELSE @]
  <2>1. PICK parent \in Chain : parent = SN!Info(cmd.walk).parent
    BY <1>1, <1>7, InfoFacts DEF SN!CanRemove, SnapsSafe, SnapsTyped, Snapshots
  <2>2. PICK depth \in Int : depth = IF cmd.depth > 0 THEN cmd.depth - 1 ELSE cmd.depth
    BY <1>1 DEF Commands
  <2>3. /\ cmd' \in Commands /\ cmd'.op = cmd.op /\ cmd'.imgs = cmd.imgs
        /\ cmd'.nth = cmd.nth /\ cmd'.unpack = cmd.unpack
    <3> USE DEF Commands
    <3>1. DOMAIN cmd' = DOMAIN cmd /\ cmd' = [x \in DOMAIN cmd |-> cmd'[x]]
      BY <1>1, <1>7
    <3>2. /\ cmd'.op = cmd.op /\ cmd'.name = cmd.name /\ cmd'.chain = cmd.chain
          /\ cmd'.key = cmd.key /\ cmd'.unpack = cmd.unpack /\ cmd'.kind = cmd.kind
          /\ cmd'.at = cmd.at /\ cmd'.tmp = cmd.tmp /\ cmd'.walk = parent /\ cmd'.depth = depth
          /\ cmd'.imgs = cmd.imgs /\ cmd'.nth = cmd.nth /\ cmd'.errs = cmd.errs
      BY <1>1, <1>7, <2>1, <2>2
    <3>3. cmd' \in Commands
      BY <1>1, <3>1, <3>2
    <3> QED BY <3>2, <3>3
  <2>4. Typed' /\ ReportedUnpacked'
    BY <1>1, <1>7, <2>3 DEF Typed, ReportedUnpacked
  <2>5. StepSafe'
    BY <1>1, <1>7, <2>3 DEF StepSafe, Archived, FromArchive
  <2> QED BY <1>3, <1>7, <2>4, <2>5 DEF IInv
<1>8. CASE WalkFails /\ snaps' = snaps
  <2>1. CASE cmd.op = "umount"
    BY <1>2, <1>8, <2>1, ExitSafe DEF WalkFails, Fail
  <2>2. CASE cmd.op # "umount"
    BY <1>1, <1>2, <1>8, <2>2, DeletedSafe DEF WalkFails
  <2> QED BY <2>1, <2>2
<1> QED BY <1>5, <1>6, <1>7, <1>8 DEF RemoveSnapshot

LEMMA DropImageSafe ==
  ASSUME ~MovingTags, IInv, DropImage
  PROVE  IInv'
<1>1. /\ SnapsSafe /\ Typed /\ Archived /\ snaps' = snaps
      /\ cmd.op \in {"single", "delete"} /\ (cmd.op # "single" => ~cmd.unpack)
  BY DEF IInv, StepSafe, DropImage
<1>2. CASE images' = [images EXCEPT ![cmd.name] = NoImage] /\ Deleted(FALSE)
  <2>1. SnapsSafe'
    BY <1>1, <1>2, ImageWriteSafe
  <2> QED BY <1>1, <1>2, <2>1, DeletedSafe
<1>3. CASE Deleted(TRUE) /\ images' = images
  BY <1>1, <1>3, UnchangedSafe, DeletedSafe
<1> QED BY <1>2, <1>3 DEF DropImage

-----------------------------------------------------------------------------
(* The theorems *)

LEMMA InitSafe == Init => IInv
<1> SUFFICES ASSUME Init PROVE IInv
  OBVIOUS
<1>1. cmd \in Commands /\ cmd.nth = 1 /\ cmd.imgs = << >>
  BY EmptyCommand DEF Init
<1>3. Typed
  <2>1. Len(cmd.imgs) = 0
    BY <1>1, EmptySeq
  <2> QED BY <1>1, <2>1 DEF Init, Typed
<1>4. SnapsSafe
  BY DEF Init, SnapsSafe, SnapsTyped, Kinds, Grounded, ChainsWhole, Labels
<1>5. StepSafe /\ ReportedUnpacked
  BY DEF Init, StepSafe, ReportedUnpacked
<1> QED BY <1>3, <1>4, <1>5 DEF IInv

LEMMA EndSafe ==
  ASSUME IInv, Finish \/ Kill
  PROVE  IInv'
BY UnchangedSafe, ExitSafe DEF IInv, Finish, Kill

LEMMA StutterSafe ==
  ASSUME IInv, UNCHANGED vars
  PROVE  IInv'
<1>1. SnapsSafe'
  BY UnchangedSafe DEF IInv, vars
<1>2. Typed' /\ ReportedUnpacked'
  BY DEF IInv, vars, Typed, ReportedUnpacked, HasAllLayers, Layers, FromArchive, SN!Exists,
         SN!Keys
<1>3. StepSafe'
  BY DEF IInv, vars, StepSafe, Below, Mounting, Archived, Present, HasAllLayers, Layers,
         FromArchive, MayName, Remaining, SN!CanCommit, SN!Info, SN!Exists, SN!Keys
<1> QED BY <1>1, <1>2, <1>3 DEF IInv

LEMMA NextSafe ==
  ASSUME ~MovingTags, IInv, [Next]_vars
  PROVE  IInv'
<1>1. ASSUME NEW name \in Name, NEW chain \in Remote, NEW unpack \in BOOLEAN,
             Pull(name, chain, unpack)
      PROVE  IInv'
  BY <1>1, PullSafe
<1>2. ASSUME NEW name \in Name, Unpack(name) PROVE IInv'
  BY <1>2, UnpackSafe
<1>3. ASSUME NEW name \in Name, Delete(name) PROVE IInv'
  BY <1>3, DeleteSafe
<1>4. ASSUME NEW op \in {"import", "single"}, NEW imgs \in Archives, NEW unpack \in BOOLEAN,
             Import(op, imgs, unpack)
      PROVE  IInv'
  BY <1>4, ImportSafe
<1>5. ASSUME NEW key \in Key, NEW name \in Name \cup {NoImage},
             NEW kind \in {"active", "view"}, NEW unpack \in BOOLEAN,
             Mount(name, key, kind, unpack)
      PROVE  IInv'
  BY <1>5, MountSafe
<1>6. ASSUME NEW key \in Key, NEW removeSnap \in {-1, 0, 1}, Umount(key, removeSnap)
      PROVE  IInv'
  BY <1>6, UmountSafe
<1>7. ASSUME NEW key \in Key, NEW name \in Name, NEW layer \in Layer, Commit(key, name, layer)
      PROVE  IInv'
  BY <1>7, CommitStartSafe
<1>8. CASE UnpackLayer \/ ApplyLayer
  BY <1>8, UnpackLayerSafe, ApplyLayerSafe
<1>9. CASE StoreImage \/ DeleteExtra
  BY <1>9, StoreImageSafe, DeleteExtraSafe
<1>10. CASE PrepareMount \/ MountTarget
  BY <1>10, PrepareMountSafe, MountTargetSafe
<1>11. CASE CommitSnapshot \/ CommitImage
  BY <1>11, CommitSnapshotSafe, CommitImageSafe
<1>12. CASE RemoveSnapshot \/ DropImage
  BY <1>12, RemoveSnapshotSafe, DropImageSafe
<1>13. CASE Finish \/ Kill
  BY <1>13, EndSafe
<1>14. CASE UNCHANGED vars
  BY <1>14, StutterSafe
<1> QED BY <1>1, <1>2, <1>3, <1>4, <1>5, <1>6, <1>7, <1>8, <1>9, <1>10, <1>11, <1>12, <1>13,
           <1>14 DEF Next

LEMMA Invariance == ASSUME ~MovingTags PROVE Spec => []IInv
<1>1. IInv /\ [Next]_vars => IInv'
  BY NextSafe
<1> QED BY <1>1, InitSafe, PTL DEF Spec

(***************************************************************************)
(* Every state the commands can reach, stopped anywhere by failures and    *)
(* kills, is one the code's types and step order allow (Store.TypeOK).     *)
(***************************************************************************)
THEOREM TypeCorrect == ASSUME ~MovingTags PROVE Spec => []TypeOK
<1>1. IInv => TypeOK
  <2> SUFFICES ASSUME IInv PROVE TypeOK
    OBVIOUS
  <2>1. cmd \in Commands /\ cmd.nth \in 1 .. Len(cmd.imgs) + 1 /\ pc \in Steps \cup {"idle", "ok"}
    BY DEF IInv, Typed
  <2>2. /\ cmd.chain \in Chain /\ cmd.at \in 1 .. MaxLayers + 1
        /\ cmd.op \in {"none", "pull", "import", "single", "unpack", "mount", "umount",
                        "commit", "delete"}
    BY <2>1 DEF Commands
  <2>3. images \in [Name -> Chain \cup {NoImage}] /\ \A s, t \in snaps : s.key = t.key => s = t
    BY DEF IInv, SnapsSafe, SnapsTyped
  <2>4. \A s \in snaps : /\ s.kind \in {"active", "view", "committed"} /\ s.parent \in Chain
                         /\ s.img \in Name \cup {NoImage}
    BY DEF IInv, SnapsSafe, SnapsTyped, Snapshots
  <2> QED BY <2>1, <2>2, <2>3, <2>4 DEF TypeOK
<1> QED BY <1>1, Invariance, PTL

(***************************************************************************)
(* Whatever the images, archives and failures, the committed snapshot of a *)
(* chain lies on that of its lower layers (unpack.go:67, commit.go:178).   *)
(***************************************************************************)
THEOREM ChainsStaySound == ASSUME ~MovingTags PROVE Spec => []ChainSound
<1>1. IInv => ChainSound
  BY DEF IInv, SnapsSafe, Grounded, ChainsWhole, ChainSound
<1> QED BY <1>1, Invariance, PTL

(***************************************************************************)
(* A pull, unpack, mount or commit that unpacks and reports success has    *)
(* every layer of its image in the snapshotter, although isUnpacked looks  *)
(* at the last layer only (image.go:55) and failures leave partial chains. *)
(***************************************************************************)
THEOREM ReportsAreTrue == ASSUME ~MovingTags PROVE Spec => []ReportedUnpacked
<1>1. IInv => ReportedUnpacked
  BY DEF IInv
<1> QED BY <1>1, Invariance, PTL

================================================================================
