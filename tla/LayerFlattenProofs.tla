--------------------------- MODULE LayerFlattenProofs ---------------------------
(***************************************************************************)
(* What TLAPS proves about flattening the layers of an image, for any      *)
(* paths and images.                                                       *)
(*                                                                         *)
(* Of every image: the types, and that no path is given out twice (Once):  *)
(* what is on disk, waits to be extracted or is a deferred hard link has   *)
(* been seen, and what has been seen is omitted.  Where layers have the    *)
(* directories their entries are in, and give no path as a directory and   *)
(* as a file, a file on disk also stays as it is: archive.Apply replaces a *)
(* directory with all below it, but the directories above a file are seen, *)
(* removed or yet to come (Guarded).                                       *)
(*                                                                         *)
(* Of every valid image: the extraction does not fail and leaves the tree  *)
(* the image specification describes.  Sound relates the disk, the lists   *)
(* and what hides paths to the entries that no layer above touches; the    *)
(* reference, bottom up, leaves at a path what the last layer touching it  *)
(* gives (Reach), which is the same entry.  The library's induction        *)
(* theorems are out of the provers' reach: what runs over the layers looks *)
(* at the least number for which it would be false (LeastNumber).          *)
(***************************************************************************)
EXTENDS LayerFlatten, SequenceTheorems, WellFoundedInduction, TLAPS

\* Lower layers' entries of this path are omitted.
Hidden(p) == IsParentWhiteout(p) \/ p \in seenPaths

DirEntry(q) == [path |-> q, kind |-> "dir", to |-> << >>]

\* The layer at hand; what it gave is hidden from now on.
Handling ==
  status = "layers" =>
    /\ layer \in 1 .. Len(image)
    /\ todo \subseteq image[layer].entries
    /\ \A e \in image[layer].entries \ todo : IsContent(e) => Hidden(e.path)

Links == 1 .. Len(hardlinks)

Once ==
  /\ \A p \in Path : IsFile(disk[p]) => p \in seenPaths
  /\ \A e \in accepted : /\ e.path \in seenPaths /\ ~IsFile(disk[e.path])
                         /\ e.kind \in {"dir", "file", "link"} /\ e.path \in Path
                         /\ e.kind = "link" => e.to \in Path
  /\ \A e, x \in accepted : e.path = x.path => e = x
  /\ \A i \in Links : /\ hardlinks[i].new \in seenPaths /\ ~IsFile(disk[hardlinks[i].new])
                      /\ \A e \in accepted : e.path # hardlinks[i].new
                      /\ \A j \in Links : hardlinks[i].new = hardlinks[j].new => i = j

IInv == TypeOK /\ Handling /\ Once

\* The directories above a file are seen, removed or yet to come.
Guarded ==
  status = "layers" =>
    /\ accepted \subseteq image[layer].entries
    /\ \A p, q \in Path : IsFile(disk[p]) /\ Above(q, p) => Hidden(q) \/ DirEntry(q) \in todo

\* A layer does not give a path both as a directory and as something else.
OneKind(img) ==
  \A n \in DOMAIN img : \A e \in img[n].entries :
     e.kind \in {"file", "link"} => DirEntry(e.path) \notin img[n].entries

\* A layer gives a path once.
GivenOnce(img) ==
  \A n \in DOMAIN img : \A e, x \in img[n].entries :
     IsContent(e) /\ IsContent(x) /\ e.path = x.path => e = x

\* The images the algorithm is right for.
Valid ==
  \A img \in Image : /\ ParentsPresent(img) /\ GivenOnce(img) /\ RemovesOnlyBelow(img)
                     /\ NoDirReplaced(img) /\ LinksStay(img)

\* A layer gives or removes the path; none above the n-th does.
Touches(img, n, p) ==
  (\E e \in img[n].entries : IsContent(e) /\ e.path = p) \/ Removed(img[n].entries, p)
Top(img, n, p) == \A m \in n + 1 .. Len(img) : ~Touches(img, m, p)

\* What layers made from directory trees are like.
FromTrees == \A img \in Image : ParentsPresent(img) /\ OneKind(img)

-----------------------------------------------------------------------------
(* Entries and trees *)

LEMMA ImageFacts ==
  ASSUME NEW img \in Image
  PROVE  /\ Len(img) \in Nat \ {0} /\ DOMAIN img = 1 .. Len(img)
         /\ \A n \in 1 .. Len(img) :
              /\ img[n].entries \subseteq Entry
              /\ \A e \in img[n].entries : /\ e.kind # "opaque" => e.path \in Path
                                           /\ e.kind = "link" => e.to \in Path
<1>1. img \in Seq([toc : BOOLEAN, entries : SUBSET Entry]) /\ img # << >>
  BY ImageAssumption
<1>2. Len(img) \in Nat \ {0} /\ DOMAIN img = 1 .. Len(img)
  BY <1>1, EmptySeq, LenProperties
<1>3. \A n \in 1 .. Len(img) : img[n] \in [toc : BOOLEAN, entries : SUBSET Entry]
  BY <1>1, ElementOfSeq
<1>4. \A n \in 1 .. Len(img) : \A e \in img[n].entries :
        (e.kind # "opaque" => e.path \in Path) /\ (e.kind = "link" => e.to \in Path)
  BY <1>2, ImageAssumption
<1> QED BY <1>2, <1>3, <1>4

\* An entry that is kept gives a path below the destination, not seen before.
LEMMA KeepFacts ==
  ASSUME IInv, NEW e, Keep(e)
  PROVE  /\ e \in Entry /\ e.path \in Path /\ e.path \notin seenPaths
         /\ ~IsParentWhiteout(e.path) /\ e.kind \in {"dir", "file", "link"}
         /\ e.kind = "link" => e.to \in Path
         /\ e \in image[layer].entries /\ layer \in 1 .. Len(image)
         /\ image \in Image /\ seenPaths' = seenPaths \cup {e.path}
         /\ status = "layers" /\ todo' = todo \ {e} /\ layer' = layer /\ image' = image
<1>1. /\ e \in image[layer].entries /\ layer \in 1 .. Len(image) /\ image \in Image
  BY DEF IInv, TypeOK, Handling, Keep
<1>2. /\ e \in Entry /\ (e.kind # "opaque" => e.path \in Path)
      /\ (e.kind = "link" => e.to \in Path)
  BY <1>1, ImageFacts
<1> QED BY <1>1, <1>2 DEF Keep, IsContent, Omitted

LEMMA NodeFacts ==
  ASSUME NEW n \in Nat
  PROVE  /\ Absent \in Node(n) /\ Dir(0) \in Node(n) /\ ~IsFile(Absent)
         /\ \A i : ~IsFile(Dir(i))
         /\ \A i \in 1 .. n, e \in Entry : e.path \in Path => NodeOf(e, i) \in Node(n)
BY DEF Absent, Dir, File, Node, IsFile, NodeOf

\* Placing an entry makes a file at its path at most, and leaves the others; a link none.
LEMMA PlacedFacts ==
  ASSUME NEW n \in Nat, NEW i \in 1 .. n, NEW tree \in [Path -> Node(n)], NEW e \in Entry,
         e.path \in Path
  PROVE  /\ Placed(tree, e, i) \in [Path -> Node(n)]
         /\ \A p \in Path : p # e.path \/ e.kind = "link" =>
              /\ IsFile(Placed(tree, e, i)[p]) <=> IsFile(tree[p])
              /\ IsFile(tree[p]) => Placed(tree, e, i)[p] = tree[p]
BY NodeFacts DEF Placed

LEMMA ClearedFacts ==
  ASSUME NEW n \in Nat, disk \in [Path -> Node(n)], NEW e
  PROVE  /\ Cleared(e) \in [Path -> Node(n)]
         /\ \A p \in Path : IsFile(Cleared(e)[p]) => Cleared(e)[p] = disk[p]
         /\ \A p \in Path : e.kind = "dir" \/ ~Above(e.path, p) => Cleared(e)[p] = disk[p]
BY NodeFacts DEF Cleared

\* Hidden paths stay hidden.
LEMMA HiddenStays ==
  ASSUME seenPaths \subseteq seenPaths', whiteouts \subseteq whiteouts', NEW p, Hidden(p)
  PROVE  Hidden(p)'
BY DEF Hidden, IsParentWhiteout

\* A link that is appended comes after the others.
LEMMA AppendedLink ==
  ASSUME NEW S, NEW s \in Seq(S), NEW l \in S
  PROVE  /\ Append(s, l) \in Seq(S) /\ Len(Append(s, l)) = Len(s) + 1 /\ Len(s) \in Nat
         /\ Append(s, l)[Len(s) + 1] = l
         /\ \A i \in 1 .. Len(s) : Append(s, l)[i] = s[i]
         /\ \A i \in 1 .. Len(s) + 1 : i \in 1 .. Len(s) \/ i = Len(s) + 1
BY AppendProperties

LEMMA FirstLink ==
  ASSUME NEW S, NEW s \in Seq(S), s # << >>
  PROVE  /\ Head(s) = s[1] /\ s[1] \in S /\ 1 \in 1 .. Len(s) /\ Tail(s) \in Seq(S)
         /\ \A i \in 1 .. Len(Tail(s)) :
              i + 1 \in 1 .. Len(s) /\ i + 1 # 1 /\ Tail(s)[i] = s[i + 1]
<1>1. Len(s) \in Nat \ {0}
  BY EmptySeq, LenProperties
<1>2. Tail(s) \in Seq(S) /\ Len(Tail(s)) = Len(s) - 1
  BY HeadTailProperties
<1>3. \A i \in 1 .. Len(Tail(s)) : Tail(s)[i] = s[i + 1]
  BY HeadTailProperties
<1>4. Head(s) = s[1] /\ s[1] \in S
  BY <1>1, ElementOfSeq
<1> QED BY <1>1, <1>2, <1>3, <1>4

-----------------------------------------------------------------------------
(* The filter *)

\* The list of links is a list of pairs of paths.
LEMMA LinksTyped ==
  ASSUME TypeOK
  PROVE  /\ hardlinks \in Seq([old : Path, new : Path]) /\ Len(hardlinks) \in Nat
         /\ \A i \in Links : hardlinks[i] \in [old : Path, new : Path]
BY ElementOfSeq, LenProperties DEF TypeOK, Links

\* What happens to an entry does not unhide the others'.
LEMMA HandledStays ==
  ASSUME Handling, layer' = layer, image' = image, todo' \subseteq todo,
         status' = "layers" => status = "layers",
         seenPaths \subseteq seenPaths', whiteouts \subseteq whiteouts',
         \A e \in todo \ todo' : IsContent(e) => Hidden(e.path)'
  PROVE  Handling'
<1> SUFFICES ASSUME status' = "layers" PROVE Handling'
  BY DEF Handling
<1>1. /\ layer \in 1 .. Len(image) /\ todo \subseteq image[layer].entries
      /\ \A e \in image[layer].entries \ todo : IsContent(e) => Hidden(e.path)
  BY DEF Handling
<1>2. \A p : Hidden(p) => Hidden(p)'
  BY HiddenStays
<1>3. \A e \in image[layer].entries \ todo' : IsContent(e) => Hidden(e.path)'
  BY <1>1, <1>2
<1> QED BY <1>1, <1>3 DEF Handling

LEMMA OnceStays ==
  ASSUME Once, UNCHANGED <<accepted, hardlinks, disk>>, seenPaths \subseteq seenPaths'
  PROVE  Once'
BY DEF Once, Links

LEMMA FilterWhiteoutSafe ==
  ASSUME IInv, NEW e, FilterWhiteout(e)
  PROVE  IInv'
<1>1. /\ TypeOK /\ layer \in 1 .. Len(image) /\ image \in Image
      /\ e \in image[layer].entries
  BY DEF IInv, TypeOK, Handling, FilterWhiteout
<1>2. e \in Entry /\ (e.kind # "opaque" => e.path \in Path)
  BY <1>1, ImageFacts
<1>3. e.kind \in {"opaque", "whiteout"}
  BY DEF FilterWhiteout
<1>4. TypeOK'
  BY <1>1, <1>2 DEF TypeOK, FilterWhiteout, Entry
<1>5. seenPaths \subseteq seenPaths' /\ whiteouts \subseteq whiteouts'
  BY DEF FilterWhiteout
<1>6. Handling'
  BY <1>3, <1>5, HandledStays DEF IInv, FilterWhiteout, IsContent
<1>7. Once'
  BY <1>5, OnceStays DEF IInv, FilterWhiteout
<1> QED BY <1>4, <1>6, <1>7 DEF IInv

LEMMA OmitSafe ==
  ASSUME IInv, NEW e, Omit(e)
  PROVE  IInv'
<1>1. UNCHANGED <<image, layer, accepted, seenPaths, whiteouts, pendingOpqs, hardlinks, disk, status>>
  BY DEF Omit, lCtx
<1>2. TypeOK'
  BY <1>1 DEF IInv, TypeOK, Omit
<1>3. Hidden(e.path)'
  BY <1>1 DEF Omit, Omitted, Hidden, IsParentWhiteout
<1>4. Handling'
  BY <1>1, <1>3, HandledStays DEF IInv, Omit
<1>5. Once'
  BY <1>1, OnceStays DEF IInv
<1> QED BY <1>2, <1>4, <1>5 DEF IInv

\* What keeping an entry means for the layer and the links.
LEMMA KeptHandling ==
  ASSUME IInv, NEW e, Keep(e), status' \in {"layers", "failed"}
  PROVE  Handling'
<1>1. Hidden(e.path)'
  BY KeepFacts DEF Hidden
<1>2. /\ seenPaths \subseteq seenPaths' /\ whiteouts' = whiteouts /\ status = "layers"
      /\ layer' = layer /\ image' = image /\ todo' = todo \ {e}
  BY KeepFacts DEF Keep
<1> QED BY <1>1, <1>2, HandledStays DEF IInv

\* The path of an entry that is kept is none that was given out.
LEMMA KeptOnce ==
  ASSUME IInv, NEW e, Keep(e)
  PROVE  /\ ~IsFile(disk[e.path]) /\ \A x \in accepted : x.path # e.path
         /\ \A i \in Links : hardlinks[i].new # e.path
BY KeepFacts DEF IInv, Once

\* The links with that of an entry, if it is one: it comes after the others, and no other
\* has its path.
LEMMA WithLinkFacts ==
  ASSUME IInv, NEW e, e.path \in Path, e.kind = "link" => e.to \in Path,
         \A i \in Links : hardlinks[i].new # e.path, hardlinks' = WithLink(e)
  PROVE  /\ hardlinks' \in Seq([old : Path, new : Path])
         /\ \A i \in Links : i \in Links' /\ hardlinks'[i] = hardlinks[i]
         /\ \A i \in Links' :
              \/ i \in Links /\ hardlinks'[i] = hardlinks[i]
              \/ e.kind = "link" /\ hardlinks'[i] = [old |-> e.to, new |-> e.path]
         /\ e.kind = "link" =>
              \E i \in Links' : hardlinks'[i] = [old |-> e.to, new |-> e.path]
         /\ \A i, j \in Links' : hardlinks'[i].new = hardlinks'[j].new => i = j
<1>1. hardlinks \in Seq([old : Path, new : Path]) /\ Len(hardlinks) \in Nat
  BY LinksTyped DEF IInv
<1>2. \A i, j \in Links : hardlinks[i].new = hardlinks[j].new => i = j
  BY DEF IInv, Once
<1>3. CASE e.kind = "link"
  <2> DEFINE link == [old |-> e.to, new |-> e.path]
             n == Len(hardlinks) + 1
  <2>1. link \in [old : Path, new : Path] /\ link.new = e.path
    BY <1>3
  <2>2. hardlinks' = Append(hardlinks, link)
    BY <1>3 DEF WithLink
  <2> HIDE DEF link
  <2>3. /\ hardlinks' \in Seq([old : Path, new : Path])
        /\ Len(hardlinks') = n /\ hardlinks'[n] = link
        /\ \A i \in Links : hardlinks'[i] = hardlinks[i]
        /\ \A i \in Links' : i \in Links \/ i = n
    BY <1>1, <2>1, <2>2, AppendedLink DEF Links
  <2>4. n \in Links' /\ Links \subseteq Links'
    BY <1>1, <2>3 DEF Links
  <2> HIDE DEF n
  <2>5. \A i, j \in Links' : hardlinks'[i].new = hardlinks'[j].new => i = j
    <3> SUFFICES ASSUME NEW i \in Links', NEW j \in Links',
                        hardlinks'[i].new = hardlinks'[j].new
                 PROVE  i = j
      OBVIOUS
    <3>1. CASE i \in Links /\ j \in Links
      <4>1. hardlinks'[i] = hardlinks[i] /\ hardlinks'[j] = hardlinks[j]
        BY <2>3, <3>1
      <4>2. hardlinks[i].new = hardlinks[j].new
        BY <4>1
      <4> QED BY <1>2, <3>1, <4>2
    <3>2. CASE i \in Links /\ j = n
      BY <2>1, <2>3, <3>2
    <3>3. CASE i = n /\ j \in Links
      BY <2>1, <2>3, <3>3
    <3> QED BY <2>3, <3>1, <3>2, <3>3
  <2> QED BY <1>3, <2>3, <2>4, <2>5 DEF link
<1>4. CASE e.kind # "link"
  <2>1. hardlinks' = hardlinks /\ Links' = Links
    BY <1>4 DEF WithLink, Links
  <2> QED BY <1>1, <1>2, <1>4, <2>1
<1> QED BY <1>3, <1>4

\* The link of an entry that has its path to itself has so too, while no file is there.
LEMMA LinksApart ==
  ASSUME IInv, NEW e, e.path \in seenPaths', seenPaths \subseteq seenPaths',
         \A i \in Links' :
           \/ i \in Links /\ hardlinks'[i] = hardlinks[i]
           \/ e.kind = "link" /\ hardlinks'[i] = [old |-> e.to, new |-> e.path],
         e.kind = "link" => ~IsFile(disk'[e.path]) /\ \A x \in accepted' : x.path # e.path,
         \A x \in accepted' : x \in accepted \/ x = e,
         \A p \in Path : IsFile(disk'[p]) => IsFile(disk[p]) \/ (p = e.path /\ e.kind # "link"),
         \A i \in Links : hardlinks[i].new # e.path
  PROVE  \A i \in Links' :
           /\ hardlinks'[i].new \in seenPaths' /\ ~IsFile(disk'[hardlinks'[i].new])
           /\ \A x \in accepted' : x.path # hardlinks'[i].new
<1>1. \A i \in Links :
        /\ hardlinks[i].new \in seenPaths /\ ~IsFile(disk[hardlinks[i].new])
        /\ \A x \in accepted : x.path # hardlinks[i].new
        /\ hardlinks[i].new \in Path
  BY LinksTyped DEF IInv, Once
<1> SUFFICES ASSUME NEW i \in Links'
             PROVE  /\ hardlinks'[i].new \in seenPaths' /\ ~IsFile(disk'[hardlinks'[i].new])
                    /\ \A x \in accepted' : x.path # hardlinks'[i].new
  OBVIOUS
<1>2. CASE i \in Links /\ hardlinks'[i] = hardlinks[i]
  <2> DEFINE new == hardlinks[i].new
  <2>1. /\ new \in seenPaths /\ ~IsFile(disk[new]) /\ new \in Path /\ new # e.path
        /\ \A x \in accepted : x.path # new
    BY <1>1, <1>2
  <2>2. hardlinks'[i].new = new
    BY <1>2
  <2> HIDE DEF new
  <2>3. new \in seenPaths' /\ ~IsFile(disk'[new]) /\ \A x \in accepted' : x.path # new
    BY <2>1
  <2> QED BY <2>2, <2>3
<1>3. CASE e.kind = "link" /\ hardlinks'[i] = [old |-> e.to, new |-> e.path]
  BY <1>3
<1> QED BY <1>2, <1>3

-----------------------------------------------------------------------------
(* Writing *)

LEMMA ApplyEntrySafe ==
  ASSUME IInv, NEW e, ApplyEntry(e)
  PROVE  IInv'
<1>1. /\ Keep(e) /\ accepted' = accepted /\ TypeOK /\ hardlinks' = WithLink(e)
      /\ \/ disk' = disk /\ status' \in {"layers", "failed"}
         \/ /\ e.kind # "link" /\ status' = status
            /\ disk' = Placed(Cleared(e), e, layer)
  BY DEF ApplyEntry, IInv, Keep
<1>2. /\ e \in Entry /\ e.path \in Path /\ layer \in 1 .. Len(image) /\ image \in Image
      /\ seenPaths' = seenPaths \cup {e.path} /\ status = "layers" /\ todo' = todo \ {e}
      /\ layer' = layer /\ image' = image /\ Len(image) \in Nat
      /\ e.kind = "link" => e.to \in Path
      /\ ~IsFile(disk[e.path]) /\ \A x \in accepted : x.path # e.path
      /\ \A i \in Links : hardlinks[i].new # e.path
  BY <1>1, KeepFacts, KeptOnce, ImageFacts
<1>3. Cleared(e) \in [Path -> Node(Len(image))]
  BY <1>1, <1>2, ClearedFacts DEF TypeOK
<1>4. /\ disk' \in [Path -> Node(Len(image))]
      /\ \A p \in Path : IsFile(disk'[p]) => IsFile(disk[p]) \/ (p = e.path /\ e.kind # "link")
  <2>1. CASE disk' = disk
    BY <1>1, <2>1 DEF TypeOK
  <2>2. CASE e.kind # "link" /\ disk' = Placed(Cleared(e), e, layer)
    <3>1. \A p \in Path : p # e.path => (IsFile(disk'[p]) <=> IsFile(Cleared(e)[p]))
      BY <1>2, <1>3, <2>2, PlacedFacts
    <3>2. \A p \in Path : IsFile(Cleared(e)[p]) => IsFile(disk[p])
      BY <1>1, <1>2, ClearedFacts DEF TypeOK
    <3>3. disk' \in [Path -> Node(Len(image))]
      BY <1>2, <1>3, <2>2, PlacedFacts
    <3> QED BY <2>2, <3>1, <3>2, <3>3
  <2> QED BY <1>1, <2>1, <2>2
<1>5. /\ hardlinks' \in Seq([old : Path, new : Path])
      /\ \A i \in Links' :
           \/ i \in Links /\ hardlinks'[i] = hardlinks[i]
           \/ e.kind = "link" /\ hardlinks'[i] = [old |-> e.to, new |-> e.path]
      /\ \A i, j \in Links' : hardlinks'[i].new = hardlinks'[j].new => i = j
  BY <1>1, <1>2, WithLinkFacts
<1>6. TypeOK'
  <2>1. whiteouts' = whiteouts /\ pendingOpqs' = pendingOpqs
    BY <1>1 DEF Keep
  <2> QED BY <1>1, <1>2, <1>4, <1>5, <2>1 DEF TypeOK
<1>7. Handling'
  BY <1>1, <1>2, KeptHandling
<1>8. Once'
  <2>1. \A p \in Path : IsFile(disk'[p]) => p \in seenPaths'
    BY <1>2, <1>4 DEF IInv, Once
  <2>2. \A x \in accepted' : /\ x.path \in seenPaths' /\ ~IsFile(disk'[x.path])
                             /\ x.kind \in {"dir", "file", "link"} /\ x.path \in Path
                             /\ x.kind = "link" => x.to \in Path
    BY <1>1, <1>2, <1>4 DEF IInv, Once
  <2>3. e.kind = "link" => ~IsFile(disk'[e.path])
    BY <1>2, <1>4
  <2>4. \A i \in Links' :
          /\ hardlinks'[i].new \in seenPaths' /\ ~IsFile(disk'[hardlinks'[i].new])
          /\ \A x \in accepted' : x.path # hardlinks'[i].new
    BY <1>1, <1>2, <1>4, <1>5, <2>3, LinksApart
  <2>5. \A x, y \in accepted' : x.path = y.path => x = y
    BY <1>1 DEF IInv, Once
  <2>6. \A i \in Links' :
          /\ hardlinks'[i].new \in seenPaths' /\ ~IsFile(disk'[hardlinks'[i].new])
          /\ \A x \in accepted' : x.path # hardlinks'[i].new
          /\ \A j \in Links' : hardlinks'[i].new = hardlinks'[j].new => i = j
    BY <1>5, <2>4
  <2> QED BY <2>1, <2>2, <2>5, <2>6, Zenon DEF Once
<1> QED BY <1>6, <1>7, <1>8 DEF IInv

LEMMA AcceptEntrySafe ==
  ASSUME IInv, NEW e, AcceptEntry(e)
  PROVE  IInv'
<1>1. /\ Keep(e) /\ TypeOK /\ disk' = disk /\ status' = status /\ hardlinks' = hardlinks
      /\ accepted' = accepted \cup {e}
  BY DEF AcceptEntry, IInv
<1>2. /\ e \in Entry /\ e.path \in Path /\ e.kind \in {"dir", "file", "link"}
      /\ seenPaths' = seenPaths \cup {e.path} /\ status = "layers" /\ todo' = todo \ {e}
      /\ layer' = layer /\ image' = image /\ (e.kind = "link" => e.to \in Path)
      /\ ~IsFile(disk[e.path]) /\ \A x \in accepted : x.path # e.path
      /\ \A i \in Links : hardlinks[i].new # e.path
  BY <1>1, KeepFacts, KeptOnce
<1>3. TypeOK'
  <2>1. whiteouts' = whiteouts /\ pendingOpqs' = pendingOpqs
    BY <1>1 DEF Keep
  <2> QED BY <1>1, <1>2, <2>1 DEF TypeOK
<1>4. Handling'
  BY <1>1, <1>2, KeptHandling
<1>5. Once'
  <2>1. \A p \in Path : IsFile(disk'[p]) => p \in seenPaths'
    BY <1>1, <1>2 DEF IInv, Once
  <2>2. \A x \in accepted' : /\ x.path \in seenPaths' /\ ~IsFile(disk'[x.path])
                             /\ x.kind \in {"dir", "file", "link"} /\ x.path \in Path
                             /\ x.kind = "link" => x.to \in Path
    BY <1>1, <1>2 DEF IInv, Once
  <2>3. \A i \in Links' :
          /\ hardlinks'[i].new \in seenPaths' /\ ~IsFile(disk'[hardlinks'[i].new])
          /\ \A x \in accepted' : x.path # hardlinks'[i].new
          /\ \A j \in Links' : hardlinks'[i].new = hardlinks'[j].new => i = j
    BY <1>1, <1>2 DEF IInv, Once, Links
  <2>4. \A x, y \in accepted' : x.path = y.path => x = y
    BY <1>1, <1>2 DEF IInv, Once
  <2> QED BY <2>1, <2>2, <2>3, <2>4, Zenon DEF Once
<1> QED BY <1>3, <1>4, <1>5 DEF IInv

\* Extracting an accepted entry: no file takes the place of another.
LEMMA ExtractSafe ==
  ASSUME IInv, NEW e \in accepted, Extract(e)
  PROVE  IInv'
<1>1. /\ TypeOK /\ Once /\ Handling /\ status = "layers" /\ accepted' = accepted \ {e}
      /\ UNCHANGED <<image, layer, todo, seenPaths, whiteouts, pendingOpqs>>
      /\ \/ UNCHANGED <<hardlinks, disk>> /\ status' = "failed"
         \/ /\ disk' = Placed(disk, e, layer) /\ hardlinks' = WithLink(e)
            /\ status' = status
  BY DEF IInv, Extract
<1>2. /\ image \in Image /\ layer \in 1 .. Len(image) /\ Len(image) \in Nat
      /\ e \in Entry /\ e.path \in Path /\ (e.kind = "link" => e.to \in Path)
      /\ e.path \in seenPaths /\ ~IsFile(disk[e.path])
      /\ \A i \in Links : hardlinks[i].new # e.path
  BY <1>1, ImageFacts DEF TypeOK, Handling, Once
<1>3. /\ disk' \in [Path -> Node(Len(image))]
      /\ \A p \in Path : p # e.path \/ e.kind = "link" => (IsFile(disk'[p]) <=> IsFile(disk[p]))
  BY <1>1, <1>2, PlacedFacts DEF TypeOK
<1>4. /\ hardlinks' \in Seq([old : Path, new : Path])
      /\ \A i \in Links' :
           \/ i \in Links /\ hardlinks'[i] = hardlinks[i]
           \/ e.kind = "link" /\ hardlinks'[i] = [old |-> e.to, new |-> e.path]
      /\ \A i, j \in Links' : hardlinks'[i].new = hardlinks'[j].new => i = j
  <2>1. CASE hardlinks' = hardlinks
    BY <1>1, <2>1 DEF Once, Links, TypeOK
  <2>2. CASE hardlinks' = WithLink(e)
    BY <1>2, <2>2, WithLinkFacts
  <2> QED BY <1>1, <2>1, <2>2
<1>5. TypeOK'
  BY <1>1, <1>2, <1>3, <1>4 DEF TypeOK
<1>6. Handling'
  BY <1>1, <1>2, HandledStays
<1>7. Once'
  <2>1. \A p \in Path : IsFile(disk'[p]) => p \in seenPaths'
    BY <1>1, <1>2, <1>3 DEF Once
  <2>2. \A x \in accepted' : x \in accepted /\ x.path # e.path
    BY <1>1 DEF Once
  <2>3. \A x \in accepted' : /\ x.path \in seenPaths' /\ ~IsFile(disk'[x.path])
                             /\ x.kind \in {"dir", "file", "link"} /\ x.path \in Path
                             /\ x.kind = "link" => x.to \in Path
    BY <1>1, <1>2, <1>3, <2>2 DEF Once
  <2>4. \A p \in Path : IsFile(disk'[p]) => IsFile(disk[p]) \/ (p = e.path /\ e.kind # "link")
    BY <1>3
  <2>5. e.kind = "link" => ~IsFile(disk'[e.path]) /\ \A x \in accepted' : x.path # e.path
    BY <1>2, <1>3, <2>2
  <2>6. \A i \in Links' :
          /\ hardlinks'[i].new \in seenPaths' /\ ~IsFile(disk'[hardlinks'[i].new])
          /\ \A x \in accepted' : x.path # hardlinks'[i].new
    BY <1>1, <1>2, <1>4, <2>2, <2>4, <2>5, LinksApart
  <2>7. \A x, y \in accepted' : x.path = y.path => x = y
    BY <1>1, <2>2 DEF Once
  <2>8. \A i \in Links' :
          /\ hardlinks'[i].new \in seenPaths' /\ ~IsFile(disk'[hardlinks'[i].new])
          /\ \A x \in accepted' : x.path # hardlinks'[i].new
          /\ \A j \in Links' : hardlinks'[i].new = hardlinks'[j].new => i = j
    BY <1>4, <2>6
  <2> QED BY <2>1, <2>3, <2>7, <2>8, Zenon DEF Once
<1> QED BY <1>5, <1>6, <1>7 DEF IInv

-----------------------------------------------------------------------------
(* Between and after the layers *)

\* A layer is over: nothing of it is left, and the next one begins untouched.
LEMMA NextLayerSafe ==
  ASSUME IInv, NextLayer
  PROVE  IInv'
<1>1. /\ TypeOK /\ Once /\ image \in Image /\ layer \in 1 .. Len(image)
      /\ image' = image /\ layer' = layer - 1
      /\ UNCHANGED <<accepted, seenPaths, hardlinks, disk>>
      /\ whiteouts' = whiteouts \cup pendingOpqs /\ pendingOpqs' = {}
  BY DEF IInv, TypeOK, Handling, NextLayer
<1>2. /\ Len(image) \in Nat
      /\ \A n \in 1 .. Len(image) : image[n].entries \subseteq Entry
  BY <1>1, ImageFacts
<1>3. CASE layer = 1
  <2>1. status' = "links" /\ todo' = {}
    BY <1>3 DEF NextLayer
  <2>2. TypeOK'
    BY <1>1, <1>2, <2>1 DEF TypeOK
  <2>3. Handling'
    BY <2>1 DEF Handling
  <2> QED BY <1>1, <2>2, <2>3, OnceStays DEF IInv
<1>4. CASE layer # 1
  <2>1. /\ status' = status /\ todo' = image[layer - 1].entries
        /\ layer - 1 \in 1 .. Len(image) /\ layer - 1 \in 0 .. Len(image)
    BY <1>1, <1>2, <1>4 DEF NextLayer
  <2>2. TypeOK'
    BY <1>1, <1>2, <2>1 DEF TypeOK
  <2>3. Handling'
    BY <1>1, <2>1 DEF Handling
  <2> QED BY <1>1, <2>2, <2>3, OnceStays DEF IInv
<1> QED BY <1>3, <1>4

\* What is left of the links when one has been created.
LEMMA RestOfLinks ==
  ASSUME IInv, CreateHardLink
  PROVE  /\ hardlinks[1] \in [old : Path, new : Path] /\ Head(hardlinks) = hardlinks[1]
         /\ hardlinks' \in Seq([old : Path, new : Path])
         /\ \A i \in Links' :
              /\ i + 1 \in Links /\ hardlinks'[i] = hardlinks[i + 1]
              /\ hardlinks'[i].new # hardlinks[1].new
         /\ 1 \in Links
         /\ \A i \in Links : i # 1 => i - 1 \in Links' /\ hardlinks'[i - 1] = hardlinks[i]
<1>1. /\ hardlinks \in Seq([old : Path, new : Path]) /\ hardlinks # << >>
      /\ hardlinks' = Tail(hardlinks)
      /\ \A i, j \in Links : hardlinks[i].new = hardlinks[j].new => i = j
  BY DEF IInv, TypeOK, Once, CreateHardLink
<1>2. /\ Head(hardlinks) = hardlinks[1] /\ hardlinks[1] \in [old : Path, new : Path]
      /\ 1 \in Links /\ hardlinks' \in Seq([old : Path, new : Path])
      /\ \A i \in Links' : i + 1 \in Links /\ i + 1 # 1 /\ hardlinks'[i] = hardlinks[i + 1]
  BY <1>1, FirstLink DEF Links
<1>3. \A j \in Links : j # 1 => hardlinks[j].new # hardlinks[1].new
  BY <1>1, <1>2
<1>4. \A i \in Links' : hardlinks'[i].new # hardlinks[1].new
  BY <1>2, <1>3
<1>5. Len(hardlinks) \in Nat /\ Len(hardlinks') = Len(hardlinks) - 1
  BY <1>1, LenProperties, HeadTailProperties
<1>6. \A i \in Links : i # 1 => i - 1 \in Links'
  BY <1>5 DEF Links
<1>7. \A i \in Links : i # 1 => hardlinks'[i - 1] = hardlinks[i]
  <2> TAKE i \in Links
  <2>1. i \in Int
    BY DEF Links
  <2>2. (i - 1) + 1 = i
    BY <2>1
  <2> QED BY <1>2, <1>6, <2>2
<1> QED BY <1>2, <1>4, <1>6, <1>7

LEMMA CreateHardLinkSafe ==
  ASSUME IInv, CreateHardLink
  PROVE  IInv'
<1> DEFINE link == hardlinks[1]
<1>1. /\ TypeOK /\ Once /\ link \in [old : Path, new : Path] /\ Head(hardlinks) = link
      /\ hardlinks' \in Seq([old : Path, new : Path])
      /\ \A i \in Links' : /\ i + 1 \in Links /\ hardlinks'[i] = hardlinks[i + 1]
                           /\ hardlinks'[i].new # link.new
  BY RestOfLinks DEF IInv
<1>2. /\ status = "links"
      /\ UNCHANGED <<image, layer, todo, accepted, seenPaths, whiteouts, pendingOpqs>>
      /\ \/ disk' = [disk EXCEPT ![link.new] = disk[link.old]] /\ status' = status
         \/ disk' = disk /\ status' = "failed"
  BY <1>1 DEF CreateHardLink
<1>3. link.new \in seenPaths /\ \A x \in accepted : x.path # link.new
  BY <1>1, FirstLink DEF Once, Links, TypeOK, CreateHardLink
<1> HIDE DEF link
<1>4. /\ disk' \in [Path -> Node(Len(image))]
      /\ \A p \in Path : p # link.new => disk'[p] = disk[p]
  BY <1>1, <1>2 DEF TypeOK
<1>5. TypeOK'
  BY <1>1, <1>2, <1>4 DEF TypeOK
<1>6. Handling'
  BY <1>2 DEF Handling
<1>7. Once'
  <2>1. \A p \in Path : IsFile(disk'[p]) => p \in seenPaths'
    BY <1>1, <1>2, <1>3, <1>4 DEF Once
  <2>2. \A x \in accepted' : /\ x.path \in seenPaths' /\ ~IsFile(disk'[x.path])
                             /\ x.kind \in {"dir", "file", "link"} /\ x.path \in Path
                             /\ x.kind = "link" => x.to \in Path
    BY <1>1, <1>2, <1>3, <1>4 DEF Once
  <2>3. \A i \in Links : hardlinks[i].new \in Path
    BY <1>1, LinksTyped
  <2>4. \A i \in Links : /\ hardlinks[i].new \in seenPaths /\ ~IsFile(disk[hardlinks[i].new])
                         /\ \A x \in accepted : x.path # hardlinks[i].new
    BY <1>1 DEF Once
  <2>5. \A i \in Links' :
          /\ hardlinks'[i].new \in seenPaths' /\ ~IsFile(disk'[hardlinks'[i].new])
          /\ \A x \in accepted' : x.path # hardlinks'[i].new
    BY <1>1, <1>2, <1>4, <2>3, <2>4
  <2>6. \A i, j \in Links : hardlinks[i].new = hardlinks[j].new => i = j
    BY <1>1 DEF Once
  <2>7. \A i, j \in Links' : hardlinks'[i].new = hardlinks'[j].new => i = j
    <3>1. Links' \subseteq Int
      BY DEF Links
    <3> QED BY <1>1, <2>6, <3>1
  <2>8. \A x, y \in accepted' : x.path = y.path => x = y
    BY <1>1, <1>2 DEF Once
  <2>9. \A i \in Links' :
          /\ hardlinks'[i].new \in seenPaths' /\ ~IsFile(disk'[hardlinks'[i].new])
          /\ \A x \in accepted' : x.path # hardlinks'[i].new
          /\ \A j \in Links' : hardlinks'[i].new = hardlinks'[j].new => i = j
    BY <2>5, <2>7
  <2> QED BY <2>1, <2>2, <2>8, <2>9, Zenon DEF Once
<1> QED BY <1>5, <1>6, <1>7 DEF IInv

LEMMA FinishSafe ==
  ASSUME IInv, Finish
  PROVE  IInv'
<1>1. /\ UNCHANGED <<image, layer, todo, accepted, seenPaths, whiteouts, pendingOpqs,
                     hardlinks, disk>>
      /\ status' = "done"
  BY DEF Finish, lCtx
<1> QED BY <1>1, OnceStays DEF IInv, TypeOK, Handling

LEMMA StutterSafe ==
  ASSUME IInv, UNCHANGED vars
  PROVE  IInv'
BY OnceStays DEF IInv, TypeOK, Handling, Hidden, IsParentWhiteout, vars, lCtx

LEMMA InitSafe == Init => IInv
<1> SUFFICES ASSUME Init PROVE IInv
  OBVIOUS
<1>1. /\ image \in Image /\ layer = Len(image) /\ todo = image[layer].entries
      /\ accepted = {} /\ hardlinks = << >> /\ disk = [p \in Path |-> Absent]
      /\ seenPaths = {} /\ whiteouts = {} /\ pendingOpqs = {} /\ status = "layers"
  BY DEF Init
<1>2. /\ Len(image) \in Nat \ {0} /\ layer \in 1 .. Len(image)
      /\ image[layer].entries \subseteq Entry
  BY <1>1, ImageFacts
<1>3. TypeOK
  <2>1. hardlinks \in Seq([old : Path, new : Path])
    BY <1>1, EmptySeq
  <2>2. disk \in [Path -> Node(Len(image))]
    BY <1>1, <1>2, NodeFacts
  <2> QED BY <1>1, <1>2, <2>1, <2>2 DEF TypeOK
<1>4. Handling
  BY <1>1, <1>2 DEF Handling
<1>5. Once
  <2>1. Links = {}
    BY <1>1, EmptySeq DEF Links
  <2> QED BY <1>1, <2>1, NodeFacts DEF Once
<1> QED BY <1>3, <1>4, <1>5 DEF IInv

-----------------------------------------------------------------------------
(* The theorems *)

\* Whatever the image, no path is given out twice: the steps of extractLayer,
\* applyOpaques and createHardLinks keep the inductive invariant.
THEOREM Invariance == Spec => []IInv
<1>1. ASSUME IInv, [Next]_vars PROVE IInv'
  <2>1. ASSUME NEW e \in todo, FilterWhiteout(e) PROVE IInv'
    BY <1>1, <2>1, FilterWhiteoutSafe
  <2>2. ASSUME NEW e \in todo, Omit(e) PROVE IInv'
    BY <1>1, <2>2, OmitSafe
  <2>3. ASSUME NEW e \in todo, ApplyEntry(e) PROVE IInv'
    BY <1>1, <2>3, ApplyEntrySafe
  <2>4. ASSUME NEW e \in todo, AcceptEntry(e) PROVE IInv'
    BY <1>1, <2>4, AcceptEntrySafe
  <2>5. ASSUME NEW e \in accepted, Extract(e) PROVE IInv'
    BY <1>1, <2>5, ExtractSafe
  <2>6. CASE NextLayer
    BY <1>1, <2>6, NextLayerSafe
  <2>7. CASE CreateHardLink
    BY <1>1, <2>7, CreateHardLinkSafe
  <2>8. CASE Finish
    BY <1>1, <2>8, FinishSafe
  <2>9. CASE UNCHANGED vars
    BY <1>1, <2>9, StutterSafe
  <2> QED BY <1>1, <2>1, <2>2, <2>3, <2>4, <2>5, <2>6, <2>7, <2>8, <2>9 DEF Next
<1> QED BY <1>1, InitSafe, PTL DEF Spec

\* The variables have their types whatever the image: a tree of directories and
\* files of its layers, links between its paths.
THEOREM TypeCorrect == Spec => []TypeOK
BY Invariance, PTL DEF IInv

-----------------------------------------------------------------------------
(* Files are written once *)

\* The directories a content entry is in are hidden, or still to be handled.
LEMMA ParentsGuarded ==
  ASSUME IInv, FromTrees, status = "layers", NEW e \in image[layer].entries, IsContent(e),
         NEW q \in Path, Above(q, e.path)
  PROVE  Hidden(q) \/ DirEntry(q) \in todo
<1>1. layer \in 1 .. Len(image) /\ image \in Image
  BY DEF IInv, TypeOK, Handling
<1>2. DirEntry(q) \in image[layer].entries
  BY <1>1, ImageFacts DEF FromTrees, ParentsPresent, DirEntry
<1>3. IsContent(DirEntry(q)) /\ DirEntry(q).path = q
  BY DEF IsContent, DirEntry
<1> QED BY <1>2, <1>3 DEF IInv, Handling

\* Handling an entry: a directory that is no longer to come is hidden, and the
\* files that are on disk now were there, or are the entry.
LEMMA GuardedStays ==
  ASSUME Guarded, status = "layers", layer' = layer, image' = image,
         accepted' \subseteq image[layer].entries,
         seenPaths \subseteq seenPaths', whiteouts \subseteq whiteouts',
         \A q \in Path : DirEntry(q) \in todo => DirEntry(q) \in todo' \/ Hidden(q)',
         \A p \in Path : IsFile(disk'[p]) =>
           \/ IsFile(disk[p])
           \/ \A q \in Path : Above(q, p) => Hidden(q) \/ DirEntry(q) \in todo
  PROVE  Guarded'
<1>1. \A q \in Path : Hidden(q) \/ DirEntry(q) \in todo => Hidden(q)' \/ DirEntry(q) \in todo'
  BY HiddenStays
<1>2. \A p, q \in Path :
        IsFile(disk'[p]) /\ Above(q, p) => Hidden(q) \/ DirEntry(q) \in todo
  BY DEF Guarded
<1>3. \A q : DirEntry(q)' = DirEntry(q)
  BY DEF DirEntry
<1> QED BY <1>1, <1>2, <1>3 DEF Guarded

\* No file is below the path of a file that passes the filter.
LEMMA NothingBelow ==
  ASSUME IInv, Guarded, FromTrees, NEW e, Keep(e), e.kind = "file",
         NEW p \in Path, IsFile(disk[p])
  PROVE  ~Above(e.path, p)
<1> SUFFICES ASSUME Above(e.path, p) PROVE FALSE
  OBVIOUS
<1>1. /\ e.path \in Path /\ ~Hidden(e.path) /\ e \in image[layer].entries
      /\ layer \in 1 .. Len(image) /\ image \in Image /\ status = "layers"
  BY KeepFacts DEF Hidden
<1>2. DirEntry(e.path) \in image[layer].entries
  BY <1>1 DEF Guarded, IInv, Handling
<1>3. DirEntry(e.path) \notin image[layer].entries
  BY <1>1, ImageFacts DEF FromTrees, OneKind
<1> QED BY <1>2, <1>3

\* What ApplyEntry writes replaces no file.
LEMMA ApplyKeepsFiles ==
  ASSUME IInv, Guarded, FromTrees, NEW e, ApplyEntry(e)
  PROVE  /\ \A p \in Path : IsFile(disk[p]) => disk'[p] = disk[p]
         /\ \A p \in Path : IsFile(disk'[p]) => IsFile(disk[p]) \/ p = e.path
<1>1. /\ Keep(e) /\ TypeOK
      /\ \/ disk' = disk
         \/ e.kind # "link" /\ disk' = Placed(Cleared(e), e, layer)
  BY DEF ApplyEntry, IInv
<1>2. /\ e \in Entry /\ e.path \in Path /\ e.kind \in {"dir", "file", "link"}
      /\ layer \in 1 .. Len(image) /\ Len(image) \in Nat /\ ~IsFile(disk[e.path])
  BY <1>1, KeepFacts, KeptOnce, ImageFacts
<1>3. CASE disk' = disk
  BY <1>3
<1>4. CASE e.kind # "link" /\ disk' = Placed(Cleared(e), e, layer)
  <2>1. Cleared(e) \in [Path -> Node(Len(image))]
    BY <1>1, <1>2, ClearedFacts DEF TypeOK
  <2>2. \A p \in Path : p # e.path =>
          /\ IsFile(disk'[p]) => IsFile(Cleared(e)[p])
          /\ IsFile(Cleared(e)[p]) => disk'[p] = Cleared(e)[p]
    BY <1>2, <1>4, <2>1, PlacedFacts
  <2>3. \A p \in Path : IsFile(Cleared(e)[p]) => IsFile(disk[p])
    BY <1>1, <1>2, ClearedFacts DEF TypeOK
  <2>4. \A p \in Path : IsFile(disk[p]) => e.kind = "dir" \/ ~Above(e.path, p)
    BY <1>1, <1>2, <1>4, NothingBelow
  <2>5. \A p \in Path : IsFile(disk[p]) => Cleared(e)[p] = disk[p]
    BY <1>1, <1>2, <2>4, ClearedFacts DEF TypeOK
  <2> QED BY <1>2, <2>2, <2>3, <2>5
<1> QED BY <1>1, <1>3, <1>4

LEMMA ExtractKeepsFiles ==
  ASSUME IInv, NEW e \in accepted, Extract(e)
  PROVE  /\ \A p \in Path : IsFile(disk[p]) => disk'[p] = disk[p]
         /\ \A p \in Path : IsFile(disk'[p]) => IsFile(disk[p]) \/ p = e.path
<1>1. /\ TypeOK /\ e \in Entry /\ e.path \in Path /\ ~IsFile(disk[e.path])
      /\ layer \in 1 .. Len(image) /\ Len(image) \in Nat
      /\ disk' = disk \/ disk' = Placed(disk, e, layer)
  BY ImageFacts DEF IInv, TypeOK, Handling, Once, Extract
<1> QED BY <1>1, PlacedFacts DEF TypeOK

LEMMA LinkKeepsFiles ==
  ASSUME IInv, CreateHardLink
  PROVE  \A p \in Path : IsFile(disk[p]) => disk'[p] = disk[p]
<1>1. /\ TypeOK /\ hardlinks \in Seq([old : Path, new : Path]) /\ hardlinks # << >>
  BY DEF IInv, TypeOK, CreateHardLink
<1>2. Head(hardlinks) = hardlinks[1] /\ 1 \in Links
  BY <1>1, FirstLink DEF Links
<1>3. ~IsFile(disk[hardlinks[1].new])
  BY <1>2 DEF IInv, Once
<1>4. disk' = disk \/ disk' = [disk EXCEPT ![hardlinks[1].new] = disk[hardlinks[1].old]]
  BY <1>2 DEF CreateHardLink
<1> QED BY <1>1, <1>3, <1>4 DEF TypeOK

\* Every step keeps the files guarded; what is said of the disk is what the
\* lemmas above give.
LEMMA GuardedStep ==
  ASSUME IInv, Guarded, FromTrees, [Next]_vars
  PROVE  Guarded'
<1>1. CASE UNCHANGED vars
  BY <1>1 DEF Guarded, Hidden, IsParentWhiteout, DirEntry, vars, lCtx
<1>2. ASSUME NEW e \in todo, FilterWhiteout(e) PROVE Guarded'
  <2>1. /\ status = "layers" /\ e.kind # "dir" /\ todo' = todo \ {e}
        /\ UNCHANGED <<image, layer, accepted, disk>>
        /\ seenPaths \subseteq seenPaths' /\ whiteouts \subseteq whiteouts'
    BY <1>2 DEF FilterWhiteout
  <2>2. \A q : DirEntry(q) # e
    BY <2>1 DEF DirEntry
  <2>3. accepted' \subseteq image[layer].entries
    BY <2>1 DEF Guarded
  <2> QED BY <2>1, <2>2, <2>3, GuardedStays
<1>3. ASSUME NEW e \in todo, Omit(e) PROVE Guarded'
  <2>1. /\ status = "layers" /\ todo' = todo \ {e} /\ Hidden(e.path)
        /\ UNCHANGED <<image, layer, accepted, disk, seenPaths, whiteouts>>
    BY <1>3 DEF Omit, Omitted, Hidden, lCtx
  <2>2. \A q : DirEntry(q) = e => Hidden(q)'
    BY <2>1 DEF DirEntry, Hidden, IsParentWhiteout
  <2>3. accepted' \subseteq image[layer].entries
    BY <2>1 DEF Guarded
  <2> QED BY <2>1, <2>2, <2>3, GuardedStays
<1>4. ASSUME NEW e \in todo, ApplyEntry(e) \/ AcceptEntry(e) PROVE Guarded'
  <2>1. /\ Keep(e)
        /\ \/ ApplyEntry(e) /\ accepted' = accepted
           \/ disk' = disk /\ accepted' \subseteq accepted \cup {e}
    BY <1>4 DEF ApplyEntry, AcceptEntry
  <2>2. /\ status = "layers" /\ e \in image[layer].entries /\ IsContent(e)
        /\ image' = image /\ layer' = layer /\ todo' = todo \ {e}
        /\ seenPaths' = seenPaths \cup {e.path} /\ whiteouts' = whiteouts
    BY <2>1, KeepFacts DEF Keep
  <2>3. \A q : DirEntry(q) = e => Hidden(q)'
    BY <2>2 DEF DirEntry, Hidden
  <2>4. accepted' \subseteq image[layer].entries
    BY <2>1, <2>2 DEF Guarded
  <2>5. \A p \in Path : IsFile(disk'[p]) => IsFile(disk[p]) \/ p = e.path
    BY <2>1, ApplyKeepsFiles
  <2>6. \A q \in Path : Above(q, e.path) => Hidden(q) \/ DirEntry(q) \in todo
    BY <2>2, ParentsGuarded
  <2>7. seenPaths \subseteq seenPaths' /\ whiteouts \subseteq whiteouts'
    BY <2>2
  <2>8. \A p \in Path : IsFile(disk'[p]) =>
          \/ IsFile(disk[p])
          \/ \A q \in Path : Above(q, p) => Hidden(q) \/ DirEntry(q) \in todo
    BY <2>5, <2>6
  <2>9. \A q \in Path : DirEntry(q) \in todo => DirEntry(q) \in todo' \/ Hidden(q)'
    BY <2>2, <2>3
  <2> QED BY <2>2, <2>4, <2>7, <2>8, <2>9, GuardedStays
<1>5. ASSUME NEW e \in accepted, Extract(e) PROVE Guarded'
  <2>1. /\ status = "layers" /\ accepted' \subseteq accepted /\ accepted \subseteq image[layer].entries
        /\ UNCHANGED <<image, layer, todo, seenPaths, whiteouts>>
    BY <1>5 DEF Extract, lCtx, Guarded
  <2>2. e \in image[layer].entries /\ IsContent(e)
    BY <2>1 DEF IInv, Once, IsContent
  <2>3. \A q \in Path : Above(q, e.path) => Hidden(q) \/ DirEntry(q) \in todo
    BY <2>1, <2>2, ParentsGuarded
  <2>4. \A p \in Path : IsFile(disk'[p]) => IsFile(disk[p]) \/ p = e.path
    BY <1>5, ExtractKeepsFiles
  <2> QED BY <2>1, <2>3, <2>4, GuardedStays
<1>6. CASE NextLayer
  <2>1. /\ status = "layers" /\ todo = {} /\ UNCHANGED <<disk, seenPaths>> /\ accepted' = {}
        /\ whiteouts \subseteq whiteouts'
    BY <1>6 DEF NextLayer
  <2>2. \A p, q \in Path : IsFile(disk[p]) /\ Above(q, p) => Hidden(q)
    BY <2>1 DEF Guarded
  <2>3. \A q : Hidden(q) => Hidden(q)'
    BY <2>1, HiddenStays
  <2> QED BY <2>1, <2>2, <2>3 DEF Guarded
<1>7. CASE CreateHardLink \/ Finish
  BY <1>7 DEF CreateHardLink, Finish, Guarded
<1> QED BY <1>1, <1>2, <1>3, <1>4, <1>5, <1>6, <1>7 DEF Next

\* A file on disk is never changed, removed or replaced by an entry of a lower
\* layer or by a deferred hard link, whatever the order of the entries, if the
\* layers have the directories their entries are in.
THEOREM FilesAreWrittenOnce ==
  ASSUME FromTrees PROVE Spec => FilesWrittenOnce
<1>1. Init => Guarded
  BY NodeFacts DEF Init, Guarded
<1>2. ASSUME IInv, Guarded, [Next]_vars PROVE Guarded'
  BY <1>2, GuardedStep
<1>3. ASSUME IInv, Guarded, [Next]_vars
      PROVE  [\A p \in Path : IsFile(disk[p]) => disk'[p] = disk[p]]_vars
  <2>1. ASSUME NEW e \in todo, FilterWhiteout(e) \/ Omit(e) \/ AcceptEntry(e)
        PROVE  disk' = disk
    BY <2>1 DEF FilterWhiteout, Omit, AcceptEntry
  <2>2. ASSUME NEW e \in todo, ApplyEntry(e)
        PROVE  \A p \in Path : IsFile(disk[p]) => disk'[p] = disk[p]
    BY <1>3, <2>2, ApplyKeepsFiles
  <2>3. ASSUME NEW e \in accepted, Extract(e)
        PROVE  \A p \in Path : IsFile(disk[p]) => disk'[p] = disk[p]
    BY <1>3, <2>3, ExtractKeepsFiles
  <2>4. CreateHardLink => \A p \in Path : IsFile(disk[p]) => disk'[p] = disk[p]
    BY <1>3, LinkKeepsFiles
  <2>5. NextLayer \/ Finish => disk' = disk
    BY DEF NextLayer, Finish
  <2> QED BY <1>3, <2>1, <2>2, <2>3, <2>4, <2>5 DEF Next
<1> QED BY <1>1, <1>2, <1>3, Invariance, PTL DEF Spec, FilesWrittenOnce

-----------------------------------------------------------------------------
(* Paths and valid images *)

LEMMA PrefixFacts ==
  ASSUME NEW s \in Seq(STRING), NEW t \in Seq(STRING)
  PROVE  IsPrefix(s, t) <=> Len(s) <= Len(t) /\ \A i \in 1 .. Len(s) : s[i] = t[i]
<1>1. /\ Len(s) \in Nat /\ Len(t) \in Nat
      /\ \A i \in 1 .. Len(s) : s[i] \in STRING
      /\ \A i \in 1 .. Len(t) : t[i] \in STRING
  BY ElementOfSeq, LenProperties
<1> SUFFICES ASSUME Len(s) <= Len(t)
             PROVE  SubSeq(s, 1, Len(s)) = SubSeq(t, 1, Len(s))
                      <=> \A i \in 1 .. Len(s) : s[i] = t[i]
  BY DEF IsPrefix
<1> DEFINE u == SubSeq(s, 1, Len(s))
           v == SubSeq(t, 1, Len(s))
<1>2. /\ u \in Seq(STRING) /\ Len(u) = Len(s)
      /\ \A i \in 1 .. Len(s) : u[i] = s[i]
  BY <1>1, SubSeqProperties
<1>3. /\ v \in Seq(STRING) /\ Len(v) = Len(s)
      /\ \A i \in 1 .. Len(s) : v[i] = t[i]
  BY <1>1, SubSeqProperties
<1> HIDE DEF u, v
<1>4. (\A i \in 1 .. Len(s) : u[i] = v[i]) => u = v
  BY <1>2, <1>3, SeqEqual
<1>5. u = v <=> \A i \in 1 .. Len(s) : s[i] = t[i]
  BY <1>2, <1>3, <1>4
<1> QED BY <1>5 DEF u, v

LEMMA AboveTransitive ==
  ASSUME NEW o \in Path, NEW q \in Path, NEW p \in Path, Above(o, q), Above(q, p)
  PROVE  Above(o, p)
<1>1. o \in Seq(STRING) /\ q \in Seq(STRING) /\ p \in Seq(STRING)
  BY PathAssumption
<1>2. /\ Len(o) \in Nat /\ Len(q) \in Nat /\ Len(p) \in Nat
      /\ Len(o) <= Len(q) /\ Len(q) <= Len(p) /\ o # q /\ q # p
      /\ \A i \in 1 .. Len(o) : o[i] = q[i]
      /\ \A i \in 1 .. Len(q) : q[i] = p[i]
  BY <1>1, PrefixFacts, LenProperties DEF Above, IsStrictPrefix
<1>3. IsPrefix(o, p)
  BY <1>1, <1>2, PrefixFacts
<1>4. o # p
  <2> SUFFICES ASSUME o = p PROVE FALSE
    OBVIOUS
  <2>1. Len(o) = Len(q) /\ \A i \in 1 .. Len(o) : o[i] = q[i]
    BY <1>2
  <2>2. o = q
    BY <1>1, <2>1, SeqEqual
  <2> QED BY <1>2, <2>2
<1> QED BY <1>3, <1>4 DEF Above, IsStrictPrefix

LEMMA FrontAbove ==
  ASSUME NEW p \in Path, Len(p) > 1
  PROVE  Front(p) \in Path /\ Above(Front(p), p)
<1>1. p \in Seq(STRING) /\ Front(p) \in Path /\ Front(p) \in Seq(STRING)
  BY PathAssumption
<1>2. Len(p) \in Nat /\ \A i \in 1 .. Len(p) : p[i] \in STRING
  BY <1>1, ElementOfSeq, LenProperties
<1>3. /\ Len(Front(p)) = Len(p) - 1
      /\ \A i \in 1 .. Len(p) - 1 : Front(p)[i] = p[i]
  BY <1>2, SubSeqProperties DEF Front
<1>4. IsPrefix(Front(p), p) /\ Front(p) # p
  BY <1>1, <1>2, <1>3, PrefixFacts
<1> QED BY <1>1, <1>4 DEF Above, IsStrictPrefix

LEMMA LeastNumber ==
  ASSUME NEW T \in SUBSET Nat, T # {}
  PROVE  \E n \in T : \A m \in T : n <= m
<1>1. PICK n \in T : \A m \in T : ~(<<m, n>> \in OpToRel(<, Nat))
  BY NatLessThanWellFounded, WFMin
<1>2. \A m \in T : ~(m < n)
  BY <1>1 DEF OpToRel
<1> QED BY <1>2

\* What the hypothesis says of an entry.
LEMMA ValidFacts ==
  ASSUME Valid, NEW img \in Image, NEW n \in 1 .. Len(img), NEW e \in img[n].entries
  PROVE  /\ e \in Entry /\ e.path \in Path
         /\ e.kind = "opaque" => e.path # << >>
         /\ \A q \in Path : Above(q, e.path) => DirEntry(q) \in img[n].entries
         /\ \A x \in img[n].entries :
              /\ IsContent(e) /\ IsContent(x) /\ e.path = x.path => e = x
              /\ e.kind = "whiteout" /\ IsContent(x) =>
                   e.path # x.path /\ ~Above(e.path, x.path)
         /\ \A m \in 1 .. Len(img) : m < n =>
              \A x \in img[m].entries :
                 e.kind \in {"file", "link"} => ~(IsContent(x) /\ Above(e.path, x.path))
<1>1. /\ DOMAIN img = 1 .. Len(img) /\ e \in Entry /\ (e.kind # "opaque" => e.path \in Path)
  BY ImageFacts
<1>2. e.kind = "opaque" => e.path # << >>
  BY <1>1 DEF Valid, RemovesOnlyBelow
<1>3. e.path \in Path
  BY <1>1, <1>2 DEF Entry
<1>4. \A q \in Path : Above(q, e.path) => DirEntry(q) \in img[n].entries
  BY <1>1 DEF Valid, ParentsPresent, DirEntry
<1>5. \A x \in img[n].entries : IsContent(e) /\ IsContent(x) /\ e.path = x.path => e = x
  BY <1>1 DEF Valid, GivenOnce
<1>6. \A x \in img[n].entries :
        e.kind = "whiteout" /\ IsContent(x) => e.path # x.path /\ ~Above(e.path, x.path)
  BY <1>1 DEF Valid, RemovesOnlyBelow
<1>7. \A m \in 1 .. Len(img) : m < n =>
        \A x \in img[m].entries :
           e.kind \in {"file", "link"} => ~(IsContent(x) /\ Above(e.path, x.path))
  BY <1>1 DEF Valid, NoDirReplaced
<1> QED BY <1>1, <1>2, <1>3, <1>4, <1>5, <1>6, <1>7

LEMMA DirEntryFacts ==
  ASSUME NEW q
  PROVE  IsContent(DirEntry(q)) /\ DirEntry(q).path = q /\ DirEntry(q).kind = "dir"
BY DEF DirEntry, IsContent

\* No layer has an entry below a file or a link that stays.
LEMMA NothingBelowTop ==
  ASSUME Valid, NEW img \in Image, NEW n \in 1 .. Len(img), NEW m \in 1 .. Len(img),
         NEW e \in img[n].entries, e.kind \in {"file", "link"}, Top(img, n, e.path),
         NEW x \in img[m].entries, IsContent(x)
  PROVE  ~Above(e.path, x.path)
<1> SUFFICES ASSUME Above(e.path, x.path) PROVE FALSE
  OBVIOUS
<1>1. e.path \in Path /\ DirEntry(e.path) \in img[m].entries /\ Len(img) \in Nat
  BY ValidFacts, ImageFacts
<1>2. ~(m < n)
  BY ValidFacts
<1>3. m # n
  BY <1>1, ValidFacts, DirEntryFacts DEF IsContent
<1>4. CASE m > n
  <2>1. m \in n + 1 .. Len(img)
    BY <1>1, <1>4
  <2>2. Touches(img, m, e.path)
    BY <1>1, DirEntryFacts DEF Touches
  <2> QED BY <2>1, <2>2 DEF Top
<1> QED BY <1>2, <1>3, <1>4

\* One entry has the last word on a path.
LEMMA OneTop ==
  ASSUME Valid, NEW img \in Image, NEW n \in 1 .. Len(img), NEW m \in 1 .. Len(img),
         NEW e \in img[n].entries, IsContent(e), Top(img, n, e.path),
         NEW x \in img[m].entries, IsContent(x), Top(img, m, e.path), x.path = e.path
  PROVE  n = m /\ e = x
<1>1. Len(img) \in Nat
  BY ImageFacts
<1>2. Touches(img, n, e.path) /\ Touches(img, m, e.path)
  BY DEF Touches
<1>3. ~(n < m) /\ ~(m < n)
  BY <1>1, <1>2 DEF Top
<1>4. n = m
  BY <1>3
<1> QED BY <1>4, ValidFacts

\* A path that is touched is touched by a last layer.
LEMMA TopLayer ==
  ASSUME NEW img \in Image, NEW n \in 1 .. Len(img), NEW p, Touches(img, n, p)
  PROVE  \E m \in n .. Len(img) : Touches(img, m, p) /\ Top(img, m, p)
<1>1. Len(img) \in Nat
  BY ImageFacts
<1> DEFINE D == {k \in Nat : \E m \in n .. Len(img) : k = Len(img) - m /\ Touches(img, m, p)}
<1>2. \A i \in n .. Len(img) : Touches(img, i, p) => Len(img) - i \in D
  BY <1>1
<1>3. D \subseteq Nat /\ Len(img) - n \in D
  BY <1>1, <1>2
<1>4. PICK k \in D : \A j \in D : k <= j
  BY <1>3, LeastNumber
<1>5. PICK m \in n .. Len(img) : k = Len(img) - m /\ Touches(img, m, p)
  BY <1>4
<1> HIDE DEF D
<1>6. ASSUME NEW i \in m + 1 .. Len(img), Touches(img, i, p) PROVE FALSE
  <2>1. i \in n .. Len(img)
    BY <1>1, <1>5
  <2>2. Len(img) - m <= Len(img) - i
    BY <1>2, <1>4, <1>5, <1>6, <2>1
  <2> QED BY <1>1, <1>5, <2>1, <2>2
<1> QED BY <1>5, <1>6 DEF Top

\* A layer above that touches the parent of what stays has it as a directory.
LEMMA ParentTouched ==
  ASSUME Valid, NEW img \in Image, NEW n \in 1 .. Len(img), NEW e \in img[n].entries,
         IsContent(e), Top(img, n, e.path), NEW q \in Path, Above(q, e.path),
         NEW m \in n + 1 .. Len(img), Touches(img, m, q)
  PROVE  \E x \in img[m].entries : x.path = q /\ x.kind = "dir"
<1>1. m \in 1 .. Len(img) /\ n < m /\ e.path \in Path
  BY ImageFacts, ValidFacts
<1>2. ~Removed(img[m].entries, q)
  <2> SUFFICES ASSUME NEW x \in img[m].entries,
                      \/ x.kind = "whiteout" /\ (x.path = q \/ Above(x.path, q))
                      \/ x.kind = "opaque" /\ Above(x.path, q)
                      \/ x.kind \in {"file", "link"} /\ Above(x.path, q)
               PROVE  FALSE
    BY DEF Removed
  <2>1. x.path \in Path
    BY <1>1, ValidFacts
  <2>2. Above(x.path, e.path)
    BY <1>1, <2>1, AboveTransitive
  <2>3. Removed(img[m].entries, e.path)
    BY <2>2 DEF Removed
  <2> QED BY <2>3 DEF Top, Touches
<1>3. PICK x \in img[m].entries : IsContent(x) /\ x.path = q
  BY <1>2 DEF Touches
<1>4. x.kind \notin {"file", "link"}
  BY <1>1, <1>3, ValidFacts
<1> QED BY <1>3, <1>4 DEF IsContent

\* So the parents of what stays are directories that stay.
LEMMA ParentTop ==
  ASSUME Valid, NEW img \in Image, NEW n \in 1 .. Len(img), NEW e \in img[n].entries,
         IsContent(e), Top(img, n, e.path), NEW q \in Path, Above(q, e.path)
  PROVE  \E m \in n .. Len(img) : \E x \in img[m].entries :
            x.path = q /\ x.kind = "dir" /\ Top(img, m, q)
<1>1. DirEntry(q) \in img[n].entries /\ Len(img) \in Nat
  BY ValidFacts, ImageFacts
<1>2. Touches(img, n, q)
  BY <1>1, DirEntryFacts DEF Touches
<1>3. PICK m \in n .. Len(img) : Touches(img, m, q) /\ Top(img, m, q)
  BY <1>2, TopLayer
<1>4. CASE m = n
  BY <1>1, <1>3, <1>4, DirEntryFacts
<1>5. CASE m # n
  <2>1. m \in n + 1 .. Len(img)
    BY <1>1, <1>5
  <2> QED BY <1>3, <2>1, ParentTouched
<1> QED BY <1>4, <1>5

\* The target of a link is a file of its layer that stays.
LEMMA TargetTop ==
  ASSUME Valid, NEW img \in Image, NEW n \in 1 .. Len(img), NEW e \in img[n].entries,
         e.kind = "link"
  PROVE  \E x \in img[n].entries : x.path = e.to /\ x.kind = "file" /\ Top(img, n, e.to)
<1>1. DOMAIN img = 1 .. Len(img) /\ Len(img) \in Nat
  BY ImageFacts
<1>2. PICK x \in img[n].entries : x.path = e.to /\ x.kind = "file"
  BY <1>1 DEF Valid, LinksStay
<1>3. \A m \in n + 1 .. Len(img) : \A y \in img[m].entries :
        y.path # e.to /\ ~(y.kind \in {"whiteout", "opaque"} /\ Above(y.path, e.to))
  BY <1>1 DEF Valid, LinksStay
<1>4. \A m \in n + 1 .. Len(img) : \A y \in img[m].entries :
        ~(y.kind \in {"file", "link"} /\ Above(y.path, e.to))
  <2> TAKE m \in n + 1 .. Len(img)
  <2>1. m \in 1 .. Len(img) /\ n < m
    BY <1>1
  <2> QED BY <1>2, <2>1, ValidFacts DEF IsContent
<1>5. Top(img, n, e.to)
  BY <1>3, <1>4 DEF Top, Touches, Removed
<1> QED BY <1>2, <1>5

-----------------------------------------------------------------------------
(***************************************************************************)
(* The second invariant, for valid images: an entry that no layer above    *)
(* touches is on disk when it has been handled, or waits in a list; what   *)
(* is on disk, in a list or hidden comes from such entries, or was         *)
(* removed.                                                                *)
(***************************************************************************)

\* Entry e of layer n has been handled, and stays.
Past(n, e) == n > layer \/ (n = layer /\ e \notin todo)
Stays(n, e) == IsContent(e) /\ Top(image, n, e.path)

Result(e, n) == IF e.kind = "link" THEN File(e.to, n) ELSE NodeOf(e, n)

Stands(n, e) ==
  \/ n = layer /\ e \in accepted
  \/ e.kind = "link" /\ \E i \in Links : hardlinks[i] = [old |-> e.to, new |-> e.path]
  \/ disk[e.path] = Result(e, n)

Made ==
  \A n \in 1 .. Len(image) : \A e \in image[n].entries :
     Stays(n, e) /\ Past(n, e) => Stands(n, e)

OnDisk ==
  \A p \in Path : disk[p] # Absent =>
    \E n \in 1 .. Len(image) : n >= layer /\ \E e \in image[n].entries :
       /\ e.path = p /\ Stays(n, e)
       /\ e.kind = "dir" <=> ~IsFile(disk[p])
       /\ e.kind = "link" => status # "layers"

Listed ==
  /\ \A e \in accepted : e \in image[layer].entries /\ Stays(layer, e)
  /\ \A i \in Links : \E n \in 1 .. Len(image) : n >= layer /\ \E e \in image[n].entries :
        /\ e.kind = "link" /\ hardlinks[i] = [old |-> e.to, new |-> e.path]
        /\ Stays(n, e)

\* What hides paths: everything the layers above have, and nothing else.
Hiding ==
  /\ \A n \in layer + 1 .. Len(image) : \A x \in image[n].entries :
        /\ IsContent(x) => Hidden(x.path)
        /\ x.kind \in {"whiteout", "opaque"} => x.path \in whiteouts
        /\ x.kind = "whiteout" => x.path \in seenPaths
  /\ \A x \in image[layer].entries \ todo :
        /\ x.kind = "whiteout" => x.path \in whiteouts /\ x.path \in seenPaths
        /\ x.kind = "opaque" => x.path \in pendingOpqs

WhiteoutsFrom ==
  /\ \A w \in whiteouts : \E n \in layer .. Len(image) : \E x \in image[n].entries :
        x.path = w /\ (x.kind = "whiteout" \/ (x.kind = "opaque" /\ n > layer))
  /\ \A w \in pendingOpqs : \E x \in image[layer].entries : x.path = w /\ x.kind = "opaque"

SeenFrom ==
  \A s \in seenPaths : \E n \in layer .. Len(image) : \E x \in image[n].entries :
     /\ x.path = s /\ (n = layer => x \notin todo)
     /\ x.kind = "whiteout" \/ Stays(n, x)

Ends ==
  /\ status # "failed"
  /\ status \in {"links", "done"} => layer = 0 /\ accepted = {}
  /\ status = "done" => hardlinks = << >>

Sound ==
  /\ Made /\ OnDisk /\ Listed /\ Ends
  /\ status = "layers" => Hiding /\ WhiteoutsFrom /\ SeenFrom

LEMMA ResultFacts ==
  ASSUME NEW e, NEW n
  PROVE  /\ Result(e, n) # Absent /\ NodeOf(e, n) # Absent
         /\ IsFile(NodeOf(e, n)) <=> e.kind # "dir"
         /\ e.kind = "dir" => Result(e, n) = Dir(n)
         /\ e.kind = "file" => Result(e, n) = File(e.path, n)
         /\ e.kind # "link" => Result(e, n) = NodeOf(e, n)
         /\ \A i : Dir(i) # Absent /\ ~IsFile(Dir(i)) /\ Dir(i).kind = "dir"
         /\ \A p, i : IsFile(File(p, i))
BY DEF Result, NodeOf, Absent, Dir, File, IsFile

\* An entry that is omitted does not stay.
LEMMA OmittedGoes ==
  ASSUME IInv, Sound, Valid, NEW e, Omit(e)
  PROVE  ~Stays(layer, e)
<1>1. /\ status = "layers" /\ e \in todo /\ IsContent(e) /\ Omitted(e)
      /\ layer \in 1 .. Len(image) /\ image \in Image /\ e \in image[layer].entries
      /\ Len(image) \in Nat /\ WhiteoutsFrom /\ SeenFrom
  BY ImageFacts DEF Omit, IInv, TypeOK, Handling, Sound
<1> SUFFICES \E m \in layer + 1 .. Len(image) : Touches(image, m, e.path)
  BY DEF Stays, Top
<1>2. CASE IsParentWhiteout(e.path)
  <2>1. PICK w \in whiteouts : Above(w, e.path)
    BY <1>2 DEF IsParentWhiteout
  <2>2. PICK n \in layer .. Len(image) : \E x \in image[n].entries :
          x.path = w /\ (x.kind = "whiteout" \/ (x.kind = "opaque" /\ n > layer))
    BY <1>1 DEF WhiteoutsFrom
  <2>3. PICK x \in image[n].entries :
          x.path = w /\ (x.kind = "whiteout" \/ (x.kind = "opaque" /\ n > layer))
    BY <2>2
  <2>4. n # layer
    BY <1>1, <2>1, <2>3, ValidFacts
  <2>5. Touches(image, n, e.path)
    BY <2>1, <2>3 DEF Touches, Removed
  <2> QED BY <1>1, <2>4, <2>5
<1>3. CASE e.path \in seenPaths
  <2>1. PICK n \in layer .. Len(image) : \E x \in image[n].entries :
          /\ x.path = e.path /\ (n = layer => x \notin todo)
          /\ x.kind = "whiteout" \/ IsContent(x)
    BY <1>1, <1>3 DEF SeenFrom, Stays
  <2>2. PICK x \in image[n].entries :
          /\ x.path = e.path /\ (n = layer => x \notin todo)
          /\ x.kind = "whiteout" \/ IsContent(x)
    BY <2>1
  <2>3. n # layer
    BY <1>1, <2>2, ValidFacts
  <2>4. Touches(image, n, e.path)
    BY <2>2 DEF Touches, Removed
  <2> QED BY <1>1, <2>3, <2>4
<1> QED BY <1>1, <1>2, <1>3 DEF Omitted

\* An entry that is kept stays.
LEMMA KeptStays ==
  ASSUME IInv, Sound, Valid, NEW e, Keep(e)
  PROVE  Stays(layer, e)
<1>1. /\ status = "layers" /\ layer \in 1 .. Len(image) /\ image \in Image /\ IsContent(e)
      /\ e \in image[layer].entries /\ e.path \in Path /\ ~Hidden(e.path)
      /\ Len(image) \in Nat /\ Hiding
  BY KeepFacts, ImageFacts DEF Hidden, Keep, Sound
<1>2. ASSUME NEW m \in layer + 1 .. Len(image), NEW x \in image[m].entries
      PROVE  /\ ~(IsContent(x) /\ x.path = e.path)
             /\ ~(x.kind = "whiteout" /\ (x.path = e.path \/ Above(x.path, e.path)))
             /\ ~(x.kind = "opaque" /\ Above(x.path, e.path))
             /\ ~(x.kind \in {"file", "link"} /\ Above(x.path, e.path))
  <2>1. m \in 1 .. Len(image) /\ layer < m
    BY <1>1
  <2>2. /\ IsContent(x) => Hidden(x.path)
        /\ x.kind \in {"whiteout", "opaque"} => x.path \in whiteouts
        /\ x.kind = "whiteout" => x.path \in seenPaths
    BY <1>1 DEF Hiding
  <2>3. x.path \in Path /\ x.path # << >>
    BY <1>1, <2>1, ValidFacts, PathAssumption
  <2>4. x.path \in whiteouts => ~Above(x.path, e.path)
    BY <1>1, <2>3 DEF Hidden, IsParentWhiteout
  <2>5. ~(x.kind \in {"file", "link"} /\ Above(x.path, e.path))
    BY <1>1, <2>1, ValidFacts
  <2> QED BY <1>1, <2>2, <2>4, <2>5 DEF Hidden
<1>3. Top(image, layer, e.path)
  BY <1>2 DEF Top, Touches, Removed
<1> QED BY <1>1, <1>3 DEF Stays

\* Nothing is on disk below a file or a link that stays.
LEMMA NothingBelowOnDisk ==
  ASSUME IInv, Sound, Valid, NEW n \in 1 .. Len(image), NEW e \in image[n].entries,
         Stays(n, e), e.kind # "dir", NEW p \in Path, Above(e.path, p)
  PROVE  disk[p] = Absent
<1> SUFFICES ASSUME disk[p] # Absent PROVE FALSE
  OBVIOUS
<1>1. PICK m \in 1 .. Len(image) : \E x \in image[m].entries : x.path = p /\ Stays(m, x)
  BY DEF Sound, OnDisk
<1>2. PICK x \in image[m].entries : x.path = p /\ Stays(m, x)
  BY <1>1
<1>3. e.kind \in {"file", "link"} /\ image \in Image
  BY DEF IInv, TypeOK, Stays, IsContent
<1> QED BY <1>2, <1>3, NothingBelowTop DEF Stays

\* No file is above an entry of any layer.
LEMMA NeverBlocked ==
  ASSUME IInv, Sound, Valid, NEW n \in 1 .. Len(image), NEW e \in image[n].entries,
         IsContent(e)
  PROVE  ~Blocked(e.path)
<1> SUFFICES ASSUME NEW q \in Path, Above(q, e.path), IsFile(disk[q]) PROVE FALSE
  BY DEF Blocked
<1>1. disk[q] # Absent /\ image \in Image
  BY NodeFacts DEF IInv, TypeOK
<1>2. PICK m \in 1 .. Len(image) : \E x \in image[m].entries :
        x.path = q /\ Stays(m, x) /\ (x.kind = "dir" <=> ~IsFile(disk[q]))
  BY <1>1 DEF Sound, OnDisk
<1>3. PICK x \in image[m].entries :
        x.path = q /\ Stays(m, x) /\ (x.kind = "dir" <=> ~IsFile(disk[q]))
  BY <1>2
<1>4. x.kind \in {"file", "link"}
  BY <1>3 DEF Stays, IsContent
<1> QED BY <1>1, <1>3, <1>4, NothingBelowTop DEF Stays

\* The parents of an entry that stays are made before it is, or its link.
LEMMA ParentsMade ==
  ASSUME IInv, Sound, Valid, NEW n \in 1 .. Len(image), n >= layer, NEW e \in image[n].entries,
         Stays(n, e), n > layer \/ todo = {}, \A x \in accepted : x.kind # "dir",
         NEW q \in Path, Above(q, e.path)
  PROVE  disk[q].kind = "dir"
<1>1. image \in Image /\ Len(image) \in Nat /\ layer \in 0 .. Len(image)
  BY ImageFacts DEF IInv, TypeOK
<1>2. PICK m \in n .. Len(image) : \E x \in image[m].entries :
        x.path = q /\ x.kind = "dir" /\ Top(image, m, q)
  BY <1>1, ParentTop DEF Stays
<1>3. PICK x \in image[m].entries :
        x.path = q /\ x.kind = "dir" /\ Top(image, m, q)
  BY <1>2
<1>4. m \in 1 .. Len(image) /\ Past(m, x) /\ Stays(m, x)
  BY <1>1, <1>3 DEF Past, Stays, IsContent
<1>5. Stands(m, x)
  BY <1>4 DEF Sound, Made
<1>6. disk[q] = Result(x, m)
  BY <1>3, <1>5 DEF Stands
<1> QED BY <1>3, <1>6, ResultFacts

LEMMA StaysSame ==
  ASSUME image' = image
  PROVE  \A n, e : Stays(n, e)' <=> Stays(n, e)
BY DEF Stays

\* What stands, stands on where nothing is written or taken from a list.
LEMMA MadeUnwritten ==
  ASSUME Made, UNCHANGED <<image, disk>>,
         accepted = {} \/ (layer' = layer /\ accepted \subseteq accepted'),
         \A i \in Links : i \in Links' /\ hardlinks'[i] = hardlinks[i],
         \A n \in 1 .. Len(image) : \A x \in image[n].entries :
            Stays(n, x) /\ Past(n, x)' => Past(n, x) \/ Stands(n, x)'
  PROVE  Made'
<1>1. \A n, x : Stays(n, x)' <=> Stays(n, x)
  BY StaysSame
<1>2. ASSUME NEW n \in 1 .. Len(image), NEW x \in image[n].entries, Stands(n, x)
      PROVE  Stands(n, x)'
  <2>1. CASE n = layer /\ x \in accepted
    BY <2>1 DEF Stands
  <2>2. CASE x.kind = "link" /\ \E i \in Links : hardlinks[i] = [old |-> x.to, new |-> x.path]
    <3>1. PICK i \in Links : hardlinks[i] = [old |-> x.to, new |-> x.path]
      BY <2>2
    <3>2. i \in Links' /\ hardlinks'[i] = [old |-> x.to, new |-> x.path]
      BY <3>1
    <3> QED BY <2>2, <3>2 DEF Stands
  <2>3. CASE disk[x.path] = Result(x, n)
    BY <2>3 DEF Stands, Result
  <2> QED BY <1>2, <2>1, <2>2, <2>3 DEF Stands
<1>3. \A n \in 1 .. Len(image) : \A x \in image[n].entries :
        Stays(n, x) /\ Past(n, x)' => Stands(n, x)'
  BY <1>2 DEF Made
<1> QED BY <1>1, <1>3 DEF Made

LEMMA OnDiskUnwritten ==
  ASSUME OnDisk, UNCHANGED <<image, disk>>, layer' <= layer, layer \in Nat, layer' \in Nat,
         status' = "layers" => status = "layers"
  PROVE  OnDisk'
<1>1. \A n, x : Stays(n, x)' <=> Stays(n, x)
  BY StaysSame
<1>2. \A n \in Nat : n >= layer => n >= layer'
  OBVIOUS
<1>3. ASSUME NEW p \in Path, disk[p] # Absent
      PROVE  \E n \in 1 .. Len(image) : n >= layer' /\ \E e \in image[n].entries :
               /\ e.path = p /\ Stays(n, e)
               /\ e.kind = "dir" <=> ~IsFile(disk[p])
               /\ e.kind = "link" => status' # "layers"
  <2>1. PICK n \in 1 .. Len(image) : n >= layer /\ \E e \in image[n].entries :
          /\ e.path = p /\ Stays(n, e)
          /\ e.kind = "dir" <=> ~IsFile(disk[p])
          /\ e.kind = "link" => status # "layers"
    BY <1>3 DEF OnDisk
  <2> QED BY <1>2, <2>1
<1> QED BY <1>1, <1>3 DEF OnDisk

\* What is listed stays listed where nothing is added to a list.
LEMMA ListedUnwritten ==
  ASSUME Listed, image' = image, layer' <= layer, layer \in Nat, layer' \in Nat,
         accepted' \subseteq accepted, layer' = layer \/ accepted' = {},
         \A i \in Links' : \E j \in Links : hardlinks'[i] = hardlinks[j]
  PROVE  Listed'
<1>1. \A n, x : Stays(n, x)' <=> Stays(n, x)
  BY StaysSame
<1>2. \A n \in Nat : n >= layer => n >= layer'
  OBVIOUS
<1>3. \A e \in accepted' : e \in image[layer'].entries /\ Stays(layer', e)
  BY DEF Listed
<1>4. ASSUME NEW i \in Links'
      PROVE  \E n \in 1 .. Len(image) : n >= layer' /\ \E e \in image[n].entries :
                /\ e.kind = "link" /\ hardlinks'[i] = [old |-> e.to, new |-> e.path]
                /\ Stays(n, e)
  <2>1. PICK j \in Links : hardlinks'[i] = hardlinks[j]
    OBVIOUS
  <2>2. PICK n \in 1 .. Len(image) : n >= layer /\ \E e \in image[n].entries :
          /\ e.kind = "link" /\ hardlinks[j] = [old |-> e.to, new |-> e.path]
          /\ Stays(n, e)
    BY DEF Listed
  <2> QED BY <1>2, <2>1, <2>2
<1> QED BY <1>1, <1>3, <1>4 DEF Listed

\* An entry that passes the filter leaves the layers' bookkeeping sound.
LEMMA KeptHiding ==
  ASSUME IInv, Sound, Valid, NEW e, Keep(e)
  PROVE  Hiding' /\ WhiteoutsFrom' /\ SeenFrom'
<1>1. /\ Hiding /\ WhiteoutsFrom /\ SeenFrom /\ UNCHANGED <<image, layer, whiteouts, pendingOpqs>>
      /\ seenPaths' = seenPaths \cup {e.path} /\ todo' = todo \ {e} /\ IsContent(e)
      /\ e \in image[layer].entries /\ layer \in 1 .. Len(image) /\ Len(image) \in Nat
      /\ Stays(layer, e)
  BY KeepFacts, KeptStays, ImageFacts DEF Keep, Sound
<1>2. \A p : Hidden(p) => Hidden(p)'
  BY <1>1, HiddenStays
<1>3. Hiding'
  <2>1. \A x \in image[layer].entries \ todo' :
          /\ x.kind = "whiteout" => x.path \in whiteouts /\ x.path \in seenPaths
          /\ x.kind = "opaque" => x.path \in pendingOpqs
    BY <1>1 DEF Hiding, IsContent
  <2>2. \A n \in layer + 1 .. Len(image) : \A x \in image[n].entries :
          /\ IsContent(x) => Hidden(x.path)'
          /\ x.kind \in {"whiteout", "opaque"} => x.path \in whiteouts
          /\ x.kind = "whiteout" => x.path \in seenPaths
    BY <1>1, <1>2 DEF Hiding
  <2> QED BY <1>1, <2>1, <2>2 DEF Hiding
<1>4. WhiteoutsFrom'
  BY <1>1 DEF WhiteoutsFrom
<1>5. SeenFrom'
  <2>1. \A n, x : Stays(n, x)' <=> Stays(n, x)
    BY <1>1, StaysSame
  <2>2. ASSUME NEW s \in seenPaths'
        PROVE  \E n \in layer .. Len(image) : \E x \in image[n].entries :
                  /\ x.path = s /\ (n = layer => x \notin todo')
                  /\ x.kind = "whiteout" \/ Stays(n, x)
    <3>1. CASE s \in seenPaths
      BY <1>1, <3>1 DEF SeenFrom
    <3>2. CASE s = e.path
      BY <1>1, <3>2
    <3> QED BY <1>1, <3>1, <3>2
  <2> QED BY <1>1, <2>1, <2>2 DEF SeenFrom
<1> QED BY <1>3, <1>4, <1>5

\* An entry that stays may come to the lists.
LEMMA ListedStays ==
  ASSUME Listed, layer \in 1 .. Len(image), NEW e \in image[layer].entries, Stays(layer, e),
         UNCHANGED <<image, layer>>, accepted' \subseteq accepted \cup {e},
         \A i \in Links' :
            \/ i \in Links /\ hardlinks'[i] = hardlinks[i]
            \/ e.kind = "link" /\ hardlinks'[i] = [old |-> e.to, new |-> e.path]
  PROVE  Listed'
<1>1. layer >= layer
  OBVIOUS
<1>2. \A n, x : Stays(n, x)' <=> Stays(n, x)
  BY StaysSame
<1>3. \A x \in accepted' : x \in image[layer].entries /\ Stays(layer, x)
  BY DEF Listed
<1>4. ASSUME NEW i \in Links'
      PROVE  \E n \in 1 .. Len(image) : n >= layer /\ \E x \in image[n].entries :
                /\ x.kind = "link" /\ hardlinks'[i] = [old |-> x.to, new |-> x.path]
                /\ Stays(n, x)
  <2>1. CASE i \in Links /\ hardlinks'[i] = hardlinks[i]
    BY <2>1 DEF Listed
  <2>2. CASE e.kind = "link" /\ hardlinks'[i] = [old |-> e.to, new |-> e.path]
    BY <1>1, <2>2
  <2> QED BY <2>1, <2>2
<1> QED BY <1>2, <1>3, <1>4 DEF Listed

\* Writing an entry that stays: it stands, and what stood still does.
LEMMA PlacedSound ==
  ASSUME IInv, Sound, Valid, NEW e \in image[layer].entries, layer \in 1 .. Len(image),
         Stays(layer, e), disk' = Placed(disk, e, layer), UNCHANGED <<image, layer, status>>,
         accepted \subseteq accepted' \cup {e},
         \A i \in Links : i \in Links' /\ hardlinks'[i] = hardlinks[i],
         e.kind = "link" => \E i \in Links' : hardlinks'[i] = [old |-> e.to, new |-> e.path],
         \A n, x : Past(n, x)' => Past(n, x) \/ (n = layer /\ x = e)
  PROVE  Made' /\ OnDisk'
<1>1. /\ image \in Image /\ e.path \in Path /\ Len(image) \in Nat
      /\ IsContent(e) /\ Top(image, layer, e.path) /\ e.kind \in {"dir", "file", "link"}
  BY ValidFacts, ImageFacts DEF IInv, TypeOK, Stays, IsContent
<1>2. \A n, x : Stays(n, x)' <=> Stays(n, x)
  BY StaysSame
<1>3. \A p \in Path :
        IF p = e.path /\ e.kind # "link" THEN disk'[p] = NodeOf(e, layer)
        ELSE \/ disk'[p] = disk[p]
             \/ Above(p, e.path) /\ disk[p] = Absent /\ disk'[p] = Dir(0)
  BY DEF Placed
<1>4. ASSUME NEW n \in 1 .. Len(image), NEW x \in image[n].entries, Stays(n, x),
             x.path = e.path
      PROVE  n = layer /\ x = e
  BY <1>1, <1>4, OneTop DEF Stays
<1>5. Stands(layer, e)'
  <2>1. CASE e.kind = "link"
    BY <2>1 DEF Stands
  <2>2. CASE e.kind # "link"
    <3>1. disk'[e.path] = Result(e, layer)
      BY <1>1, <1>3, <2>2, ResultFacts
    <3> QED BY <3>1 DEF Stands, Result
  <2> QED BY <2>1, <2>2
<1>6. ASSUME NEW n \in 1 .. Len(image), NEW x \in image[n].entries, Stays(n, x), Past(n, x)'
      PROVE  Stands(n, x)'
  <2>1. CASE n = layer /\ x = e
    BY <1>5, <2>1
  <2>2. CASE ~(n = layer /\ x = e)
    <3>1. x.path # e.path /\ Stands(n, x) /\ x.path \in Path
      BY <1>1, <1>4, <1>6, <2>2, ValidFacts DEF Sound, Made
    <3>2. CASE n = layer /\ x \in accepted
      BY <2>2, <3>2 DEF Stands
    <3>3. CASE x.kind = "link" /\ \E i \in Links : hardlinks[i] = [old |-> x.to, new |-> x.path]
      <4>1. PICK i \in Links : hardlinks[i] = [old |-> x.to, new |-> x.path]
        BY <3>3
      <4>2. i \in Links' /\ hardlinks'[i] = [old |-> x.to, new |-> x.path]
        BY <4>1
      <4> QED BY <3>3, <4>2 DEF Stands
    <3>4. CASE disk[x.path] = Result(x, n)
      <4>1. disk'[x.path] = Result(x, n)
        BY <1>3, <3>1, <3>4, ResultFacts
      <4> QED BY <4>1 DEF Stands, Result
    <3> QED BY <3>1, <3>2, <3>3, <3>4 DEF Stands
  <2> QED BY <2>1, <2>2
<1>7. ASSUME NEW p \in Path, disk'[p] # Absent
      PROVE  \E n \in 1 .. Len(image) : n >= layer /\ \E x \in image[n].entries :
                /\ x.path = p /\ Stays(n, x)
                /\ x.kind = "dir" <=> ~IsFile(disk'[p])
                /\ x.kind = "link" => status # "layers"
  <2>1. CASE p = e.path /\ e.kind # "link"
    <3>1. e.kind = "dir" <=> ~IsFile(disk'[p])
      BY <1>1, <1>3, <2>1, ResultFacts
    <3>2. layer >= layer
      BY <1>1
    <3> QED BY <2>1, <3>1, <3>2
  <2>2. CASE disk'[p] = disk[p]
    BY <1>7, <2>2 DEF Sound, OnDisk
  <2>3. CASE Above(p, e.path) /\ disk'[p] = Dir(0)
    <3>1. PICK m \in layer .. Len(image) : \E x \in image[m].entries :
            x.path = p /\ x.kind = "dir" /\ Top(image, m, p)
      BY <1>1, <2>3, ParentTop
    <3>2. PICK x \in image[m].entries : x.path = p /\ x.kind = "dir" /\ Top(image, m, p)
      BY <3>1
    <3>3. m \in 1 .. Len(image) /\ m >= layer /\ Stays(m, x) /\ ~IsFile(disk'[p])
      BY <2>3, <3>2, ResultFacts DEF Stays, IsContent
    <3> QED BY <3>2, <3>3
  <2> QED BY <1>3, <2>1, <2>2, <2>3
<1>8. Made'
  BY <1>2, <1>6 DEF Made
<1>9. OnDisk'
  BY <1>2, <1>7 DEF OnDisk
<1> QED BY <1>8, <1>9

LEMMA FilterWhiteoutSound ==
  ASSUME IInv, Sound, Valid, NEW e, FilterWhiteout(e)
  PROVE  Sound'
<1>1. /\ UNCHANGED <<image, layer, accepted, hardlinks, disk, status>> /\ todo' = todo \ {e}
      /\ e.kind \in {"opaque", "whiteout"} /\ status = "layers"
      /\ layer \in 1 .. Len(image) /\ Len(image) \in Nat /\ e \in image[layer].entries
      /\ Made /\ OnDisk /\ Listed /\ Ends /\ Hiding /\ WhiteoutsFrom /\ SeenFrom
  BY ImageFacts DEF FilterWhiteout, IInv, TypeOK, Handling, Sound
<1>2. /\ seenPaths' = seenPaths \cup (IF e.kind = "whiteout" THEN {e.path} ELSE {})
      /\ whiteouts' = whiteouts \cup (IF e.kind = "whiteout" THEN {e.path} ELSE {})
      /\ pendingOpqs' = pendingOpqs \cup (IF e.kind = "opaque" THEN {e.path} ELSE {})
  BY DEF FilterWhiteout
<1>3. /\ \A n, x : Stays(n, x)' <=> Stays(n, x)
      /\ Links' = Links
  BY <1>1, StaysSame DEF Links
<1>4. Made'
  <2>1. \A n, x : Stays(n, x) /\ Past(n, x)' => Past(n, x)
    BY <1>1 DEF Past, Stays, IsContent
  <2> QED BY <1>1, <1>3, <2>1, MadeUnwritten
<1>5. OnDisk' /\ Listed' /\ Ends'
  <2>1. \A i \in Links' : \E j \in Links : hardlinks'[i] = hardlinks[j]
    BY <1>1, <1>3
  <2>2. Listed'
    BY <1>1, <2>1, ListedUnwritten
  <2> QED BY <1>1, <2>2, OnDiskUnwritten DEF Ends
<1>6. \A p : Hidden(p) => Hidden(p)'
  BY <1>2, HiddenStays
<1>7. Hiding'
  <2>1. \A x \in image[layer].entries \ todo' :
          /\ x.kind = "whiteout" => x.path \in whiteouts' /\ x.path \in seenPaths'
          /\ x.kind = "opaque" => x.path \in pendingOpqs'
    BY <1>1, <1>2 DEF Hiding
  <2>2. \A n \in layer + 1 .. Len(image) : \A x \in image[n].entries :
          /\ IsContent(x) => Hidden(x.path)'
          /\ x.kind \in {"whiteout", "opaque"} => x.path \in whiteouts'
          /\ x.kind = "whiteout" => x.path \in seenPaths'
    BY <1>1, <1>2, <1>6 DEF Hiding
  <2> QED BY <1>1, <2>1, <2>2 DEF Hiding
<1>8. WhiteoutsFrom'
  <2>1. \A w \in whiteouts' : \E n \in layer .. Len(image) : \E x \in image[n].entries :
          x.path = w /\ (x.kind = "whiteout" \/ (x.kind = "opaque" /\ n > layer))
    <3> TAKE w \in whiteouts'
    <3>1. CASE w \in whiteouts
      BY <1>1, <3>1 DEF WhiteoutsFrom
    <3>2. CASE w = e.path /\ e.kind = "whiteout"
      BY <1>1, <3>2
    <3> QED BY <1>2, <3>1, <3>2
  <2>2. \A w \in pendingOpqs' : \E x \in image[layer].entries : x.path = w /\ x.kind = "opaque"
    BY <1>1, <1>2 DEF WhiteoutsFrom
  <2> QED BY <1>1, <2>1, <2>2 DEF WhiteoutsFrom
<1>9. SeenFrom'
  <2>1. \A s \in seenPaths' : \E n \in layer .. Len(image) : \E x \in image[n].entries :
           /\ x.path = s /\ (n = layer => x \notin todo')
           /\ x.kind = "whiteout" \/ Stays(n, x)
    <3> TAKE s \in seenPaths'
    <3>1. CASE s \in seenPaths
      BY <1>1, <3>1 DEF SeenFrom
    <3>2. CASE s = e.path /\ e.kind = "whiteout"
      BY <1>1, <3>2
    <3> QED BY <1>2, <3>1, <3>2
  <2> QED BY <1>1, <1>3, <2>1 DEF SeenFrom
<1> QED BY <1>4, <1>5, <1>7, <1>8, <1>9 DEF Sound

LEMMA OmitSound ==
  ASSUME IInv, Sound, Valid, NEW e, Omit(e)
  PROVE  Sound'
<1>1. /\ UNCHANGED <<image, layer, accepted, hardlinks, disk, status, seenPaths, whiteouts,
                     pendingOpqs>>
      /\ todo' = todo \ {e} /\ IsContent(e) /\ status = "layers" /\ ~Stays(layer, e)
      /\ layer \in 1 .. Len(image) /\ Len(image) \in Nat
      /\ Made /\ OnDisk /\ Listed /\ Ends /\ Hiding /\ WhiteoutsFrom /\ SeenFrom
  BY OmittedGoes, ImageFacts DEF Omit, lCtx, IInv, TypeOK, Handling, Sound
<1>2. /\ \A n, x : Stays(n, x)' <=> Stays(n, x)
      /\ Links' = Links
  BY <1>1, StaysSame DEF Links
<1>3. Made'
  <2>1. \A n, x : Stays(n, x) /\ Past(n, x)' => Past(n, x)
    BY <1>1 DEF Past
  <2> QED BY <1>1, <1>2, <2>1, MadeUnwritten
<1>4. OnDisk' /\ Listed' /\ Ends'
  <2>1. \A i \in Links' : \E j \in Links : hardlinks'[i] = hardlinks[j]
    BY <1>1, <1>2
  <2>2. Listed'
    BY <1>1, <2>1, ListedUnwritten
  <2> QED BY <1>1, <2>2, OnDiskUnwritten DEF Ends
<1>5. \A p : Hidden(p) => Hidden(p)'
  BY <1>1, HiddenStays
<1>6. Hiding'
  BY <1>1, <1>5 DEF Hiding, IsContent
<1>7. WhiteoutsFrom' /\ SeenFrom'
  BY <1>1, <1>2 DEF WhiteoutsFrom, SeenFrom
<1> QED BY <1>3, <1>4, <1>6, <1>7 DEF Sound

LEMMA ApplyEntrySound ==
  ASSUME IInv, Sound, Valid, NEW e, ApplyEntry(e)
  PROVE  Sound'
<1>1. /\ Keep(e) /\ accepted' = accepted /\ Stays(layer, e) /\ ~Blocked(e.path)
      /\ e \in image[layer].entries /\ layer \in 1 .. Len(image) /\ e.path \in Path
      /\ UNCHANGED <<image, layer>> /\ todo' = todo \ {e} /\ status = "layers"
      /\ e.kind \in {"dir", "file", "link"} /\ Len(image) \in Nat
      /\ Made /\ OnDisk /\ Listed /\ Ends /\ TypeOK
  BY KeepFacts, KeptStays, NeverBlocked, ImageFacts DEF ApplyEntry, Stays, Sound, IInv
<1>2. /\ status' = status
      /\ IF e.kind = "link" THEN disk' = disk ELSE disk' = Placed(Cleared(e), e, layer)
  BY <1>1 DEF ApplyEntry
<1>3. \A n, x : Past(n, x)' => Past(n, x) \/ (n = layer /\ x = e)
  BY <1>1 DEF Past
<1>4. /\ \A i \in Links : i \in Links' /\ hardlinks'[i] = hardlinks[i]
      /\ \A i \in Links' :
           \/ i \in Links /\ hardlinks'[i] = hardlinks[i]
           \/ e.kind = "link" /\ hardlinks'[i] = [old |-> e.to, new |-> e.path]
      /\ e.kind = "link" =>
           \E i \in Links' : hardlinks'[i] = [old |-> e.to, new |-> e.path]
  <2>1. /\ e.kind = "link" => e.to \in Path
        /\ \A i \in Links : hardlinks[i].new # e.path
        /\ hardlinks' = WithLink(e)
    BY <1>1, KeepFacts, KeptOnce DEF ApplyEntry
  <2> QED BY <1>1, <2>1, WithLinkFacts
<1>5. Listed'
  BY <1>1, <1>4, ListedStays
<1>6. CASE e.kind = "link"
  <2>1. Stands(layer, e)'
    BY <1>4, <1>6 DEF Stands
  <2>2. Made'
    BY <1>1, <1>2, <1>3, <1>4, <1>6, <2>1, MadeUnwritten
  <2>3. OnDisk'
    BY <1>1, <1>2, <1>6, OnDiskUnwritten
  <2> QED BY <1>1, <1>2, <1>5, <2>2, <2>3, KeptHiding DEF Sound, Ends
<1>7. CASE e.kind # "link"
  <2>1. \A p \in Path : e.kind # "dir" /\ Above(e.path, p) => disk[p] = Absent
    BY <1>1, NothingBelowOnDisk
  <2>2. disk \in [Path -> Node(Len(image))]
    BY <1>1 DEF TypeOK
  <2>3. Cleared(e) = disk
    BY <2>1, <2>2 DEF Cleared
  <2>4. Made' /\ OnDisk'
    BY <1>1, <1>2, <1>3, <1>4, <1>7, <2>3, PlacedSound
  <2> QED BY <1>1, <1>2, <1>5, <2>4, KeptHiding DEF Sound, Ends
<1> QED BY <1>6, <1>7

LEMMA AcceptEntrySound ==
  ASSUME IInv, Sound, Valid, NEW e, AcceptEntry(e)
  PROVE  Sound'
<1>1. /\ Keep(e) /\ UNCHANGED <<image, layer, disk, status>> /\ status = "layers"
      /\ accepted' = accepted \cup {e} /\ hardlinks' = hardlinks /\ Links' = Links
      /\ Made /\ OnDisk /\ Listed /\ Ends /\ layer \in 1 .. Len(image)
      /\ Len(image) \in Nat /\ todo' = todo \ {e}
      /\ e \in image[layer].entries /\ Stays(layer, e)
  BY KeepFacts, KeptStays, ImageFacts DEF AcceptEntry, Sound, Links
<1>2. \A n, x : Past(n, x)' => Past(n, x) \/ (n = layer /\ x = e)
  BY <1>1 DEF Past
<1>3. Stands(layer, e)'
  BY <1>1 DEF Stands
<1>4. Made'
  BY <1>1, <1>2, <1>3, MadeUnwritten
<1>5. OnDisk'
  BY <1>1, OnDiskUnwritten
<1>6. Listed'
  BY <1>1, ListedStays
<1> QED BY <1>1, <1>4, <1>5, <1>6, KeptHiding DEF Sound, Ends

\* The files are extracted after the directories: none lacks its parent.
LEMMA ExtractSound ==
  ASSUME IInv, Sound, Valid, NEW e \in accepted, Extract(e)
  PROVE  Sound'
<1>1. /\ status = "layers" /\ todo = {} /\ First(e) /\ accepted' = accepted \ {e}
      /\ UNCHANGED <<image, layer, todo, seenPaths, whiteouts, pendingOpqs>>
      /\ layer \in 1 .. Len(image) /\ Len(image) \in Nat
      /\ e.kind \in {"dir", "file", "link"} /\ e \in image[layer].entries /\ Stays(layer, e)
      /\ e.path \in Path /\ (e.kind = "link" => e.to \in Path)
      /\ \A i \in Links : hardlinks[i].new # e.path
      /\ Listed /\ Ends /\ Hiding /\ WhiteoutsFrom /\ SeenFrom
  BY ImageFacts DEF Extract, lCtx, IInv, TypeOK, Handling, Once, Sound, Listed
<1>2. ~Blocked(e.path)
  BY <1>1, NeverBlocked DEF IsContent
<1>3. ASSUME e.kind = "file"
      PROVE  /\ Len(e.path) > 1 => disk[Front(e.path)] # Absent
             /\ \A p \in Path : Above(e.path, p) => disk[p] = Absent
  <2>1. \A x \in accepted : x.kind # "dir"
    BY <1>1, <1>3 DEF First
  <2>2. ASSUME Len(e.path) > 1 PROVE disk[Front(e.path)] # Absent
    <3>1. Front(e.path) \in Path /\ Above(Front(e.path), e.path)
      BY <1>1, <2>2, FrontAbove
    <3>2. disk[Front(e.path)].kind = "dir"
      BY <1>1, <2>1, <3>1, ParentsMade
    <3> QED BY <3>2 DEF Absent
  <2> QED BY <1>1, <1>3, <2>2, NothingBelowOnDisk
<1>4. disk' = Placed(disk, e, layer) /\ status' = status /\ hardlinks' = WithLink(e)
  BY <1>2, <1>3 DEF Extract
<1>5. /\ \A i \in Links : i \in Links' /\ hardlinks'[i] = hardlinks[i]
      /\ \A i \in Links' :
           \/ i \in Links /\ hardlinks'[i] = hardlinks[i]
           \/ e.kind = "link" /\ hardlinks'[i] = [old |-> e.to, new |-> e.path]
      /\ e.kind = "link" =>
           \E i \in Links' : hardlinks'[i] = [old |-> e.to, new |-> e.path]
  BY <1>1, <1>4, WithLinkFacts
<1>6. Made' /\ OnDisk'
  <2>1. \A n, x : Past(n, x)' => Past(n, x)
    BY <1>1 DEF Past
  <2> QED BY <1>1, <1>4, <1>5, <2>1, PlacedSound
<1>7. Listed'
  BY <1>1, <1>5, ListedStays
<1>8. Hiding' /\ WhiteoutsFrom'
  BY <1>1 DEF Hiding, WhiteoutsFrom, Hidden, IsParentWhiteout
<1>9. SeenFrom'
  <2>1. \A n, x : Stays(n, x)' <=> Stays(n, x)
    BY <1>1, StaysSame
  <2> QED BY <1>1, <2>1 DEF SeenFrom
<1> QED BY <1>1, <1>4, <1>6, <1>7, <1>8, <1>9 DEF Sound, Ends

\* Everything of a layer is hidden when the one below begins.
LEMMA NextLayerSound ==
  ASSUME IInv, Sound, Valid, NextLayer
  PROVE  Sound'
<1>1. /\ status = "layers" /\ todo = {} /\ accepted = {} /\ layer' = layer - 1
      /\ UNCHANGED <<image, accepted, seenPaths, hardlinks, disk>>
      /\ whiteouts' = whiteouts \cup pendingOpqs /\ pendingOpqs' = {}
      /\ layer \in 1 .. Len(image) /\ Len(image) \in Nat
      /\ Made /\ OnDisk /\ Listed /\ Ends /\ Hiding /\ WhiteoutsFrom /\ SeenFrom
      /\ \A e \in image[layer].entries : IsContent(e) => Hidden(e.path)
  BY ImageFacts DEF NextLayer, IInv, TypeOK, Handling, Sound
<1>2. /\ IF layer = 1 THEN status' = "links" /\ todo' = {}
         ELSE todo' = image[layer'].entries /\ status' = "layers"
      /\ layer' \in Nat /\ layer' < layer
      /\ \A n \in layer' + 1 .. Len(image) : n = layer \/ n \in layer + 1 .. Len(image)
      /\ \A n \in layer .. Len(image) : n \in layer' .. Len(image) /\ n # layer' /\ n > layer'
  BY <1>1 DEF NextLayer
<1>3. Made'
  <2>1. ASSUME NEW n \in 1 .. Len(image), NEW x \in image[n].entries, Past(n, x)'
        PROVE  Past(n, x)
    BY <1>1, <1>2, <2>1 DEF Past
  <2>2. \A i \in Links : i \in Links' /\ hardlinks'[i] = hardlinks[i]
    BY <1>1 DEF Links
  <2> QED BY <1>1, <2>1, <2>2, MadeUnwritten
<1>4. OnDisk' /\ Listed'
  <2>1. \A i \in Links' : \E j \in Links : hardlinks'[i] = hardlinks[j]
    BY <1>1 DEF Links
  <2>2. Listed'
    BY <1>1, <1>2, <2>1, ListedUnwritten
  <2>3. OnDisk'
    BY <1>1, <1>2, OnDiskUnwritten
  <2> QED BY <2>2, <2>3
<1>5. Ends'
  BY <1>1, <1>2 DEF Ends
<1>6. \A p : Hidden(p) => Hidden(p)'
  BY <1>1, HiddenStays
<1>7. ASSUME status' = "layers" PROVE Hiding' /\ WhiteoutsFrom' /\ SeenFrom'
  <2>1. todo' = image[layer'].entries
    BY <1>2, <1>7
  <2>2. \A n \in layer' + 1 .. Len(image) : \A x \in image[n].entries :
          /\ IsContent(x) => Hidden(x.path)'
          /\ x.kind \in {"whiteout", "opaque"} => x.path \in whiteouts'
          /\ x.kind = "whiteout" => x.path \in seenPaths'
    BY <1>1, <1>2, <1>6 DEF Hiding
  <2>3. Hiding'
    BY <1>1, <2>1, <2>2 DEF Hiding
  <2>4. \A w \in whiteouts' : \E n \in layer' .. Len(image) : \E x \in image[n].entries :
          x.path = w /\ (x.kind = "whiteout" \/ (x.kind = "opaque" /\ n > layer'))
    <3> TAKE w \in whiteouts'
    <3>1. CASE w \in whiteouts
      BY <1>1, <1>2, <3>1 DEF WhiteoutsFrom
    <3>2. CASE w \in pendingOpqs
      BY <1>1, <1>2, <3>2 DEF WhiteoutsFrom
    <3> QED BY <1>1, <3>1, <3>2
  <2>5. WhiteoutsFrom'
    BY <1>1, <2>4 DEF WhiteoutsFrom
  <2>6. \A n, x : Stays(n, x)' <=> Stays(n, x)
    BY <1>1, StaysSame
  <2>7. \A s \in seenPaths : \E n \in layer' .. Len(image) : \E x \in image[n].entries :
          /\ x.path = s /\ n # layer'
          /\ x.kind = "whiteout" \/ Stays(n, x)
    BY <1>1, <1>2 DEF SeenFrom
  <2>8. SeenFrom'
    BY <1>1, <2>6, <2>7 DEF SeenFrom
  <2> QED BY <2>3, <2>5, <2>8
<1> QED BY <1>3, <1>4, <1>5, <1>7 DEF Sound

\* Every link finds its target, its parent, and nothing below its path.
LEMMA CreateHardLinkSound ==
  ASSUME IInv, Sound, Valid, CreateHardLink
  PROVE  Sound'
<1>1. /\ status = "links" /\ hardlinks # << >> /\ layer = 0 /\ accepted = {}
      /\ UNCHANGED <<image, layer, todo, accepted>>
      /\ Made /\ OnDisk /\ Listed /\ image \in Image /\ Len(image) \in Nat /\ TypeOK
      /\ Ends
  BY ImageFacts DEF CreateHardLink, IInv, TypeOK, Sound, Ends
<1>2. /\ 1 \in Links /\ Head(hardlinks) = hardlinks[1]
      /\ \A i \in Links' : i + 1 \in Links /\ hardlinks'[i] = hardlinks[i + 1]
      /\ \A i \in Links : i # 1 => i - 1 \in Links' /\ hardlinks'[i - 1] = hardlinks[i]
  BY RestOfLinks
<1>3. PICK n \in 1 .. Len(image) : \E e \in image[n].entries :
        e.kind = "link" /\ hardlinks[1] = [old |-> e.to, new |-> e.path] /\ Stays(n, e)
  BY <1>1, <1>2 DEF Listed
<1>4. PICK e \in image[n].entries :
        e.kind = "link" /\ hardlinks[1] = [old |-> e.to, new |-> e.path] /\ Stays(n, e)
  BY <1>3
<1>5. e.path \in Path /\ e.to \in Path
  BY <1>1, <1>4, ValidFacts, ImageFacts
<1>6. disk[e.to] = File(e.to, n)
  <2>1. PICK x \in image[n].entries : x.path = e.to /\ x.kind = "file" /\ Top(image, n, e.to)
    BY <1>1, <1>4, TargetTop
  <2>2. Stays(n, x) /\ Past(n, x)
    BY <1>1, <2>1 DEF Stays, IsContent, Past
  <2>3. Stands(n, x)
    BY <1>1, <2>2 DEF Made
  <2>4. disk[e.to] = Result(x, n)
    BY <1>1, <2>1, <2>3 DEF Stands
  <2> QED BY <2>1, <2>4, ResultFacts
<1>7. \A p \in Path : Above(e.path, p) => disk[p] = Absent
  BY <1>1, <1>4, NothingBelowOnDisk
<1>8. ASSUME Len(e.path) > 1 PROVE disk[Front(e.path)].kind = "dir"
  <2>1. Front(e.path) \in Path /\ Above(Front(e.path), e.path)
    BY <1>5, <1>8, FrontAbove
  <2> QED BY <1>1, <1>4, <2>1, ParentsMade
<1>9. Len(e.path) \in Nat /\ Len(e.path) # 0
  BY <1>5, PathAssumption, EmptySeq, LenProperties
<1>10. disk' = [disk EXCEPT ![e.path] = File(e.to, n)] /\ status' = status
  <2>1. Head(hardlinks).old = e.to /\ Head(hardlinks).new = e.path
    BY <1>2, <1>4
  <2>2. IsFile(disk[e.to])
    BY <1>6, ResultFacts
  <2>3. Len(e.path) = 1 \/ disk[Front(e.path)].kind = "dir"
    <3>1. \A k \in Nat \ {0} : k = 1 \/ k > 1
      OBVIOUS
    <3> QED BY <1>8, <1>9, <3>1
  <2> QED BY <1>6, <1>7, <2>1, <2>2, <2>3 DEF CreateHardLink
<1>11. disk'[e.path] = File(e.to, n) /\ \A p \in Path : p # e.path => disk'[p] = disk[p]
  BY <1>1, <1>5, <1>10 DEF TypeOK
<1>12. \A m, x : Stays(m, x)' <=> Stays(m, x)
  BY <1>1, StaysSame
<1>13. ASSUME NEW m \in 1 .. Len(image), NEW x \in image[m].entries, Stays(m, x)
       PROVE  Stands(m, x)'
  <2>1. CASE x.path = e.path
    <3>1. m = n /\ x = e
      BY <1>1, <1>4, <1>13, <2>1, OneTop DEF Stays
    <3> QED BY <1>4, <1>11, <3>1 DEF Stands, Result
  <2>2. CASE x.path # e.path
    <3>1. Stands(m, x) /\ x.path \in Path
      BY <1>1, <1>13, ValidFacts DEF Made, Past
    <3>2. CASE x.kind = "link" /\ \E i \in Links : hardlinks[i] = [old |-> x.to, new |-> x.path]
      <4>1. PICK i \in Links : hardlinks[i] = [old |-> x.to, new |-> x.path]
        BY <3>2
      <4>2. hardlinks[1].new = e.path /\ hardlinks[i].new = x.path
        BY <1>4, <4>1
      <4>3. i # 1
        BY <2>2, <4>2
      <4>4. i - 1 \in Links' /\ hardlinks'[i - 1] = [old |-> x.to, new |-> x.path]
        BY <1>2, <4>1, <4>3
      <4> QED BY <3>2, <4>4 DEF Stands
    <3>3. CASE disk[x.path] = Result(x, m)
      <4>1. disk'[x.path] = Result(x, m)
        BY <1>11, <2>2, <3>1, <3>3
      <4> QED BY <4>1 DEF Stands, Result
    <3> QED BY <1>1, <3>1, <3>2, <3>3 DEF Stands
  <2> QED BY <2>1, <2>2
<1>14. Made'
  BY <1>1, <1>12, <1>13 DEF Made
<1>15. ASSUME NEW p \in Path, disk'[p] # Absent
       PROVE  \E m \in 1 .. Len(image) : m >= layer /\ \E x \in image[m].entries :
                /\ x.path = p /\ Stays(m, x)
                /\ x.kind = "dir" <=> ~IsFile(disk'[p])
                /\ x.kind = "link" => status # "layers"
  <2>1. CASE p = e.path
    <3>1. n >= layer /\ IsFile(disk'[p])
      BY <1>1, <1>11, <2>1, ResultFacts
    <3> QED BY <1>1, <1>4, <2>1, <3>1
  <2>2. CASE p # e.path
    <3>1. disk'[p] = disk[p]
      BY <1>11, <2>2
    <3> QED BY <1>1, <1>15, <3>1 DEF OnDisk
  <2> QED BY <2>1, <2>2
<1>16. OnDisk'
  BY <1>1, <1>10, <1>12, <1>15 DEF OnDisk
<1>17. Listed'
  <2>1. \A i \in Links' : \E j \in Links : hardlinks'[i] = hardlinks[j]
    BY <1>2
  <2> QED BY <1>1, <2>1, ListedUnwritten
<1> QED BY <1>1, <1>10, <1>14, <1>16, <1>17 DEF Sound, Ends

LEMMA FinishSound ==
  ASSUME IInv, Sound, Finish
  PROVE  Sound'
<1>1. /\ UNCHANGED <<image, layer, todo, accepted, hardlinks, disk>>
      /\ status = "links" /\ status' = "done" /\ hardlinks = << >>
      /\ layer \in Nat /\ Links' = Links
      /\ Made /\ OnDisk /\ Listed /\ Ends
  BY ImageFacts DEF Finish, lCtx, Links, Sound, IInv, TypeOK
<1>2. Made'
  BY <1>1, MadeUnwritten DEF Past
<1>3. OnDisk'
  BY <1>1, OnDiskUnwritten
<1>4. Listed'
  BY <1>1, ListedUnwritten
<1> QED BY <1>1, <1>2, <1>3, <1>4 DEF Sound, Ends

LEMMA StutterSound ==
  ASSUME Sound, UNCHANGED vars
  PROVE  Sound'
<1>1. UNCHANGED <<image, layer, todo, accepted, hardlinks, disk, status, seenPaths, whiteouts,
                  pendingOpqs>>
  BY DEF vars, lCtx
<1>2. \A n, x : /\ Stays(n, x)' <=> Stays(n, x)
                /\ Past(n, x)' <=> Past(n, x)
                /\ Stands(n, x)' <=> Stands(n, x)
  BY <1>1, StaysSame DEF Past, Stands, Result, Links
<1>3. Made' /\ OnDisk'
  BY <1>1, <1>2 DEF Sound, Made, OnDisk
<1>4. Listed'
  BY <1>1, <1>2 DEF Sound, Listed, Links
<1>5. status' = "layers" => Hiding' /\ WhiteoutsFrom' /\ SeenFrom'
  BY <1>1, <1>2 DEF Sound, Hiding, WhiteoutsFrom, SeenFrom, Hidden, IsParentWhiteout
<1> QED BY <1>1, <1>3, <1>4, <1>5 DEF Sound, Ends

LEMMA InitSound == Init => Sound
<1> SUFFICES ASSUME Init PROVE Sound
  OBVIOUS
<1>1. /\ image \in Image /\ layer = Len(image) /\ todo = image[layer].entries
      /\ accepted = {} /\ hardlinks = << >> /\ disk = [p \in Path |-> Absent]
      /\ seenPaths = {} /\ whiteouts = {} /\ pendingOpqs = {} /\ status = "layers"
  BY DEF Init
<1>2. Len(image) \in Nat \ {0} /\ Links = {}
  BY <1>1, ImageFacts, EmptySeq DEF Links
<1>3. Made
  BY <1>1, <1>2 DEF Made, Past
<1>4. OnDisk /\ Listed /\ Ends
  BY <1>1, <1>2 DEF OnDisk, Listed, Ends
<1>5. Hiding /\ WhiteoutsFrom /\ SeenFrom
  BY <1>1, <1>2 DEF Hiding, WhiteoutsFrom, SeenFrom
<1> QED BY <1>3, <1>4, <1>5 DEF Sound

LEMMA SoundStep ==
  ASSUME IInv, Sound, Valid, [Next]_vars
  PROVE  Sound'
<1>1. ASSUME NEW e \in todo, FilterWhiteout(e) PROVE Sound'
  BY <1>1, FilterWhiteoutSound
<1>2. ASSUME NEW e \in todo, Omit(e) PROVE Sound'
  BY <1>2, OmitSound
<1>3. ASSUME NEW e \in todo, ApplyEntry(e) PROVE Sound'
  BY <1>3, ApplyEntrySound
<1>4. ASSUME NEW e \in todo, AcceptEntry(e) PROVE Sound'
  BY <1>4, AcceptEntrySound
<1>5. ASSUME NEW e \in accepted, Extract(e) PROVE Sound'
  BY <1>5, ExtractSound
<1>6. CASE NextLayer
  BY <1>6, NextLayerSound
<1>7. CASE CreateHardLink
  BY <1>7, CreateHardLinkSound
<1>8. CASE Finish
  BY <1>8, FinishSound
<1>9. CASE UNCHANGED vars
  BY <1>9, StutterSound
<1> QED BY <1>1, <1>2, <1>3, <1>4, <1>5, <1>6, <1>7, <1>8, <1>9 DEF Next

\* For a valid image the disk holds, at every moment, what the entries that
\* have the last word on their paths gave it so far.
THEOREM SoundAlways ==
  ASSUME Valid
  PROVE  Spec => []Sound
<1>1. ASSUME IInv, Sound, [Next]_vars PROVE Sound'
  BY <1>1, SoundStep
<1> QED BY <1>1, InitSound, Invariance, PTL DEF Spec

\* No valid image makes extractLayer or createHardLinks fail: nothing is in the
\* way of an entry, parents come first and links find their targets.
THEOREM NothingFails ==
  ASSUME Valid
  PROVE  Spec => []NeverFails
<1>1. Sound => NeverFails
  BY DEF Sound, Ends, NeverFails
<1> QED BY <1>1, SoundAlways, PTL

-----------------------------------------------------------------------------
(***************************************************************************)
(* The reference: what the layers, applied bottom up, leave at a path is   *)
(* what the last layer that touches it gives there.                        *)
(***************************************************************************)

\* t holds the trees of the lowest layers, up to the k-th.
Unfolds(img, t, k) ==
  t = [n \in 0 .. k |-> IF n = 0 THEN [p \in Path |-> Absent]
                        ELSE Applied(img[n].entries, n, t[n - 1])]

LEMMA TreesExist ==
  ASSUME NEW img
  PROVE  \A k \in Nat : \E t : Unfolds(img, t, k)
<1> DEFINE T == {k \in Nat : ~\E t : Unfolds(img, t, k)}
<1> SUFFICES ASSUME T # {} PROVE FALSE
  OBVIOUS
<1>1. PICK k \in T : \A m \in T : k <= m
  BY LeastNumber
<1>2. CASE k = 0
  <2> DEFINE t == [n \in 0 .. 0 |-> [p \in Path |-> Absent]]
  <2>1. t = [n \in 0 .. 0 |-> IF n = 0 THEN [p \in Path |-> Absent]
                              ELSE Applied(img[n].entries, n, t[n - 1])]
    OBVIOUS
  <2> QED BY <1>1, <1>2, <2>1 DEF Unfolds
<1>3. CASE k # 0
  <2>1. k - 1 \in Nat /\ k - 1 \notin T
    BY <1>1, <1>3
  <2>2. PICK t : Unfolds(img, t, k - 1)
    BY <2>1
  <2> DEFINE u == [n \in 0 .. k |-> IF n = k THEN Applied(img[k].entries, k, t[k - 1]) ELSE t[n]]
  <2>3. \A n \in 0 .. k - 1 :
          t[n] = IF n = 0 THEN [p \in Path |-> Absent] ELSE Applied(img[n].entries, n, t[n - 1])
    BY <2>2 DEF Unfolds
  <2>4. \A n \in 0 .. k : n # 0 => u[n - 1] = t[n - 1]
    BY <1>1
  <2>5. \A n \in 0 .. k :
          u[n] = IF n = 0 THEN [p \in Path |-> Absent] ELSE Applied(img[n].entries, n, u[n - 1])
    <3> TAKE n \in 0 .. k
    <3>1. CASE n = k
      BY <1>3, <2>4, <3>1
    <3>2. CASE n # k
      <4>1. n \in 0 .. k - 1 /\ u[n] = t[n]
        BY <1>1, <3>2
      <4> QED BY <2>3, <2>4, <4>1
    <3> QED BY <3>1, <3>2
  <2>6. u = [n \in 0 .. k |-> u[n]]
    OBVIOUS
  <2> HIDE DEF u
  <2>7. Unfolds(img, u, k)
    BY <2>5, <2>6 DEF Unfolds
  <2> QED BY <1>1, <2>7
<1> QED BY <1>2, <1>3

\* So the recursive function of the reference computes them.
LEMMA TreesFacts ==
  ASSUME NEW img \in Image
  PROVE  /\ Trees(img)[0] = [p \in Path |-> Absent]
         /\ \A n \in 1 .. Len(img) :
              Trees(img)[n] = Applied(img[n].entries, n, Trees(img)[n - 1])
<1>1. Len(img) \in Nat \ {0}
  BY ImageFacts
<1>2. Trees(img) = CHOOSE t : Unfolds(img, t, Len(img))
  BY DEF Trees, Unfolds
<1>3. Unfolds(img, Trees(img), Len(img))
  BY <1>1, <1>2, TreesExist
<1> DEFINE t == Trees(img)
<1> HIDE DEF t
<1>4. t = [n \in 0 .. Len(img) |-> IF n = 0 THEN [p \in Path |-> Absent]
                                   ELSE Applied(img[n].entries, n, t[n - 1])]
  BY <1>3 DEF Unfolds, t
<1>5. /\ t[0] = [p \in Path |-> Absent]
      /\ \A n \in 1 .. Len(img) : t[n] = Applied(img[n].entries, n, t[n - 1])
  BY <1>1, <1>4
<1> QED BY <1>5 DEF t

\* A layer gives its entries, takes what it removes, and leaves the rest.
LEMMA AppliedContent ==
  ASSUME Valid, NEW img \in Image, NEW n \in 1 .. Len(img), NEW below,
         NEW e \in img[n].entries, IsContent(e)
  PROVE  Applied(img[n].entries, n, below)[e.path] = Result(e, n)
<1> DEFINE here == {x \in img[n].entries : x.path = e.path /\ IsContent(x)}
<1>1. e.path \in Path
  BY ValidFacts
<1>2. here = {e}
  BY ValidFacts
<1> DEFINE chosen == CHOOSE x \in here : TRUE
<1>3. chosen = e
  BY <1>2
<1>4. here # {}
  BY <1>2
<1>5. Applied(img[n].entries, n, below)[e.path]
        = IF chosen.kind = "link" THEN LinkTarget(img[n].entries, n, below, chosen.to)
          ELSE NodeOf(chosen, n)
  <2> HIDE DEF here
  <2> QED BY <1>1, <1>4 DEF Applied, here
<1> HIDE DEF here, chosen
<1>6. ASSUME e.kind = "link" PROVE LinkTarget(img[n].entries, n, below, e.to) = File(e.to, n)
  BY <1>6, TargetTop DEF LinkTarget
<1> QED BY <1>3, <1>5, <1>6 DEF Result

LEMMA AppliedElsewhere ==
  ASSUME Valid, NEW img \in Image, NEW n \in 1 .. Len(img), NEW below, NEW p \in Path,
         \A e \in img[n].entries : ~(IsContent(e) /\ e.path = p)
  PROVE  Applied(img[n].entries, n, below)[p]
           = IF Removed(img[n].entries, p) THEN Absent ELSE below[p]
<1> DEFINE here == {e \in img[n].entries : e.path = p /\ IsContent(e)}
           kept == IF Removed(img[n].entries, p) THEN Absent ELSE below[p]
<1>1. here = {}
  OBVIOUS
<1>2. ~\E e \in img[n].entries : IsContent(e) /\ Above(p, e.path)
  BY ValidFacts, DirEntryFacts
<1> HIDE DEF here
<1>3. Applied(img[n].entries, n, below)[p] = kept
  BY <1>1, <1>2 DEF Applied, here
<1> QED BY <1>3

\* No layer above the last one that touches a path changes what is there.
LEMMA Reach ==
  ASSUME Valid, NEW img \in Image, NEW n \in 0 .. Len(img), NEW p \in Path, Top(img, n, p)
  PROVE  Flattened(img)[p] = Trees(img)[n][p]
<1>1. Len(img) \in Nat
  BY ImageFacts
<1> DEFINE T == {k \in Nat : k \in n .. Len(img) /\ Trees(img)[k][p] # Trees(img)[n][p]}
<1>2. T = {}
  <2> SUFFICES ASSUME T # {} PROVE FALSE
    OBVIOUS
  <2>1. PICK k \in T : \A m \in T : k <= m
    BY LeastNumber
  <2>2. k # n /\ k - 1 \in n .. Len(img) /\ k \in n + 1 .. Len(img) /\ k \in 1 .. Len(img)
    BY <1>1, <2>1
  <2>3. k - 1 \notin T /\ k - 1 \in Nat
    BY <1>1, <2>1, <2>2
  <2>4. Trees(img)[k - 1][p] = Trees(img)[n][p]
    BY <2>2, <2>3
  <2>5. ~Touches(img, k, p)
    BY <2>2 DEF Top
  <2>6. Applied(img[k].entries, k, Trees(img)[k - 1])[p] = Trees(img)[k - 1][p]
    BY <2>2, <2>5, AppliedElsewhere DEF Touches
  <2>7. Trees(img)[k][p] = Trees(img)[k - 1][p]
    BY <2>2, <2>6, TreesFacts
  <2> QED BY <2>1, <2>4, <2>7
<1>3. Len(img) \in n .. Len(img)
  BY <1>1
<1> QED BY <1>1, <1>2, <1>3 DEF Flattened

\* When all is done, what is at a path is what the reference has there.
LEMMA SamePath ==
  ASSUME IInv, Sound, Valid, status = "done", NEW p \in Path
  PROVE  disk[p] = Flattened(image)[p]
<1>1. /\ image \in Image /\ Len(image) \in Nat /\ layer = 0 /\ accepted = {} /\ Links = {}
      /\ Made /\ OnDisk
  BY ImageFacts, EmptySeq DEF IInv, TypeOK, Sound, Ends, Links
<1>2. CASE \E n \in 1 .. Len(image) : Touches(image, n, p)
  <2>1. PICK n \in 1 .. Len(image) : Touches(image, n, p) /\ Top(image, n, p)
    BY <1>1, <1>2, TopLayer
  <2>2. Flattened(image)[p] = Applied(image[n].entries, n, Trees(image)[n - 1])[p]
    <3>1. n \in 0 .. Len(image)
      BY <1>1
    <3> QED BY <1>1, <2>1, <3>1, Reach, TreesFacts
  <2>3. CASE \E e \in image[n].entries : IsContent(e) /\ e.path = p
    <3>1. PICK e \in image[n].entries : IsContent(e) /\ e.path = p
      BY <2>3
    <3>2. Stays(n, e) /\ Past(n, e)
      BY <1>1, <2>1, <3>1 DEF Stays, Past
    <3>3. disk[p] = Result(e, n)
      BY <1>1, <3>1, <3>2 DEF Made, Stands
    <3>4. Flattened(image)[p] = Result(e, n)
      BY <1>1, <2>2, <3>1, AppliedContent
    <3> QED BY <3>3, <3>4
  <2>4. CASE \A e \in image[n].entries : ~(IsContent(e) /\ e.path = p)
    <3>1. Removed(image[n].entries, p)
      BY <2>1, <2>4 DEF Touches
    <3>2. Flattened(image)[p] = Absent
      BY <1>1, <2>2, <2>4, <3>1, AppliedElsewhere
    <3>3. ASSUME disk[p] # Absent PROVE FALSE
      <4>1. PICK m \in 1 .. Len(image) : \E e \in image[m].entries : e.path = p /\ Stays(m, e)
        BY <1>1, <3>3 DEF OnDisk
      <4>2. PICK e \in image[m].entries : e.path = p /\ Stays(m, e)
        BY <4>1
      <4>3. Touches(image, m, p) /\ Top(image, m, p) /\ m # n
        BY <2>4, <4>2 DEF Touches, Stays
      <4> QED BY <1>1, <2>1, <4>3 DEF Top
    <3> QED BY <3>2, <3>3
  <2> QED BY <2>3, <2>4
<1>3. CASE \A n \in 1 .. Len(image) : ~Touches(image, n, p)
  <2>1. Top(image, 0, p) /\ 0 \in 0 .. Len(image)
    BY <1>1, <1>3 DEF Top
  <2>2. Flattened(image)[p] = Absent
    BY <1>1, <2>1, Reach, TreesFacts
  <2>3. ASSUME disk[p] # Absent PROVE FALSE
    <3>1. PICK m \in 1 .. Len(image) : \E e \in image[m].entries : e.path = p /\ Stays(m, e)
      BY <1>1, <2>3 DEF OnDisk
    <3> QED BY <1>3, <3>1 DEF Touches, Stays
  <2> QED BY <2>2, <2>3
<1> QED BY <1>2, <1>3

\* ExtractImage, though it applies the layers top down, leaves the tree that the
\* image specification describes bottom up, for every valid image.
THEOREM FlattensCorrectly ==
  ASSUME Valid
  PROVE  Spec => []FlattenCorrect
<1>1. ASSUME IInv, Sound, status = "done" PROVE disk = Flattened(image)
  <2>1. image \in Image /\ disk \in [Path -> Node(Len(image))]
    BY <1>1 DEF IInv, TypeOK
  <2>2. Len(image) \in 1 .. Len(image)
    BY <2>1, ImageFacts
  <2>3. Flattened(image) = Applied(image[Len(image)].entries, Len(image),
                                   Trees(image)[Len(image) - 1])
    BY <2>1, <2>2, TreesFacts DEF Flattened
  <2>4. Flattened(image) = [p \in Path |-> Flattened(image)[p]]
    BY <2>3 DEF Applied
  <2>5. \A p \in Path : disk[p] = Flattened(image)[p]
    BY <1>1, SamePath
  <2> QED BY <2>1, <2>4, <2>5
<1>2. IInv /\ Sound => FlattenCorrect
  BY <1>1 DEF FlattenCorrect
<1> QED BY <1>2, Invariance, SoundAlways, PTL

================================================================================
