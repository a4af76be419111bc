----------------------------- MODULE LayerFlatten -----------------------------
(***************************************************************************)
(* pkg/extractor: how the layers of one image become one directory tree.   *)
(*                                                                         *)
(* OCI layers are defined bottom up: each one adds, replaces and removes   *)
(* paths of the ones below.  ExtractImage applies them top down instead,   *)
(* so that nothing is written twice: seenPaths and whiteouts remember what *)
(* upper layers gave or removed, opaque directories only hide the layers   *)
(* below theirs (pendingOpqs), and hard links are created at the end.  The *)
(* entries of a layer come in any order.                                   *)
(*                                                                         *)
(* Paths are tuples of names, << >> is the root.  Symbolic links, devices  *)
(* and empty files behave as files here.                                   *)
(***************************************************************************)
EXTENDS Naturals, Sequences, SequencesExt

CONSTANTS Path,         \* the paths that may occur, closed under parents, without << >>
          Image         \* sequences of [toc : BOOLEAN, entries : SUBSET Entry]

ASSUME PathAssumption ==
  /\ Path \subseteq Seq(STRING) \ {<< >>}
  /\ \A p \in Path : Len(p) > 1 => Front(p) \in Path

Kind == {"dir", "file", "link", "whiteout", "opaque"}

\* A whiteout's path is the removed one, an opaque's the directory it hides.
Entry == [path : Path \cup {<< >>}, kind : Kind, to : Path \cup {<< >>}]

\* A layer's entry of the root is left out, the destination is there; opaques may name it.
ASSUME ImageAssumption ==
  \A img \in Image :
     /\ img \in Seq([toc : BOOLEAN, entries : SUBSET Entry]) /\ img # << >>
     /\ \A n \in DOMAIN img : \A e \in img[n].entries :
          (e.kind # "opaque" => e.path \in Path) /\ (e.kind = "link" => e.to \in Path)

VARIABLES image,        \* the image being extracted
          layer,        \* number of the layer being applied
          todo,         \* its entries not handled yet
          accepted,     \* the entries of a chunked layer to extract
          seenPaths, whiteouts, pendingOpqs, hardlinks,    \* layerCtx
          disk,         \* disk[p]: what is at path p below the destination
          status        \* "layers", "links", "done" or "failed"

lCtx == <<seenPaths, whiteouts, pendingOpqs, hardlinks>>
vars == <<image, layer, todo, accepted, lCtx, disk, status>>

\* What can be at a path; a file is identified by where its content comes from.
Absent == [kind |-> "absent"]
Dir(n) == [kind |-> "dir", layer |-> n]        \* 0: made for a child only
File(p, n) == [kind |-> "file", path |-> p, layer |-> n]
IsFile(node) == node.kind = "file"

Node(n) == {Absent} \cup {Dir(i) : i \in 0..n} \cup {File(p, i) : p \in Path, i \in 1..n}

Above(q, p) == IsStrictPrefix(q, p)

\* Mutant: the layers are numbered from zero.
NodeOfMut(e, n) == IF e.kind = "dir" THEN Dir(n) ELSE File(e.path, n - 1)

NodeOf(e, n) == IF e.kind = "dir" THEN Dir(n) ELSE File(e.path, n)

TypeOK ==
  /\ image \in Image
  /\ layer \in 0..Len(image)
  /\ todo \in SUBSET Entry /\ accepted \in SUBSET Entry
  /\ seenPaths \in SUBSET Path
  /\ whiteouts \in SUBSET (Path \cup {<< >>})
  /\ pendingOpqs \in SUBSET (Path \cup {<< >>})
  /\ hardlinks \in Seq([old : Path, new : Path])
  /\ disk \in [Path -> Node(Len(image))]
  /\ status \in {"layers", "links", "done", "failed"}

-----------------------------------------------------------------------------
(* The filter, shared by plain and chunked layers *)

FilterWhiteout(e) ==
  /\ status = "layers" /\ e \in todo
  /\ \/ /\ e.kind = "opaque"
        /\ pendingOpqs' = pendingOpqs \cup {e.path}
        /\ UNCHANGED <<seenPaths, whiteouts>>
     \/ /\ e.kind = "whiteout"
        /\ seenPaths' = seenPaths \cup {e.path}
        /\ whiteouts' = whiteouts \cup {e.path}
        /\ UNCHANGED pendingOpqs
  /\ todo' = todo \ {e}
  /\ UNCHANGED <<image, layer, accepted, hardlinks, disk, status>>

\* Mutant: only the parent directory is looked up.
IsParentWhiteoutMut(p) == p # << >> /\ Front(p) # << >> /\ Front(p) \in whiteouts

\* The loop up the parents stops before the root.
IsParentWhiteout(p) == \E q \in whiteouts : q # << >> /\ Above(q, p)

\* Mutants: nothing upper layers gave is omitted; only their directories are.
OmittedMut(e) == IsParentWhiteout(e.path)
OmittedDirMut(e) == IsParentWhiteout(e.path) \/ (e.kind = "dir" /\ e.path \in seenPaths)

\* Entries that an upper layer removed or gave.
Omitted(e) == IsParentWhiteout(e.path) \/ e.path \in seenPaths

IsContent(e) == e.kind \in {"dir", "file", "link"}

Omit(e) ==
  /\ status = "layers" /\ e \in todo
  /\ IsContent(e) /\ Omitted(e)
  /\ todo' = todo \ {e}
  /\ UNCHANGED <<image, layer, accepted, lCtx, disk, status>>

\* The hard links to create at the end, those of entry e included.
WithLink(e) ==
  IF e.kind = "link" THEN Append(hardlinks, [old |-> e.to, new |-> e.path]) ELSE hardlinks

\* An entry that passes the filter is hidden from lower layers.
Keep(e) ==
  /\ status = "layers" /\ e \in todo
  /\ IsContent(e) /\ ~Omitted(e)
  /\ seenPaths' = seenPaths \cup {e.path}
  /\ todo' = todo \ {e}
  /\ UNCHANGED <<image, layer, whiteouts, pendingOpqs>>

-----------------------------------------------------------------------------
(* Writing *)

\* A path cannot be made below something that is not a directory.
Blocked(p) == \E q \in Path : Above(q, p) /\ IsFile(disk[q])

\* tree with the entry of layer n at its path, unless it is a link, and its missing
\* parents created.
Placed(tree, e, n) ==
  [p \in Path |-> IF p = e.path /\ e.kind # "link" THEN NodeOf(e, n)
                  ELSE IF Above(p, e.path) /\ tree[p] = Absent THEN Dir(0)
                  ELSE tree[p]]

\* A directory stays one when a directory entry comes; all else is replaced.
Cleared(e) ==
  [p \in Path |-> IF e.kind # "dir" /\ Above(e.path, p) THEN Absent ELSE disk[p]]

\* containerd's archive.Apply writes an entry as soon as it passes the filter, which
\* keeps links from it.
ApplyEntry(e) ==
  /\ ~image[layer].toc
  /\ Keep(e)
  /\ hardlinks' = WithLink(e)
  /\ \/ /\ e.kind = "link"
        /\ UNCHANGED <<disk, status>>
     \/ /\ e.kind # "link" /\ Blocked(e.path)
        /\ status' = "failed"
        /\ UNCHANGED disk
     \/ /\ e.kind # "link" /\ ~Blocked(e.path)
        /\ disk' = Placed(Cleared(e), e, layer)
        /\ UNCHANGED status
  /\ UNCHANGED accepted

\* processTOC only sorts entries into lists.
AcceptEntry(e) ==
  /\ image[layer].toc
  /\ Keep(e)
  /\ accepted' = accepted \cup {e}
  /\ UNCHANGED <<hardlinks, disk, status>>

\* The first of the accepted entries: directories and links by name, then files.
First(e) ==
  \A x \in accepted \ {e} :
     IF e.kind = "file" THEN x.kind = "file" ELSE ~(x.kind # "file" /\ Above(x.path, e.path))

\* Directories are made with their parents, of a link only the parents; a file needs
\* its parent, and replaces neither a directory that holds something nor its parents.
Extract(e) ==
  /\ status = "layers" /\ todo = {} /\ e \in accepted /\ First(e)
  /\ IF \/ Blocked(e.path)
        \/ /\ e.kind = "file"
           /\ \/ Len(e.path) > 1 /\ disk[Front(e.path)] = Absent
              \/ \E p \in Path : Above(e.path, p) /\ disk[p] # Absent
       THEN status' = "failed" /\ UNCHANGED <<hardlinks, disk>>
       ELSE /\ disk' = Placed(disk, e, layer)
            /\ hardlinks' = WithLink(e)
            /\ UNCHANGED status
  /\ accepted' = accepted \ {e}
  /\ UNCHANGED <<image, layer, todo, seenPaths, whiteouts, pendingOpqs>>

-----------------------------------------------------------------------------
(* Between and after the layers *)

\* applyOpaques, then the layer below.
NextLayer ==
  /\ status = "layers" /\ todo = {} /\ accepted = {}
  /\ whiteouts' = whiteouts \cup pendingOpqs
  /\ pendingOpqs' = {}
  /\ layer' = layer - 1
  /\ IF layer = 1 THEN status' = "links" /\ todo' = {}
                  ELSE todo' = image[layer - 1].entries /\ UNCHANGED status
  /\ UNCHANGED <<image, accepted, seenPaths, hardlinks, disk>>

\* One os.Link of createHardLinks; what is at the new path is removed first.
CreateHardLink ==
  /\ status = "links" /\ hardlinks # << >>
  /\ LET link == Head(hardlinks)
         possible == /\ IsFile(disk[link.old])
                     /\ Len(link.new) = 1 \/ disk[Front(link.new)].kind = "dir"
                     /\ \A p \in Path : Above(link.new, p) => disk[p] = Absent
     IN IF possible
          THEN disk' = [disk EXCEPT ![link.new] = disk[link.old]] /\ UNCHANGED status
          ELSE status' = "failed" /\ UNCHANGED disk
  /\ hardlinks' = Tail(hardlinks)
  /\ UNCHANGED <<image, layer, todo, accepted, seenPaths, whiteouts, pendingOpqs>>

Finish ==
  /\ status = "links" /\ hardlinks = << >>
  /\ status' = "done"
  /\ UNCHANGED <<image, layer, todo, accepted, lCtx, disk>>

Init ==
  /\ image \in Image
  /\ layer = Len(image)
  /\ todo = image[Len(image)].entries
  /\ accepted = {}
  /\ seenPaths = {} /\ whiteouts = {} /\ pendingOpqs = {} /\ hardlinks = << >>
  /\ disk = [p \in Path |-> Absent]
  /\ status = "layers"

Next ==
  \/ \E e \in todo : FilterWhiteout(e) \/ Omit(e) \/ ApplyEntry(e) \/ AcceptEntry(e)
  \/ \E e \in accepted : Extract(e)
  \/ NextLayer \/ CreateHardLink \/ Finish

Spec == Init /\ [][Next]_vars

-----------------------------------------------------------------------------
(***************************************************************************)
(* The reference: the OCI image specification's layer application, bottom  *)
(* up, of layer n on the tree of the layers below it.                      *)
(***************************************************************************)
Removed(entries, p) ==
  \E e \in entries :
     \/ e.kind = "whiteout" /\ (e.path = p \/ Above(e.path, p))
     \/ e.kind = "opaque" /\ Above(e.path, p)
     \/ e.kind \in {"file", "link"} /\ Above(e.path, p)

LinkTarget(entries, n, below, q) ==
  IF \E e \in entries : e.path = q /\ e.kind = "file" THEN File(q, n) ELSE below[q]

Applied(entries, n, below) ==
  [p \in Path |->
     LET here == {e \in entries : e.path = p /\ IsContent(e)}
         kept == IF Removed(entries, p) THEN Absent ELSE below[p]
     IN CASE here # {} ->
               (LET e == CHOOSE e \in here : TRUE
                IN IF e.kind = "link" THEN LinkTarget(entries, n, below, e.to) ELSE NodeOf(e, n))
          [] here = {} /\ (\E e \in entries : IsContent(e) /\ Above(p, e.path)) ->
               (IF kept.kind = "dir" THEN kept ELSE Dir(0))
          [] OTHER -> kept]

\* Trees(img)[n]: the tree of the lowest n layers.
Trees(img) ==
  LET tree[n \in 0..Len(img)] ==
        IF n = 0 THEN [p \in Path |-> Absent] ELSE Applied(img[n].entries, n, tree[n - 1])
  IN tree

Flattened(img) == Trees(img)[Len(img)]

(***************************************************************************)
(* The images the algorithm is right for.  Each exclusion is a case it     *)
(* gets wrong; real builders produce the first two.                        *)
(***************************************************************************)
\* No file takes the place of a directory with something left in it.
NoDirReplaced(img) ==
  \A m, n \in DOMAIN img : m < n =>
     \A e \in img[n].entries, x \in img[m].entries :
        e.kind \in {"file", "link"} => ~(IsContent(x) /\ Above(e.path, x.path))

\* A link's target is a file of its layer, which no upper layer touches.
LinksStay(img) ==
  \A n \in DOMAIN img : \A e \in img[n].entries : e.kind = "link" =>
     /\ \E x \in img[n].entries : x.path = e.to /\ x.kind = "file"
     /\ \A m \in n + 1 .. Len(img) : \A x \in img[m].entries :
           x.path # e.to /\ ~(x.kind \in {"whiteout", "opaque"} /\ Above(x.path, e.to))

\* A layer does not remove what it gives, nor hide the whole root.
RemovesOnlyBelow(img) ==
  \A n \in DOMAIN img : \A e, x \in img[n].entries :
     /\ e.kind = "whiteout" /\ IsContent(x) => e.path # x.path /\ ~Above(e.path, x.path)
     /\ e.kind = "opaque" => e.path # << >>

\* A layer has the directories its entries are in.
ParentsPresent(img) ==
  \A n \in DOMAIN img : \A e \in img[n].entries : \A q \in Path :
     Above(q, e.path) \/ (e.kind = "opaque" /\ q = e.path) =>
       [path |-> q, kind |-> "dir", to |-> << >>] \in img[n].entries

-----------------------------------------------------------------------------
(* Properties *)

(***************************************************************************)
(* "pulls a remote image and extracts its flattened root filesystem"       *)
(* (README.md:41): a successful extraction leaves the tree the layers      *)
(* describe, though they were applied top down, entries in any order.      *)
(***************************************************************************)
FlattenCorrect == status = "done" => disk = Flattened(image)

(***************************************************************************)
(* No valid image makes the extraction fail: nothing is extracted below a  *)
(* file, every file finds its directory and every hard link its target.    *)
(***************************************************************************)
NeverFails == status # "failed"

(***************************************************************************)
(* A file, once on disk, is never changed, removed or replaced by a lower  *)
(* layer, nor by a deferred hard link.                                     *)
(***************************************************************************)
FilesWrittenOnce == [][\A p \in Path : IsFile(disk[p]) => disk'[p] = disk[p]]_vars
===============================================================================
