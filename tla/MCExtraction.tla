----------------------------- MODULE MCExtraction -----------------------------
EXTENDS Extraction, TLC

CONSTANTS f, g, d1, d2

PairAbs == Root \X Rel
PairJoin(root, rel) == <<root, rel>>

L(hasTOC, atF, atG) == [toc |-> hasTOC, files |-> (f :> atF) @@ (g :> atG)]

(* An image with both files in one chunked layer and the same content; one    *)
(* whose upper layer replaces f, with a lower layer that has no table of      *)
(* contents; one that shares d1 and d2 over two chunked layers; and one whose *)
(* only file may get a hard link, and that leaves no records.                 *)
Images ==
  {<<L(TRUE, d1, d1)>>,
   <<L(FALSE, d1, d2), L(TRUE, d2, NoDigest)>>,
   <<L(TRUE, d2, d1), L(TRUE, d1, NoDigest)>>,
   <<L(FALSE, d2, NoDigest)>>}

\* Users may delete the file at one path; or every file.
OneFile == {<<CHOOSE root \in Root : TRUE, f>>}
AnyFile == PairAbs

(* The same content at three paths, of which the upper layer has two; and an  *)
(* image with one of these only, to which another may be a hard link.         *)
LinkImages ==
  LET Layer3(hasTOC, given) ==
        [toc |-> hasTOC, files |-> [rel \in Rel |-> IF rel \in given THEN d1 ELSE NoDigest]]
  IN {<<Layer3(TRUE, {g}), Layer3(TRUE, Rel \ {g})>>, <<Layer3(FALSE, {f})>>}
===============================================================================
