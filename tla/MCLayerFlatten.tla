---------------------------- MODULE MCLayerFlatten ----------------------------
EXTENDS LayerFlatten, FiniteSets

a == <<"a">>
ab == <<"a", "b">>
abc == <<"a", "b", "c">>
d == <<"d">>
Paths == {a, ab, abc, d}

E(p, k) == [path |-> p, kind |-> k, to |-> << >>]
LinkTo(p, q) == [path |-> p, kind |-> "link", to |-> q]

(* Directories, files and whiteouts two levels deep, opaque directories, and a *)
(* link to the deepest path.                                                   *)
Entries ==
  {E(p, "dir") : p \in {a, ab}} \cup {E(p, "file") : p \in {a, ab, abc, d}}
    \cup {E(p, "whiteout") : p \in Paths} \cup {E(p, "opaque") : p \in {a, ab}}
    \cup {LinkTo(d, abc)}

\* A path is given at most once by a layer, and removed or given.
Sane(entries) ==
  \A x, y \in entries : x.path = y.path /\ x # y => "opaque" \in {x.kind, y.kind}

Layers(tocs) == [toc : tocs, entries : {s \in SUBSET Entries : Sane(s) /\ s # {}}]
WithParents(tocs) == {l \in Layers(tocs) : ParentsPresent(<<l>>) /\ RemovesOnlyBelow(<<l>>)}

Supported(img) == NoDirReplaced(img) /\ LinksStay(img)

Two == {img \in WithParents(BOOLEAN) \X WithParents(BOOLEAN) : Supported(img)}

\* Three layers: content below, removals in the middle or content on top.
Three ==
  {img \in {l \in WithParents({FALSE}) : \A e \in l.entries : IsContent(e)}
             \X {l \in WithParents({TRUE}) : Cardinality(l.entries) <= 2}
             \X {l \in WithParents({FALSE}) : Cardinality(l.entries) <= 2} : Supported(img)}

Images == Two \cup Three

\* A file takes the place of a directory of the layer below.
Replacing == {<<[toc |-> t, entries |-> {E(a, "dir"), E(ab, "file")}],
                [toc |-> t, entries |-> {E(a, "file")}]>> : t \in BOOLEAN}
===============================================================================
