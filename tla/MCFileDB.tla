------------------------------- MODULE MCFileDB -------------------------------
EXTENDS FileDB

\* Disjoint destinations: a path is the pair of its root and relative path.
DisjointAbs == Root \X Rel
DisjointJoin(root, p) == <<root, p>>
===============================================================================
