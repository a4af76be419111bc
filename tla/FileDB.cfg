\* any calls of the package's API, paths recorded again under other digests included
SPECIFICATION Spec
CONSTANTS
  Root = {r1, r2}
  Rel = {f, g}
  Digest = {d1, d2}
  NoDigest = NoDigest
  Abs <- DisjointAbs
  Join <- DisjointJoin
INVARIANTS
  TypeOK
  NoOrphanDigest
  ReverseCovered
