\* a cached digest with two paths, one of which a user deleted
SPECIFICATION Spec
CONSTANTS
  f = f
  g = g
  d1 = d1
  d2 = d2
  Proc = {p1, p2}
  Root = {r1, r2}
  DeltaRoot = {r1, r2}
  PlainRoot = {}
  Rel = {f, g}
  Digest = {d1, d2}
  NoDigest = NoDigest
  NoFile = NoFile
  Torn = Torn
  Nobody = Nobody
  UserDeletes <- AnyFile
  Image <- Images
  Abs <- PairAbs
  Join <- PairJoin
PROPERTIES
  ReadableHitCopied
CHECK_DEADLOCK FALSE
