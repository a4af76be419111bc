\* delta extractions that fail, crash, retry and share files, into clean destinations
SPECIFICATION FairCleanSpec
CONSTANTS
  f = f
  g = g
  d1 = d1
  d2 = d2
  Proc = {p1, p2}
  Root = {r1, r2}
  DeltaRoot = {r1, r2}
  PlainRoot = {}
  Rel = {f, g}
  Digest = {d1, d2}
  NoDigest = NoDigest
  NoFile = NoFile
  Torn = Torn
  Nobody = Nobody
  UserDeletes <- OneFile
  Image <- Images
  Abs <- PairAbs
  Join <- PairJoin
INVARIANTS
  TypeOK
  FailuresForgotten
  SuccessKept
  CacheSound
  IndexesInStep
PROPERTIES
  UsesDBOnce
  KeepsIndex
  SuccessIsComplete
  EveryoneEnds
CHECK_DEADLOCK FALSE
