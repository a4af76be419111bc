\* two concurrent callers; no base image is replaced or deleted while one commits on it
SPECIFICATION FairBasesStaySpec
CONSTANTS
  l1 = l1
  l2 = l2
  base = base
  Caller = {c1, c2}
  Name = {base, app}
  Layer = {l1, l2}
  NoName = NoName
  NoImage = NoImage
  Remote <- OnlyBase
  Diff = {l2}
  Bases = {base}
INVARIANTS
  TypeOK
  ImageComplete
PROPERTIES
  NothingLeaks
  PullEnds
