\* the base image may be deleted and collected while it is being committed on
SPECIFICATION Spec
CONSTANTS
  l1 = l1
  l2 = l2
  base = base
  Caller = {c1, c2}
  Name = {base, app}
  Layer = {l1, l2}
  NoName = NoName
  NoImage = NoImage
  Remote <- OnlyBase
  Diff = {l2}
  Bases = {base}
INVARIANTS
  ImageComplete
