SPECIFICATION Spec
CONSTANTS
  i = i
  j = j
  c = c
  d = d
  s = s
  f = f
  tag = tag
  r1 = r1
  r2 = r2
  r3 = r3
  nobody = nobody
  none = none
  token = token
  Items = {i, j}
  Collections = {c, d}
  Settings = {s}
  Searches = {f}
  Tag = tag
  Requests = {r1, r2}
  Nobody = nobody
  Shapes <- TwoAndOne
  Present = {i, c, s, f}
  Tokens = {token}
  NoHeader = none
  NoToken = none
  MaxCrashes = 0
SYMMETRY Symmetry
CHECK_DEADLOCK FALSE
INVARIANTS
  RefusedBecauseChanged
