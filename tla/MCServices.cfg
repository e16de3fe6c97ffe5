\* Two threads and three keys over a cache of two; three users and three
\* connections over a pool of two; two scopes of one item each.
SPECIFICATION MCSpec
CONSTANTS
  local = local  global = global
  Callers = {c1, c2}
  Keys = {k1, k2, k3}
  Capacity = 2
  MaxTexts = 1
  Users = {u1, u2, u3}
  Conns = {d1, d2, d3}
  MaxSize = 2
  MinSize = 1
  NoConn = NoConn
  Readers = {r1}
  Names = {n1, n2}
  Scopes <- MCScopes
  Anywhere = Anywhere
  Ranks = {0, 2}
  MaxItems = 1
  MaxSnapshots = 1
  MaxWrites = 2
INVARIANTS
  ServicesTypeOK
  CacheAgrees
  CachedIsCurrent
PROPERTIES
  PoolKeepsContract
CHECK_DEADLOCK FALSE
