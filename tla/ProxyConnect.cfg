\* Two hosts, room for one leaf, two connections; settings that change routes.
SPECIFICATION FairSpec
CONSTANTS
  h1 = h1  h2 = h2  c1 = c1  c2 = c2  c3 = c3
  Hosts = {h1, h2}
  Addresses = {h2}
  Conns = {c1, c2}
  LeafCacheMax = 1
  MaxMints = 2
  MaxExpiries = 1
  MaxDials = 1
  Requests = {p1}
  Routes <- OneRoute
  Values = {Direct, v1}
  Direct = Direct
  Same = Same
  Lists <- SomeLists
  MaxPuts = 1
INVARIANTS CacheIsOrdered NoInheritedFailure BypassIsSaved StoreAndLiveAgree
PROPERTIES WaitsForItsClientOnly
CHECK_DEADLOCK FALSE
