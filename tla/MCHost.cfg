SPECIFICATION HostSpec
CONSTANTS
  c1 = c1
  c2 = c2
  e1 = e1
  e2 = e2
  e3 = e3
  Clients <- MCClients
  Envelopes <- MCEnvelopes
  ClientOf <- MCClientOf
  Key <- MCKey
  Mutating = {e1, e2, e3}
  Lifetime = 2
  IdentityTTL = 1
  ClientLimit = 1
  CacheLimit = 1
  MaxTime = 2
  MaxInstances = 2
  MaxCopies = 1
  Hosts = {h1, h2, h3}
  Legacy = {l1}
  Launchers = {p1, p2}
  Root = root
  Foreign = foreign
  Nobody = nobody
  t1 = t1
  t2 = t2
  v1 = v1
  v2 = v2
  Keys <- TwoTerminals
  Viewers = {}
  MaxSessions = 2
  MaxEpoch = 0
  MaxLive = 2
  None = none
  MaxPid = 3
  MaxForks = 3
  LateDetach = FALSE
  Host = host
  InitProcess = init
SYMMETRY ViewerSymmetry
INVARIANTS
    CacheSafety
    StartSafety
    InputUnderAttachment
    ReopenSafety
    EmptySession
PROPERTIES
    OnceWhileLive
    NothingForeignTaken
CHECK_DEADLOCK FALSE
