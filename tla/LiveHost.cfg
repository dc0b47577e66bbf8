SPECIFICATION FrontSpec
CONSTANTS
  Parts = {"listing"}
  Unset = Unset
  Garbage = Garbage
  Nil = Nil
  Codes <- MCCodes
  Envs <- MCEnvs
  Users = {"ann", "bob"}
  Peers = {"lan", "wan"}
  Configs <- MCConfigs
  TTL = 1
  MaxNow = 2
  MaxProcess = 2
  MaxStreams = 1
  NoToken = NoToken
  NoUser = NoUser
  Lan = {"l1", "l2"}
  Public = {"p1", "p2"}
  Unknown = "u"
  Headers <- MCHeaders
  MaxHops = 2
  Paths <- MCPaths
  Mounts <- MCMounts
  Ignored <- MCIgnored
  Loads <- MCLoads
  Internal = 6
  LimitOptions <- MCLimitOptions
  ListKinds = {"database"}
  Words = {"users"}
  Typed <- MCTyped
  FeedRows = 2
  TopLimit = 2
  Retained = 3
  Restored = {0, 1}
  Rejected = {2}
  MaxSkipped = 1
  MaxFilters = 2
  Shapes <- MCShapes
  SpanKinds = {"http", "database"}
  Length = 4
  Limits <- MCLimits
  MaxSpans = 3
  Width = 5
  Narrow = 3
  UnitBits = 2
  NaN = NaN
  Rates = {0, 7, 40, 100}
  Questions <- MCQuestions
CHECK_DEADLOCK FALSE
INVARIANT HostKept
