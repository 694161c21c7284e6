\* Two people and two requests at a time; clocks, versions and retries are bounded.
SPECIFICATION Spec
CONSTANTS
  Parts = {"accounts", "tokens", "factor", "lockout", "limiter"}
  People = {p1, p2}
  Handlers = {h1, h2}
  Tokens = {t1}
  TicksPerSecond = 1
  LastTick = 1
  MaxVersion = 3
  RefreshTokens = {r1, r2, r3}
  Links = {l1, l2}
  OttHandlers = {h1, h2}
  Secrets = {s1, s2}
  Codes = {c1, c2, c3, c4}
  BatchSize = 2
  MfaHandlers = {h1, h2}
  MaxLogouts = 0
  SignIns = {h1, h2}
  MaxFailed = 3
  LockTime = 6
  TicksInSecond = 2
  LastMoment = 11
  Threads = {h1, h2}
  Limit = 2
  Window = 4
  TickPerSecond = 2
  LastInstant = 7
CONSTRAINTS NobodyCrossed FewRevocations OneSortOfToken
SYMMETRY Symmetry
INVARIANTS
  RevokedStaysOut
  UsedOnce LastLinkOnly LoggedOutEverywhere
  NotLockedOut CodesUsedOnce
  AttemptsBounded
  LimitKept
PROPERTIES
  AdminRemains
\* The bounds end every part.
CHECK_DEADLOCK FALSE
