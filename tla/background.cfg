\* Jobs: one run, one report, two workers, three mishaps.  Streams: one more than the
\* quota.  Cache: a page with invalidation and one without, two readers, two writes.
SPECIFICATION BackgroundSpec
CONSTANTS
  Parts = {"jobs", "hub", "cache"}
  Runs = {p1}
  Reports = {r1}
  Workers = {w1, w2}
  Files = {f1, f2, f3}
  NoFile = NoFile
  MaxMishaps = 3
  Streams = {st1, st2, st3}
  Events = {ev1, ev2}
  MaxStreams = 2
  ListPages = {lp1}
  SummaryPages = {sp1}
  Readers = {rd1, rd2}
  MaxWrites = 2
INVARIANTS
  WorkInHand ReadyHasFile QuotaHonest StaleExplained
PROPERTIES
  FollowsLifecycle JobsSettle Reaches StaleEnds
\* The bounds end every part.
CHECK_DEADLOCK FALSE
