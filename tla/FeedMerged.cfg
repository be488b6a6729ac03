\* A socket and a poller fall behind a two-row window, fail and throw, and the
\* group falls silent.
SPECIFICATION FeedFairSpec
CONSTANTS
  Sockets = {s1}
  Pollers = {p1}
  Kinds = {"document", "other"}
  HistoryLimit = 2
  ReplayLimit = 2
  MaxSequence = 4
  MaxDrops = 2
INVARIANTS FeedTypeOK AppliedOnce NoSkip
PROPERTY CatchesUp
