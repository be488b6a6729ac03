SPECIFICATION Spec
CONSTANTS
  Hubs = {h1}
  NoHub = NoHub
  Conns = {c1}
  Pubs = {p1, p2}
  HistoryLimit = 2
  ReplayLimit = 2
  MaxSequence = 3
  MaxRetries = 0
  Crashes = FALSE
  LossyCarrier = FALSE
INVARIANT NoSilentGap
