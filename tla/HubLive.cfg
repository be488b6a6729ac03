SPECIFICATION FairSpec
CONSTANTS
  Hubs = {h1, h2}
  NoHub = NoHub
  Conns = {c1}
  Pubs = {p1}
  HistoryLimit = 1
  ReplayLimit = 1
  MaxSequence = 2
  MaxRetries = 1
  Crashes = FALSE
  LossyCarrier = FALSE
PROPERTY CaughtUp
