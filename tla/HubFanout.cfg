\* Two processes, two publications, a carrier that loses, processes that die.
SPECIFICATION Spec
CONSTANTS
  Hubs = {h1, h2}
  NoHub = NoHub
  Conns = {c1}
  Pubs = {p1, p2}
  HistoryLimit = 1
  ReplayLimit = 2
  MaxSequence = 3
  MaxRetries = 0
  Crashes = TRUE
  LossyCarrier = TRUE
SYMMETRY Symmetry
INVARIANTS WindowIntact ReplayComplete DrainComplete
PROPERTY SendsAscend
