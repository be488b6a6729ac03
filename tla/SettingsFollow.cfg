\* One device with its session, its operator and the service's other clients.
SPECIFICATION FairSpec
CONSTANTS
  Devices = {d1}
  Paths = {x}
  Values = {v0, v1}
  Default = v0
  NoValue = NoValue
  Pubs = {s1, s2}
  MaxGestures = 2
  MaxFaults = 1
  MaxOutside = 1
INVARIANTS DraftAccounted CopyAccounted
PROPERTY Settles
\* Gestures, faults and outside calls are bounded, so a behaviour may stop.
CHECK_DEADLOCK FALSE
