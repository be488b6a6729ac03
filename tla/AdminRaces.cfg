\* Overlapping statements, handlers that die and one request id that is retried.
SPECIFICATION Spec
CONSTANTS
  Devices = {d1, d2}
  Ops = {o1, o2}
  Requests = {r1}
  NoRequest = NoRequest
  NoDevice = NoDevice
  MaxRevision = 6
  Overlap = TRUE
  Deaths = TRUE
SYMMETRY Symmetry
CONSTRAINT Few
VIEW Unannounced
INVARIANTS OncePerRequest ReplayAnswersOwn
PROPERTIES RevokedIsFinal LastAdmin
\* Handlers and revisions are bounded, so a behaviour may stop.
CHECK_DEADLOCK FALSE
