\* Two devices, two kinds, honest clients, three attempts, one retained row.
SPECIFICATION Spec
CONSTANTS
  Attempts = {a1, a2, a3}
  Devices = {d1, d2}
  Kinds = {"document", "session"}
  Requests = {r1}
  NoRequest = NoRequest
  Payloads = {v1}
  NoPayload = NoPayload
  HistoryLimit = 1
  ReusedIds = FALSE
  Expiry = TRUE
SYMMETRY Symmetry
INVARIANTS ReceiptsMatchLog AckedIsMine
PROPERTIES WriterAuthorized KeepsPromise
\* Handlers and revisions are bounded, so a behaviour may stop.
CHECK_DEADLOCK FALSE
