\* Two calls at once over three rotations, one pairing request with its retries.
SPECIFICATION Spec
CONSTANTS
  Calls = {c1, c2}
  Requests = {r1, r2}
  NoRequest = NoRequest
  CodeRequest = CodeRequest
  MaxGeneration = 4
  MaxCodes = 3
  MaxIssued = 4
SYMMETRY Symmetry
INVARIANTS OneCredential Recoverable OneCapability
PROPERTY EndedStaysEnded
\* A device whose session ended and whose store is cleared has nothing left to do.
CHECK_DEADLOCK FALSE
