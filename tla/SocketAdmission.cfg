\* Three messages of the client and three frames of the hub.
SPECIFICATION FairSpec
CONSTANTS
  MaxMessages = 3
  MaxFrames = 3
INVARIANTS ListenerOwned NothingAfterRevocation TimerReleased
PROPERTY RevokedIsCut
\* A connection that was closed has nothing left to do.
CHECK_DEADLOCK FALSE
