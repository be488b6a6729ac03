------------------------ MODULE MCRealtimeConnection ------------------------
\* RealtimeConnection for model checking.
EXTENDS RealtimeConnection
=============================================================================
