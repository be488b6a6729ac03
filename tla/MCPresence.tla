----------------------------- MODULE MCPresence -----------------------------
\* Presence for model checking.
EXTENDS Presence
=============================================================================
