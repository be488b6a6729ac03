-------------------------- MODULE MCGroupSettings ---------------------------
\* Small instances of GroupSettings.
EXTENDS GroupSettings, TLC
=============================================================================
