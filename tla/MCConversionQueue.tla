-------------------------- MODULE MCConversionQueue --------------------------
\* Small instances of ConversionQueue.
EXTENDS ConversionQueue, TLC
=============================================================================
