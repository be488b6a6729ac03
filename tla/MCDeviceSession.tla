-------------------------- MODULE MCDeviceSession --------------------------
\* DeviceSession for model checking: calls and refresh ids are interchangeable.
EXTENDS DeviceSession, TLC

Symmetry == Permutations(Calls) \cup Permutations(Requests)
=============================================================================
