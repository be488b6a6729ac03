\* Two devices, two handlers, a key that lasts two polling intervals.
SPECIFICATION PresenceFairSpec
CONSTANTS
  Devices = {d1, d2}
  Calls = {c1, c2}
  NoDevice = NoDevice
  Ttl = 2
INVARIANTS PresenceTypeOK Withdrawn Visible
PROPERTY StoppedIsNoticed
