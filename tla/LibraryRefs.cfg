\* Two materials, two uploads of two contents, under either storage.
SPECIFICATION Spec
CONSTANTS
  Materials = {m1, m2}
  NoMaterial = NoMaterial
  Sessions = {s1, s2}
  NoVersion = NoVersion
  Hashes = {h1, h2}
  NoHash = NoHash
  Garbage = Garbage
  Issuers = {"multipart", "whole"}
  MaxRevision = 3
SYMMETRY Symmetry
INVARIANTS TypeOK VersionsBacked CurrentResolves CompletedHasBytes
\* Sessions and revisions are bounded, so a behaviour may stop.
CHECK_DEADLOCK FALSE
