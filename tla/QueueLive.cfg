\* Two workers over two versions of one content, two attempts for each job.
SPECIFICATION FairSpec
CONSTANTS
  Versions = {v1, v2}
  NoVersion = NoVersion
  Hashes = {h1}
  NoHash = NoHash
  Workers = {w1, w2}
  MaxAttempts = 2
INVARIANTS RenditionBacked OneOwner
PROPERTIES EndsOnce JobsEnd
\* Everything may have been converted or purged.
CHECK_DEADLOCK FALSE
