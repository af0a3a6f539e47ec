SPECIFICATION Spec
CONSTANTS
  Seeders = {s1, s2}
  Writers = {w1}
  r1 = r1
  r2 = r2
  c1 = c1
  c2 = c2
  Absent = Absent
  Unpinned = Unpinned
  Nobody = Nobody
  NoRelease = NoRelease
  Releases <- MCReleases
  Manifests <- MCManifests
  History <- MCHistory
  LegacyRows <- MCLegacyRows
INVARIANTS
  PinnedReleaseOnly
  PublishedOnce
PROPERTIES
  PinIsForever
  CommitLeavesBaseline
  BaselineNeverHalfVisible
  TransactionsEnd
CHECK_DEADLOCK FALSE
