SPECIFICATION Spec
CONSTANTS
  Seeders = {s1}
  Writers = {w1, w2}
  r1 = r1
  r2 = r2
  c1 = c1
  c2 = c2
  Absent = Absent
  Unpinned = Unpinned
  Nobody = Nobody
  NoRelease = NoRelease
  Releases <- MCReleases
  Manifests <- MCManifests
  History <- MCHistory
  LegacyRows <- MCLegacyRows
PROPERTIES
  AcknowledgedUpdateHappened
CHECK_DEADLOCK FALSE
