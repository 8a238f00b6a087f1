\* Sessions one at a time; audits may fail, the retention job does not.
CONSTANTS
  r1 = r1
  r2 = r2
  r3 = r3
  b1 = b1
  b2 = b2
  b3 = b3
  b4 = b4
  s1 = s1
  s2 = s2
  Runs = {r1, r2}
  Bodies = {b1, b2, b3}
  Shots = {s1, s2}
  RunOf <- TwoRuns
  Hashes = {h1, h2}
  Janitor = Janitor
  Prunable = {r1}
  MayAbort = {r1, r2}
  MaxOpen = 1
  NoBlob = NoBlob
  Unread = Unread
SYMMETRY HashSymmetry
SPECIFICATION Spec
INVARIANTS
  RefcountExact
  KeptEvidence
  NoOrphans
