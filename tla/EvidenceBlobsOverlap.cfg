\* Three audits overlap and may fail; nothing has aged out.
CONSTANTS
  r1 = r1
  r2 = r2
  r3 = r3
  b1 = b1
  b2 = b2
  b3 = b3
  b4 = b4
  s1 = s1
  s2 = s2
  Runs = {r1, r2, r3}
  Bodies = {b1, b2, b3}
  Shots = {s1}
  RunOf <- ThreeRuns
  Hashes = {h1, h2}
  Janitor = Janitor
  Prunable = {}
  MayAbort = {r1, r2, r3}
  MaxOpen = 3
  NoBlob = NoBlob
  Unread = Unread
SYMMETRY HashSymmetry
SPECIFICATION Spec
INVARIANTS
  NoDangling
