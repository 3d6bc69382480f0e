CONSTANTS
  A = A  B = B  a1 = a1  a2 = a2  b1 = b1  b2 = b2  bad = bad  junk = junk
  d1 = d1  d2 = d2  x = x  y = y  z = z  s1 = s1  s2 = s2  s3 = s3  s4 = s4
  None = None
  Content = {a1, a2, b1}
  Module = {A, B}
  Dir = {d1, d2}
  Name = {x, y, z}
  Plain = {x}
  Stamp = {s1, s2, s3}
  Walked = {x, y, z}
  BadModule = {}
  Opener <- MCOpener
  ModuleOf <- MCModuleOf
  DirOf <- MCDirOf
  Faults = {"crash", "budget"}
SPECIFICATION Spec
SYMMETRY Symmetry
INVARIANTS NoGhostModules
PROPERTIES OnlyVanishedDropped
