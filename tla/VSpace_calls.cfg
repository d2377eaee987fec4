CONSTANTS
  Top = 1
  Vpns = {v0, v1}
  KernelVpn = 2
  Tables = {t0, t1, t2, t3}
  BootRoot = t0
  Pages = {p1, p2}
  PageCaps = {c1, c2, c3}
  Copied = {}
  AnyRoot = FALSE
  Kernel = Kernel
  Unmapped = Unmapped
SPECIFICATION Spec
INVARIANTS
  MappingsCounted
  CachedAgrees
  TablesFormTrees
PROPERTIES
  OneTranslationPerCall
SYMMETRY MCSymmetry
