CONSTANTS
  Top = 2
  Vpns = {0, 1}
  KernelVpn = 2
  Tables = {t0, t1, t2, t3, t4, t5, t6}
  BootRoot = t0
  Pages = {p1, p2, p3, p4}
  PageCaps = {c1, c2, c3, c4, c5, c6, c7}
  Copied = {}
  AnyRoot = FALSE
  Kernel = Kernel
  Unmapped = Unmapped
  PageSize = 2
  VpnBits = 1
  Segments <- MCSegments
  FreeAddress = 14
  Zero = Zero
SPECIFICATION LoaderSpec
INVARIANTS
  ImageLoaded
PROPERTIES
  LoaderEnds
