CONSTANTS
  Images <- MCImages
  RamPages = {5, 6, 9, 11, 12, 13, 14, 15, 16, 17, 18, 21, 24, 30, 31, 32, 40, 45}
  Capacities = {8, 10, 13, 14, 15, 16, 17, 20, 25}
  CNodePages = 2
  PageSize = 2
  Fan = 2
  Top = 2
  MaxInfos = 5
  None = None
SPECIFICATION Spec
INVARIANTS
  MemoryUsedOnce
  BootInfoTrue
  ImageInPlace
PROPERTIES
  BootSucceeds
