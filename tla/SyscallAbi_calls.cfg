CONSTANTS
  HalfBits = 3
  Words = {5, 62}
  Halves = {0, 7}
  Codes = {0, 63}
SPECIFICATION Spec
INVARIANTS
  ArgumentsArrive
  ResultArrives
