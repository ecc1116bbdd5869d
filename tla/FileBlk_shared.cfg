\* Two programs on one file; any call may fail.
CONSTANTS
  Procs = {p, q}
  Geometries <- MCGeometries
  Default <- MCDefault
  Texts = {1, 3}
  CellCount = 4
  Skew = 2
  Failing = TRUE
SPECIFICATION Spec
INVARIANTS TypeOK CheckFsOK PromisesKept
SYMMETRY MCSymmetry
