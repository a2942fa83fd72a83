SPECIFICATION Spec
SYMMETRY Interchangeable
CONSTANTS
  Ids = {i1, i2}
  Values = {v1}
  Absent = Absent
INVARIANT CleanMeansRecoverable
