SPECIFICATION FairSpec
CONSTANTS
  Ids = {i1, i2, i3}
  Values = {v1, v2}
  Absent = Absent
INVARIANTS TypeOK CleanMeansOnDisk Inv
PROPERTIES Implements EveryUpdateReachesDisk CloseEnds
