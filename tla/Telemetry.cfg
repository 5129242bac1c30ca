CONSTANTS
  j1 = j1
  j2 = j2
  j3 = j3
  Recorders = {j1, j2, j3}
  NameOf <- MCNames
  MaxPoints <- MCPoints
  HasUrl = TRUE
  IntraPeriod = 2
  MaxPictures = 2
SPECIFICATION FairSpec
INVARIANTS IntraComes
PROPERTIES IsExport PointsLeave
\* The pusher may be down, the cameras off, and the program ended.
CHECK_DEADLOCK FALSE
