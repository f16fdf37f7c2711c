SPECIFICATION Spec
CONSTANTS
  w = w
  Wines = {w}
  BottleSize <- MCBottleSize
  GlassPour <- MCGlassPour
  Lots = {1, 2, 3}
  WineOf <- MCWineOf
  Received <- MCReceived
  BestBefore <- MCBestBefore
  NoDate = NoDate
  MaxOpenings = 2
  Volumes = {0, 3}
  FaultSizes = {1, 2}
  AsWaste = {TRUE}
  Terminals = {t1, t2}
  Databases = {TRUE, FALSE}
SYMMETRY Sym
INVARIANTS VolumeAccounted BottlesAccounted
PROPERTIES ClosedForGood OldestBottleFirst
CHECK_DEADLOCK FALSE
