SPECIFICATION ObservedSpec
CONSTANTS
  A = A
  B = B
  d1 = d1
  Collection = {A, B}
  None = None
  Document = {d1}
  Client = {c1}
  Ingestor = {i1}
  Deleter = {x1}
  Builder = {b1}
  Cleaner = {v1}
  Mortal = {}
  Lossy = {}
  Overrun = FALSE
  Reconfiguration <- Forward
  MaxIngestion = 2
  MaxDeletion = 1
  MaxReindex = 1
  Observer = {o1}
  Losable <- Fragile
INVARIANTS StatusWasTrue DownloadsHonest AlarmsAreReal LossesReported HintsHold
CHECK_DEADLOCK FALSE
