SPECIFICATION Spec
CONSTANTS
  A = A
  B = B
  Collection = {A, B}
  None = None
  Document = {d1}
  Client = {c1}
  Ingestor = {i1}
  Deleter = {x1}
  Builder = {b1}
  Cleaner = {v1}
  Mortal = {}
  Lossy = {}
  Overrun = FALSE
  Reconfiguration <- Rollback
  MaxIngestion = 2
  MaxDeletion = 2
  MaxReindex = 2
PROPERTIES CleanupSparesServing
CHECK_DEADLOCK FALSE
