SPECIFICATION Spec
CONSTANTS
  A = A
  B = B
  Collection = {A, B}
  None = None
  Document = {d1}
  Client = {c1, c2}
  Ingestor = {i1}
  Deleter = {}
  Builder = {b1}
  Cleaner = {}
  Mortal = {}
  Lossy = {}
  Overrun = FALSE
  Reconfiguration <- Rollback
  MaxIngestion = 1
  MaxDeletion = 0
  MaxReindex = 2
INVARIANTS ActivatedOnce
CHECK_DEADLOCK FALSE
