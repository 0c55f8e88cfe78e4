SPECIFICATION Spec
CONSTANTS
  A = A
  B = B
  Collection = {A, B}
  None = None
  Document = {d1, d2}
  Client = {c1}
  Ingestor = {i1, i2}
  Deleter = {}
  Builder = {}
  Cleaner = {}
  Mortal = {i1, i2}
  Lossy = {i1, i2}
  Overrun = FALSE
  Reconfiguration <- Forward
  MaxIngestion = 3
  MaxDeletion = 0
  MaxReindex = 0
INVARIANTS HeldOnce
PROPERTIES FailedStaysFailed
CHECK_DEADLOCK FALSE
