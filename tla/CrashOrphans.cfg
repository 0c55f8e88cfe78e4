SPECIFICATION Spec
CONSTANTS
  A = A
  B = B
  Collection = {A, B}
  None = None
  Document = {d1}
  Client = {c1}
  Ingestor = {i1}
  Deleter = {x1}
  Builder = {b1}
  Cleaner = {v1}
  Mortal = {i1}
  Lossy = {}
  Overrun = FALSE
  Reconfiguration <- Forward
  MaxIngestion = 3
  MaxDeletion = 2
  MaxReindex = 2
INVARIANTS DeletedMeansUnsearchable
CHECK_DEADLOCK FALSE
