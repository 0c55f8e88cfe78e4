SPECIFICATION Spec
CONSTANTS
  A = A
  B = B
  Collection = {A, B}
  None = None
  Document = {d1}
  Client = {c1}
  Ingestor = {i1}
  Deleter = {x1}
  Builder = {b1}
  Cleaner = {v1, v2}
  Mortal = {x1, b1, v1, v2}
  Lossy = {x1, v1}
  Overrun = FALSE
  Reconfiguration <- Forward
  MaxIngestion = 2
  MaxDeletion = 2
  MaxReindex = 2
INVARIANTS TypeOK VectorsTracked ServingVectorsPresent DeletionExcludesWriters CleanupsErase
PROPERTIES KeepsPromise DeletedStaysPut WorkersSettleTheirJobs
CHECK_DEADLOCK FALSE
