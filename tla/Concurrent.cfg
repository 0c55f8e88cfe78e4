SPECIFICATION Spec
CONSTANTS
  A = A
  B = B
  Collection = {A, B}
  None = None
  Document = {d1}
  Client = {c1, c2}
  Ingestor = {i1}
  Deleter = {x1}
  Builder = {b1}
  Cleaner = {v1}
  Mortal = {x1}
  Lossy = {x1, b1}
  Overrun = FALSE
  Reconfiguration <- Forward
  MaxIngestion = 2
  MaxDeletion = 2
  MaxReindex = 1
INVARIANTS SessionsConsistent VectorsBeforeStorage HashHeldUntilDeleted DeletedMeansErased ActivatedOnce
SYMMETRY Interchangeable
PROPERTIES CleanupSparesServing
CHECK_DEADLOCK FALSE
