SPECIFICATION FairSpec
CONSTANTS
  A = A
  B = B
  Collection = {A, B}
  None = None
  Document = {d1}
  Client = {c1}
  Ingestor = {i1}
  Deleter = {x1}
  Builder = {b1}
  Cleaner = {v1}
  Mortal = {i1}
  Lossy = {x1, v1}
  Overrun = FALSE
  Reconfiguration <- Forward
  MaxIngestion = 3
  MaxDeletion = 2
  MaxReindex = 2
PROPERTIES IngestionSettles VacatedIsCleaned DeletionSettles
CHECK_DEADLOCK FALSE
