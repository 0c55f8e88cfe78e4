SPECIFICATION FairSpec
CONSTANTS
  A = A
  d1 = d1
  i1 = i1
  i2 = i2
  e1 = e1
  s1 = s1
  r1 = r1
  p1 = p1
  p2 = p2
  a1 = a1
  None = None
  Collection = {A}
  Active = A
  Document = {d1}
  Session <- Everyone
  Scenario <- Scenarios
  Indexer = {i1, i2}
  Eraser = {e1}
  Saver = {s1}
  Remover = {r1}
  Prober = {p1, p2}
  Asker = {a1}
  MaxAttempts = 2
  CreateIfMissing = TRUE
  ChunkSize = 6
  ChunkOverlap = 3
  Question <- Questions
  MaxTokens = 2
INVARIANTS TypeOK WritesLast ErasuresLast ReadyMeansBucket RefusedStaysLocal AnswersAreGrounded ChunksCoverText ChunksBounded
PROPERTIES KeepsContract EverythingReturns
CHECK_DEADLOCK FALSE
