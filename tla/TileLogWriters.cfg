SPECIFICATION Spec
CONSTANTS
  a = a
  b = b
  h1 = h1
  h2 = h2
  None = None
  Handle = {h1, h2}
  Entry = {a, b}
  W = 2
  Levels = 3
  Span <- MCSpan
  MaxBatch = 1
  MaxSize = 4
  MaxDamage = 1
  Garbage = {b}
  Locking = TRUE
  Legacy = FALSE
  InitLogs <- TwoEntries
SYMMETRY Symmetry
INVARIANTS TypeOK CommittedReadable CommittedTilesTrue ViewIsCommitted AckedCommitted OpenSucceeds
PROPERTIES ContentGrows ImplementsAppendLog
