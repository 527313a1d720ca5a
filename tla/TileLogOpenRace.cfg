SPECIFICATION Spec
CONSTANTS
  a = a
  b = b
  h1 = h1
  h2 = h2
  None = None
  Handle = {h1, h2}
  Entry = {a, b}
  W = 2
  Levels = 3
  Span <- MCSpan
  MaxBatch = 2
  MaxSize = 3
  MaxDamage = 0
  Garbage = {}
  Locking = TRUE
  Legacy = TRUE
  InitLogs <- EmptyLog
INVARIANT ViewIsCommitted
