SPECIFICATION Spec
CONSTANTS
  a = a
  b = b
  t1 = t1
  t2 = t2
  Torn = Torn
  Thread = {t1}
  Entry = {a, b}
  W = 2
  Levels = 3
  Span <- Powers
  Op <- Scans
  InitLog <- FourEntries
  Batch <- OneEntry
  MaxSize = 4
  Damages <- OneFile
INVARIANT AuditIsDeep
