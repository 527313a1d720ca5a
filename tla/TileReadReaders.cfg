SPECIFICATION Spec
CONSTANTS
  a = a
  b = b
  t1 = t1
  t2 = t2
  Torn = Torn
  Thread = {t1, t2}
  Entry = {a, b}
  W = 2
  Levels = 3
  Span <- Powers
  Op <- TwoReaders
  InitLog <- ThreeEntries
  Batch <- OneEntry
  MaxSize = 4
  Damages <- FirstEntries
INVARIANTS TypeOK AnswersAreCommitted VerifiedTilesTrue FailureMeansDamage
