\* The client's texts: up to two keys in an object, two levels.
SPECIFICATION Spec
CONSTANTS
  Char <- Classes
  MaxDepth = 1
  MaxChars = 2
  MaxTokens = 13
INVARIANTS TypeOK CanonicalIsFixed KeysAscend EntriesAgree
CHECK_DEADLOCK FALSE
