SPECIFICATION Spec
CONSTANTS
  Origin <- MCOrigin
  Name = {"op", "op+", "op ctl"}
  ValidName = {"op"}
  ControlName = {"op ctl", "w5 ctl"}
  Placeholder = "_"
  Operator <- MCOperator
  Policy <- MCPolicy
  WeakKey = {"KW"}
  Tree <- MCTree
  MaxSignatures = 3
  MaxChanges = 1
INVARIANTS TypeOK QuorumIsReal AcceptedWasIssued QuorumIsExact
CHECK_DEADLOCK FALSE
