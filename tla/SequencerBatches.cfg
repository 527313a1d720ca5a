SPECIFICATION Spec
CONSTANTS
  n1 = n1
  n2 = n2
  Genesis = Genesis
  NoIntent = NoIntent
  Unclaimed = Unclaimed
  Off = Off
  Node = {n1}
  Agent <- MCAgent
  Id <- MCId
  Kid = {"kA", "kA2", "kB"}
  Key = {"KA", "KA2", "KB", "KB2"}
  Envelope = {"ea0", "ea0b", "ea1", "ea1x", "ea2", "ea2x", "eb0", "eb0x"}
  sealed <- MCSealed
  Registry <- TwoRegistries
  MaxBatch = 2
INVARIANTS TypeOK LogIsChained RegistrationsHold LiveStateIsDurable ReplayNeverRefuses
