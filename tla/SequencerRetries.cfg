SPECIFICATION LiveSpec
CONSTANTS
  n1 = n1
  n2 = n2
  Genesis = Genesis
  NoIntent = NoIntent
  Unclaimed = Unclaimed
  Off = Off
  Nobody = Nobody
  MaxFaults = 2
  Retried = {"ea0", "ea1"}
  Node = {n1, n2}
  Agent <- MCAgent
  Id <- MCId
  Kid = {"kA", "kA2", "kB"}
  Key = {"KA", "KA2", "KB", "KB2"}
  Envelope = {"ea0", "ea1", "ea1x"}
  sealed <- MCSealed
  Registry <- OneRegistry
  MaxBatch = 1
INVARIANTS LogIsChained RegistrationsHold LiveStateIsDurable
PROPERTIES RetriesSettle
