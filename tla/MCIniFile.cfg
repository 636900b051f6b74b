SPECIFICATION Spec
CONSTANTS
  Section = {"a", "b"}
  Key = {"k", "j"}
  Value = {"plain", "#", ""}
  Hash = {"#"}
  ReadAs <- MCReadAs
  NoValue = "none"
  Default = "default"
  InitFiles <- MCInitFiles
  MaxMaps = 3
  Faults = {"read", "creat", "full", "open", "grow", "map", "kill"}
  MaxCalls = 2
  MaxHits = 1
INVARIANTS CommentsKept Recoverable TornByKill
PROPERTY ImplementsStore
