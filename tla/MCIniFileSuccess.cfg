SPECIFICATION Spec
CONSTANTS
  Section = {"a", "b"}
  Key = {"k", "j"}
  Value = {"plain", "#", ""}
  Hash = {"#"}
  ReadAs <- MCReadAs
  NoValue = "none"
  Default = "default"
  InitFiles <- MCInitFiles
  MaxMaps = 3
  Faults = {}
  MaxCalls = 2
  MaxHits = 1
INVARIANT TrueMeansWritten
