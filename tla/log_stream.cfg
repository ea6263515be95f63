\* Up to four chunks with a tail of two, any two faults.
SPECIFICATION Spec
CONSTANTS
  MaxChunks = 4
  TailSize = 2
  Faults = {"lost", "timeout", "reaped", "dropped"}
  MaxFaults = 2
INVARIANTS
  TypeOK
  StoredInOrder
  ShownIsStored
PROPERTIES
  NothingErased
