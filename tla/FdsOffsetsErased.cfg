CONSTANTS
 DataPages = 2
 Slots = 2
 QueueSize = 2
 Files = {1}
 Keys = {"bond"}
 MaxWrites = 3
 MaxFaults = 1
 Readers = TRUE
SPECIFICATION Spec
INVARIANTS
  OffsetsErased
CHECK_DEADLOCK FALSE
