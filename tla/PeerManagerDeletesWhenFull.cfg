CONSTANTS
 DataPages = 1
 Slots = 4
 QueueSize = 4
 Files = {1, 2, 3}
 Keys = {"bond", "rank"}
 MaxWrites = 0
 MaxFaults = 1
 Readers = FALSE
 Buffers = 4
 MaxEvents = 4
SPECIFICATION PeerSpec
PROPERTIES
  DeletesWhenFull
CHECK_DEADLOCK FALSE
