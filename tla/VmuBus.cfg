CONSTANTS
  Blocks <- MCTwoBlocks
  Active <- Drivers
  OutOfMemory <- MCFlashOnly
SPECIFICATION Spec
INVARIANTS OneQueue BusyIsOwned CoreWakesWaiters
PROPERTIES BusyBelongsToPacket NoStaleReply ReadHasData
