SPECIFICATION MCSpec
CONSTANTS
  Protocol = {"xmodem", "ymodem"}
  Harsh = {"ymodem"}
  Sizes = {0, 3}
  MaxFiles = 2
  BlockSize = 2
  SeqMod = 4
  Retries = 3
  StartRetries = 3
  TailReads = 2
  MaxFaults = 2
  RingSize = 3
  MaxBytes = 8
  Chunks = {1, 2}
  Race = FALSE
INVARIANTS DeliveredInOrder ConsoleRestored
PROPERTIES CopySpec TransfersEnd
CHECK_DEADLOCK FALSE
