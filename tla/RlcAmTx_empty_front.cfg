CONSTANTS
  MOD = 4
  WINDOW = 2
  PduLen = 2
  PollPdu = 1
  PollByte = 0
  MaxSdus = 1
  MaxPdus = 5
  MaxInFlight = 2
  MaxAir = 1
SPECIFICATION TxSpec
INVARIANT RetxFrontExists
CHECK_DEADLOCK FALSE
