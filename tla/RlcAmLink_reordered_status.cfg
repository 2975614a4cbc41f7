CONSTANTS
  MOD = 6
  WINDOW = 3
  PduLen = 1
  Payload <- MCPayload
  Mixed = Mixed
  MaxSegs = 2
  MaxDelivered = 10
  StatusProhibit = FALSE
  OwnData = FALSE
  PollPdu = 0
  PollByte = 1
  MaxSdus = 1
  MaxPdus = 5
  MaxInFlight = 3
  MaxAir = 2
  MaxStatus = 2
  ReorderStatus = TRUE
SPECIFICATION LinkSpec
INVARIANT ReleasedIsReceived
CHECK_DEADLOCK FALSE
