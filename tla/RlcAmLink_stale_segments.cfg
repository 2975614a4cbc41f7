CONSTANTS
  MOD = 4
  WINDOW = 2
  PduLen = 2
  Payload <- MCPayload
  Mixed = Mixed
  MaxSegs = 2
  MaxDelivered = 10
  StatusProhibit = FALSE
  OwnData = FALSE
  PollPdu = 0
  PollByte = 1
  MaxSdus = 1
  MaxPdus = 6
  MaxInFlight = 2
  MaxAir = 3
  MaxStatus = 1
  ReorderStatus = FALSE
SPECIFICATION LinkSpec
INVARIANT SegmentsOfOnePdu
CHECK_DEADLOCK FALSE
