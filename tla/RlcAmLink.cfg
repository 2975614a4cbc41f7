CONSTANTS
  MOD = 4
  WINDOW = 2
  PduLen = 2
  Payload <- MCPayload
  Mixed = Mixed
  MaxSegs = 2
  MaxDelivered = 10
  StatusProhibit = TRUE
  OwnData = TRUE
  PollPdu = 0
  PollByte = 1
  MaxSdus = 2
  MaxPdus = 5
  MaxInFlight = 2
  MaxAir = 3
  MaxStatus = 2
  ReorderStatus = FALSE
SPECIFICATION LinkSpec
INVARIANT WindowsAgree
PROPERTY LinkImplementsService
CHECK_DEADLOCK FALSE
