CONSTANTS
  MOD = 4
  WINDOW = 2
  PduLen = 2
  Payload <- MCPayload
  Mixed = Mixed
  MaxSegs = 2
  MaxDelivered = 2
  StatusProhibit = TRUE
  OwnData = TRUE
SPECIFICATION RxFairSpec
INVARIANTS RxTypeOK RxWindowInv DeliveredInOrder
PROPERTIES AckNeverRegresses StatusIsSent 
