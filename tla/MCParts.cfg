CONSTANTS
  TtiMod = 16
  TxAdvance = 4
  Opportunities = {4}
  ResponseWindow = 2
  GiveUpSpan = 4
  PreambleTransMax = 2
  ContentionTimeout = 3
  BackoffParams = {2}
  MaxMsg3Tx = 2
  OwnId = 1
  OtherId = 2
  TempRnti = {1, 2, 3}
  Msg4Delay = 2
  Msg3Delays = {2}
  MaxLag = 1
  WorkerTime = 1
  MaxOrders = 1
  UlTtiMod = 5
  TxDelay = 1
  SrTtis = {2}
  DsrTransMax = 1
  MaxRetx = 1
  RetxTimeout = 2
  Lcids = {1, 2}
  GrantSizes = {2}
  MaxSdus = 2
  SduSize = 1
  MaxLosses = 1
  NofWorkers = 2
  NofMutex = 3
  MaxErrors = 1
  N310 = 2
  N311 = 1
  MaxFaults = 2
  MaxPagings = 1
  MaxPackets = 1
  rx_mod = 6
  rx_window_size = 3
  UmSduLen = 2
  UmGrants = {1, 3}
  MaxUmSdus = 4
  MaxUmLosses = 2
  MaxVectors = 3
  MaxConnections = 3
  MaxReests = 1
  ServiceSnMod = 2
  Eias = {"EIA0", "EIA2"}
SPECIFICATION PartsSpec
INVARIANTS
  RaTypeOK PreamblesBounded
  UlTypeOK 
  PwTypeOK BufferOwned
  RrcTypeOK WaitIsAnswered
  UmTypeOK UmWindowInv SdusWholeInOrder
  KeysTypeOK  CountsFresh
PROPERTIES
  Msg3IsRepeated OwnIdRecognised RaEnds
   PhyGoesOn GatewayServed
CHECK_DEADLOCK FALSE
