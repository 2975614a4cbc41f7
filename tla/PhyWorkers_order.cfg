CONSTANTS
  NofWorkers = 2
  NofMutex = 3
  MaxErrors = 1
SPECIFICATION PwSpec
PROPERTY TxInOrder
