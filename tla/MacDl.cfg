CONSTANTS
  NofPid = 1
  NofBuf = 2
  NofBlocks = 3
  MaxSize = 2
  Block <- MCBlock
  Garbage = Garbage
  TempRnti = {1}
  TempNdi = {TRUE}
SPECIFICATION DlSpec
INVARIANTS DlTypeOK OwedIsQueued AckedIsDecoded
PROPERTY DlImplementsQueue
