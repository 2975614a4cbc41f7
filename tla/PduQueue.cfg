CONSTANTS
  NofPid = 2
  NofBuf = 3
  Block = {b1}
  Garbage = Garbage
SPECIFICATION QueueFairSpec
INVARIANTS QueueTypeOK RingInv
PROPERTY EveryBlockIsHandedUp
