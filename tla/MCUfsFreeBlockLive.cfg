SPECIFICATION FairSpec
CONSTANTS
  Thread = {t1, t2}
  NoThread = NoThread
  MaxFree = 2
  Start = 1
  Volume = 4
  Word = 5
  Payload <- MCPayload
  Format <- MCFormatSmall
  FaultAt = {"refill", "zero", "spill"}
PROPERTY AllocReturns
