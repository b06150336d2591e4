SPECIFICATION Spec
CONSTANTS
  clientAddress = 16
  serverAddress = 1
  Exchanges <- MCExchanges
  Preludes <- MCNoise
  Cuts <- MCCuts
  Spots <- MCSpots
  Changes <- MCChanges
  Faults = 1
  HangUps = 1
  WaitTime = 0
  RECEIVE_BUFFER_SIZE = 24
  Capacity = 52
INVARIANTS TypeOK Genuine NoAnswerMissed ErrorsNeedDamage FitsBuffer
PROPERTY EndsUnlessHungUp
CHECK_DEADLOCK FALSE
