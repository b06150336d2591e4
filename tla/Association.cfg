SPECIFICATION Spec
CONSTANTS
  Attempts <- MCAttempts
  ClientKeys <- MCClientKeys
  MeterKeys <- MCMeterKeys
  Challenges <- MCChallenges
  Granted <- MCGranted
  Refusals <- MCRefusals
  ContextNames = {"LN", "LN ciphered"}
INVARIANTS TypeOK Agreed RightKeysOpen ReasonTold
CHECK_DEADLOCK FALSE
