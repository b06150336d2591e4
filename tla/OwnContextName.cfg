SPECIFICATION Spec
CONSTANTS
  Attempts <- MCAttempts
  ClientKeys <- MCClientKeys
  MeterKeys <- MCMeterKeys
  Challenges <- MCChallenges
  Granted <- MCGranted
  Refusals <- MCRefusals
  ContextNames <- MCAnyNames
INVARIANT Agreed
CHECK_DEADLOCK FALSE
