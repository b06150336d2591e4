\* A response that does not fit one frame or block.
SPECIFICATION FairSpec
CONSTANTS
  IcMod = 32
  Namings = {}
  UaData = {"params"}
  ReadResults = {"OK"}
  ActionResults = {"OK"}
  Challenges = {"octets"}
  Exceptions = FALSE
  Segmented = TRUE
  MeterPdu = 1024
  MeterInfo = 64
  Arguments <- ValidLines
  MeterCounters = {0, 3}
  HeadFailures = FALSE
  Restarts = FALSE
  Disturbances = 0
PROPERTIES Terminates
