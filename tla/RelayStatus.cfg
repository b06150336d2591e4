\* Relay status over a ciphered association.
SPECIFICATION Spec
CONSTANTS
  IcMod = 32
  Namings = {}
  UaData = {"params"}
  ReadResults = {"OK"}
  ActionResults = {"OK"}
  Challenges = {"octets"}
  Exceptions = FALSE
  Segmented = FALSE
  MeterPdu = 1024
  MeterInfo = 64
  Arguments <- ValidLines
  MeterCounters = {0, 3}
  HeadFailures = FALSE
  Restarts = FALSE
  Disturbances = 0
INVARIANTS RelayStatusTrue
