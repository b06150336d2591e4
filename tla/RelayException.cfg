\* A relay command is answered with an exception response.
SPECIFICATION Spec
CONSTANTS
  IcMod = 32
  Namings = {}
  UaData = {"params"}
  ReadResults = {"OK"}
  ActionResults = {"OK"}
  Challenges = {"octets"}
  Exceptions = TRUE
  Segmented = FALSE
  MeterPdu = 1024
  MeterInfo = 64
  Arguments <- RelayLines
  MeterCounters = {0, 3}
  HeadFailures = FALSE
  Restarts = FALSE
  Disturbances = 0
INVARIANTS RelayCommandDone
