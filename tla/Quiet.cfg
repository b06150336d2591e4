\* An undisturbed line: what one run must achieve.
SPECIFICATION Spec
CONSTANTS
  IcMod = 32
  Namings = {}
  UaData = {"params"}
  ReadResults = {"OK"}
  ActionResults = {"OK", "ERROR"}
  Challenges = {"octets", "mismatch"}
  Exceptions = FALSE
  Segmented = FALSE
  MeterPdu = 1024
  MeterInfo = 64
  Arguments <- ValidLines
  MeterCounters = {0, 3}
  HeadFailures = FALSE
  Restarts = FALSE
  Disturbances = 0
INVARIANTS EnergyReported RelayCommandDone LinkClosedAtExit PlainRelayStatusTrue
PROPERTIES ReleaseNeedsLink CounterAhead
