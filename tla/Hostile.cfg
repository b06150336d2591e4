\* Everything the model can do to a session, once per run.
SPECIFICATION FairSpec
CONSTANTS
  IcMod = 32
  Namings <- OtherNamings
  UaData = {"params", "empty", "malformed"}
  ReadResults = {"OK", "READ_WRITE_DENIED", "ERROR"}
  ActionResults = {"OK", "ERROR"}
  Challenges = {"octets", "mismatch"}
  Exceptions = TRUE
  Segmented = TRUE
  MeterPdu = 1024
  MeterInfo = 64
  Arguments <- AllLines
  MeterCounters = {3}
  HeadFailures = TRUE
  Restarts = TRUE
  Disturbances = 2
INVARIANTS TypeOK ConfiguredIdentity ReadingsGenuine SerialNumberReported
PROPERTIES DefaultPduProposed CountersFresh EndsOrSpins
