\* Lost, late, repeated and damaged frames; a meter that follows the rules.
SPECIFICATION Spec
CONSTANTS
  IcMod = 32
  Namings = {}
  UaData = {"params", "empty"}
  ReadResults = {"OK", "READ_WRITE_DENIED", "ERROR"}
  ActionResults = {"OK", "ERROR"}
  Challenges = {"octets", "mismatch"}
  Exceptions = FALSE
  Segmented = FALSE
  MeterPdu = 1024
  MeterInfo = 64
  Arguments <- AllLines
  MeterCounters = {0, 3}
  HeadFailures = FALSE
  Restarts = FALSE
  Disturbances = 2
INVARIANTS InfoRestored AssociationAgreed ProtectedRelayCommandDone
PROPERTIES LinkAddress
