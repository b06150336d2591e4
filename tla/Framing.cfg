SPECIFICATION Spec
CONSTANTS
  Servers <- MCServers
  Clients <- MCClients
  MaxInfoTX <- MCMaxInfoTX
  Pdus <- MCPdus
  Changes <- MCChanges
INVARIANTS TypeOK Reassembled InfoFits
PROPERTY DamageNoticed
CHECK_DEADLOCK FALSE
