-------------------------------- MODULE Client --------------------------------
(***************************************************************************)
(* The DLMS client library's side of one exchange: the dlmsSettings record *)
(* and the functions of client.c, dlms.c and apdu.c that build a request   *)
(* from it and digest an answer into it.  Every function of the source is  *)
(* an operator from the old settings to the new ones.                      *)
(*                                                                         *)
(* Bytes are abstracted: a request or an answer is a record of the fields  *)
(* the protocol logic looks at.  The set "connected" is the bit mask       *)
(* DLMS_CONNECTION_STATE; maxInfo stands for the four negotiated HDLC      *)
(* parameters, which are saved, lowered and restored together.             *)
(***************************************************************************)
EXTENDS Naturals, FiniteSets

CONSTANTS
  IcMod,    \* the invocation counter is a uint32_t: 2^32 in the code
  Namings   \* what an AARE may name otherwise than its AARQ asked for

ASSUME IcModAssumption == IcMod \in Nat /\ IcMod > 1

DefaultPdu  == 65535   \* maxPduSize of cl_init
DefaultInfo == 128     \* DEFAULT_MAX_INFO_TX and _RX
InvokeIds   == 0..15
Counters    == 0..(IcMod - 1)

Addresses == {16, 111}            \* public client, reading client
Levels    == {"NONE", "LOW", "HIGH_GMAC"}
Protections == {"NONE", "AUTHENTICATION", "AUTHENTICATION_ENCRYPTION"}

(* An AARE names a mechanism and protects its initiate response. "asked"   *)
(* is what its AARQ asked for, or a field left out: nothing is changed.    *)
AsAsked == [mechanism |-> "asked", protection |-> "asked"]

ASSUME NamingAssumption ==
  Namings \subseteq [mechanism: Levels \cup {"asked"},
                     protection: {"asked", "AUTHENTICATION", "AUTHENTICATION_ENCRYPTION"}]

Objects   == {"none", "ic", "meter_sn", "energy", "relay"}
Value     == [object: Objects, number: Nat]
NoValue   == [object |-> "none", number |-> 0]  \* DLMS_DATA_TYPE_NONE

Codes == {"OK", "ERROR", "READ_WRITE_DENIED", "RECEIVE_FAILED",
          "COMMUNICATION_ERROR", "WRONG_CRC", "INVALID_INVOKE_ID",
          "INVALID_PARAMETER", "INVALID_DECIPHERING_ERROR", "REJECTED",
          "AUTHENTICATION_FAILURE"}

Settings ==
  [connected: SUBSET {"HDLC", "DLMS"}, serverAddress: Nat,
   clientAddress: Addresses, authentication: Levels, security: Protections,
   invocationCounter: Counters, invokeID: InvokeIds,
   maxPduSize: Nat, initializePduSize: Nat,
   maxInfo: Nat, initializeMaxInfo: Nat]

(* What an exchange needs to know of a request. ics is the set of          *)
(* invocation counters its ciphered parts were built with.                 *)
Requests ==
  [cmd: {"none", "SNRM", "AARQ", "AUTH", "GET", "ACTION", "RLRQ", "DISC"},
   address: Addresses \cup {0}, authentication: Levels, id: InvokeIds,
   target: {"none", "ic", "meter_sn", "energy", "relay", "off", "on"},
   ics: SUBSET Counters, pdu: Nat]

NoRequest == [cmd |-> "none", address |-> 0, authentication |-> "NONE",
              id |-> 0, target |-> "none", ics |-> {}, pdu |-> 0]

(* An answer as it arrives in one HDLC frame. data says what the unread    *)
(* part of the reply holds once dlms_getPdu has consumed the header; more  *)
(* is set when the frame leaves reply.moreData set.                        *)
Answers ==
  [cmd: {"none", "UA", "DM", "FRMR", "AARE", "GET", "GLO_GET", "ACTION",
         "GLO_ACTION", "RLRE", "EXCEPTION"},
   id: InvokeIds, result: Codes, more: BOOLEAN, value: Value, size: Nat,
   data: {"empty", "params", "malformed", "aare", "authRequired", "rejected",
          "octets", "mismatch", "other"},
   naming: Namings \cup {AsAsked}]

Answer(cmd, data) ==
  [cmd |-> cmd, id |-> 0, result |-> "OK", more |-> FALSE,
   value |-> NoValue, size |-> 0, data |-> data, naming |-> AsAsked]
NoAnswer == Answer("none", "empty")

cl_init(server) ==
  [connected |-> {}, serverAddress |-> server, clientAddress |-> 16,
   authentication |-> "NONE", security |-> "NONE", invocationCounter |-> 0,
   invokeID |-> 1, maxPduSize |-> DefaultPdu, initializePduSize |-> DefaultPdu,
   maxInfo |-> DefaultInfo, initializeMaxInfo |-> DefaultInfo]

(* Who the client claims to be: com_updateInvocationCounter swaps it.      *)
IdentityOf(s) ==
  [clientAddress |-> s.clientAddress, authentication |-> s.authentication,
   security |-> s.security]

Assume(s, identity) ==
  [s EXCEPT !.clientAddress = identity.clientAddress,
            !.authentication = identity.authentication,
            !.security = identity.security]

Identities ==
  [clientAddress: Addresses, authentication: Levels, security: Protections]
-----------------------------------------------------------------------------
(* Building requests: the result holds the return code, the settings after *)
(* the call and the message, which may be NoRequest.                       *)

Built(s, m)   == [ret |-> "OK", settings |-> s, message |-> m]
Refused(r, s) == [ret |-> r, settings |-> s, message |-> NoRequest]

isCiphered(s) == s.security # "NONE"

(* Mutation of cip_encrypt: ++ic is lost. *)
cip_encryptKeepsCounter(s) == s

cip_encrypt(s) ==
  [s EXCEPT !.invocationCounter = (s.invocationCounter + 1) % IcMod]

dlms_getInvokeIDPriority(s) == [s EXCEPT !.invokeID = (s.invokeID + 1) % 16]

(* A service request: the next invoke id, then one encryption if ciphered. *)
dlms_getLNPdu(s, cmd, target) ==
  LET t == dlms_getInvokeIDPriority(s)
      m == [NoRequest EXCEPT !.cmd = cmd, !.target = target, !.id = t.invokeID,
                             !.address = s.clientAddress]
  IN IF isCiphered(s)
     THEN Built(cip_encrypt(t), [m EXCEPT !.ics = {s.invocationCounter}])
     ELSE Built(t, m)

cl_snrmRequest(s) ==
  Built([s EXCEPT !.initializeMaxInfo = s.maxInfo, !.connected = {}],
        [NoRequest EXCEPT !.cmd = "SNRM", !.address = s.clientAddress])

dlms_checkInit(s) ==
  s.clientAddress # 0 /\ s.serverAddress # 0 /\ s.maxPduSize >= 64

(* The initiate request: the PDU size is proposed, and enciphered once.    *)
apdu_generateUserInformation(s) ==
  LET m == [NoRequest EXCEPT !.cmd = "AARQ", !.address = s.clientAddress,
                             !.authentication = s.authentication,
                             !.pdu = s.maxPduSize]
  IN IF isCiphered(s)
     THEN Built(cip_encrypt(s), [m EXCEPT !.ics = {s.invocationCounter}])
     ELSE Built(s, m)

(* Mutation of cl_aarqRequest: the bit of the HDLC link is cleared, too.   *)
cl_aarqRequestForgets(s) ==
  LET t == [s EXCEPT !.initializePduSize = s.maxPduSize, !.connected = {}]
  IN IF dlms_checkInit(t)
     THEN apdu_generateUserInformation([t EXCEPT !.invokeID = 0])
     ELSE Refused("INVALID_PARAMETER", t)

cl_aarqRequest(s) ==
  LET t == [s EXCEPT !.initializePduSize = s.maxPduSize,
                     !.connected = @ \ {"DLMS"}]
  IN IF dlms_checkInit(t)
     THEN apdu_generateUserInformation([t EXCEPT !.invokeID = 0])
     ELSE Refused("INVALID_PARAMETER", t)

cl_readLN(s, object) == dlms_getLNPdu(s, "GET", object)

cl_methodLN(s, cmd, method) == dlms_getLNPdu(s, cmd, method)

(* The challenge tag takes one counter, the ciphered request the next.     *)
cl_getApplicationAssociationRequest(s) ==
  LET b == cl_methodLN(cip_encrypt(s), "AUTH", "none")
  IN IF ~ isCiphered(s) THEN Refused("INVALID_PARAMETER", s)
     ELSE [b EXCEPT !.message.ics = @ \cup {s.invocationCounter}]

cl_releaseRequest2(s) ==
  LET t == [s EXCEPT !.connected = @ \ {"DLMS"},
                     !.maxPduSize = s.initializePduSize]
      m == [NoRequest EXCEPT !.cmd = "RLRQ", !.address = s.clientAddress]
  IN IF "DLMS" \notin s.connected THEN Built(s, NoRequest)
     ELSE IF isCiphered(s)
     THEN Built(cip_encrypt(t), [m EXCEPT !.ics = {s.invocationCounter}])
     ELSE Built(t, m)

(* Mutations of cl_disconnectRequest: one negotiated value is not put back. *)
cl_disconnectRequestKeepsPdu(s) ==
  IF "HDLC" \notin s.connected THEN Built(s, NoRequest)
  ELSE Built([s EXCEPT !.connected = @ \ {"HDLC"}, !.maxInfo = s.initializeMaxInfo],
             [NoRequest EXCEPT !.cmd = "DISC", !.address = s.clientAddress])
cl_disconnectRequestKeepsInfo(s) ==
  IF "HDLC" \notin s.connected THEN Built([s EXCEPT !.maxPduSize = DefaultPdu], NoRequest)
  ELSE Built([s EXCEPT !.connected = @ \ {"HDLC"}, !.maxPduSize = s.initializePduSize],
             [NoRequest EXCEPT !.cmd = "DISC", !.address = s.clientAddress])

cl_disconnectRequest(s) ==
  IF "HDLC" \notin s.connected
  THEN Built([s EXCEPT !.maxPduSize = DefaultPdu], NoRequest)
  ELSE Built([s EXCEPT !.connected = @ \ {"HDLC"},
                       !.maxInfo = s.initializeMaxInfo,
                       !.maxPduSize = s.initializePduSize],
             [NoRequest EXCEPT !.cmd = "DISC", !.address = s.clientAddress])
-----------------------------------------------------------------------------
(* Digesting answers: the return code and the settings after the call.     *)

Digest(r, s) == [ret |-> r, settings |-> s]

(* Mutation of dlms_verifyInvokeId: answers are not told apart. *)
dlms_verifyInvokeIdAccepts(s, a) == TRUE

dlms_verifyInvokeId(s, a) == a.id = s.invokeID

(* Mutation of dlms_getPdu: the result of an action is not looked at. *)
dlms_getPduDropsActionResult(s, a) ==
  CASE a.cmd = "FRMR" -> "REJECTED"
    [] a.cmd = "GET" ->
         IF dlms_verifyInvokeId(s, a) THEN a.result ELSE "INVALID_INVOKE_ID"
    [] OTHER -> "OK"

(* dlms_getData3 on one complete frame. Only GET and ACTION responses are  *)
(* looked into; every other PDU, the exception response among them, is     *)
(* returned as OK.                                                         *)
dlms_getPdu(s, a) ==
  CASE a.cmd = "FRMR" -> "REJECTED"
    [] a.cmd \in {"GET", "ACTION", "GLO_ACTION"} ->
         IF a.cmd = "GLO_ACTION" /\ ~ isCiphered(s) THEN "ERROR"
         ELSE IF dlms_verifyInvokeId(s, a) THEN a.result ELSE "INVALID_INVOKE_ID"
    [] OTHER -> "OK"

(* Mutation of dlms_handleGetResponse: the value is not copied. *)
dlms_handleGetResponseDropsValue(a) == NoValue

dlms_handleGetResponse(a) == IF a.cmd = "GET" THEN a.value ELSE NoValue

(* maxInfoTX, maxInfoRX and the window sizes: never raised, and lowered    *)
(* parameter by parameter, before a later tag is found to be wrong.        *)
LowerInfo(s, a) ==
  [s EXCEPT !.maxInfo = IF a.size < @ THEN a.size ELSE @]

(* Mutation of cl_parseUAResponse: DLMS_CONNECTION_STATE_HDLC is not set. *)
cl_parseUAResponseNotNoted(s, a) ==
  IF a.data \in {"empty", "params"} THEN Digest("OK", LowerInfo(s, a))
  ELSE Digest("INVALID_PARAMETER", s)

cl_parseUAResponse(s, a) ==
  CASE a.data = "empty"     -> Digest("OK", s)
    [] a.data = "params"    ->
         Digest("OK", [LowerInfo(s, a) EXCEPT !.connected = {"HDLC"}])
    [] a.data = "malformed" -> Digest("INVALID_PARAMETER", LowerInfo(s, a))
    [] OTHER                -> Digest("INVALID_PARAMETER", s)

(* A mechanism the AARE names overwrites the one that was asked for.       *)
apdu_updateAuthentication(s, a) ==
  [s EXCEPT !.authentication = IF a.naming.mechanism = "asked" THEN @
                               ELSE a.naming.mechanism]

(* The initiate response: protection is checked against that of the        *)
(* settings if they have one, and becomes theirs; the PDU size is taken.   *)
apdu_parseUserInformation(s, a) ==
  LET p == a.naming.protection
  IN IF p = "asked" THEN Digest("OK", [s EXCEPT !.maxPduSize = a.size])
     ELSE IF isCiphered(s) /\ s.security # p THEN Digest("INVALID_DECIPHERING_ERROR", s)
     ELSE Digest("OK", [s EXCEPT !.security = p, !.maxPduSize = a.size])

(* The mechanism is read whatever the association result is, the user      *)
(* information only of an accepting AARE.                                  *)
apdu_parsePDU(s, a) ==
  LET t == apdu_updateAuthentication(s, a)
  IN IF a.data \in {"aare", "authRequired"} THEN apdu_parseUserInformation(t, a)
     ELSE Digest("REJECTED", t)

cl_parseAAREResponse(s, a) ==
  LET d == apdu_parsePDU(s, a)
  IN IF d.ret = "OK" /\ a.data = "aare"
     THEN [d EXCEPT !.settings.connected = @ \cup {"DLMS"}]
     ELSE d

(* Mutation of cl_parseApplicationAssociationResponse: the challenge the   *)
(* meter computed is not compared.                                         *)
cl_parseApplicationAssociationResponseTrusts(s, a) ==
  IF a.data \in {"octets", "mismatch"}
  THEN Digest("OK", [cip_encrypt(s) EXCEPT !.connected = @ \cup {"DLMS"}])
  ELSE Digest("AUTHENTICATION_FAILURE", [s EXCEPT !.connected = @ \ {"DLMS"}])

(* Checking the meter's answer to the challenge encrypts once more.        *)
cl_parseApplicationAssociationResponse(s, a) ==
  LET t == IF a.data \in {"octets", "mismatch"} THEN cip_encrypt(s) ELSE s
  IN IF a.data = "octets"
     THEN Digest("OK", [t EXCEPT !.connected = @ \cup {"DLMS"}])
     ELSE Digest("AUTHENTICATION_FAILURE", [t EXCEPT !.connected = @ \ {"DLMS"}])
=============================================================================
