---------------------------- MODULE SessionProofs ----------------------------
(***************************************************************************)
(* For every command line, meter and line the constants allow: Session is  *)
(* well typed, keeps the configured identity, proposes the default PDU     *)
(* size, never uses an invocation counter twice and, if the optical head   *)
(* can be set up, keeps to the address of a link.                          *)
(*                                                                         *)
(* ConfiguredIdentity is not inductive by itself: while the invocation     *)
(* counter is read the settings hold the public client, and what is put    *)
(* back is the local copy saved.  IInv adds what saved holds, that the     *)
(* identity is untouched before the copy is taken, and what typing the     *)
(* objects still to be handled needs.  The action properties rest on one   *)
(* more invariant each, PduKept, AddressKept and CountersSpent, about what *)
(* the settings hold when the next request is built from them.             *)
(*                                                                         *)
(* First the two ends of the line, one exchange at a time.                 *)
(*                                                                         *)
(* The client library: the settings stay well typed, and no function of it *)
(* but cl_parseAAREResponse touches the identity (client address,          *)
(* authentication level, security); how far each moves the invocation      *)
(* counter and the PDU sizes.                                              *)
(*                                                                         *)
(* The meter: its state and its answers keep their types whatever request  *)
(* it is given, and AfterFits and Effects say what an answer tells of the  *)
(* request and of the meter that gave it.                                  *)
(***************************************************************************)
EXTENDS Session, WellFoundedInduction, SequenceTheorems, TLAPS

(* A read asks for an attribute of an object.                              *)
WellAimed(q) == q.cmd = "GET" => q.target \in Objects

(* A request built from settings s: typed, and the identity kept.          *)
Builds(s, b) ==
  /\ b.ret \in Codes
  /\ b.settings \in Settings
  /\ b.message \in Requests /\ WellAimed(b.message)
  /\ IdentityOf(b.settings) = IdentityOf(s)

(* An answer digested into settings s: typed, and the identity kept.       *)
Digests(s, d) ==
  /\ d.ret \in Codes
  /\ d.settings \in Settings
  /\ IdentityOf(d.settings) = IdentityOf(s)

(* What an AARE may make of an identity: the client address stays.         *)
Named(s, t) ==
  /\ t.clientAddress = s.clientAddress
  /\ t.authentication \in {s.authentication} \cup {n.mechanism : n \in Namings}
  /\ t.security \in {s.security} \cup IF s.security # "NONE" THEN {}
                                       ELSE {n.protection : n \in Namings}

(* An AARE digested into settings s: typed, and the identity as named.     *)
Names(s, d) == d.ret \in Codes /\ d.settings \in Settings /\ Named(s, d.settings)

(* Any number taken modulo IcMod is an invocation counter.                 *)
LEMMA CounterType ==
  ASSUME NEW i \in Nat PROVE i % IcMod \in Counters
BY IcModAssumption DEF Counters

(* cip_encrypt moves the invocation counter on and nothing of the          *)
(* identity.                                                               *)
LEMMA EncryptType ==
  ASSUME NEW s \in Settings
  PROVE  /\ cip_encrypt(s) \in Settings
         /\ IdentityOf(cip_encrypt(s)) = IdentityOf(s)
<1>1. s.invocationCounter + 1 \in Nat
  BY IcModAssumption DEF Settings, Counters
<1>2. (s.invocationCounter + 1) % IcMod \in Counters
  BY <1>1, CounterType
<1> QED BY <1>2 DEF cip_encrypt, Settings, IdentityOf

(* The empty message is a request, and reads nothing.                      *)
LEMMA NoRequestType == NoRequest \in Requests /\ WellAimed(NoRequest)
BY DEF NoRequest, Requests, Addresses, Levels, InvokeIds, WellAimed

(* The requests.                                                           *)

(* cl_snrmRequest builds a request and keeps the identity.                 *)
LEMMA SnrmBuilds ==
  ASSUME NEW s \in Settings PROVE Builds(s, cl_snrmRequest(s))
BY NoRequestType
   DEF Builds, cl_snrmRequest, Built, Settings, Requests, Codes, IdentityOf, NoRequest, WellAimed

(* dlms_getInvokeIDPriority moves the invoke id on, and neither the        *)
(* identity nor the invocation counter.                                    *)
LEMMA InvokeIdType ==
  ASSUME NEW s \in Settings
  PROVE  /\ dlms_getInvokeIDPriority(s) \in Settings
         /\ IdentityOf(dlms_getInvokeIDPriority(s)) = IdentityOf(s)
         /\ dlms_getInvokeIDPriority(s).invocationCounter = s.invocationCounter
<1>1. (s.invokeID + 1) % 16 \in InvokeIds
  BY DEF Settings, InvokeIds
<1> QED BY <1>1 DEF dlms_getInvokeIDPriority, Settings, IdentityOf

(* dlms_getLNPdu builds a request of every service the client uses, keeps  *)
(* the identity and never fails.                                           *)
LEMMA ServiceBuilds ==
  ASSUME NEW s \in Settings,
         NEW cmd \in {"GET", "ACTION", "AUTH"},
         NEW target \in {"none", "ic", "meter_sn", "energy", "relay", "off", "on"},
         cmd = "GET" => target \in Objects
  PROVE  /\ Builds(s, dlms_getLNPdu(s, cmd, target))
         /\ dlms_getLNPdu(s, cmd, target).ret = "OK"
<1> DEFINE t == dlms_getInvokeIDPriority(s)
           m == [NoRequest EXCEPT !.cmd = cmd, !.target = target, !.id = t.invokeID,
                                  !.address = s.clientAddress]
<1>1. t \in Settings /\ IdentityOf(t) = IdentityOf(s)
  BY InvokeIdType
<1>2. m \in Requests /\ WellAimed(m)
  BY <1>1, NoRequestType DEF Requests, Settings, NoRequest, WellAimed
<1>3. /\ [m EXCEPT !.ics = {s.invocationCounter}] \in Requests
      /\ WellAimed([m EXCEPT !.ics = {s.invocationCounter}])
  BY <1>2 DEF Requests, Settings, WellAimed
<1>4. cip_encrypt(t) \in Settings /\ IdentityOf(cip_encrypt(t)) = IdentityOf(s)
  BY <1>1, EncryptType
<1> QED BY <1>1, <1>2, <1>3, <1>4 DEF dlms_getLNPdu, Builds, Built, Codes

(* apdu_generateUserInformation builds the AARQ, ciphered or not, and      *)
(* keeps the identity.                                                     *)
LEMMA UserInformationBuilds ==
  ASSUME NEW s \in Settings PROVE Builds(s, apdu_generateUserInformation(s))
<1> DEFINE m == [NoRequest EXCEPT !.cmd = "AARQ", !.address = s.clientAddress,
                                  !.authentication = s.authentication,
                                  !.pdu = s.maxPduSize]
<1>1. m \in Requests /\ WellAimed(m)
  BY NoRequestType DEF Requests, Settings, NoRequest, WellAimed
<1>2. /\ [m EXCEPT !.ics = {s.invocationCounter}] \in Requests
      /\ WellAimed([m EXCEPT !.ics = {s.invocationCounter}])
  BY <1>1 DEF Requests, Settings, WellAimed
<1> QED BY <1>1, <1>2, EncryptType DEF apdu_generateUserInformation, Builds, Built, Codes

(* cl_aarqRequest builds the AARQ or refuses to, and keeps the identity.   *)
LEMMA AarqBuilds ==
  ASSUME NEW s \in Settings PROVE Builds(s, cl_aarqRequest(s))
<1> DEFINE t == [s EXCEPT !.initializePduSize = s.maxPduSize, !.connected = @ \ {"DLMS"}]
           u == [t EXCEPT !.invokeID = 0]
<1>1. t \in Settings /\ IdentityOf(t) = IdentityOf(s)
  BY DEF Settings, IdentityOf
<1>2. u \in Settings /\ IdentityOf(u) = IdentityOf(s)
  <2>1. \A x \in Settings : /\ [x EXCEPT !.invokeID = 0] \in Settings
                            /\ IdentityOf([x EXCEPT !.invokeID = 0]) = IdentityOf(x)
    BY DEF Settings, IdentityOf, InvokeIds
  <2> QED BY <1>1, <2>1
<1>3. Builds(s, apdu_generateUserInformation(u))
  BY <1>2, UserInformationBuilds DEF Builds
<1>4. Builds(s, Refused("INVALID_PARAMETER", t))
  BY <1>1, NoRequestType DEF Builds, Refused, Codes
<1> QED BY <1>3, <1>4 DEF cl_aarqRequest

(* cl_readLN builds a read of an object and keeps the identity.            *)
LEMMA ReadBuilds ==
  ASSUME NEW s \in Settings, NEW object \in {"ic", "meter_sn", "energy", "relay"}
  PROVE  Builds(s, cl_readLN(s, object))
BY ServiceBuilds DEF cl_readLN, Objects

(* cl_methodLN builds a relay command and keeps the identity.              *)
LEMMA ActionBuilds ==
  ASSUME NEW s \in Settings, NEW method \in {"on", "off"}
  PROVE  Builds(s, cl_methodLN(s, "ACTION", method))
BY ServiceBuilds DEF cl_methodLN

(* cl_getApplicationAssociationRequest, which encrypts twice, builds a     *)
(* request or refuses to, and keeps the identity.                          *)
LEMMA AuthBuilds ==
  ASSUME NEW s \in Settings PROVE Builds(s, cl_getApplicationAssociationRequest(s))
<1> DEFINE b == cl_methodLN(cip_encrypt(s), "AUTH", "none")
           c == [b EXCEPT !.message.ics = @ \cup {s.invocationCounter}]
<1>1. Builds(s, b)
  BY EncryptType, ServiceBuilds DEF cl_methodLN, Builds
<1>2. b = [ret |-> b.ret, settings |-> b.settings, message |-> b.message]
  BY DEF cl_methodLN, dlms_getLNPdu, Built
<1>3. c = [ret |-> b.ret, settings |-> b.settings,
           message |-> [b.message EXCEPT !.ics = @ \cup {s.invocationCounter}]]
  BY <1>2
<1>4. c.message \in Requests /\ WellAimed(c.message)
  BY <1>1, <1>3 DEF Builds, Requests, Settings, WellAimed
<1>5. Builds(s, c)
  BY <1>1, <1>3, <1>4 DEF Builds
<1>6. Builds(s, Refused("INVALID_PARAMETER", s))
  BY NoRequestType DEF Builds, Refused, Codes
<1> QED BY <1>5, <1>6 DEF cl_getApplicationAssociationRequest

(* cl_releaseRequest2 builds a release or nothing, and keeps the           *)
(* identity.                                                               *)
LEMMA ReleaseBuilds ==
  ASSUME NEW s \in Settings PROVE Builds(s, cl_releaseRequest2(s))
<1> DEFINE t == [s EXCEPT !.connected = @ \ {"DLMS"}, !.maxPduSize = s.initializePduSize]
           m == [NoRequest EXCEPT !.cmd = "RLRQ", !.address = s.clientAddress]
<1>1. t \in Settings /\ IdentityOf(t) = IdentityOf(s)
  BY DEF Settings, IdentityOf
<1>2. m \in Requests /\ WellAimed(m)
  BY NoRequestType DEF Requests, Settings, NoRequest, WellAimed
<1>3. /\ [m EXCEPT !.ics = {s.invocationCounter}] \in Requests
      /\ WellAimed([m EXCEPT !.ics = {s.invocationCounter}])
  BY <1>2 DEF Requests, Settings, WellAimed
<1>4. cip_encrypt(t) \in Settings /\ IdentityOf(cip_encrypt(t)) = IdentityOf(s)
  BY <1>1, EncryptType
<1> QED BY <1>1, <1>2, <1>3, <1>4, NoRequestType
        DEF cl_releaseRequest2, Builds, Built, Codes

(* cl_disconnectRequest builds a disconnect or nothing, and keeps the      *)
(* identity.                                                               *)
LEMMA DisconnectBuilds ==
  ASSUME NEW s \in Settings PROVE Builds(s, cl_disconnectRequest(s))
<1> DEFINE t == [s EXCEPT !.maxPduSize = DefaultPdu]
           u == [s EXCEPT !.connected = @ \ {"HDLC"}, !.maxInfo = s.initializeMaxInfo,
                          !.maxPduSize = s.initializePduSize]
<1>1. /\ [NoRequest EXCEPT !.cmd = "DISC", !.address = s.clientAddress] \in Requests
      /\ WellAimed([NoRequest EXCEPT !.cmd = "DISC", !.address = s.clientAddress])
  BY NoRequestType DEF Requests, Settings, NoRequest, WellAimed
<1>2. t \in Settings /\ IdentityOf(t) = IdentityOf(s)
  BY DEF Settings, IdentityOf, DefaultPdu
<1>3. u \in Settings /\ IdentityOf(u) = IdentityOf(s)
  BY DEF Settings, IdentityOf
<1> QED BY <1>1, <1>2, <1>3, NoRequestType
        DEF cl_disconnectRequest, Builds, Built, Codes
-----------------------------------------------------------------------------
(* The answers.                                                            *)

(* dlms_getPdu returns an error code of the model.                         *)
LEMMA PduCode ==
  ASSUME NEW s, NEW a \in Answers PROVE dlms_getPdu(s, a) \in Codes
BY DEF dlms_getPdu, Codes, Answers

(* A GET response holds a value of the model.                              *)
LEMMA ValueType ==
  ASSUME NEW a \in Answers PROVE dlms_handleGetResponse(a) \in Value
BY DEF dlms_handleGetResponse, Answers, Value, NoValue, Objects

(* cl_parseUAResponse keeps the settings typed and the identity as it      *)
(* was.                                                                    *)
LEMMA UaDigests ==
  ASSUME NEW s \in Settings, NEW a \in Answers
  PROVE  Digests(s, cl_parseUAResponse(s, a))
<1>1. LowerInfo(s, a) \in Settings /\ IdentityOf(LowerInfo(s, a)) = IdentityOf(s)
  BY DEF LowerInfo, Settings, Answers, IdentityOf
<1>2. /\ [LowerInfo(s, a) EXCEPT !.connected = {"HDLC"}] \in Settings
      /\ IdentityOf([LowerInfo(s, a) EXCEPT !.connected = {"HDLC"}]) = IdentityOf(s)
  BY <1>1 DEF Settings, IdentityOf
<1> QED BY <1>1, <1>2 DEF cl_parseUAResponse, Digest, Digests, Codes

(* The mechanism the AARE names replaces the level of the settings.        *)
LEMMA MechanismNames ==
  ASSUME NEW s \in Settings, NEW a \in Answers, NEW t, t = apdu_updateAuthentication(s, a)
  PROVE  /\ t \in Settings /\ Named(s, t) /\ t.security = s.security
         /\ t.invocationCounter = s.invocationCounter
         /\ t.initializePduSize = s.initializePduSize
<1> DEFINE l == IF a.naming.mechanism = "asked" THEN s.authentication ELSE a.naming.mechanism
<1>1. a.naming \in Namings \cup {AsAsked}
  BY DEF Answers
<1>2. l \in Levels /\ l \in {s.authentication} \cup {n.mechanism : n \in Namings}
  BY <1>1, NamingAssumption DEF AsAsked, Settings
<1>3. t = [s EXCEPT !.authentication = l]
  BY DEF apdu_updateAuthentication
<1> HIDE DEF l
<1> QED BY <1>2, <1>3 DEF Settings, Named

(* The protection of the initiate response becomes that of settings that   *)
(* have none, and is refused if it differs from theirs.                    *)
LEMMA ProtectionNames ==
  ASSUME NEW s \in Settings, NEW a \in Answers, NEW d, d = apdu_parseUserInformation(s, a)
  PROVE  /\ Names(s, d) /\ d.settings.authentication = s.authentication
         /\ d.settings.invocationCounter = s.invocationCounter
         /\ d.settings.initializePduSize = s.initializePduSize
<1> DEFINE p == a.naming.protection
<1>1. \/ p = "asked"
      \/ p \in {n.protection : n \in Namings} /\ p \in Protections /\ p # "NONE"
  BY NamingAssumption DEF Answers, AsAsked, Protections
<1>2. a.size \in Nat
  BY DEF Answers
<1>3. CASE p = "asked"
  <2>1. d = Digest("OK", [s EXCEPT !.maxPduSize = a.size])
    BY <1>3 DEF apdu_parseUserInformation
  <2> QED BY <1>2, <2>1 DEF Digest, Names, Named, Settings, Codes
<1>4. CASE p # "asked" /\ isCiphered(s) /\ s.security # p
  <2>1. d = Digest("INVALID_DECIPHERING_ERROR", s)
    BY <1>4 DEF apdu_parseUserInformation
  <2> QED BY <2>1 DEF Digest, Names, Named, Codes
<1>5. CASE p # "asked" /\ ~ (isCiphered(s) /\ s.security # p)
  <2>1. d = Digest("OK", [s EXCEPT !.security = p, !.maxPduSize = a.size])
    BY <1>5 DEF apdu_parseUserInformation
  <2>2. p \in {s.security} \cup IF s.security # "NONE" THEN {}
                                 ELSE {n.protection : n \in Namings}
    BY <1>1, <1>5 DEF isCiphered
  <2>3. p \in Protections
    BY <1>1, <1>5
  <2> HIDE DEF p
  <2>4. PICK t : t = [s EXCEPT !.security = p, !.maxPduSize = a.size]
    OBVIOUS
  <2>5. /\ t \in Settings /\ t.clientAddress = s.clientAddress /\ t.security = p
        /\ t.authentication = s.authentication
        /\ t.invocationCounter = s.invocationCounter
        /\ t.initializePduSize = s.initializePduSize
    BY <1>2, <2>3, <2>4 DEF Settings
  <2>6. d.ret = "OK" /\ d.settings = t
    BY <2>1, <2>4 DEF Digest
  <2> QED BY <2>2, <2>5, <2>6 DEF Names, Named, Codes
<1> QED BY <1>3, <1>4, <1>5

(* cl_parseAAREResponse keeps the settings typed, and makes of the         *)
(* identity what the AARE names. Of the PDU sizes only the one in force is *)
(* taken over from it, and it does not move the counter.                   *)
LEMMA AareNames ==
  ASSUME NEW s \in Settings, NEW a \in Answers
  PROVE  LET d == cl_parseAAREResponse(s, a) IN
         /\ Names(s, d)
         /\ d.settings.invocationCounter = s.invocationCounter
         /\ d.settings.initializePduSize = s.initializePduSize
<1>1. PICK t : t = apdu_updateAuthentication(s, a)
  OBVIOUS
<1>2. /\ t \in Settings /\ Named(s, t) /\ t.security = s.security
      /\ t.invocationCounter = s.invocationCounter
      /\ t.initializePduSize = s.initializePduSize
  BY <1>1, MechanismNames
<1>3. PICK u : u = apdu_parseUserInformation(t, a)
  OBVIOUS
<1>4. /\ Names(t, u) /\ u.settings.authentication = t.authentication
      /\ u.settings.invocationCounter = t.invocationCounter
      /\ u.settings.initializePduSize = t.initializePduSize
  BY <1>2, <1>3, ProtectionNames
<1>5. PICK d : d = apdu_parsePDU(s, a)
  OBVIOUS
<1>6. d = u \/ d = Digest("REJECTED", t)
  BY <1>1, <1>3, <1>5 DEF apdu_parsePDU
<1>7. /\ Names(s, d)
      /\ d.settings.invocationCounter = s.invocationCounter
      /\ d.settings.initializePduSize = s.initializePduSize
      /\ d = [ret |-> d.ret, settings |-> d.settings]
  <2>1. u = [ret |-> u.ret, settings |-> u.settings]
    BY <1>3 DEF apdu_parseUserInformation, Digest
  <2> QED BY <1>2, <1>4, <1>6, <2>1 DEF Names, Named, Digest, Codes
<1> DEFINE e == [d EXCEPT !.settings.connected = @ \cup {"DLMS"}]
<1>8. e = [ret |-> d.ret,
           settings |-> [d.settings EXCEPT !.connected = @ \cup {"DLMS"}]]
  BY <1>7
<1>9. /\ Names(s, e)
      /\ e.settings.invocationCounter = s.invocationCounter
      /\ e.settings.initializePduSize = s.initializePduSize
  BY <1>7, <1>8 DEF Names, Named, Settings
<1>10. cl_parseAAREResponse(s, a) = d \/ cl_parseAAREResponse(s, a) = e
  BY <1>5 DEF cl_parseAAREResponse
<1> QED BY <1>7, <1>9, <1>10

(* A meter that names what it was asked for leaves the identity alone.     *)
LEMMA NothingNamed ==
  ASSUME Namings = {}, NEW s, NEW t, Named(s, t)
  PROVE  IdentityOf(t) = IdentityOf(s)
BY DEF Named, IdentityOf

(* cl_parseApplicationAssociationResponse, which encrypts to compare       *)
(* challenges, keeps the settings typed and the identity as it was.        *)
LEMMA AuthDigests ==
  ASSUME NEW s \in Settings, NEW a \in Answers
  PROVE  Digests(s, cl_parseApplicationAssociationResponse(s, a))
<1> DEFINE t == IF a.data \in {"octets", "mismatch"} THEN cip_encrypt(s) ELSE s
<1>1. t \in Settings /\ IdentityOf(t) = IdentityOf(s)
  BY EncryptType
<1>2. \A c \in SUBSET {"HDLC", "DLMS"} :
        /\ [t EXCEPT !.connected = c] \in Settings
        /\ IdentityOf([t EXCEPT !.connected = c]) = IdentityOf(s)
  BY <1>1 DEF Settings, IdentityOf
<1>3. t.connected \cup {"DLMS"} \in SUBSET {"HDLC", "DLMS"}
      /\ t.connected \ {"DLMS"} \in SUBSET {"HDLC", "DLMS"}
  BY <1>1 DEF Settings
<1> QED BY <1>1, <1>2, <1>3
        DEF cl_parseApplicationAssociationResponse, Digest, Digests, Codes
-----------------------------------------------------------------------------
(* What each function leaves of the PDU sizes, which address its message   *)
(* carries, and which invocation counters it takes.                        *)

(* How many encryptions before the counter c a counter x was last the next *)
(* one to be taken: 1..IcMod, and IcMod when it is the next one now.       *)
Ago(x, c) == IF x < c THEN c - x ELSE c + IcMod - x

(* From settings s to t the counter moves by at most n.                    *)
Moves(s, t, n) ==
  \A x \in Counters : Ago(x, t.invocationCounter) <= Ago(x, s.invocationCounter) + n

(* A request built from s takes at most n counters, the next ones.         *)
Takes(s, b, n) ==
  /\ Moves(s, b.settings, n)
  /\ \A i \in b.message.ics : /\ Ago(i, b.settings.invocationCounter) <= n
                             /\ Ago(i, s.invocationCounter) > IcMod - n

(* It takes one, or none without ciphering.                                *)
TakesOne(s, b) == Takes(s, b, 1) /\ (~ isCiphered(s) => Takes(s, b, 0))

SamePdu(s, t) ==
  t.maxPduSize = s.maxPduSize /\ t.initializePduSize = s.initializePduSize

(* A message goes to the address of the settings it was built from.        *)
Addressed(s, m) == m = NoRequest \/ m.address = s.clientAddress

(* The counter after c wraps to 0.                                         *)
LEMMA NextCounter ==
  ASSUME NEW c \in Counters
  PROVE  (c + 1) % IcMod = IF c + 1 = IcMod THEN 0 ELSE c + 1
<1>1. IcMod \in Nat /\ IcMod > 1 /\ c \in 0..(IcMod - 1)
  BY IcModAssumption DEF Counters
<1>2. CASE c + 1 = IcMod
  BY <1>1, <1>2
<1>3. CASE c + 1 # IcMod
  BY <1>1, <1>3
<1> QED BY <1>2, <1>3

(* One encryption makes every counter one older at most.                   *)
LEMMA AgoNext ==
  ASSUME NEW c \in Counters, NEW x \in Counters
  PROVE  /\ Ago(x, c) \in 1..IcMod /\ Ago(c, c) = IcMod
         /\ Ago(c, (c + 1) % IcMod) = 1
         /\ Ago(x, (c + 1) % IcMod) <= Ago(x, c) + 1
<1>1. (c + 1) % IcMod = IF c + 1 = IcMod THEN 0 ELSE c + 1
  BY NextCounter
<1>2. IcMod \in Nat /\ IcMod > 1 /\ c \in 0..(IcMod - 1) /\ x \in 0..(IcMod - 1)
  BY IcModAssumption DEF Counters
<1> QED BY <1>1, <1>2 DEF Ago

(* Nothing ciphered takes no counter.                                      *)
LEMMA TakesNone ==
  ASSUME NEW s \in Settings, NEW b, b.message.ics = {},
         b.settings.invocationCounter = s.invocationCounter
  PROVE  Takes(s, b, 0) /\ TakesOne(s, b)
<1>1. \A x \in Counters : Ago(x, s.invocationCounter) \in 1..IcMod
  BY AgoNext DEF Settings
<1>2. IcMod \in Nat
  BY IcModAssumption
<1> HIDE DEF Ago
<1> QED BY <1>1, <1>2 DEF Takes, TakesOne, Moves

(* One encryption takes the next counter.                                  *)
LEMMA TakesNext ==
  ASSUME NEW s \in Settings, isCiphered(s), NEW b, b.message.ics = {s.invocationCounter},
         b.settings.invocationCounter = (s.invocationCounter + 1) % IcMod
  PROVE  TakesOne(s, b)
<1>1. s.invocationCounter \in Counters
  BY DEF Settings
<1>2. IcMod \in Nat
  BY IcModAssumption
<1>3. Moves(s, b.settings, 1)
  BY <1>1, AgoNext DEF Moves
<1>4. /\ Ago(s.invocationCounter, b.settings.invocationCounter) = 1
      /\ Ago(s.invocationCounter, s.invocationCounter) = IcMod
  BY <1>1, AgoNext
<1> QED BY <1>2, <1>3, <1>4 DEF Takes, TakesOne

(* A service request takes a counter if ciphering is on, and no more.      *)
LEMMA ServiceTakes ==
  ASSUME NEW s \in Settings, NEW cmd, NEW target
  PROVE  LET b == dlms_getLNPdu(s, cmd, target) IN
         /\ TakesOne(s, b) /\ SamePdu(s, b.settings)
         /\ Addressed(s, b.message) /\ b.message.cmd = cmd
<1> DEFINE b == dlms_getLNPdu(s, cmd, target)
<1>1. SamePdu(s, b.settings) /\ Addressed(s, b.message) /\ b.message.cmd = cmd
  BY DEF dlms_getLNPdu, dlms_getInvokeIDPriority, cip_encrypt, Built, NoRequest,
         SamePdu, Addressed
<1>2. CASE isCiphered(s)
  <2>1. /\ b.message.ics = {s.invocationCounter}
        /\ b.settings.invocationCounter = (s.invocationCounter + 1) % IcMod
    BY <1>2 DEF dlms_getLNPdu, dlms_getInvokeIDPriority, cip_encrypt, Built, NoRequest, Settings
  <2> QED BY <1>1, <1>2, <2>1, TakesNext
<1>3. CASE ~ isCiphered(s)
  <2>1. b.message.ics = {} /\ b.settings.invocationCounter = s.invocationCounter
    BY <1>3 DEF dlms_getLNPdu, dlms_getInvokeIDPriority, Built, NoRequest, Settings
  <2> QED BY <1>1, <2>1, TakesNone
<1> QED BY <1>2, <1>3

(* An SNRM takes no counter.                                               *)
LEMMA SnrmTakes ==
  ASSUME NEW s \in Settings
  PROVE  LET b == cl_snrmRequest(s) IN
         /\ Takes(s, b, 0) /\ SamePdu(s, b.settings)
         /\ Addressed(s, b.message) /\ b.message.cmd = "SNRM"
<1> DEFINE b == cl_snrmRequest(s)
<1>1. /\ SamePdu(s, b.settings) /\ Addressed(s, b.message) /\ b.message.cmd = "SNRM"
      /\ b.message.ics = {} /\ b.settings.invocationCounter = s.invocationCounter
  BY DEF cl_snrmRequest, Built, NoRequest, SamePdu, Addressed, Settings
<1> QED BY <1>1, TakesNone

(* An AARQ takes a counter if ciphering is on, proposes the PDU size in    *)
(* force and saves it.                                                     *)
LEMMA AarqTakes ==
  ASSUME NEW s \in Settings
  PROVE  LET b == cl_aarqRequest(s) IN
         /\ TakesOne(s, b) /\ Addressed(s, b.message)
         /\ b.settings.initializePduSize = s.maxPduSize
         /\ b.settings.maxPduSize = s.maxPduSize
         /\ b.message # NoRequest => b.message.cmd = "AARQ" /\ b.message.pdu = s.maxPduSize
<1> DEFINE b == cl_aarqRequest(s)
<1>1. /\ Addressed(s, b.message)
      /\ b.settings.initializePduSize = s.maxPduSize
      /\ b.settings.maxPduSize = s.maxPduSize
      /\ b.message # NoRequest => b.message.cmd = "AARQ" /\ b.message.pdu = s.maxPduSize
  BY DEF cl_aarqRequest, apdu_generateUserInformation, cip_encrypt, Built, Refused,
         NoRequest, Addressed, Settings
<1>2. \/ b.message.ics = {} /\ b.settings.invocationCounter = s.invocationCounter
      \/ /\ isCiphered(s) /\ b.message.ics = {s.invocationCounter}
         /\ b.settings.invocationCounter = (s.invocationCounter + 1) % IcMod
  BY DEF cl_aarqRequest, apdu_generateUserInformation, cip_encrypt, Built, Refused,
         NoRequest, isCiphered, Settings
<1> QED BY <1>1, <1>2, TakesNone, TakesNext

(* The release takes a counter if ciphering is on, and puts back the PDU   *)
(* size.                                                                   *)
LEMMA ReleaseTakes ==
  ASSUME NEW s \in Settings
  PROVE  LET b == cl_releaseRequest2(s) IN
         /\ TakesOne(s, b) /\ Addressed(s, b.message)
         /\ b.settings.initializePduSize = s.initializePduSize
         /\ b.message # NoRequest => b.message.cmd = "RLRQ"
<1> DEFINE b == cl_releaseRequest2(s)
<1>1. /\ Addressed(s, b.message)
      /\ b.settings.initializePduSize = s.initializePduSize
      /\ b.message # NoRequest => b.message.cmd = "RLRQ"
  BY DEF cl_releaseRequest2, cip_encrypt, Built, NoRequest, Addressed, Settings
<1>2. \/ b.message.ics = {} /\ b.settings.invocationCounter = s.invocationCounter
      \/ /\ isCiphered(s) /\ b.message.ics = {s.invocationCounter}
         /\ b.settings.invocationCounter = (s.invocationCounter + 1) % IcMod
  BY DEF cl_releaseRequest2, cip_encrypt, Built, NoRequest, isCiphered, Settings
<1> QED BY <1>1, <1>2, TakesNone, TakesNext

(* The disconnect takes no counter and puts back the PDU size.             *)
LEMMA DisconnectTakes ==
  ASSUME NEW s \in Settings
  PROVE  LET b == cl_disconnectRequest(s) IN
         /\ Takes(s, b, 0) /\ Addressed(s, b.message)
         /\ b.settings.initializePduSize = s.initializePduSize
         /\ b.settings.maxPduSize \in {DefaultPdu, s.initializePduSize}
         /\ b.message # NoRequest => b.message.cmd = "DISC"
<1> DEFINE b == cl_disconnectRequest(s)
<1>1. /\ Addressed(s, b.message)
      /\ b.settings.initializePduSize = s.initializePduSize
      /\ b.settings.maxPduSize \in {DefaultPdu, s.initializePduSize}
      /\ b.message # NoRequest => b.message.cmd = "DISC"
      /\ b.message.ics = {} /\ b.settings.invocationCounter = s.invocationCounter
  BY DEF cl_disconnectRequest, Built, NoRequest, Addressed, Settings
<1> QED BY <1>1, TakesNone

(* The challenge takes one counter and the request that carries it the     *)
(* next.                                                                   *)
LEMMA AuthTakes ==
  ASSUME NEW s \in Settings
  PROVE  LET b == cl_getApplicationAssociationRequest(s) IN
         /\ Takes(s, b, 2) /\ SamePdu(s, b.settings)
         /\ Addressed(s, b.message)
         /\ b.message # NoRequest => b.message.cmd = "AUTH"
<1> DEFINE b == cl_getApplicationAssociationRequest(s)
           c == cip_encrypt(s)
           i == s.invocationCounter
           j == c.invocationCounter
           k == b.settings.invocationCounter
<1>1. SamePdu(s, b.settings) /\ Addressed(s, b.message)
      /\ (b.message # NoRequest => b.message.cmd = "AUTH")
  BY DEF cl_getApplicationAssociationRequest, cl_methodLN, dlms_getLNPdu, Refused,
         dlms_getInvokeIDPriority, cip_encrypt, Built, NoRequest, SamePdu, Addressed
<1>2. c \in Settings /\ i \in Counters /\ j \in Counters
  BY EncryptType DEF Settings
<1>3. CASE isCiphered(s)
  <2>1. j = (i + 1) % IcMod /\ isCiphered(c)
    BY <1>3 DEF cip_encrypt, isCiphered, Settings
  <2>2. k = (j + 1) % IcMod /\ b.message.ics = {i, j}
    BY <1>3, <2>1 DEF cl_getApplicationAssociationRequest, cl_methodLN, dlms_getLNPdu,
                dlms_getInvokeIDPriority, cip_encrypt, Built, NoRequest, isCiphered, Settings
  <2> HIDE DEF b, c, i, j, k
  <2>3. IcMod \in Nat /\ IcMod > 1
    BY IcModAssumption
  <2>4. k \in Counters
    BY <1>2, <2>2, <2>3 DEF Counters
  <2>5. ASSUME NEW x \in Counters
        PROVE  /\ Ago(x, i) \in Nat /\ Ago(x, j) \in Nat /\ Ago(x, k) \in Nat
               /\ Ago(x, j) <= Ago(x, i) + 1 /\ Ago(x, k) <= Ago(x, j) + 1
    BY <1>2, <2>1, <2>2, <2>4, AgoNext
  <2>6. \A x \in Counters : Ago(x, k) <= Ago(x, i) + 2
    BY <2>5
  <2>7. Ago(i, i) = IcMod /\ Ago(i, j) = 1 /\ Ago(j, k) = 1 /\ Ago(j, j) = IcMod
    BY <1>2, <2>1, <2>2, AgoNext
  <2>8. Ago(i, k) <= 2
    BY <1>2, <2>5, <2>7
  <2>9. Ago(j, i) > IcMod - 2
    BY <1>2, <2>3, <2>5, <2>7
  <2>10. Takes(s, b, 2)
    BY <2>2, <2>3, <2>6, <2>7, <2>8, <2>9 DEF Takes, Moves, i, k
  <2> QED BY <1>1, <2>10 DEF b
<1>4. CASE ~ isCiphered(s)
  <2>1. b.message.ics = {} /\ b.settings = s
    BY <1>4 DEF cl_getApplicationAssociationRequest, Refused, NoRequest
  <2>2. Takes(s, b, 2)
    <3>1. \A x \in Counters : Ago(x, s.invocationCounter) \in 1..IcMod
      BY AgoNext DEF Settings
    <3>2. IcMod \in Nat
      BY IcModAssumption
    <3> QED BY <2>1, <3>1, <3>2 DEF Takes, Moves
  <2> QED BY <1>1, <2>2
<1> QED BY <1>3, <1>4

(* A UA moves neither the counter nor the PDU sizes.                       *)
LEMMA UaMoves ==
  ASSUME NEW s \in Settings, NEW a
  PROVE  LET t == cl_parseUAResponse(s, a).settings IN
         t.invocationCounter = s.invocationCounter /\ SamePdu(s, t)
BY DEF cl_parseUAResponse, LowerInfo, Digest, SamePdu, Settings

(* Comparing the meter's challenge moves the counter by one at most.       *)
LEMMA AuthMoves ==
  ASSUME NEW s \in Settings, NEW a
  PROVE  LET t == cl_parseApplicationAssociationResponse(s, a).settings IN
         Moves(s, t, 1) /\ SamePdu(s, t)
<1> DEFINE t == cl_parseApplicationAssociationResponse(s, a).settings
<1>1. SamePdu(s, t)
  BY DEF cl_parseApplicationAssociationResponse, cip_encrypt, Digest, SamePdu, Settings
<1>2. \/ t.invocationCounter = s.invocationCounter
      \/ t.invocationCounter = (s.invocationCounter + 1) % IcMod
  BY DEF cl_parseApplicationAssociationResponse, cip_encrypt, Digest, Settings
<1>3. \A x \in Counters : /\ Ago(x, s.invocationCounter) \in Nat
                          /\ Ago(x, (s.invocationCounter + 1) % IcMod)
                               <= Ago(x, s.invocationCounter) + 1
  BY AgoNext DEF Settings
<1>4. Moves(s, t, 1)
  <2> HIDE DEF t
  <2> QED BY <1>2, <1>3 DEF Moves
<1> QED BY <1>1, <1>4
-----------------------------------------------------------------------------
(* A nonempty set of counters has a highest one.                            *)
LEMMA HighestType ==
  ASSUME NEW S \in SUBSET Counters, S # {}
  PROVE  Highest(S) \in S
<1> DEFINE R == {p \in Nat \X Nat : p[1] < p[2]}
           T == {k \in Nat : \E i \in S : i + k = IcMod}
<1>1. IsWellFoundedOn(R, Nat)
  BY NatLessThanWellFounded DEF OpToRel
<1>2. PICK i \in S : TRUE
  OBVIOUS
<1>3. IcMod - i \in T /\ T \subseteq Nat
  BY IcModAssumption DEF Counters
<1> HIDE DEF T, R
<1>4. PICK k \in T : \A j \in T : ~ (<<j, k>> \in R)
  BY <1>1, <1>3, WFMin
<1>5. PICK h \in S : h + k = IcMod
  BY <1>4 DEF T
<1>6. \A j \in S : j <= h
  <2> TAKE j \in S
  <2>1. IcMod - j \in T /\ IcMod - j \in Nat /\ k \in Nat /\ j \in Nat /\ h \in Nat
    BY IcModAssumption, <1>3, <1>4 DEF Counters, T
  <2>2. ~ (IcMod - j < k)
    BY <2>1, <1>4 DEF R
  <2> QED BY <2>1, <2>2, <1>5, IcModAssumption
<1> QED BY <1>5, <1>6 DEF Highest

(* Noting the counters of a request leaves the meter well typed.           *)
LEMMA AcceptType ==
  ASSUME NEW m \in Meters, NEW q \in Requests
  PROVE  Accept(m, q) \in Meters
<1>1. q.ics \in SUBSET Counters
  BY DEF Requests
<1>2. CASE q.ics = {}
  BY <1>2 DEF Accept
<1>3. CASE q.ics # {}
  <2>1. Highest(q.ics) \in Counters
    BY <1>1, <1>3, HighestType
  <2> QED BY <1>3, <2>1 DEF Accept, Meters
<1> QED BY <1>2, <1>3

(* What Answer makes of a command and its data is an answer.               *)
LEMMA AnswerType ==
  ASSUME NEW cmd \in {"none", "UA", "DM", "FRMR", "AARE", "GET", "GLO_GET", "ACTION",
                      "GLO_ACTION", "RLRE", "EXCEPTION"},
         NEW data \in {"empty", "params", "malformed", "aare", "authRequired",
                       "rejected", "octets", "mismatch", "other"}
  PROVE  Answer(cmd, data) \in Answers
BY DEF Answer, Answers, InvokeIds, Codes, Value, NoValue, Objects

(* A meter that answered is a meter.                                       *)
LEMMA ReactsType ==
  ASSUME NEW m \in Meters, NEW s \in Seq(Answers)
  PROVE  Reacts(m, s) \in Meters
BY DEF Reacts, Meters

(* An answer sent whole or as a first segment is a sequence of answers.    *)
LEMMA FramedType ==
  ASSUME NEW a \in Answers PROVE Framed(a) \subseteq Seq(Answers)
<1>1. [a EXCEPT !.more = TRUE] \in Answers
  BY DEF Answers
<1>2. <<a>> \in Seq(Answers) /\ <<[a EXCEPT !.more = TRUE]>> \in Seq(Answers)
  BY <1>1
<1> QED BY <1>2 DEF Framed

(* A meter that refused a request is a meter.                              *)
LEMMA RefusalType ==
  ASSUME NEW m \in Meters PROVE Refusal(m) \subseteq Meters
<1>1. <<Answer("EXCEPTION", "other")>> \in Seq(Answers) /\ <<>> \in Seq(Answers)
  BY AnswerType
<1>2. (IF Exceptions THEN <<Answer("EXCEPTION", "other")>> ELSE <<>>) \in Seq(Answers)
  BY <1>1
<1>3. Reacts(m, IF Exceptions THEN <<Answer("EXCEPTION", "other")>> ELSE <<>>) \in Meters
  BY <1>2, ReactsType
<1> QED BY <1>3 DEF Refusal

(* SNRM and DISC, which open and close the link, leave a meter.            *)
LEMMA LinkType ==
  ASSUME NEW m \in Meters, NEW q \in Requests
  PROVE  /\ OnSnrm(m, q) \subseteq Meters
         /\ OnDisc(m) \subseteq Meters
         /\ Reacts(m, <<Answer("DM", "empty")>>) \in Meters
<1>1. ASSUME NEW d \in UaData
      PROVE  <<[Answer("UA", d) EXCEPT !.size = MeterInfo]>> \in Seq(Answers)
  <2>1. Answer("UA", d) \in Answers
    BY AnswerType, MeterAssumption
  <2>2. [Answer("UA", d) EXCEPT !.size = MeterInfo] \in Answers
    BY <2>1, MeterAssumption DEF Answers
  <2> QED BY <2>2
<1>2. [m EXCEPT !.link = q.address, !.assoc = "none"] \in Meters
  BY DEF Meters, Requests
<1>3. [m EXCEPT !.link = 0, !.assoc = "none"] \in Meters
  BY DEF Meters
<1>4. <<Answer("DM", "empty")>> \in Seq(Answers) /\ <<Answer("UA", "empty")>> \in Seq(Answers)
  BY AnswerType
<1>5. OnSnrm(m, q) \subseteq Meters
  BY <1>1, <1>2, ReactsType DEF OnSnrm
<1>6. OnDisc(m) \subseteq Meters
  BY <1>3, <1>4, ReactsType DEF OnDisc
<1> QED BY <1>4, <1>5, <1>6, ReactsType

(* Changing the association leaves a meter.                                *)
LEMMA AssocType ==
  ASSUME NEW m \in Meters, NEW l \in {"none", "public", "pending", "client"}
  PROVE  [m EXCEPT !.assoc = l] \in Meters
BY DEF Meters

(* The AARE to an AARQ is an answer, whatever it names.                    *)
LEMMA AareType ==
  ASSUME NEW d \in {"aare", "authRequired", "rejected"}, NEW n \in Namings \cup {AsAsked},
         NEW a, a = Aare(d, n)
  PROVE  a \in Answers /\ a.cmd = "AARE" /\ a.data = d /\ a.naming = n
<1>1. Answer("AARE", d) \in Answers /\ Answer("AARE", d).cmd = "AARE"
      /\ Answer("AARE", d).data = d
  BY AnswerType DEF Answer
<1> QED BY <1>1, MeterAssumption DEF Aare, Answers

(* The association an AARE opens.                                          *)
LEMMA OpenedType ==
  ASSUME NEW q, NEW n
  PROVE  /\ Opened(q, n) \in {"none", "public", "pending", "client"}
         /\ Accepting(q, n) = Aare(IF Opened(q, n) = "pending" THEN "authRequired"
                                   ELSE "aare", n)
BY DEF Opened, Accepting

(* AARQ, the authentication and the release leave a meter.                 *)
LEMMA AssociationType ==
  ASSUME NEW m \in Meters, NEW q \in Requests
  PROVE  /\ OnAarq(m, q) \subseteq Meters
         /\ OnAuth(m, q) \subseteq Meters
         /\ OnRlrq(m) \subseteq Meters
<1>1. OnAarq(m, q) \subseteq Meters
  <2>1. ASSUME NEW n \in Namings \cup {AsAsked} PROVE Opens(m, q, n) \subseteq Meters
    <3>1. PICK a, r, l : a = Accepting(q, n) /\ r = Aare("rejected", n) /\ l = Opened(q, n)
      OBVIOUS
    <3>2. a \in Answers /\ r \in Answers /\ l \in {"none", "public", "pending", "client"}
      BY <3>1, OpenedType, AareType
    <3>3. Framed(a) \subseteq Seq(Answers) /\ <<r>> \in Seq(Answers)
      BY <3>2, FramedType
    <3>4. [m EXCEPT !.assoc = l] \in Meters /\ [m EXCEPT !.assoc = "none"] \in Meters
      BY <3>2, AssocType
    <3>5. Opens(m, q, n) = { Reacts([m EXCEPT !.assoc = l], f) : f \in Framed(a) }
                             \cup { Reacts([m EXCEPT !.assoc = "none"], <<r>>) }
      BY <3>1 DEF Opens
    <3> QED BY <3>3, <3>4, <3>5, ReactsType
  <2> QED BY <2>1 DEF OnAarq
<1>2. OnAuth(m, q) \subseteq Meters
  <2>1. ASSUME NEW d \in Challenges
        PROVE  <<[Answer("GLO_ACTION", d) EXCEPT !.id = q.id]>> \in Seq(Answers)
    <3>1. Answer("GLO_ACTION", d) \in Answers
      BY AnswerType, MeterAssumption
    <3>2. [Answer("GLO_ACTION", d) EXCEPT !.id = q.id] \in Answers
      BY <3>1 DEF Answers, Requests
    <3> QED BY <3>2
  <2> QED BY <2>1, AssocType, ReactsType DEF OnAuth
<1>3. OnRlrq(m) \subseteq Meters
  <2>1. <<Answer("RLRE", "other")>> \in Seq(Answers)
    BY AnswerType
  <2> QED BY <2>1, AssocType, ReactsType DEF OnRlrq
<1> QED BY <1>1, <1>2, <1>3

(* The attribute of an object is a value.                                  *)
LEMMA AttributeType ==
  ASSUME NEW m \in Meters, NEW object \in Objects
  PROVE  Attribute(m, object) \in Value
BY IcModAssumption DEF Attribute, Value, Meters, Counters

(* A read of an object leaves a meter.                                     *)
LEMMA GetType ==
  ASSUME NEW m \in Meters, NEW q \in Requests, q.target \in Objects
  PROVE  OnGet(m, q) \subseteq Meters
<1> DEFINE answer(r) ==
        [Answer(IF Ciphered(q) THEN "GLO_GET" ELSE "GET", "other")
           EXCEPT !.id = q.id, !.result = r,
                  !.value = IF r = "OK" THEN Attribute(m, q.target) ELSE NoValue]
<1>1. ASSUME NEW r \in ReadResults PROVE answer(r) \in Answers
  <2>1. Answer(IF Ciphered(q) THEN "GLO_GET" ELSE "GET", "other") \in Answers
    BY AnswerType
  <2>2. Attribute(m, q.target) \in Value /\ NoValue \in Value
    BY AttributeType DEF NoValue, Value, Objects
  <2>3. r \in Codes /\ q.id \in InvokeIds
    BY MeterAssumption DEF Codes, Requests
  <2> QED BY <2>1, <2>2, <2>3 DEF Answers
<1>2. \A r \in ReadResults : Framed(answer(r)) \subseteq Seq(Answers)
  BY <1>1, FramedType
<1> HIDE DEF answer
<1>3. { Reacts(m, f) : f \in UNION { Framed(answer(r)) : r \in ReadResults } } \subseteq Meters
  BY <1>2, ReactsType
<1> QED BY <1>3 DEF OnGet, answer

(* A relay command leaves a meter.                                         *)
LEMMA ActionType ==
  ASSUME NEW m \in Meters, NEW q \in Requests
  PROVE  OnAction(m, q) \subseteq Meters
<1> DEFINE answer(r) == [Answer(IF Ciphered(q) THEN "GLO_ACTION" ELSE "ACTION", "empty")
                           EXCEPT !.id = q.id, !.result = r]
           done(r)   == IF r = "OK"
                        THEN [m EXCEPT !.relay = IF q.target = "on" THEN 1 ELSE 0]
                        ELSE m
<1>1. ASSUME NEW r \in ActionResults PROVE <<answer(r)>> \in Seq(Answers)
  <2>1. Answer(IF Ciphered(q) THEN "GLO_ACTION" ELSE "ACTION", "empty") \in Answers
    BY AnswerType
  <2>2. r \in Codes /\ q.id \in InvokeIds
    BY MeterAssumption DEF Codes, Requests
  <2>3. answer(r) \in Answers
    BY <2>1, <2>2 DEF Answers
  <2> QED BY <2>3
<1>2. \A r \in ActionResults : done(r) \in Meters
  BY DEF Meters
<1> HIDE DEF answer, done
<1>3. { Reacts(done(r), <<answer(r)>>) : r \in ActionResults } \subseteq Meters
  BY <1>1, <1>2, ReactsType
<1> QED BY <1>3 DEF OnAction, answer, done

(* A service, performed or refused, leaves a meter.                        *)
LEMMA ServiceType ==
  ASSUME NEW m \in Meters, NEW R \in SUBSET Meters
  PROVE  Service(m, R) \subseteq Meters
BY RefusalType DEF Service

(* Whatever the request, the meter's reaction is a meter.                  *)
LEMMA ReactionsType ==
  ASSUME NEW m \in Meters, NEW q \in Requests, WellAimed(q)
  PROVE  Reactions(m, q) \subseteq Meters
<1> DEFINE n == Accept(m, q)
<1>1. n \in Meters
  BY AcceptType
<1>2. q.cmd = "GET" => Service(n, OnGet(n, q)) \subseteq Meters
  BY <1>1, GetType, ServiceType DEF WellAimed
<1>3. Service(n, OnAction(n, q)) \subseteq Meters
  BY <1>1, ActionType, ServiceType
<1>4. OnAarq(n, q) \subseteq Meters /\ OnAuth(n, q) \subseteq Meters /\ OnRlrq(n) \subseteq Meters
  BY <1>1, AssociationType
<1>5. Refusal(m) \subseteq Meters /\ Refusal(n) \subseteq Meters
  BY <1>1, RefusalType
<1> HIDE DEF n
<1>6. CASE q.cmd \in {"SNRM", "DISC"}
  BY <1>6, LinkType DEF Reactions
<1>7. CASE q.cmd \notin {"SNRM", "DISC"} /\ m.link # q.address
  BY <1>7, LinkType DEF Reactions
<1>8. CASE q.cmd \notin {"SNRM", "DISC"} /\ m.link = q.address
  <2>1. Reactions(m, q) =
          IF CounterAccepted(m, q)
          THEN CASE q.cmd = "AARQ"   -> OnAarq(n, q)
                 [] q.cmd = "AUTH"   -> IF m.assoc = "pending" THEN OnAuth(n, q)
                                        ELSE Refusal(n)
                 [] q.cmd = "GET"    -> Service(n, OnGet(n, q))
                 [] q.cmd = "ACTION" -> Service(n, OnAction(n, q))
                 [] OTHER            -> OnRlrq(n)
          ELSE Refusal(m)
    BY <1>8 DEF Reactions, n
  <2> QED BY <2>1, <1>2, <1>3, <1>4, <1>5
<1> QED BY <1>6, <1>7, <1>8

(* A meter that repeats its answer, stays silent or restarts is a meter.   *)
LEMMA RepeatsType ==
  ASSUME NEW m \in Meters
  PROVE  Repeats(m) \subseteq Meters /\ Restarted(m) \in Meters
<1>1. <<>> \in Seq(Answers)
  OBVIOUS
<1>2. [m EXCEPT !.last = <<>>] \in Meters
  BY <1>1 DEF Meters
<1>3. Restarted(m) \in Meters
  BY <1>1 DEF Meters, Restarted
<1> QED BY <1>2, <1>3 DEF Repeats

-----------------------------------------------------------------------------
(* What an answer tells.                                                   *)

(* The answers the meter n may have given to the request q it handled      *)
(* last.                                                                   *)
AnswerFits(q, n, a) ==
  \/ a.cmd = "UA" /\ q.cmd = "SNRM" /\ a.data \in UaData
  \/ a.cmd \in {"UA", "DM"} /\ q.cmd = "DISC" /\ a.data = "empty"
  \/ /\ a.cmd = "DM" /\ q.cmd \notin {"SNRM", "DISC"} /\ a.data = "empty"
     /\ n.link # q.address
  \/ /\ a.cmd = "EXCEPTION" /\ Exceptions /\ a.data = "other"
     /\ q.cmd \notin {"SNRM", "DISC"}
  \/ a.cmd = "RLRE" /\ q.cmd = "RLRQ" /\ a.data = "other"
  \/ /\ a.cmd = "AARE" /\ q.cmd = "AARQ" /\ n.link = q.address
     /\ a.data \in {"rejected", "authRequired", "aare"}
     /\ a.data = "aare" /\ a.naming = AsAsked =>
          /\ q.authentication # "HIGH_GMAC"
          /\ n.assoc = IF q.address = 16 THEN "public" ELSE "client"
     /\ a.data = "authRequired" /\ a.naming = AsAsked => q.authentication = "HIGH_GMAC"
  \/ /\ a.cmd = "GLO_ACTION" /\ q.cmd = "AUTH" /\ n.link = q.address /\ a.id = q.id
     /\ a.data \in Challenges /\ (a.data = "octets" => n.assoc = "client")
  \/ /\ a.cmd = (IF Ciphered(q) THEN "GLO_GET" ELSE "GET") /\ q.cmd = "GET"
     /\ a.id = q.id /\ a.data = "other" /\ a.result \in ReadResults
     /\ a.value = IF a.result = "OK" THEN Attribute(n, q.target) ELSE NoValue
  \/ /\ a.cmd = (IF Ciphered(q) THEN "GLO_ACTION" ELSE "ACTION") /\ q.cmd = "ACTION"
     /\ a.id = q.id /\ a.data = "empty"
     /\ a.result = "OK" => n.relay = IF q.target = "on" THEN 1 ELSE 0

(* One answer at most; an SNRM always gets one, and so does a read in the  *)
(* clear in the reading client's association.                              *)
AfterFits(q, n) ==
  /\ n.received
  /\ \/ /\ n.last = <<>> /\ q.cmd # "SNRM"
        /\ ~ (q.cmd = "GET" /\ q.ics = {} /\ n.link = q.address /\ n.assoc = "client")
     \/ \E a \in Answers : n.last = <<a>> /\ AnswerFits(q, n, a)

(* What a request may do to the meter: from m to n.                        *)
Effects(m, q, n) ==
  /\ q.cmd = "SNRM" => n.link = q.address /\ n.assoc = "none"
  /\ q.cmd = "DISC" => n.link = 0 /\ n.assoc = "none"
  /\ q.cmd \notin {"SNRM", "DISC"} => n.link = m.link
  /\ q.cmd \notin {"SNRM", "DISC"} /\ m.link # q.address => n.assoc = m.assoc
  /\ q.cmd \in {"GET", "ACTION"} => n.assoc = m.assoc
  /\ n.relay # m.relay => q.cmd = "ACTION" /\ n.relay = IF q.target = "on" THEN 1 ELSE 0
  /\ n.ic # m.ic => n.ic \in q.ics

(* Noting the counters of a request changes nothing else of the meter.     *)
LEMMA AcceptKeeps ==
  ASSUME NEW m \in Meters, NEW q \in Requests, NEW n, n = Accept(m, q)
  PROVE  /\ n \in Meters /\ n.link = m.link /\ n.assoc = m.assoc /\ n.relay = m.relay
         /\ n.ic # m.ic => n.ic \in q.ics
<1>1. n \in Meters
  BY AcceptType
<1>2. CASE q.ics = {}
  BY <1>1, <1>2 DEF Accept
<1>3. CASE q.ics # {}
  <2>1. Highest(q.ics) \in q.ics
    BY <1>3, HighestType DEF Requests
  <2> QED BY <1>1, <1>3, <2>1 DEF Accept, Meters
<1> QED BY <1>2, <1>3

(* The reaction to an SNRM or a DISC, or to a request for another link.    *)
LEMMA LinkFits ==
  ASSUME NEW m \in Meters, NEW q \in Requests, NEW n,
         \/ q.cmd = "SNRM" /\ n \in OnSnrm(m, q)
         \/ q.cmd = "DISC" /\ n \in OnDisc(m)
         \/ /\ q.cmd \notin {"SNRM", "DISC"} /\ m.link # q.address
            /\ n = Reacts(m, <<Answer("DM", "empty")>>)
  PROVE  AfterFits(q, n) /\ Effects(m, q, n)
<1>1. CASE q.cmd = "SNRM" /\ n \in OnSnrm(m, q)
  <2>1. PICK d \in UaData : n = Reacts([m EXCEPT !.link = q.address, !.assoc = "none"],
                                       <<[Answer("UA", d) EXCEPT !.size = MeterInfo]>>)
    BY <1>1 DEF OnSnrm
  <2> DEFINE a == [Answer("UA", d) EXCEPT !.size = MeterInfo]
  <2>2. a \in Answers /\ a.cmd = "UA" /\ a.data = d
    <3>1. Answer("UA", d) \in Answers
      BY AnswerType, MeterAssumption
    <3> QED BY <3>1, MeterAssumption DEF Answers, Answer
  <2> HIDE DEF a
  <2>3. n.last = <<a>> /\ n.received /\ n.link = q.address /\ n.assoc = "none"
        /\ n.relay = m.relay /\ n.ic = m.ic
    BY <2>1 DEF Reacts, Meters, a
  <2> QED BY <1>1, <2>2, <2>3 DEF AfterFits, AnswerFits, Effects
<1>2. CASE q.cmd = "DISC" /\ n \in OnDisc(m)
  <2> DEFINE a == Answer(IF m.link = 0 THEN "DM" ELSE "UA", "empty")
  <2>1. n = Reacts([m EXCEPT !.link = 0, !.assoc = "none"], <<a>>)
    BY <1>2 DEF OnDisc
  <2>2. a \in Answers /\ a.cmd \in {"UA", "DM"} /\ a.data = "empty"
    <3>1. \A c \in {"UA", "DM"} : /\ Answer(c, "empty") \in Answers
                                  /\ Answer(c, "empty").cmd = c
                                  /\ Answer(c, "empty").data = "empty"
      BY AnswerType DEF Answer
    <3> QED BY <3>1
  <2> HIDE DEF a
  <2>3. n.last = <<a>> /\ n.received /\ n.link = 0 /\ n.assoc = "none"
        /\ n.relay = m.relay /\ n.ic = m.ic
    BY <2>1 DEF Reacts, Meters
  <2> QED BY <1>2, <2>2, <2>3 DEF AfterFits, AnswerFits, Effects
<1>3. CASE /\ q.cmd \notin {"SNRM", "DISC"} /\ m.link # q.address
           /\ n = Reacts(m, <<Answer("DM", "empty")>>)
  <2> DEFINE a == Answer("DM", "empty")
  <2>1. a \in Answers /\ a.cmd = "DM" /\ a.data = "empty"
    BY AnswerType DEF Answer
  <2> HIDE DEF a
  <2>2. /\ n.last = <<a>> /\ n.received /\ n.link = m.link /\ n.assoc = m.assoc
        /\ n.relay = m.relay /\ n.ic = m.ic
    BY <1>3 DEF Reacts, Meters, a
  <2> QED BY <1>3, <2>1, <2>2 DEF AfterFits, AnswerFits, Effects
<1> QED BY <1>1, <1>2, <1>3

(* A refusal is an exception response or silence.                          *)
LEMMA RefusalFits ==
  ASSUME NEW m \in Meters, NEW q, q.cmd \notin {"SNRM", "DISC"},
         ~ (q.cmd = "GET" /\ q.ics = {} /\ m.link = q.address /\ m.assoc = "client")
           \/ Exceptions,
         NEW n \in Refusal(m)
  PROVE  /\ AfterFits(q, n)
         /\ n.link = m.link /\ n.assoc = m.assoc /\ n.relay = m.relay /\ n.ic = m.ic
<1> DEFINE a == Answer("EXCEPTION", "other")
<1>1. a \in Answers /\ a.cmd = "EXCEPTION" /\ a.data = "other"
  BY AnswerType DEF Answer
<1>2. n = Reacts(m, IF Exceptions THEN <<a>> ELSE <<>>)
  BY DEF Refusal
<1> HIDE DEF a
<1>3. /\ n.last = (IF Exceptions THEN <<a>> ELSE <<>>) /\ n.received
      /\ n.link = m.link /\ n.assoc = m.assoc /\ n.relay = m.relay /\ n.ic = m.ic
  BY <1>2 DEF Reacts, Meters
<1>4. CASE Exceptions
  BY <1>1, <1>3, <1>4 DEF AfterFits, AnswerFits
<1>5. CASE ~ Exceptions
  BY <1>3, <1>5 DEF AfterFits
<1> QED BY <1>4, <1>5

(* What is sent whole or as a first segment is one answer of that content. *)
LEMMA FramedFits ==
  ASSUME NEW a \in Answers, NEW f \in Framed(a)
  PROVE  \E b \in Answers : /\ f = <<b>> /\ b.cmd = a.cmd /\ b.id = a.id
                            /\ b.result = a.result /\ b.value = a.value
                            /\ b.data = a.data /\ b.naming = a.naming
<1>1. f = <<a>> \/ f = <<[a EXCEPT !.more = TRUE]>>
  BY DEF Framed
<1>2. [a EXCEPT !.more = TRUE] \in Answers
  BY DEF Answers
<1>3. LET b == [a EXCEPT !.more = TRUE] IN
        /\ b.cmd = a.cmd /\ b.id = a.id /\ b.result = a.result /\ b.value = a.value
        /\ b.data = a.data /\ b.naming = a.naming
  BY DEF Answers
<1> QED BY <1>1, <1>2, <1>3

(* What Reacts keeps and what it sets.                                     *)
LEMMA ReactsFields ==
  ASSUME NEW m \in Meters, NEW s, NEW n, n = Reacts(m, s)
  PROVE  /\ n.last = s /\ n.received /\ n.link = m.link /\ n.assoc = m.assoc
         /\ n.relay = m.relay /\ n.ic = m.ic
BY DEF Reacts, Meters

(* Another association leaves the rest of the meter alone.                 *)
LEMMA AssocFields ==
  ASSUME NEW m \in Meters, NEW l \in {"none", "public", "pending", "client"},
         NEW n, n = [m EXCEPT !.assoc = l]
  PROVE  n \in Meters /\ n.assoc = l /\ n.link = m.link /\ n.relay = m.relay /\ n.ic = m.ic
BY DEF Meters

(* The reaction to an AARQ.                                                *)
LEMMA AarqFits ==
  ASSUME NEW m \in Meters, NEW q \in Requests, q.cmd = "AARQ", m.link = q.address,
         NEW n \in OnAarq(m, q)
  PROVE  AfterFits(q, n) /\ n.link = m.link /\ n.relay = m.relay /\ n.ic = m.ic
<1>1. PICK g \in Namings \cup {AsAsked} : n \in Opens(m, q, g)
  BY DEF OnAarq
<1>2. PICK a, r, l : a = Accepting(q, g) /\ r = Aare("rejected", g) /\ l = Opened(q, g)
  OBVIOUS
<1>3. /\ l \in {"none", "public", "pending", "client"}
      /\ a = Aare(IF l = "pending" THEN "authRequired" ELSE "aare", g)
  BY <1>2, OpenedType
<1>4. /\ a \in Answers /\ a.cmd = "AARE" /\ a.naming = g
      /\ a.data = IF l = "pending" THEN "authRequired" ELSE "aare"
  BY <1>3, AareType
<1>5. r \in Answers /\ r.cmd = "AARE" /\ r.data = "rejected"
  BY <1>2, AareType
<1>6. g = AsAsked => /\ (l = "pending") = (q.authentication = "HIGH_GMAC")
                     /\ l # "pending" => l = IF q.address = 16 THEN "public" ELSE "client"
  BY <1>2 DEF Opened, AsAsked
<1>7. \/ \E f \in Framed(a) : n = Reacts([m EXCEPT !.assoc = l], f)
      \/ n = Reacts([m EXCEPT !.assoc = "none"], <<r>>)
  BY <1>1, <1>2 DEF Opens
<1>8. CASE \E f \in Framed(a) : n = Reacts([m EXCEPT !.assoc = l], f)
  <2>1. PICK f \in Framed(a) : n = Reacts([m EXCEPT !.assoc = l], f)
    BY <1>8
  <2>2. PICK b \in Answers : /\ f = <<b>> /\ b.cmd = a.cmd /\ b.data = a.data
                             /\ b.naming = a.naming
    BY <1>4, FramedFits
  <2>3. /\ n.last = <<b>> /\ n.received /\ n.link = m.link /\ n.assoc = l
        /\ n.relay = m.relay /\ n.ic = m.ic
    BY <1>3, <2>1, <2>2, AssocFields, ReactsFields
  <2>4. AnswerFits(q, n, b)
    BY <1>4, <1>6, <2>2, <2>3 DEF AnswerFits
  <2> QED BY <2>3, <2>4 DEF AfterFits
<1>9. CASE n = Reacts([m EXCEPT !.assoc = "none"], <<r>>)
  <2>1. /\ n.last = <<r>> /\ n.received /\ n.link = m.link /\ n.relay = m.relay
        /\ n.ic = m.ic
    BY <1>9, AssocFields, ReactsFields
  <2>2. AnswerFits(q, n, r)
    BY <1>5, <2>1 DEF AnswerFits
  <2> QED BY <1>5, <2>1, <2>2 DEF AfterFits
<1> QED BY <1>7, <1>8, <1>9

(* The reaction to the challenge.                                          *)
LEMMA AuthFits ==
  ASSUME NEW m \in Meters, NEW q \in Requests, q.cmd = "AUTH", m.link = q.address,
         NEW n \in OnAuth(m, q)
  PROVE  AfterFits(q, n) /\ n.link = m.link /\ n.relay = m.relay /\ n.ic = m.ic
<1>1. PICK d \in Challenges :
        n = Reacts([m EXCEPT !.assoc = IF d = "octets" THEN "client" ELSE "none"],
                   <<[Answer("GLO_ACTION", d) EXCEPT !.id = q.id]>>)
  BY DEF OnAuth
<1> DEFINE a == [Answer("GLO_ACTION", d) EXCEPT !.id = q.id]
<1>2. a \in Answers /\ a.cmd = "GLO_ACTION" /\ a.data = d /\ a.id = q.id
  <2>1. Answer("GLO_ACTION", d) \in Answers
    BY AnswerType, MeterAssumption
  <2> QED BY <2>1 DEF Answers, Answer, Requests
<1> HIDE DEF a
<1>3. /\ n.last = <<a>> /\ n.received /\ n.link = m.link /\ n.relay = m.relay
      /\ n.ic = m.ic /\ n.assoc = IF d = "octets" THEN "client" ELSE "none"
  <2> DEFINE l == IF d = "octets" THEN "client" ELSE "none"
  <2>1. l \in {"none", "public", "pending", "client"}
    OBVIOUS
  <2>2. n = Reacts([m EXCEPT !.assoc = l], <<a>>)
    BY <1>1 DEF a
  <2> HIDE DEF l
  <2>3. /\ n.last = <<a>> /\ n.received /\ n.link = m.link /\ n.relay = m.relay
        /\ n.ic = m.ic /\ n.assoc = l
    BY <2>1, <2>2, AssocFields, ReactsFields
  <2> QED BY <2>3 DEF l
<1>4. AnswerFits(q, n, a)
  BY <1>2, <1>3 DEF AnswerFits
<1> QED BY <1>2, <1>3, <1>4 DEF AfterFits

(* The reaction to a read.                                                 *)
LEMMA GetFits ==
  ASSUME NEW m \in Meters, NEW q \in Requests, q.cmd = "GET", WellAimed(q),
         NEW n \in OnGet(m, q)
  PROVE  /\ AfterFits(q, n)
         /\ n.link = m.link /\ n.assoc = m.assoc /\ n.relay = m.relay /\ n.ic = m.ic
<1> DEFINE answer(r) ==
        [Answer(IF Ciphered(q) THEN "GLO_GET" ELSE "GET", "other")
           EXCEPT !.id = q.id, !.result = r,
                  !.value = IF r = "OK" THEN Attribute(m, q.target) ELSE NoValue]
<1>1. PICK r \in ReadResults : \E f \in Framed(answer(r)) : n = Reacts(m, f)
  BY DEF OnGet
<1> DEFINE c == IF Ciphered(q) THEN "GLO_GET" ELSE "GET"
           v == IF r = "OK" THEN Attribute(m, q.target) ELSE NoValue
           a == answer(r)
<1>2. /\ a \in Answers /\ a.cmd = c /\ a.data = "other" /\ a.id = q.id /\ a.result = r
      /\ a.value = v
  <2>1. Answer(c, "other") \in Answers /\ Answer(c, "other").cmd = c
        /\ Answer(c, "other").data = "other"
    BY AnswerType DEF Answer
  <2>2. v \in Value
    BY AttributeType DEF NoValue, Value, Objects, WellAimed
  <2>3. r \in Codes /\ q.id \in InvokeIds
    BY MeterAssumption DEF Codes, Requests
  <2>4. a = [Answer(c, "other") EXCEPT !.id = q.id, !.result = r, !.value = v]
    OBVIOUS
  <2> HIDE DEF c, v, answer, a
  <2> QED BY <2>1, <2>2, <2>3, <2>4 DEF Answers
<1>3. PICK f \in Framed(a) : n = Reacts(m, f)
  BY <1>1
<1> HIDE DEF answer, a, c, v
<1>4. PICK b \in Answers : /\ f = <<b>> /\ b.cmd = a.cmd /\ b.id = a.id
                           /\ b.result = a.result /\ b.value = a.value /\ b.data = a.data
  BY <1>2, FramedFits
<1>5. /\ n.last = <<b>> /\ n.received /\ n.link = m.link /\ n.assoc = m.assoc
      /\ n.relay = m.relay /\ n.ic = m.ic
  BY <1>3, <1>4, ReactsFields
<1>6. Attribute(n, q.target) = Attribute(m, q.target)
  BY <1>5 DEF Attribute
<1>7. AnswerFits(q, n, b)
  BY <1>2, <1>4, <1>6 DEF AnswerFits, c, v
<1> QED BY <1>5, <1>7 DEF AfterFits

(* The reaction to a relay command.                                        *)
LEMMA ActionFits ==
  ASSUME NEW m \in Meters, NEW q \in Requests, q.cmd = "ACTION",
         NEW n \in OnAction(m, q)
  PROVE  /\ AfterFits(q, n) /\ n.link = m.link /\ n.assoc = m.assoc /\ n.ic = m.ic
         /\ n.relay # m.relay => n.relay = IF q.target = "on" THEN 1 ELSE 0
<1> DEFINE to == IF q.target = "on" THEN 1 ELSE 0
           done(r) == IF r = "OK" THEN [m EXCEPT !.relay = to] ELSE m
           c == IF Ciphered(q) THEN "GLO_ACTION" ELSE "ACTION"
<1>1. PICK r \in ActionResults :
        n = Reacts(done(r), <<[Answer(c, "empty") EXCEPT !.id = q.id, !.result = r]>>)
  BY DEF OnAction
<1> DEFINE a == [Answer(c, "empty") EXCEPT !.id = q.id, !.result = r]
           k == done(r)
<1>2. a \in Answers /\ a.cmd = c /\ a.data = "empty" /\ a.id = q.id /\ a.result = r
  <2>1. Answer(c, "empty") \in Answers /\ Answer(c, "empty").cmd = c
        /\ Answer(c, "empty").data = "empty"
    BY AnswerType DEF Answer
  <2>2. r \in Codes /\ q.id \in InvokeIds
    BY MeterAssumption DEF Codes, Requests
  <2> HIDE DEF c
  <2> QED BY <2>1, <2>2 DEF Answers
<1>3. /\ k \in Meters /\ k.link = m.link /\ k.assoc = m.assoc /\ k.ic = m.ic
      /\ k.relay \in {m.relay, to} /\ (r = "OK" => k.relay = to)
  <2>1. to \in {0, 1}
    OBVIOUS
  <2> HIDE DEF to
  <2> QED BY <2>1 DEF Meters
<1>4. n = Reacts(k, <<a>>)
  BY <1>1
<1> HIDE DEF a, k
<1>5. /\ n.last = <<a>> /\ n.received /\ n.link = m.link /\ n.assoc = m.assoc
      /\ n.ic = m.ic /\ n.relay = k.relay
  BY <1>3, <1>4, ReactsFields
<1>6. AnswerFits(q, n, a)
  BY <1>2, <1>3, <1>5 DEF AnswerFits
<1> QED BY <1>2, <1>3, <1>5, <1>6 DEF AfterFits

(* The reaction to a release request.                                      *)
LEMMA RlrqFits ==
  ASSUME NEW m \in Meters, NEW q, q.cmd = "RLRQ", NEW n \in OnRlrq(m)
  PROVE  AfterFits(q, n) /\ n.link = m.link /\ n.relay = m.relay /\ n.ic = m.ic
<1> DEFINE a == Answer("RLRE", "other")
<1>1. a \in Answers /\ a.cmd = "RLRE" /\ a.data = "other"
  BY AnswerType DEF Answer
<1>2. n = Reacts([m EXCEPT !.assoc = "none"], <<a>>)
  BY DEF OnRlrq
<1> HIDE DEF a
<1>3. n.last = <<a>> /\ n.received /\ n.link = m.link /\ n.relay = m.relay /\ n.ic = m.ic
  BY <1>2, AssocFields, ReactsFields
<1> QED BY <1>1, <1>3 DEF AfterFits, AnswerFits

(* A request for the open link of a meter that accepts its counters.       *)
LEMMA ServedFits ==
  ASSUME NEW m \in Meters, NEW q \in Requests, WellAimed(q),
         q.cmd \notin {"SNRM", "DISC"}, m.link = q.address, CounterAccepted(m, q),
         NEW n \in Reactions(m, q),
         NEW k, k = Accept(m, q)
  PROVE  \/ /\ q.cmd = "AARQ" /\ n \in OnAarq(k, q)
         \/ /\ q.cmd = "AUTH" /\ n \in OnAuth(k, q)
         \/ /\ q.cmd = "GET" /\ n \in OnGet(k, q)
         \/ /\ q.cmd = "ACTION" /\ n \in OnAction(k, q)
         \/ /\ q.cmd \notin {"AARQ", "AUTH", "GET", "ACTION"} /\ n \in OnRlrq(k)
         \/ /\ q.cmd \in {"AUTH", "GET", "ACTION"} /\ n \in Refusal(k)
            /\ q.cmd = "GET" => Exceptions \/ k.assoc # "client"
BY DEF Reactions, Service

(* A request the meter takes for one it must not answer as asked.          *)
LEMMA RefusedFits ==
  ASSUME NEW m \in Meters, NEW q \in Requests,
         q.cmd \notin {"SNRM", "DISC"}, m.link = q.address, ~ CounterAccepted(m, q),
         NEW n \in Reactions(m, q)
  PROVE  n \in Refusal(m) /\ q.ics # {}
BY DEF Reactions, CounterAccepted

(* Every reaction of the meter to a request the program sends.             *)
LEMMA ReactionsFit ==
  ASSUME NEW m \in Meters, NEW q \in Requests, WellAimed(q), q.cmd # "none",
         NEW n \in Reactions(m, q)
  PROVE  AfterFits(q, n) /\ Effects(m, q, n)
<1>1. CASE q.cmd \in {"SNRM", "DISC"} \/ m.link # q.address
  <2>1. \/ q.cmd = "SNRM" /\ n \in OnSnrm(m, q)
        \/ q.cmd = "DISC" /\ n \in OnDisc(m)
        \/ /\ q.cmd \notin {"SNRM", "DISC"} /\ m.link # q.address
           /\ n = Reacts(m, <<Answer("DM", "empty")>>)
    BY <1>1 DEF Reactions
  <2> QED BY <2>1, LinkFits
<1>2. CASE q.cmd \notin {"SNRM", "DISC"} /\ m.link = q.address /\ ~ CounterAccepted(m, q)
  <2>1. n \in Refusal(m) /\ q.ics # {} /\ q.cmd \notin {"SNRM", "DISC"}
    BY <1>2, RefusedFits
  <2>2. /\ AfterFits(q, n)
        /\ n.link = m.link /\ n.assoc = m.assoc /\ n.relay = m.relay /\ n.ic = m.ic
    BY <2>1, RefusalFits
  <2> QED BY <1>2, <2>2 DEF Effects
<1>3. CASE q.cmd \notin {"SNRM", "DISC"} /\ m.link = q.address /\ CounterAccepted(m, q)
  <2> DEFINE k == Accept(m, q)
  <2>1. /\ k \in Meters /\ k.link = m.link /\ k.assoc = m.assoc /\ k.relay = m.relay
        /\ k.ic # m.ic => k.ic \in q.ics
    BY AcceptKeeps
  <2>2. \/ /\ q.cmd = "AARQ" /\ n \in OnAarq(k, q)
        \/ /\ q.cmd = "AUTH" /\ n \in OnAuth(k, q)
        \/ /\ q.cmd = "GET" /\ n \in OnGet(k, q)
        \/ /\ q.cmd = "ACTION" /\ n \in OnAction(k, q)
        \/ /\ q.cmd \notin {"AARQ", "AUTH", "GET", "ACTION"} /\ n \in OnRlrq(k)
        \/ /\ q.cmd \in {"AUTH", "GET", "ACTION"} /\ n \in Refusal(k)
           /\ q.cmd = "GET" => Exceptions \/ k.assoc # "client"
    BY <1>3, ServedFits
  <2> HIDE DEF k
  <2>3. CASE q.cmd = "AARQ" /\ n \in OnAarq(k, q)
    <3>1. AfterFits(q, n) /\ n.link = k.link /\ n.relay = k.relay /\ n.ic = k.ic
      BY <1>3, <2>1, <2>3, AarqFits
    <3> QED BY <1>3, <2>1, <2>3, <3>1 DEF Effects
  <2>4. CASE q.cmd = "AUTH" /\ n \in OnAuth(k, q)
    <3>1. AfterFits(q, n) /\ n.link = k.link /\ n.relay = k.relay /\ n.ic = k.ic
      BY <1>3, <2>1, <2>4, AuthFits
    <3> QED BY <1>3, <2>1, <2>4, <3>1 DEF Effects
  <2>5. CASE q.cmd = "GET" /\ n \in OnGet(k, q)
    <3>1. /\ AfterFits(q, n)
          /\ n.link = k.link /\ n.assoc = k.assoc /\ n.relay = k.relay /\ n.ic = k.ic
      BY <2>1, <2>5, GetFits
    <3> QED BY <1>3, <2>1, <2>5, <3>1 DEF Effects
  <2>6. CASE q.cmd = "ACTION" /\ n \in OnAction(k, q)
    <3>1. /\ AfterFits(q, n) /\ n.link = k.link /\ n.assoc = k.assoc /\ n.ic = k.ic
          /\ n.relay # k.relay => n.relay = IF q.target = "on" THEN 1 ELSE 0
      BY <2>1, <2>6, ActionFits
    <3> QED BY <1>3, <2>1, <2>6, <3>1 DEF Effects
  <2>7. CASE q.cmd \notin {"AARQ", "AUTH", "GET", "ACTION"} /\ n \in OnRlrq(k)
    <3>1. q.cmd = "RLRQ"
      BY <1>3, <2>7 DEF Requests
    <3>2. AfterFits(q, n) /\ n.link = k.link /\ n.relay = k.relay /\ n.ic = k.ic
      BY <2>1, <2>7, <3>1, RlrqFits
    <3> QED BY <1>3, <2>1, <3>1, <3>2 DEF Effects
  <2>8. CASE /\ q.cmd \in {"AUTH", "GET", "ACTION"} /\ n \in Refusal(k)
             /\ q.cmd = "GET" => Exceptions \/ k.assoc # "client"
    <3>1. /\ AfterFits(q, n)
          /\ n.link = k.link /\ n.assoc = k.assoc /\ n.relay = k.relay /\ n.ic = k.ic
      BY <2>1, <2>8, RefusalFits
    <3> QED BY <1>3, <2>1, <2>8, <3>1 DEF Effects
  <2> QED BY <2>2, <2>3, <2>4, <2>5, <2>6, <2>7, <2>8
<1> QED BY <1>1, <1>2, <1>3
-----------------------------------------------------------------------------
(* The run of the command.                                                 *)
Reads == {"meter_sn", "energy", "relay"}
Commands == {"on", "off"}

(* The objects left belong to the item of the command line, and there are  *)
(* some until the last one is done.                                        *)
TodoFits ==
  /\ todo \in Seq(IF args.item \in Reads THEN Reads ELSE Commands)
  /\ stage \notin {"release", "disc", "exit"} => todo # <<>>

(* The identity before the copy is taken, in the copy, and put back.       *)
IdentityKept ==
  /\ saved = Identity(args)
  /\ stage \in {"open", "icHead"} => IdentityOf(settings) = Identity(args)
  /\ ConfiguredIdentity

IInv == TypeOK /\ WellAimed(tx) /\ TodoFits /\ IdentityKept
-----------------------------------------------------------------------------
(* A command line names an identity.                                       *)
LEMMA IdentityType ==
  ASSUME NEW a \in CommandLines PROVE Identity(a) \in Identities
BY DEF Identity, Identities, CommandLines, Addresses, Levels, Protections

(* Assume puts that identity, and nothing else, into the settings.         *)
LEMMA AssumeType ==
  ASSUME NEW s \in Settings, NEW i \in Identities
  PROVE  Assume(s, i) \in Settings /\ IdentityOf(Assume(s, i)) = i
BY DEF Assume, Settings, Identities, IdentityOf

(* The program starts with the configured identity and a typed state.      *)
LEMMA InitIInv == Init => IInv
<1> SUFFICES ASSUME Init PROVE IInv
  OBVIOUS
<1> USE DEF Init
<1>1. args \in CommandLines
  BY SessionAssumption
<1>2. cl_init(args.server) \in Settings
  BY <1>1, IcModAssumption
     DEF cl_init, Settings, CommandLines, Addresses, Levels, Protections, Counters,
         InvokeIds, DefaultPdu, DefaultInfo
<1>3. settings \in Settings /\ IdentityOf(settings) = Identity(args)
  BY <1>1, <1>2, IdentityType, AssumeType DEF connectMeter
<1>4. meter \in Meters
  <2>1. PICK c \in MeterCounters, r \in {0, 1} : meter = FreshMeter(c, r)
    OBVIOUS
  <2>2. c \in Counters /\ <<>> \in Seq(Answers)
    BY SessionAssumption
  <2> QED BY <2>1, <2>2 DEF FreshMeter, Meters
<1>5. todo \in Seq(Items) /\ TodoFits
  <2>1. CASE args.item = "energy"
    <3>1. <<"meter_sn", "energy">> \in Seq(Items) /\ <<"meter_sn", "energy">> \in Seq(Reads)
      BY DEF Items, Reads
    <3>2. todo = <<"meter_sn", "energy">> /\ todo # <<>>
      BY <2>1 DEF ObjectsOf
    <3>3. (IF args.item \in Reads THEN Reads ELSE Commands) = Reads
      BY <2>1 DEF Reads
    <3>4. todo \in Seq(Items) /\ todo \in Seq(Reads)
      BY <3>1, <3>2
    <3> HIDE DEF Init
    <3> QED BY <3>2, <3>3, <3>4 DEF TodoFits
  <2>2. CASE args.item # "energy"
    <3> DEFINE S == IF args.item \in Reads THEN Reads ELSE Commands
    <3>1. args.item \in Items /\ args.item \in S
      BY <1>1 DEF Items, Reads, Commands, CommandLines
    <3> HIDE DEF S, Init
    <3>2. \A T : \A x \in T : <<x>> \in Seq(T) /\ <<x>> # <<>>
      OBVIOUS
    <3>3. <<args.item>> \in Seq(Items) /\ <<args.item>> \in Seq(S) /\ <<args.item>> # <<>>
      BY <3>1, <3>2
    <3>4. todo = <<args.item>>
      BY <2>2 DEF ObjectsOf, Init
    <3> QED BY <3>3, <3>4 DEF TodoFits, S
  <2> QED BY <2>1, <2>2
<1>6. NoAnswer \in Answers
  BY AnswerType DEF NoAnswer
<1>7. TypeOK
  <2>1. reply \in [ret: Codes, answer: Answers] /\ ret \in Codes
    BY <1>6 DEF Codes
  <2>2. line \in Seq(Answers) /\ tx \in Requests
    BY NoRequestType
  <2>3. saved \in Identities
    BY <1>1, IdentityType
  <2> QED BY <1>1, <1>3, <1>4, <1>5, <2>1, <2>2, <2>3, SessionAssumption
          DEF TypeOK, Stages, Phases
<1> QED BY <1>3, <1>5, <1>7, NoRequestType DEF IInv, IdentityKept, ConfiguredIdentity
-----------------------------------------------------------------------------
(* The exchange.                                                           *)

(* What stays as it was, or stays well typed, whatever happens on the line. *)
LineTyped ==
  /\ tx \in Requests /\ WellAimed(tx) /\ line \in Seq(Answers) /\ meter \in Meters
  /\ tries \in 0..2 /\ used \in SUBSET Counters /\ budget \in Nat
  /\ phase \in Phases
  /\ reply \in [ret: Codes, answer: Answers]

(* The places an exchange leads to.                                        *)
LEMMA PhaseType == {"call", "wait", "back", "spin", "poll"} \subseteq Phases
BY DEF Phases

(* An exchange that returns is over, and its reply typed.                  *)
LEMMA ReturnedType ==
  ASSUME NEW r \in Codes, NEW a \in Answers, Returned(r, a)
  PROVE  /\ phase' = "back" /\ phase' \in Phases
         /\ reply' \in [ret: Codes, answer: Answers]
BY PhaseType DEF Returned

(* The missing answer is an answer of the model.                           *)
LEMMA NoAnswerType == NoAnswer \in Answers
BY AnswerType DEF NoAnswer

(* A meter that hears a request is a meter.                                *)
LEMMA HearsType ==
  ASSUME NEW q \in Requests, WellAimed(q), NEW m \in Meters
  PROVE  Hears(q, m) \subseteq Meters
BY ReactionsType, RepeatsType DEF Hears

(* A line with the meter's last answer added is still a line of answers.   *)
LEMMA LastType ==
  ASSUME NEW m \in Meters, NEW l \in Seq(Answers)
  PROVE  l \o m.last \in Seq(Answers)
<1>1. m.last \in Seq(Answers)
  BY DEF Meters
<1> QED BY <1>1, ConcatProperties

(* A disturbance is taken from a budget that stays a natural number.       *)
LEMMA DisturbType ==
  ASSUME budget \in Nat, Disturb PROVE budget' \in Nat
BY DEF Disturb

(* sendData, delivered, lost or failed, leaves meter, line and reply       *)
(* typed.                                                                  *)
LEMMA SendTyped ==
  ASSUME NEW q \in Requests, WellAimed(q), NEW m \in Meters,
         line \in Seq(Answers), budget \in Nat,
         reply \in [ret: Codes, answer: Answers],
         sendData(q, m)
  PROVE  /\ meter' \in Meters /\ line' \in Seq(Answers) /\ budget' \in Nat
         /\ phase' \in Phases
         /\ reply' \in [ret: Codes, answer: Answers]
<1>1. CASE /\ \E n \in Hears(q, m) : meter' = n /\ line' = line \o n.last
           /\ phase' = "wait" /\ UNCHANGED <<reply, budget>>
  BY <1>1, HearsType, LastType, PhaseType
<1>2. CASE /\ Disturb /\ meter' \in Hears(q, m)
           /\ phase' = "wait" /\ UNCHANGED <<reply, line>>
  BY <1>2, HearsType, DisturbType, PhaseType
<1>3. CASE Disturb /\ meter' = m /\ phase' = "wait" /\ UNCHANGED <<reply, line>>
  BY <1>3, DisturbType, PhaseType
<1>4. CASE /\ Disturb /\ meter' = m
           /\ Returned("COMMUNICATION_ERROR", NoAnswer) /\ UNCHANGED line
  BY <1>4, DisturbType, NoAnswerType, ReturnedType, PhaseType DEF Codes
<1> QED BY <1>1, <1>2, <1>3, <1>4 DEF sendData

(* What is left of a line is a line.                                       *)
LEMMA SuffixType ==
  ASSUME NEW S, NEW l \in Seq(S), NEW t \in Suffixes(l) PROVE t \in Seq(S)
<1>1. \A i \in 1..Len(l) : l[i] \in S /\ Len(l) \in Int
  BY ElementOfSeq, LenProperties
<1>2. ASSUME NEW n \in 1..Len(l) PROVE SubSeq(l, n, Len(l)) \in Seq(S)
  BY <1>1, LenProperties, SubSeqProperties
<1> QED BY <1>2, EmptySeq DEF Suffixes

(* The invariant types the line.                                           *)
LEMMA InvLineTyped == IInv => LineTyped
BY DEF IInv, TypeOK, LineTyped

(* An action of the line leaves the rest of the program alone.             *)
LEMMA LineStep ==
  ASSUME IInv, LineTyped', settings' \in Settings,
         IdentityOf(settings') = IdentityOf(settings),
         UNCHANGED <<args, stage, saved, ret, parse_stage, todo, out>>
  PROVE  IInv'
<1>1. TypeOK'
  BY DEF IInv, TypeOK, LineTyped
<1>2. WellAimed(tx)'
  BY DEF LineTyped
<1>3. TodoFits'
  BY DEF IInv, TodoFits
<1>4. IdentityKept'
  BY DEF IInv, IdentityKept, ConfiguredIdentity, IdentityOf
<1> QED BY <1>1, <1>2, <1>3, <1>4 DEF IInv

(* Every step of the exchange keeps the invariant.                         *)
LEMMA ExchangeIInv == ASSUME IInv, Exchange PROVE IInv'
<1> USE InvLineTyped
<1>1. settings \in Settings
  BY DEF IInv, TypeOK
<1>2. CASE Waiting /\ LineTyped'
  BY <1>1, <1>2, LineStep DEF Waiting, connectionVars
<1>3. CASE Resend
  BY <1>2, <1>3, SendTyped DEF Resend, LineTyped, Waiting
<1>4. CASE ResendLate
  <2>1. meter' \in Meters /\ line' \in Seq(Answers)
    BY <1>4, HearsType, LastType DEF ResendLate, LineTyped
  <2> QED BY <2>1, <1>2, <1>4, DisturbType DEF ResendLate, LineTyped, Waiting
<1>5. CASE GiveUp
  <2>1. budget' \in Nat
    BY <1>5 DEF GiveUp, Silence, SilenceTaken, LineTyped
  <2>2. phase' \in Phases /\ reply' \in [ret: Codes, answer: Answers]
    BY <1>5, NoAnswerType, ReturnedType DEF GiveUp, Codes
  <2> QED BY <2>1, <2>2, <1>2, <1>5 DEF GiveUp, LineTyped
<1>6. CASE Receive
  <2>1. line # <<>> /\ line' \in Suffixes(Tail(line)) /\ line \in Seq(Answers)
    BY <1>6 DEF Receive, LineTyped
  <2>2. Head(line) \in Answers /\ line' \in Seq(Answers)
    BY <2>1, HeadTailProperties, SuffixType
  <2>3. dlms_getPdu(settings, Head(line)) \in Codes
    BY <2>2, PduCode
  <2>4. /\ phase' \in Phases
        /\ reply' \in [ret: Codes, answer: Answers]
    BY <1>6, <2>2, <2>3, ReturnedType, PhaseType DEF Receive, LineTyped
  <2> QED BY <2>2, <2>4, <1>2, <1>6 DEF Receive, LineTyped
<1>7. CASE Corrupt
  <2>1. line' \in Seq(Answers)
    BY <1>7, HeadTailProperties DEF Corrupt, LineTyped
  <2>2. phase' \in Phases /\ reply' \in [ret: Codes, answer: Answers]
    BY <1>7, NoAnswerType, ReturnedType DEF Corrupt, Codes
  <2> QED BY <2>1, <2>2, <1>2, <1>7, DisturbType DEF Corrupt, LineTyped
<1>8. CASE ReadFails
  <2>1. phase' \in Phases /\ reply' \in [ret: Codes, answer: Answers]
    BY <1>8, NoAnswerType, ReturnedType DEF ReadFails, Codes
  <2> QED BY <2>1, <1>2, <1>8, DisturbType DEF ReadFails, LineTyped
<1>9. CASE HangUp
  BY <1>9, <1>2, DisturbType, PhaseType DEF HangUp, LineTyped
<1>10. CASE Poll \/ Spin
  BY <1>10, <1>1, LineStep DEF Poll, Spin, vars, LineTyped
<1> QED BY <1>3, <1>4, <1>5, <1>6, <1>7, <1>8, <1>9, <1>10 DEF Exchange

(* Sending a request that keeps the identity keeps the invariant.          *)
LEMMA RequestIInv ==
  ASSUME IInv, NEW b, Builds(settings, b), Request(b)
  PROVE  IInv'
<1> USE InvLineTyped
<1>1. settings' \in Settings /\ IdentityOf(settings') = IdentityOf(settings)
  BY DEF Builds, Request
<1>2. CASE b.ret # "OK" \/ b.message = NoRequest
  <2>1. phase' \in Phases /\ reply' \in [ret: Codes, answer: Answers]
    BY <1>2, NoAnswerType, ReturnedType DEF Request, Builds
  <2>2. LineTyped'
    BY <1>2, <2>1 DEF Request, lineVars, LineTyped
  <2> QED BY <1>1, <2>2, LineStep DEF Request
<1>3. CASE ~ (b.ret # "OK" \/ b.message = NoRequest)
  <2> DEFINE m == [meter EXCEPT !.received = FALSE, !.last = <<>>]
  <2>1. m \in Meters
    <3>1. <<>> \in Seq(Answers)
      OBVIOUS
    <3> QED BY <3>1 DEF LineTyped, Meters
  <2>2. b.message \in Requests /\ WellAimed(b.message) /\ sendData(b.message, m)
    BY <1>3 DEF Builds, Request
  <2>3. /\ meter' \in Meters /\ line' \in Seq(Answers) /\ budget' \in Nat
        /\ phase' \in Phases
        /\ reply' \in [ret: Codes, answer: Answers]
    BY <2>1, <2>2, SendTyped DEF LineTyped
  <2>4. tx' = b.message /\ tries' = 1 /\ used' = used \cup b.message.ics
    BY <1>3 DEF Request
  <2>5. used' \in SUBSET Counters
    BY <2>2, <2>4 DEF LineTyped, Requests
  <2>6. LineTyped'
    BY <2>2, <2>3, <2>4, <2>5 DEF LineTyped
  <2> QED BY <1>1, <2>6, LineStep DEF Request
<1> QED BY <1>2, <1>3
-----------------------------------------------------------------------------
(* The program's own steps.                                                *)

(* A parsed reply, or the error of the exchange, is a digest.              *)
LEMMA ParsedDigests ==
  ASSUME NEW P(_, _), IInv, \A a \in Answers : Digests(settings, P(settings, a))
  PROVE  Digests(settings, Parsed(P))
<1>1. reply.ret \in Codes /\ reply.answer \in Answers /\ settings \in Settings
  BY DEF IInv, TypeOK
<1> QED BY <1>1 DEF Parsed, Digests, Digest

(* A parsed AARE, or the error of the exchange, names an identity.         *)
LEMMA ParsedNames ==
  ASSUME IInv PROVE Names(settings, Parsed(cl_parseAAREResponse))
<1>1. reply.ret \in Codes /\ reply.answer \in Answers /\ settings \in Settings
  BY DEF IInv, TypeOK
<1>2. Names(settings, cl_parseAAREResponse(settings, reply.answer))
  BY <1>1, AareNames
<1>3. Names(settings, Digest(reply.ret, settings))
  BY <1>1 DEF Names, Named, Digest
<1> QED BY <1>2, <1>3 DEF Parsed

(* Everything a step that is not an exchange may change, well typed.       *)
StepTyped ==
  /\ stage \in Stages /\ phase \in Phases
  /\ settings \in Settings /\ saved = Identity(args) /\ ret \in Codes
  /\ IdentityKept

(* Such a step leaves command line and line alone.                         *)
LEMMA QuietStep ==
  ASSUME IInv, StepTyped', args' = args,
         line' \in Seq(Answers), UNCHANGED <<tx, meter, tries, used, budget, reply>>,
         parse_stage' \in 0..2, out' \in SUBSET (Objects \X Value),
         TodoFits'
  PROVE  IInv'
<1>1. todo' \in Seq(Items)
  <2>1. (IF args.item \in Reads THEN Reads ELSE Commands) \subseteq Items
    BY DEF Reads, Commands, Items
  <2> HIDE DEF Reads, Commands, Items
  <2> QED BY <2>1, SeqMonotonic DEF TodoFits
<1>2. saved' \in Identities
  BY IdentityType DEF IInv, TypeOK, StepTyped
<1>3. TypeOK'
  BY <1>1, <1>2 DEF IInv, TypeOK, StepTyped
<1> QED BY <1>3 DEF IInv, StepTyped

(* After an answer: the parsed settings, and the next stage or com_close.  *)
LEMMA ProceedKept ==
  ASSUME IInv, NEW s, Back(s), NEW d, d.ret \in Codes, d.settings \in Settings,
         NEW next \in Stages, Proceed(d, next), s \notin {"release", "disc", "exit"},
         IdentityKept'
  PROVE  IInv'
<1>1. /\ UNCHANGED <<tx, line, meter, tries, used, budget, reply, args, out, saved,
                     parse_stage, todo>>
      /\ settings' = d.settings /\ stage = s
  BY DEF Back, Proceed, lineVars
<1>2. (stage' = next /\ ret' = ret) \/ (stage' = "release" /\ ret' = d.ret)
  BY DEF Proceed, Goto, Quit
<1>3. phase' \in Phases
  BY PhaseType DEF Proceed, Goto, Quit
<1>4. StepTyped'
  BY <1>1, <1>2, <1>3 DEF IInv, TypeOK, Stages, StepTyped, IdentityKept
<1>5. TodoFits'
  BY <1>1 DEF IInv, TodoFits
<1>6. /\ line' \in Seq(Answers) /\ parse_stage' \in 0..2
      /\ out' \in SUBSET (Objects \X Value)
  BY <1>1 DEF IInv, TypeOK
<1> QED BY <1>1, <1>4, <1>5, <1>6, QuietStep

(* An answer that keeps the identity.                                      *)
LEMMA ProceedIInv ==
  ASSUME IInv, NEW s, Back(s), NEW d, Digests(settings, d), NEW next \in Stages,
         Proceed(d, next), s \notin {"release", "disc", "exit"},
         \/ s = "snrm"
         \/ s = "auth" /\ next = "item"
         \/ next \in {"icRead", "icDisc"}
  PROVE  IInv'
<1>1. /\ UNCHANGED <<args, saved>> /\ settings' = d.settings /\ stage = s
      /\ stage' \in {next, "release"}
  BY DEF Back, Proceed, Goto, Quit
<1>2. IdentityOf(settings') = IdentityOf(settings)
  BY <1>1 DEF Digests
<1>3. /\ settings'.clientAddress = settings.clientAddress
      /\ settings'.authentication = settings.authentication
      /\ settings'.security = settings.security
  BY <1>2 DEF IdentityOf
<1>4. CASE s = "snrm"
  <2>1. IdentityOf(settings) = Identity(args) /\ saved = Identity(args)
    BY <1>1, <1>4 DEF IInv, IdentityKept, ConfiguredIdentity
  <2> QED BY <1>1, <1>2, <1>3, <2>1, ProceedKept
          DEF IdentityKept, ConfiguredIdentity, IdentityOf, Digests
<1>5. CASE s = "auth" /\ next = "item"
  <2>1. IdentityKept'
    BY <1>1, <1>3, <1>5 DEF IInv, IdentityKept, ConfiguredIdentity
  <2> QED BY <2>1, ProceedKept DEF Digests
<1>6. CASE next \in {"icRead", "icDisc"}
  <2>1. IdentityKept'
    BY <1>1, <1>6 DEF IInv, IdentityKept, ConfiguredIdentity
  <2> QED BY <2>1, ProceedKept DEF Digests
<1> QED BY <1>4, <1>5, <1>6

(* Reading the invocation counter into the settings keeps the identity.    *)
LEMMA ReadCounterDigests ==
  ASSUME NEW s \in Settings, NEW a \in Answers
  PROVE  Digests(s, ReadCounter(s, a))
<1>1. 1 + dlms_handleGetResponse(a).number \in Nat
  BY ValueType DEF Value
<1>2. (1 + dlms_handleGetResponse(a).number) % IcMod \in Counters
  BY <1>1, CounterType
<1> QED BY <1>2 DEF ReadCounter, Digests, Digest, Codes, Settings, IdentityOf

(* A step that moves on, with settings of the right identity.              *)
LEMMA MoveIInv ==
  ASSUME IInv, NEW s \in Stages, Goto(s), settings' \in Settings, IdentityKept',
         ret' \in Codes, line' \in Seq(Answers), args' = args,
         UNCHANGED <<tx, meter, tries, used, budget, reply, parse_stage, todo, out>>,
         stage \in {"release", "disc", "exit"} => s \in {"release", "disc", "exit"}
  PROVE  IInv'
<1>1. StepTyped'
  BY PhaseType DEF StepTyped, IdentityKept, Goto
<1>2. TodoFits'
  BY DEF IInv, TodoFits, Goto
<1>3. parse_stage' \in 0..2 /\ out' \in SUBSET (Objects \X Value)
  BY DEF IInv, TypeOK
<1> QED BY <1>1, <1>2, <1>3, QuietStep

(* com_initializeOpticalHead leaves the line typed and either goes on or   *)
(* closes.                                                                 *)
LEMMA HeadIInv ==
  ASSUME IInv, NEW s \in Stages, com_initializeOpticalHead(s)
  PROVE  /\ line' \in Seq(Answers) /\ ret' \in Codes
         /\ Goto(s) \/ Goto("release")
BY SuffixType DEF com_initializeOpticalHead, Goto, Quit, IInv, TypeOK, Codes

(* Every step of com_updateInvocationCounter keeps the invariant.          *)
LEMMA UpdatingIInv == ASSUME IInv, Updating PROVE IInv'
<1>1. /\ settings \in Settings /\ stage \in Stages /\ reply.answer \in Answers
      /\ ret \in Codes /\ line \in Seq(Answers) /\ args \in CommandLines
  BY DEF IInv, TypeOK
<1>2. CASE IcHead
  <2>1. PublicClient \in Identities
    BY DEF PublicClient, Identities, Addresses, Levels, Protections
  <2>2. settings' \in Settings
    BY <1>1, <1>2, <2>1, AssumeType DEF IcHead
  <2>3. stage = "icHead" /\ com_initializeOpticalHead("icSnrm")
    BY <1>2 DEF IcHead, At
  <2>4. /\ line' \in Seq(Answers) /\ ret' \in Codes
        /\ Goto("icSnrm") \/ Goto("release")
    BY <2>3, HeadIInv DEF Stages
  <2>5. IdentityKept'
    BY <1>2, <2>3, <2>4 DEF IcHead, IInv, IdentityKept, ConfiguredIdentity, Goto
  <2> QED BY <1>2, <2>2, <2>3, <2>4, <2>5, MoveIInv DEF IcHead, Stages
<1>3. CASE IcSnrm \/ IcAarq \/ IcRead \/ IcDisc
  BY <1>1, <1>3, SnrmBuilds, AarqBuilds, ReadBuilds, DisconnectBuilds, RequestIInv
     DEF IcSnrm, IcAarq, IcRead, IcDisc
<1>4. CASE IcSnrmBack
  <2>1. Digests(settings, Parsed(cl_parseUAResponse))
    BY <1>1, UaDigests DEF Parsed, Digests, Digest, IInv, TypeOK
  <2>2. IdentityKept'
    BY <1>4 DEF IcSnrmBack, Back, Goto, IInv, IdentityKept, ConfiguredIdentity
  <2> QED BY <1>1, <1>4, <2>1, <2>2, MoveIInv
          DEF IcSnrmBack, Back, lineVars, Digests, Stages
<1>5. CASE IcAarqBack
  <2>1. PICK d : d = Parsed(cl_parseAAREResponse)
    OBVIOUS
  <2>2. Names(settings, d)
    BY <2>1, ParsedNames
  <2>3. Back("icAarq") /\ Proceed(d, "icRead")
    BY <1>5, <2>1 DEF IcAarqBack
  <2>4. IdentityKept'
    BY <2>3 DEF Back, Proceed, Goto, Quit, IInv, IdentityKept, ConfiguredIdentity
  <2> QED BY <2>2, <2>3, <2>4, ProceedKept DEF Names, Stages
<1>6. CASE IcReadBack
  <2>1. Digests(settings, Parsed(ReadCounter))
    BY <1>1, ReadCounterDigests DEF Parsed, Digests, Digest, IInv, TypeOK
  <2> QED BY <1>6, <2>1, ProceedIInv DEF IcReadBack, Stages
<1>7. CASE IcDiscBack
  <2>1. saved = Identity(args) /\ saved \in Identities
    BY DEF IInv, TypeOK, IdentityKept
  <2>2. settings' \in Settings /\ IdentityOf(settings') = Identity(args)
    BY <1>1, <1>7, <2>1, AssumeType DEF IcDiscBack, RestoreIdentity
  <2>3. IdentityKept'
    BY <1>7, <2>1, <2>2 DEF IcDiscBack, Back, Goto, IdentityKept, ConfiguredIdentity
  <2> QED BY <1>1, <1>7, <2>2, <2>3, MoveIInv DEF IcDiscBack, Back, lineVars, Stages
<1> QED BY <1>2, <1>3, <1>4, <1>5, <1>6, <1>7 DEF Updating

(* Every step of com_initializeConnection keeps the invariant.             *)
LEMMA ConnectingIInv == ASSUME IInv, Connecting PROVE IInv'
<1>1. settings \in Settings /\ line \in Seq(Answers)
  BY DEF IInv, TypeOK
<1>2. CASE OpticalHead
  <2>1. stage = "head" /\ com_initializeOpticalHead("snrm")
    BY <1>2 DEF OpticalHead, At
  <2>2. /\ line' \in Seq(Answers) /\ ret' \in Codes
        /\ Goto("snrm") \/ Goto("release")
    BY <2>1, HeadIInv DEF Stages
  <2>3. IdentityKept'
    BY <1>2, <2>1, <2>2
       DEF OpticalHead, connectionVars, IInv, IdentityKept, ConfiguredIdentity, Goto
  <2> QED BY <1>1, <1>2, <2>1, <2>2, <2>3, MoveIInv DEF OpticalHead, connectionVars, Stages
<1>3. CASE Snrm \/ Aarq \/ Auth
  BY <1>1, <1>3, SnrmBuilds, AarqBuilds, AuthBuilds, RequestIInv DEF Snrm, Aarq, Auth
<1>4. CASE SnrmBack
  <2>1. Digests(settings, Parsed(cl_parseUAResponse))
    BY <1>1, UaDigests DEF Parsed, Digests, Digest, IInv, TypeOK
  <2> QED BY <1>4, <2>1, ProceedIInv DEF SnrmBack, Stages
<1>5. CASE AarqBack
  <2>1. PICK d : d = Parsed(cl_parseAAREResponse)
    OBVIOUS
  <2>2. Names(settings, d)
    BY <2>1, ParsedNames
  <2>3. PICK next \in {"auth", "item"} : Back("aarq") /\ Proceed(d, next)
    BY <1>5, <2>1 DEF AarqBack
  <2>4. IdentityOf(settings) = Identity(args) /\ saved = Identity(args)
    BY <2>3 DEF Back, IInv, IdentityKept, ConfiguredIdentity
  <2>5. /\ settings' = d.settings /\ UNCHANGED <<args, saved>>
        /\ stage' \in {"auth", "item", "release"}
    BY <2>3 DEF Back, Proceed, Goto, Quit
  <2>6. Named(Identity(args), settings')
    BY <2>2, <2>4, <2>5 DEF Names, Named, IdentityOf
  <2>7. IdentityKept'
    BY <2>4, <2>5, <2>6 DEF IdentityKept, ConfiguredIdentity, Named
  <2> QED BY <2>2, <2>3, <2>7, ProceedKept DEF Names, Stages
<1>6. CASE AuthBack
  <2>1. Digests(settings, Parsed(cl_parseApplicationAssociationResponse))
    BY <1>1, AuthDigests DEF Parsed, Digests, Digest, IInv, TypeOK
  <2> QED BY <1>6, <2>1, ProceedIInv DEF AuthBack, Stages
<1> QED BY <1>2, <1>3, <1>4, <1>5, <1>6 DEF Connecting

(* The loop over the objects ends with the last of them.                   *)
LEMMA NextObjectIInv ==
  ASSUME IInv, stage = "item", NEW code \in Codes, NextObject(code),
         UNCHANGED <<args, settings, saved, lineVars, reply>>,
         parse_stage' \in 0..2, out' \in SUBSET (Objects \X Value)
  PROVE  IInv'
<1> DEFINE S == IF args.item \in Reads THEN Reads ELSE Commands
<1>1. todo \in Seq(S) /\ todo # <<>>
  BY DEF IInv, TodoFits
<1>2. todo' \in Seq(S) /\ (Len(todo) # 1 => todo' # <<>>)
  <2> HIDE DEF S
  <2>1. todo' \in Seq(S) /\ Len(todo') = Len(todo) - 1 /\ Len(todo) \in Nat
    BY <1>1, HeadTailProperties, LenProperties DEF NextObject
  <2> QED BY <2>1, EmptySeq
<1>3. TodoFits'
  BY <1>2 DEF NextObject, TodoFits
<1>4. StepTyped'
  BY PhaseType
     DEF IInv, TypeOK, NextObject, StepTyped, IdentityKept, ConfiguredIdentity, Stages
<1>5. line' \in Seq(Answers) /\ UNCHANGED <<tx, meter, tries, used, budget>>
  BY DEF IInv, TypeOK, lineVars
<1> QED BY <1>3, <1>4, <1>5, QuietStep

(* Every read and relay command keeps the invariant.                       *)
LEMMA HandlingIInv == ASSUME IInv, Handling PROVE IInv'
<1>1. /\ settings \in Settings /\ reply.answer \in Answers /\ reply.ret \in Codes
      /\ parse_stage \in 0..2 /\ out \in SUBSET (Objects \X Value)
  BY DEF IInv, TypeOK
<1>2. stage = "item" => IF Reading THEN Head(todo) \in Reads ELSE Head(todo) \in Commands
  BY HeadTailProperties DEF IInv, TodoFits, Reading, Reads
<1>3. CASE Read
  BY <1>1, <1>2, <1>3, ReadBuilds, RequestIInv DEF Read, At, Reads
<1>4. CASE ReadBack
  <2>1. ReadValue \in Value
    BY <1>1, ValueType DEF ReadValue, NoValue, Value, Objects
  <2>2. parse_rx => parse_stage' \in 0..2 /\ out' \in SUBSET (Objects \X Value)
    <3>1. /\ out \cup {<<"meter_sn", ReadValue>>} \in SUBSET (Objects \X Value)
          /\ out \cup {<<"energy", ReadValue>>} \in SUBSET (Objects \X Value)
          /\ out \cup {<<"relay", ReadValue>>} \in SUBSET (Objects \X Value)
      BY <1>1, <2>1 DEF Objects
    <3> QED BY <1>1, <3>1 DEF parse_rx
  <2>3. parse_stage' \in 0..2 /\ out' \in SUBSET (Objects \X Value)
    BY <1>1, <1>4, <2>2 DEF ReadBack
  <2>4. PICK code \in Codes : NextObject(code)
    BY <1>1, <1>4 DEF ReadBack, Codes
  <2> QED BY <1>4, <2>3, <2>4, NextObjectIInv DEF ReadBack
<1>5. CASE Command
  BY <1>1, <1>2, <1>5, ActionBuilds, RequestIInv DEF Command, At, Commands
<1>6. CASE CommandBack
  BY <1>1, <1>6, NextObjectIInv DEF CommandBack, Back, connectionVars
<1> QED BY <1>3, <1>4, <1>5, <1>6 DEF Handling

(* Every step of com_close keeps the invariant.                            *)
LEMMA ClosingIInv == ASSUME IInv, Closing PROVE IInv'
<1>1. settings \in Settings /\ line \in Seq(Answers) /\ ret \in Codes
  BY DEF IInv, TypeOK
<1>2. CASE Release \/ Disc
  BY <1>1, <1>2, ReleaseBuilds, DisconnectBuilds, RequestIInv DEF Release, Disc
<1>3. CASE ReleaseBack
  <2>1. IdentityKept'
    BY <1>3 DEF ReleaseBack, Back, Goto, connectionVars, IInv, IdentityKept,
                ConfiguredIdentity
  <2> QED BY <1>1, <1>3, <2>1, MoveIInv
          DEF ReleaseBack, Back, lineVars, connectionVars, Stages
<1>4. CASE DiscBack
  <2>1. settings' \in Settings
    <3>1. 1 \in Counters /\ 1 \in InvokeIds /\ "NONE" \in Protections /\ DefaultPdu \in Nat
      BY IcModAssumption DEF Counters, InvokeIds, Protections, DefaultPdu
    <3>2. cl_clear(settings) \in Settings
      BY <1>1, <3>1 DEF cl_clear, Settings
    <3> QED BY <1>4, <3>2 DEF DiscBack
  <2>2. IdentityKept'
    BY <1>4 DEF DiscBack, Back, Goto, IInv, IdentityKept, ConfiguredIdentity
  <2> QED BY <1>1, <1>4, <2>1, <2>2, MoveIInv DEF DiscBack, Back, lineVars, Stages
<1>5. CASE Exited
  BY <1>1, <1>5, InvLineTyped, LineStep DEF Exited, vars, LineTyped
<1> QED BY <1>2, <1>3, <1>4, <1>5 DEF Closing

(* com_open keeps the invariant.                                           *)
LEMMA OpenIInv == ASSUME IInv, com_open PROVE IInv'
<1>1. /\ settings' \in Settings /\ line' \in Seq(Answers) /\ ret' \in Codes
      /\ \E s \in {"icHead", "head", "exit"} : Goto(s)
  BY DEF com_open, connectionVars, lineVars, IInv, TypeOK, Codes
<1>2. IdentityKept'
  BY <1>1 DEF com_open, At, connectionVars, Goto, IInv, IdentityKept, ConfiguredIdentity
<1> QED BY <1>1, <1>2, MoveIInv DEF com_open, At, connectionVars, lineVars, Stages

(* A restart of the meter keeps the invariant.                             *)
LEMMA RestartIInv == ASSUME IInv, MeterRestarts PROVE IInv'
<1>1. settings \in Settings
  BY DEF IInv, TypeOK
<1>2. LineTyped'
  BY InvLineTyped, RepeatsType, DisturbType DEF MeterRestarts, LineTyped
<1> QED BY <1>1, <1>2, LineStep DEF MeterRestarts, connectionVars

(* Every step of the program, the meter or the line keeps the invariant.   *)
LEMMA NextIInv == IInv /\ [Next]_vars => IInv'
<1> SUFFICES ASSUME IInv, [Next]_vars PROVE IInv'
  OBVIOUS
<1>1. CASE com_open
  BY <1>1, OpenIInv
<1>2. CASE Updating
  BY <1>2, UpdatingIInv
<1>3. CASE Connecting
  BY <1>3, ConnectingIInv
<1>4. CASE Handling
  BY <1>4, HandlingIInv
<1>5. CASE Closing
  BY <1>5, ClosingIInv
<1>6. CASE Exchange
  BY <1>6, ExchangeIInv
<1>7. CASE MeterRestarts
  BY <1>7, RestartIInv
<1>8. CASE UNCHANGED vars
  <2>1. settings \in Settings
    BY DEF IInv, TypeOK
  <2> QED BY <1>8, <2>1, InvLineTyped, LineStep DEF vars, LineTyped
<1> QED BY <1>1, <1>2, <1>3, <1>4, <1>5, <1>6, <1>7, <1>8 DEF Next, Client_

(* Every variable keeps its type.                                          *)
THEOREM TypeCorrect == Spec => []TypeOK
<1>1. IInv => TypeOK
  BY DEF IInv
<1> QED BY <1>1, InitIInv, NextIInv, PTL DEF Spec

(* Whatever happens on the line while the invocation counter is read with  *)
(* the public client's identity, the connection and the objects are        *)
(* handled with the configured one, or not at all.                         *)
THEOREM IdentityConfigured == Spec => []ConfiguredIdentity
<1>1. IInv => ConfiguredIdentity
  BY DEF IInv, IdentityKept
<1> QED BY <1>1, InitIInv, NextIInv, PTL DEF Spec
-----------------------------------------------------------------------------
(* What a step may do to the settings and the last request: the action     *)
(* properties of Session.                                                  *)

(* Nothing these properties look at changes.                               *)
Still ==
  /\ UNCHANGED <<stage, settings, tx, used, todo>>
  /\ (phase' = "call") = (phase = "call")

(* A request is sent, or found to be unnecessary or impossible.            *)
Asks(b) ==
  /\ phase = "call" /\ phase' # "call"
  /\ settings' = b.settings /\ UNCHANGED <<stage, todo>>
  /\ \/ UNCHANGED <<tx, used>>
     \/ b.message # NoRequest /\ tx' = b.message /\ used' = used \cup b.message.ics

(* com_readDataBlock leaves the call behind.                               *)
LEMMA RequestAsks == ASSUME NEW b, Request(b) PROVE Asks(b)
BY DEF Request, Asks, sendData, Returned, lineVars

(* The line never touches what only the program's own steps change.        *)
LEMMA NextCases ==
  ASSUME [Next]_vars
  PROVE  Still \/ com_open \/ Updating \/ Connecting \/ Handling \/ Closing
<1>1. CASE Exchange
  BY <1>1 DEF Exchange, Resend, ResendLate, GiveUp, Receive, Corrupt, ReadFails,
              HangUp, Poll, Spin, Waiting, sendData, Returned, connectionVars, vars, Still
<1>2. CASE MeterRestarts
  BY <1>2 DEF MeterRestarts, connectionVars, Still
<1>3. CASE UNCHANGED vars
  BY <1>3 DEF vars, Still
<1> QED BY <1>1, <1>2, <1>3 DEF Next, Client_

(* What the answers make of the settings.                                  *)
LEMMA ParsedMoves ==
  ASSUME IInv
  PROVE  /\ LET t == Parsed(cl_parseUAResponse).settings IN
              /\ t.invocationCounter = settings.invocationCounter /\ SamePdu(settings, t)
              /\ IdentityOf(t) = IdentityOf(settings)
         /\ LET t == Parsed(cl_parseAAREResponse).settings IN
              /\ t.invocationCounter = settings.invocationCounter
              /\ t.initializePduSize = settings.initializePduSize
              /\ Named(settings, t)
         /\ LET t == Parsed(ReadCounter).settings IN
              SamePdu(settings, t) /\ IdentityOf(t) = IdentityOf(settings)
         /\ LET t == Parsed(cl_parseApplicationAssociationResponse).settings IN
              /\ Moves(settings, t, 1) /\ SamePdu(settings, t)
              /\ IdentityOf(t) = IdentityOf(settings)
<1>1. settings \in Settings /\ reply.answer \in Answers
  BY DEF IInv, TypeOK
<1>2. LET t == Parsed(cl_parseUAResponse).settings IN
        /\ t.invocationCounter = settings.invocationCounter /\ SamePdu(settings, t)
        /\ IdentityOf(t) = IdentityOf(settings)
  BY <1>1, UaMoves, UaDigests DEF Parsed, Digest, Digests, SamePdu
<1>3. LET t == Parsed(cl_parseAAREResponse).settings IN
        /\ t.invocationCounter = settings.invocationCounter
        /\ t.initializePduSize = settings.initializePduSize
        /\ Named(settings, t)
  <2>1. Named(settings, Parsed(cl_parseAAREResponse).settings)
    BY ParsedNames DEF Names
  <2> QED BY <1>1, <2>1, AareNames DEF Parsed, Digest
<1>4. LET t == Parsed(ReadCounter).settings IN
        SamePdu(settings, t) /\ IdentityOf(t) = IdentityOf(settings)
  <2>1. SamePdu(settings, ReadCounter(settings, reply.answer).settings)
    BY <1>1 DEF ReadCounter, Digest, SamePdu, Settings
  <2> QED BY <1>1, <2>1, ReadCounterDigests DEF Parsed, Digest, Digests, SamePdu
<1>5. LET t == Parsed(cl_parseApplicationAssociationResponse).settings IN
        /\ Moves(settings, t, 1) /\ SamePdu(settings, t)
        /\ IdentityOf(t) = IdentityOf(settings)
  <2>1. Moves(settings, settings, 1) /\ SamePdu(settings, settings)
    <3>1. \A x \in Counters : Ago(x, settings.invocationCounter) \in Nat
      BY <1>1, AgoNext DEF Settings
    <3> QED BY <3>1 DEF Moves, SamePdu
  <2> QED BY <1>1, <2>1, AuthMoves, AuthDigests DEF Parsed, Digest, Digests
<1> QED BY <1>2, <1>3, <1>4, <1>5
-----------------------------------------------------------------------------
(* The PDU size that is proposed.                                          *)

(* The size to go back to is the default one at all times, and until the   *)
(* AARE is parsed and after the disconnect it is in force.                 *)
PduKept ==
  /\ settings.initializePduSize = DefaultPdu
  /\ \/ stage \in {"open", "icHead", "icSnrm", "head", "snrm"}
     \/ stage \in {"icAarq", "aarq"} /\ phase = "call"
     \/ stage = "icDisc" /\ phase # "call"
     => settings.maxPduSize = DefaultPdu

(* cl_init sets both sizes.                                                *)
LEMMA InitPdu == Init => PduKept
BY DEF Init, PduKept, connectMeter, Assume, cl_init, Identity

(* Every step keeps the sizes so.                                          *)
LEMMA NextPdu == IInv /\ PduKept /\ [Next]_vars => PduKept'
<1> SUFFICES ASSUME IInv, PduKept, [Next]_vars PROVE PduKept'
  OBVIOUS
<1>1. settings \in Settings
  BY DEF IInv, TypeOK
<1>2. CASE Still
  BY <1>2 DEF Still, PduKept
<1>3. CASE com_open
  BY <1>3 DEF com_open, At, Goto, connectionVars, PduKept
<1>4. CASE IcHead \/ OpticalHead
  <2>1. SamePdu(settings, settings') /\ stage' \in {"icSnrm", "snrm", "release"}
    BY <1>1, <1>4 DEF IcHead, OpticalHead, com_initializeOpticalHead, Goto, Quit,
                      connectionVars, Assume, SamePdu, Settings
  <2>2. settings.maxPduSize = DefaultPdu
    BY <1>4 DEF IcHead, OpticalHead, At, PduKept
  <2> QED BY <2>1, <2>2 DEF SamePdu, PduKept
<1>5. CASE IcSnrm \/ Snrm
  <2>1. Asks(cl_snrmRequest(settings)) /\ stage \in {"icSnrm", "snrm"}
    BY <1>5, RequestAsks DEF IcSnrm, Snrm, At
  <2> QED BY <1>1, <2>1, SnrmTakes DEF Asks, SamePdu, PduKept
<1>6. CASE IcAarq \/ Aarq
  <2>1. Asks(cl_aarqRequest(settings)) /\ stage \in {"icAarq", "aarq"}
    BY <1>6, RequestAsks DEF IcAarq, Aarq, At
  <2> QED BY <1>1, <2>1, AarqTakes DEF Asks, PduKept
<1>7. CASE IcRead \/ Read \/ Command
  <2>1. PICK cmd, target : Asks(dlms_getLNPdu(settings, cmd, target))
    BY <1>7, RequestAsks DEF IcRead, Read, Command, cl_readLN, cl_methodLN
  <2>2. stage \in {"icRead", "item"}
    BY <1>7 DEF IcRead, Read, Command, At
  <2> QED BY <1>1, <2>1, <2>2, ServiceTakes DEF Asks, SamePdu, PduKept
<1>8. CASE Auth
  BY <1>1, <1>8, RequestAsks, AuthTakes DEF Auth, At, Asks, SamePdu, PduKept
<1>9. CASE Release
  BY <1>1, <1>9, RequestAsks, ReleaseTakes DEF Release, At, Asks, PduKept
<1>10. CASE IcDisc \/ Disc
  BY <1>1, <1>10, RequestAsks, DisconnectTakes DEF IcDisc, Disc, At, Asks, PduKept
<1>11. CASE IcSnrmBack \/ SnrmBack
  <2>1. SamePdu(settings, settings')
    BY <1>11, ParsedMoves DEF IcSnrmBack, SnrmBack, Proceed
  <2>2. stage \in {"icSnrm", "snrm"} /\ phase' = "call"
    BY <1>11 DEF IcSnrmBack, SnrmBack, Back, Proceed, Goto, Quit
  <2> QED BY <2>1, <2>2 DEF SamePdu, PduKept
<1>12. CASE IcAarqBack \/ AarqBack
  <2>1. /\ settings'.initializePduSize = settings.initializePduSize
        /\ stage' \in {"icRead", "auth", "item", "release"}
    BY <1>12, ParsedMoves DEF IcAarqBack, AarqBack, Proceed, Goto, Quit
  <2> QED BY <2>1 DEF PduKept
<1>13. CASE IcReadBack \/ AuthBack
  <2>1. SamePdu(settings, settings')
    BY <1>13, ParsedMoves DEF IcReadBack, AuthBack, Proceed
  <2>2. stage' \in {"icDisc", "item", "release"} /\ phase' = "call"
    BY <1>13 DEF IcReadBack, AuthBack, Proceed, Goto, Quit
  <2> QED BY <2>1, <2>2 DEF SamePdu, PduKept
<1>14. CASE IcDiscBack
  <2>1. SamePdu(settings, settings') /\ stage = "icDisc" /\ phase # "call"
    BY <1>1, <1>14 DEF IcDiscBack, Back, RestoreIdentity, Assume, SamePdu, Settings
  <2> QED BY <2>1 DEF SamePdu, PduKept
<1>15. CASE ReadBack \/ CommandBack
  <2>1. settings' = settings /\ stage' \in {"item", "release"}
    BY <1>15 DEF ReadBack, CommandBack, NextObject, connectionVars
  <2> QED BY <2>1 DEF PduKept
<1>16. CASE ReleaseBack
  BY <1>16 DEF ReleaseBack, Goto, connectionVars, PduKept
<1>17. CASE DiscBack
  BY <1>1, <1>17 DEF DiscBack, cl_clear, Goto, PduKept, Settings
<1>18. CASE Exited
  BY <1>18 DEF Exited, vars, PduKept
<1> QED BY <1>2, <1>3, <1>4, <1>5, <1>6, <1>7, <1>8, <1>9, <1>10, <1>11, <1>12, <1>13,
           <1>14, <1>15, <1>16, <1>17, <1>18, NextCases
        DEF Updating, Connecting, Handling, Closing

(* Which request a step sends: built for its stage from the settings.      *)
LEMMA Sends ==
  ASSUME IInv, [Next]_vars, tx' # tx
  PROVE  /\ phase = "call" /\ tx' # NoRequest
         /\ \/ stage \in {"icSnrm", "snrm"} /\ tx' = cl_snrmRequest(settings).message
            \/ stage \in {"icAarq", "aarq"} /\ tx' = cl_aarqRequest(settings).message
            \/ /\ stage \in {"icRead", "item"}
               /\ \E cmd \in {"GET", "ACTION"} : \E target :
                    tx' = dlms_getLNPdu(settings, cmd, target).message
            \/ /\ stage = "auth"
               /\ tx' = cl_getApplicationAssociationRequest(settings).message
            \/ stage = "release" /\ tx' = cl_releaseRequest2(settings).message
            \/ stage \in {"icDisc", "disc"} /\ tx' = cl_disconnectRequest(settings).message
<1>1. ~ Still /\ ~ com_open
  BY DEF Still, com_open, lineVars
<1>2. CASE Updating
  <2>1. \/ IcSnrm \/ IcAarq \/ IcRead \/ IcDisc
    BY <1>2 DEF Updating, IcHead, IcSnrmBack, IcAarqBack, IcReadBack, IcDiscBack, Back, lineVars
  <2> QED BY <2>1, RequestAsks DEF IcSnrm, IcAarq, IcRead, IcDisc, At, Asks, cl_readLN
<1>3. CASE Connecting
  <2>1. Snrm \/ Aarq \/ Auth
    BY <1>3 DEF Connecting, OpticalHead, SnrmBack, AarqBack, AuthBack, Back, lineVars
  <2> QED BY <2>1, RequestAsks DEF Snrm, Aarq, Auth, At, Asks
<1>4. CASE Handling
  <2>1. Read \/ Command
    BY <1>4 DEF Handling, ReadBack, CommandBack, Back, lineVars
  <2> QED BY <2>1, RequestAsks DEF Read, Command, At, Asks, cl_readLN, cl_methodLN
<1>5. CASE Closing
  <2>1. Release \/ Disc
    BY <1>5 DEF Closing, ReleaseBack, DiscBack, Exited, Back, lineVars, vars
  <2> QED BY <2>1, RequestAsks DEF Release, Disc, At, Asks
<1> QED BY <1>1, <1>2, <1>3, <1>4, <1>5, NextCases

(* Whatever PDU size the meter granted in the counter association, every   *)
(* AARQ proposes the default one.                                          *)
THEOREM PduSizeProposed == Spec => DefaultPduProposed
<1>1. IInv /\ PduKept /\ [Next]_vars
        => [tx' # tx /\ tx'.cmd = "AARQ" => tx'.pdu = DefaultPdu]_vars
  <2> SUFFICES ASSUME IInv, PduKept, [Next]_vars, tx' # tx, tx'.cmd = "AARQ"
               PROVE  tx'.pdu = DefaultPdu
    OBVIOUS
  <2>1. settings \in Settings
    BY DEF IInv, TypeOK
  <2>2. tx' = cl_aarqRequest(settings).message /\ stage \in {"icAarq", "aarq"}
        /\ phase = "call" /\ tx' # NoRequest
    BY <2>1, Sends, SnrmTakes, ServiceTakes, AuthTakes, ReleaseTakes, DisconnectTakes
  <2> QED BY <2>1, <2>2, AarqTakes DEF PduKept
<1> QED BY <1>1, InitIInv, NextIInv, InitPdu, NextPdu, PTL DEF Spec, DefaultPduProposed
-----------------------------------------------------------------------------
(* The address of a link.                                                  *)

(* The settings hold the address of the link that is open, but until the   *)
(* SNRM that opens the next one, and after the program is done with it.    *)
AddressKept ==
  \/ stage \in {"open", "icHead", "head", "exit"}
  \/ stage \in {"icSnrm", "snrm"} /\ phase = "call"
  \/ tx.address = settings.clientAddress

(* The last request and the settings it was built from agree, whatever the *)
(* request is.                                                             *)
LEMMA AskedAddress ==
  ASSUME NEW b, Asks(b), Addressed(settings, b.message),
         b.settings.clientAddress = settings.clientAddress,
         stage # "exit", AddressKept,
         \/ stage \notin {"open", "icHead", "head", "icSnrm", "snrm"}
         \/ tx' = b.message /\ b.message # NoRequest
  PROVE  AddressKept'
BY DEF Asks, Addressed, AddressKept

(* The optical head does not fail, so no step leaves a stage in which no   *)
(* link is open for com_close.                                             *)
LEMMA NextAddress ==
  ASSUME HeadFailures = FALSE
  PROVE  IInv /\ AddressKept /\ [Next]_vars => AddressKept'
<1> SUFFICES ASSUME IInv, AddressKept, [Next]_vars PROVE AddressKept'
  OBVIOUS
<1>1. settings \in Settings
  BY DEF IInv, TypeOK
<1> DEFINE Same(t) == t.clientAddress = settings.clientAddress
<1>2. CASE Still
  BY <1>2 DEF Still, AddressKept
<1>3. CASE com_open
  BY <1>3 DEF com_open, Goto, AddressKept
<1>4. CASE IcHead \/ OpticalHead
  <2>1. stage' \in {"icSnrm", "snrm"} /\ phase' = "call"
    BY <1>4 DEF IcHead, OpticalHead, com_initializeOpticalHead, Goto
  <2> QED BY <2>1 DEF AddressKept
<1>5. CASE IcSnrm \/ Snrm
  <2>1. /\ Request(cl_snrmRequest(settings)) /\ Same(cl_snrmRequest(settings).settings)
        /\ cl_snrmRequest(settings).ret = "OK"
        /\ cl_snrmRequest(settings).message # NoRequest
        /\ cl_snrmRequest(settings).message.address = settings.clientAddress
    BY <1>1, <1>5 DEF IcSnrm, Snrm, cl_snrmRequest, Built, NoRequest, Settings
  <2>2. settings' = cl_snrmRequest(settings).settings /\ tx' = cl_snrmRequest(settings).message
    BY <2>1 DEF Request
  <2> QED BY <2>1, <2>2 DEF AddressKept
<1>6. ASSUME NEW b, Asks(b), Builds(settings, b), Addressed(settings, b.message),
             stage \notin {"open", "icHead", "head", "icSnrm", "snrm", "exit"}
      PROVE  AddressKept'
  <2>1. Same(b.settings)
    BY <1>6 DEF Builds, IdentityOf
  <2> QED BY <1>6, <2>1, AskedAddress
<1>7. CASE IcAarq \/ Aarq
  BY <1>1, <1>6, <1>7, RequestAsks, AarqTakes, AarqBuilds DEF IcAarq, Aarq, At
<1>8. CASE IcRead \/ Read \/ Command
  <2>1. PICK cmd, target : Request(dlms_getLNPdu(settings, cmd, target))
    BY <1>8 DEF IcRead, Read, Command, cl_readLN, cl_methodLN
  <2> DEFINE b == dlms_getLNPdu(settings, cmd, target)
  <2>2. Same(b.settings) /\ stage \in {"icRead", "item"}
    BY <1>1, <1>8 DEF dlms_getLNPdu, dlms_getInvokeIDPriority, cip_encrypt, Built, Settings,
                      IcRead, Read, Command, At
  <2> HIDE DEF b
  <2>3. Asks(b) /\ Addressed(settings, b.message)
    BY <1>1, <2>1, RequestAsks, ServiceTakes DEF b
  <2> QED BY <2>2, <2>3, AskedAddress
<1>9. CASE Auth
  BY <1>1, <1>6, <1>9, RequestAsks, AuthTakes, AuthBuilds DEF Auth, At
<1>10. CASE Release
  BY <1>1, <1>6, <1>10, RequestAsks, ReleaseTakes, ReleaseBuilds DEF Release, At
<1>11. CASE IcDisc \/ Disc
  BY <1>1, <1>6, <1>11, RequestAsks, DisconnectTakes, DisconnectBuilds DEF IcDisc, Disc, At
<1>12. CASE IcSnrmBack \/ SnrmBack \/ IcAarqBack \/ AarqBack \/ IcReadBack \/ AuthBack
  <2>1. Same(settings') /\ tx' = tx /\ phase = "back"
    BY <1>12, ParsedMoves DEF IcSnrmBack, SnrmBack, IcAarqBack, AarqBack, IcReadBack,
                              AuthBack, Proceed, Back, lineVars, IdentityOf, Named
  <2>2. stage \in {"icSnrm", "snrm", "icAarq", "aarq", "icRead", "auth"}
    BY <1>12 DEF IcSnrmBack, SnrmBack, IcAarqBack, AarqBack, IcReadBack, AuthBack, Back
  <2> QED BY <2>1, <2>2 DEF AddressKept
<1>13. CASE IcDiscBack
  BY <1>13 DEF IcDiscBack, Goto, AddressKept
<1>14. CASE ReadBack \/ CommandBack \/ ReleaseBack
  <2>1. settings' = settings /\ tx' = tx /\ stage \in {"item", "release"}
    BY <1>14 DEF ReadBack, CommandBack, ReleaseBack, Back, lineVars, connectionVars
  <2> QED BY <2>1 DEF AddressKept
<1>15. CASE DiscBack
  BY <1>15 DEF DiscBack, Goto, AddressKept
<1>16. CASE Exited
  BY <1>16 DEF Exited, vars, AddressKept
<1> QED BY <1>2, <1>3, <1>4, <1>5, <1>7, <1>8, <1>9, <1>10, <1>11, <1>12, <1>13,
           <1>14, <1>15, <1>16, NextCases
        DEF Updating, Connecting, Handling, Closing

(* As long as the optical head can be set up, every request after an SNRM  *)
(* goes to the address that SNRM was sent to.                              *)
THEOREM LinkAddressKept == ASSUME HeadFailures = FALSE PROVE Spec => LinkAddress
<1>1. IInv /\ AddressKept /\ [Next]_vars
        => [tx' # tx /\ tx'.cmd # "SNRM" => tx'.address = tx.address]_vars
  <2> SUFFICES ASSUME IInv, AddressKept, [Next]_vars, tx' # tx, tx'.cmd # "SNRM"
               PROVE  tx'.address = tx.address
    OBVIOUS
  <2>1. settings \in Settings
    BY DEF IInv, TypeOK
  <2>2. Addressed(settings, tx') /\ tx' # NoRequest
        /\ stage \notin {"open", "icHead", "head", "icSnrm", "snrm", "exit"}
    BY <2>1, Sends, SnrmTakes, AarqTakes, ServiceTakes, AuthTakes, ReleaseTakes,
       DisconnectTakes
  <2> QED BY <2>2 DEF Addressed, AddressKept
<1>2. Init => AddressKept
  BY DEF Init, AddressKept
<1>3. IInv /\ AddressKept /\ [Next]_vars => AddressKept'
  BY NextAddress
<1> QED BY <1>1, <1>2, <1>3, InitIInv, NextIInv, PTL DEF Spec, LinkAddress
-----------------------------------------------------------------------------
(* Invocation counters.                                                    *)

(* The counter association may take a counter only if a meter may name a   *)
(* protection of its own.                                                  *)
Early == IF Namings = {} THEN 0 ELSE 1

(* How many encryptions may lie between the oldest counter used and the    *)
(* next one: reading the counter may take one, the AARQ takes one, the     *)
(* challenge and its request two, the comparison of the meter's challenge  *)
(* one, an object and the release one each.                                *)
Asked == IF phase = "call" THEN 0 ELSE 1
Limit ==
  CASE stage = "icRead" -> IF phase = "call" THEN 0 ELSE Early
    [] stage \in {"icDisc", "head", "snrm"} -> Early
    [] stage = "aarq" -> Early + Asked
    [] stage = "auth" -> Early + 1 + 2 * Asked
    [] stage = "item" -> Early + 6 - Len(todo) + Asked
    [] stage = "release" -> Early + 6 + Asked
    [] stage \in {"disc", "exit"} -> Early + 7
    [] OTHER -> 0

Spent == \A x \in used : Ago(x, settings.invocationCounter) <= Limit

(* The counter association is asked for in the clear, and stays so if the  *)
(* meter names nothing else.                                               *)
Public ==
  /\ stage \in {"icSnrm", "icAarq"} => settings.security = "NONE"
  /\ Namings = {} /\ stage \in {"icRead", "icDisc"} => settings.security = "NONE"

(* It takes the counter 0 if its AARE was protected, and no other.         *)
ZeroTaken ==
  /\ \/ stage \in {"open", "icHead", "icSnrm", "icAarq"}
     \/ stage = "icRead" /\ phase = "call"
     => settings.invocationCounter = 0
  /\ stage = "icRead" => used \subseteq {0}

(* What is read under protection comes without a value: so nothing on the  *)
(* line has one until the counter has been asked for in the clear.         *)
Valueless == {a \in Answers : a.cmd # "GET"}
Unread ==
  /\ stage \in {"open", "icHead", "icSnrm", "icAarq", "icRead"}
  /\ stage = "icRead" /\ phase # "call" => used # {}
NothingRead ==
  /\ line \in Seq(Valueless) /\ meter.last \in Seq(Valueless)
  /\ reply.answer \in Valueless
  /\ tx.cmd = "GET" => tx.ics # {}
  /\ phase = "wait" => tx.cmd # "none"

(* At most two objects follow, and no counter used is older than the       *)
(* limit.                                                                  *)
CountersSpent ==
  /\ Public /\ ZeroTaken /\ (Unread => NothingRead)
  /\ Len(todo) <= 2
  /\ stage # "exit" => Spent

(* One or none.                                                            *)
LEMMA EarlyType == Early \in {0, 1}
BY DEF Early

(* Nothing is ciphered before the program starts.                          *)
LEMMA InitSpent == Init => CountersSpent
<1> SUFFICES ASSUME Init PROVE CountersSpent
  OBVIOUS
<1>1. used = {} /\ stage = "open" /\ line = <<>> /\ tx = NoRequest /\ phase = "call"
      /\ reply.answer = NoAnswer
  BY DEF Init
<1>2. Len(todo) <= 2
  <2>1. Len(<<"meter_sn", "energy">>) = 2 /\ Len(<<args.item>>) = 1
    OBVIOUS
  <2> QED BY <2>1 DEF Init, ObjectsOf
<1>3. settings.invocationCounter = 0
  BY DEF Init, connectMeter, Assume, cl_init
<1>4. meter.last = <<>>
  BY DEF Init, FreshMeter
<1>5. NothingRead
  <2>1. NoAnswer \in Answers /\ NoAnswer.cmd = "none" /\ NoRequest.cmd = "none"
    BY NoAnswerType DEF NoAnswer, Answer, NoRequest
  <2> QED BY <1>1, <1>4, <2>1, EmptySeq DEF NothingRead, Valueless
<1> QED BY <1>1, <1>2, <1>3, <1>5 DEF CountersSpent, Spent, Public, ZeroTaken

(* The limit is a number, and one or two objects follow until the last.    *)
LEMMA LimitType ==
  ASSUME IInv, CountersSpent
  PROVE  /\ Limit \in Nat /\ Limit <= Early + 7
         /\ stage \notin {"release", "disc", "exit"} => Len(todo) \in {1, 2}
<1>1. todo \in Seq(Items) /\ Len(todo) \in Nat
  BY LenProperties DEF IInv, TypeOK
<1>2. stage \notin {"release", "disc", "exit"} => Len(todo) # 0
  BY <1>1, EmptySeq DEF IInv, TodoFits
<1>3. Len(todo) <= 2
  BY DEF CountersSpent
<1>4. stage \notin {"release", "disc", "exit"} => Len(todo) = 1 \/ Len(todo) = 2
  <2>1. \A l \in Nat : l # 0 /\ l <= 2 => l = 1 \/ l = 2
    OBVIOUS
  <2> QED BY <1>1, <1>2, <1>3, <2>1
<1>5. Asked \in {0, 1} /\ Early \in {0, 1}
  BY EarlyType DEF Asked
<1>6. CASE stage = "item"
  <2>1. Limit = Early + 6 - Len(todo) + Asked
    BY <1>6 DEF Limit
  <2>2. Len(todo) = 1 \/ Len(todo) = 2
    BY <1>4, <1>6
  <2> HIDE DEF Asked, Limit, Early
  <2>3. Limit \in Nat /\ Limit <= Early + 7
    <3>1. CASE Len(todo) = 1
      BY <1>5, <2>1, <3>1
    <3>2. CASE Len(todo) = 2
      BY <1>5, <2>1, <3>2
    <3> QED BY <2>2, <3>1, <3>2
  <2> QED BY <1>4, <2>3
<1>7. CASE stage # "item"
  <2>1. Limit \in {0, Early, Early + Asked, Early + 1 + 2 * Asked, Early + 6 + Asked,
                   Early + 7}
    BY <1>7 DEF Limit
  <2> HIDE DEF Asked, Limit, Early
  <2>2. Limit \in Nat /\ Limit <= Early + 7
    BY <1>5, <2>1
  <2> QED BY <1>4, <2>2
<1> QED BY <1>6, <1>7

(* Taking n counters keeps every one used within the limit, if that grows  *)
(* by n.                                                                   *)
LEMMA AskSpends ==
  ASSUME IInv, IInv', Spent, NEW n \in 0..2, NEW b, Asks(b), Takes(settings, b, n),
         Limit \in Nat, Limit' \in Nat, Limit + n <= Limit', n <= Limit'
  PROVE  Spent'
<1> DEFINE c == settings.invocationCounter
           d == settings'.invocationCounter
<1>1. /\ settings \in Settings /\ settings' \in Settings /\ settings' = b.settings
      /\ used \subseteq Counters /\ used' \subseteq Counters
  BY DEF IInv, TypeOK, Asks
<1>2. c \in Counters /\ d \in Counters
  BY <1>1 DEF Settings
<1>3. ASSUME NEW x \in Counters
      PROVE  Ago(x, c) \in Nat /\ Ago(x, d) \in Nat /\ Ago(x, d) <= Ago(x, c) + n
  <2>1. Ago(x, c) \in Nat /\ Ago(x, d) \in Nat
    BY <1>2, AgoNext
  <2> QED BY <1>1, <2>1 DEF Takes, Moves
<1>4. ASSUME NEW x \in used PROVE Ago(x, d) <= Limit'
  <2>1. x \in Counters /\ Ago(x, c) <= Limit
    BY <1>1, <1>4 DEF Spent
  <2> HIDE DEF c, d, Ago, Limit
  <2> QED BY <1>3, <2>1
<1>5. ASSUME NEW x \in b.message.ics, x \in Counters PROVE Ago(x, d) <= Limit'
  <2>1. Ago(x, d) <= n
    BY <1>1, <1>5 DEF Takes
  <2> HIDE DEF c, d, Ago, Limit
  <2> QED BY <1>3, <1>5, <2>1
<1>6. used' \subseteq used \cup b.message.ics
  BY DEF Asks
<1> HIDE DEF d, Ago, Limit
<1>7. \A x \in used' : Ago(x, d) <= Limit'
  BY <1>1, <1>4, <1>5, <1>6
<1> QED BY <1>7 DEF Spent, d

(* A counter about to be taken is not among those used.                    *)
LEMMA AskFresh ==
  ASSUME IcMod >= Early + 7, IInv, Spent, NEW n \in 0..2, NEW b, Takes(settings, b, n),
         Limit \in Nat, Limit + n <= Early + 7
  PROVE  b.message.ics \cap used = {}
<1> DEFINE c == settings.invocationCounter
<1>1. SUFFICES ASSUME NEW x \in b.message.ics, x \in used PROVE FALSE
  OBVIOUS
<1>2. x \in Counters /\ c \in Counters
  BY <1>1 DEF IInv, TypeOK, Settings
<1>3. Ago(x, c) \in Nat /\ IcMod \in Nat
  BY <1>2, AgoNext, IcModAssumption
<1>4. Ago(x, c) > IcMod - n /\ Ago(x, c) <= Limit
  BY <1>1 DEF Takes, Spent
<1>5. Early \in Nat
  BY EarlyType
<1> HIDE DEF c, Ago, Limit, Early
<1> QED BY <1>3, <1>4, <1>5

(* While no counter has been used it does not matter what the counter is.  *)
LEMMA NoneSpent ==
  ASSUME IInv, Spent, Limit = 0 PROVE used = {}
<1>1. SUFFICES ASSUME NEW x \in used PROVE FALSE
  OBVIOUS
<1>2. x \in Counters /\ settings.invocationCounter \in Counters
  BY DEF IInv, TypeOK, Settings
<1>3. Ago(x, settings.invocationCounter) \in 1..IcMod /\ IcMod \in Nat
  BY <1>2, AgoNext, IcModAssumption
<1> HIDE DEF Ago
<1> QED BY <1>1, <1>3 DEF Spent

(* A step that asks nothing keeps the counters used within the limit, if   *)
(* that grows with the counter.                                            *)
LEMMA QuietSpends ==
  ASSUME IInv, IInv', Spent, UNCHANGED used, NEW n \in 0..1, Moves(settings, settings', n),
         Limit \in Nat, Limit' \in Nat, Limit + n <= Limit'
  PROVE  Spent'
<1> DEFINE c == settings.invocationCounter
           d == settings'.invocationCounter
<1>1. used \subseteq Counters /\ c \in Counters /\ d \in Counters
  BY DEF IInv, TypeOK, Settings
<1>2. ASSUME NEW x \in used PROVE Ago(x, d) <= Limit'
  <2>1. x \in Counters /\ Ago(x, c) <= Limit /\ Ago(x, d) <= Ago(x, c) + n
    BY <1>1, <1>2 DEF Spent, Moves
  <2>2. Ago(x, c) \in Nat /\ Ago(x, d) \in Nat
    BY <1>1, <2>1, AgoNext
  <2> HIDE DEF c, d, Ago, Limit
  <2> QED BY <2>1, <2>2
<1> QED BY <1>2 DEF Spent

(* The settings that stay as they are do not move the counter.             *)
LEMMA NoMove ==
  ASSUME IInv, settings'.invocationCounter = settings.invocationCounter
  PROVE  Moves(settings, settings', 0)
<1>1. \A x \in Counters : Ago(x, settings.invocationCounter) \in Nat
  BY AgoNext DEF IInv, TypeOK, Settings
<1> HIDE DEF Ago
<1> QED BY <1>1 DEF Moves

(* Every step keeps the counter association asked for in the clear.        *)
LEMMA NextPublic == IInv /\ Public /\ [Next]_vars => Public'
<1> SUFFICES ASSUME IInv, Public, [Next]_vars PROVE Public'
  OBVIOUS
<1>1. settings \in Settings
  BY DEF IInv, TypeOK
<1>2. CASE Still
  BY <1>2 DEF Still, Public
<1>3. CASE com_open
  BY <1>3 DEF com_open, Goto, Public
<1>4. CASE IcHead
  <2>1. stage' = "icSnrm" => settings' = Assume(settings, PublicClient)
    BY <1>4 DEF IcHead
  <2>2. Assume(settings, PublicClient).security = "NONE"
    BY <1>1 DEF Assume, PublicClient, Settings
  <2>3. stage' \in {"icSnrm", "release"}
    BY <1>4 DEF IcHead, com_initializeOpticalHead, Goto, Quit
  <2> QED BY <2>1, <2>2, <2>3 DEF Public
<1>5. ASSUME NEW b, Asks(b), Builds(settings, b) PROVE Public'
  BY <1>5 DEF Asks, Builds, IdentityOf, Public
<1>6. CASE IcSnrm \/ IcAarq \/ IcRead \/ IcDisc
  BY <1>1, <1>5, <1>6, RequestAsks, SnrmBuilds, AarqBuilds, ReadBuilds, DisconnectBuilds
     DEF IcSnrm, IcAarq, IcRead, IcDisc
<1>7. CASE IcSnrmBack \/ IcReadBack
  <2>1. settings'.security = settings.security
    BY <1>7, ParsedMoves DEF IcSnrmBack, IcReadBack, Proceed, IdentityOf
  <2>2. CASE IcSnrmBack
    BY <2>1, <2>2 DEF IcSnrmBack, Back, Goto, Public
  <2>3. CASE IcReadBack
    BY <2>1, <2>3 DEF IcReadBack, Back, Proceed, Goto, Quit, Public
  <2> QED BY <1>7, <2>2, <2>3
<1>9. CASE IcAarqBack
  <2>1. /\ Named(settings, settings') /\ stage = "icAarq"
        /\ stage' \in {"icRead", "release"}
    BY <1>9, ParsedMoves DEF IcAarqBack, Proceed, Back, Goto, Quit
  <2> QED BY <2>1 DEF Named, Public
<1>8. CASE IcDiscBack \/ Connecting \/ Handling \/ Closing
  <2>1. stage' \notin {"icSnrm", "icAarq", "icRead", "icDisc"}
    BY <1>8 DEF IcDiscBack, Connecting, OpticalHead, com_initializeOpticalHead, Snrm,
                SnrmBack, Aarq, AarqBack, Auth, AuthBack, Proceed, Handling, Read, ReadBack,
                Command, CommandBack, NextObject, Closing, Release, ReleaseBack, Disc,
                DiscBack, Exited, vars, Goto, Quit, At, Back, Request
  <2> QED BY <2>1 DEF Public
<1> QED BY <1>2, <1>3, <1>4, <1>6, <1>7, <1>8, <1>9, NextCases DEF Updating

(* Before the counter is read the counter of the settings is that of       *)
(* cl_init, and none is taken but by asking for it.                        *)
LEMMA NextZero == ASSUME IInv, CountersSpent, [Next]_vars PROVE ZeroTaken'
<1>1. settings \in Settings /\ ZeroTaken /\ Public /\ (stage # "exit" => Spent)
  BY DEF IInv, TypeOK, CountersSpent
<1>2. CASE Still
  BY <1>1, <1>2 DEF Still, ZeroTaken
<1>3. CASE com_open
  BY <1>1, <1>3 DEF com_open, At, Goto, connectionVars, lineVars, ZeroTaken
<1>4. CASE IcHead
  <2>1. settings'.invocationCounter = settings.invocationCounter
        /\ stage = "icHead" /\ stage' \in {"icSnrm", "release"}
    BY <1>1, <1>4 DEF IcHead, At, com_initializeOpticalHead, Goto, Quit, Assume, Settings
  <2> QED BY <1>1, <2>1 DEF ZeroTaken
<1>5. CASE IcSnrm
  <2>1. cl_snrmRequest(settings).settings.invocationCounter = settings.invocationCounter
    BY <1>1 DEF cl_snrmRequest, Built, Settings
  <2>2. settings' = cl_snrmRequest(settings).settings /\ stage = "icSnrm" /\ stage' = stage
    BY <1>5, RequestAsks DEF IcSnrm, At, Asks
  <2> QED BY <1>1, <2>1, <2>2 DEF ZeroTaken
<1>6. CASE IcAarq
  <2>1. stage = "icAarq" /\ ~ isCiphered(settings)
    BY <1>1, <1>6 DEF IcAarq, At, Public, isCiphered
  <2>2. cl_aarqRequest(settings).settings.invocationCounter = settings.invocationCounter
    BY <1>1, <2>1 DEF cl_aarqRequest, apdu_generateUserInformation, isCiphered, Built, Refused,
                      Settings
  <2>3. settings' = cl_aarqRequest(settings).settings /\ stage' = stage
    BY <1>6, RequestAsks DEF IcAarq, Asks
  <2> QED BY <1>1, <2>1, <2>2, <2>3 DEF ZeroTaken
<1>7. CASE IcSnrmBack
  <2>1. /\ settings'.invocationCounter = settings.invocationCounter
        /\ stage = "icSnrm" /\ stage' = "icAarq"
    BY <1>7, ParsedMoves DEF IcSnrmBack, Back, Goto
  <2> QED BY <1>1, <2>1 DEF ZeroTaken
<1>8. CASE IcAarqBack
  <2>1. /\ settings'.invocationCounter = settings.invocationCounter
        /\ stage = "icAarq" /\ stage' \in {"icRead", "release"} /\ used' = used
    BY <1>8, ParsedMoves DEF IcAarqBack, Back, Proceed, Goto, Quit, lineVars
  <2>2. used = {}
    BY <1>1, <2>1, NoneSpent DEF Limit
  <2> QED BY <1>1, <2>1, <2>2 DEF ZeroTaken
<1>9. CASE IcRead
  <2>1. Asks(cl_readLN(settings, "ic")) /\ stage = "icRead" /\ phase = "call"
    BY <1>9, RequestAsks DEF IcRead, At
  <2>2. used = {} /\ settings.invocationCounter = 0
    BY <1>1, <2>1, NoneSpent DEF Limit, ZeroTaken
  <2>3. cl_readLN(settings, "ic").message.ics \subseteq {settings.invocationCounter}
    BY DEF cl_readLN, dlms_getLNPdu, Built, NoRequest
  <2> QED BY <2>1, <2>2, <2>3 DEF Asks, ZeroTaken
<1>10. CASE IcReadBack \/ IcDisc \/ IcDiscBack \/ Connecting \/ Handling \/ Closing
  <2>1. stage' \notin {"open", "icHead", "icSnrm", "icAarq", "icRead"}
    BY <1>10 DEF IcReadBack, IcDisc, IcDiscBack, Connecting, OpticalHead,
                 com_initializeOpticalHead, Snrm, SnrmBack, Aarq, AarqBack, Auth, AuthBack,
                 Proceed, Handling, Read, ReadBack, Command, CommandBack, NextObject, Closing,
                 Release, ReleaseBack, Disc, DiscBack, Exited, vars, Goto, Quit, At, Back,
                 Request
  <2> QED BY <2>1 DEF ZeroTaken
<1> QED BY <1>2, <1>3, <1>4, <1>5, <1>6, <1>7, <1>8, <1>9, <1>10, NextCases DEF Updating

(* A request that reads nothing in the clear is given no value.            *)
LEMMA HearsValueless ==
  ASSUME NEW q \in Requests, WellAimed(q), q.cmd # "none", q.cmd = "GET" => q.ics # {},
         NEW m \in Meters, m.last \in Seq(Valueless), NEW n \in Hears(q, m)
  PROVE  n.last \in Seq(Valueless)
<1>1. n = m \/ n = [m EXCEPT !.last = <<>>] \/ n \in Reactions(m, q)
  BY DEF Hears, Repeats
<1>2. CASE n = m
  BY <1>2
<1>3. CASE n = [m EXCEPT !.last = <<>>]
  BY <1>3, EmptySeq DEF Meters
<1>4. CASE n \in Reactions(m, q)
  <2>1. AfterFits(q, n)
    BY <1>4, ReactionsFit
  <2>2. \A a \in Answers : AnswerFits(q, n, a) => a \in Valueless
    BY DEF AnswerFits, Ciphered, Valueless
  <2>3. \A a \in Valueless : <<a>> \in Seq(Valueless)
    OBVIOUS
  <2>4. n.last = <<>> \/ \E a \in Valueless : n.last = <<a>>
    BY <2>1, <2>2 DEF AfterFits
  <2> QED BY <2>3, <2>4, EmptySeq
<1> QED BY <1>1, <1>2, <1>3, <1>4

(* Sending it leaves none on the line.                                     *)
LEMMA SendValueless ==
  ASSUME NEW q \in Requests, WellAimed(q), q.cmd # "none", q.cmd = "GET" => q.ics # {},
         NEW m \in Meters, m.last \in Seq(Valueless),
         line \in Seq(Valueless), reply.answer \in Valueless, sendData(q, m)
  PROVE  /\ line' \in Seq(Valueless) /\ meter'.last \in Seq(Valueless)
         /\ reply'.answer \in Valueless
<1>1. \A n \in Hears(q, m) : n.last \in Seq(Valueless) /\ line \o n.last \in Seq(Valueless)
  <2> TAKE n \in Hears(q, m)
  <2>1. n.last \in Seq(Valueless)
    BY HearsValueless
  <2> QED BY <2>1, ConcatProperties
<1>2. NoAnswer \in Valueless
  BY NoAnswerType DEF Valueless, NoAnswer, Answer
<1>3. CASE /\ \E n \in Hears(q, m) : meter' = n /\ line' = line \o n.last
           /\ phase' = "wait" /\ UNCHANGED <<reply, budget>>
  BY <1>1, <1>3
<1>4. CASE /\ Disturb /\ meter' \in Hears(q, m)
           /\ phase' = "wait" /\ UNCHANGED <<reply, line>>
  BY <1>1, <1>4
<1>5. CASE Disturb /\ meter' = m /\ phase' = "wait" /\ UNCHANGED <<reply, line>>
  BY <1>5
<1>6. CASE /\ Disturb /\ meter' = m
           /\ Returned("COMMUNICATION_ERROR", NoAnswer) /\ UNCHANGED line
  BY <1>2, <1>6 DEF Returned
<1> QED BY <1>3, <1>4, <1>5, <1>6 DEF sendData

(* The line takes no value from nowhere.                                   *)
LEMMA ExchangeValueless ==
  ASSUME IInv, NothingRead, Exchange PROVE NothingRead'
<1>1. /\ tx \in Requests /\ WellAimed(tx) /\ meter \in Meters /\ tx' = tx
      /\ phase' = "wait" => phase = "wait"
  BY DEF IInv, TypeOK, Exchange, Resend, ResendLate, GiveUp, Receive, Corrupt, ReadFails,
         HangUp, Poll, Spin, Waiting, vars
<1>2. NoAnswer \in Valueless
  BY NoAnswerType DEF Valueless, NoAnswer, Answer
<1>3. ASSUME phase = "wait", sendData(tx, meter) PROVE NothingRead'
  BY <1>1, <1>3, SendValueless DEF NothingRead
<1>4. CASE Resend
  BY <1>3, <1>4 DEF Resend, Waiting
<1>5. CASE ResendLate
  <2>1. meter'.last \in Seq(Valueless)
    BY <1>1, <1>5, HearsValueless DEF ResendLate, Waiting, NothingRead
  <2>2. line' \in Seq(Valueless) /\ UNCHANGED reply
    BY <1>5, <2>1, ConcatProperties DEF ResendLate, NothingRead
  <2> QED BY <1>1, <2>1, <2>2 DEF NothingRead
<1>6. CASE GiveUp \/ ReadFails
  BY <1>1, <1>2, <1>6 DEF GiveUp, ReadFails, Returned, NothingRead
<1>7. CASE Receive \/ Corrupt
  <2>1. line # <<>> /\ line \in Seq(Valueless) /\ meter' = meter
    BY <1>7 DEF Receive, Corrupt, NothingRead
  <2>2. Head(line) \in Valueless /\ Tail(line) \in Seq(Valueless)
    BY <2>1, HeadTailProperties
  <2>3. line' \in Seq(Valueless)
    BY <1>7, <2>2, SuffixType DEF Receive, Corrupt
  <2>4. reply'.answer \in Valueless
    BY <1>2, <1>7, <2>2 DEF Receive, Corrupt, Returned, NothingRead
  <2> QED BY <1>1, <2>1, <2>3, <2>4 DEF NothingRead
<1>8. CASE HangUp \/ Poll \/ Spin
  BY <1>1, <1>8 DEF HangUp, Poll, Spin, vars, NothingRead
<1> QED BY <1>4, <1>5, <1>6, <1>7, <1>8 DEF Exchange

(* Asking for anything but a value in the clear leaves none on the line.   *)
LEMMA RequestValueless ==
  ASSUME IInv, NothingRead, NEW b, Request(b), Builds(settings, b),
         b.message # NoRequest =>
           b.message.cmd # "none" /\ (b.message.cmd = "GET" => b.message.ics # {})
  PROVE  NothingRead'
<1>1. meter \in Meters /\ tx \in Requests
  BY DEF IInv, TypeOK
<1>2. CASE b.ret # "OK" \/ b.message = NoRequest
  <2>1. NoAnswer \in Valueless
    BY NoAnswerType DEF Valueless, NoAnswer, Answer
  <2> QED BY <1>2, <2>1 DEF Request, Returned, lineVars, NothingRead
<1>3. CASE ~ (b.ret # "OK" \/ b.message = NoRequest)
  <2> DEFINE m == [meter EXCEPT !.received = FALSE, !.last = <<>>]
  <2>1. m \in Meters /\ m.last \in Seq(Valueless)
    <3>1. <<>> \in Seq(Answers) /\ <<>> \in Seq(Valueless)
      OBVIOUS
    <3> QED BY <1>1, <3>1 DEF Meters
  <2>2. b.message \in Requests /\ WellAimed(b.message) /\ sendData(b.message, m)
        /\ tx' = b.message
    BY <1>3 DEF Builds, Request
  <2> HIDE DEF m
  <2>3. /\ line' \in Seq(Valueless) /\ meter'.last \in Seq(Valueless)
        /\ reply'.answer \in Valueless
    BY <1>3, <2>1, <2>2, SendValueless DEF NothingRead
  <2> QED BY <1>3, <2>2, <2>3 DEF NothingRead
<1> QED BY <1>2, <1>3

(* Until the counter is asked for in the clear no step makes a value.      *)
LEMMA NextRead ==
  ASSUME IInv, CountersSpent, [Next]_vars, Unread' PROVE NothingRead'
<1>1. /\ settings \in Settings /\ (Unread => NothingRead) /\ (stage # "exit" => Spent)
      /\ line \in Seq(Answers)
  BY DEF IInv, TypeOK, CountersSpent
<1>2. CASE Exchange
  <2>1. stage' = stage /\ used' = used /\ phase # "call"
    BY <1>2 DEF Exchange, Resend, ResendLate, GiveUp, Receive, Corrupt, ReadFails, HangUp,
                Poll, Spin, Waiting, vars
  <2>2. phase' # "call"
    BY <1>2, <2>1 DEF Exchange, Resend, ResendLate, GiveUp, Receive, Corrupt, ReadFails,
                HangUp, Poll, Spin, Waiting, sendData, Returned, vars
  <2>3. Unread
    BY <2>1, <2>2 DEF Unread
  <2> QED BY <1>1, <1>2, <2>3, ExchangeValueless
<1>3. CASE MeterRestarts
  <2>1. UNCHANGED <<stage, phase, used, tx, line, reply>> /\ meter' = Restarted(meter)
    BY <1>3 DEF MeterRestarts
  <2>2. meter'.last = <<>>
    BY <2>1 DEF Restarted, IInv, TypeOK, Meters
  <2>3. <<>> \in Seq(Valueless)
    OBVIOUS
  <2> QED BY <1>1, <2>1, <2>2, <2>3 DEF Unread, NothingRead
<1>4. CASE UNCHANGED vars
  BY <1>1, <1>4 DEF vars, Unread, NothingRead
<1>5. CASE com_open
  BY <1>1, <1>5 DEF com_open, At, Goto, lineVars, Unread, NothingRead
<1>6. CASE IcHead
  <2>1. stage = "icHead" /\ UNCHANGED <<tx, meter, reply>> /\ phase' = "call"
    BY <1>6 DEF IcHead, At, com_initializeOpticalHead, Goto, Quit
  <2>2. NothingRead
    BY <1>1, <2>1 DEF Unread
  <2>3. line' \in Suffixes(line) \/ line' = line
    BY <1>6 DEF IcHead, com_initializeOpticalHead
  <2>4. line' \in Seq(Valueless)
    BY <2>2, <2>3, SuffixType DEF NothingRead
  <2> QED BY <2>1, <2>2, <2>4 DEF NothingRead
<1>7. CASE IcSnrm
  <2>1. stage = "icSnrm" /\ Request(cl_snrmRequest(settings))
    BY <1>7 DEF IcSnrm, At
  <2>2. NothingRead
    BY <1>1, <2>1 DEF Unread
  <2>3. PICK b : Request(b) /\ Builds(settings, b) /\ b.message.cmd = "SNRM"
    BY <1>1, <2>1, SnrmBuilds, SnrmTakes
  <2> QED BY <2>2, <2>3, RequestValueless
<1>8. CASE IcAarq
  <2>1. stage = "icAarq" /\ Request(cl_aarqRequest(settings))
    BY <1>8 DEF IcAarq, At
  <2>2. NothingRead
    BY <1>1, <2>1 DEF Unread
  <2>3. PICK b : /\ Request(b) /\ Builds(settings, b)
                 /\ b.message # NoRequest => b.message.cmd = "AARQ"
    BY <1>1, <2>1, AarqBuilds, AarqTakes
  <2> QED BY <2>2, <2>3, RequestValueless
<1>9. CASE IcSnrmBack \/ IcAarqBack
  <2>1. /\ stage \in {"icSnrm", "icAarq"} /\ phase' = "call"
        /\ UNCHANGED <<tx, line, meter, reply>>
    BY <1>9 DEF IcSnrmBack, IcAarqBack, Back, lineVars, Proceed, Goto, Quit
  <2> QED BY <1>1, <2>1 DEF Unread, NothingRead
<1>10. CASE IcRead
  <2>1. stage = "icRead" /\ phase = "call" /\ Request(cl_readLN(settings, "ic"))
    BY <1>10 DEF IcRead, At, Request
  <2>2. NothingRead /\ used = {}
    BY <1>1, <2>1, NoneSpent DEF Unread, Limit
  <2>3. PICK b : /\ Request(b) /\ Builds(settings, b) /\ b.message.cmd = "GET"
    BY <1>1, <2>1, ReadBuilds, ServiceTakes DEF cl_readLN
  <2>4. stage' = "icRead" /\ phase' # "call" /\ used' \subseteq used \cup b.message.ics
    BY <2>1, <2>3, RequestAsks DEF Asks
  <2>5. b.message.ics # {}
    BY <2>2, <2>4 DEF Unread
  <2> QED BY <2>2, <2>3, <2>5, RequestValueless
<1>11. CASE IcReadBack \/ IcDisc \/ IcDiscBack \/ Connecting \/ Handling \/ Closing
  <2>1. stage' \notin {"open", "icHead", "icSnrm", "icAarq", "icRead"}
    BY <1>11 DEF IcReadBack, IcDisc, IcDiscBack, Connecting, OpticalHead,
                 com_initializeOpticalHead, Snrm, SnrmBack, Aarq, AarqBack, Auth, AuthBack,
                 Proceed, Handling, Read, ReadBack, Command, CommandBack, NextObject, Closing,
                 Release, ReleaseBack, Disc, DiscBack, Exited, vars, Goto, Quit, At, Back,
                 Request
  <2> QED BY <2>1 DEF Unread
<1> QED BY <1>2, <1>3, <1>4, <1>5, <1>6, <1>7, <1>8, <1>9, <1>10, <1>11
        DEF Next, Client_, Updating

(* The objects left are those of before, or one fewer.                     *)
LEMMA NextTodo ==
  ASSUME IInv, [Next]_vars
  PROVE  todo' = todo \/ (stage = "item" /\ phase = "back" /\ todo' = Tail(todo)
                            /\ \E code : NextObject(code))
BY NextCases
   DEF Still, com_open, Updating, IcHead, IcSnrm, IcSnrmBack, IcAarq, IcAarqBack, IcRead,
       IcReadBack, IcDisc, IcDiscBack, Connecting, OpticalHead, Snrm, SnrmBack, Aarq,
       AarqBack, Auth, AuthBack, Proceed, Handling, Read, ReadBack, Command, CommandBack,
       NextObject, Closing, Release, ReleaseBack, Disc, DiscBack, Exited, vars,
       connectionVars, Back, Request

(* No step adds an object.                                                 *)
LEMMA NextLength ==
  ASSUME IInv, CountersSpent, [Next]_vars PROVE Len(todo') <= 2
<1>1. CASE todo' = todo
  BY <1>1 DEF CountersSpent
<1>2. CASE stage = "item" /\ todo' = Tail(todo)
  <2>1. todo \in Seq(Items) /\ todo # <<>> /\ Len(todo) \in {1, 2}
    BY <1>2, LimitType DEF IInv, TypeOK, TodoFits
  <2>2. Len(todo') = Len(todo) - 1
    BY <1>2, <2>1, HeadTailProperties
  <2>3. Len(todo') \in {0, 1}
    BY <2>1, <2>2
  <2> QED BY <2>3
<1> QED BY <1>1, <1>2, NextTodo

(* Every step keeps every counter used within the limit.                   *)
LEMMA NextSpent == IInv /\ CountersSpent /\ [Next]_vars => CountersSpent'
<1> SUFFICES ASSUME IInv, CountersSpent, [Next]_vars PROVE CountersSpent'
  OBVIOUS
<1>1. settings \in Settings /\ IInv'
  BY NextIInv DEF IInv, TypeOK
<1>2. Public' /\ ZeroTaken' /\ (Unread' => NothingRead') /\ Len(todo') <= 2
  BY NextPublic, NextZero, NextRead, NextLength DEF CountersSpent
<1>3. /\ stage # "exit" => Spent
      /\ Limit \in Nat /\ Limit <= Early + 7 /\ Early \in {0, 1}
      /\ stage \notin {"release", "disc", "exit"} => Len(todo) \in {1, 2}
  BY LimitType, EarlyType DEF CountersSpent
<1>4. SUFFICES ASSUME stage' # "exit" PROVE Spent'
  BY <1>2 DEF CountersSpent
<1>5. CASE Still
  BY <1>3, <1>4, <1>5 DEF Still, Spent, Limit, Asked
<1>6. ASSUME NEW n \in 0..1, Moves(settings, settings', n), used' = used, stage # "exit",
             Limit' \in Nat, Limit + n <= Limit'
      PROVE  Spent'
  BY <1>1, <1>3, <1>6, QuietSpends
<1>7. ASSUME NEW n \in 0..2, NEW b, Asks(b), Takes(settings, b, n), stage # "exit",
             Limit' \in Nat, Limit + n <= Limit'
      PROVE  Spent'
  BY <1>1, <1>3, <1>7, AskSpends
<1>8. CASE com_open \/ IcHead \/ IcSnrmBack \/ IcAarqBack
  <2>1. used' = used /\ Limit = 0
    BY <1>8 DEF com_open, IcHead, IcSnrmBack, IcAarqBack, At, Back, lineVars, Limit
  <2>2. stage # "exit"
    BY <1>8 DEF com_open, IcHead, IcSnrmBack, IcAarqBack, At, Back
  <2>3. used = {}
    BY <1>3, <2>1, <2>2, NoneSpent
  <2> QED BY <2>1, <2>3 DEF Spent
<1>9. CASE IcSnrm \/ IcAarq
  <2>1. ~ isCiphered(settings) /\ stage \in {"icSnrm", "icAarq"}
    BY <1>9 DEF IcSnrm, IcAarq, At, CountersSpent, Public, isCiphered
  <2>2. PICK b : Asks(b) /\ Takes(settings, b, 0)
    BY <1>1, <1>9, <2>1, RequestAsks, SnrmTakes, AarqTakes DEF IcSnrm, IcAarq, TakesOne
  <2>3. Limit = 0 /\ Limit' = 0
    BY <2>1, <2>2 DEF Asks, Limit
  <2> QED BY <1>7, <2>1, <2>2, <2>3
<1>10. CASE IcRead
  <2>1. PICK b : Asks(b) /\ TakesOne(settings, b) /\ stage = "icRead" /\ phase = "call"
    BY <1>1, <1>10, RequestAsks, ServiceTakes DEF IcRead, cl_readLN, At, Request
  <2>2. Takes(settings, b, Early)
    BY <2>1 DEF CountersSpent, Public, isCiphered, TakesOne, Early
  <2>3. Limit = 0 /\ Limit' = Early
    BY <2>1 DEF Asks, Limit
  <2> QED BY <1>3, <1>7, <2>1, <2>2, <2>3
<1>23. CASE IcReadBack
  <2>1. /\ used' = used /\ stage = "icRead" /\ phase = "back" /\ phase' = "call"
        /\ settings' = Parsed(ReadCounter).settings
        /\ stage' = IF Parsed(ReadCounter).ret = "OK" THEN "icDisc" ELSE "release"
    BY <1>23 DEF IcReadBack, Back, lineVars, Proceed, Goto, Quit
  <2>2. Limit = Early /\ Limit' \in {Early, Early + 6} /\ Spent
    BY <1>3, <2>1 DEF Limit, Asked
  <2>3. CASE used = {}
    BY <2>1, <2>3 DEF Spent
  <2>4. CASE used # {} /\ reply.ret # "OK"
    <3>1. settings' = settings
      BY <2>1, <2>4 DEF Parsed, Digest
    <3>2. Limit' \in Nat /\ Limit + 0 <= Limit'
      BY <1>3, <2>2
    <3> QED BY <1>6, <2>1, <3>1, <3>2, NoMove
  <2>5. CASE used # {} /\ reply.ret = "OK"
    <3>1. used = {0} /\ reply.answer \in Valueless
      BY <2>1, <2>5 DEF CountersSpent, ZeroTaken, Unread, NothingRead
    <3>2. dlms_handleGetResponse(reply.answer).number = 0
      BY <3>1 DEF Valueless, dlms_handleGetResponse, NoValue
    <3>3. (1 + 0) % IcMod = 1 /\ IcMod > 1
      BY IcModAssumption
    <3>4. settings'.invocationCounter = 1
      BY <1>1, <2>1, <2>5, <3>2, <3>3 DEF Parsed, ReadCounter, Digest, Settings
    <3>5. Early = 1
      BY <1>3, <2>2, <2>5, NoneSpent
    <3>6. Limit' = Early
      BY <2>1, <2>5 DEF Parsed, ReadCounter, Digest, Limit
    <3>7. Ago(0, 1) = 1
      BY DEF Ago
    <3>8. \A x \in used' : Ago(x, settings'.invocationCounter) <= Limit'
      BY <2>1, <3>1, <3>4, <3>5, <3>6, <3>7
    <3> QED BY <3>8 DEF Spent
  <2> QED BY <2>3, <2>4, <2>5
<1>24. CASE IcDiscBack \/ OpticalHead
  <2>1. /\ used' = used /\ stage \in {"icDisc", "head"} /\ phase' = "call"
        /\ stage' \in {"head", "snrm", "release"}
        /\ settings'.invocationCounter = settings.invocationCounter
    BY <1>1, <1>24 DEF IcDiscBack, OpticalHead, com_initializeOpticalHead, connectionVars, At,
                       Back, lineVars, Goto, Quit, RestoreIdentity, Assume, Settings
  <2>2. Limit = Early /\ Limit' \in {Early, Early + 6 + 0}
    BY <2>1 DEF Limit, Asked
  <2>3. Limit' \in Nat /\ Limit + 0 <= Limit'
    BY <1>3, <2>2
  <2> QED BY <1>6, <2>1, <2>3, NoMove
<1>11. CASE IcDisc \/ Snrm
  <2>1. PICK b : Asks(b) /\ Takes(settings, b, 0) /\ stage \in {"icDisc", "snrm"}
    BY <1>1, <1>11, RequestAsks, SnrmTakes, DisconnectTakes DEF Snrm, IcDisc, At
  <2>2. Limit = Early /\ Limit' = Early
    BY <2>1 DEF Asks, Limit
  <2>3. Limit' \in Nat /\ Limit + 0 <= Limit'
    BY <1>3, <2>2
  <2> QED BY <1>7, <2>1, <2>3
<1>12. CASE SnrmBack
  <2>1. /\ used' = used /\ stage = "snrm" /\ stage' \in {"aarq", "release"} /\ phase' = "call"
        /\ settings'.invocationCounter = settings.invocationCounter
    BY <1>12, ParsedMoves DEF SnrmBack, Back, lineVars, Proceed, Goto, Quit
  <2>2. Limit = Early /\ Limit' \in {Early + 0, Early + 6 + 0}
    BY <2>1 DEF Limit, Asked
  <2>3. Limit' \in Nat /\ Limit + 0 <= Limit'
    BY <1>3, <2>2
  <2> QED BY <1>6, <2>1, <2>3, NoMove
<1>13. CASE Aarq
  <2>1. PICK b : Asks(b) /\ Takes(settings, b, 1) /\ stage = "aarq"
    BY <1>1, <1>13, RequestAsks, AarqTakes DEF Aarq, At, TakesOne
  <2>2. Limit = Early + 0 /\ Limit' = Early + 1
    BY <2>1 DEF Asks, Limit, Asked
  <2>3. Limit' \in Nat /\ Limit + 1 <= Limit'
    BY <1>3, <2>2
  <2> QED BY <1>7, <2>1, <2>3
<1>14. CASE AarqBack
  <2>1. /\ used' = used /\ stage = "aarq" /\ phase = "back" /\ phase' = "call"
        /\ stage' \in {"auth", "item", "release"} /\ todo' = todo
        /\ settings'.invocationCounter = settings.invocationCounter
    BY <1>14, ParsedMoves DEF AarqBack, Back, lineVars, Proceed, Goto, Quit
  <2>2. Len(todo) \in {1, 2}
    BY <1>3, <2>1
  <2>3. Limit = Early + 1 /\ Limit' \in {Early + 1 + 2 * 0, Early + 6 - Len(todo) + 0, Early + 6 + 0}
    BY <2>1 DEF Limit, Asked
  <2>4. Limit' \in Nat /\ Limit + 0 <= Limit'
    <3>1. CASE Len(todo) = 1
      BY <1>3, <2>3, <3>1
    <3>2. CASE Len(todo) = 2
      BY <1>3, <2>3, <3>2
    <3> QED BY <2>2, <3>1, <3>2
  <2> QED BY <1>6, <2>1, <2>4, NoMove
<1>15. CASE Auth
  <2>1. PICK b : Asks(b) /\ Takes(settings, b, 2) /\ stage = "auth"
    BY <1>1, <1>15, RequestAsks, AuthTakes DEF Auth, At
  <2>2. Limit = Early + 1 + 2 * 0 /\ Limit' = Early + 1 + 2 * 1
    BY <2>1 DEF Asks, Limit, Asked
  <2>3. Limit' \in Nat /\ Limit + 2 <= Limit'
    BY <1>3, <2>2
  <2> QED BY <1>7, <2>1, <2>3
<1>16. CASE AuthBack
  <2>1. /\ used' = used /\ stage = "auth" /\ phase = "back" /\ phase' = "call"
        /\ stage' \in {"item", "release"} /\ todo' = todo
        /\ Moves(settings, settings', 1)
    BY <1>16, ParsedMoves DEF AuthBack, Back, lineVars, Proceed, Goto, Quit
  <2>2. Len(todo) \in {1, 2}
    BY <1>3, <2>1
  <2>3. Limit = Early + 1 + 2 * 1 /\ Limit' \in {Early + 6 - Len(todo) + 0, Early + 6 + 0}
    BY <2>1 DEF Limit, Asked
  <2>4. Limit' \in Nat /\ Limit + 1 <= Limit'
    <3>1. CASE Len(todo) = 1
      BY <1>3, <2>3, <3>1
    <3>2. CASE Len(todo) = 2
      BY <1>3, <2>3, <3>2
    <3> QED BY <2>2, <3>1, <3>2
  <2> QED BY <1>6, <2>1, <2>4
<1>17. CASE Read \/ Command
  <2>1. PICK b : Asks(b) /\ Takes(settings, b, 1) /\ stage = "item"
    BY <1>1, <1>17, RequestAsks, ServiceTakes DEF Read, Command, At, cl_readLN, cl_methodLN,
                                                  TakesOne
  <2>2. Len(todo) \in {1, 2}
    BY <1>3, <2>1
  <2>3. Limit = Early + 6 - Len(todo) + 0 /\ Limit' = Early + 6 - Len(todo) + 1
    BY <2>1, <2>2 DEF Asks, Limit, Asked
  <2>4. Limit' \in Nat /\ Limit + 1 <= Limit'
    <3>1. CASE Len(todo) = 1
      BY <1>3, <2>3, <3>1
    <3>2. CASE Len(todo) = 2
      BY <1>3, <2>3, <3>2
    <3> QED BY <2>2, <3>1, <3>2
  <2> QED BY <1>7, <2>1, <2>4
<1>18. CASE ReadBack \/ CommandBack
  <2>1. /\ used' = used /\ settings' = settings /\ stage = "item" /\ phase = "back"
        /\ phase' = "call" /\ todo' = Tail(todo)
        /\ stage' = IF Len(todo) = 1 THEN "release" ELSE "item"
    BY <1>18 DEF ReadBack, CommandBack, NextObject, Back, lineVars, connectionVars
  <2>2. Len(todo) \in {1, 2} /\ todo \in Seq(Items) /\ todo # <<>>
    BY <1>3, <2>1 DEF IInv, TypeOK, TodoFits
  <2>3. Len(todo') = Len(todo) - 1
    BY <2>1, <2>2, HeadTailProperties
  <2>4. /\ Limit = Early + 6 - Len(todo) + 1
        /\ Limit' = IF Len(todo) = 1 THEN Early + 6 + 0 ELSE Early + 6 - Len(todo') + 0
    BY <2>1, <2>2 DEF Limit, Asked
  <2>5. Limit' \in Nat /\ Limit <= Limit'
    <3>1. CASE Len(todo) = 1
      BY <1>3, <2>4, <3>1
    <3>2. CASE Len(todo) = 2
      <4>1. Len(todo') = 1
        BY <2>3, <3>2
      <4> QED BY <1>3, <2>4, <3>2, <4>1
    <3> QED BY <2>2, <3>1, <3>2
  <2> QED BY <1>3, <1>6, <2>1, <2>5, NoMove
<1>19. CASE Release
  <2>1. PICK b : Asks(b) /\ Takes(settings, b, 1) /\ stage = "release"
    BY <1>1, <1>19, RequestAsks, ReleaseTakes DEF Release, At, TakesOne
  <2>2. Limit = Early + 6 + 0 /\ Limit' = Early + 6 + 1
    BY <2>1 DEF Asks, Limit, Asked
  <2>3. Limit' \in Nat /\ Limit + 1 <= Limit'
    BY <1>3, <2>2
  <2> QED BY <1>7, <2>1, <2>3
<1>20. CASE ReleaseBack
  <2>1. /\ used' = used /\ settings' = settings /\ stage = "release" /\ phase = "back"
        /\ stage' = "disc"
    BY <1>20 DEF ReleaseBack, Back, lineVars, connectionVars, Goto
  <2>2. Limit = Early + 6 + 1 /\ Limit' = Early + 7
    BY <2>1 DEF Limit, Asked
  <2>3. Limit' \in Nat /\ Limit + 0 <= Limit'
    BY <1>3, <2>2
  <2> QED BY <1>6, <2>1, <2>3, NoMove
<1>21. CASE Disc
  <2>1. PICK b : Asks(b) /\ Takes(settings, b, 0) /\ stage = "disc"
    BY <1>1, <1>21, RequestAsks, DisconnectTakes DEF Disc, At
  <2>2. Limit = Early + 7 /\ Limit' = Early + 7
    BY <2>1 DEF Asks, Limit
  <2>3. Limit' \in Nat /\ Limit + 0 <= Limit'
    BY <1>3, <2>2
  <2> QED BY <1>7, <2>1, <2>3
<1>22. CASE DiscBack \/ Exited
  BY <1>4, <1>22 DEF DiscBack, Goto, Exited, At, vars
<1> QED BY <1>5, <1>8, <1>9, <1>10, <1>11, <1>12, <1>13, <1>14, <1>15, <1>16, <1>17,
           <1>18, <1>19, <1>20, <1>21, <1>22, <1>23, <1>24, NextCases
        DEF Updating, Connecting, Handling, Closing

(* Eight values of the counter are enough for one run, and seven if the    *)
(* AARE names what it was asked for: no request is ciphered with a counter *)
(* the run has used before.                                                *)
THEOREM CountersNeverReused ==
  ASSUME IcMod >= IF Namings = {} THEN 7 ELSE 8 PROVE Spec => CountersFresh
<1>1. IInv /\ CountersSpent /\ [Next]_vars
        => [tx' # tx => tx'.ics \cap used = {}]_vars
  <2> SUFFICES ASSUME IInv, CountersSpent, [Next]_vars, tx' # tx
               PROVE  tx'.ics \cap used = {}
    OBVIOUS
  <2>1. /\ settings \in Settings /\ Limit \in Nat /\ phase = "call"
        /\ (stage # "exit" => Spent) /\ (stage = "item" => Len(todo) \in {1, 2})
        /\ Early \in {0, 1} /\ IcMod >= Early + 7
    BY Sends, LimitType, EarlyType DEF IInv, TypeOK, CountersSpent, Early
  <2>2. ASSUME NEW b, NEW n \in 0..2, Takes(settings, b, n), tx' = b.message,
               stage # "exit", Limit + n <= Early + 7
        PROVE  tx'.ics \cap used = {}
    BY <2>1, <2>2, AskFresh
  <2>3. CASE stage \in {"icSnrm", "snrm"} /\ tx' = cl_snrmRequest(settings).message
    <3>1. Limit \in {0, Early}
      BY <2>3 DEF Limit
    <3>2. Limit + 0 <= Early + 7
      BY <2>1, <3>1
    <3> QED BY <2>1, <2>2, <2>3, <3>2, SnrmTakes
  <2>4. CASE stage \in {"icAarq", "aarq"} /\ tx' = cl_aarqRequest(settings).message
    <3>1. Limit \in {0, Early + 0}
      BY <2>1, <2>4 DEF Limit, Asked
    <3>2. Limit + 1 <= Early + 7
      BY <2>1, <3>1
    <3> QED BY <2>1, <2>2, <2>4, <3>2, AarqTakes DEF TakesOne
  <2>5. ASSUME stage \in {"icRead", "item"}, NEW cmd, NEW target,
               tx' = dlms_getLNPdu(settings, cmd, target).message
        PROVE  tx'.ics \cap used = {}
    <3>1. Limit \in {0, Early + 6 - Len(todo) + 0} /\ (stage = "icRead" => Limit = 0)
      BY <2>1, <2>5 DEF Limit, Asked
    <3>2. Limit + 1 <= Early + 7
      BY <2>1, <2>5, <3>1
    <3>3. Takes(settings, dlms_getLNPdu(settings, cmd, target), 1)
      BY <2>1, ServiceTakes DEF TakesOne
    <3> QED BY <2>2, <2>5, <3>2, <3>3
  <2>6. CASE stage = "auth" /\ tx' = cl_getApplicationAssociationRequest(settings).message
    <3>1. Limit = Early + 1 + 2 * 0
      BY <2>1, <2>6 DEF Limit, Asked
    <3>2. Limit + 2 <= Early + 7
      BY <2>1, <3>1
    <3> QED BY <2>1, <2>2, <2>6, <3>2, AuthTakes
  <2>7. CASE stage = "release" /\ tx' = cl_releaseRequest2(settings).message
    <3>1. Limit = Early + 6 + 0
      BY <2>1, <2>7 DEF Limit, Asked
    <3>2. Limit + 1 <= Early + 7
      BY <2>1, <3>1
    <3> QED BY <2>1, <2>2, <2>7, <3>2, ReleaseTakes DEF TakesOne
  <2>8. CASE stage \in {"icDisc", "disc"} /\ tx' = cl_disconnectRequest(settings).message
    <3>1. Limit \in {Early, Early + 7}
      BY <2>8 DEF Limit
    <3>2. Limit + 0 <= Early + 7
      BY <2>1, <3>1
    <3>3. Takes(settings, cl_disconnectRequest(settings), 0)
      BY <2>1, DisconnectTakes
    <3> QED BY <2>2, <2>8, <3>2, <3>3
  <2> QED BY <2>3, <2>4, <2>5, <2>6, <2>7, <2>8, Sends
<1> QED BY <1>1, InitIInv, NextIInv, InitSpent, NextSpent, PTL DEF Spec, CountersFresh
=============================================================================
