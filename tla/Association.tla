------------------------------ MODULE Association ------------------------------
(***************************************************************************)
(* How an application association is opened: the AARQ of cl_aarqRequest,   *)
(* the AARE read field by field by apdu_parsePDU, and the two challenges   *)
(* of HIGH_GMAC, as com_updateInvocationCounter and then                   *)
(* com_initializeConnection run them, with a meter that accepts, refuses   *)
(* or holds other keys, and a line that loses answers or delivers those of *)
(* both copies of a request.  Session abstracts the contents of an AARE to *)
(* "aare", "authRequired" and "rejected"; here they are read.              *)
(***************************************************************************)
EXTENDS Cipher

CONSTANTS
  Attempts,        \* the identities of the run: [authentication, security]
  ClientKeys, MeterKeys,  \* the client's keys and those a meter may hold
  Challenges,      \* what the meter may challenge with: non-empty
  Granted,         \* [conformance, pdu]: what the meter may grant
  Refusals,        \* [result, diagnostic] of a meter that refuses
  ContextNames     \* the names a refusing meter may answer with

(* "NONE" is the diagnostic of an acceptance; "none" and "PROOF" are what  *)
(* meter.refusal holds when no AARQ was refused.                           *)
ASSUME AssociationAssumption ==
  /\ Attempts \in Seq([authentication: {"NONE", "LOW", "HIGH_GMAC"},
                       security: {NONE, AUTHENTICATION_ENCRYPTION}])
  /\ \A i \in DOMAIN Attempts :
       Attempts[i].authentication = "HIGH_GMAC" => Attempts[i].security # NONE
  /\ Challenges \subseteq Seq(Nat) \ {<<>>}
  /\ Granted \subseteq [conformance: Nat, pdu: Nat]
  /\ \A r \in Refusals :
       r.result # "ACCEPTED" /\ r.diagnostic \notin {"NONE", "none", "PROOF"}

VARIABLES
  settings,   \* dlmsSettings: what an association changes
  attempt,    \* which identity is in use
  stage,      \* idle, aare (awaited), parsing, challenge, proof (awaited),
              \* open or failed
  ret,        \* the code returned
  fields,     \* the rest of the AARE
  parse,      \* result and diagnostic of apdu_parsePDU
  request,    \* the request the meter has not answered yet
  meter,      \* the meter's end of the association
  line,       \* answers not read yet
  disturbed   \* an answer was lost or delivered twice in this attempt

vars == <<settings, attempt, stage, ret, fields, parse, request, meter, line, disturbed>>
-----------------------------------------------------------------------------
CLIENT_TITLE == [i \in 1..8 |-> 1]
METER_TITLE  == [i \in 1..8 |-> 2]
EMPTY_TITLE  == [i \in 1..8 |-> 0]

INITIATE_REQUEST  == 1
INITIATE_RESPONSE == 8
DefaultPdu == 65535
Proposed   == 1     \* proposedConformance

(* The client's challenge: sixteen bytes, dlms_generateChallenge. *)
CtoS == [i \in 1..16 |-> 40 + i]

Field(tag, value) == [tag |-> tag, value |-> value, octets |-> <<>>, seal |-> NoTag]

NoRequest == [kind |-> "none", context |-> "LN", authentication |-> "NONE",
              challenge |-> <<>>, octets |-> <<>>, seal |-> NoTag, proof |-> NoTag]

isCiphered(s) == s.security # NONE

ContextName(s) == IF isCiphered(s) THEN "LN ciphered" ELSE "LN"

(* What com_updateInvocationCounter and main leave in the settings.        *)
Assume(s, identity) ==
  [s EXCEPT !.authentication = identity.authentication,
            !.security = identity.security, !.connected = FALSE,
            !.maxPduSize = DefaultPdu, !.stoCChallenge = <<>>,
            !.ctoSChallenge = IF identity.authentication = "HIGH_GMAC" THEN CtoS ELSE @]

apdu_getInitiateRequest(s) == <<INITIATE_REQUEST, 6, Proposed, s.maxPduSize>>

(* The AARQ: the name and mechanism of the settings, the challenge, and    *)
(* the initiate request, protected if the settings ask for it.             *)
apdu_generateAarq(s) ==
  LET text == apdu_getInitiateRequest(s)
      control == s.security + s.suite
  IN [NoRequest EXCEPT
        !.kind = "AARQ", !.context = ContextName(s), !.authentication = s.authentication,
        !.challenge = IF s.authentication = "HIGH_GMAC" THEN s.ctoSChallenge ELSE <<>>,
        !.octets = text,
        !.seal = IF isCiphered(s)
                 THEN gxgcm_getTag(control, s.invocationCounter, CLIENT_TITLE, ClientKeys, text)
                 ELSE NoTag]

(* Every encryption takes a counter. *)
Encrypted(s, n) == [s EXCEPT !.invocationCounter = @ + n]

(* The proof that the keys are known: the tag of a challenge. *)
dlms_secure(counter, title, challenge, suite) ==
  gxgcm_getTag(AUTHENTICATION + suite, counter, title, ClientKeys, challenge)

Init ==
  /\ settings \in {Assume([authentication |-> "NONE", security |-> NONE, suite |-> 0,
                           invocationCounter |-> 0, sourceSystemTitle |-> EMPTY_TITLE,
                           ctoSChallenge |-> <<>>, stoCChallenge |-> <<>>,
                           maxPduSize |-> 0, negotiatedConformance |-> 0,
                           connected |-> FALSE], Attempts[1])}
  /\ attempt = 1 /\ stage = "idle" /\ ret = "OK" /\ fields = <<>>
  /\ parse = [result |-> "ACCEPTED", diagnostic |-> "NONE"]
  /\ request = NoRequest
  /\ meter \in [assoc: {"none"}, authentication: {"NONE"}, keys: MeterKeys,
                conformance: {0}, pdu: {0}, stoC: {<<>>}, ctoS: {<<>>},
                refusal: {"none"}]
  /\ line = <<>> /\ disturbed = FALSE
-----------------------------------------------------------------------------
(* The client. *)

cl_aarqRequest ==
  /\ stage = "idle"
  /\ ~ isCiphered(settings) \/ cip_encryptAllowed(settings, ClientKeys)
  /\ request' = apdu_generateAarq(settings)
  /\ settings' = IF isCiphered(settings) THEN Encrypted(settings, 1) ELSE settings
  /\ stage' = "aare"
  /\ UNCHANGED <<attempt, ret, fields, parse, meter, line, disturbed>>

Fail(code) == stage' = "failed" /\ ret' = code

(* An answer arrives and is taken, whatever it answers. *)
apdu_validateAare ==
  /\ stage = "aare" /\ request = NoRequest /\ line # <<>>
  /\ line' = Tail(line)
  /\ IF Head(line).kind = "AARE"
     THEN stage' = "parsing" /\ fields' = Head(line).fields /\ ret' = ret
     ELSE Fail("INVALID_TAG") /\ fields' = <<>>
  /\ parse' = [result |-> "ACCEPTED", diagnostic |-> "NONE"]
  /\ UNCHANGED <<settings, attempt, request, meter, disturbed>>

Parsing(tag) == stage = "parsing" /\ fields # <<>> /\ Head(fields).tag = tag

NextField == fields' = Tail(fields) /\ UNCHANGED <<attempt, request, meter, line, disturbed>>

Taken == UNCHANGED <<stage, ret>>

(* Mutation of cl_parseAAREResponse: the result is not looked at. *)
cl_parseAAREResponseDiagnosticOnly(p) ==
  /\ settings' = [settings EXCEPT !.connected = p.diagnostic # "AUTHENTICATION_REQUIRED"]
  /\ stage' = IF settings.authentication = "HIGH_GMAC" THEN "challenge" ELSE "open"
  /\ ret' = "OK"

(* cl_parseAAREResponse after apdu_parsePDU returned 0. *)
cl_parseAAREResponse(p) ==
  IF p.result = "ACCEPTED"
  THEN /\ settings' = [settings EXCEPT !.connected = p.diagnostic # "AUTHENTICATION_REQUIRED"]
       /\ stage' = IF settings.authentication = "HIGH_GMAC" THEN "challenge" ELSE "open"
       /\ ret' = "OK"
  ELSE /\ Fail(IF p.result = "TRANSIENT_REJECTED" THEN "REJECTED_TRANSIENT"
               ELSE "REJECTED_PERMAMENT")
       /\ UNCHANGED settings

(* A name that is not known ends the parsing, without an error; whether it *)
(* is a ciphered one only matters to a server.                             *)
apdu_parseApplicationContextName ==
  /\ Parsing("context") /\ NextField /\ UNCHANGED parse
  /\ IF Head(fields).value \in {"LN", "LN ciphered"} THEN Taken /\ UNCHANGED settings
     ELSE cl_parseAAREResponse(parse)

ParseResult ==
  /\ Parsing("result") /\ NextField
  /\ parse' = [parse EXCEPT !.result = Head(fields).value]
  /\ Taken /\ UNCHANGED settings

ParseDiagnostic ==
  /\ Parsing("diagnostic") /\ NextField
  /\ parse' = [parse EXCEPT !.diagnostic = Head(fields).value]
  /\ Taken /\ UNCHANGED settings

(* Mutation of ParseTitle: a title of any length is kept. *)
ParseTitleAny ==
  /\ Parsing("title") /\ NextField
  /\ settings' = [settings EXCEPT !.sourceSystemTitle = Head(fields).octets]
  /\ Taken /\ UNCHANGED parse

ParseTitle ==
  /\ Parsing("title") /\ NextField
  /\ settings' = [settings EXCEPT !.sourceSystemTitle =
                    IF Len(Head(fields).octets) = 8 THEN Head(fields).octets ELSE EMPTY_TITLE]
  /\ Taken /\ UNCHANGED parse

(* A mechanism the library knows overwrites the one that was asked for.    *)
apdu_updateAuthentication ==
  /\ Parsing("mechanism") /\ NextField
  /\ IF Head(fields).value \in {"NONE", "LOW", "HIGH_GMAC"}
     THEN settings' = [settings EXCEPT !.authentication = Head(fields).value] /\ Taken
     ELSE Fail("INVALID_TAG") /\ UNCHANGED settings
  /\ UNCHANGED parse

ParseChallenge ==
  /\ Parsing("challenge") /\ NextField
  /\ settings' = [settings EXCEPT !.stoCChallenge = Head(fields).octets]
  /\ Taken /\ UNCHANGED parse

(* Of a tag that is not known only the tag itself is skipped; of the       *)
(* fields a meter sends, neither requirements nor protocol version have    *)
(* contents that look like another tag.                                    *)
SkipField ==
  /\ stage = "parsing" /\ fields # <<>>
  /\ Head(fields).tag \in {"requirements", "protocolVersion"} /\ NextField
  /\ Taken /\ UNCHANGED <<settings, parse>>

apdu_handleResultComponent(diagnostic) ==
  IF diagnostic \in {"NO_REASON_GIVEN", "AUTHENTICATION_FAILURE",
                     "APPLICATION_CONTEXT_NAME_NOT_SUPPORTED"}
  THEN diagnostic ELSE "OK"

(* The initiate response, its fields taken over one after the other.       *)
InitiateResponse(s, text) ==
  IF text[1] # INITIATE_RESPONSE
  THEN [ret |-> "INVALID_TAG", settings |-> s]
  ELSE IF text[2] < 6
  THEN [ret |-> "INVALID_VERSION_NUMBER", settings |-> s]
  ELSE [ret |-> IF text[5] = 7 THEN "OK" ELSE "INVALID_PARAMETER",
        settings |-> [s EXCEPT !.negotiatedConformance = text[3], !.maxPduSize = text[4]]]

(* Protection is checked when there is some, and then becomes that of the  *)
(* settings.                                                               *)
apdu_parseUserInformation(s, f) ==
  LET d == cip_decrypt(s, ClientKeys, s.sourceSystemTitle, f.octets, f.seal)
  IN IF f.seal = NoTag THEN InitiateResponse(s, f.octets)
     ELSE IF d # "OK" THEN [ret |-> d, settings |-> s]
     ELSE InitiateResponse([s EXCEPT !.security = Security(f.seal.control),
                                     !.suite = Suite(f.seal.control)], f.octets)

(* Mutation of Refused: user information is always read. *)
RefusedNever(p) == FALSE

(* User information is not read after a refusal: it may be invalid.        *)
Refused(p) == p.result # "ACCEPTED" /\ p.diagnostic # "NONE"

ParseUserInformation ==
  /\ Parsing("userInformation") /\ NextField /\ UNCHANGED parse
  /\ IF Refused(parse)
     THEN LET code == apdu_handleResultComponent(parse.diagnostic)
          IN IF code = "OK" THEN cl_parseAAREResponse(parse)
             ELSE Fail(code) /\ UNCHANGED settings
     ELSE LET d == apdu_parseUserInformation(settings, Head(fields))
          IN /\ settings' = d.settings
             /\ IF d.ret = "OK" THEN Taken ELSE Fail(d.ret)

(* The result component is checked again: a refusal may come without user  *)
(* information.                                                            *)
apdu_parsePDUEnd ==
  /\ stage = "parsing" /\ fields = <<>>
  /\ LET code == apdu_handleResultComponent(parse.diagnostic)
     IN IF code = "OK" THEN cl_parseAAREResponse(parse)
        ELSE Fail(code) /\ UNCHANGED settings
  /\ UNCHANGED <<attempt, fields, parse, request, meter, line, disturbed>>

(* The meter's challenge is answered: one counter for the proof and one    *)
(* for the ciphered request it travels in.                                 *)
cl_getApplicationAssociationRequest ==
  /\ stage = "challenge"
  /\ IF cip_encryptAllowed(settings, ClientKeys)
     THEN /\ request' = [NoRequest EXCEPT !.kind = "AUTH",
                           !.proof = dlms_secure(settings.invocationCounter, CLIENT_TITLE,
                                                 settings.stoCChallenge, settings.suite)]
          /\ settings' = Encrypted(settings, 2)
          /\ stage' = "proof" /\ ret' = ret
     ELSE Fail("INVALID_PARAMETER") /\ UNCHANGED <<request, settings>>
  /\ UNCHANGED <<attempt, fields, parse, meter, line, disturbed>>

dlms_handleGloDedResponse(s, a) ==
  cip_decrypt(s, ClientKeys, s.sourceSystemTitle, a.octets, a.seal)

(* The meter's proof, under protection, is compared with the client's own  *)
(* computation, which takes another counter.                               *)
cl_parseApplicationAssociationResponse ==
  /\ stage = "proof" /\ request = NoRequest /\ line # <<>>
  /\ line' = Tail(line)
  /\ LET a == Head(line)
         d == dlms_handleGloDedResponse(settings, a)
     IN IF a.kind # "AUTH"
        THEN /\ settings' = [settings EXCEPT !.connected = FALSE]
             /\ Fail("AUTHENTICATION_FAILURE")
        ELSE IF d # "OK" THEN Fail(d) /\ UNCHANGED settings
        ELSE IF a.proof = NoTag
        THEN /\ settings' = [settings EXCEPT !.connected = FALSE]
             /\ Fail("AUTHENTICATION_FAILURE")
        ELSE LET equals == a.proof = dlms_secure(a.proof.counter, settings.sourceSystemTitle,
                                                 settings.ctoSChallenge, settings.suite)
             IN /\ settings' = [Encrypted(settings, 1) EXCEPT !.connected = equals]
                /\ IF equals THEN stage' = "open" /\ ret' = "OK"
                   ELSE Fail("AUTHENTICATION_FAILURE")
  /\ UNCHANGED <<attempt, fields, parse, request, meter, disturbed>>

(* Both copies of a request have gone unanswered. *)
GiveUp ==
  /\ stage \in {"aare", "proof"} /\ request = NoRequest /\ line = <<>>
  /\ Fail("RECEIVE_FAILED")
  /\ UNCHANGED <<settings, attempt, fields, parse, request, meter, line, disturbed>>

(* The counter association was closed again, and main goes on with its own *)
(* identity. An answer left on the line is no AARE by then: it answers one *)
(* of the requests in between.                                             *)
NextAttempt ==
  /\ stage = "open" /\ attempt < Len(Attempts)
  /\ attempt' = attempt + 1
  /\ settings' = Assume(settings, Attempts[attempt + 1])
  /\ stage' = "idle" /\ ret' = "OK" /\ fields' = <<>>
  /\ meter' = [meter EXCEPT !.assoc = "none", !.authentication = "NONE"]
  /\ line' = [i \in DOMAIN line |-> [line[i] EXCEPT !.kind = "other", !.fields = <<>>]]
  /\ disturbed' = (line # <<>>)
  /\ UNCHANGED <<parse, request>>
-----------------------------------------------------------------------------
(* The meter and the line. *)

Answer(kind) == [kind |-> kind, fields |-> <<>>, octets |-> <<>>, seal |-> NoTag,
                 proof |-> NoTag]

(* The answer reaches the line, twice when the request had been resent, or *)
(* is lost.                                                                *)
Deliver(a) ==
  /\ request' = NoRequest
  /\ \E copies \in {<<a>>, <<>>, <<a, a>>} :
       /\ line' = line \o copies
       /\ disturbed' = (disturbed \/ copies # <<a>>)
  /\ UNCHANGED <<settings, attempt, stage, ret, fields, parse>>

LoseRequest ==
  /\ request # NoRequest /\ request' = NoRequest /\ disturbed' = TRUE
  /\ UNCHANGED <<settings, attempt, stage, ret, fields, parse, meter, line>>

MeterSeal(security, text) ==
  IF security = NONE THEN NoTag
  ELSE GcmTag(security, 7, METER_TITLE, meter.keys, text)

(* Does the meter understand the AARQ with the keys it holds? *)
Understood(q) ==
  q.seal = NoTag \/ q.seal = GcmTag(q.seal.control, q.seal.counter, CLIENT_TITLE,
                                    meter.keys, q.octets)

If(condition, s) == IF condition THEN s ELSE <<>>

Accepting(q, g, challenge) ==
  LET high == q.authentication = "HIGH_GMAC"
      text == <<INITIATE_RESPONSE, 6, g.conformance, g.pdu, 7>>
  IN <<Field("context", q.context), Field("result", "ACCEPTED"),
       Field("diagnostic", IF high THEN "AUTHENTICATION_REQUIRED" ELSE "NONE")>>
     \o If(high \/ q.seal # NoTag, <<[Field("title", "") EXCEPT !.octets = METER_TITLE]>>)
     \o If(high, <<Field("requirements", ""), Field("mechanism", q.authentication),
                   [Field("challenge", "") EXCEPT !.octets = challenge]>>)
     \o <<[Field("userInformation", "") EXCEPT
             !.octets = text, !.seal = MeterSeal(Security(q.seal.control), text)]>>

MeterAccepts ==
  /\ request.kind = "AARQ" /\ Understood(request)
  /\ \E g \in Granted, c \in Challenges :
       /\ meter' = [meter EXCEPT
            !.assoc = IF request.authentication = "HIGH_GMAC" THEN "pending" ELSE "open",
            !.authentication = request.authentication, !.conformance = g.conformance,
            !.pdu = g.pdu, !.stoC = c, !.ctoS = request.challenge]
       /\ Deliver([Answer("AARE") EXCEPT !.fields = Accepting(request, g, c)])

(* A refusal names its reason; it may carry a title of the wrong length,   *)
(* the mechanism the meter wants, if the library knows it, and user        *)
(* information that is not an initiate response.                           *)
Refusing(r, name, mechanism, information) ==
  <<Field("protocolVersion", ""), Field("context", name), Field("result", r.result),
    Field("diagnostic", r.diagnostic)>>
  \o If(mechanism, <<[Field("title", "") EXCEPT !.octets = <<2>>],
                      Field("mechanism", "HIGH_GMAC")>>)
  \o If(information, <<[Field("userInformation", "") EXCEPT !.octets = <<14>>]>>)

MeterRefuses ==
  /\ request.kind = "AARQ"
  /\ \E r \in Refusals, name \in ContextNames, m, i \in BOOLEAN :
       /\ meter' = [meter EXCEPT !.assoc = "none", !.refusal = r.diagnostic]
       /\ Deliver([Answer("AARE") EXCEPT !.fields = Refusing(r, name, m, i)])

(* The client's proof is checked against the meter's own challenge.        *)
MeterChecks ==
  /\ request.kind = "AUTH"
  /\ LET q == request.proof
         right == /\ meter.assoc = "pending"
                  /\ q = GcmTag(q.control, q.counter, CLIENT_TITLE, meter.keys, meter.stoC)
         proof == IF right THEN GcmTag(AUTHENTICATION, 8, METER_TITLE, meter.keys, meter.ctoS)
                  ELSE NoTag
         text  == <<proof.counter>>
     IN /\ meter' = IF right THEN [meter EXCEPT !.assoc = "open"]
                    ELSE [meter EXCEPT !.assoc = "none", !.refusal = "PROOF"]
        /\ Deliver([Answer("AUTH") EXCEPT
             !.proof = proof, !.octets = text,
             !.seal = MeterSeal(AUTHENTICATION_ENCRYPTION, text)])
-----------------------------------------------------------------------------
Parse == \/ apdu_parseApplicationContextName \/ ParseResult \/ ParseDiagnostic
         \/ ParseTitle \/ apdu_updateAuthentication \/ ParseChallenge \/ SkipField
         \/ ParseUserInformation \/ apdu_parsePDUEnd

Next == \/ cl_aarqRequest \/ apdu_validateAare \/ Parse
        \/ cl_getApplicationAssociationRequest \/ cl_parseApplicationAssociationResponse
        \/ GiveUp \/ NextAttempt
        \/ MeterAccepts \/ MeterRefuses \/ MeterChecks \/ LoseRequest

Spec == Init /\ [][Next]_vars
-----------------------------------------------------------------------------
SettingsType ==
  [authentication: {"NONE", "LOW", "HIGH_GMAC"},
   security: {NONE, AUTHENTICATION, AUTHENTICATION_ENCRYPTION},
   suite: 0..3, invocationCounter: Nat, sourceSystemTitle: [1..8 -> Nat],
   ctoSChallenge: Seq(Nat), stoCChallenge: Seq(Nat), maxPduSize: Nat,
   negotiatedConformance: Nat, connected: BOOLEAN]

TypeOK ==
  /\ settings \in SettingsType
  /\ attempt \in DOMAIN Attempts
  /\ stage \in {"idle", "aare", "parsing", "challenge", "proof", "open", "failed"}
  /\ meter.assoc \in {"none", "pending", "open"}

(* When the client goes on with an open association, the meter has it open *)
(* too, at the level and with the protection the program was started with, *)
(* both hold the limits the meter granted and, at the high level, the same *)
(* keys: whatever a refusal or a late answer left in the settings.         *)
Agreed ==
  stage = "open" =>
    /\ meter.assoc = "open" /\ settings.connected
    /\ meter.authentication = Attempts[attempt].authentication
    /\ settings.authentication = meter.authentication
    /\ settings.security = Attempts[attempt].security
    /\ settings.maxPduSize = meter.pdu
    /\ settings.negotiatedConformance = meter.conformance
    /\ meter.authentication = "HIGH_GMAC" => meter.keys = ClientKeys

(* With the right keys, a meter that accepts and a quiet line the          *)
(* association is opened: no step of the two challenges fails by itself.   *)
RightKeysOpen ==
  stage = "failed" =>
    \/ disturbed \/ meter.keys # ClientKeys
    \/ meter.refusal \notin {"none", "PROOF"}

(* An association the meter refused is reported with the meter's reason,   *)
(* also when the refusal carries invalid user information ("Some meters    *)
(* are returning invalid user-information if connection failed").          *)
ReasonTold ==
  stage = "failed" /\ ~ disturbed /\ meter.refusal \notin {"none", "PROOF"} =>
    ret = IF apdu_handleResultComponent(meter.refusal) # "OK" THEN meter.refusal
          ELSE IF parse.result = "TRANSIENT_REJECTED" THEN "REJECTED_TRANSIENT"
          ELSE "REJECTED_PERMAMENT"
================================================================================
