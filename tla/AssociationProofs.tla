--------------------------- MODULE AssociationProofs ---------------------------
(***************************************************************************)
(* An open association is one the meter has open too, for all attempts,    *)
(* keys, challenges, limits and reasons to refuse, as long as a meter      *)
(* answers with a context name the library knows; the reason of a refusal  *)
(* is told; and a client with the right keys gets in.                      *)
(*                                                                         *)
(* The first invariant, Inv, says stage by stage what is on the line:      *)
(* while an AARE is read, what is left of it either still ends in a        *)
(* refusal (a result that is not ACCEPTED was read or is to come) or is    *)
(* what the meter sent when it accepted, in which case the settings are    *)
(* untouched but for what the meter granted.  Told adds what a quiet line  *)
(* carries of a refusal, Opening what it carries of an acceptance.         *)
(***************************************************************************)
EXTENDS Association, SequenceTheorems, TLAPS

(* A sequence, and its elements. *)
IsSequence(s) == \E S : s \in Seq(S)
Elements(s) == {s[i] : i \in DOMAIN s}

(* A sequence is its head and its tail. *)
LEMMA HeadAndTail ==
  ASSUME NEW s, IsSequence(s), s # <<>>
  PROVE  /\ Head(s) \in Elements(s) /\ IsSequence(Tail(s))
         /\ Elements(s) = {Head(s)} \cup Elements(Tail(s))
<1>1. PICK S : s \in Seq(S)
  BY DEF IsSequence
<1>2. /\ Tail(s) \in Seq(S) /\ Len(Tail(s)) = Len(s) - 1
      /\ \A i \in 1 .. Len(Tail(s)) : Tail(s)[i] = s[i + 1]
  BY <1>1, HeadTailProperties
<1>3. Len(s) \in Nat /\ Len(s) >= 1 /\ DOMAIN s = 1..Len(s) /\ Head(s) = s[1]
  BY <1>1
<1>4. DOMAIN Tail(s) = 1..(Len(s) - 1)
  BY <1>2, <1>3
<1>5. \A i \in DOMAIN Tail(s) : Tail(s)[i] = s[i + 1] /\ i + 1 \in DOMAIN s
  BY <1>2, <1>3, <1>4
<1>6. \A i \in DOMAIN s : i # 1 => i - 1 \in DOMAIN Tail(s) /\ Tail(s)[i - 1] = s[i]
  BY <1>2, <1>3, <1>4
<1>7. Elements(s) = {Head(s)} \cup Elements(Tail(s))
  <2> DEFINE u == Tail(s)
             h == Head(s)
  <2>1. /\ 1 \in DOMAIN s /\ h = s[1]
        /\ \A i \in DOMAIN u : u[i] = s[i + 1] /\ i + 1 \in DOMAIN s
        /\ \A i \in DOMAIN s : i # 1 => i - 1 \in DOMAIN u /\ u[i - 1] = s[i]
    BY <1>3, <1>5, <1>6
  <2> HIDE DEF u, h
  <2>2. Elements(s) = {h} \cup Elements(u)
    BY <2>1 DEF Elements
  <2> QED BY <2>2 DEF u, h
<1> QED BY <1>2, <1>7 DEF IsSequence

(* The elements of two sequences, one behind the other. *)
LEMMA Concatenated ==
  ASSUME NEW s, NEW t, IsSequence(s), IsSequence(t)
  PROVE  IsSequence(s \o t) /\ Elements(s \o t) = Elements(s) \cup Elements(t)
<1>1. PICK S : s \in Seq(S)
  BY DEF IsSequence
<1>2. PICK T : t \in Seq(T)
  BY DEF IsSequence
<1>3. s \in Seq(S \cup T) /\ t \in Seq(S \cup T)
  BY <1>1, <1>2
<1>4. /\ s \o t \in Seq(S \cup T) /\ Len(s \o t) = Len(s) + Len(t)
      /\ \A i \in 1 .. Len(s) + Len(t) :
           (s \o t)[i] = IF i <= Len(s) THEN s[i] ELSE t[i - Len(s)]
  BY <1>3, ConcatProperties
<1>5. /\ Len(s) \in Nat /\ Len(t) \in Nat /\ DOMAIN s = 1..Len(s) /\ DOMAIN t = 1..Len(t)
      /\ DOMAIN (s \o t) = 1..(Len(s) + Len(t))
  BY <1>3, <1>4
<1>6. \A i \in DOMAIN s : i \in DOMAIN (s \o t) /\ (s \o t)[i] = s[i]
  BY <1>4, <1>5
<1>7. \A i \in DOMAIN t : i + Len(s) \in DOMAIN (s \o t) /\ (s \o t)[i + Len(s)] = t[i]
  BY <1>4, <1>5
<1>8. \A i \in DOMAIN (s \o t) : \/ i \in DOMAIN s /\ (s \o t)[i] = s[i]
                                 \/ i - Len(s) \in DOMAIN t /\ (s \o t)[i] = t[i - Len(s)]
  BY <1>4, <1>5
<1>9. Elements(s \o t) = Elements(s) \cup Elements(t)
  BY <1>6, <1>7, <1>8 DEF Elements
<1> QED BY <1>4, <1>9 DEF IsSequence

(* The elements of a sequence that is written out. *)
LEMMA Literals ==
  /\ IsSequence(<<>>) /\ Elements(<<>>) = {}
  /\ \A a : IsSequence(<<a>>) /\ Elements(<<a>>) = {a}
  /\ \A a, b : IsSequence(<<a, b>>) /\ Elements(<<a, b>>) = {a, b}
  /\ \A a, b, c : IsSequence(<<a, b, c>>) /\ Elements(<<a, b, c>>) = {a, b, c}
  /\ \A a, b, c, d : IsSequence(<<a, b, c, d>>) /\ Elements(<<a, b, c, d>>) = {a, b, c, d}
<1>1. IsSequence(<<>>) /\ Elements(<<>>) = {}
  <2>1. <<>> \in Seq({})
    OBVIOUS
  <2>2. DOMAIN <<>> = {}
    OBVIOUS
  <2> QED BY <2>1, <2>2 DEF IsSequence, Elements
<1>2. \A a : IsSequence(<<a>>) /\ Elements(<<a>>) = {a}
  <2> TAKE a
  <2>1. <<a>> \in Seq({a})
    OBVIOUS
  <2> DEFINE t == <<a>>
  <2>2. DOMAIN t = {1} /\ t[1] = a
    OBVIOUS
  <2> HIDE DEF t
  <2>3. Elements(t) = {a}
    BY <2>2 DEF Elements
  <2> QED BY <2>1, <2>3 DEF IsSequence, t
<1>3. \A a, b : IsSequence(<<a, b>>) /\ Elements(<<a, b>>) = {a, b}
  <2> TAKE a, b
  <2>1. <<a, b>> \in Seq({a, b})
    OBVIOUS
  <2> DEFINE t == <<a, b>>
  <2>2. DOMAIN t = {1, 2} /\ t[1] = a /\ t[2] = b
    OBVIOUS
  <2> HIDE DEF t
  <2>3. Elements(t) = {a, b}
    BY <2>2 DEF Elements
  <2> QED BY <2>1, <2>3 DEF IsSequence, t
<1>4. \A a, b, c : IsSequence(<<a, b, c>>) /\ Elements(<<a, b, c>>) = {a, b, c}
  <2> TAKE a, b, c
  <2>1. <<a, b, c>> \in Seq({a, b, c})
    OBVIOUS
  <2> DEFINE t == <<a, b, c>>
  <2>2. DOMAIN t = {1, 2, 3} /\ t[1] = a /\ t[2] = b /\ t[3] = c
    OBVIOUS
  <2> HIDE DEF t
  <2>3. Elements(t) = {a, b, c}
    BY <2>2 DEF Elements
  <2> QED BY <2>1, <2>3 DEF IsSequence, t
<1>5. \A a, b, c, d : IsSequence(<<a, b, c, d>>) /\ Elements(<<a, b, c, d>>) = {a, b, c, d}
  <2> TAKE a, b, c, d
  <2>1. <<a, b, c, d>> \in Seq({a, b, c, d})
    OBVIOUS
  <2> DEFINE t == <<a, b, c, d>>
  <2>2. DOMAIN t = {1, 2, 3, 4} /\ t[1] = a /\ t[2] = b /\ t[3] = c /\ t[4] = d
    OBVIOUS
  <2> HIDE DEF t
  <2>3. Elements(t) = {a, b, c, d}
    BY <2>2 DEF Elements
  <2> QED BY <2>1, <2>3 DEF IsSequence, t
<1> QED BY <1>1, <1>2, <1>3, <1>4, <1>5
-----------------------------------------------------------------------------
(* The names a meter may answer with are those the library knows.          *)
KnownNames == ContextNames \subseteq {"LN", "LN ciphered"}

Identity == Attempts[attempt]

IsMeter ==
  /\ meter = [assoc |-> meter.assoc, authentication |-> meter.authentication,
               keys |-> meter.keys, conformance |-> meter.conformance, pdu |-> meter.pdu,
               stoC |-> meter.stoC, ctoS |-> meter.ctoS, refusal |-> meter.refusal]
  /\ meter.assoc \in {"none", "pending", "open"}

IsParse == parse = [result |-> parse.result, diagnostic |-> parse.diagnostic]

FieldOK(f) ==
  /\ f.octets \in Seq(Nat) /\ f.seal.control \in Nat /\ Suite(f.seal.control) = 0
  /\ f.tag = "context" => f.value \in {"LN", "LN ciphered"}
  /\ f.tag = "userInformation" /\ f.octets[1] = INITIATE_RESPONSE =>
       f.octets[3] \in Nat /\ f.octets[4] \in Nat

(* The settings are still those the attempt began with. *)
Untouched ==
  settings.authentication = Identity.authentication /\ settings.security = Identity.security

Limits ==
  settings.maxPduSize = meter.pdu /\ settings.negotiatedConformance = meter.conformance

(* What is left of an AARE, F, ends in a refusal.                          *)
Refusal(F, result) ==
  /\ \A f \in F : f.tag = "result" => f.value # "ACCEPTED"
  /\ result # "ACCEPTED" \/ \E f \in F : f.tag = "result"

(* F is of the AARE of a meter that has accepted.                          *)
Accepted(f) ==
  /\ f.tag = "mechanism" => f.value = Identity.authentication
  /\ f.tag = "diagnostic" /\ Identity.authentication # "HIGH_GMAC" =>
       f.value # "AUTHENTICATION_REQUIRED"
  /\ f.tag = "userInformation" =>
       /\ f.octets[3] = meter.conformance /\ f.octets[4] = meter.pdu
       /\ f.seal = NoTag \/ Security(f.seal.control) = Identity.security

Acceptance(F) ==
  /\ meter.authentication = Identity.authentication
  /\ Identity.authentication # "HIGH_GMAC" => meter.assoc = "open"
  /\ \A f \in F : Accepted(f)

AareOK(a) ==
  /\ IsSequence(a.fields) /\ \A f \in Elements(a.fields) : FieldOK(f)
  /\ \/ Refusal(Elements(a.fields), "ACCEPTED")
     \/ /\ Acceptance(Elements(a.fields))
        /\ \E f \in Elements(a.fields) : f.tag = "userInformation"

Idle ==
  /\ Untouched /\ request = NoRequest
  /\ \A a \in Elements(line) : a.kind = "other"

Asked ==
  /\ request.kind = "AARQ" /\ request.authentication = Identity.authentication
  /\ request.context \in {"LN", "LN ciphered"}
  /\ request.seal.control \in Nat /\ Security(request.seal.control) = Identity.security
  /\ \A a \in Elements(line) : a.kind = "other"

Awaited ==
  /\ request = NoRequest
  /\ \A a \in Elements(line) : \/ a.kind = "other"
                               \/ a.kind = "AARE" /\ AareOK(a)

NoProof == \A a \in Elements(line) : a.kind # "AUTH"

Reading ==
  /\ request = NoRequest /\ NoProof
  /\ IsSequence(fields) /\ \A f \in Elements(fields) : FieldOK(f)
  /\ \/ Refusal(Elements(fields), parse.result)
     \/ /\ Untouched /\ Acceptance(Elements(fields))
        /\ Limits \/ \E f \in Elements(fields) : f.tag = "userInformation"
        /\ Identity.authentication # "HIGH_GMAC" => parse.diagnostic # "AUTHENTICATION_REQUIRED"

High ==
  /\ Identity.authentication = "HIGH_GMAC" /\ meter.authentication = "HIGH_GMAC"
  /\ Untouched /\ Limits

Proving ==
  \/ request.kind = "AUTH" /\ request.proof.key = ClientKeys /\ NoProof
  \/ /\ request = NoRequest
     /\ \A a \in Elements(line) : a.kind = "AUTH" /\ a.proof # NoTag =>
          meter.assoc = "open" /\ meter.keys = ClientKeys

StageInv ==
  /\ stage = "idle" => Idle
  /\ stage = "aare" => Untouched /\ (Asked \/ Awaited)
  /\ stage = "parsing" => Reading
  /\ stage = "challenge" => High /\ request = NoRequest /\ NoProof
  /\ stage = "proof" => High /\ Proving
  /\ stage \in {"open", "failed"} => request = NoRequest

IsLine == IsSequence(line) /\ \A a \in Elements(line) : "kind" \in DOMAIN a

Inv == TypeOK /\ IsMeter /\ IsParse /\ IsLine /\ StageInv /\ Agreed
-----------------------------------------------------------------------------
(* The identities of the attempts are the program's. *)
LEMMA Identities ==
  ASSUME NEW i \in DOMAIN Attempts
  PROVE  /\ Attempts[i].authentication \in {"NONE", "LOW", "HIGH_GMAC"}
         /\ Attempts[i].security \in {NONE, AUTHENTICATION_ENCRYPTION}
         /\ Attempts[i].authentication = "HIGH_GMAC" => Attempts[i].security # NONE
<1> DEFINE I == [authentication: {"NONE", "LOW", "HIGH_GMAC"},
                 security: {NONE, AUTHENTICATION_ENCRYPTION}]
<1>1. Attempts \in Seq(I)
  BY AssociationAssumption
<1>2. Attempts[i].authentication = "HIGH_GMAC" => Attempts[i].security # NONE
  BY AssociationAssumption
<1>3. \A x \in I : /\ x.authentication \in {"NONE", "LOW", "HIGH_GMAC"}
                  /\ x.security \in {NONE, AUTHENTICATION_ENCRYPTION}
  OBVIOUS
<1> HIDE DEF I
<1>4. Attempts[i] \in I
  BY <1>1
<1> QED BY <1>2, <1>3, <1>4

(* What a tag was computed from can be read off it. *)
LEMMA TagFields ==
  ASSUME NEW control, NEW counter, NEW title, NEW keys, NEW value
  PROVE  /\ gxgcm_getTag(control, counter, title, keys, value).control = control
         /\ gxgcm_getTag(control, counter, title, keys, value).key = keys
         /\ GcmTag(control, counter, title, keys, value).control = control
         /\ GcmTag(control, counter, title, keys, value).key = keys
         /\ NoTag.control = 0
<1> DEFINE T(hash) == Tag(control, counter, title, keys, value, hash)
<1>1. \A hash : T(hash).control = control /\ T(hash).key = keys
  BY DEF Tag
<1> HIDE DEF T
<1>2. T(gxgcm_getGHash(Security(control), control, keys.auth, value)).control = control
      /\ T(gxgcm_getGHash(Security(control), control, keys.auth, value)).key = keys
  BY <1>1
<1>3. T(GcmBlocks(Security(control), control, keys.auth, value)).control = control
      /\ T(GcmBlocks(Security(control), control, keys.auth, value)).key = keys
  BY <1>1
<1>4. NoTag.control = 0
  BY DEF NoTag
<1> QED BY <1>2, <1>3, <1>4 DEF T, gxgcm_getTag, GcmTag

(* An attempt begins with typed, untouched settings. *)
LEMMA AssumeType ==
  ASSUME NEW s \in SettingsType, NEW i \in DOMAIN Attempts
  PROVE  /\ Assume(s, Attempts[i]) \in SettingsType
         /\ Assume(s, Attempts[i]).authentication = Attempts[i].authentication
         /\ Assume(s, Attempts[i]).security = Attempts[i].security
<1>1. CtoS \in Seq(Nat) /\ <<>> \in Seq(Nat) /\ DefaultPdu \in Nat
  BY DEF CtoS, DefaultPdu
<1> QED BY <1>1, Identities DEF Assume, SettingsType

(* Encrypting changes the counter only. *)
LEMMA EncryptedType ==
  ASSUME NEW s \in SettingsType, NEW n \in Nat
  PROVE  /\ Encrypted(s, n) \in SettingsType
         /\ Encrypted(s, n).authentication = s.authentication
         /\ Encrypted(s, n).security = s.security
         /\ Encrypted(s, n).maxPduSize = s.maxPduSize
         /\ Encrypted(s, n).negotiatedConformance = s.negotiatedConformance
<1>1. s.invocationCounter + n \in Nat
  <2>1. s.invocationCounter \in Nat
    BY DEF SettingsType
  <2> QED BY <2>1
<1> DEFINE c == s.invocationCounter + n
<1>2. Encrypted(s, n) = [s EXCEPT !.invocationCounter = c]
  BY DEF Encrypted
<1> HIDE DEF c
<1> QED BY <1>1, <1>2 DEF SettingsType, c

(* The first identity of the run is in force, and nothing is on the line.  *)
LEMMA InitInv ==
  ASSUME Init, Attempts # <<>>
  PROVE  Inv
<1> DEFINE s0 == [authentication |-> "NONE", security |-> NONE, suite |-> 0,
                  invocationCounter |-> 0, sourceSystemTitle |-> EMPTY_TITLE,
                  ctoSChallenge |-> <<>>, stoCChallenge |-> <<>>,
                  maxPduSize |-> 0, negotiatedConformance |-> 0,
                  connected |-> FALSE]
<1>1. 1 \in DOMAIN Attempts
  BY AssociationAssumption
<1>2. s0 \in SettingsType
  BY DEF SettingsType, EMPTY_TITLE
<1>3. settings = Assume(s0, Attempts[1])
  BY DEF Init
<1>4. settings \in SettingsType /\ Untouched
  BY <1>1, <1>2, <1>3, AssumeType DEF Untouched, Identity, Init
<1>5. IsMeter /\ IsParse /\ TypeOK
  BY <1>1, <1>4 DEF Init, IsMeter, IsParse, TypeOK
<1>6. IsLine /\ Elements(line) = {}
  BY Literals DEF Init, IsLine
<1>7. stage = "idle" /\ request = NoRequest
  BY DEF Init
<1> QED BY <1>4, <1>5, <1>6, <1>7 DEF Inv, StageInv, Idle, Agreed

(* The AARQ asks for what the attempt is to be.                            *)
LEMMA AarqInv ==
  ASSUME Inv, cl_aarqRequest
  PROVE  Inv'
<1>1. settings \in SettingsType /\ Idle /\ attempt \in DOMAIN Attempts
  BY DEF cl_aarqRequest, Inv, StageInv, TypeOK
<1>2. settings' \in SettingsType /\ settings'.authentication = settings.authentication
        /\ settings'.security = settings.security
  BY <1>1, EncryptedType DEF cl_aarqRequest
<1>3. Untouched' /\ UNCHANGED Identity
  BY <1>1, <1>2 DEF Idle, Untouched, Identity, cl_aarqRequest
<1>4. /\ request'.kind = "AARQ" /\ request'.authentication = settings.authentication
      /\ request'.context \in {"LN", "LN ciphered"}
      /\ request'.seal =
           IF isCiphered(settings)
           THEN gxgcm_getTag(settings.security + settings.suite, settings.invocationCounter,
                             CLIENT_TITLE, ClientKeys, apdu_getInitiateRequest(settings))
           ELSE NoTag
  BY DEF cl_aarqRequest, apdu_generateAarq, NoRequest, ContextName
<1>5. request'.seal.control \in Nat /\ Security(request'.seal.control) = settings.security
  <2>1. settings.suite \in 0..3 /\ settings.security \in {NONE, AUTHENTICATION_ENCRYPTION}
    BY <1>1, Identities DEF SettingsType, Idle, Untouched, Identity
  <2>2. CASE isCiphered(settings)
    <3>1. request'.seal.control = 48 + settings.suite
      <4>1. request'.seal.control = settings.security + settings.suite
        <5>1. request'.seal =
                gxgcm_getTag(settings.security + settings.suite, settings.invocationCounter,
                             CLIENT_TITLE, ClientKeys, apdu_getInitiateRequest(settings))
          BY <2>2, <1>4
        <5> QED BY <5>1, TagFields
      <4>2. settings.security = 48
        BY <2>1, <2>2 DEF isCiphered, AUTHENTICATION_ENCRYPTION
      <4> QED BY <4>1, <4>2
    <3> QED BY <2>1, <2>2, <3>1 DEF isCiphered, Security, NONE, AUTHENTICATION_ENCRYPTION
  <2>3. CASE ~ isCiphered(settings)
    <3>1. request'.seal.control = 0
      BY <2>3, <1>4, TagFields
    <3> QED BY <2>3, <3>1 DEF isCiphered, Security, NONE
  <2> QED BY <2>2, <2>3
<1>6. Asked'
  BY <1>1, <1>3, <1>4, <1>5 DEF Asked, Idle, Untouched, cl_aarqRequest
<1>7. stage' = "aare" /\ UNCHANGED <<attempt, fields, parse, meter, line>>
  BY DEF cl_aarqRequest
<1>8. TypeOK' /\ IsMeter' /\ IsParse' /\ IsLine'
  BY <1>2, <1>7 DEF Inv, TypeOK, IsMeter, IsParse, IsLine
<1> QED BY <1>3, <1>6, <1>7, <1>8 DEF Inv, StageInv, Agreed

(* The request is the one the stage waits with.                            *)
LEMMA RequestOfStage ==
  ASSUME Inv
  PROVE  /\ request.kind = "AARQ" => stage = "aare" /\ Asked
         /\ request.kind = "AUTH" => stage = "proof" /\ High /\ NoProof
                                     /\ request.proof.key = ClientKeys
         /\ stage = "aare" /\ request = NoRequest => Untouched /\ Awaited
<1>1. NoRequest.kind = "none"
  BY DEF NoRequest
<1>2. stage \in {"idle", "aare", "parsing", "challenge", "proof", "open", "failed"}
  BY DEF Inv, TypeOK
<1>3. stage \in {"idle", "parsing", "challenge", "open", "failed"} => request.kind = "none"
  BY <1>1 DEF Inv, StageInv, Idle, Reading
<1>4. stage = "aare" => /\ Untouched /\ request.kind # "AUTH"
                        /\ request.kind = "AARQ" => Asked
                        /\ request = NoRequest => Awaited
  BY <1>1 DEF Inv, StageInv, Asked, Awaited
<1>5. stage = "proof" => /\ High /\ request.kind # "AARQ"
                         /\ request.kind = "AUTH" => NoProof /\ request.proof.key = ClientKeys
  BY <1>1 DEF Inv, StageInv, Proving
<1> QED BY <1>2, <1>3, <1>4, <1>5

(* An answer taken off the line leaves the line what it was. *)
LEMMA LineTaken ==
  ASSUME Inv, line # <<>>, line' = Tail(line)
  PROVE  /\ Head(line) \in Elements(line) /\ IsLine'
         /\ \A a \in Elements(line)' : a \in Elements(line)
<1>1. IsSequence(line) /\ \A a \in Elements(line) : "kind" \in DOMAIN a
  BY DEF Inv, IsLine
<1> DEFINE t == Tail(line)
           h == Head(line)
<1>2. h \in Elements(line) /\ IsSequence(t) /\ Elements(line) = {h} \cup Elements(t)
  BY <1>1, HeadAndTail
<1> HIDE DEF t, h
<1>3. line' = t
  BY DEF t
<1>4. Elements(line)' = Elements(t)
  BY <1>3 DEF Elements
<1>5. IsSequence(line)'
  BY <1>2, <1>3 DEF IsSequence
<1>6. IsLine'
  BY <1>1, <1>2, <1>4, <1>5 DEF IsLine
<1> QED BY <1>2, <1>4, <1>6 DEF h

(* The AARE that is taken is the one the meter sent, and is read next.     *)
LEMMA ValidateInv ==
  ASSUME Inv, apdu_validateAare
  PROVE  Inv'
<1> DEFINE a == Head(line)
<1>1. /\ stage = "aare" /\ request = NoRequest /\ line # <<>> /\ line' = Tail(line)
      /\ parse' = [result |-> "ACCEPTED", diagnostic |-> "NONE"]
      /\ UNCHANGED <<settings, attempt, request, meter, disturbed>>
      /\ \/ a.kind = "AARE" /\ stage' = "parsing" /\ fields' = a.fields
         \/ stage' = "failed"
  BY DEF apdu_validateAare, Fail
<1>2. Untouched /\ Awaited
  BY <1>1, RequestOfStage
<1>3. a \in Elements(line) /\ IsLine' /\ \A b \in Elements(line)' : b \in Elements(line)
  BY <1>1, LineTaken
<1> HIDE DEF a
<1>4. TypeOK' /\ IsMeter' /\ IsParse'
  BY <1>1 DEF Inv, TypeOK, IsMeter, IsParse
<1>5. stage' = "parsing" => Reading'
  <2> HAVE stage' = "parsing"
  <2>1. a.kind = "AARE" /\ fields' = a.fields
    BY <1>1
  <2>2. AareOK(a)
    BY <1>2, <1>3, <2>1 DEF Awaited
  <2> DEFINE F == Elements(a.fields)
  <2>3. Elements(fields)' = F
    BY <2>1 DEF Elements
  <2>4. IsSequence(a.fields) /\ \A f \in F : FieldOK(f)
    BY <2>2 DEF AareOK
  <2>5. \/ Refusal(F, "ACCEPTED")
        \/ Acceptance(F) /\ \E f \in F : f.tag = "userInformation"
    BY <2>2 DEF AareOK
  <2> HIDE DEF F
  <2>6. request' = NoRequest /\ NoProof'
    BY <1>1, <1>2, <1>3 DEF NoProof, Awaited
  <2>7. IsSequence(fields)' /\ (\A f \in Elements(fields) : FieldOK(f))'
    <3>1. (\A f \in Elements(fields) : FieldOK(f))'
      BY <2>3, <2>4 DEF FieldOK
    <3>2. IsSequence(fields)'
      BY <2>1, <2>4 DEF IsSequence
    <3> QED BY <3>1, <3>2
  <2>8. CASE Refusal(F, "ACCEPTED")
    <3>1. Refusal(Elements(fields), parse.result)'
      BY <1>1, <2>3, <2>8 DEF Refusal
    <3> QED BY <2>6, <2>7, <3>1 DEF Reading
  <2>9. CASE Acceptance(F) /\ \E f \in F : f.tag = "userInformation"
    <3>1. Acceptance(Elements(fields))'
      BY <1>1, <2>3, <2>9 DEF Acceptance, Accepted, Identity
    <3>2. Untouched' /\ (\E f \in Elements(fields) : f.tag = "userInformation")'
      BY <1>1, <1>2, <2>3, <2>9 DEF Untouched, Identity
    <3>3. parse'.diagnostic = "NONE"
      BY <1>1
    <3> QED BY <2>6, <2>7, <3>1, <3>2, <3>3 DEF Reading
  <2> QED BY <2>5, <2>8, <2>9
<1> QED BY <1>1, <1>3, <1>4, <1>5 DEF Inv, StageInv, Agreed

(* A field is taken off the AARE and nothing but the settings, what was    *)
(* parsed and the stage changes.                                           *)
LEMMA FieldTaken ==
  ASSUME Inv, stage = "parsing", fields # <<>>, NextField
  PROVE  /\ FieldOK(Head(fields)) /\ Head(fields) \in Elements(fields)
         /\ IsSequence(fields)' /\ (\A f \in Elements(fields) : FieldOK(f))'
         /\ Elements(fields) = {Head(fields)} \cup Elements(fields)'
         /\ IsMeter' /\ IsLine' /\ request' = NoRequest /\ NoProof'
         /\ UNCHANGED <<attempt, meter, line>>
<1> DEFINE t == Tail(fields)
           h == Head(fields)
<1>1. Reading
  BY DEF Inv, StageInv
<1>2. h \in Elements(fields) /\ IsSequence(t) /\ Elements(fields) = {h} \cup Elements(t)
  BY <1>1, HeadAndTail DEF Reading
<1>3. fields' = t /\ UNCHANGED <<attempt, request, meter, line>>
  BY DEF NextField
<1> HIDE DEF t, h
<1>4. Elements(fields)' = Elements(t)
  BY <1>3 DEF Elements
<1>5. FieldOK(h) /\ (\A f \in Elements(fields) : FieldOK(f))'
  BY <1>1, <1>2, <1>4 DEF Reading, FieldOK
<1>6. IsSequence(fields)'
  BY <1>2, <1>3 DEF IsSequence
<1>7. IsMeter' /\ IsLine' /\ request' = NoRequest /\ NoProof'
  BY <1>1, <1>3 DEF Inv, IsMeter, IsLine, Reading, NoProof, Elements
<1> QED BY <1>2, <1>3, <1>4, <1>5, <1>6, <1>7 DEF h

(* What is left of a refusal, or of an acceptance, is one still. *)
LEMMA RestOfFields ==
  ASSUME NEW F, NEW G, NEW h, NEW result, F = {h} \cup G
  PROVE  /\ Refusal(F, result) /\ h.tag # "result" => Refusal(G, result)
         /\ Refusal(F, result) /\ h.tag = "result" => Refusal(G, h.value)
         /\ Acceptance(F) => Acceptance(G) /\ Accepted(h)
BY DEF Refusal, Acceptance

(* Reading goes on. *)
LEMMA StillReading ==
  ASSUME Inv, stage = "parsing", fields # <<>>, NextField,
         settings' \in SettingsType, IsParse', stage' = "parsing",
         \/ Refusal(Elements(fields), parse.result)'
         \/ /\ Untouched' /\ Acceptance(Elements(fields))'
            /\ Limits' \/ (\E f \in Elements(fields) : f.tag = "userInformation")'
            /\ (Identity.authentication # "HIGH_GMAC"
                  => parse.diagnostic # "AUTHENTICATION_REQUIRED")'
  PROVE  Inv'
<1>1. /\ IsSequence(fields)' /\ (\A f \in Elements(fields) : FieldOK(f))'
      /\ IsMeter' /\ IsLine' /\ request' = NoRequest /\ NoProof'
      /\ UNCHANGED <<attempt, meter, line>>
  BY FieldTaken
<1>2. Reading'
  BY <1>1 DEF Reading
<1>3. TypeOK'
  BY <1>1 DEF Inv, TypeOK
<1> QED BY <1>1, <1>2, <1>3 DEF Inv, StageInv, Agreed

(* Reading ends: without an association, or with what the next step needs. *)
LEMMA ReadingFails ==
  ASSUME Inv, stage = "parsing", settings' \in SettingsType, IsParse',
         UNCHANGED <<attempt, request, meter, line>>, stage' = "failed"
  PROVE  Inv'
<1>1. request = NoRequest
  BY DEF Inv, StageInv, Reading
<1>2. TypeOK' /\ IsMeter' /\ IsLine'
  BY DEF Inv, TypeOK, IsMeter, IsLine, Elements
<1> QED BY <1>1, <1>2 DEF Inv, StageInv, Agreed

(* A step that leaves authentication, security and limits alone. *)
LEMMA SameIdentity ==
  ASSUME UNCHANGED <<attempt, meter>>,
         settings'.authentication = settings.authentication,
         settings'.security = settings.security,
         settings'.maxPduSize = settings.maxPduSize,
         settings'.negotiatedConformance = settings.negotiatedConformance
  PROVE  /\ Untouched' = Untouched /\ Limits' = Limits /\ Identity' = Identity
         /\ \A F : Acceptance(F)' = Acceptance(F)
BY DEF Untouched, Limits, Identity, Acceptance, Accepted

(* A field that is neither result nor diagnostic, mechanism or user        *)
(* information.                                                            *)
LEMMA QuietField ==
  ASSUME Inv, stage = "parsing", fields # <<>>, NextField,
         Head(fields).tag \notin {"result", "diagnostic", "userInformation"},
         UNCHANGED <<stage, parse>>, settings' \in SettingsType,
         settings'.authentication = settings.authentication,
         settings'.security = settings.security,
         settings'.maxPduSize = settings.maxPduSize,
         settings'.negotiatedConformance = settings.negotiatedConformance
  PROVE  Inv'
<1> DEFINE h == Head(fields)
           G == Elements(fields)'
           F == Elements(fields)
<1>1. F = {h} \cup G /\ UNCHANGED <<attempt, meter>>
  BY FieldTaken
<1>2. /\ Untouched' = Untouched /\ Limits' = Limits /\ Identity' = Identity
      /\ \A S : Acceptance(S)' = Acceptance(S)
  BY <1>1, SameIdentity
<1>3. Reading /\ IsParse
  BY DEF Inv, StageInv
<1>4. h.tag \notin {"result", "diagnostic", "userInformation"}
  OBVIOUS
<1> HIDE DEF h
<1>5. CASE Refusal(F, parse.result)
  <2>1. Refusal(G, parse.result)
    BY <1>1, <1>4, <1>5, RestOfFields
  <2>2. Refusal(Elements(fields), parse.result)'
    BY <2>1 DEF Refusal
  <2> QED BY <1>3, <2>2, StillReading DEF IsParse
<1>6. CASE /\ Untouched /\ Acceptance(F)
           /\ Limits \/ \E f \in F : f.tag = "userInformation"
           /\ Identity.authentication # "HIGH_GMAC" => parse.diagnostic # "AUTHENTICATION_REQUIRED"
  <2>1. Acceptance(G)
    BY <1>1, <1>6, RestOfFields
  <2>2. Acceptance(Elements(fields))'
    BY <1>1, <1>2, <2>1 DEF Acceptance, Accepted
  <2>3. Limits' \/ \E f \in G : f.tag = "userInformation"
    BY <1>1, <1>2, <1>4, <1>6
  <2> QED BY <1>2, <1>3, <1>6, <2>2, <2>3, StillReading DEF IsParse
<1> QED BY <1>3, <1>5, <1>6 DEF Reading

(* A context name that the library knows is read over. *)
LEMMA ContextInv ==
  ASSUME Inv, apdu_parseApplicationContextName
  PROVE  Inv'
<1>1. stage = "parsing" /\ fields # <<>> /\ NextField /\ Head(fields).tag = "context"
  BY DEF apdu_parseApplicationContextName, Parsing
<1>2. Head(fields).value \in {"LN", "LN ciphered"}
  BY <1>1, FieldTaken DEF FieldOK
<1>3. UNCHANGED <<stage, parse, settings>>
  BY <1>2 DEF apdu_parseApplicationContextName, Taken
<1>4. settings \in SettingsType
  BY DEF Inv, TypeOK
<1> QED BY <1>1, <1>3, <1>4, QuietField

(* A title is remembered, and nothing else. *)
LEMMA TitleInv ==
  ASSUME Inv, ParseTitle
  PROVE  Inv'
<1> DEFINE title == IF Len(Head(fields).octets) = 8 THEN Head(fields).octets ELSE EMPTY_TITLE
<1>1. stage = "parsing" /\ fields # <<>> /\ NextField /\ Head(fields).tag = "title"
  BY DEF ParseTitle, Parsing
<1>2. UNCHANGED <<stage, parse>> /\ settings' = [settings EXCEPT !.sourceSystemTitle = title]
  BY DEF ParseTitle, Taken
<1>3. title \in [1..8 -> Nat]
  <2>1. Head(fields).octets \in Seq(Nat)
    BY <1>1, FieldTaken DEF FieldOK
  <2>2. \A q \in Seq(Nat) : Len(q) = 8 => q \in [1..8 -> Nat]
    <3> SUFFICES ASSUME NEW q \in Seq(Nat), Len(q) = 8  PROVE q \in [1..8 -> Nat]
      OBVIOUS
    <3>1. q \in [1..Len(q) -> Nat]
      BY LenProperties
    <3> QED BY <3>1
  <2>3. EMPTY_TITLE \in [1..8 -> Nat]
    BY DEF EMPTY_TITLE
  <2> QED BY <2>1, <2>2, <2>3
<1>4. settings \in SettingsType
  BY DEF Inv, TypeOK
<1> HIDE DEF title
<1>5. /\ settings' \in SettingsType
      /\ settings'.authentication = settings.authentication
      /\ settings'.security = settings.security
      /\ settings'.maxPduSize = settings.maxPduSize
      /\ settings'.negotiatedConformance = settings.negotiatedConformance
  BY <1>2, <1>3, <1>4 DEF SettingsType
<1> QED BY <1>1, <1>2, <1>5, QuietField

(* A challenge is remembered, and nothing else. *)
LEMMA ChallengeInv ==
  ASSUME Inv, ParseChallenge
  PROVE  Inv'
<1> DEFINE value == Head(fields).octets
<1>1. stage = "parsing" /\ fields # <<>> /\ NextField /\ Head(fields).tag = "challenge"
  BY DEF ParseChallenge, Parsing
<1>2. UNCHANGED <<stage, parse>> /\ settings' = [settings EXCEPT !.stoCChallenge = value]
  BY DEF ParseChallenge, Taken
<1>3. value \in Seq(Nat)
  BY <1>1, FieldTaken DEF FieldOK
<1>4. settings \in SettingsType
  BY DEF Inv, TypeOK
<1> HIDE DEF value
<1>5. /\ settings' \in SettingsType
      /\ settings'.authentication = settings.authentication
      /\ settings'.security = settings.security
      /\ settings'.maxPduSize = settings.maxPduSize
      /\ settings'.negotiatedConformance = settings.negotiatedConformance
  BY <1>2, <1>3, <1>4 DEF SettingsType
<1> QED BY <1>1, <1>2, <1>5, QuietField

(* A field that is skipped. *)
LEMMA SkipInv ==
  ASSUME Inv, SkipField
  PROVE  Inv'
<1>1. /\ stage = "parsing" /\ fields # <<>> /\ NextField
      /\ Head(fields).tag \in {"requirements", "protocolVersion"}
      /\ UNCHANGED <<stage, parse, settings>>
  BY DEF SkipField, Taken
<1>2. settings \in SettingsType
  BY DEF Inv, TypeOK
<1> QED BY <1>1, <1>2, QuietField

(* The result decides between a refusal and an acceptance. *)
LEMMA ResultInv ==
  ASSUME Inv, ParseResult
  PROVE  Inv'
<1> DEFINE h == Head(fields)
           G == Elements(fields)'
           F == Elements(fields)
<1>1. /\ stage = "parsing" /\ fields # <<>> /\ NextField /\ h.tag = "result"
      /\ UNCHANGED <<stage, settings>> /\ parse' = [parse EXCEPT !.result = h.value]
  BY DEF ParseResult, Parsing, Taken
<1>2. F = {h} \cup G /\ UNCHANGED <<attempt, meter>>
  BY <1>1, FieldTaken
<1>3. Reading /\ IsParse /\ settings \in SettingsType
  BY <1>1 DEF Inv, StageInv, TypeOK
<1> HIDE DEF h
<1>4. parse' = [result |-> h.value, diagnostic |-> parse.diagnostic] /\ IsParse'
  BY <1>1, <1>3 DEF IsParse
<1>5. parse'.result = h.value /\ parse'.diagnostic = parse.diagnostic
  BY <1>4
<1>6. /\ Untouched' = Untouched /\ Limits' = Limits /\ Identity' = Identity
  BY <1>1, <1>2, SameIdentity
<1>7. CASE Refusal(F, parse.result)
  <2>1. Refusal(G, h.value)
    BY <1>1, <1>2, <1>7, RestOfFields
  <2>2. Refusal(Elements(fields), parse.result)'
    BY <1>5, <2>1 DEF Refusal
  <2> QED BY <1>1, <1>3, <1>4, <2>2, StillReading
<1>8. CASE /\ Untouched /\ Acceptance(F)
           /\ Limits \/ \E f \in F : f.tag = "userInformation"
           /\ Identity.authentication # "HIGH_GMAC" => parse.diagnostic # "AUTHENTICATION_REQUIRED"
  <2>1. Acceptance(G)
    BY <1>2, <1>8, RestOfFields
  <2>2. Acceptance(Elements(fields))'
    BY <1>1, <1>2, <1>6, <2>1 DEF Acceptance, Accepted
  <2>3. Limits' \/ \E f \in G : f.tag = "userInformation"
    BY <1>1, <1>2, <1>6, <1>8
  <2> QED BY <1>1, <1>3, <1>4, <1>5, <1>6, <1>8, <2>2, <2>3, StillReading
<1> QED BY <1>3, <1>7, <1>8 DEF Reading

(* The diagnostic is read. *)
LEMMA DiagnosticInv ==
  ASSUME Inv, ParseDiagnostic
  PROVE  Inv'
<1> DEFINE h == Head(fields)
           G == Elements(fields)'
           F == Elements(fields)
<1>1. /\ stage = "parsing" /\ fields # <<>> /\ NextField /\ h.tag = "diagnostic"
      /\ UNCHANGED <<stage, settings>> /\ parse' = [parse EXCEPT !.diagnostic = h.value]
  BY DEF ParseDiagnostic, Parsing, Taken
<1>2. F = {h} \cup G /\ UNCHANGED <<attempt, meter>>
  BY <1>1, FieldTaken
<1>3. Reading /\ IsParse /\ settings \in SettingsType
  BY <1>1 DEF Inv, StageInv, TypeOK
<1> HIDE DEF h
<1>4. parse' = [result |-> parse.result, diagnostic |-> h.value] /\ IsParse'
  BY <1>1, <1>3 DEF IsParse
<1>5. parse'.result = parse.result /\ parse'.diagnostic = h.value
  BY <1>4
<1>6. /\ Untouched' = Untouched /\ Limits' = Limits /\ Identity' = Identity
  BY <1>1, <1>2, SameIdentity
<1>7. CASE Refusal(F, parse.result)
  <2>1. Refusal(G, parse.result)
    BY <1>1, <1>2, <1>7, RestOfFields
  <2>2. Refusal(Elements(fields), parse.result)'
    BY <1>5, <2>1 DEF Refusal
  <2> QED BY <1>1, <1>3, <1>4, <2>2, StillReading
<1>8. CASE /\ Untouched /\ Acceptance(F)
           /\ Limits \/ \E f \in F : f.tag = "userInformation"
           /\ Identity.authentication # "HIGH_GMAC" => parse.diagnostic # "AUTHENTICATION_REQUIRED"
  <2>1. Acceptance(G) /\ Accepted(h)
    BY <1>2, <1>8, RestOfFields
  <2>2. Acceptance(Elements(fields))'
    BY <1>1, <1>2, <1>6, <2>1 DEF Acceptance, Accepted
  <2>3. Limits' \/ \E f \in G : f.tag = "userInformation"
    BY <1>1, <1>2, <1>6, <1>8
  <2>4. (Identity.authentication # "HIGH_GMAC" => parse.diagnostic # "AUTHENTICATION_REQUIRED")'
    BY <1>1, <1>5, <1>6, <2>1 DEF Accepted
  <2> QED BY <1>1, <1>3, <1>4, <1>6, <1>8, <2>2, <2>3, <2>4, StillReading
<1> QED BY <1>3, <1>7, <1>8 DEF Reading

(* Only a meter that accepts answers with the mechanism that was asked for; *)
(* any other leaves a refusal.                                             *)
LEMMA MechanismInv ==
  ASSUME Inv, apdu_updateAuthentication
  PROVE  Inv'
<1> DEFINE h == Head(fields)
           G == Elements(fields)'
           F == Elements(fields)
<1>1. /\ stage = "parsing" /\ fields # <<>> /\ NextField /\ h.tag = "mechanism"
      /\ UNCHANGED parse
      /\ \/ /\ h.value \in {"NONE", "LOW", "HIGH_GMAC"} /\ UNCHANGED stage
            /\ settings' = [settings EXCEPT !.authentication = h.value]
         \/ stage' = "failed" /\ UNCHANGED settings
  BY DEF apdu_updateAuthentication, Parsing, Taken, Fail
<1>2. F = {h} \cup G /\ UNCHANGED <<attempt, meter>>
  BY <1>1, FieldTaken
<1>3. Reading /\ IsParse /\ IsParse' /\ settings \in SettingsType
  BY <1>1 DEF Inv, StageInv, TypeOK, IsParse
<1> HIDE DEF h
<1>4. CASE stage' = "failed" /\ UNCHANGED settings
  <2>1. UNCHANGED <<attempt, request, meter, line>>
    BY <1>1 DEF NextField
  <2> QED BY <1>1, <1>3, <1>4, <2>1, ReadingFails
<1>5. CASE /\ h.value \in {"NONE", "LOW", "HIGH_GMAC"} /\ UNCHANGED stage
           /\ settings' = [settings EXCEPT !.authentication = h.value]
  <2>1. /\ settings' \in SettingsType /\ settings'.authentication = h.value
        /\ settings'.security = settings.security
        /\ settings'.maxPduSize = settings.maxPduSize
        /\ settings'.negotiatedConformance = settings.negotiatedConformance
    BY <1>3, <1>5 DEF SettingsType
  <2>2. CASE Refusal(F, parse.result)
    <3>1. Refusal(G, parse.result)
      BY <1>1, <1>2, <2>2, RestOfFields
    <3>2. Refusal(Elements(fields), parse.result)'
      BY <1>1, <3>1 DEF Refusal
    <3> QED BY <1>1, <1>3, <1>5, <2>1, <3>2, StillReading
  <2>3. CASE /\ Untouched /\ Acceptance(F)
             /\ Limits \/ \E f \in F : f.tag = "userInformation"
             /\ Identity.authentication # "HIGH_GMAC"
                  => parse.diagnostic # "AUTHENTICATION_REQUIRED"
    <3>1. Acceptance(G) /\ Accepted(h)
      BY <1>2, <2>3, RestOfFields
    <3>2. settings'.authentication = settings.authentication
      BY <1>1, <2>1, <2>3, <3>1 DEF Accepted, Untouched
    <3>3. Untouched' = Untouched /\ Limits' = Limits /\ Identity' = Identity
      BY <1>2, <2>1, <3>2, SameIdentity
    <3>4. Acceptance(Elements(fields))'
      BY <1>2, <3>1, <3>3 DEF Acceptance, Accepted
    <3>5. Limits' \/ \E f \in G : f.tag = "userInformation"
      BY <1>1, <1>2, <2>3, <3>3
    <3> QED BY <1>1, <1>3, <1>5, <2>1, <2>3, <3>3, <3>4, <3>5, StillReading
  <2> QED BY <1>3, <2>2, <2>3 DEF Reading
<1> QED BY <1>1, <1>4, <1>5

(* What an initiate response does to the settings. *)
LEMMA InitiateType ==
  ASSUME NEW s \in SettingsType, NEW text,
         text[1] = INITIATE_RESPONSE => text[3] \in Nat /\ text[4] \in Nat
  PROVE  LET d == InitiateResponse(s, text)
         IN /\ d.settings \in SettingsType
            /\ d.settings.authentication = s.authentication
            /\ d.settings.security = s.security
            /\ d.ret = "OK" => /\ d.settings.maxPduSize = text[4]
                               /\ d.settings.negotiatedConformance = text[3]
<1> DEFINE u == [s EXCEPT !.negotiatedConformance = text[3], !.maxPduSize = text[4]]
           d == InitiateResponse(s, text)
<1>1. \/ d.ret # "OK" /\ d.settings = s
      \/ text[1] = INITIATE_RESPONSE /\ d.settings = u
  <2>1. CASE text[1] # INITIATE_RESPONSE
    <3>1. d = [ret |-> "INVALID_TAG", settings |-> s]
      BY <2>1 DEF InitiateResponse
    <3> QED BY <3>1
  <2>2. CASE text[1] = INITIATE_RESPONSE /\ text[2] < 6
    <3>1. d = [ret |-> "INVALID_VERSION_NUMBER", settings |-> s]
      BY <2>2 DEF InitiateResponse
    <3> QED BY <3>1
  <2>3. CASE text[1] = INITIATE_RESPONSE /\ ~ text[2] < 6
    <3>1. d.settings = u
      BY <2>3 DEF InitiateResponse
    <3> QED BY <2>3, <3>1
  <2> QED BY <2>1, <2>2, <2>3
<1>2. text[3] \in Nat /\ text[4] \in Nat =>
        /\ u \in SettingsType /\ u.authentication = s.authentication /\ u.security = s.security
        /\ u.maxPduSize = text[4] /\ u.negotiatedConformance = text[3]
  BY DEF SettingsType
<1> HIDE DEF u, d
<1>3. /\ d.settings \in SettingsType
      /\ d.settings.authentication = s.authentication
      /\ d.settings.security = s.security
      /\ d.ret = "OK" => /\ d.settings.maxPduSize = text[4]
                         /\ d.settings.negotiatedConformance = text[3]
  BY <1>1, <1>2
<1> QED BY <1>3 DEF d

(* A control byte's bits. *)
LEMMA ControlBits ==
  ASSUME NEW control \in Nat
  PROVE  /\ Security(control) \in {0, 16, 32, 48} /\ Suite(control) \in 0..3
<1>1. (control \div 16) \in Nat
  OBVIOUS
<1>2. \A n \in Nat : n % 4 \in {0, 1, 2, 3}
  OBVIOUS
<1>3. (control \div 16) % 4 \in {0, 1, 2, 3} /\ control % 4 \in {0, 1, 2, 3}
  BY <1>1, <1>2
<1> QED BY <1>3 DEF Security, Suite

(* User information, as the client takes it over. *)
LEMMA UserInformationType ==
  ASSUME NEW s \in SettingsType, NEW f, f.seal.control \in Nat,
         f.octets[1] = INITIATE_RESPONSE => f.octets[3] \in Nat /\ f.octets[4] \in Nat
  PROVE  LET d == apdu_parseUserInformation(s, f)
         IN /\ d.settings \in SettingsType
            /\ d.settings.authentication = s.authentication
            /\ \/ d.settings.security = s.security
               \/ f.seal # NoTag /\ d.settings.security = Security(f.seal.control)
            /\ d.ret = "OK" => /\ d.settings.maxPduSize = f.octets[4]
                               /\ d.settings.negotiatedConformance = f.octets[3]
<1> DEFINE d == apdu_parseUserInformation(s, f)
           c == cip_decrypt(s, ClientKeys, s.sourceSystemTitle, f.octets, f.seal)
           u == [s EXCEPT !.security = Security(f.seal.control), !.suite = Suite(f.seal.control)]
<1>1. \/ d = InitiateResponse(s, f.octets)
      \/ c # "OK" /\ d = [ret |-> c, settings |-> s]
      \/ f.seal # NoTag /\ c = "OK" /\ d = InitiateResponse(u, f.octets)
  BY DEF apdu_parseUserInformation
<1>2. c = "OK" => /\ u \in SettingsType /\ u.authentication = s.authentication
                  /\ u.security = Security(f.seal.control)
  <2> HAVE c = "OK"
  <2>1. Security(f.seal.control) \in {AUTHENTICATION, AUTHENTICATION_ENCRYPTION}
    BY DEF cip_decrypt
  <2>2. Suite(f.seal.control) \in 0..3
    BY ControlBits
  <2> QED BY <2>1, <2>2 DEF SettingsType
<1> HIDE DEF d, c, u
<1>3. /\ d.settings \in SettingsType
      /\ d.settings.authentication = s.authentication
      /\ \/ d.settings.security = s.security
         \/ f.seal # NoTag /\ d.settings.security = Security(f.seal.control)
      /\ d.ret = "OK" => /\ d.settings.maxPduSize = f.octets[4]
                         /\ d.settings.negotiatedConformance = f.octets[3]
  <2>1. CASE d = InitiateResponse(s, f.octets)
    BY <2>1, InitiateType
  <2>2. CASE c # "OK" /\ d = [ret |-> c, settings |-> s]
    BY <2>2
  <2>3. CASE f.seal # NoTag /\ c = "OK" /\ d = InitiateResponse(u, f.octets)
    <3>1. u \in SettingsType
      BY <1>2, <2>3
    <3>2. /\ d.settings \in SettingsType
          /\ d.settings.authentication = u.authentication
          /\ d.settings.security = u.security
          /\ d.ret = "OK" => /\ d.settings.maxPduSize = f.octets[4]
                             /\ d.settings.negotiatedConformance = f.octets[3]
      BY <2>3, <3>1, InitiateType
    <3> QED BY <1>2, <2>3, <3>2
  <2> QED BY <1>1, <2>1, <2>2, <2>3
<1> QED BY <1>3 DEF d

(* The decision after the last field, or after a refused one. *)
LEMMA DecisionInv ==
  ASSUME Inv, stage = "parsing", UNCHANGED <<attempt, parse, request, meter, line>>,
         cl_parseAAREResponse(parse),
         \/ parse.result # "ACCEPTED"
         \/ /\ Untouched /\ Limits /\ Acceptance({})
            /\ Identity.authentication # "HIGH_GMAC" => parse.diagnostic # "AUTHENTICATION_REQUIRED"
  PROVE  Inv'
<1>1. settings \in SettingsType /\ IsParse /\ IsParse' /\ Reading
  BY DEF Inv, TypeOK, IsParse, StageInv
<1>2. CASE parse.result # "ACCEPTED"
  <2>1. stage' = "failed" /\ UNCHANGED settings
    BY <1>2 DEF cl_parseAAREResponse, Fail
  <2> QED BY <1>1, <2>1, ReadingFails
<1>3. CASE /\ parse.result = "ACCEPTED"
           /\ Untouched /\ Limits /\ Acceptance({})
           /\ Identity.authentication # "HIGH_GMAC" => parse.diagnostic # "AUTHENTICATION_REQUIRED"
  <2> DEFINE c == parse.diagnostic # "AUTHENTICATION_REQUIRED"
  <2>1. /\ settings' = [settings EXCEPT !.connected = c]
        /\ stage' = IF settings.authentication = "HIGH_GMAC" THEN "challenge" ELSE "open"
    BY <1>3 DEF cl_parseAAREResponse
  <2>2. c \in BOOLEAN
    OBVIOUS
  <2>3. Identity.authentication # "HIGH_GMAC" => c
    BY <1>3
  <2> HIDE DEF c
  <2>4. /\ settings' \in SettingsType /\ settings'.connected = c
        /\ settings'.authentication = settings.authentication
        /\ settings'.security = settings.security
        /\ settings'.maxPduSize = settings.maxPduSize
        /\ settings'.negotiatedConformance = settings.negotiatedConformance
    BY <1>1, <2>1, <2>2 DEF SettingsType
  <2>5. Untouched' = Untouched /\ Limits' = Limits /\ Identity' = Identity
    BY <2>4, SameIdentity
  <2>6. TypeOK' /\ IsMeter' /\ IsLine'
    BY <2>1, <2>4 DEF Inv, TypeOK, IsMeter, IsLine, Elements
  <2>7. NoProof' /\ request' = NoRequest
    BY <1>1 DEF Reading, NoProof, Elements
  <2>8. settings.authentication = Identity.authentication
        /\ meter.authentication = Identity.authentication
        /\ (Identity.authentication # "HIGH_GMAC" => meter.assoc = "open")
    BY <1>3 DEF Untouched, Acceptance
  <2>9. stage' = "challenge" => High'
    BY <1>3, <2>1, <2>5, <2>8 DEF High
  <2>10. stage' = "open" => Agreed'
    BY <1>3, <2>1, <2>3, <2>4, <2>5, <2>8 DEF Agreed, Untouched, Limits, Identity
  <2>11. stage' \in {"challenge", "open"}
    BY <2>1
  <2>12. Agreed'
    BY <2>10, <2>11 DEF Agreed
  <2>13. StageInv'
    BY <2>7, <2>9, <2>11 DEF StageInv
  <2> QED BY <1>1, <2>6, <2>12, <2>13 DEF Inv
<1> QED BY <1>2, <1>3

(* User information is read over after a refusal, or says what was granted. *)
LEMMA UserInformationInv ==
  ASSUME Inv, ParseUserInformation
  PROVE  Inv'
<1> DEFINE h == Head(fields)
           G == Elements(fields)'
           F == Elements(fields)
           d == apdu_parseUserInformation(settings, h)
<1>1. /\ stage = "parsing" /\ fields # <<>> /\ NextField /\ h.tag = "userInformation"
      /\ UNCHANGED parse
      /\ \/ Refused(parse) /\ cl_parseAAREResponse(parse)
         \/ stage' = "failed" /\ UNCHANGED settings
         \/ settings' = d.settings /\ stage' = "failed"
         \/ settings' = d.settings /\ UNCHANGED stage /\ d.ret = "OK"
  <2>1. CASE Refused(parse)
    BY <2>1 DEF ParseUserInformation, Parsing, Fail
  <2>2. CASE ~ Refused(parse)
    BY <2>2 DEF ParseUserInformation, Parsing, Taken, Fail
  <2> QED BY <2>1, <2>2
<1>2. /\ F = {h} \cup G /\ FieldOK(h)
      /\ UNCHANGED <<attempt, request, meter, line>>
  BY <1>1, FieldTaken DEF NextField
<1>3. Reading /\ IsParse /\ IsParse' /\ settings \in SettingsType
  BY <1>1 DEF Inv, StageInv, TypeOK, IsParse
<1>4. /\ d.settings \in SettingsType
      /\ d.settings.authentication = settings.authentication
      /\ \/ d.settings.security = settings.security
         \/ h.seal # NoTag /\ d.settings.security = Security(h.seal.control)
      /\ d.ret = "OK" => /\ d.settings.maxPduSize = h.octets[4]
                         /\ d.settings.negotiatedConformance = h.octets[3]
  <2>1. h.seal.control \in Nat
        /\ (h.octets[1] = INITIATE_RESPONSE => h.octets[3] \in Nat /\ h.octets[4] \in Nat)
    BY <1>1, <1>2 DEF FieldOK
  <2> HIDE DEF h
  <2> QED BY <1>3, <2>1, UserInformationType
<1> HIDE DEF h, d
<1>5. CASE Refused(parse) /\ cl_parseAAREResponse(parse)
  <2>1. parse.result # "ACCEPTED"
    BY <1>5 DEF Refused
  <2> QED BY <1>1, <1>2, <1>5, <2>1, DecisionInv
<1>6. CASE stage' = "failed" /\ settings' \in SettingsType
  BY <1>1, <1>2, <1>3, <1>6, ReadingFails
<1>7. CASE settings' = d.settings /\ UNCHANGED stage /\ d.ret = "OK"
  <2>1. settings' \in SettingsType
    BY <1>4, <1>7
  <2>2. CASE Refusal(F, parse.result)
    <3>1. Refusal(G, parse.result)
      BY <1>1, <1>2, <2>2, RestOfFields
    <3>2. Refusal(Elements(fields), parse.result)'
      BY <1>1, <3>1 DEF Refusal
    <3> QED BY <1>1, <1>3, <1>7, <2>1, <3>2, StillReading
  <2>3. CASE /\ Untouched /\ Acceptance(F)
             /\ Identity.authentication # "HIGH_GMAC"
                  => parse.diagnostic # "AUTHENTICATION_REQUIRED"
    <3>1. Acceptance(G) /\ Accepted(h)
      BY <1>2, <2>3, RestOfFields
    <3>2. settings'.security = settings.security
      BY <1>1, <1>4, <1>7, <2>3, <3>1 DEF Accepted, Untouched
    <3>3. Limits'
      BY <1>1, <1>2, <1>4, <1>7, <3>1 DEF Accepted, Limits
    <3>4. Untouched' /\ Identity' = Identity
      BY <1>2, <1>4, <1>7, <2>3, <3>2 DEF Untouched, Identity
    <3>5. Acceptance(Elements(fields))'
      BY <1>2, <3>1, <3>4 DEF Acceptance, Accepted
    <3> QED BY <1>1, <1>3, <1>7, <2>1, <2>3, <3>3, <3>4, <3>5, StillReading
  <2> QED BY <1>3, <2>2, <2>3 DEF Reading
<1> QED BY <1>1, <1>3, <1>4, <1>5, <1>6, <1>7

(* The AARE has been read, and decides. *)
LEMMA EndInv ==
  ASSUME Inv, apdu_parsePDUEnd
  PROVE  Inv'
<1>1. /\ stage = "parsing" /\ fields = <<>>
      /\ UNCHANGED <<attempt, fields, parse, request, meter, line, disturbed>>
      /\ \/ cl_parseAAREResponse(parse)
         \/ stage' = "failed" /\ UNCHANGED settings
  BY DEF apdu_parsePDUEnd, Fail
<1>2. Reading /\ IsParse /\ IsParse' /\ settings \in SettingsType
  BY <1>1 DEF Inv, StageInv, TypeOK, IsParse
<1>3. Elements(fields) = {}
  BY <1>1, Literals
<1>4. \/ parse.result # "ACCEPTED"
      \/ /\ Untouched /\ Limits /\ Acceptance({})
         /\ Identity.authentication # "HIGH_GMAC" => parse.diagnostic # "AUTHENTICATION_REQUIRED"
  BY <1>2, <1>3 DEF Reading, Refusal
<1>5. CASE cl_parseAAREResponse(parse)
  BY <1>1, <1>4, <1>5, DecisionInv
<1>6. CASE stage' = "failed" /\ UNCHANGED settings
  BY <1>1, <1>2, <1>6, ReadingFails
<1> QED BY <1>1, <1>5, <1>6

(* The proof the client sends is computed with its own keys. *)
LEMMA ProofRequestInv ==
  ASSUME Inv, cl_getApplicationAssociationRequest
  PROVE  Inv'
<1>1. /\ stage = "challenge" /\ UNCHANGED <<attempt, fields, parse, meter, line, disturbed>>
      /\ \/ /\ request' = [NoRequest EXCEPT !.kind = "AUTH",
                             !.proof = dlms_secure(settings.invocationCounter, CLIENT_TITLE,
                                                   settings.stoCChallenge, settings.suite)]
            /\ settings' = Encrypted(settings, 2) /\ stage' = "proof"
         \/ stage' = "failed" /\ UNCHANGED <<request, settings>>
  BY DEF cl_getApplicationAssociationRequest, Fail
<1>2. High /\ request = NoRequest /\ NoProof /\ settings \in SettingsType
  BY <1>1 DEF Inv, StageInv, TypeOK
<1>3. /\ Encrypted(settings, 2) \in SettingsType
      /\ Encrypted(settings, 2).authentication = settings.authentication
      /\ Encrypted(settings, 2).security = settings.security
      /\ Encrypted(settings, 2).maxPduSize = settings.maxPduSize
      /\ Encrypted(settings, 2).negotiatedConformance = settings.negotiatedConformance
  BY <1>2, EncryptedType
<1>4. TypeOK' /\ IsMeter' /\ IsParse' /\ IsLine' /\ NoProof'
  BY <1>1, <1>2, <1>3 DEF Inv, TypeOK, IsMeter, IsParse, IsLine, NoProof, Elements
<1>5. CASE stage' = "failed" /\ UNCHANGED <<request, settings>>
  BY <1>2, <1>4, <1>5 DEF Inv, StageInv, Agreed
<1>6. CASE /\ request' = [NoRequest EXCEPT !.kind = "AUTH",
                            !.proof = dlms_secure(settings.invocationCounter, CLIENT_TITLE,
                                                  settings.stoCChallenge, settings.suite)]
           /\ settings' = Encrypted(settings, 2) /\ stage' = "proof"
  <2> DEFINE q == dlms_secure(settings.invocationCounter, CLIENT_TITLE,
                              settings.stoCChallenge, settings.suite)
  <2>1. q.key = ClientKeys
    BY TagFields DEF dlms_secure
  <2>2. request' = [NoRequest EXCEPT !.kind = "AUTH", !.proof = q]
    BY <1>6
  <2> HIDE DEF q
  <2>3. request'.kind = "AUTH" /\ request'.proof = q
    BY <2>2 DEF NoRequest
  <2>4. Proving'
    BY <1>4, <2>1, <2>3 DEF Proving
  <2>5. High'
    BY <1>1, <1>2, <1>3, <1>6, SameIdentity DEF High
  <2> QED BY <1>4, <1>6, <2>4, <2>5 DEF Inv, StageInv, Agreed
<1> QED BY <1>1, <1>5, <1>6

(* The meter's proof counts only if it is the meter's own: then the meter  *)
(* has checked the client's.                                               *)
LEMMA ProofResponseInv ==
  ASSUME Inv, cl_parseApplicationAssociationResponse
  PROVE  Inv'
<1> DEFINE a == Head(line)
           equals == a.proof = dlms_secure(a.proof.counter, settings.sourceSystemTitle,
                                           settings.ctoSChallenge, settings.suite)
<1>1. /\ stage = "proof" /\ request = NoRequest /\ line # <<>> /\ line' = Tail(line)
      /\ UNCHANGED <<attempt, fields, parse, request, meter, disturbed>>
      /\ \/ stage' = "failed" /\ settings' = settings
         \/ stage' = "failed" /\ settings' = [settings EXCEPT !.connected = FALSE]
         \/ stage' = "failed" /\ settings' = [Encrypted(settings, 1) EXCEPT !.connected = equals]
         \/ /\ a.kind = "AUTH" /\ a.proof # NoTag /\ equals /\ stage' = "open"
            /\ settings' = [Encrypted(settings, 1) EXCEPT !.connected = equals]
  BY DEF cl_parseApplicationAssociationResponse, Fail
<1>2. High /\ Proving /\ settings \in SettingsType
  BY <1>1 DEF Inv, StageInv, TypeOK
<1>3. a \in Elements(line) /\ IsLine'
  BY <1>1, LineTaken
<1>4. /\ Encrypted(settings, 1) \in SettingsType
      /\ Encrypted(settings, 1).authentication = settings.authentication
      /\ Encrypted(settings, 1).security = settings.security
      /\ Encrypted(settings, 1).maxPduSize = settings.maxPduSize
      /\ Encrypted(settings, 1).negotiatedConformance = settings.negotiatedConformance
  BY <1>2, EncryptedType
<1>5. equals \in BOOLEAN
  OBVIOUS
<1>6. NoRequest.kind = "none"
  BY DEF NoRequest
<1> DEFINE e == Encrypted(settings, 1)
           W(s, c) == [s EXCEPT !.connected = c]
<1>7. \A s \in SettingsType, c \in BOOLEAN :
        /\ W(s, c) \in SettingsType /\ W(s, c).connected = c
        /\ W(s, c).authentication = s.authentication
        /\ W(s, c).security = s.security
        /\ W(s, c).maxPduSize = s.maxPduSize
        /\ W(s, c).negotiatedConformance = s.negotiatedConformance
  BY DEF SettingsType
<1> HIDE DEF a, equals, e
<1>8. /\ settings' \in SettingsType
      /\ stage' = "open" => settings'.connected
      /\ settings'.authentication = settings.authentication
      /\ settings'.security = settings.security
      /\ settings'.maxPduSize = settings.maxPduSize
      /\ settings'.negotiatedConformance = settings.negotiatedConformance
  <2>1. e \in SettingsType /\ e.authentication = settings.authentication
        /\ e.security = settings.security /\ e.maxPduSize = settings.maxPduSize
        /\ e.negotiatedConformance = settings.negotiatedConformance
    BY <1>4 DEF e
  <2>2. \/ stage' = "failed" /\ settings' = settings
        \/ stage' = "failed" /\ settings' = W(settings, FALSE)
        \/ stage' = "failed" /\ settings' = W(e, equals)
        \/ equals /\ settings' = W(e, equals)
    BY <1>1 DEF e
  <2> HIDE DEF W
  <2>3. CASE stage' = "failed" /\ settings' = settings
    BY <1>2, <2>3
  <2>4. CASE stage' = "failed" /\ settings' = W(settings, FALSE)
    BY <1>2, <1>7, <2>4
  <2>5. CASE (stage' = "failed" \/ equals) /\ settings' = W(e, equals)
    <3>1. /\ W(e, equals) \in SettingsType /\ W(e, equals).connected = equals
          /\ W(e, equals).authentication = e.authentication
          /\ W(e, equals).security = e.security
          /\ W(e, equals).maxPduSize = e.maxPduSize
          /\ W(e, equals).negotiatedConformance = e.negotiatedConformance
      BY <1>5, <1>7, <2>1
    <3>2. stage' = "open" => equals
      BY <2>5
    <3> QED BY <2>1, <2>5, <3>1, <3>2
  <2> QED BY <2>2, <2>3, <2>4, <2>5
<1>9. TypeOK' /\ IsMeter' /\ IsParse' /\ request' = NoRequest
  BY <1>1, <1>8 DEF Inv, TypeOK, IsMeter, IsParse
<1>10. stage' = "open" => meter.assoc = "open" /\ meter.keys = ClientKeys
  BY <1>1, <1>2, <1>3, <1>6 DEF Proving
<1>11. Untouched' = Untouched /\ Limits' = Limits /\ Identity' = Identity
  BY <1>1, <1>8, SameIdentity
<1>12. Agreed'
  BY <1>1, <1>2, <1>8, <1>10, <1>11 DEF Agreed, High, Untouched, Limits, Identity
<1>13. StageInv'
  BY <1>1, <1>9 DEF StageInv
<1> QED BY <1>3, <1>9, <1>12, <1>13 DEF Inv

(* Nothing has come. *)
LEMMA GiveUpInv ==
  ASSUME Inv, GiveUp
  PROVE  Inv'
<1>1. /\ stage' = "failed" /\ request = NoRequest
      /\ UNCHANGED <<settings, attempt, fields, parse, request, meter, line, disturbed>>
  BY DEF GiveUp, Fail
<1>2. TypeOK' /\ IsMeter' /\ IsParse' /\ IsLine'
  BY <1>1 DEF Inv, TypeOK, IsMeter, IsParse, IsLine, Elements
<1> QED BY <1>1, <1>2 DEF Inv, StageInv, Agreed

(* The next attempt begins with its own identity, and what is left on the  *)
(* line is not taken for an answer to it.                                  *)
LEMMA NextAttemptInv ==
  ASSUME Inv, NextAttempt
  PROVE  Inv'
<1> DEFINE Other(a) == [a EXCEPT !.kind = "other", !.fields = <<>>]
<1>1. /\ stage = "open" /\ attempt < Len(Attempts) /\ attempt' = attempt + 1
      /\ settings' = Assume(settings, Attempts[attempt + 1]) /\ stage' = "idle"
      /\ meter' = [meter EXCEPT !.assoc = "none", !.authentication = "NONE"]
      /\ line' = [i \in DOMAIN line |-> Other(line[i])]
      /\ UNCHANGED <<parse, request>>
  BY DEF NextAttempt
<1>2. settings \in SettingsType /\ attempt \in DOMAIN Attempts /\ request = NoRequest
  BY <1>1 DEF Inv, TypeOK, StageInv
<1>3. attempt + 1 \in DOMAIN Attempts
  <2> DEFINE I == [authentication: {"NONE", "LOW", "HIGH_GMAC"},
                   security: {NONE, AUTHENTICATION_ENCRYPTION}]
  <2>1. Attempts \in Seq(I)
    BY AssociationAssumption
  <2> HIDE DEF I
  <2>2. DOMAIN Attempts = 1..Len(Attempts) /\ Len(Attempts) \in Nat
    BY <2>1
  <2>3. \A n \in Nat : \A k \in 1..n : k < n => k + 1 \in 1..n
    OBVIOUS
  <2>4. attempt \in 1..Len(Attempts) /\ attempt < Len(Attempts)
    BY <1>1, <1>2, <2>2
  <2>5. attempt + 1 \in 1..Len(Attempts)
    BY <2>2, <2>3, <2>4
  <2> QED BY <2>2, <2>5
<1>4. settings' \in SettingsType /\ Untouched'
  BY <1>1, <1>2, <1>3, AssumeType DEF Untouched, Identity
<1>5. TypeOK' /\ IsMeter' /\ IsParse'
  BY <1>1, <1>3, <1>4 DEF Inv, TypeOK, IsMeter, IsParse
<1>6. \A a \in Elements(line) : "kind" \in DOMAIN a
  BY DEF Inv, IsLine
<1>7. \A a : "kind" \in DOMAIN a => Other(a).kind = "other" /\ "kind" \in DOMAIN Other(a)
  OBVIOUS
<1> HIDE DEF Other
<1>8. IsSequence(line)'
  <2>1. PICK S : line \in Seq(S)
    BY DEF Inv, IsLine, IsSequence
  <2> DEFINE T == {Other(b) : b \in S}
  <2>2. Len(line) \in Nat /\ DOMAIN line = 1..Len(line) /\ \A i \in 1..Len(line) : line[i] \in S
    BY <2>1
  <2>3. line' \in [1..Len(line) -> T]
    BY <1>1, <2>2
  <2> HIDE DEF T
  <2>4. line' \in Seq(T)
    BY <2>2, <2>3, SeqDef
  <2> QED BY <2>4 DEF IsSequence
<1>9. \A a \in Elements(line)' : a.kind = "other" /\ "kind" \in DOMAIN a
  BY <1>1, <1>6, <1>7 DEF Elements
<1>10. Idle' /\ IsLine'
  BY <1>1, <1>2, <1>4, <1>8, <1>9 DEF Idle, IsLine
<1> QED BY <1>1, <1>5, <1>10 DEF Inv, StageInv, Agreed

(* An answer is put on the line, twice, once or not at all. *)
LEMMA Delivered ==
  ASSUME Inv, NEW a, Deliver(a), "kind" \in DOMAIN a
  PROVE  /\ IsLine' /\ \A b \in Elements(line)' : b \in Elements(line) \/ b = a
         /\ request' = NoRequest /\ UNCHANGED <<settings, attempt, stage, fields, parse>>
<1>1. PICK copies \in {<<a>>, <<>>, <<a, a>>} : line' = line \o copies
  BY DEF Deliver
<1>2. IsSequence(copies) /\ Elements(copies) \subseteq {a}
  BY Literals
<1>3. IsSequence(line) /\ \A b \in Elements(line) : "kind" \in DOMAIN b
  BY DEF Inv, IsLine
<1> DEFINE t == line \o copies
<1>4. IsSequence(t) /\ Elements(t) = Elements(line) \cup Elements(copies)
  BY <1>2, <1>3, Concatenated
<1>5. line' = t
  BY <1>1
<1> HIDE DEF t
<1>6. IsSequence(line)' /\ Elements(line)' = Elements(t)
  BY <1>4, <1>5 DEF IsSequence, Elements
<1>7. IsLine'
  BY <1>2, <1>3, <1>4, <1>6 DEF IsLine
<1> QED BY <1>2, <1>4, <1>6, <1>7 DEF Deliver

(* What a field holds. *)
LEMMA FieldParts ==
  ASSUME NEW tag, NEW value, NEW octets, NEW seal
  PROVE  /\ Field(tag, value).tag = tag /\ Field(tag, value).value = value
         /\ Field(tag, value).octets = <<>> /\ Field(tag, value).seal = NoTag
         /\ LET f == [Field(tag, value) EXCEPT !.octets = octets]
            IN f.tag = tag /\ f.value = value /\ f.octets = octets /\ f.seal = NoTag
         /\ LET f == [Field(tag, value) EXCEPT !.octets = octets, !.seal = seal]
            IN f.tag = tag /\ f.value = value /\ f.octets = octets /\ f.seal = seal
BY DEF Field

(* What is not protected has no control byte. *)
LEMMA NoControl ==
  ASSUME NEW seal, seal = NoTag
  PROVE  seal.control = 0 /\ seal.control \in Nat /\ Suite(seal.control) = 0
<1>1. NoTag.control = 0
  BY DEF NoTag
<1>2. 0 \in Nat /\ Suite(0) = 0
  BY DEF Suite
<1> QED BY <1>1, <1>2, Zenon

(* A field without user information. *)
LEMMA PlainField ==
  ASSUME NEW f, f.octets \in Seq(Nat), f.seal = NoTag, f.tag # "userInformation",
         f.tag = "context" => f.value \in {"LN", "LN ciphered"}
  PROVE  FieldOK(f)
<1>1. f.seal.control \in Nat /\ Suite(f.seal.control) = 0
  BY NoControl, Zenon
<1>2. f.octets \in Seq(Nat) /\ f.tag # "userInformation"
      /\ (f.tag = "context" => f.value \in {"LN", "LN ciphered"})
  OBVIOUS
<1> QED BY <1>1, <1>2, Zenon DEF FieldOK

(* A meter that refuses says so in the AARE's result. *)
LEMMA RefusingOK ==
  ASSUME KnownNames, NEW r \in Refusals, NEW name \in ContextNames,
         NEW mechanism \in BOOLEAN, NEW information \in BOOLEAN
  PROVE  /\ IsSequence(Refusing(r, name, mechanism, information))
         /\ \A f \in Elements(Refusing(r, name, mechanism, information)) : FieldOK(f)
         /\ Refusal(Elements(Refusing(r, name, mechanism, information)), "ACCEPTED")
<1> DEFINE f1 == Field("protocolVersion", "")
           f2 == Field("context", name)
           f3 == Field("result", r.result)
           f4 == Field("diagnostic", r.diagnostic)
           f5 == [Field("title", "") EXCEPT !.octets = <<2>>]
           f6 == Field("mechanism", "HIGH_GMAC")
           f7 == [Field("userInformation", "") EXCEPT !.octets = <<14>>]
           s1 == <<f1, f2, f3, f4>>
           s2 == If(mechanism, <<f5, f6>>)
           s3 == If(information, <<f7>>)
           F == {f1, f2, f3, f4, f5, f6, f7}
<1>1. Refusing(r, name, mechanism, information) = (s1 \o s2) \o s3
  BY DEF Refusing
<1>2. /\ IsSequence(s1) /\ Elements(s1) = {f1, f2, f3, f4}
      /\ IsSequence(s2) /\ Elements(s2) \subseteq {f5, f6}
      /\ IsSequence(s3) /\ Elements(s3) \subseteq {f7}
  <2> HIDE DEF f1, f2, f3, f4, f5, f6, f7
  <2>1. IsSequence(s1) /\ Elements(s1) = {f1, f2, f3, f4}
    BY Literals
  <2>2. IsSequence(s2) /\ Elements(s2) \subseteq {f5, f6}
    BY Literals DEF If
  <2>3. IsSequence(s3) /\ Elements(s3) \subseteq {f7}
    BY Literals DEF If
  <2> QED BY <2>1, <2>2, <2>3
<1>3. /\ f1.tag = "protocolVersion" /\ f2.tag = "context" /\ f3.tag = "result"
      /\ f4.tag = "diagnostic" /\ f5.tag = "title" /\ f6.tag = "mechanism"
      /\ f7.tag = "userInformation" /\ f2.value = name /\ f3.value = r.result
      /\ \A f \in F : f.seal = NoTag
      /\ f1.octets = <<>> /\ f2.octets = <<>> /\ f3.octets = <<>> /\ f4.octets = <<>>
      /\ f5.octets = <<2>> /\ f6.octets = <<>> /\ f7.octets = <<14>>
  <2>1. \A tag, value : /\ Field(tag, value).tag = tag /\ Field(tag, value).value = value
                        /\ Field(tag, value).octets = <<>> /\ Field(tag, value).seal = NoTag
    BY FieldParts
  <2>2. f5.tag = "title" /\ f5.octets = <<2>> /\ f5.seal = NoTag
    BY DEF Field
  <2>3. f7.tag = "userInformation" /\ f7.octets = <<14>> /\ f7.seal = NoTag
    BY DEF Field
  <2>4. /\ f1.tag = "protocolVersion" /\ f2.tag = "context" /\ f3.tag = "result"
        /\ f4.tag = "diagnostic" /\ f6.tag = "mechanism"
        /\ f2.value = name /\ f3.value = r.result
        /\ f1.octets = <<>> /\ f2.octets = <<>> /\ f3.octets = <<>> /\ f4.octets = <<>>
        /\ f6.octets = <<>> /\ f1.seal = NoTag /\ f2.seal = NoTag /\ f3.seal = NoTag
        /\ f4.seal = NoTag /\ f6.seal = NoTag
    BY <2>1
  <2> QED BY <2>2, <2>3, <2>4
<1>4. r.result # "ACCEPTED" /\ name \in {"LN", "LN ciphered"}
  BY AssociationAssumption DEF KnownNames
<1> HIDE DEF f1, f2, f3, f4, f5, f6, f7, s1, s2, s3
<1>5. IsSequence(s1 \o s2) /\ Elements(s1 \o s2) = Elements(s1) \cup Elements(s2)
  BY <1>2, Concatenated
<1> DEFINE s4 == s1 \o s2
           s == s4 \o s3
<1>6. IsSequence(s4) /\ Elements(s4) = Elements(s1) \cup Elements(s2)
  BY <1>5
<1> HIDE DEF s4
<1>7. IsSequence(s) /\ Elements(s) = Elements(s4) \cup Elements(s3)
  BY <1>2, <1>6, Concatenated
<1> HIDE DEF s
<1>8. Elements(s) \subseteq F /\ f3 \in Elements(s)
  BY <1>2, <1>6, <1>7
<1>9. \A f \in F : FieldOK(f)
  <2>1. <<>> \in Seq(Nat) /\ <<2>> \in Seq(Nat) /\ <<14>> \in Seq(Nat)
    OBVIOUS
  <2>2. FieldOK(f1) /\ FieldOK(f2) /\ FieldOK(f3) /\ FieldOK(f4) /\ FieldOK(f5) /\ FieldOK(f6)
    BY <1>3, <1>4, <2>1, PlainField
  <2>3. FieldOK(f7)
    <3>1. f7.seal.control \in Nat /\ Suite(f7.seal.control) = 0
      <4>1. f7.seal.control = 0
        BY <1>3 DEF NoTag
      <4> QED BY <4>1 DEF Suite
    <3>2. f7.octets[1] # INITIATE_RESPONSE
      BY <1>3 DEF INITIATE_RESPONSE
    <3> QED BY <1>3, <2>1, <3>1, <3>2 DEF FieldOK
  <2> QED BY <2>2, <2>3
<1>10. Refusal(Elements(s), "ACCEPTED")
  <2>1. \A f \in F : f.tag = "result" => f = f3
    BY <1>3
  <2> QED BY <1>3, <1>4, <1>8, <2>1 DEF Refusal
<1>11. Refusing(r, name, mechanism, information) = s
  BY <1>1 DEF s, s4
<1> QED BY <1>7, <1>8, <1>9, <1>10, <1>11

(* The protection of the meter's answer. *)
LEMMA MeterSealOK ==
  ASSUME NEW control \in Nat, NEW text
  PROVE  LET seal == MeterSeal(Security(control), text)
         IN /\ seal.control \in Nat /\ Suite(seal.control) = 0
            /\ seal = NoTag \/ Security(seal.control) = Security(control)
<1> DEFINE security == Security(control)
           seal == MeterSeal(security, text)
<1>1. security \in {0, 16, 32, 48}
  BY ControlBits
<1>2. security \in Nat /\ Security(security) = security /\ Suite(security) = 0
  <2>1. /\ Security(0) = 0 /\ Security(16) = 16 /\ Security(32) = 32 /\ Security(48) = 48
        /\ Suite(0) = 0 /\ Suite(16) = 0 /\ Suite(32) = 0 /\ Suite(48) = 0
    BY DEF Security, Suite
  <2> HIDE DEF security
  <2> QED BY <1>1, <2>1
<1> HIDE DEF security
<1>3. CASE security = NONE
  <2>1. seal = NoTag
    BY <1>3 DEF MeterSeal
  <2>2. seal.control \in Nat /\ Suite(seal.control) = 0
    BY <2>1, NoControl, Zenon
  <2> QED BY <2>1, <2>2 DEF security
<1>4. CASE security # NONE
  <2>1. seal = GcmTag(security, 7, METER_TITLE, meter.keys, text)
    BY <1>4 DEF MeterSeal
  <2>2. seal.control = security
    BY <2>1, TagFields
  <2>3. Security(seal.control) = security
    BY <1>2, <2>2
  <2> QED BY <1>2, <2>2, <2>3 DEF security
<1> QED BY <1>3, <1>4

(* A is the AARE of a meter that grants g to the AARQ q. *)
Grants(A, q, g) ==
  /\ IsSequence(A)
  /\ \E f \in Elements(A) : f.tag = "userInformation"
  /\ \A f \in Elements(A) :
       /\ FieldOK(f)
       /\ f.tag = "mechanism" => f.value = q.authentication
       /\ f.tag = "diagnostic" /\ q.authentication # "HIGH_GMAC" =>
            f.value # "AUTHENTICATION_REQUIRED"
       /\ f.tag = "userInformation" =>
            /\ f.octets[3] = g.conformance /\ f.octets[4] = g.pdu
            /\ f.seal = NoTag \/ Security(f.seal.control) = Security(q.seal.control)

(* A meter that accepts answers with what was asked for and what it grants. *)
LEMMA AcceptingOK ==
  ASSUME NEW q, NEW g \in Granted, NEW c \in Challenges
  PROVE  q.context \in {"LN", "LN ciphered"} /\ q.seal.control \in Nat =>
           Grants(Accepting(q, g, c), q, g)
<1>0. SUFFICES ASSUME q.context \in {"LN", "LN ciphered"}, q.seal.control \in Nat
               PROVE  Grants(Accepting(q, g, c), q, g)
  OBVIOUS
<1> DEFINE high == q.authentication = "HIGH_GMAC"
           text == <<INITIATE_RESPONSE, 6, g.conformance, g.pdu, 7>>
           seal == MeterSeal(Security(q.seal.control), text)
           d == IF high THEN "AUTHENTICATION_REQUIRED" ELSE "NONE"
           f1 == Field("context", q.context)
           f2 == Field("result", "ACCEPTED")
           f3 == Field("diagnostic", d)
           f4 == [Field("title", "") EXCEPT !.octets = METER_TITLE]
           f5 == Field("requirements", "")
           f6 == Field("mechanism", q.authentication)
           f7 == [Field("challenge", "") EXCEPT !.octets = c]
           f8 == [Field("userInformation", "") EXCEPT !.octets = text, !.seal = seal]
           s1 == <<f1, f2, f3>>
           s2 == If(high \/ q.seal # NoTag, <<f4>>)
           s3 == If(high, <<f5, f6, f7>>)
           s4 == <<f8>>
           t2 == s1 \o s2
           t3 == t2 \o s3
           t4 == t3 \o s4
           F == {f1, f2, f3, f4, f5, f6, f7, f8}
<1>1. Accepting(q, g, c) = t4
  BY DEF Accepting
<1>2. /\ IsSequence(s1) /\ Elements(s1) = {f1, f2, f3}
      /\ IsSequence(s2) /\ Elements(s2) \subseteq {f4}
      /\ IsSequence(s3) /\ Elements(s3) \subseteq {f5, f6, f7}
      /\ IsSequence(s4) /\ Elements(s4) = {f8}
  <2> HIDE DEF f1, f2, f3, f4, f5, f6, f7, f8, high
  <2>1. IsSequence(s1) /\ Elements(s1) = {f1, f2, f3}
    BY Literals
  <2>2. IsSequence(s2) /\ Elements(s2) \subseteq {f4}
    BY Literals DEF If
  <2>3. IsSequence(s3) /\ Elements(s3) \subseteq {f5, f6, f7}
    BY Literals DEF If
  <2>4. IsSequence(s4) /\ Elements(s4) = {f8}
    BY Literals
  <2> QED BY <2>1, <2>2, <2>3, <2>4
<1>3. /\ f1.tag = "context" /\ f1.value = q.context /\ f1.octets = <<>> /\ f1.seal = NoTag
      /\ f2.tag = "result" /\ f2.octets = <<>> /\ f2.seal = NoTag
      /\ f3.tag = "diagnostic" /\ f3.value = d /\ f3.octets = <<>> /\ f3.seal = NoTag
      /\ f5.tag = "requirements" /\ f5.octets = <<>> /\ f5.seal = NoTag
      /\ f6.tag = "mechanism" /\ f6.value = q.authentication /\ f6.octets = <<>>
      /\ f6.seal = NoTag
  <2> HIDE DEF d
  <2>1. \A tag, value : /\ Field(tag, value).tag = tag /\ Field(tag, value).value = value
                        /\ Field(tag, value).octets = <<>> /\ Field(tag, value).seal = NoTag
    BY FieldParts
  <2> QED BY <2>1
<1>4. /\ f4.tag = "title" /\ f4.octets = METER_TITLE /\ f4.seal = NoTag
      /\ f7.tag = "challenge" /\ f7.octets = c /\ f7.seal = NoTag
  BY DEF Field
<1>5. f8.tag = "userInformation" /\ f8.octets = text /\ f8.seal = seal
  <2> HIDE DEF text, seal
  <2> QED BY DEF Field
<1>6. METER_TITLE \in Seq(Nat) /\ c \in Seq(Nat) /\ <<>> \in Seq(Nat)
  <2>1. METER_TITLE \in Seq(Nat) /\ <<>> \in Seq(Nat)
    BY DEF METER_TITLE
  <2>2. c \in Seq(Nat)
    BY AssociationAssumption
  <2> QED BY <2>1, <2>2
<1>7. g.conformance \in Nat /\ g.pdu \in Nat
  BY AssociationAssumption
<1>8. text \in Seq(Nat) /\ text[3] = g.conformance /\ text[4] = g.pdu
  <2>1. \A x, y \in Nat : /\ <<8, 6, x, y, 7>> \in Seq(Nat)
                          /\ <<8, 6, x, y, 7>>[3] = x /\ <<8, 6, x, y, 7>>[4] = y
    OBVIOUS
  <2>2. text = <<8, 6, g.conformance, g.pdu, 7>>
    BY DEF INITIATE_RESPONSE
  <2> HIDE DEF text
  <2> QED BY <1>7, <2>1, <2>2
<1>9. /\ seal.control \in Nat /\ Suite(seal.control) = 0
      /\ seal = NoTag \/ Security(seal.control) = Security(q.seal.control)
  BY <1>0, MeterSealOK
<1>10. q.authentication # "HIGH_GMAC" => d # "AUTHENTICATION_REQUIRED"
  OBVIOUS
<1> HIDE DEF high, text, seal, d, f1, f2, f3, f4, f5, f6, f7, f8, s1, s2, s3, s4
<1>11. IsSequence(t4) /\ Elements(t4) \subseteq F /\ f8 \in Elements(t4)
  <2>1. IsSequence(t2) /\ Elements(t2) = Elements(s1) \cup Elements(s2)
    BY <1>2, Concatenated
  <2> HIDE DEF t2
  <2>2. IsSequence(t3) /\ Elements(t3) = Elements(t2) \cup Elements(s3)
    BY <1>2, <2>1, Concatenated
  <2> HIDE DEF t3
  <2>3. IsSequence(t4) /\ Elements(t4) = Elements(t3) \cup Elements(s4)
    BY <1>2, <2>2, Concatenated
  <2> HIDE DEF t4
  <2> QED BY <1>2, <2>1, <2>2, <2>3
<1> HIDE DEF t4
<1>12. \A f \in F : FieldOK(f)
  <2>1. FieldOK(f1)
    BY <1>0, <1>3, <1>6, PlainField
  <2>2. FieldOK(f2) /\ FieldOK(f3) /\ FieldOK(f4) /\ FieldOK(f5) /\ FieldOK(f6) /\ FieldOK(f7)
    BY <1>3, <1>4, <1>6, PlainField
  <2>3. FieldOK(f8)
    <3>1. f8.octets[3] \in Nat /\ f8.octets[4] \in Nat /\ f8.octets \in Seq(Nat)
      BY <1>5, <1>7, <1>8
    <3>2. f8.seal.control \in Nat /\ Suite(f8.seal.control) = 0
      BY <1>5, <1>9
    <3>3. f8.tag # "context"
      BY <1>5
    <3> QED BY <3>1, <3>2, <3>3 DEF FieldOK
  <2> QED BY <2>1, <2>2, <2>3
<1>13. \A f \in F :
         /\ f.tag = "mechanism" => f = f6
         /\ f.tag = "diagnostic" => f = f3
         /\ f.tag = "userInformation" => f = f8
  BY <1>3, <1>4, <1>5
<1>14. f8.octets[3] = g.conformance /\ f8.octets[4] = g.pdu
       /\ (f8.seal = NoTag \/ Security(f8.seal.control) = Security(q.seal.control))
  BY <1>5, <1>8, <1>9
<1>15. Grants(t4, q, g)
  BY <1>3, <1>5, <1>10, <1>11, <1>12, <1>13, <1>14 DEF Grants
<1> QED BY <1>1, <1>15

(* The settings are not the meter's to change. *)
LEMMA MeterStep ==
  ASSUME Inv, NEW a, Deliver(a), "kind" \in DOMAIN a,
         IsMeter', stage # "open", StageInv'
  PROVE  Inv'
<1>1. /\ IsLine' /\ UNCHANGED <<settings, attempt, stage, fields, parse>>
  BY Delivered
<1>2. TypeOK' /\ IsParse'
  BY <1>1 DEF Inv, TypeOK, IsParse, IsMeter
<1> QED BY <1>1, <1>2 DEF Inv, Agreed

(* The AARE of a meter that accepts is an acceptance. *)
LEMMA AcceptsInv ==
  ASSUME Inv, MeterAccepts
  PROVE  Inv'
<1>1. request.kind = "AARQ"
  BY DEF MeterAccepts
<1>2. PICK g \in Granted, c \in Challenges :
        /\ meter' = [meter EXCEPT
             !.assoc = IF request.authentication = "HIGH_GMAC" THEN "pending" ELSE "open",
             !.authentication = request.authentication, !.conformance = g.conformance,
             !.pdu = g.pdu, !.stoC = c, !.ctoS = request.challenge]
        /\ Deliver([Answer("AARE") EXCEPT !.fields = Accepting(request, g, c)])
  BY DEF MeterAccepts
<1>3. stage = "aare" /\ Asked /\ Untouched
  BY <1>1, RequestOfStage DEF Inv, StageInv
<1> DEFINE assoc == IF request.authentication = "HIGH_GMAC" THEN "pending" ELSE "open"
<1>4. PICK A : A = Accepting(request, g, c)
  OBVIOUS
<1>5. assoc \in {"none", "pending", "open"}
      /\ (request.authentication # "HIGH_GMAC" => assoc = "open")
  OBVIOUS
<1>6. meter' = [meter EXCEPT !.assoc = assoc, !.authentication = request.authentication,
                  !.conformance = g.conformance, !.pdu = g.pdu, !.stoC = c,
                  !.ctoS = request.challenge]
  BY <1>2
<1> HIDE DEF assoc
<1>7. PICK a : a = [Answer("AARE") EXCEPT !.fields = A]
  OBVIOUS
<1>8. Deliver(a) /\ Grants(A, request, g)
  BY <1>2, <1>3, <1>4, <1>7, AcceptingOK DEF Asked
<1>9. a.kind = "AARE" /\ a.fields = A /\ "kind" \in DOMAIN a
  BY <1>7 DEF Answer
<1>10. IsMeter
  BY DEF Inv
<1>11. /\ meter'.assoc = assoc /\ meter'.authentication = request.authentication
      /\ meter'.conformance = g.conformance /\ meter'.pdu = g.pdu /\ IsMeter'
  BY <1>5, <1>6, <1>10 DEF IsMeter
<1>12. /\ IsLine' /\ (\A b \in Elements(line)' : b \in Elements(line) \/ b = a)
       /\ request' = NoRequest /\ UNCHANGED <<settings, attempt, stage, fields, parse>>
  BY <1>8, <1>9, Delivered
<1>13. Untouched' /\ Identity' = Identity
  BY <1>3, <1>12 DEF Untouched, Identity
<1>14. Acceptance(Elements(A))'
  <2>1. /\ request.authentication = Identity.authentication
        /\ Security(request.seal.control) = Identity.security
    BY <1>3 DEF Asked
  <2>2. \A f \in Elements(A) : Accepted(f)'
    BY <1>8, <1>11, <1>13, <2>1 DEF Grants, Accepted
  <2>3. Identity.authentication # "HIGH_GMAC" => meter'.assoc = "open"
    BY <1>5, <1>11, <2>1
  <2> QED BY <1>2, <1>11, <1>13, <2>1, <2>2, <2>3 DEF Acceptance
<1>15. AareOK(a)'
  <2>1. IsSequence(a.fields) /\ (\A f \in Elements(a.fields) : FieldOK(f))
        /\ \E f \in Elements(a.fields) : f.tag = "userInformation"
    BY <1>8, <1>9 DEF Grants
  <2>2. Acceptance(Elements(a.fields))'
    BY <1>9, <1>14 DEF Acceptance, Accepted
  <2> QED BY <2>1, <2>2 DEF AareOK
<1>16. Awaited'
  BY <1>3, <1>9, <1>12, <1>15 DEF Awaited, Asked
<1>17. StageInv' /\ stage # "open"
  BY <1>3, <1>12, <1>13, <1>16 DEF StageInv
<1> QED BY <1>8, <1>9, <1>11, <1>17, MeterStep

(* The AARE of a meter that refuses is a refusal. *)
LEMMA RefusesInv ==
  ASSUME KnownNames, Inv, MeterRefuses
  PROVE  Inv'
<1>1. request.kind = "AARQ"
  BY DEF MeterRefuses
<1>2. PICK r \in Refusals, name \in ContextNames, m, i \in BOOLEAN :
        /\ meter' = [meter EXCEPT !.assoc = "none", !.refusal = r.diagnostic]
        /\ Deliver([Answer("AARE") EXCEPT !.fields = Refusing(r, name, m, i)])
  BY DEF MeterRefuses
<1>3. stage = "aare" /\ Asked /\ Untouched
  BY <1>1, RequestOfStage DEF Inv, StageInv
<1> DEFINE A == Refusing(r, name, m, i)
           a == [Answer("AARE") EXCEPT !.fields = A]
<1>4. IsSequence(A) /\ (\A f \in Elements(A) : FieldOK(f)) /\ Refusal(Elements(A), "ACCEPTED")
  BY RefusingOK
<1>5. Deliver(a)
  BY <1>2
<1> HIDE DEF A
<1>6. a.kind = "AARE" /\ a.fields = A /\ "kind" \in DOMAIN a
  BY DEF Answer
<1> HIDE DEF a
<1>7. IsMeter'
  BY <1>2 DEF Inv, IsMeter
<1>8. /\ (\A b \in Elements(line)' : b \in Elements(line) \/ b = a)
      /\ request' = NoRequest /\ UNCHANGED <<settings, attempt, stage, fields, parse>>
  BY <1>5, <1>6, Delivered
<1>9. Untouched'
  BY <1>3, <1>8 DEF Untouched, Identity
<1>10. AareOK(a)'
  BY <1>4, <1>6 DEF AareOK
<1>11. Awaited'
  BY <1>3, <1>6, <1>8, <1>10 DEF Awaited, Asked
<1>12. StageInv' /\ stage # "open"
  BY <1>3, <1>8, <1>9, <1>11 DEF StageInv
<1> QED BY <1>5, <1>6, <1>7, <1>12, MeterStep

(* The meter proves itself only after the client has, and then they hold   *)
(* the same keys.                                                          *)
LEMMA ChecksInv ==
  ASSUME Inv, MeterChecks
  PROVE  Inv'
<1> DEFINE q == request.proof
           right == /\ meter.assoc = "pending"
                    /\ q = GcmTag(q.control, q.counter, CLIENT_TITLE, meter.keys, meter.stoC)
           proof == IF right THEN GcmTag(AUTHENTICATION, 8, METER_TITLE, meter.keys, meter.ctoS)
                    ELSE NoTag
           text == <<proof.counter>>
           seal == MeterSeal(AUTHENTICATION_ENCRYPTION, text)
           a == [Answer("AUTH") EXCEPT !.proof = proof, !.octets = text, !.seal = seal]
<1>1. request.kind = "AUTH" /\ Deliver(a)
      /\ meter' = IF right THEN [meter EXCEPT !.assoc = "open"]
                  ELSE [meter EXCEPT !.assoc = "none", !.refusal = "PROOF"]
  BY DEF MeterChecks
<1>2. stage = "proof" /\ High /\ NoProof /\ request.proof.key = ClientKeys /\ IsMeter
  BY <1>1, RequestOfStage DEF Inv
<1>3. right => meter.keys = ClientKeys
  BY <1>2, TagFields
<1>4. ~ right => proof = NoTag
  OBVIOUS
<1> HIDE DEF right, proof, text, seal
<1>5. a.kind = "AUTH" /\ a.proof = proof /\ "kind" \in DOMAIN a
  BY DEF Answer
<1> HIDE DEF a
<1>6. /\ IsMeter' /\ meter'.authentication = meter.authentication /\ meter'.keys = meter.keys
      /\ meter'.pdu = meter.pdu /\ meter'.conformance = meter.conformance
      /\ right => meter'.assoc = "open"
  BY <1>1, <1>2 DEF IsMeter
<1>7. /\ (\A b \in Elements(line)' : b \in Elements(line) \/ b = a)
      /\ request' = NoRequest /\ UNCHANGED <<settings, attempt, stage, fields, parse>>
  BY <1>1, <1>5, Delivered
<1>8. High'
  BY <1>2, <1>6, <1>7 DEF High, Untouched, Limits, Identity
<1>9. Proving'
  BY <1>2, <1>3, <1>4, <1>5, <1>6, <1>7 DEF Proving, NoProof
<1>10. StageInv' /\ stage # "open"
  BY <1>2, <1>7, <1>8, <1>9 DEF StageInv
<1> QED BY <1>1, <1>5, <1>6, <1>10, MeterStep

(* A request is lost. *)
LEMMA LoseInv ==
  ASSUME Inv, LoseRequest
  PROVE  Inv'
<1>1. /\ request # NoRequest /\ request' = NoRequest
      /\ UNCHANGED <<settings, attempt, stage, ret, fields, parse, meter, line>>
  BY DEF LoseRequest
<1>2. stage \in {"aare", "proof"}
  BY <1>1 DEF Inv, StageInv, Idle, Reading, TypeOK
<1>3. CASE stage = "aare"
  <2>1. Untouched /\ (Asked \/ Awaited)
    BY <1>3 DEF Inv, StageInv
  <2>2. Untouched' /\ Awaited'
    BY <1>1, <2>1 DEF Asked, Awaited, Untouched, Identity
  <2>3. StageInv'
    BY <1>1, <1>3, <2>2 DEF StageInv
  <2> QED BY <1>1, <1>3, <2>3 DEF Inv, TypeOK, IsMeter, IsParse, IsLine, Agreed
<1>4. CASE stage = "proof"
  <2>1. High /\ NoProof
    BY <1>1, <1>4 DEF Inv, StageInv, Proving
  <2>2. High' /\ Proving'
    BY <1>1, <2>1 DEF High, Untouched, Limits, Identity, Proving, NoProof
  <2>3. StageInv'
    BY <1>1, <1>4, <2>2 DEF StageInv
  <2> QED BY <1>1, <1>4, <2>3 DEF Inv, TypeOK, IsMeter, IsParse, IsLine, Agreed
<1> QED BY <1>2, <1>3, <1>4

(* Nothing happens. *)
LEMMA StutterInv ==
  ASSUME Inv, UNCHANGED vars
  PROVE  Inv'
<1>1. UNCHANGED <<settings, attempt, stage, fields, parse, request, meter, line>>
  BY DEF vars
<1>2. /\ Elements(line)' = Elements(line) /\ Elements(fields)' = Elements(fields)
      /\ IsSequence(fields)' = IsSequence(fields) /\ Identity' = Identity
      /\ Untouched' = Untouched /\ Limits' = Limits
  BY <1>1 DEF Elements, IsSequence, Identity, Untouched, Limits
<1>3. StageInv' = StageInv
  BY <1>1, <1>2 DEF StageInv, Idle, Asked, Awaited, Reading, High, Proving, NoProof, AareOK,
                    Acceptance, Accepted
<1> QED BY <1>1, <1>3 DEF Inv, TypeOK, IsMeter, IsParse, IsLine, Agreed, IsSequence, Elements

(* Inv is inductive. *)
LEMMA NextInv ==
  ASSUME KnownNames, Inv, [Next]_vars
  PROVE  Inv'
<1>1. ASSUME Parse  PROVE Inv'
  BY <1>1, ContextInv, ResultInv, DiagnosticInv, TitleInv, MechanismInv, ChallengeInv,
     SkipInv, UserInformationInv, EndInv DEF Parse
<1>2. ASSUME Next  PROVE Inv'
  BY <1>1, <1>2, AarqInv, ValidateInv, ProofRequestInv, ProofResponseInv, GiveUpInv,
     NextAttemptInv, AcceptsInv, RefusesInv, ChecksInv, LoseInv DEF Next
<1> QED BY <1>2, StutterInv
-----------------------------------------------------------------------------
(* The settings stay well typed, whatever is read from an AARE.            *)
THEOREM AssociationTypeCorrect ==
  ASSUME KnownNames, Attempts # <<>>
  PROVE  Spec => []TypeOK
<1>1. Init => Inv
  BY InitInv
<1>2. Inv /\ [Next]_vars => Inv'
  BY NextInv
<1>3. Inv => TypeOK
  BY DEF Inv
<1> QED BY <1>1, <1>2, <1>3, PTL DEF Spec

(* The client never goes on with an association the meter does not have    *)
(* at the level, with the protection, limits and keys of both: for any     *)
(* identities, keys, challenges and reasons to refuse, if a meter that     *)
(* refuses names a context the library knows.                              *)
THEOREM AlwaysAgreed ==
  ASSUME KnownNames, Attempts # <<>>
  PROVE  Spec => []Agreed
<1>1. Init => Inv
  BY InitInv
<1>2. Inv /\ [Next]_vars => Inv'
  BY NextInv
<1>3. Inv => Agreed
  BY DEF Inv
<1> QED BY <1>1, <1>2, <1>3, PTL DEF Spec

-----------------------------------------------------------------------------
(* The reason of a refusal reaches the program: of the meter's last        *)
(* refusal, why, an AARE that is being read still says what is needed.     *)

(* The code an association that is refused for this reason ends with. *)
Reason(why, result) ==
  IF apdu_handleResultComponent(why) # "OK" THEN why
  ELSE IF result = "TRANSIENT_REJECTED" THEN "REJECTED_TRANSIENT" ELSE "REJECTED_PERMAMENT"

(* User information is the last field: what decides has been read by then. *)
InformationLast(s) == \A i \in DOMAIN s : s[i].tag = "userInformation" => i = Len(s)

Explains(f, why) ==
  /\ f.tag = "diagnostic" => f.value = why
  /\ f.tag = "mechanism" => f.value = "HIGH_GMAC"

Reasoned(s, result, diagnostic, why) ==
  /\ Refusal(Elements(s), result)
  /\ \A f \in Elements(s) : Explains(f, why)
  /\ diagnostic = why \/ \E f \in Elements(s) : f.tag = "diagnostic"
  /\ InformationLast(s)

Unanswered == stage = "idle" \/ (stage = "aare" /\ request # NoRequest)

(* A meter that has refused has no association, and the client gets no     *)
(* further than reading the refusal.                                       *)
Barred ==
  /\ meter.refusal # "NONE"
  /\ meter.refusal # "none" => meter.assoc = "none"
  /\ request # NoRequest => meter.refusal = "none"
  /\ stage \in {"idle", "challenge", "open"} => meter.refusal = "none"
  /\ stage = "proof" => meter.refusal \in {"none", "PROOF"}
  /\ Unanswered => meter.authentication = "NONE"
  /\ Unanswered /\ ~ disturbed => line = <<>>
  /\ stage \in {"aare", "parsing"} /\ meter.refusal # "none" => meter.authentication = "NONE"

(* On a quiet line the refusal is the only answer, and is read from its    *)
(* first field.                                                            *)
RefusalWaits ==
  ~ disturbed /\ meter.refusal # "none" /\ stage = "aare" =>
    \E a \in Elements(line) :
      line = <<a>> /\ a.kind = "AARE" /\ Reasoned(a.fields, "ACCEPTED", "NONE", meter.refusal)

RefusalRead ==
  ~ disturbed /\ meter.refusal # "none" /\ stage = "parsing" =>
    Reasoned(fields, parse.result, parse.diagnostic, meter.refusal)

Told == Barred /\ RefusalWaits /\ RefusalRead /\ ReasonTold

(* Behind the first field user information is still last; when it is the   *)
(* first, nothing follows.                                                 *)
LEMMA LastOfTail ==
  ASSUME NEW s, IsSequence(s), s # <<>>, InformationLast(s)
  PROVE  /\ InformationLast(Tail(s))
         /\ Head(s).tag = "userInformation" => Elements(Tail(s)) = {}
<1>1. PICK S : s \in Seq(S)
  BY DEF IsSequence
<1>2. /\ Tail(s) \in Seq(S) /\ Len(Tail(s)) = Len(s) - 1
      /\ \A i \in 1 .. Len(Tail(s)) : Tail(s)[i] = s[i + 1]
  BY <1>1, HeadTailProperties
<1>3. Len(s) \in Nat /\ Len(s) >= 1 /\ DOMAIN s = 1..Len(s) /\ Head(s) = s[1]
  BY <1>1
<1>4. PICK t : t = Tail(s)
  OBVIOUS
<1>5. PICK n \in Nat : n = Len(s)
  BY <1>3
<1>6. DOMAIN t = 1..(n - 1) /\ Len(t) = n - 1 /\ DOMAIN s = 1..n /\ n >= 1
  BY <1>2, <1>3, <1>4, <1>5
<1>7. \A i \in 1..(n - 1) : t[i] = s[i + 1] /\ i + 1 \in 1..n
  BY <1>2, <1>4, <1>5, <1>6
<1>8. \A i \in 1..n : s[i].tag = "userInformation" => i = n
  BY <1>5, <1>6 DEF InformationLast
<1>9. InformationLast(t)
  <2>1. \A i \in 1..(n - 1) : t[i].tag = "userInformation" => i = n - 1
    <3> TAKE i \in 1..(n - 1)
    <3> HAVE t[i].tag = "userInformation"
    <3>1. i + 1 = n
      BY <1>7, <1>8
    <3> QED BY <3>1
  <2> QED BY <1>6, <2>1 DEF InformationLast
<1>10. ASSUME Head(s).tag = "userInformation"  PROVE Elements(t) = {}
  <2>1. n = 1
    <3>1. 1 \in 1..n
      BY <1>6
    <3>2. s[1].tag = "userInformation"
      BY <1>3, <1>10
    <3> QED BY <1>8, <3>1, <3>2
  <2>2. DOMAIN t = {}
    BY <1>6, <2>1
  <2> QED BY <2>2 DEF Elements
<1> QED BY <1>4, <1>9, <1>10

(* The rest of a reasoned refusal, with what the first field said.         *)
LEMMA ReasonedRest ==
  ASSUME NEW s, IsSequence(s), s # <<>>, NEW why, NEW result, NEW diagnostic,
         Reasoned(s, result, diagnostic, why), NEW r, NEW d,
         Head(s).tag = "result" => r = Head(s).value,
         Head(s).tag # "result" => r = result,
         Head(s).tag = "diagnostic" => d = Head(s).value,
         Head(s).tag # "diagnostic" => d = diagnostic
  PROVE  Reasoned(Tail(s), r, d, why)
<1>1. PICK t : t = Tail(s)
  OBVIOUS
<1>2. PICK h : h = Head(s)
  OBVIOUS
<1>3. Elements(s) = {h} \cup Elements(t)
  BY <1>1, <1>2, HeadAndTail
<1>4. InformationLast(t)
  BY <1>1, LastOfTail DEF Reasoned
<1>5. Refusal(Elements(t), r)
  <2>1. Refusal(Elements(s), result)
    BY DEF Reasoned
  <2>2. CASE h.tag = "result"
    BY <1>2, <1>3, <2>1, <2>2, RestOfFields
  <2>3. CASE h.tag # "result"
    BY <1>2, <1>3, <2>1, <2>3, RestOfFields
  <2> QED BY <2>2, <2>3
<1>6. /\ \A f \in Elements(t) : Explains(f, why)
      /\ Explains(h, why)
      /\ \/ diagnostic = why
         \/ h.tag = "diagnostic"
         \/ \E f \in Elements(t) : f.tag = "diagnostic"
  BY <1>3 DEF Reasoned
<1>7. d = why \/ \E f \in Elements(t) : f.tag = "diagnostic"
  <2>1. CASE h.tag = "diagnostic"
    BY <1>2, <1>6, <2>1 DEF Explains
  <2>2. CASE h.tag # "diagnostic"
    BY <1>2, <1>6, <2>2
  <2> QED BY <2>1, <2>2
<1> QED BY <1>1, <1>4, <1>5, <1>6, <1>7 DEF Reasoned

(* When only user information is left, or nothing, all has been said.      *)
LEMMA AllSaid ==
  ASSUME NEW s, IsSequence(s), NEW why, NEW result, NEW diagnostic,
         Reasoned(s, result, diagnostic, why),
         s = <<>> \/ Head(s).tag = "userInformation"
  PROVE  result # "ACCEPTED" /\ diagnostic = why
<1>1. \A f \in Elements(s) : f.tag = "userInformation"
  <2>1. CASE s = <<>>
    BY <2>1, Literals
  <2>2. CASE s # <<>> /\ Head(s).tag = "userInformation"
    BY <2>2, LastOfTail, HeadAndTail DEF Reasoned
  <2> QED BY <2>1, <2>2
<1> QED BY <1>1 DEF Reasoned, Refusal

(* In the beginning no meter has refused. *)
LEMMA InitTold ==
  ASSUME Init
  PROVE  Told
<1>1. /\ stage = "idle" /\ request = NoRequest /\ line = <<>> /\ meter.assoc = "none"
      /\ meter.authentication = "NONE" /\ meter.refusal = "none"
  BY DEF Init
<1> QED BY <1>1 DEF Told, Barred, Unanswered, RefusalWaits, RefusalRead, ReasonTold

(* Reading a field, and deciding when that ends the reading. *)
LEMMA ParseTold ==
  ASSUME Inv, Told, Inv', stage = "parsing",
         UNCHANGED <<attempt, request, meter, line, disturbed>>,
         stage' \in {"parsing", "challenge", "open", "failed"},
         ~ disturbed /\ meter.refusal # "none" /\ stage' = "parsing" =>
           Reasoned(fields', parse'.result, parse'.diagnostic, meter.refusal),
         ~ disturbed /\ meter.refusal # "none" /\ stage' = "failed" =>
           ret' = Reason(meter.refusal, parse'.result)
  PROVE  Told'
<1>1. Barred /\ request = NoRequest
  BY DEF Told, Inv, StageInv, Reading
<1>2. stage' = "open" => meter.assoc = "open"
  BY DEF Inv, Agreed
<1>3. stage' = "challenge" => meter.authentication = "HIGH_GMAC"
  BY DEF Inv, StageInv, High
<1>4. Barred'
  BY <1>1, <1>2, <1>3 DEF Barred, Unanswered
<1>5. RefusalWaits' /\ RefusalRead'
  BY DEF RefusalWaits, RefusalRead, Reasoned, Refusal, InformationLast, Elements, Explains
<1>6. ReasonTold'
  BY DEF ReasonTold, Reason
<1> QED BY <1>4, <1>5, <1>6 DEF Told

(* A field is read without a decision: what it says is remembered.         *)
LEMMA FieldTold ==
  ASSUME Inv, Told, Inv', stage = "parsing", fields # <<>>, NextField, stage' = "parsing",
         Head(fields).tag = "result" => parse'.result = Head(fields).value,
         Head(fields).tag # "result" => parse'.result = parse.result,
         Head(fields).tag = "diagnostic" => parse'.diagnostic = Head(fields).value,
         Head(fields).tag # "diagnostic" => parse'.diagnostic = parse.diagnostic
  PROVE  Told'
<1>1. IsSequence(fields)
  BY DEF Inv, StageInv, Reading
<1>2. fields' = Tail(fields) /\ UNCHANGED <<attempt, request, meter, line, disturbed>>
  BY DEF NextField
<1>3. ASSUME ~ disturbed, meter.refusal # "none"
      PROVE  Reasoned(fields', parse'.result, parse'.diagnostic, meter.refusal)
  <2>1. Reasoned(fields, parse.result, parse.diagnostic, meter.refusal)
    BY <1>3 DEF Told, RefusalRead
  <2> DEFINE r == parse'.result
             d == parse'.diagnostic
             h == Head(fields)
             t == Tail(fields)
  <2>2. /\ h.tag = "result" => r = h.value
        /\ h.tag # "result" => r = parse.result
        /\ h.tag = "diagnostic" => d = h.value
        /\ h.tag # "diagnostic" => d = parse.diagnostic
    OBVIOUS
  <2> HIDE DEF r, d
  <2>3. Reasoned(t, r, d, meter.refusal)
    BY <1>1, <2>1, <2>2, ReasonedRest
  <2>4. fields' = t
    BY <1>2
  <2> HIDE DEF t
  <2> QED BY <2>3, <2>4 DEF r, d
<1> QED BY <1>2, <1>3, ParseTold

(* What a meter that refused says of the field read next.                  *)
LEMMA HeadExplains ==
  ASSUME Inv, Told, stage = "parsing", fields # <<>>, ~ disturbed, meter.refusal # "none"
  PROVE  Explains(Head(fields), meter.refusal)
<1>1. IsSequence(fields)
  BY DEF Inv, StageInv, Reading
<1>2. Head(fields) \in Elements(fields)
  BY <1>1, HeadAndTail
<1> QED BY <1>2 DEF Told, RefusalRead, Reasoned

(* The context name is read over. *)
LEMMA ContextTold ==
  ASSUME Inv, Told, Inv', apdu_parseApplicationContextName
  PROVE  Told'
<1>1. stage = "parsing" /\ fields # <<>> /\ NextField /\ Head(fields).tag = "context"
  BY DEF apdu_parseApplicationContextName, Parsing
<1>2. Head(fields).value \in {"LN", "LN ciphered"}
  BY <1>1, FieldTaken DEF FieldOK
<1>3. UNCHANGED <<stage, parse>>
  BY <1>2 DEF apdu_parseApplicationContextName, Taken
<1> QED BY <1>1, <1>3, FieldTold

(* Title and challenge say nothing of a refusal. *)
LEMMA QuietTold ==
  ASSUME Inv, Told, Inv', ParseTitle \/ ParseChallenge \/ SkipField
  PROVE  Told'
<1>1. /\ stage = "parsing" /\ fields # <<>> /\ NextField
      /\ Head(fields).tag \in {"title", "challenge", "requirements", "protocolVersion"}
      /\ UNCHANGED <<stage, parse>>
  BY DEF ParseTitle, ParseChallenge, SkipField, Parsing, Taken
<1> QED BY <1>1, FieldTold

(* The result or the diagnostic is read and remembered. *)
LEMMA ResultTold ==
  ASSUME Inv, Told, Inv', ParseResult \/ ParseDiagnostic
  PROVE  Told'
<1>1. IsParse
  BY DEF Inv
<1>2. CASE ParseResult
  <2>1. /\ stage = "parsing" /\ fields # <<>> /\ NextField /\ Head(fields).tag = "result"
        /\ UNCHANGED stage /\ parse' = [parse EXCEPT !.result = Head(fields).value]
    BY <1>2 DEF ParseResult, Parsing, Taken
  <2>2. parse'.result = Head(fields).value /\ parse'.diagnostic = parse.diagnostic
    BY <1>1, <2>1 DEF IsParse
  <2> QED BY <2>1, <2>2, FieldTold
<1>3. CASE ParseDiagnostic
  <2>1. /\ stage = "parsing" /\ fields # <<>> /\ NextField /\ Head(fields).tag = "diagnostic"
        /\ UNCHANGED stage /\ parse' = [parse EXCEPT !.diagnostic = Head(fields).value]
    BY <1>3 DEF ParseDiagnostic, Parsing, Taken
  <2>2. parse'.diagnostic = Head(fields).value /\ parse'.result = parse.result
    BY <1>1, <2>1 DEF IsParse
  <2> QED BY <2>1, <2>2, FieldTold
<1> QED BY <1>2, <1>3

(* The meter wants a mechanism the library knows. *)
LEMMA MechanismTold ==
  ASSUME Inv, Told, Inv', apdu_updateAuthentication
  PROVE  Told'
<1>1. /\ stage = "parsing" /\ fields # <<>> /\ NextField /\ Head(fields).tag = "mechanism"
      /\ UNCHANGED parse
  BY DEF apdu_updateAuthentication, Parsing
<1>2. CASE Head(fields).value \in {"NONE", "LOW", "HIGH_GMAC"}
  <2>1. UNCHANGED stage
    BY <1>2 DEF apdu_updateAuthentication, Taken
  <2> QED BY <1>1, <2>1, FieldTold
<1>3. CASE Head(fields).value \notin {"NONE", "LOW", "HIGH_GMAC"}
  <2>1. stage' = "failed"
    BY <1>3 DEF apdu_updateAuthentication, Fail
  <2>2. ~ (~ disturbed /\ meter.refusal # "none")
    BY <1>1, <1>3, HeadExplains DEF Explains
  <2>3. UNCHANGED <<attempt, request, meter, line, disturbed>>
    BY <1>1 DEF NextField
  <2> QED BY <1>1, <2>1, <2>2, <2>3, ParseTold
<1> QED BY <1>2, <1>3

(* What the result component decides. *)
LEMMA DecisionTold ==
  ASSUME Inv, Told, Inv', stage = "parsing", UNCHANGED parse,
         UNCHANGED <<attempt, request, meter, line, disturbed>>,
         \/ /\ apdu_handleResultComponent(parse.diagnostic) = "OK"
            /\ cl_parseAAREResponse(parse)
         \/ /\ apdu_handleResultComponent(parse.diagnostic) # "OK"
            /\ Fail(apdu_handleResultComponent(parse.diagnostic)),
         ~ disturbed /\ meter.refusal # "none" =>
           parse.result # "ACCEPTED" /\ parse.diagnostic = meter.refusal
  PROVE  Told'
<1>1. stage' \in {"challenge", "open", "failed"}
  BY DEF cl_parseAAREResponse, Fail
<1>2. ASSUME ~ disturbed, meter.refusal # "none"
      PROVE  ret' = Reason(meter.refusal, parse.result)
  <2>1. parse.result # "ACCEPTED" /\ parse.diagnostic = meter.refusal
    BY <1>2
  <2>2. CASE apdu_handleResultComponent(parse.diagnostic) = "OK"
    <3>1. ret' = IF parse.result = "TRANSIENT_REJECTED" THEN "REJECTED_TRANSIENT"
                 ELSE "REJECTED_PERMAMENT"
      BY <2>1, <2>2 DEF cl_parseAAREResponse, Fail
    <3> QED BY <2>1, <2>2, <3>1 DEF Reason
  <2>3. CASE apdu_handleResultComponent(parse.diagnostic) # "OK"
    <3>1. ret' = apdu_handleResultComponent(parse.diagnostic)
      BY <2>3 DEF Fail
    <3>2. apdu_handleResultComponent(parse.diagnostic) = parse.diagnostic
      BY <2>3 DEF apdu_handleResultComponent
    <3> QED BY <2>1, <2>3, <3>1, <3>2 DEF Reason
  <2> QED BY <2>2, <2>3
<1> QED BY <1>1, <1>2, ParseTold

(* User information after a refusal is not looked at. *)
LEMMA UserInformationTold ==
  ASSUME Inv, Told, Inv', ParseUserInformation
  PROVE  Told'
<1>1. /\ stage = "parsing" /\ fields # <<>> /\ NextField /\ UNCHANGED parse
      /\ Head(fields).tag = "userInformation"
      /\ UNCHANGED <<attempt, request, meter, line, disturbed>>
  BY DEF ParseUserInformation, Parsing, NextField
<1>2. ~ disturbed /\ meter.refusal # "none" =>
        parse.result # "ACCEPTED" /\ parse.diagnostic = meter.refusal
  BY <1>1, AllSaid DEF Told, RefusalRead, Inv, StageInv, Reading
<1>3. CASE Refused(parse)
  <2>1. \/ /\ apdu_handleResultComponent(parse.diagnostic) = "OK"
           /\ cl_parseAAREResponse(parse)
        \/ /\ apdu_handleResultComponent(parse.diagnostic) # "OK"
           /\ Fail(apdu_handleResultComponent(parse.diagnostic))
    BY <1>3 DEF ParseUserInformation
  <2> QED BY <1>1, <1>2, <2>1, DecisionTold
<1>4. CASE ~ Refused(parse)
  <2>1. disturbed \/ meter.refusal = "none"
    BY <1>2, <1>4 DEF Refused, Told, Barred
  <2>2. stage' \in {"parsing", "failed"}
    BY <1>1, <1>4 DEF ParseUserInformation, Taken, Fail
  <2> QED BY <1>1, <2>1, <2>2, ParseTold
<1> QED BY <1>3, <1>4

(* The refusal has been read, and its reason is told. *)
LEMMA EndTold ==
  ASSUME Inv, Told, Inv', apdu_parsePDUEnd
  PROVE  Told'
<1>1. /\ stage = "parsing" /\ fields = <<>> /\ UNCHANGED parse
      /\ UNCHANGED <<attempt, request, meter, line, disturbed>>
      /\ \/ /\ apdu_handleResultComponent(parse.diagnostic) = "OK"
            /\ cl_parseAAREResponse(parse)
         \/ /\ apdu_handleResultComponent(parse.diagnostic) # "OK"
            /\ Fail(apdu_handleResultComponent(parse.diagnostic))
  BY DEF apdu_parsePDUEnd
<1>2. ~ disturbed /\ meter.refusal # "none" =>
        parse.result # "ACCEPTED" /\ parse.diagnostic = meter.refusal
  BY <1>1, AllSaid DEF Told, RefusalRead, Inv, StageInv, Reading
<1> QED BY <1>1, <1>2, DecisionTold

(* The request is sent with nothing on the line, and before it is answered *)
(* no meter has refused.                                                   *)
LEMMA ClientTold ==
  ASSUME Inv, Told, Inv',
         \/ cl_aarqRequest \/ cl_getApplicationAssociationRequest
         \/ cl_parseApplicationAssociationResponse \/ GiveUp
  PROVE  Told'
<1>1. Barred /\ UNCHANGED <<meter, disturbed>>
  BY DEF Told, cl_aarqRequest, cl_getApplicationAssociationRequest,
         cl_parseApplicationAssociationResponse, GiveUp
<1>2. CASE cl_aarqRequest
  <2>1. stage = "idle" /\ stage' = "aare" /\ UNCHANGED line
    BY <1>2 DEF cl_aarqRequest
  <2>2. meter.refusal = "none" /\ meter.authentication = "NONE" /\ (~ disturbed => line = <<>>)
    BY <1>1, <2>1 DEF Barred, Unanswered
  <2>3. Barred'
    BY <1>1, <2>1, <2>2 DEF Barred
  <2> QED BY <1>1, <2>1, <2>2, <2>3 DEF Told, RefusalWaits, RefusalRead, ReasonTold
<1>3. CASE cl_getApplicationAssociationRequest
  <2>1. stage = "challenge" /\ stage' \in {"proof", "failed"}
    BY <1>3 DEF cl_getApplicationAssociationRequest, Fail
  <2>2. meter.refusal = "none"
    BY <1>1, <2>1 DEF Barred
  <2>3. Barred'
    BY <1>1, <2>1, <2>2 DEF Barred, Unanswered
  <2> QED BY <1>1, <2>1, <2>2, <2>3 DEF Told, RefusalWaits, RefusalRead, ReasonTold
<1>4. CASE cl_parseApplicationAssociationResponse
  <2>1. stage = "proof" /\ stage' \in {"open", "failed"} /\ UNCHANGED request
    BY <1>4 DEF cl_parseApplicationAssociationResponse, Fail
  <2>2. stage' = "open" => meter.assoc = "open"
    BY <1>1 DEF Inv, Agreed
  <2>3. meter.refusal \in {"none", "PROOF"}
    BY <1>1, <2>1 DEF Barred
  <2>4. Barred'
    BY <1>1, <2>1, <2>2, <2>3 DEF Barred, Unanswered
  <2> QED BY <1>1, <2>1, <2>3, <2>4 DEF Told, RefusalWaits, RefusalRead, ReasonTold
<1>5. CASE GiveUp
  <2>1. /\ stage \in {"aare", "proof"} /\ stage' = "failed" /\ UNCHANGED request
        /\ request = NoRequest /\ line = <<>>
    BY <1>5 DEF GiveUp, Fail
  <2>2. ~ disturbed /\ meter.refusal # "none" => stage = "proof"
    <3>1. \A a : <<>> # <<a>>
      OBVIOUS
    <3> QED BY <2>1, <3>1 DEF Told, RefusalWaits
  <2>3. Barred'
    BY <1>1, <2>1 DEF Barred, Unanswered
  <2>4. ReasonTold'
    BY <1>1, <2>1, <2>2 DEF ReasonTold, Barred
  <2> QED BY <2>1, <2>3, <2>4 DEF Told, RefusalWaits, RefusalRead
<1> QED BY <1>2, <1>3, <1>4, <1>5

(* The refusal that waits on the line is the one that is read.             *)
LEMMA ValidateTold ==
  ASSUME Inv, Told, Inv', apdu_validateAare
  PROVE  Told'
<1>1. /\ stage = "aare" /\ request = NoRequest /\ stage' \in {"parsing", "failed"}
      /\ UNCHANGED <<request, meter, disturbed>>
      /\ parse' = [result |-> "ACCEPTED", diagnostic |-> "NONE"]
  BY DEF apdu_validateAare, Fail
<1>2. Barred'
  BY <1>1 DEF Told, Barred, Unanswered
<1>3. ASSUME ~ disturbed, meter.refusal # "none"
      PROVE  /\ stage' = "parsing"
             /\ Reasoned(fields', parse'.result, parse'.diagnostic, meter.refusal)
  <2>1. PICK a \in Elements(line) :
          line = <<a>> /\ a.kind = "AARE" /\ Reasoned(a.fields, "ACCEPTED", "NONE", meter.refusal)
    BY <1>1, <1>3 DEF Told, RefusalWaits
  <2>2. Head(line) = a
    BY <2>1
  <2>3. stage' = "parsing" /\ fields' = a.fields
    BY <2>1, <2>2 DEF apdu_validateAare
  <2>4. parse'.result = "ACCEPTED" /\ parse'.diagnostic = "NONE"
    BY <1>1
  <2> QED BY <2>1, <2>3, <2>4
<1>4. RefusalRead'
  <2>1. RefusalRead' <=> (~ disturbed' /\ meter'.refusal # "none" /\ stage' = "parsing" =>
          Reasoned(fields', parse'.result, parse'.diagnostic, meter'.refusal))
    BY DEF RefusalRead, Reasoned, Refusal, InformationLast, Elements, Explains
  <2> QED BY <1>1, <1>3, <2>1
<1>5. RefusalWaits' /\ ReasonTold'
  BY <1>1, <1>3 DEF RefusalWaits, ReasonTold
<1> QED BY <1>2, <1>4, <1>5 DEF Told

(* An answer that is left belongs to the attempt before. *)
LEMMA NextAttemptTold ==
  ASSUME Inv, Told, NextAttempt
  PROVE  Told'
<1>1. /\ stage = "open" /\ stage' = "idle" /\ UNCHANGED request
      /\ meter' = [meter EXCEPT !.assoc = "none", !.authentication = "NONE"]
      /\ disturbed' = (line # <<>>)
  BY DEF NextAttempt
<1>2. request = NoRequest /\ meter.refusal = "none" /\ IsMeter
  BY <1>1 DEF Inv, StageInv, Told, Barred
<1>3. meter'.refusal = "none" /\ meter'.assoc = "none" /\ meter'.authentication = "NONE"
  BY <1>1, <1>2 DEF IsMeter
<1>4. ~ disturbed' => line' = <<>>
  <2>1. ASSUME line = <<>>  PROVE line' = <<>>
    <3>1. DOMAIN line = {}
      BY <2>1
    <3> DEFINE Other(i) == [line[i] EXCEPT !.kind = "other", !.fields = <<>>]
    <3>2. line' = [i \in DOMAIN line |-> Other(i)]
      BY DEF NextAttempt
    <3> HIDE DEF Other
    <3>3. line' = [i \in {} |-> Other(i)]
      BY <3>1, <3>2
    <3>4. [i \in {} |-> Other(i)] = <<>>
      OBVIOUS
    <3> QED BY <3>3, <3>4
  <2> QED BY <1>1, <2>1
<1>5. Barred'
  BY <1>1, <1>2, <1>3, <1>4 DEF Barred
<1> QED BY <1>1, <1>3, <1>5 DEF Told, RefusalWaits, RefusalRead, ReasonTold

(* What is put behind fields without user information keeps it last. *)
LEMMA LastOfBoth ==
  ASSUME NEW s, NEW t, IsSequence(s), IsSequence(t), InformationLast(t),
         \A f \in Elements(s) : f.tag # "userInformation"
  PROVE  InformationLast(s \o t)
<1>1. PICK S : s \in Seq(S)
  BY DEF IsSequence
<1>2. PICK T : t \in Seq(T)
  BY DEF IsSequence
<1>3. s \in Seq(S \cup T) /\ t \in Seq(S \cup T)
  BY <1>1, <1>2
<1>4. /\ s \o t \in Seq(S \cup T) /\ Len(s \o t) = Len(s) + Len(t)
      /\ \A i \in 1 .. Len(s) + Len(t) :
           (s \o t)[i] = IF i <= Len(s) THEN s[i] ELSE t[i - Len(s)]
  BY <1>3, ConcatProperties
<1>5. PICK u : u = s \o t
  OBVIOUS
<1>6. PICK m \in Nat, n \in Nat : m = Len(s) /\ n = Len(t)
  BY <1>3
<1>7. DOMAIN s = 1..m /\ DOMAIN t = 1..n /\ DOMAIN u = 1..(m + n) /\ Len(u) = m + n
  BY <1>3, <1>4, <1>5, <1>6
<1>8. \A i \in 1..(m + n) : \/ i \in 1..m /\ u[i] = s[i]
                            \/ i - m \in 1..n /\ u[i] = t[i - m]
  BY <1>4, <1>5, <1>6
<1>9. \A i \in 1..m : s[i].tag # "userInformation"
  BY <1>7 DEF Elements
<1>10. \A i \in 1..n : t[i].tag = "userInformation" => i = n
  BY <1>6, <1>7 DEF InformationLast
<1>11. \A i \in 1..(m + n) : u[i].tag = "userInformation" => i = m + n
  <2> TAKE i \in 1..(m + n)
  <2> HAVE u[i].tag = "userInformation"
  <2>1. i - m \in 1..n /\ u[i] = t[i - m]
    BY <1>8, <1>9
  <2>2. i - m = n
    BY <1>10, <2>1
  <2> QED BY <2>2
<1> QED BY <1>5, <1>7, <1>11 DEF InformationLast

(* A refusal says its reason, and nothing of an acceptance. *)
LEMMA RefusingReasoned ==
  ASSUME KnownNames, NEW r \in Refusals, NEW name \in ContextNames,
         NEW mechanism \in BOOLEAN, NEW information \in BOOLEAN
  PROVE  Reasoned(Refusing(r, name, mechanism, information), "ACCEPTED", "NONE", r.diagnostic)
<1> DEFINE f1 == Field("protocolVersion", "")
           f2 == Field("context", name)
           f3 == Field("result", r.result)
           f4 == Field("diagnostic", r.diagnostic)
           f5 == [Field("title", "") EXCEPT !.octets = <<2>>]
           f6 == Field("mechanism", "HIGH_GMAC")
           f7 == [Field("userInformation", "") EXCEPT !.octets = <<14>>]
           s1 == <<f1, f2, f3, f4>>
           s2 == If(mechanism, <<f5, f6>>)
           s3 == If(information, <<f7>>)
           s4 == s1 \o s2
           s == s4 \o s3
<1>1. Refusal(Elements(Refusing(r, name, mechanism, information)), "ACCEPTED")
  BY RefusingOK
<1>2. Refusing(r, name, mechanism, information) = s
  BY DEF Refusing
<1>3. /\ f1.tag = "protocolVersion" /\ f2.tag = "context" /\ f3.tag = "result"
      /\ f4.tag = "diagnostic" /\ f4.value = r.diagnostic
      /\ f6.tag = "mechanism" /\ f6.value = "HIGH_GMAC"
  <2>1. \A tag, value : Field(tag, value).tag = tag /\ Field(tag, value).value = value
    BY FieldParts
  <2> QED BY <2>1
<1>4. f5.tag = "title" /\ f7.tag = "userInformation"
  BY DEF Field
<1> HIDE DEF f1, f2, f3, f4, f5, f6, f7
<1>5. /\ IsSequence(s1) /\ Elements(s1) = {f1, f2, f3, f4}
      /\ IsSequence(s2) /\ Elements(s2) \subseteq {f5, f6}
      /\ IsSequence(s3) /\ Elements(s3) \subseteq {f7}
  <2>1. IsSequence(s1) /\ Elements(s1) = {f1, f2, f3, f4}
    BY Literals
  <2>2. IsSequence(s2) /\ Elements(s2) \subseteq {f5, f6}
    BY Literals DEF If
  <2>3. IsSequence(s3) /\ Elements(s3) \subseteq {f7}
    BY Literals DEF If
  <2> QED BY <2>1, <2>2, <2>3
<1>6. InformationLast(s3)
  <2>1. s3 = <<f7>> \/ s3 = <<>>
    BY DEF If
  <2>2. InformationLast(<<f7>>) /\ InformationLast(<<>>)
    BY DEF InformationLast
  <2> QED BY <2>1, <2>2
<1> HIDE DEF s1, s2, s3
<1>7. IsSequence(s4) /\ Elements(s4) = Elements(s1) \cup Elements(s2)
  BY <1>5, Concatenated
<1> HIDE DEF s4
<1>8. IsSequence(s) /\ Elements(s) = Elements(s4) \cup Elements(s3)
  BY <1>5, <1>7, Concatenated
<1>9. InformationLast(s)
  <2>1. \A f \in Elements(s4) : f.tag # "userInformation"
    BY <1>3, <1>4, <1>5, <1>7
  <2> QED BY <1>5, <1>6, <1>7, <2>1, LastOfBoth
<1> HIDE DEF s
<1>10. Elements(s) \subseteq {f1, f2, f3, f4, f5, f6, f7} /\ f4 \in Elements(s)
  BY <1>5, <1>7, <1>8
<1>11. \A f \in Elements(s) : Explains(f, r.diagnostic)
  BY <1>3, <1>4, <1>10 DEF Explains
<1>12. \E f \in Elements(s) : f.tag = "diagnostic"
  BY <1>3, <1>10
<1> QED BY <1>1, <1>2, <1>9, <1>11, <1>12 DEF Reasoned

(* What a refusing meter sends is what waits. *)
LEMMA RefusesTold ==
  ASSUME KnownNames, Inv, Told, MeterRefuses
  PROVE  Told'
<1>1. request.kind = "AARQ"
  BY DEF MeterRefuses
<1>2. PICK r \in Refusals, name \in ContextNames, m, i \in BOOLEAN :
        /\ meter' = [meter EXCEPT !.assoc = "none", !.refusal = r.diagnostic]
        /\ Deliver([Answer("AARE") EXCEPT !.fields = Refusing(r, name, m, i)])
  BY DEF MeterRefuses
<1>3. stage = "aare" /\ request # NoRequest
  BY <1>1, RequestOfStage DEF NoRequest
<1>4. meter.authentication = "NONE" /\ (~ disturbed => line = <<>>) /\ IsMeter
  BY <1>3 DEF Told, Barred, Unanswered, Inv
<1>5. PICK A : A = Refusing(r, name, m, i)
  OBVIOUS
<1>6. Reasoned(A, "ACCEPTED", "NONE", r.diagnostic) /\ r.diagnostic # "NONE"
  BY <1>5, RefusingReasoned, AssociationAssumption
<1>7. PICK a : a = [Answer("AARE") EXCEPT !.fields = A]
  OBVIOUS
<1>8. a.kind = "AARE" /\ a.fields = A
  BY <1>7 DEF Answer
<1>9. Deliver(a)
  BY <1>2, <1>5, <1>7
<1>10. /\ meter'.refusal = r.diagnostic /\ meter'.assoc = "none"
       /\ meter'.authentication = "NONE"
  BY <1>2, <1>4 DEF IsMeter
<1>11. stage' = "aare" /\ request' = NoRequest
  BY <1>3, <1>9 DEF Deliver
<1>12. ~ disturbed' => line' = <<a>>
  <2>1. PICK copies : line' = line \o copies /\ disturbed' = (disturbed \/ copies # <<a>>)
    BY <1>9 DEF Deliver
  <2>2. <<>> \o <<a>> = <<a>>
    OBVIOUS
  <2> QED BY <1>4, <2>1, <2>2
<1>13. Barred'
  BY <1>6, <1>10, <1>11 DEF Barred, Unanswered
<1>14. RefusalWaits'
  <2>1. ASSUME ~ disturbed'
        PROVE  a \in Elements(line') /\ line' = <<a>>
    BY <1>12, <2>1, Literals
  <2>2. Reasoned(a.fields, "ACCEPTED", "NONE", meter'.refusal)
    BY <1>6, <1>8, <1>10
  <2>3. RefusalWaits' <=>
          (~ disturbed' /\ meter'.refusal # "none" /\ stage' = "aare" =>
             \E b \in Elements(line') : /\ line' = <<b>> /\ b.kind = "AARE"
                                        /\ Reasoned(b.fields, "ACCEPTED", "NONE", meter'.refusal))
    BY DEF RefusalWaits, Reasoned, Refusal, InformationLast, Elements, Explains
  <2> QED BY <1>8, <2>1, <2>2, <2>3
<1> QED BY <1>11, <1>13, <1>14 DEF Told, RefusalRead, ReasonTold

(* The other steps of meter and line refuse no AARQ. *)
LEMMA MeterTold ==
  ASSUME Inv, Told, MeterAccepts \/ MeterChecks \/ LoseRequest
  PROVE  Told'
<1>1. request # NoRequest /\ request' = NoRequest /\ UNCHANGED stage
  <2>1. NoRequest.kind = "none"
    BY DEF NoRequest
  <2>2. \A a : Deliver(a) => request' = NoRequest /\ UNCHANGED stage
    BY DEF Deliver
  <2>3. CASE MeterAccepts
    BY <2>1, <2>2, <2>3 DEF MeterAccepts
  <2>4. CASE MeterChecks
    <3>1. request.kind = "AUTH" /\ \E a : Deliver(a)
      BY <2>4 DEF MeterChecks
    <3> QED BY <2>1, <2>2, <3>1
  <2>5. CASE LoseRequest
    BY <2>5 DEF LoseRequest
  <2> QED BY <2>3, <2>4, <2>5
<1>2. stage \in {"aare", "proof"} /\ meter.refusal = "none"
  BY <1>1 DEF Inv, TypeOK, StageInv, Idle, Reading, Told, Barred
<1>3. IsMeter
  BY DEF Inv
<1>4. CASE MeterAccepts
  <2>1. PICK g \in Granted, c \in Challenges :
          meter' = [meter EXCEPT
             !.assoc = IF request.authentication = "HIGH_GMAC" THEN "pending" ELSE "open",
             !.authentication = request.authentication, !.conformance = g.conformance,
             !.pdu = g.pdu, !.stoC = c, !.ctoS = request.challenge]
    BY <1>4 DEF MeterAccepts
  <2> DEFINE assoc == IF request.authentication = "HIGH_GMAC" THEN "pending" ELSE "open"
  <2> HIDE DEF assoc
  <2>2. meter' = [meter EXCEPT !.assoc = assoc, !.authentication = request.authentication,
                    !.conformance = g.conformance, !.pdu = g.pdu, !.stoC = c,
                    !.ctoS = request.challenge]
    BY <2>1 DEF assoc
  <2>3. meter'.refusal = "none"
    BY <1>2, <1>3, <2>2 DEF IsMeter
  <2> QED BY <1>1, <1>2, <2>3 DEF Told, Barred, Unanswered, RefusalWaits, RefusalRead, ReasonTold
<1>5. CASE MeterChecks
  <2>1. stage = "proof"
    BY <1>5, RequestOfStage DEF MeterChecks
  <2>2. \/ meter' = [meter EXCEPT !.assoc = "open"]
        \/ meter' = [meter EXCEPT !.assoc = "none", !.refusal = "PROOF"]
    BY <1>5 DEF MeterChecks
  <2>3. meter'.refusal = "none" \/ (meter'.refusal = "PROOF" /\ meter'.assoc = "none")
    BY <1>2, <1>3, <2>2 DEF IsMeter
  <2> QED BY <1>1, <2>1, <2>3 DEF Told, Barred, Unanswered, RefusalWaits, RefusalRead, ReasonTold
<1>6. CASE LoseRequest
  <2>1. UNCHANGED meter
    BY <1>6 DEF LoseRequest
  <2> QED BY <1>1, <1>2, <2>1
          DEF Told, Barred, Unanswered, RefusalWaits, RefusalRead, ReasonTold
<1> QED BY <1>4, <1>5, <1>6

(* Nothing happens. *)
LEMMA StutterTold ==
  ASSUME Told, UNCHANGED vars
  PROVE  Told'
<1>1. UNCHANGED <<stage, ret, fields, parse, request, meter, line, disturbed>>
  BY DEF vars
<1> QED BY <1>1 DEF Told, Barred, Unanswered, RefusalWaits, RefusalRead, ReasonTold, Reasoned,
                    Refusal, InformationLast, Elements, Explains

(* Told is inductive next to Inv. *)
LEMMA NextTold ==
  ASSUME KnownNames, Inv, Told, [Next]_vars
  PROVE  Told'
<1>1. Inv'
  BY NextInv
<1>2. ASSUME Parse  PROVE Told'
  BY <1>1, <1>2, ContextTold, ResultTold, QuietTold, MechanismTold, UserInformationTold, EndTold
     DEF Parse
<1>3. ASSUME Next  PROVE Told'
  BY <1>1, <1>2, <1>3, ClientTold, ValidateTold, NextAttemptTold, RefusesTold, MeterTold DEF Next
<1> QED BY <1>3, StutterTold

(* An association the meter refused ends with the meter's reason, whatever *)
(* the refusal carries besides (a title of the wrong length, another       *)
(* mechanism, invalid user information) and after whatever attempts: for   *)
(* every result and diagnostic, if its context name is one the library     *)
(* knows and no answer was lost or doubled.                                *)
THEOREM ReasonAlwaysTold ==
  ASSUME KnownNames, Attempts # <<>>
  PROVE  Spec => []ReasonTold
<1>1. Init => Inv /\ Told
  BY InitInv, InitTold
<1>2. Inv /\ Told /\ [Next]_vars => (Inv /\ Told)'
  BY NextInv, NextTold
<1>3. Told => ReasonTold
  BY DEF Told
<1> QED BY <1>1, <1>2, <1>3, PTL DEF Spec

-----------------------------------------------------------------------------
(* What the code feeds to GHASH, and what GCM does, of sixteen bytes of    *)
(* key: sequences of blocks that are compared element by element.          *)

(* u is s, of m elements, with t, of n, behind it. *)
Behind(S, u, s, m, t, n) ==
  /\ u \in Seq(S) /\ Len(u) = m + n
  /\ \A i \in 1..(m + n) : u[i] = IF i <= m THEN s[i] ELSE t[i - m]

(* What \o does, in that form. *)
LEMMA PutBehind ==
  ASSUME NEW S, NEW s \in Seq(S), NEW t \in Seq(S), NEW m \in Nat, NEW n \in Nat,
         Len(s) = m, Len(t) = n, NEW u, u = s \o t
  PROVE  Behind(S, u, s, m, t, n)
<1>1. /\ s \o t \in Seq(S) /\ Len(s \o t) = m + n
      /\ \A i \in 1..(m + n) : (s \o t)[i] = IF i <= m THEN s[i] ELSE t[i - m]
  BY ConcatProperties
<1> QED BY <1>1, Zenon DEF Behind

(* A short sequence, written out. *)
LEMMA Triple ==
  ASSUME NEW S, NEW s \in Seq(S)
  PROVE  /\ Len(s) = 1 => s = <<s[1]>>
         /\ Len(s) = 2 => s = <<s[1], s[2]>>
         /\ Len(s) = 3 => s = <<s[1], s[2], s[3]>>
<1>1. ASSUME Len(s) = 1 PROVE s = <<s[1]>>
  <2>1. PICK t : t = <<s[1]>>
    OBVIOUS
  <2>2. t \in Seq(S) /\ Len(t) = 1 /\ t[1] = s[1]
    BY <1>1, <2>1
  <2>3. \A i \in 1..1 : s[i] = t[i]
    BY <2>2
  <2> QED BY <1>1, <2>1, <2>2, <2>3, SeqEqual
<1>2. ASSUME Len(s) = 2 PROVE s = <<s[1], s[2]>>
  <2>1. PICK t : t = <<s[1], s[2]>>
    OBVIOUS
  <2>2. t \in Seq(S) /\ Len(t) = 2 /\ t[1] = s[1] /\ t[2] = s[2]
    BY <1>2, <2>1
  <2>3. \A i \in 1..2 : s[i] = t[i]
    BY <2>2
  <2> QED BY <1>2, <2>1, <2>2, <2>3, SeqEqual
<1>3. ASSUME Len(s) = 3 PROVE s = <<s[1], s[2], s[3]>>
  <2>1. PICK t : t = <<s[1], s[2], s[3]>>
    OBVIOUS
  <2>2. t \in Seq(S) /\ Len(t) = 3 /\ t[1] = s[1] /\ t[2] = s[2] /\ t[3] = s[3]
    BY <1>3, <2>1
  <2>3. \A i \in 1..3 : s[i] = t[i]
    BY <2>2
  <2> QED BY <1>3, <2>1, <2>2, <2>3, SeqEqual
<1> QED BY <1>1, <1>2, <1>3

(* Short sequences, one behind the other. *)
LEMMA Joined ==
  /\ \A a, b : <<a>> \o <<b>> = <<a, b>> /\ <<a, b>> \o <<>> = <<a, b>>
  /\ \A a, b, c : <<a, b>> \o <<c>> = <<a, b, c>>
<1>1. \A a, b : <<a>> \o <<b>> = <<a, b>>
  <2> TAKE a, b
  <2> DEFINE S == {a, b}
  <2>1. PICK s, t : s = <<a>> /\ t = <<b>>
    OBVIOUS
  <2>2. s \in Seq(S) /\ t \in Seq(S) /\ Len(s) = 1 /\ Len(t) = 1 /\ s[1] = a /\ t[1] = b
    BY <2>1
  <2> HIDE DEF S
  <2>3. PICK m \in Nat, n \in Nat : m = 1 /\ n = 1
    OBVIOUS
  <2>4. Len(s) = m /\ Len(t) = n
    BY <2>2, <2>3
  <2>5. PICK u : u = s \o t
    OBVIOUS
  <2>6. Behind(S, u, s, m, t, n)
    BY <2>2, <2>4, <2>5, PutBehind, Zenon
  <2>7. Len(u) = 2 /\ u[1] = a /\ u[2] = b
    BY <2>2, <2>3, <2>6 DEF Behind
  <2>8. u = <<a, b>>
    BY <2>6, <2>7, Triple DEF Behind
  <2> QED BY <2>1, <2>5, <2>8
<1>2. \A a, b : <<a, b>> \o <<>> = <<a, b>>
  <2> TAKE a, b
  <2>1. <<a, b>> \in Seq({a, b})
    OBVIOUS
  <2> QED BY <2>1, ConcatEmptySeq
<1>3. \A a, b, c : <<a, b>> \o <<c>> = <<a, b, c>>
  <2> TAKE a, b, c
  <2> DEFINE S == {a, b, c}
  <2>1. PICK s, t : s = <<a, b>> /\ t = <<c>>
    OBVIOUS
  <2>2. s \in Seq(S) /\ t \in Seq(S) /\ Len(s) = 2 /\ Len(t) = 1
        /\ s[1] = a /\ s[2] = b /\ t[1] = c
    BY <2>1
  <2> HIDE DEF S
  <2>3. PICK m \in Nat, n \in Nat : m = 2 /\ n = 1
    OBVIOUS
  <2>4. Len(s) = m /\ Len(t) = n
    BY <2>2, <2>3
  <2>5. PICK u : u = s \o t
    OBVIOUS
  <2>6. Behind(S, u, s, m, t, n)
    BY <2>2, <2>4, <2>5, PutBehind, Zenon
  <2>7. Len(u) = 3 /\ u[1] = a /\ u[2] = b /\ u[3] = c
    BY <2>2, <2>3, <2>6 DEF Behind
  <2>8. u = <<a, b, c>>
    BY <2>6, <2>7, Triple DEF Behind
  <2> QED BY <2>1, <2>5, <2>8
<1> QED BY <1>1, <1>2, <1>3

(* u is the k elements of s behind its first m. *)
Part(S, u, s, m, k) ==
  /\ u \in Seq(S) /\ Len(u) = k
  /\ \A i \in 1..k : u[i] = s[m + i]

(* What SubSeq does, in that form. *)
LEMMA TakePart ==
  ASSUME NEW S, NEW s \in Seq(S), NEW m \in Nat, NEW k \in Nat, m + k <= Len(s),
         NEW i, NEW j, i = m + 1, j = m + k, NEW u, u = SubSeq(s, i, j)
  PROVE  Part(S, u, s, m, k)
<1>1. \A x \in i..j : s[x] \in S
  <2>1. \A x \in i..j : x \in 1..Len(s)
    OBVIOUS
  <2>2. \A x \in 1..Len(s) : s[x] \in S
    OBVIOUS
  <2> QED BY <2>1, <2>2, Zenon
<1>2. i \in Int /\ j \in Int
  OBVIOUS
<1>3. /\ SubSeq(s, i, j) \in Seq(S) /\ Len(SubSeq(s, i, j)) = IF i <= j THEN j - i + 1 ELSE 0
      /\ \A x \in 1..(j - i + 1) : SubSeq(s, i, j)[x] = s[i + x - 1]
  BY <1>1, <1>2, SubSeqProperties
<1>4. /\ u \in Seq(S) /\ Len(u) = IF i <= j THEN j - i + 1 ELSE 0
      /\ \A x \in 1..(j - i + 1) : u[x] = s[i + x - 1]
  BY <1>3, Zenon
<1>5. (IF i <= j THEN j - i + 1 ELSE 0) = k /\ j - i + 1 = k
  OBVIOUS
<1>6. \A x \in 1..k : i + x - 1 = m + x
  OBVIOUS
<1> QED BY <1>4, <1>5, <1>6, Zenon DEF Part

(* An element of a sequence is of its kind. *)
LEMMA ElementOf ==
  ASSUME NEW S, NEW s \in Seq(S), NEW i \in 1..Len(s)
  PROVE  s[i] \in S
OBVIOUS

(* A block of sixteen bytes needs no padding. *)
LEMMA WholeBlock ==
  ASSUME NEW S, NEW s \in Seq(S), Len(s) = 16
  PROVE  Pad(s) = s
<1>1. [i \in 1..(16 - Len(s)) |-> 0] = <<>>
  <2>1. 1..(16 - Len(s)) = {}
    OBVIOUS
  <2>2. [i \in {} |-> 0] = <<>>
    OBVIOUS
  <2> QED BY <2>1, <2>2
<1> QED BY <1>1, ConcatEmptySeq DEF Pad

(* One, two or three blocks, written out. *)
LEMMA BlocksOf ==
  ASSUME NEW S, NEW s \in Seq(S)
  PROVE  /\ Len(s) \in 17..32 =>
              InBlocks(s) = <<Pad(SubSeq(s, 1, 16)), Pad(SubSeq(s, 17, Len(s)))>>
         /\ Len(s) = 33 =>
              InBlocks(s) = <<Pad(SubSeq(s, 1, 16)), Pad(SubSeq(s, 17, 32)),
                              Pad(SubSeq(s, 33, 33))>>
<1> DEFINE Block(i, n) == Pad(SubSeq(s, 16 * i - 15, Smaller(16 * i, n)))
<1>1. PICK n \in Nat : n = Len(s)
  OBVIOUS
<1>2. InBlocks(s) = [i \in 1..((n + 15) \div 16) |-> Block(i, n)]
  BY <1>1 DEF InBlocks
<1>3. /\ Block(1, n) = Pad(SubSeq(s, 1, Smaller(16, n)))
      /\ Block(2, n) = Pad(SubSeq(s, 17, Smaller(32, n)))
      /\ Block(3, n) = Pad(SubSeq(s, 33, Smaller(48, n)))
  <2>1. 16 * 1 - 15 = 1 /\ 16 * 2 - 15 = 17 /\ 16 * 3 - 15 = 33 /\ 16 * 1 = 16 /\ 16 * 2 = 32
        /\ 16 * 3 = 48
    OBVIOUS
  <2> QED BY <2>1
<1> HIDE DEF Block
<1>4. /\ [i \in 1..2 |-> Block(i, n)] = <<Block(1, n), Block(2, n)>>
      /\ [i \in 1..3 |-> Block(i, n)] = <<Block(1, n), Block(2, n), Block(3, n)>>
  OBVIOUS
<1>5. \A k \in 17..32 : (k + 15) \div 16 = 2 /\ Smaller(16, k) = 16 /\ Smaller(32, k) = k
  BY DEF Smaller
<1>6. (33 + 15) \div 16 = 3 /\ Smaller(16, 33) = 16 /\ Smaller(32, 33) = 32 /\ Smaller(48, 33) = 33
  BY DEF Smaller
<1>7. ASSUME n \in 17..32
      PROVE  InBlocks(s) = <<Pad(SubSeq(s, 1, 16)), Pad(SubSeq(s, 17, n))>>
  <2>1. (n + 15) \div 16 = 2 /\ Smaller(16, n) = 16 /\ Smaller(32, n) = n
    BY <1>5, <1>7, Zenon
  <2> QED BY <1>2, <1>3, <1>4, <2>1, Zenon
<1>8. ASSUME n = 33
      PROVE  InBlocks(s) = <<Pad(SubSeq(s, 1, 16)), Pad(SubSeq(s, 17, 32)),
                             Pad(SubSeq(s, 33, 33))>>
  BY <1>2, <1>3, <1>4, <1>6, <1>8, Zenon
<1> QED BY <1>1, <1>7, <1>8, Zenon

(* The whole blocks of the first n bytes of A. *)
KeyOf(A, n) == [i \in 1..(n \div 16) |-> SubSeq(A, 16 * i - 15, 16 * i)]

(* A is a control byte and the key, B its first block; the last byte of    *)
(* the key is over.                                                        *)
KeyParts(S, key, A, B) ==
  /\ A \in Seq(S) /\ Len(A) = 17
  /\ B \in Seq(S) /\ Len(B) = 16 /\ Pad(B) = B /\ \A i \in 1..16 : B[i] = A[i]
  /\ key[16] \in S /\ A[17] = key[16]
  /\ KeyOf(A, 16) = <<B>>

(* A key of sixteen bytes behind the control byte: one block and one byte. *)
LEMMA KeyBlocks ==
  ASSUME NEW S, NEW control \in S, NEW key \in Seq(S), Len(key) = 16,
         NEW A, A = <<control>> \o key, NEW B, B = SubSeq(A, 1, 16)
  PROVE  KeyParts(S, key, A, B)
<1>0. PICK c : c = <<control>>
  OBVIOUS
<1>1. PICK m \in Nat, n \in Nat : m = 1 /\ n = 16
  OBVIOUS
<1>2. c \in Seq(S) /\ Len(c) = m /\ Len(key) = n
  BY <1>0, <1>1
<1>3. Behind(S, A, c, m, key, n)
  BY <1>0, <1>1, <1>2, PutBehind, Zenon
<1>4. A \in Seq(S) /\ Len(A) = 17 /\ A[17] = key[16]
  BY <1>1, <1>3 DEF Behind
<1>5. Part(S, B, A, 0, 16)
  <2>1. 0 + 16 <= Len(A) /\ 1 = 0 + 1 /\ 16 = 0 + 16 /\ 0 \in Nat /\ 16 \in Nat
    BY <1>4
  <2> QED BY <1>4, <2>1, TakePart, Zenon
<1>6. B \in Seq(S) /\ Len(B) = 16 /\ \A i \in 1..16 : B[i] = A[i]
  <2>1. \A i \in 1..16 : 0 + i = i
    OBVIOUS
  <2> QED BY <1>5, <2>1, Zenon DEF Part
<1>7. Pad(B) = B
  BY <1>6, WholeBlock, Zenon
<1>8. key[16] \in S
  <2>1. 16 \in 1..Len(key)
    BY <1>1, <1>2
  <2> QED BY <2>1, ElementOf, Zenon
<1>9. KeyOf(A, 16) = <<B>>
  <2> DEFINE Block(i) == SubSeq(A, 16 * i - 15, 16 * i)
  <2>1. 16 \div 16 = 1 /\ 16 * 1 - 15 = 1 /\ 16 * 1 = 16
    OBVIOUS
  <2>2. Block(1) = B
    BY <2>1, Zenon
  <2> HIDE DEF Block
  <2>3. [i \in 1..1 |-> Block(i)] = <<Block(1)>>
    OBVIOUS
  <2>4. [i \in 1..(16 \div 16) |-> Block(i)] = <<B>>
    BY <2>1, <2>2, <2>3, Zenon
  <2> QED BY <2>4 DEF Block, KeyOf
<1> QED BY <1>4, <1>6, <1>7, <1>8, <1>9, Zenon DEF KeyParts

(* What is enciphered is fed as GCM says, with a key of sixteen bytes.     *)
LEMMA EncipheredBlocks ==
  ASSUME NEW S, NEW control \in S, NEW key \in Seq(S), Len(key) = 16, NEW value,
         NEW security, security # AUTHENTICATION
  PROVE  gxgcm_getGHash(security, control, key, value) = GcmBlocks(security, control, key, value)
<1>1. PICK A : A = <<control>> \o key
  OBVIOUS
<1>2. PICK B : B = SubSeq(A, 1, 16)
  OBVIOUS
<1>3. PICK last : last = key[16]
  OBVIOUS
<1> DEFINE K == KeyOf(A, 16)
           L == Pad(<<last>>)
           V == InBlocks(value)
<1>4. /\ A \in Seq(S) /\ Len(A) = 17 /\ Pad(B) = B /\ A[17] = last /\ last \in S
      /\ K = <<B>>
  <2>1. control \in S /\ key \in Seq(S) /\ Len(key) = 16
    OBVIOUS
  <2>2. KeyParts(S, key, A, B)
    BY <1>1, <1>2, <2>1, KeyBlocks, Zenon
  <2> QED BY <1>3, <2>2, Zenon DEF KeyParts
<1>5. SubSeq(A, 17, 17) = <<last>>
  <2>1. PICK m \in Nat, k \in Nat, j \in Nat : m = 16 /\ k = 1 /\ j = 17
    OBVIOUS
  <2>2. PICK u : u = SubSeq(A, j, j)
    OBVIOUS
  <2>3. m + k <= Len(A) /\ j = m + 1 /\ j = m + k
    BY <1>4, <2>1
  <2>4. Part(S, u, A, m, k)
    BY <1>4, <2>1, <2>2, <2>3, TakePart, Zenon
  <2>5. u \in Seq(S) /\ Len(u) = 1 /\ u[1] = A[17]
    BY <2>1, <2>4 DEF Part
  <2>6. u = <<last>>
    BY <1>4, <2>5, Triple, Zenon
  <2> QED BY <2>1, <2>2, <2>6, Zenon
<1>6. InBlocks(A) = <<B, L>>
  <2>1. 17 \in 17..32
    OBVIOUS
  <2>2. InBlocks(A) = <<Pad(SubSeq(A, 1, 16)), Pad(SubSeq(A, 17, Len(A)))>>
    BY <1>4, <2>1, BlocksOf, Zenon
  <2> QED BY <1>2, <1>4, <1>5, <2>2, Zenon
<1>7. gxgcm_getGHash(security, control, key, value) = (K \o <<L>>) \o V
  BY <1>1, <1>3, Zenon DEF gxgcm_getGHash, KeyOf
<1>8. GcmBlocks(security, control, key, value) = InBlocks(A) \o V
  BY <1>1, Zenon DEF GcmBlocks
<1>9. <<B>> \o <<L>> = <<B, L>>
  BY Joined, Zenon
<1> QED BY <1>4, <1>6, <1>7, <1>8, <1>9, Zenon

(* What is authenticated alone is, too, if it has one to sixteen bytes:    *)
(* one block behind the key's last byte, and a byte over when it is full.  *)
LEMMA AuthenticatedBlocks ==
  ASSUME NEW S, NEW control \in S, NEW key \in Seq(S), Len(key) = 16,
         NEW value \in Seq(S), Len(value) \in 1..16
  PROVE  gxgcm_getGHash(AUTHENTICATION, control, key, value)
           = GcmBlocks(AUTHENTICATION, control, key, value)
<1>1. PICK A : A = <<control>> \o key
  OBVIOUS
<1>2. PICK B : B = SubSeq(A, 1, 16)
  OBVIOUS
<1>3. PICK last : last = key[16]
  OBVIOUS
<1>4. PICK v \in 1..16 : v = Len(value)
  OBVIOUS
<1>5. PICK D : D = A \o value
  OBVIOUS
<1> DEFINE K == KeyOf(A, 16)
           Block(i) == Pad(<<last>> \o SubSeq(value, 16 * i - 15, Smaller(16 * i - 1, v)))
           P == Pad(<<last>> \o SubSeq(value, 1, Smaller(15, v)))
           rest == IF v % 16 = 0 THEN <<Pad(<<value[v]>>)>> ELSE <<>>
<1>6. /\ A \in Seq(S) /\ Len(A) = 17 /\ Pad(B) = B /\ A[17] = last /\ last \in S
      /\ K = <<B>> /\ B \in Seq(S) /\ Len(B) = 16
      /\ \A i \in 1..16 : B[i] = A[i]
  <2>1. control \in S /\ key \in Seq(S) /\ Len(key) = 16
    OBVIOUS
  <2>2. KeyParts(S, key, A, B)
    BY <1>1, <1>2, <2>1, KeyBlocks, Zenon
  <2> QED BY <1>3, <2>2, Zenon DEF KeyParts
<1>7. gxgcm_getGHash(AUTHENTICATION, control, key, value)
        = (K \o [i \in 1..((v + 15) \div 16) |-> Block(i)]) \o rest
  BY <1>1, <1>3, <1>4, Zenon DEF gxgcm_getGHash, KeyOf
<1>8. [i \in 1..((v + 15) \div 16) |-> Block(i)] = <<P>>
  <2>1. (v + 15) \div 16 = 1 /\ 16 * 1 - 15 = 1 /\ 16 * 1 - 1 = 15
    OBVIOUS
  <2>2. Block(1) = P
    BY <2>1, Zenon
  <2> HIDE DEF Block, P
  <2>3. [i \in 1..1 |-> Block(i)] = <<Block(1)>>
    OBVIOUS
  <2> QED BY <2>1, <2>2, <2>3, Zenon
<1>9. GcmBlocks(AUTHENTICATION, control, key, value) = InBlocks(D)
  BY <1>1, <1>5, Zenon DEF GcmBlocks
<1>10. v \in Nat /\ 17 \in Nat /\ Len(value) = v /\ Len(A) = 17
  BY <1>4, <1>6
<1>11. Behind(S, D, A, 17, value, v)
  BY <1>5, <1>6, <1>10, PutBehind, Zenon
<1>12. /\ D \in Seq(S) /\ Len(D) = 17 + v
       /\ \A i \in 1..17 : D[i] = A[i]
       /\ \A i \in 1..v : D[17 + i] = value[i]
  <2>1. D \in Seq(S) /\ Len(D) = 17 + v
    BY <1>11, Zenon DEF Behind
  <2>2. \A i \in 1..17 : i \in 1..(17 + v) /\ i <= 17
    BY <1>10
  <2>3. \A i \in 1..v : 17 + i \in 1..(17 + v) /\ ~ (17 + i <= 17) /\ 17 + i - 17 = i
    BY <1>10
  <2>4. \A i \in 1..(17 + v) : D[i] = IF i <= 17 THEN A[i] ELSE value[i - 17]
    BY <1>11, Zenon DEF Behind
  <2>5. \A i \in 1..17 : D[i] = A[i]
    BY <2>2, <2>4, Zenon
  <2>6. ASSUME NEW i \in 1..v PROVE D[17 + i] = value[i]
    <3>1. PICK j : j = 17 + i
      OBVIOUS
    <3>2. j \in 1..(17 + v) /\ ~ (j <= 17) /\ j - 17 = i
      BY <1>10, <3>1
    <3>3. D[j] = value[j - 17]
      BY <2>4, <3>2, Zenon
    <3> QED BY <3>1, <3>2, <3>3, Zenon
  <2> QED BY <2>1, <2>5, <2>6
<1>13. SubSeq(D, 1, 16) = B
  <2>1. 0 + 16 <= Len(D) /\ 1 = 0 + 1 /\ 16 = 0 + 16 /\ 0 \in Nat /\ 16 \in Nat
    BY <1>10, <1>12
  <2>2. PICK u : u = SubSeq(D, 1, 16)
    OBVIOUS
  <2>3. Part(S, u, D, 0, 16)
    BY <1>12, <2>1, <2>2, TakePart, Zenon
  <2>4. \A i \in 1..16 : 0 + i = i /\ i \in 1..17
    OBVIOUS
  <2>5. u \in Seq(S) /\ Len(u) = 16 /\ \A i \in 1..16 : u[i] = B[i]
    <3>1. u \in Seq(S) /\ Len(u) = 16 /\ \A i \in 1..16 : u[i] = D[0 + i]
      BY <2>3, Zenon DEF Part
    <3>2. \A i \in 1..16 : D[i] = B[i]
      BY <1>6, <1>12, <2>4, Zenon
    <3>3. \A i \in 1..16 : u[i] = B[i]
      BY <2>4, <3>1, <3>2, Zenon
    <3> QED BY <3>1, <3>3, Zenon
  <2>6. u = B
    BY <1>6, <2>5, SeqEqual, Zenon
  <2> QED BY <2>2, <2>6, Zenon
<1>14. \A k \in 0..v : SubSeq(D, 17, 17 + k) = <<last>> \o SubSeq(value, 1, k)
  <2> TAKE k \in 0..v
  <2>1. k \in Nat /\ k <= v /\ 1 + k \in Nat /\ 16 \in Nat /\ 1 \in Nat /\ 0 \in Nat
        /\ 16 + (1 + k) = 17 + k /\ 16 + 1 = 17 /\ 16 + (1 + k) <= 17 + v
    BY <1>10
  <2>2. PICK s : s = SubSeq(D, 17, 17 + k)
    OBVIOUS
  <2>3. Part(S, s, D, 16, 1 + k)
    BY <1>12, <2>1, <2>2, TakePart, Zenon
  <2>4. PICK t : t = SubSeq(value, 1, k)
    OBVIOUS
  <2>5. Part(S, t, value, 0, k)
    <3>1. 0 + k <= Len(value) /\ 1 = 0 + 1 /\ k = 0 + k
      BY <1>10, <2>1
    <3> QED BY <2>1, <2>4, <3>1, TakePart, Zenon
  <2>6. PICK f : f = <<last>>
    OBVIOUS
  <2>7. f \in Seq(S) /\ Len(f) = 1 /\ f[1] = last
    BY <1>6, <2>6
  <2>8. PICK u : u = f \o t
    OBVIOUS
  <2>9. t \in Seq(S) /\ Len(t) = k
    BY <2>5, Zenon DEF Part
  <2>10. Behind(S, u, f, 1, t, k)
    BY <2>1, <2>7, <2>8, <2>9, PutBehind, Zenon
  <2>11. s \in Seq(S) /\ u \in Seq(S) /\ Len(s) = 1 + k /\ Len(u) = 1 + k
    BY <2>3, <2>10, Zenon DEF Part, Behind
  <2>12. \A i \in 1..(1 + k) : s[i] = u[i]
    <3> TAKE i \in 1..(1 + k)
    <3>1. s[i] = D[16 + i] /\ u[i] = IF i <= 1 THEN f[i] ELSE t[i - 1]
      BY <2>3, <2>10, Zenon DEF Part, Behind
    <3>2. CASE i = 1
      <4>1. 16 + 1 = 17 /\ 17 \in 1..17 /\ 1 <= 1
        OBVIOUS
      <4> QED BY <1>6, <1>12, <2>7, <3>1, <3>2, <4>1, Zenon
    <3>3. CASE i # 1
      <4>1. /\ i - 1 \in 1..k /\ i - 1 \in 1..v /\ ~ (i <= 1) /\ 17 + (i - 1) = 16 + i
            /\ 0 + (i - 1) = i - 1
        BY <2>1, <3>3
      <4>2. t[i - 1] = value[i - 1] /\ D[16 + i] = value[i - 1]
        BY <1>12, <2>5, <4>1, Zenon DEF Part
      <4> QED BY <3>1, <4>1, <4>2, Zenon
    <3> QED BY <3>2, <3>3
  <2>13. s = u
    BY <2>11, <2>12, SeqEqual, Zenon
  <2> QED BY <2>2, <2>4, <2>6, <2>8, <2>13, Zenon
<1> HIDE DEF K, Block
<1>15. CASE v # 16
  <2>1. \A k \in 1..16 : k # 16 => /\ k % 16 # 0 /\ Smaller(15, k) = k /\ 17 + k \in 17..32
                                   /\ k \in 0..k
    BY DEF Smaller
  <2>2. v % 16 # 0 /\ Smaller(15, v) = v /\ 17 + v \in 17..32 /\ v \in 0..v
    BY <1>15, <2>1, Zenon
  <2>3. InBlocks(D) = <<B, P>>
    <3>1. InBlocks(D) = <<Pad(SubSeq(D, 1, 16)), Pad(SubSeq(D, 17, Len(D)))>>
      BY <1>12, <2>2, BlocksOf, Zenon
    <3>2. SubSeq(D, 17, 17 + v) = <<last>> \o SubSeq(value, 1, v)
      BY <1>14, <2>2, Zenon
    <3>3. Pad(SubSeq(D, 1, 16)) = B /\ Pad(SubSeq(D, 17, Len(D))) = P
      BY <1>6, <1>12, <1>13, <2>2, <3>2, Zenon
    <3> QED BY <3>1, <3>3, Zenon
  <2>4. rest = <<>>
    BY <2>2, Zenon
  <2> HIDE DEF P, rest
  <2>5. (<<B>> \o <<P>>) \o <<>> = <<B, P>>
    BY Joined, Zenon
  <2> QED BY <1>6, <1>7, <1>8, <1>9, <2>3, <2>4, <2>5, Zenon
<1>16. CASE v = 16
  <2>1. /\ 16 % 16 = 0 /\ Smaller(15, 16) = 15 /\ 17 + 16 = 33 /\ 15 \in 0..16 /\ 17 + 15 = 32
        /\ 16 \in 1..16 /\ 32 + 1 = 33 /\ 32 + 1 <= 33 /\ 32 \in Nat /\ 1 \in Nat
    BY DEF Smaller
  <2> DEFINE over == <<value[16]>>
  <2>2. SubSeq(D, 33, 33) = over
    <3>1. PICK u : u = SubSeq(D, 33, 33)
      OBVIOUS
    <3>2. Part(S, u, D, 32, 1)
      <4>1. Len(D) = 33 /\ 32 + 1 <= Len(D) /\ 33 = 32 + 1
        BY <1>12, <1>16, <2>1
      <4> QED BY <1>12, <2>1, <3>1, <4>1, TakePart, Zenon
    <3>3. u \in Seq(S) /\ Len(u) = 1 /\ u[1] = D[33]
      <4>1. 1 \in 1..1
        OBVIOUS
      <4> QED BY <2>1, <3>2, <4>1, Zenon DEF Part
    <3>4. u = <<u[1]>>
      BY <3>3, Triple, Zenon
    <3>5. D[33] = value[16]
      BY <1>12, <1>16, <2>1, Zenon
    <3> QED BY <3>1, <3>3, <3>4, <3>5, Zenon
  <2>3. SubSeq(D, 17, 32) = <<last>> \o SubSeq(value, 1, 15)
    BY <1>14, <1>16, <2>1, Zenon
  <2> HIDE DEF over
  <2>4. InBlocks(D) = <<B, P, Pad(over)>>
    <3>1. InBlocks(D) = <<Pad(SubSeq(D, 1, 16)), Pad(SubSeq(D, 17, 32)), Pad(SubSeq(D, 33, 33))>>
      BY <1>12, <1>16, <2>1, BlocksOf, Zenon
    <3>2. Pad(SubSeq(D, 1, 16)) = B /\ Pad(SubSeq(D, 17, 32)) = P
      BY <1>6, <1>13, <1>16, <2>1, <2>3, Zenon
    <3> QED BY <2>2, <3>1, <3>2, Zenon
  <2>5. rest = <<Pad(over)>>
    BY <1>16, <2>1, Zenon DEF over
  <2> HIDE DEF P, rest
  <2>6. (<<B>> \o <<P>>) \o <<Pad(over)>> = <<B, P, Pad(over)>>
    <3>1. <<B>> \o <<P>> = <<B, P>> /\ <<B, P>> \o <<Pad(over)>> = <<B, P, Pad(over)>>
      BY Joined, Zenon
    <3> QED BY <3>1, Zenon
  <2> QED BY <1>6, <1>7, <1>8, <1>9, <2>4, <2>5, <2>6, Zenon
<1> QED BY <1>15, <1>16, Zenon

(* A tag over what is enciphered is the one of GCM, and one over a         *)
(* challenge of at most sixteen bytes, with a key of sixteen bytes.        *)
LEMMA EncipheredTag ==
  ASSUME NEW keys, keys.auth \in Seq(Nat), Len(keys.auth) = 16,
         NEW counter, NEW title, NEW value
  PROVE  gxgcm_getTag(AUTHENTICATION_ENCRYPTION, counter, title, keys, value)
           = GcmTag(AUTHENTICATION_ENCRYPTION, counter, title, keys, value)
<1>1. PICK key : key = keys.auth
  OBVIOUS
<1>2. /\ Security(AUTHENTICATION_ENCRYPTION) # AUTHENTICATION
      /\ AUTHENTICATION_ENCRYPTION \in Nat
  BY DEF Security, AUTHENTICATION, AUTHENTICATION_ENCRYPTION
<1>3. gxgcm_getGHash(Security(AUTHENTICATION_ENCRYPTION), AUTHENTICATION_ENCRYPTION, key, value)
        = GcmBlocks(Security(AUTHENTICATION_ENCRYPTION), AUTHENTICATION_ENCRYPTION, key, value)
  BY <1>1, <1>2, EncipheredBlocks, Zenon
<1> QED BY <1>1, <1>3, Zenon DEF gxgcm_getTag, GcmTag

(* The same for what is authenticated alone. *)
LEMMA AuthenticatedTag ==
  ASSUME NEW keys, keys.auth \in Seq(Nat), Len(keys.auth) = 16,
         NEW counter, NEW title, NEW value \in Seq(Nat), Len(value) \in 1..16
  PROVE  gxgcm_getTag(AUTHENTICATION, counter, title, keys, value)
           = GcmTag(AUTHENTICATION, counter, title, keys, value)
<1>1. PICK key : key = keys.auth
  OBVIOUS
<1>2. Security(AUTHENTICATION) = AUTHENTICATION /\ AUTHENTICATION \in Nat
  BY DEF Security, AUTHENTICATION
<1>3. gxgcm_getGHash(AUTHENTICATION, AUTHENTICATION, key, value)
        = GcmBlocks(AUTHENTICATION, AUTHENTICATION, key, value)
  BY <1>1, <1>2, AuthenticatedBlocks, Zenon
<1> QED BY <1>1, <1>2, <1>3, Zenon DEF gxgcm_getTag, GcmTag
-----------------------------------------------------------------------------
(* The meter holds the client's keys, has not refused, and the line is     *)
(* quiet: then the association is on its way to be opened.                 *)
Sure == ~ disturbed /\ meter.keys = ClientKeys /\ meter.refusal \in {"none", "PROOF"}

(* What a meter that accepts says, of a challenge and for a protection.    *)
Favourable(f, challenge, security) ==
  /\ f.tag = "result" => f.value = "ACCEPTED"
  /\ f.tag = "diagnostic" => f.value \in {"NONE", "AUTHENTICATION_REQUIRED"}
  /\ f.tag = "title" => f.octets = METER_TITLE
  /\ f.tag = "mechanism" => f.value \in {"NONE", "LOW", "HIGH_GMAC"}
  /\ f.tag = "challenge" => f.octets = challenge
  /\ f.tag = "userInformation" =>
       /\ f.octets # <<>> /\ f.octets[1] = INITIATE_RESPONSE
       /\ f.octets[2] = 6 /\ f.octets[5] = 7
       /\ f.seal = IF security = NONE THEN NoTag
                   ELSE GcmTag(security, 7, METER_TITLE, ClientKeys, f.octets)

(* The rest of such an AARE, s, read with the settings c: title and        *)
(* challenge have been read or are still to come.                          *)
Promised(s, c, challenge, identity) ==
  /\ \A f \in Elements(s) : Favourable(f, challenge, identity.security)
  /\ InformationLast(s)
  /\ identity.security # NONE =>
       c.sourceSystemTitle = METER_TITLE \/ \E f \in Elements(s) : f.tag = "title"
  /\ identity.authentication = "HIGH_GMAC" =>
       c.stoCChallenge = challenge \/ \E f \in Elements(s) : f.tag = "challenge"

(* The meter m waits for the proof, with both challenges. *)
Pending(m, identity) ==
  identity.authentication = "HIGH_GMAC" =>
    m.assoc = "pending" /\ m.ctoS = CtoS /\ m.stoC \in Challenges

Introduced(c, m) == c.sourceSystemTitle = METER_TITLE /\ c.stoCChallenge = m.stoC

RightProof(q, challenge) ==
  q = gxgcm_getTag(AUTHENTICATION, q.counter, CLIENT_TITLE, ClientKeys, challenge)

RightAnswer(a) ==
  /\ a.kind = "AUTH" /\ a.octets = <<8>>
  /\ a.proof = GcmTag(AUTHENTICATION, 8, METER_TITLE, ClientKeys, CtoS)
  /\ a.seal = GcmTag(AUTHENTICATION_ENCRYPTION, 7, METER_TITLE, ClientKeys, a.octets)

(* Stage by stage: the line l, the settings c, the meter m, the request q. *)
AareWaits(l, c, m, identity) ==
  /\ Pending(m, identity)
  /\ \E a \in Elements(l) :
       l = <<a>> /\ a.kind = "AARE" /\ Promised(a.fields, c, m.stoC, identity)

AareRead(s, p, l, c, m, identity) ==
  /\ l = <<>> /\ Pending(m, identity) /\ Promised(s, c, m.stoC, identity)
  /\ p.result = "ACCEPTED" /\ p.diagnostic \in {"NONE", "AUTHENTICATION_REQUIRED"}

Challenged(l, c, m, identity) == l = <<>> /\ Pending(m, identity) /\ Introduced(c, m)

ProofWaits(q, l, c, m, identity) ==
  /\ Introduced(c, m)
  /\ \/ /\ q.kind = "AUTH" /\ l = <<>> /\ Pending(m, identity)
        /\ RightProof(q.proof, m.stoC)
     \/ q = NoRequest /\ \E a \in Elements(l) : l = <<a>> /\ RightAnswer(a)

Opening ==
  Sure =>
    /\ stage # "failed"
    /\ stage = "aare" /\ request = NoRequest => AareWaits(line, settings, meter, Identity)
    /\ stage = "parsing" => AareRead(fields, parse, line, settings, meter, Identity)
    /\ stage = "challenge" => Challenged(line, settings, meter, Identity)
    /\ stage = "proof" => ProofWaits(request, line, settings, meter, Identity)

(* Suite 0 is never left, and the client's challenge is the one it sends.  *)
Prepared ==
  /\ settings.suite = 0
  /\ Identity.authentication = "HIGH_GMAC" => settings.ctoSChallenge = CtoS
  /\ Identity.authentication = "HIGH_GMAC" /\ request.kind = "AARQ" => request.challenge = CtoS

(* The keys and challenges the proofs are computed from have the size the  *)
(* program has them in.                                                    *)
RightSizes ==
  /\ ClientKeys.auth \in Seq(Nat) /\ Len(ClientKeys.auth) = 16
  /\ \A c \in Challenges : Len(c) <= 16
-----------------------------------------------------------------------------
(* The first attempt is prepared, and begins. *)
LEMMA InitPrepared ==
  ASSUME Init, Attempts # <<>>
  PROVE  Prepared /\ Opening
<1>1. stage = "idle" /\ request = NoRequest /\ attempt = 1
  BY DEF Init
<1>2. request.kind = "none"
  BY <1>1 DEF NoRequest
<1>3. settings.suite = 0 /\ (Identity.authentication = "HIGH_GMAC" => settings.ctoSChallenge = CtoS)
  BY <1>1 DEF Init, Assume, Identity
<1> QED BY <1>1, <1>2, <1>3 DEF Prepared, Opening

(* A step that takes no attempt and leaves suite and challenge.            *)
LEMMA PreparedKept ==
  ASSUME Prepared, UNCHANGED attempt, settings'.suite = settings.suite,
         settings'.ctoSChallenge = settings.ctoSChallenge,
         UNCHANGED request \/ request'.kind # "AARQ"
  PROVE  Prepared'
BY DEF Prepared, Identity

(* Encrypting leaves what belongs to the association. *)
LEMMA EncryptedRest ==
  ASSUME NEW s \in SettingsType, NEW n \in Nat
  PROVE  /\ Encrypted(s, n).suite = s.suite
         /\ Encrypted(s, n).ctoSChallenge = s.ctoSChallenge
         /\ Encrypted(s, n).stoCChallenge = s.stoCChallenge
         /\ Encrypted(s, n).sourceSystemTitle = s.sourceSystemTitle
<1> DEFINE c == s.invocationCounter + n
<1>1. Encrypted(s, n) = [s EXCEPT !.invocationCounter = c]
  BY DEF Encrypted
<1> HIDE DEF c
<1> QED BY <1>1 DEF SettingsType

(* What an initiate response leaves alone. *)
Rest(v, w) ==
  /\ v.ctoSChallenge = w.ctoSChallenge /\ v.stoCChallenge = w.stoCChallenge
  /\ v.sourceSystemTitle = w.sourceSystemTitle

(* An initiate response leaves them, and the suite, alone. *)
LEMMA InitiateRest ==
  ASSUME NEW s, NEW text
  PROVE  LET v == InitiateResponse(s, text).settings
         IN Rest(v, s) /\ v.suite = s.suite
<1> DEFINE u == [s EXCEPT !.negotiatedConformance = text[3], !.maxPduSize = text[4]]
           d == InitiateResponse(s, text)
<1>1. d.settings = s \/ d.settings = u
  <2>1. CASE text[1] # INITIATE_RESPONSE
    <3>1. d = [ret |-> "INVALID_TAG", settings |-> s]
      BY <2>1 DEF InitiateResponse
    <3> QED BY <3>1
  <2>2. CASE text[1] = INITIATE_RESPONSE /\ text[2] < 6
    <3>1. d = [ret |-> "INVALID_VERSION_NUMBER", settings |-> s]
      BY <2>2 DEF InitiateResponse
    <3> QED BY <3>1
  <2>3. CASE text[1] = INITIATE_RESPONSE /\ ~ text[2] < 6
    BY <2>3 DEF InitiateResponse
  <2> QED BY <2>1, <2>2, <2>3
<1>2. Rest(u, s) /\ u.suite = s.suite /\ Rest(s, s)
  BY DEF Rest
<1> HIDE DEF u, d
<1>3. Rest(d.settings, s) /\ d.settings.suite = s.suite
  BY <1>1, <1>2
<1> QED BY <1>3 DEF d

(* What user information changes. *)
LEMMA UserInformationRest ==
  ASSUME NEW s \in SettingsType, NEW f
  PROVE  LET v == apdu_parseUserInformation(s, f).settings
         IN Rest(v, s) /\ v.suite \in {s.suite, Suite(f.seal.control)}
<1> DEFINE d == apdu_parseUserInformation(s, f)
           c == cip_decrypt(s, ClientKeys, s.sourceSystemTitle, f.octets, f.seal)
           u == [s EXCEPT !.security = Security(f.seal.control), !.suite = Suite(f.seal.control)]
<1>1. \/ d = InitiateResponse(s, f.octets)
      \/ d = [ret |-> c, settings |-> s]
      \/ d = InitiateResponse(u, f.octets)
  BY DEF apdu_parseUserInformation
<1>2. Rest(s, s) /\ Rest(u, s) /\ u.suite = Suite(f.seal.control)
  BY DEF SettingsType, Rest
<1> HIDE DEF d, c, u
<1>3. Rest(d.settings, s) /\ d.settings.suite \in {s.suite, Suite(f.seal.control)}
  <2>1. CASE d = InitiateResponse(s, f.octets)
    BY <2>1, InitiateRest
  <2>2. CASE d = [ret |-> c, settings |-> s]
    BY <1>2, <2>2
  <2>3. CASE d = InitiateResponse(u, f.octets)
    <3>1. Rest(d.settings, u) /\ d.settings.suite = u.suite
      BY <2>3, InitiateRest
    <3> QED BY <1>2, <3>1 DEF Rest
  <2> QED BY <1>1, <2>1, <2>2, <2>3
<1> QED BY <1>3 DEF d

(* Reading a field, or deciding, leaves suite and challenge. *)
LEMMA ParsePrepared ==
  ASSUME Inv, Prepared, Parse
  PROVE  Prepared'
<1>1. settings \in SettingsType /\ settings.suite = 0
  BY DEF Inv, TypeOK, Prepared
<1>2. stage = "parsing" /\ UNCHANGED <<attempt, request>>
  BY DEF Parse, apdu_parseApplicationContextName, ParseResult, ParseDiagnostic, ParseTitle,
         apdu_updateAuthentication, ParseChallenge, SkipField, ParseUserInformation,
         apdu_parsePDUEnd, Parsing, NextField
<1>3. cl_parseAAREResponse(parse) =>
        settings'.suite = settings.suite /\ settings'.ctoSChallenge = settings.ctoSChallenge
  <2> HAVE cl_parseAAREResponse(parse)
  <2>1. PICK c : settings' = settings \/ settings' = [settings EXCEPT !.connected = c]
    BY DEF cl_parseAAREResponse
  <2> QED BY <1>1, <2>1 DEF SettingsType
<1>4. ParseUserInformation =>
        settings'.suite = settings.suite /\ settings'.ctoSChallenge = settings.ctoSChallenge
  <2> HAVE ParseUserInformation
  <2>1. CASE Refused(parse)
    <3>1. cl_parseAAREResponse(parse) \/ UNCHANGED settings
      BY <2>1 DEF ParseUserInformation
    <3> QED BY <1>3, <3>1
  <2>2. CASE ~ Refused(parse)
    <3> DEFINE f == Head(fields)
    <3>1. settings' = apdu_parseUserInformation(settings, f).settings
      BY <2>2 DEF ParseUserInformation
    <3>2. fields # <<>> /\ NextField
      BY DEF ParseUserInformation, Parsing
    <3>3. Suite(f.seal.control) = 0
      BY <1>2, <3>2, FieldTaken DEF FieldOK
    <3> HIDE DEF f
    <3> QED BY <1>1, <3>1, <3>3, UserInformationRest DEF Rest
  <2> QED BY <2>1, <2>2
<1>5. settings'.suite = settings.suite /\ settings'.ctoSChallenge = settings.ctoSChallenge
  <2>1. CASE apdu_parseApplicationContextName
    BY <1>3, <2>1 DEF apdu_parseApplicationContextName
  <2>2. CASE ParseResult \/ ParseDiagnostic \/ SkipField
    BY <2>2 DEF ParseResult, ParseDiagnostic, SkipField
  <2>3. CASE ParseTitle
    BY <1>1, <2>3 DEF ParseTitle, SettingsType
  <2>4. CASE apdu_updateAuthentication
    BY <1>1, <2>4 DEF apdu_updateAuthentication, SettingsType
  <2>5. CASE ParseChallenge
    BY <1>1, <2>5 DEF ParseChallenge, SettingsType
  <2>6. CASE apdu_parsePDUEnd
    BY <1>3, <2>6 DEF apdu_parsePDUEnd
  <2> QED BY <1>4, <2>1, <2>2, <2>3, <2>4, <2>5, <2>6 DEF Parse
<1> QED BY <1>2, <1>5, PreparedKept

(* Prepared is inductive next to Inv. *)
LEMMA NextPrepared ==
  ASSUME Inv, Prepared, [Next]_vars
  PROVE  Prepared'
<1>1. settings \in SettingsType /\ attempt \in DOMAIN Attempts
  BY DEF Inv, TypeOK
<1>2. CASE cl_aarqRequest
  <2>1. /\ request'.kind = "AARQ"
        /\ request'.challenge = IF settings.authentication = "HIGH_GMAC"
                                THEN settings.ctoSChallenge ELSE <<>>
    BY <1>2 DEF cl_aarqRequest, apdu_generateAarq, NoRequest
  <2>2. /\ settings' = Encrypted(settings, 1) \/ UNCHANGED settings
        /\ UNCHANGED attempt /\ stage = "idle"
    BY <1>2 DEF cl_aarqRequest
  <2>3. settings'.suite = settings.suite /\ settings'.ctoSChallenge = settings.ctoSChallenge
    BY <1>1, <2>2, EncryptedRest
  <2>4. settings.authentication = Identity.authentication
    BY <2>2 DEF Inv, StageInv, Idle, Untouched
  <2> QED BY <2>1, <2>2, <2>3, <2>4 DEF Prepared, Identity
<1>3. CASE apdu_validateAare \/ GiveUp \/ LoseRequest \/ UNCHANGED vars
  <2>1. /\ UNCHANGED <<settings, attempt>>
        /\ UNCHANGED request \/ request' = NoRequest
    BY <1>3 DEF apdu_validateAare, GiveUp, LoseRequest, vars
  <2> QED BY <2>1, PreparedKept DEF NoRequest
<1>4. CASE cl_getApplicationAssociationRequest
  <2>1. /\ settings' = Encrypted(settings, 2) \/ UNCHANGED settings
        /\ UNCHANGED attempt
        /\ UNCHANGED request \/ request'.kind = "AUTH"
    BY <1>4 DEF cl_getApplicationAssociationRequest, NoRequest
  <2>2. settings'.suite = settings.suite /\ settings'.ctoSChallenge = settings.ctoSChallenge
    BY <1>1, <2>1, EncryptedRest
  <2> QED BY <2>1, <2>2, PreparedKept
<1>5. CASE cl_parseApplicationAssociationResponse
  <2>1. UNCHANGED <<attempt, request>>
    BY <1>5 DEF cl_parseApplicationAssociationResponse
  <2> DEFINE u == Encrypted(settings, 1)
  <2>2. \/ settings' = settings
        \/ \E c : settings' = [settings EXCEPT !.connected = c]
        \/ \E c : settings' = [u EXCEPT !.connected = c]
    BY <1>5 DEF cl_parseApplicationAssociationResponse
  <2>3. u \in SettingsType /\ u.suite = settings.suite /\ u.ctoSChallenge = settings.ctoSChallenge
    BY <1>1, EncryptedType, EncryptedRest
  <2> HIDE DEF u
  <2>4. settings'.suite = settings.suite /\ settings'.ctoSChallenge = settings.ctoSChallenge
    BY <1>1, <2>2, <2>3 DEF SettingsType
  <2> QED BY <2>1, <2>4, PreparedKept
<1>6. CASE NextAttempt
  <2>1. /\ attempt' = attempt + 1 /\ UNCHANGED request /\ stage = "open"
        /\ settings' = Assume(settings, Attempts[attempt'])
    BY <1>6 DEF NextAttempt
  <2>2. settings'.suite = settings.suite
        /\ (Attempts[attempt'].authentication = "HIGH_GMAC" => settings'.ctoSChallenge = CtoS)
    BY <1>1, <2>1 DEF Assume, SettingsType
  <2>3. request.kind # "AARQ"
    BY <2>1 DEF Inv, StageInv, NoRequest
  <2> QED BY <2>1, <2>2, <2>3 DEF Prepared, Identity
<1>7. CASE MeterAccepts \/ MeterRefuses \/ MeterChecks
  <2>1. \E a : Deliver(a)
    BY <1>7 DEF MeterAccepts, MeterRefuses, MeterChecks
  <2>2. UNCHANGED <<settings, attempt>> /\ request' = NoRequest
    BY <2>1 DEF Deliver
  <2> QED BY <2>2, PreparedKept DEF NoRequest
<1> QED BY <1>2, <1>3, <1>4, <1>5, <1>6, <1>7, ParsePrepared DEF Next
-----------------------------------------------------------------------------
(* What Opening says of the next state. *)
LEMMA OpeningNext ==
  ASSUME Sure' => stage' # "failed",
         Sure' /\ stage' = "aare" /\ request' = NoRequest =>
           AareWaits(line', settings', meter', Identity'),
         Sure' /\ stage' = "parsing" =>
           AareRead(fields', parse', line', settings', meter', Identity'),
         Sure' /\ stage' = "challenge" => Challenged(line', settings', meter', Identity'),
         Sure' /\ stage' = "proof" => ProofWaits(request', line', settings', meter', Identity')
  PROVE  Opening'
BY DEF Opening, AareWaits, AareRead, Challenged, ProofWaits, Promised, Pending, Introduced,
       RightProof, RightAnswer, Favourable, InformationLast, Elements

(* A field is taken off a promising AARE: what it says is remembered.      *)
LEMMA PromisedRest ==
  ASSUME NEW s, IsSequence(s), s # <<>>, NEW c, NEW d, NEW challenge, NEW identity,
         Promised(s, c, challenge, identity),
         Head(s).tag = "title" => d.sourceSystemTitle = METER_TITLE,
         Head(s).tag # "title" => d.sourceSystemTitle = c.sourceSystemTitle,
         Head(s).tag = "challenge" => d.stoCChallenge = challenge,
         Head(s).tag # "challenge" => d.stoCChallenge = c.stoCChallenge
  PROVE  Promised(Tail(s), d, challenge, identity)
         /\ Favourable(Head(s), challenge, identity.security)
<1>1. PICK t : t = Tail(s)
  OBVIOUS
<1>2. PICK h : h = Head(s)
  OBVIOUS
<1>3. Elements(s) = {h} \cup Elements(t)
  BY <1>1, <1>2, HeadAndTail
<1>4. InformationLast(t)
  BY <1>1, LastOfTail DEF Promised
<1>5. /\ \A f \in Elements(t) : Favourable(f, challenge, identity.security)
      /\ Favourable(h, challenge, identity.security)
  BY <1>3 DEF Promised
<1>6. identity.security # NONE =>
        d.sourceSystemTitle = METER_TITLE \/ \E f \in Elements(t) : f.tag = "title"
  BY <1>2, <1>3 DEF Promised
<1>7. identity.authentication = "HIGH_GMAC" =>
        d.stoCChallenge = challenge \/ \E f \in Elements(t) : f.tag = "challenge"
  BY <1>2, <1>3 DEF Promised
<1> QED BY <1>1, <1>2, <1>4, <1>5, <1>6, <1>7 DEF Promised

(* A promising AARE is no refusal: the settings are still those asked for. *)
LEMMA SureReading ==
  ASSUME Inv, Opening, Sure, stage = "parsing"
  PROVE  /\ Untouched /\ IsSequence(fields) /\ request = NoRequest
         /\ AareRead(fields, parse, line, settings, meter, Identity)
<1>1. AareRead(fields, parse, line, settings, meter, Identity) /\ Reading
  BY DEF Opening, Inv, StageInv
<1>2. ~ Refusal(Elements(fields), parse.result)
  <2>1. /\ parse.result = "ACCEPTED"
        /\ \A f \in Elements(fields) : f.tag = "result" => f.value = "ACCEPTED"
    BY <1>1 DEF AareRead, Promised, Favourable
  <2> QED BY <2>1 DEF Refusal
<1> QED BY <1>1, <1>2 DEF Reading

(* A field is read. *)
LEMMA FieldOpening ==
  ASSUME Inv, Opening, stage = "parsing", fields # <<>>, NextField,
         Sure => /\ stage' = "parsing" /\ parse'.result = "ACCEPTED"
                 /\ parse'.diagnostic \in {"NONE", "AUTHENTICATION_REQUIRED"}
                 /\ Head(fields).tag = "title" => settings'.sourceSystemTitle = METER_TITLE
                 /\ Head(fields).tag # "title" =>
                      settings'.sourceSystemTitle = settings.sourceSystemTitle
                 /\ Head(fields).tag = "challenge" => settings'.stoCChallenge = meter.stoC
                 /\ Head(fields).tag # "challenge" =>
                      settings'.stoCChallenge = settings.stoCChallenge
  PROVE  Opening'
<1>1. fields' = Tail(fields) /\ UNCHANGED <<attempt, request, meter, line, disturbed>>
  BY DEF NextField
<1>2. Sure' = Sure /\ Identity' = Identity
  BY <1>1 DEF Sure, Identity
<1>3. ASSUME Sure
      PROVE  /\ stage' = "parsing"
             /\ AareRead(fields', parse', line', settings', meter', Identity')
  <2>1. IsSequence(fields) /\ AareRead(fields, parse, line, settings, meter, Identity)
    BY <1>3, SureReading
  <2>2. PICK t, h, d, p : t = Tail(fields) /\ h = Head(fields) /\ d = settings' /\ p = parse'
    OBVIOUS
  <2>3. Promised(fields, settings, meter.stoC, Identity)
    BY <2>1 DEF AareRead
  <2>4. /\ h.tag = "title" => d.sourceSystemTitle = METER_TITLE
        /\ h.tag # "title" => d.sourceSystemTitle = settings.sourceSystemTitle
        /\ h.tag = "challenge" => d.stoCChallenge = meter.stoC
        /\ h.tag # "challenge" => d.stoCChallenge = settings.stoCChallenge
        /\ stage' = "parsing" /\ p.result = "ACCEPTED"
        /\ p.diagnostic \in {"NONE", "AUTHENTICATION_REQUIRED"}
    BY <1>3, <2>2
  <2>5. Promised(t, d, meter.stoC, Identity)
    BY <2>1, <2>2, <2>3, <2>4, PromisedRest, Zenon
  <2>6. AareRead(t, p, line, d, meter, Identity)
    BY <2>1, <2>4, <2>5 DEF AareRead
  <2> QED BY <1>1, <1>2, <2>2, <2>4, <2>6
<1> QED BY <1>2, <1>3, OpeningNext

(* The field read next, of a promising AARE. *)
LEMMA HeadFavours ==
  ASSUME Inv, Opening, Sure, stage = "parsing", fields # <<>>
  PROVE  /\ Favourable(Head(fields), meter.stoC, Identity.security)
         /\ parse.result = "ACCEPTED" /\ parse.diagnostic \in {"NONE", "AUTHENTICATION_REQUIRED"}
         /\ Head(fields).tag = "userInformation" /\ Identity.security # NONE =>
              settings.sourceSystemTitle = METER_TITLE
<1>1. IsSequence(fields) /\ AareRead(fields, parse, line, settings, meter, Identity)
  BY SureReading
<1>2. Promised(fields, settings, meter.stoC, Identity)
  BY <1>1 DEF AareRead
<1>3. Elements(fields) = {Head(fields)} \cup Elements(Tail(fields))
  BY <1>1, HeadAndTail
<1>4. Head(fields).tag = "userInformation" => Elements(Tail(fields)) = {}
  BY <1>1, <1>2, LastOfTail DEF Promised
<1>5. PICK h, T : h = Head(fields) /\ T = Elements(Tail(fields))
  OBVIOUS
<1>6. Favourable(h, meter.stoC, Identity.security)
  BY <1>2, <1>3, <1>5 DEF Promised
<1>7. h.tag = "userInformation" /\ Identity.security # NONE =>
        settings.sourceSystemTitle = METER_TITLE
  BY <1>2, <1>3, <1>4, <1>5 DEF Promised
<1> QED BY <1>1, <1>5, <1>6, <1>7 DEF AareRead

(* The context name is read over. *)
LEMMA ContextOpening ==
  ASSUME Inv, Opening, apdu_parseApplicationContextName
  PROVE  Opening'
<1>1. stage = "parsing" /\ fields # <<>> /\ NextField /\ Head(fields).tag = "context"
      /\ UNCHANGED parse
  BY DEF apdu_parseApplicationContextName, Parsing
<1>2. Head(fields).value \in {"LN", "LN ciphered"}
  BY <1>1, FieldTaken DEF FieldOK
<1>3. UNCHANGED <<stage, settings>>
  BY <1>2 DEF apdu_parseApplicationContextName, Taken
<1> QED BY <1>1, <1>3, HeadFavours, FieldOpening

(* Result, diagnostic and challenge are read, or nothing. *)
LEMMA QuietOpening ==
  ASSUME Inv, Opening, ParseResult \/ ParseDiagnostic \/ ParseChallenge \/ SkipField
  PROVE  Opening'
<1>1. settings \in SettingsType /\ IsParse
  BY DEF Inv, TypeOK
<1>2. CASE ParseResult
  <2>1. /\ stage = "parsing" /\ fields # <<>> /\ NextField /\ Head(fields).tag = "result"
        /\ UNCHANGED <<stage, settings>> /\ parse' = [parse EXCEPT !.result = Head(fields).value]
    BY <1>2 DEF ParseResult, Parsing, Taken
  <2>2. parse'.result = Head(fields).value /\ parse'.diagnostic = parse.diagnostic
    BY <1>1, <2>1 DEF IsParse
  <2> QED BY <2>1, <2>2, HeadFavours, FieldOpening DEF Favourable
<1>3. CASE ParseDiagnostic
  <2>1. /\ stage = "parsing" /\ fields # <<>> /\ NextField /\ Head(fields).tag = "diagnostic"
        /\ UNCHANGED <<stage, settings>>
        /\ parse' = [parse EXCEPT !.diagnostic = Head(fields).value]
    BY <1>3 DEF ParseDiagnostic, Parsing, Taken
  <2>2. parse'.diagnostic = Head(fields).value /\ parse'.result = parse.result
    BY <1>1, <2>1 DEF IsParse
  <2> QED BY <2>1, <2>2, HeadFavours, FieldOpening DEF Favourable
<1>4. CASE ParseChallenge
  <2>1. /\ stage = "parsing" /\ fields # <<>> /\ NextField /\ Head(fields).tag = "challenge"
        /\ UNCHANGED <<stage, parse>>
        /\ settings' = [settings EXCEPT !.stoCChallenge = Head(fields).octets]
    BY <1>4 DEF ParseChallenge, Parsing, Taken
  <2>2. /\ settings'.stoCChallenge = Head(fields).octets
        /\ settings'.sourceSystemTitle = settings.sourceSystemTitle
    BY <1>1, <2>1 DEF SettingsType
  <2> QED BY <2>1, <2>2, HeadFavours, FieldOpening DEF Favourable
<1>5. CASE SkipField
  <2>1. /\ stage = "parsing" /\ fields # <<>> /\ NextField
        /\ Head(fields).tag \in {"requirements", "protocolVersion"}
        /\ UNCHANGED <<stage, parse, settings>>
    BY <1>5 DEF SkipField, Taken
  <2> QED BY <2>1, HeadFavours, FieldOpening
<1> QED BY <1>2, <1>3, <1>4, <1>5

(* The meter's title has the right length and is kept. *)
LEMMA TitleOpening ==
  ASSUME Inv, Opening, ParseTitle
  PROVE  Opening'
<1>1. settings \in SettingsType
  BY DEF Inv, TypeOK
<1>2. PICK o : o = Head(fields).octets
  OBVIOUS
<1>3. /\ stage = "parsing" /\ fields # <<>> /\ NextField /\ Head(fields).tag = "title"
      /\ UNCHANGED <<stage, parse>>
      /\ settings' = [settings EXCEPT !.sourceSystemTitle = IF Len(o) = 8 THEN o ELSE EMPTY_TITLE]
  BY <1>2 DEF ParseTitle, Parsing, Taken
<1>4. Sure => o = METER_TITLE
  BY <1>2, <1>3, HeadFavours DEF Favourable
<1>5. Len(METER_TITLE) = 8
  BY DEF METER_TITLE
<1>6. PICK title : title = IF Len(o) = 8 THEN o ELSE EMPTY_TITLE
  OBVIOUS
<1>7. Sure => title = METER_TITLE
  BY <1>4, <1>5, <1>6
<1>8. settings' = [settings EXCEPT !.sourceSystemTitle = title]
  BY <1>3, <1>6
<1>9. settings'.sourceSystemTitle = title /\ settings'.stoCChallenge = settings.stoCChallenge
  BY <1>1, <1>8 DEF SettingsType
<1> QED BY <1>3, <1>7, <1>9, HeadFavours, FieldOpening

(* The mechanism is the one that was asked for. *)
LEMMA MechanismOpening ==
  ASSUME Inv, Opening, apdu_updateAuthentication
  PROVE  Opening'
<1>1. settings \in SettingsType
  BY DEF Inv, TypeOK
<1>2. /\ stage = "parsing" /\ fields # <<>> /\ NextField /\ Head(fields).tag = "mechanism"
      /\ UNCHANGED parse
  BY DEF apdu_updateAuthentication, Parsing
<1>3. ASSUME Sure
      PROVE  /\ UNCHANGED stage
             /\ settings' = [settings EXCEPT !.authentication = Head(fields).value]
  <2>1. Head(fields).value \in {"NONE", "LOW", "HIGH_GMAC"}
    BY <1>2, <1>3, HeadFavours DEF Favourable
  <2> QED BY <2>1 DEF apdu_updateAuthentication, Taken
<1>4. Sure => /\ settings'.sourceSystemTitle = settings.sourceSystemTitle
              /\ settings'.stoCChallenge = settings.stoCChallenge
  BY <1>1, <1>3 DEF SettingsType
<1> QED BY <1>2, <1>3, <1>4, HeadFavours, FieldOpening

(* The right initiate response is taken. *)
LEMMA InitiateTaken ==
  ASSUME NEW s, NEW text, text[1] = INITIATE_RESPONSE, text[2] = 6, text[5] = 7
  PROVE  InitiateResponse(s, text).ret = "OK"
<1>1. ~ (6 < 6)
  OBVIOUS
<1>2. ~ (text[2] < 6)
  BY <1>1
<1> QED BY <1>2 DEF InitiateResponse

(* What the right keys protected is taken. *)
LEMMA ProtectedTaken ==
  ASSUME RightSizes, NEW s, s.suite = 0, s.security = AUTHENTICATION_ENCRYPTION,
         NEW counter, NEW title, NEW value, value # <<>>
  PROVE  cip_decrypt(s, ClientKeys, title, value,
                     GcmTag(AUTHENTICATION_ENCRYPTION, counter, title, ClientKeys, value)) = "OK"
<1>1. PICK tag : tag = GcmTag(AUTHENTICATION_ENCRYPTION, counter, title, ClientKeys, value)
  OBVIOUS
<1>2. tag.control = AUTHENTICATION_ENCRYPTION /\ tag.counter = counter
  BY <1>1 DEF GcmTag, Tag
<1>3. tag = gxgcm_getTag(AUTHENTICATION_ENCRYPTION, counter, title, ClientKeys, value)
  BY <1>1, EncipheredTag DEF RightSizes
<1>4. /\ Security(AUTHENTICATION_ENCRYPTION) = AUTHENTICATION_ENCRYPTION
      /\ Suite(AUTHENTICATION_ENCRYPTION) = 0 /\ AUTHENTICATION_ENCRYPTION # NONE
  BY DEF Security, Suite, AUTHENTICATION_ENCRYPTION, NONE
<1>5. cip_decrypt(s, ClientKeys, title, value, tag) = "OK"
  BY <1>2, <1>3, <1>4, Zenon DEF cip_decrypt
<1> QED BY <1>1, <1>5

(* The user information is taken, under its protection. *)
LEMMA UserInformationOpening ==
  ASSUME RightSizes, Inv, Prepared, Opening, ParseUserInformation
  PROVE  Opening'
<1>1. /\ stage = "parsing" /\ fields # <<>> /\ NextField /\ UNCHANGED parse
      /\ Head(fields).tag = "userInformation"
  BY DEF ParseUserInformation, Parsing
<1>2. settings \in SettingsType /\ attempt \in DOMAIN Attempts
  BY DEF Inv, TypeOK
<1>3. PICK f : f = Head(fields)
  OBVIOUS
<1>4. ASSUME Sure
      PROVE  /\ stage' = "parsing" /\ settings'.stoCChallenge = settings.stoCChallenge
             /\ settings'.sourceSystemTitle = settings.sourceSystemTitle
  <2>1. ~ Refused(parse)
    BY <1>1, <1>4, HeadFavours DEF Refused
  <2>2. PICK d : d = apdu_parseUserInformation(settings, f)
    OBVIOUS
  <2>3. settings' = d.settings /\ (d.ret = "OK" => UNCHANGED stage)
    BY <1>3, <2>1, <2>2 DEF ParseUserInformation, Taken
  <2>4. Rest(d.settings, settings)
    BY <1>2, <2>2, UserInformationRest
  <2>5. /\ f.octets # <<>> /\ f.octets[1] = INITIATE_RESPONSE
        /\ f.octets[2] = 6 /\ f.octets[5] = 7
        /\ f.seal = IF Identity.security = NONE THEN NoTag
                    ELSE GcmTag(Identity.security, 7, METER_TITLE, ClientKeys, f.octets)
        /\ Identity.security # NONE => settings.sourceSystemTitle = METER_TITLE
    BY <1>1, <1>3, <1>4, HeadFavours DEF Favourable
  <2>6. \A s : InitiateResponse(s, f.octets).ret = "OK"
    BY <2>5, InitiateTaken
  <2>7. CASE Identity.security = NONE
    <3>1. d = InitiateResponse(settings, f.octets)
      BY <2>2, <2>5, <2>7 DEF apdu_parseUserInformation
    <3> QED BY <1>1, <2>3, <2>4, <2>6, <3>1 DEF Rest
  <2>8. CASE Identity.security # NONE
    <3>1. Identity.security = AUTHENTICATION_ENCRYPTION
      BY <1>2, <2>8, Identities DEF Identity
    <3>2. settings.security = AUTHENTICATION_ENCRYPTION /\ settings.suite = 0
      BY <1>1, <1>4, <3>1, SureReading DEF Untouched, Prepared
    <3>3. cip_decrypt(settings, ClientKeys, settings.sourceSystemTitle, f.octets, f.seal) = "OK"
      BY <2>5, <2>8, <3>1, <3>2, ProtectedTaken
    <3>4. f.seal # NoTag
      <4>1. f.seal.control = AUTHENTICATION_ENCRYPTION
        BY <2>5, <2>8, <3>1, TagFields
      <4> QED BY <4>1 DEF NoTag, AUTHENTICATION_ENCRYPTION
    <3>5. \E u : d = InitiateResponse(u, f.octets)
      BY <2>2, <3>3, <3>4 DEF apdu_parseUserInformation
    <3> QED BY <1>1, <2>3, <2>4, <2>6, <3>5 DEF Rest
  <2> QED BY <2>7, <2>8
<1>5. Sure => parse.result = "ACCEPTED" /\ parse.diagnostic \in {"NONE", "AUTHENTICATION_REQUIRED"}
  BY <1>1, HeadFavours
<1> QED BY <1>1, <1>4, <1>5, FieldOpening

(* All has been read: the association is open, or the challenge next.      *)
LEMMA EndOpening ==
  ASSUME Inv, Opening, apdu_parsePDUEnd
  PROVE  Opening'
<1>1. /\ stage = "parsing" /\ fields = <<>>
      /\ UNCHANGED <<attempt, fields, parse, request, meter, line, disturbed>>
  BY DEF apdu_parsePDUEnd
<1>2. settings \in SettingsType /\ attempt \in DOMAIN Attempts
  BY DEF Inv, TypeOK
<1>3. Sure' = Sure /\ Identity' = Identity
  BY <1>1 DEF Sure, Identity
<1>4. ASSUME Sure
      PROVE  /\ stage' \in {"challenge", "open"}
             /\ stage' = "challenge" => Challenged(line', settings', meter', Identity')
  <2>1. Untouched /\ AareRead(fields, parse, line, settings, meter, Identity)
    BY <1>1, <1>4, SureReading
  <2>2. parse.result = "ACCEPTED" /\ parse.diagnostic \in {"NONE", "AUTHENTICATION_REQUIRED"}
    BY <2>1 DEF AareRead
  <2>3. apdu_handleResultComponent(parse.diagnostic) = "OK"
    BY <2>2 DEF apdu_handleResultComponent
  <2>4. PICK c : c = (parse.diagnostic # "AUTHENTICATION_REQUIRED")
    OBVIOUS
  <2>5. /\ settings' = [settings EXCEPT !.connected = c]
        /\ stage' = IF settings.authentication = "HIGH_GMAC" THEN "challenge" ELSE "open"
    BY <2>2, <2>3, <2>4 DEF apdu_parsePDUEnd, cl_parseAAREResponse
  <2>6. Rest(settings', settings)
    BY <1>2, <2>5 DEF SettingsType, Rest
  <2>7. Elements(fields) = {}
    BY <1>1, Literals
  <2>8. Identity.security # NONE => settings.sourceSystemTitle = METER_TITLE
    BY <2>1, <2>7 DEF AareRead, Promised
  <2>9. Identity.authentication = "HIGH_GMAC" => settings.stoCChallenge = meter.stoC
    BY <2>1, <2>7 DEF AareRead, Promised
  <2>10. stage' = "challenge" => Identity.authentication = "HIGH_GMAC" /\ Identity.security # NONE
    BY <1>2, <2>1, <2>5, Identities DEF Untouched, Identity
  <2>11. stage' = "challenge" => Challenged(line, settings', meter, Identity)
    BY <2>1, <2>6, <2>8, <2>9, <2>10 DEF AareRead, Challenged, Introduced, Rest
  <2> QED BY <1>1, <1>3, <2>5, <2>11
<1> QED BY <1>3, <1>4, OpeningNext

(* Reading an AARE keeps Opening. *)
LEMMA ParseOpening ==
  ASSUME RightSizes, Inv, Prepared, Opening, Parse
  PROVE  Opening'
BY ContextOpening, QuietOpening, TitleOpening, MechanismOpening, UserInformationOpening,
   EndOpening DEF Parse
-----------------------------------------------------------------------------
(* The AARE the meter sent is the one that is read. *)
LEMMA ValidateOpening ==
  ASSUME Inv, Opening, apdu_validateAare
  PROVE  Opening'
<1>1. /\ stage = "aare" /\ request = NoRequest /\ line' = Tail(line)
      /\ parse' = [result |-> "ACCEPTED", diagnostic |-> "NONE"]
      /\ UNCHANGED <<settings, attempt, request, meter, disturbed>>
  BY DEF apdu_validateAare
<1>2. Sure' = Sure /\ Identity' = Identity
  BY <1>1 DEF Sure, Identity
<1>3. ASSUME Sure
      PROVE  /\ stage' = "parsing"
             /\ AareRead(fields', parse', line', settings', meter', Identity')
  <2>1. AareWaits(line, settings, meter, Identity)
    BY <1>1, <1>3 DEF Opening
  <2>2. PICK a \in Elements(line) : /\ line = <<a>> /\ a.kind = "AARE"
                                    /\ Promised(a.fields, settings, meter.stoC, Identity)
    BY <2>1 DEF AareWaits
  <2>3. Head(line) = a /\ Tail(line) = <<>>
    BY <2>2
  <2>4. stage' = "parsing" /\ fields' = a.fields
    BY <2>2, <2>3 DEF apdu_validateAare
  <2>5. parse'.result = "ACCEPTED" /\ parse'.diagnostic = "NONE"
    BY <1>1
  <2>6. AareRead(fields', parse', line', settings, meter, Identity)
    BY <1>1, <2>1, <2>2, <2>3, <2>4, <2>5 DEF AareRead, AareWaits
  <2> QED BY <1>1, <1>2, <2>4, <2>6
<1> QED BY <1>2, <1>3, OpeningNext

(* The proof is sent: the tag of the meter's challenge. *)
LEMMA ProofRequestOpening ==
  ASSUME RightSizes, Inv, Prepared, Opening, cl_getApplicationAssociationRequest
  PROVE  Opening'
<1>1. stage = "challenge" /\ UNCHANGED <<attempt, meter, line, disturbed>>
  BY DEF cl_getApplicationAssociationRequest
<1>2. settings \in SettingsType /\ attempt \in DOMAIN Attempts
  BY DEF Inv, TypeOK
<1>3. Sure' = Sure /\ Identity' = Identity
  BY <1>1 DEF Sure, Identity
<1>4. ASSUME Sure
      PROVE  /\ stage' = "proof"
             /\ ProofWaits(request', line', settings', meter', Identity')
  <2>1. Challenged(line, settings, meter, Identity) /\ High
    BY <1>1, <1>4 DEF Opening, Inv, StageInv
  <2>2. settings.security # NONE /\ settings.suite = 0
    BY <1>2, <2>1, Identities DEF High, Untouched, Identity, Prepared
  <2>3. cip_encryptAllowed(settings, ClientKeys)
    BY <2>2 DEF cip_encryptAllowed, RightSizes
  <2>4. PICK q : q = gxgcm_getTag(AUTHENTICATION, settings.invocationCounter, CLIENT_TITLE,
                                  ClientKeys, settings.stoCChallenge)
    OBVIOUS
  <2>5. dlms_secure(settings.invocationCounter, CLIENT_TITLE, settings.stoCChallenge,
                    settings.suite) = q
    <3>1. AUTHENTICATION + 0 = AUTHENTICATION
      BY DEF AUTHENTICATION
    <3> QED BY <2>2, <2>4, <3>1, Zenon DEF dlms_secure
  <2>6. /\ request' = [NoRequest EXCEPT !.kind = "AUTH", !.proof = q]
        /\ settings' = Encrypted(settings, 2) /\ stage' = "proof"
    BY <2>3, <2>5 DEF cl_getApplicationAssociationRequest
  <2>7. request'.kind = "AUTH" /\ request'.proof = q
    BY <2>6 DEF NoRequest
  <2>8. q.counter = settings.invocationCounter
    BY <2>4 DEF gxgcm_getTag, Tag
  <2>9. RightProof(q, settings.stoCChallenge)
    BY <2>4, <2>8, Zenon DEF RightProof
  <2>10. Introduced(settings', meter)
    BY <1>2, <2>1, <2>6, EncryptedRest DEF Challenged, Introduced
  <2>11. ProofWaits(request', line, settings', meter, Identity)
    BY <2>1, <2>7, <2>9, <2>10 DEF ProofWaits, Challenged, Introduced
  <2> QED BY <1>1, <1>3, <2>6, <2>11
<1> QED BY <1>3, <1>4, OpeningNext

(* The meter's proof is right, and the association opened. *)
LEMMA ProofResponseOpening ==
  ASSUME RightSizes, Inv, Prepared, Opening, cl_parseApplicationAssociationResponse
  PROVE  Opening'
<1>1. /\ stage = "proof" /\ request = NoRequest
      /\ UNCHANGED <<attempt, request, meter, disturbed>>
  BY DEF cl_parseApplicationAssociationResponse
<1>2. settings \in SettingsType /\ attempt \in DOMAIN Attempts
  BY DEF Inv, TypeOK
<1>3. Sure' = Sure
  BY <1>1 DEF Sure
<1>4. ASSUME Sure
      PROVE  stage' = "open"
  <2>1. ProofWaits(request, line, settings, meter, Identity) /\ High
    BY <1>1, <1>4 DEF Opening, Inv, StageInv
  <2>2. PICK a \in Elements(line) : line = <<a>> /\ RightAnswer(a)
    <3>1. NoRequest.kind # "AUTH"
      BY DEF NoRequest
    <3> QED BY <1>1, <2>1, <3>1 DEF ProofWaits
  <2>3. Head(line) = a
    BY <2>2
  <2>4. /\ settings.security = AUTHENTICATION_ENCRYPTION /\ settings.suite = 0
        /\ settings.ctoSChallenge = CtoS /\ settings.sourceSystemTitle = METER_TITLE
    BY <1>2, <2>1, Identities DEF High, Untouched, Identity, Prepared, ProofWaits, Introduced
  <2>5. dlms_handleGloDedResponse(settings, a) = "OK"
    <3>1. a.octets # <<>>
      BY <2>2 DEF RightAnswer
    <3>2. a.seal = GcmTag(AUTHENTICATION_ENCRYPTION, 7, METER_TITLE, ClientKeys, a.octets)
      BY <2>2 DEF RightAnswer
    <3> QED BY <2>4, <3>1, <3>2, ProtectedTaken DEF dlms_handleGloDedResponse
  <2>6. a.proof = GcmTag(AUTHENTICATION, 8, METER_TITLE, ClientKeys, CtoS) /\ a.kind = "AUTH"
    BY <2>2 DEF RightAnswer
  <2>7. a.proof.counter = 8 /\ a.proof.control = AUTHENTICATION
    BY <2>6 DEF GcmTag, Tag
  <2>8. a.proof # NoTag
    BY <2>7 DEF NoTag, AUTHENTICATION
  <2>9. CtoS \in Seq(Nat) /\ Len(CtoS) \in 1..16
    BY DEF CtoS
  <2>10. a.proof = gxgcm_getTag(AUTHENTICATION, 8, METER_TITLE, ClientKeys, CtoS)
    BY <2>6, <2>9, AuthenticatedTag DEF RightSizes
  <2>11. dlms_secure(a.proof.counter, settings.sourceSystemTitle, settings.ctoSChallenge,
                     settings.suite) = a.proof
    <3>1. AUTHENTICATION + 0 = AUTHENTICATION
      BY DEF AUTHENTICATION
    <3> QED BY <2>4, <2>7, <2>10, <3>1, Zenon DEF dlms_secure
  <2> QED BY <2>3, <2>5, <2>6, <2>8, <2>11 DEF cl_parseApplicationAssociationResponse
<1> QED BY <1>3, <1>4, OpeningNext

(* On a quiet line the answer is there, and no request is unanswered.      *)
LEMMA OtherOpening ==
  ASSUME Inv, Opening,
         cl_aarqRequest \/ GiveUp \/ NextAttempt \/ LoseRequest \/ UNCHANGED vars
  PROVE  Opening'
<1>1. CASE cl_aarqRequest
  <2>1. stage' = "aare" /\ request' # NoRequest
    BY <1>1 DEF cl_aarqRequest, apdu_generateAarq, NoRequest
  <2> QED BY <2>1, OpeningNext
<1>2. CASE GiveUp
  <2>1. /\ stage \in {"aare", "proof"} /\ request = NoRequest /\ line = <<>>
        /\ stage' = "failed" /\ UNCHANGED <<meter, disturbed>>
    BY <1>2 DEF GiveUp, Fail
  <2>2. Sure' = Sure
    BY <2>1 DEF Sure
  <2>3. \A a : <<>> # <<a>>
    OBVIOUS
  <2>4. NoRequest.kind # "AUTH"
    BY DEF NoRequest
  <2>5. ~ Sure
    BY <2>1, <2>3, <2>4 DEF Opening, AareWaits, ProofWaits
  <2> QED BY <2>1, <2>2, <2>5, OpeningNext
<1>3. CASE NextAttempt
  <2>1. stage' = "idle"
    BY <1>3 DEF NextAttempt
  <2> QED BY <2>1, OpeningNext
<1>4. CASE LoseRequest
  <2>1. disturbed' = TRUE
    BY <1>4 DEF LoseRequest
  <2> QED BY <2>1, OpeningNext DEF Sure
<1>5. CASE UNCHANGED vars
  BY <1>5, OpeningNext DEF vars, Opening, Sure, Identity
<1> QED BY <1>1, <1>2, <1>3, <1>4, <1>5

(* A protection the meter was asked for is one it seals with. *)
LEMMA AskedForProtection ==
  ASSUME NEW q, q.seal = NoTag
  PROVE  Security(q.seal.control) = NONE
<1>1. NoTag.control = 0 /\ Security(0) = 0 /\ NONE = 0
  BY DEF NoTag, Security, NONE
<1> QED BY <1>1, Zenon

(* The AARE of a meter that holds the client's keys and accepts.           *)
LEMMA AcceptingPromised ==
  ASSUME meter.keys = ClientKeys, NEW q, NEW g \in Granted, NEW c \in Challenges,
         NEW identity, identity.authentication = q.authentication,
         q.authentication \in {"NONE", "LOW", "HIGH_GMAC"},
         identity.security = Security(q.seal.control), NEW s
  PROVE  Promised(Accepting(q, g, c), s, c, identity)
<1> DEFINE high == q.authentication = "HIGH_GMAC"
           titled == high \/ q.seal # NoTag
           text == <<INITIATE_RESPONSE, 6, g.conformance, g.pdu, 7>>
           seal == MeterSeal(Security(q.seal.control), text)
           d == IF high THEN "AUTHENTICATION_REQUIRED" ELSE "NONE"
           f1 == Field("context", q.context)
           f2 == Field("result", "ACCEPTED")
           f3 == Field("diagnostic", d)
           f4 == [Field("title", "") EXCEPT !.octets = METER_TITLE]
           f5 == Field("requirements", "")
           f6 == Field("mechanism", q.authentication)
           f7 == [Field("challenge", "") EXCEPT !.octets = c]
           f8 == [Field("userInformation", "") EXCEPT !.octets = text, !.seal = seal]
           s1 == <<f1, f2, f3>>
           s2 == If(titled, <<f4>>)
           s3 == If(high, <<f5, f6, f7>>)
           s4 == <<f8>>
           t2 == s1 \o s2
           t3 == t2 \o s3
           t4 == t3 \o s4
<1>1. Accepting(q, g, c) = t4
  BY DEF Accepting
<1>2. identity.security # NONE => titled
  BY AskedForProtection
<1>3. identity.authentication = "HIGH_GMAC" => high
  OBVIOUS
<1>4. d \in {"NONE", "AUTHENTICATION_REQUIRED"}
  OBVIOUS
<1>5. /\ f1.tag = "context" /\ f2.tag = "result" /\ f2.value = "ACCEPTED"
      /\ f3.tag = "diagnostic" /\ f3.value = d /\ f5.tag = "requirements"
      /\ f6.tag = "mechanism" /\ f6.value = q.authentication
  <2> HIDE DEF d
  <2>1. \A tag, value : Field(tag, value).tag = tag /\ Field(tag, value).value = value
    BY FieldParts
  <2> QED BY <2>1
<1>6. /\ f4.tag = "title" /\ f4.octets = METER_TITLE
      /\ f7.tag = "challenge" /\ f7.octets = c
  BY DEF Field
<1>7. f8.tag = "userInformation" /\ f8.octets = text /\ f8.seal = seal
  <2> HIDE DEF text, seal
  <2> QED BY DEF Field
<1>8. text # <<>> /\ text[1] = INITIATE_RESPONSE /\ text[2] = 6 /\ text[5] = 7
  OBVIOUS
<1>9. seal = IF identity.security = NONE THEN NoTag
             ELSE GcmTag(identity.security, 7, METER_TITLE, ClientKeys, text)
  <2> HIDE DEF text
  <2> QED BY Zenon DEF MeterSeal
<1> HIDE DEF high, titled, text, seal, d, f1, f2, f3, f4, f5, f6, f7, f8
<1>10. /\ IsSequence(s1) /\ Elements(s1) = {f1, f2, f3}
       /\ IsSequence(s2) /\ Elements(s2) = IF titled THEN {f4} ELSE {}
       /\ IsSequence(s3) /\ Elements(s3) = IF high THEN {f5, f6, f7} ELSE {}
       /\ IsSequence(s4) /\ Elements(s4) = {f8}
  <2>1. IsSequence(s1) /\ Elements(s1) = {f1, f2, f3}
    BY Literals
  <2>2. IsSequence(s2) /\ Elements(s2) = IF titled THEN {f4} ELSE {}
    BY Literals DEF If
  <2>3. IsSequence(s3) /\ Elements(s3) = IF high THEN {f5, f6, f7} ELSE {}
    <3>1. high => s3 = <<f5, f6, f7>>
      BY DEF If
    <3>2. ~ high => s3 = <<>>
      BY DEF If
    <3>3. IsSequence(<<f5, f6, f7>>) /\ Elements(<<f5, f6, f7>>) = {f5, f6, f7}
      BY Literals
    <3>4. IsSequence(<<>>) /\ Elements(<<>>) = {}
      BY Literals
    <3> HIDE DEF s3
    <3> QED BY <3>1, <3>2, <3>3, <3>4
  <2>4. IsSequence(s4) /\ Elements(s4) = {f8}
    BY Literals
  <2> QED BY <2>1, <2>2, <2>3, <2>4
<1>11. InformationLast(s4)
  BY DEF InformationLast
<1> HIDE DEF s1, s2, s3, s4
<1>12. IsSequence(t2) /\ Elements(t2) = Elements(s1) \cup Elements(s2)
  BY <1>10, Concatenated
<1> HIDE DEF t2
<1>13. IsSequence(t3) /\ Elements(t3) = Elements(t2) \cup Elements(s3)
  BY <1>10, <1>12, Concatenated
<1> HIDE DEF t3
<1>14. \A f \in Elements(t3) : f.tag # "userInformation"
  BY <1>5, <1>6, <1>10, <1>12, <1>13
<1>15. Elements(t4) = Elements(t3) \cup Elements(s4) /\ InformationLast(t4)
  BY <1>10, <1>11, <1>13, <1>14, Concatenated, LastOfBoth
<1> HIDE DEF t4
<1>16. Elements(t4) \subseteq {f1, f2, f3, f4, f5, f6, f7, f8}
  BY <1>10, <1>12, <1>13, <1>15
<1>17. \A f \in {f1, f2, f3, f4, f5, f6, f7} : Favourable(f, c, identity.security)
  BY <1>4, <1>5, <1>6 DEF Favourable
<1>18. Favourable(f8, c, identity.security)
  BY <1>7, <1>8, <1>9, Zenon DEF Favourable
<1>19. (titled => f4 \in Elements(t4)) /\ (high => f7 \in Elements(t4))
  BY <1>10, <1>12, <1>13, <1>15
<1>20. Promised(t4, s, c, identity)
  BY <1>2, <1>3, <1>6, <1>15, <1>16, <1>17, <1>18, <1>19 DEF Promised
<1> QED BY <1>1, <1>20

(* What reaches a quiet line, if it stays quiet, is the answer and nothing *)
(* else.                                                                   *)
LEMMA QuietAnswer ==
  ASSUME NEW a, Deliver(a), ~ disturbed => line = <<>>, ~ disturbed'
  PROVE  line' = <<a>> /\ ~ disturbed /\ a \in Elements(line')
<1>1. PICK copies : line' = line \o copies /\ disturbed' = (disturbed \/ copies # <<a>>)
  BY DEF Deliver
<1>2. <<>> \o <<a>> = <<a>>
  OBVIOUS
<1>3. line' = <<a>>
  BY <1>1, <1>2
<1> QED BY <1>1, <1>3, Literals

(* A meter that accepts with the right keys promises what the client needs. *)
LEMMA AcceptsOpening ==
  ASSUME Inv, Told, Prepared, MeterAccepts
  PROVE  Opening'
<1>1. request.kind = "AARQ"
  BY DEF MeterAccepts
<1>2. PICK g \in Granted, c \in Challenges :
        /\ meter' = [meter EXCEPT
             !.assoc = IF request.authentication = "HIGH_GMAC" THEN "pending" ELSE "open",
             !.authentication = request.authentication, !.conformance = g.conformance,
             !.pdu = g.pdu, !.stoC = c, !.ctoS = request.challenge]
        /\ Deliver([Answer("AARE") EXCEPT !.fields = Accepting(request, g, c)])
  BY DEF MeterAccepts
<1>3. stage = "aare" /\ Asked /\ IsMeter /\ attempt \in DOMAIN Attempts
  BY <1>1, RequestOfStage DEF Inv, TypeOK
<1>4. ~ disturbed => line = <<>>
  BY <1>1, <1>3 DEF Told, Barred, Unanswered, NoRequest
<1> DEFINE assoc == IF request.authentication = "HIGH_GMAC" THEN "pending" ELSE "open"
<1>5. request.authentication = "HIGH_GMAC" => assoc = "pending"
  OBVIOUS
<1>6. meter' = [meter EXCEPT !.assoc = assoc, !.authentication = request.authentication,
                  !.conformance = g.conformance, !.pdu = g.pdu, !.stoC = c,
                  !.ctoS = request.challenge]
  BY <1>2
<1> HIDE DEF assoc
<1>7. /\ meter'.assoc = assoc /\ meter'.stoC = c /\ meter'.ctoS = request.challenge
      /\ meter'.keys = meter.keys
  BY <1>3, <1>6 DEF IsMeter
<1>8. PICK A : A = Accepting(request, g, c)
  OBVIOUS
<1>9. PICK a : a = [Answer("AARE") EXCEPT !.fields = A]
  OBVIOUS
<1>10. Deliver(a) /\ a.kind = "AARE" /\ a.fields = A
  BY <1>2, <1>8, <1>9 DEF Answer
<1>11. UNCHANGED <<settings, attempt, stage>>
  BY <1>10 DEF Deliver
<1>12. /\ Identity.authentication = request.authentication
       /\ Identity.security = Security(request.seal.control)
       /\ Identity.authentication \in {"NONE", "LOW", "HIGH_GMAC"}
  BY <1>3, Identities DEF Asked, Identity
<1>13. Pending(meter', Identity)
  BY <1>1, <1>2, <1>5, <1>7, <1>12 DEF Pending, Prepared
<1>14. ASSUME Sure'
       PROVE  AareWaits(line', settings', meter', Identity')
  <2>1. ~ disturbed' /\ meter.keys = ClientKeys
    BY <1>7, <1>14 DEF Sure
  <2>2. line' = <<a>> /\ a \in Elements(line')
    BY <1>4, <1>10, <2>1, QuietAnswer
  <2>3. Promised(A, settings, c, Identity)
    BY <1>8, <1>12, <2>1, AcceptingPromised
  <2>4. AareWaits(line', settings, meter', Identity)
    BY <1>7, <1>10, <1>13, <2>2, <2>3 DEF AareWaits
  <2> QED BY <1>11, <2>4 DEF Identity
<1> QED BY <1>3, <1>11, <1>14, OpeningNext

(* A meter that refuses is one that has refused. *)
LEMMA RefusesOpening ==
  ASSUME Inv, MeterRefuses
  PROVE  Opening'
<1>1. PICK r \in Refusals : meter' = [meter EXCEPT !.assoc = "none", !.refusal = r.diagnostic]
  BY DEF MeterRefuses
<1>2. meter'.refusal = r.diagnostic
  BY <1>1 DEF Inv, IsMeter
<1>3. ~ Sure'
  BY <1>2, AssociationAssumption DEF Sure
<1> QED BY <1>3, OpeningNext

(* The client's proof is right, and the meter's answer to it too.          *)
LEMMA ChecksOpening ==
  ASSUME RightSizes, Inv, Told, Prepared, Opening, MeterChecks
  PROVE  Opening'
<1> DEFINE q == request.proof
           right == /\ meter.assoc = "pending"
                    /\ q = GcmTag(q.control, q.counter, CLIENT_TITLE, meter.keys, meter.stoC)
           proof == IF right THEN GcmTag(AUTHENTICATION, 8, METER_TITLE, meter.keys, meter.ctoS)
                    ELSE NoTag
           text == <<proof.counter>>
           seal == MeterSeal(AUTHENTICATION_ENCRYPTION, text)
           a == [Answer("AUTH") EXCEPT !.proof = proof, !.octets = text, !.seal = seal]
<1>1. /\ request.kind = "AUTH" /\ Deliver(a)
      /\ meter' = IF right THEN [meter EXCEPT !.assoc = "open"]
                  ELSE [meter EXCEPT !.assoc = "none", !.refusal = "PROOF"]
  BY DEF MeterChecks
<1>2. stage = "proof" /\ High /\ IsMeter
  BY <1>1, RequestOfStage DEF Inv
<1>3. request # NoRequest
  BY <1>1 DEF NoRequest
<1>4. meter'.keys = meter.keys /\ meter'.stoC = meter.stoC
  <2> HIDE DEF right
  <2> QED BY <1>1, <1>2 DEF IsMeter
<1>5. /\ UNCHANGED <<settings, attempt, stage>> /\ request' = NoRequest
      /\ disturbed => disturbed'
  BY <1>1 DEF Deliver
<1>6. ASSUME Sure'
      PROVE  ProofWaits(request', line', settings', meter', Identity')
  <2>1. Sure
    BY <1>3, <1>4, <1>5, <1>6 DEF Sure, Told, Barred
  <2>2. /\ line = <<>> /\ Pending(meter, Identity) /\ RightProof(q, meter.stoC)
        /\ Introduced(settings, meter)
    BY <1>2, <1>3, <2>1 DEF Opening, ProofWaits
  <2>3. meter.assoc = "pending" /\ meter.ctoS = CtoS /\ meter.stoC \in Challenges
    BY <1>2, <2>2 DEF Pending, High
  <2>4. PICK c : c = meter.stoC
    OBVIOUS
  <2>5. c \in Seq(Nat) /\ Len(c) \in 1..16
    <3>1. c \in Seq(Nat) /\ c # <<>> /\ Len(c) <= 16
      BY <2>3, <2>4, AssociationAssumption DEF RightSizes
    <3>2. \A t \in Seq(Nat) : t # <<>> => Len(t) \in Nat /\ Len(t) # 0
      OBVIOUS
    <3>3. \A n \in Nat : n # 0 /\ n <= 16 => n \in 1..16
      OBVIOUS
    <3>4. PICK n : n = Len(c)
      OBVIOUS
    <3>5. n \in Nat /\ n # 0 /\ n <= 16
      BY <3>1, <3>2, <3>4
    <3> QED BY <3>1, <3>3, <3>4, <3>5, Zenon
  <2>6. q = gxgcm_getTag(AUTHENTICATION, q.counter, CLIENT_TITLE, ClientKeys, c)
    BY <2>2, <2>4 DEF RightProof
  <2>7. q.control = AUTHENTICATION
    BY <2>6, TagFields
  <2>8. q = GcmTag(AUTHENTICATION, q.counter, CLIENT_TITLE, ClientKeys, c)
    BY <2>5, <2>6, AuthenticatedTag DEF RightSizes
  <2>9. right
    <3>1. meter.keys = ClientKeys
      BY <2>1 DEF Sure
    <3>2. q = GcmTag(q.control, q.counter, CLIENT_TITLE, meter.keys, meter.stoC)
      BY <2>4, <2>7, <2>8, <3>1
    <3> QED BY <2>3, <3>2
  <2>10. proof = GcmTag(AUTHENTICATION, 8, METER_TITLE, ClientKeys, CtoS)
    BY <2>1, <2>3, <2>9, Zenon DEF Sure
  <2> HIDE DEF q, right, proof
  <2>11. proof.counter = 8
    BY <2>10 DEF GcmTag, Tag
  <2>12. text = <<8>>
    BY <2>11
  <2> HIDE DEF text
  <2>13. seal = GcmTag(AUTHENTICATION_ENCRYPTION, 7, METER_TITLE, ClientKeys, text)
    <3>1. AUTHENTICATION_ENCRYPTION # NONE
      BY DEF AUTHENTICATION_ENCRYPTION, NONE
    <3> QED BY <2>1, <3>1, Zenon DEF MeterSeal, Sure
  <2> HIDE DEF seal
  <2>14. a.kind = "AUTH" /\ a.octets = text /\ a.proof = proof /\ a.seal = seal
    BY DEF Answer
  <2>15. Deliver(a) /\ ~ disturbed'
    BY <1>1, <1>6 DEF Sure
  <2> HIDE DEF a
  <2>16. RightAnswer(a)
    BY <2>10, <2>12, <2>13, <2>14, Zenon DEF RightAnswer
  <2>17. line' = <<a>> /\ a \in Elements(line')
    BY <2>2, <2>15, QuietAnswer
  <2>18. Introduced(settings, meter')
    BY <1>4, <2>2 DEF Introduced
  <2>19. ProofWaits(request', line', settings, meter', Identity)
    BY <1>5, <2>16, <2>17, <2>18 DEF ProofWaits
  <2> QED BY <1>5, <2>19 DEF Identity
<1> QED BY <1>2, <1>5, <1>6, OpeningNext

(* Opening is inductive next to Inv, Told and Prepared. *)
LEMMA NextOpening ==
  ASSUME RightSizes, KnownNames, Inv, Told, Prepared, Opening, [Next]_vars
  PROVE  Opening'
<1>1. ASSUME Parse  PROVE Opening'
  BY <1>1, ParseOpening
<1>2. ASSUME Next  PROVE Opening'
  BY <1>1, <1>2, OtherOpening, ValidateOpening, ProofRequestOpening, ProofResponseOpening,
     AcceptsOpening, RefusesOpening, ChecksOpening DEF Next
<1> QED BY <1>2, OtherOpening

(* With the keys of the meter, one that accepts and a quiet line, no step  *)
(* of the client's fails by itself: the AARE is read to its end, protected *)
(* or not, and both proofs of the high level are found right by the other  *)
(* side, after whatever attempts and with whatever the meter grants and    *)
(* challenges with.  The keys are of suite 0 and the challenges of at most *)
(* sixteen bytes: what the code feeds to GHASH for a longer one is not     *)
(* what GCM does.                                                          *)
THEOREM RightKeysAlwaysOpen ==
  ASSUME RightSizes, KnownNames, Attempts # <<>>
  PROVE  Spec => []RightKeysOpen
<1> DEFINE I == Inv /\ Told /\ Prepared /\ Opening
<1>1. Init => I
  BY InitInv, InitTold, InitPrepared
<1>2. I /\ [Next]_vars => I'
  BY NextInv, NextTold, NextPrepared, NextOpening
<1>3. I => RightKeysOpen
  BY DEF Opening, Sure, RightKeysOpen
<1> HIDE DEF I
<1> QED BY <1>1, <1>2, <1>3, PTL DEF Spec
================================================================================
