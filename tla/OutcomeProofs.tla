---------------------------- MODULE OutcomeProofs ----------------------------
(***************************************************************************)
(* What one run of Session achieves, for every command line, meter and     *)
(* line the constants allow.                                               *)
(*                                                                         *)
(* The steps of Session are of three kinds: the line's (Idle), a request   *)
(* built from the settings (Call, whose form CallFits describes), and a    *)
(* turn of the program from one call to the next (Turn, Follows).  Each    *)
(* invariant below is shown for the three.  All rest on Basic: the typed   *)
(* state of SessionProofs, the last request fitting its stage, and a reply *)
(* that is an answer the library has looked at.                            *)
(*                                                                         *)
(* Genuine and AssocKept range over Known, the answers in the meter's      *)
(* memory, on the line and in the reply: a late answer is only harmless    *)
(* because of what it tells (Tells: an invoke id belongs to one object)    *)
(* or when it can exist (Proof).  Without disturbances Calm leaves one     *)
(* answer, the meter's reaction to the last request, and what is reported  *)
(* follows from what that reaction says (AfterFits of SessionProofs).      *)
(***************************************************************************)
EXTENDS SessionProofs

(* The program was started with --hls.                                     *)
High == args.security = "high"

(* The request the program builds at a stage.                              *)
Call ==
  CASE stage \in {"icSnrm", "snrm"} -> cl_snrmRequest(settings)
    [] stage \in {"icAarq", "aarq"} -> cl_aarqRequest(settings)
    [] stage = "icRead"  -> cl_readLN(settings, "ic")
    [] stage = "auth"    -> cl_getApplicationAssociationRequest(settings)
    [] stage = "item"    -> IF Reading THEN cl_readLN(settings, Head(todo))
                            ELSE cl_methodLN(settings, "ACTION", Head(todo))
    [] stage = "release" -> cl_releaseRequest2(settings)
    [] OTHER             -> cl_disconnectRequest(settings)

Asking == {"icSnrm", "icAarq", "icRead", "icDisc", "snrm", "aarq", "auth", "item",
           "release", "disc"}

(* The program's own steps between two exchanges.                          *)
Turn ==
  \/ com_open \/ IcHead \/ OpticalHead
  \/ IcSnrmBack \/ IcAarqBack \/ IcReadBack \/ IcDiscBack
  \/ SnrmBack \/ AarqBack \/ AuthBack \/ ReadBack \/ CommandBack
  \/ ReleaseBack \/ DiscBack

(* What happens on the line while the program waits or does nothing.       *)
Idle == Exchange \/ MeterRestarts \/ UNCHANGED vars

(* Every step is one of the line's, a request or a turn of the program.    *)
LEMMA StepKinds ==
  ASSUME [Next]_vars
  PROVE  Idle \/ (phase = "call" /\ stage \in Asking /\ Request(Call)) \/ Turn
<1>1. CASE IcSnrm \/ IcAarq \/ IcRead \/ IcDisc
  BY <1>1 DEF IcSnrm, IcAarq, IcRead, IcDisc, At, Call, Asking
<1>2. CASE Snrm \/ Aarq \/ Auth
  BY <1>2 DEF Snrm, Aarq, Auth, At, Call, Asking
<1>3. CASE Read \/ Command
  BY <1>3 DEF Read, Command, At, Call, Asking
<1>4. CASE Release \/ Disc
  BY <1>4 DEF Release, Disc, At, Call, Asking
<1>5. CASE Exited
  BY <1>5 DEF Exited, Idle
<1> QED BY <1>1, <1>2, <1>3, <1>4, <1>5
        DEF Next, Client_, Updating, Connecting, Handling, Closing, Turn, Idle

(* A turn leaves the meter and the last exchange alone, and every request  *)
(* is preceded by one.                                                     *)
LEMMA TurnKeeps ==
  ASSUME IInv, Turn
  PROVE  /\ phase' = "call" /\ phase \in {"call", "back"}
         /\ UNCHANGED <<args, meter, tx, tries, used, budget, reply>>
         /\ line' = line \/ line' \in Suffixes(line)
<1>1. CASE com_open \/ IcHead \/ OpticalHead
  BY <1>1 DEF com_open, IcHead, OpticalHead, com_initializeOpticalHead, At, Goto, Quit,
              lineVars
<1>2. CASE IcSnrmBack \/ IcAarqBack \/ IcReadBack \/ IcDiscBack
  BY <1>2 DEF IcSnrmBack, IcAarqBack, IcReadBack, IcDiscBack, Back, Proceed, Goto, Quit,
              lineVars
<1>3. CASE SnrmBack \/ AarqBack \/ AuthBack
  BY <1>3 DEF SnrmBack, AarqBack, AuthBack, Back, Proceed, Goto, Quit, lineVars
<1>4. CASE ReadBack \/ CommandBack
  BY <1>4 DEF ReadBack, CommandBack, Back, NextObject, lineVars
<1>5. CASE ReleaseBack \/ DiscBack
  BY <1>5 DEF ReleaseBack, DiscBack, Back, Goto, lineVars
<1> QED BY <1>1, <1>2, <1>3, <1>4, <1>5 DEF Turn

(* The line leaves the program where it is.                                *)
LEMMA IdleKeeps ==
  ASSUME Idle
  PROVE  /\ UNCHANGED <<args, stage, settings, saved, ret, parse_stage, todo, out, tx, used>>
         /\ phase # "call" => phase' # "call"
         /\ phase = "call" => phase' = "call" /\ UNCHANGED <<line, reply>>
         /\ phase' # phase => phase = "wait" /\ phase' \in {"back", "spin", "poll"}
         /\ phase = "back" => phase' = "back" /\ UNCHANGED <<reply, line, meter>>
<1>1. CASE Exchange
  BY <1>1 DEF Exchange, Resend, ResendLate, GiveUp, Receive, Corrupt, ReadFails, HangUp,
              Poll, Spin, Waiting, sendData, Returned, connectionVars, vars
<1>2. CASE MeterRestarts
  BY <1>2 DEF MeterRestarts, connectionVars
<1>3. CASE UNCHANGED vars
  BY <1>3 DEF vars
<1> QED BY <1>1, <1>2, <1>3 DEF Idle
-----------------------------------------------------------------------------
(* What the program sends at each stage.                                   *)

(* The command of a stage's request.                                       *)
CmdOf ==
  CASE stage \in {"icSnrm", "snrm"} -> "SNRM"
    [] stage \in {"icAarq", "aarq"} -> "AARQ"
    [] stage = "icRead"  -> "GET"
    [] stage = "auth"    -> "AUTH"
    [] stage = "item"    -> IF Reading THEN "GET" ELSE "ACTION"
    [] stage = "release" -> "RLRQ"
    [] OTHER             -> "DISC"

Services == {"GET", "ACTION", "AUTH"}

(* The request q is the stage's, and was built to become the settings s.   *)
Suits(q, s) ==
  /\ q.cmd = CmdOf /\ q.address = s.clientAddress
  /\ q.cmd \in Services => q.id = s.invokeID
  /\ q.cmd \in Services \cup {"AARQ", "RLRQ"} => (q.ics = {}) = (~ isCiphered(s))
  /\ q.cmd \in {"SNRM", "DISC"} => q.ics = {}
  /\ q.cmd = "AARQ" => q.authentication = s.authentication
  /\ stage = "icRead" => q.target = "ic"
  /\ stage = "item" => q.target = Head(todo)

Sent(b) == b.ret = "OK" /\ b.message # NoRequest

(* The fields of the settings that requests leave alone.                   *)
Alike(s, t) ==
  /\ t.clientAddress = s.clientAddress /\ t.authentication = s.authentication
  /\ t.security = s.security /\ t.serverAddress = s.serverAddress
SameInfo(s, t) == t.maxInfo = s.maxInfo /\ t.initializeMaxInfo = s.initializeMaxInfo

(* Encryption touches the counter only, in the settings and the message.   *)
LEMMA EncryptFields ==
  ASSUME NEW s \in Settings
  PROVE  /\ Alike(s, cip_encrypt(s)) /\ SameInfo(s, cip_encrypt(s))
         /\ cip_encrypt(s).connected = s.connected
         /\ cip_encrypt(s).invokeID = s.invokeID
BY DEF cip_encrypt, Settings, Alike, SameInfo

(* A ciphered request differs by its counters only.                        *)
LEMMA CipheredFields ==
  ASSUME NEW m \in Requests, NEW ics, NEW n, n = [m EXCEPT !.ics = ics]
  PROVE  /\ n.ics = ics /\ n.cmd = m.cmd /\ n.address = m.address
         /\ n.authentication = m.authentication /\ n.id = m.id /\ n.target = m.target
BY DEF Requests

(* What is sent is the message, with or without one encryption.            *)
Protected(s, m, c) ==
  IF isCiphered(s) THEN Built(cip_encrypt(s), [m EXCEPT !.ics = {c}]) ELSE Built(s, m)

(* Either way it fits the settings it was built from.                      *)
LEMMA ProtectedFields ==
  ASSUME NEW s \in Settings, NEW m \in Requests, m.ics = {}, m.cmd # "none", NEW c,
         NEW b, b = Protected(s, m, c)
  PROVE  /\ Sent(b) /\ (b.message.ics = {}) = (~ isCiphered(b.settings))
         /\ b.message.cmd = m.cmd /\ b.message.address = m.address
         /\ b.message.authentication = m.authentication /\ b.message.id = m.id
         /\ b.message.target = m.target
         /\ Alike(s, b.settings) /\ SameInfo(s, b.settings)
         /\ b.settings.connected = s.connected /\ b.settings.invokeID = s.invokeID
<1>1. CASE isCiphered(s)
  <2> DEFINE n == [m EXCEPT !.ics = {c}]
             t == cip_encrypt(s)
  <2>1. /\ n.ics = {c} /\ n.cmd = m.cmd /\ n.address = m.address
        /\ n.authentication = m.authentication /\ n.id = m.id /\ n.target = m.target
    BY CipheredFields
  <2>2. /\ Alike(s, t) /\ SameInfo(s, t) /\ t.connected = s.connected
        /\ t.invokeID = s.invokeID
    BY EncryptFields
  <2>3. b = Built(t, n)
    BY <1>1 DEF Protected
  <2> HIDE DEF n, t
  <2>4. b.settings = t /\ b.message = n /\ b.ret = "OK"
    BY <2>3 DEF Built
  <2>5. n # NoRequest
    BY <2>1 DEF NoRequest
  <2> QED BY <1>1, <2>1, <2>2, <2>4, <2>5 DEF Sent, isCiphered, Alike
<1>2. CASE ~ isCiphered(s)
  <2>1. b.settings = s /\ b.message = m /\ b.ret = "OK"
    BY <1>2 DEF Built, Protected
  <2>2. m # NoRequest
    BY DEF NoRequest
  <2> QED BY <1>2, <2>1, <2>2 DEF Sent, Alike, SameInfo
<1> QED BY <1>1, <1>2

(* An SNRM forgets the connection and saves the HDLC parameters.           *)
LEMMA SnrmFields ==
  ASSUME IInv, stage \in {"icSnrm", "snrm"}, NEW b, b = cl_snrmRequest(settings)
  PROVE  /\ Sent(b) /\ Suits(b.message, b.settings)
         /\ b.settings.connected = {} /\ b.settings.maxInfo = settings.maxInfo
         /\ b.settings.initializeMaxInfo = settings.maxInfo
         /\ Alike(settings, b.settings) /\ b.settings.invokeID = settings.invokeID
<1>1. settings \in Settings
  BY DEF IInv, TypeOK
<1> QED BY <1>1 DEF cl_snrmRequest, Built, NoRequest, Settings, Sent, Suits, CmdOf, Services,
                    Alike

(* An AARQ forgets the association and starts the invoke ids anew.         *)
LEMMA AarqFields ==
  ASSUME IInv, stage \in {"icAarq", "aarq"}, NEW b, b = cl_aarqRequest(settings)
  PROVE  /\ b.ret = "OK" => Sent(b) /\ Suits(b.message, b.settings)
         /\ b.ret = "OK" => b.settings.invokeID = 0 /\ b.settings.serverAddress # 0
         /\ b.ret # "OK" => b.message = NoRequest
         /\ b.settings.connected = settings.connected \ {"DLMS"}
         /\ SameInfo(settings, b.settings) /\ Alike(settings, b.settings)
<1>1. settings \in Settings
  BY DEF IInv, TypeOK
<1> DEFINE t == [settings EXCEPT !.initializePduSize = settings.maxPduSize,
                                 !.connected = @ \ {"DLMS"}]
<1>2. /\ t \in Settings /\ t.connected = settings.connected \ {"DLMS"}
      /\ SameInfo(settings, t) /\ Alike(settings, t)
  BY <1>1 DEF Settings, SameInfo, Alike
<1>3. b = IF dlms_checkInit(t)
          THEN apdu_generateUserInformation([t EXCEPT !.invokeID = 0])
          ELSE Refused("INVALID_PARAMETER", t)
  BY DEF cl_aarqRequest
<1> DEFINE u == [t EXCEPT !.invokeID = 0]
<1> HIDE DEF t
<1>4. /\ u \in Settings /\ u.connected = t.connected /\ SameInfo(t, u) /\ Alike(t, u)
      /\ u.invokeID = 0
  BY <1>2 DEF Settings, InvokeIds, SameInfo, Alike
<1>5. CASE ~ dlms_checkInit(t)
  <2> HIDE DEF u
  <2> QED BY <1>2, <1>3, <1>5 DEF Refused
<1>6. CASE dlms_checkInit(t)
  <2> DEFINE m == [NoRequest EXCEPT !.cmd = "AARQ", !.address = u.clientAddress,
                                    !.authentication = u.authentication,
                                    !.pdu = u.maxPduSize]
  <2>1. b = apdu_generateUserInformation(u) /\ t.serverAddress # 0
    BY <1>3, <1>6 DEF dlms_checkInit
  <2> HIDE DEF u
  <2>2. /\ m \in Requests /\ m.ics = {} /\ m.cmd = "AARQ" /\ m.address = u.clientAddress
        /\ m.authentication = u.authentication
    BY <1>4 DEF NoRequest, Requests, Settings, Addresses, Levels, InvokeIds
  <2>3. b = Protected(u, m, u.invocationCounter)
    BY <2>1 DEF apdu_generateUserInformation, Protected
  <2> HIDE DEF m
  <2>4. /\ Sent(b) /\ (b.message.ics = {}) = (~ isCiphered(b.settings))
        /\ b.message.cmd = m.cmd /\ b.message.address = m.address
        /\ b.message.authentication = m.authentication
        /\ Alike(u, b.settings) /\ SameInfo(u, b.settings)
        /\ b.settings.connected = u.connected /\ b.settings.invokeID = u.invokeID
    BY <1>4, <2>2, <2>3, ProtectedFields
  <2>5. Suits(b.message, b.settings)
    BY <2>2, <2>4 DEF Suits, CmdOf, Services, Alike
  <2>6. Alike(settings, b.settings) /\ SameInfo(settings, b.settings)
    BY <1>2, <1>4, <2>4 DEF Alike, SameInfo
  <2> QED BY <1>2, <1>4, <2>1, <2>4, <2>5, <2>6 DEF Sent, Alike
<1> QED BY <1>5, <1>6

(* A read or a command takes the next invoke id.                           *)
LEMMA ServiceFields ==
  ASSUME NEW s \in Settings, NEW cmd \in Services,
         NEW target \in {"none", "ic", "meter_sn", "energy", "relay", "off", "on"},
         NEW b, b = dlms_getLNPdu(s, cmd, target)
  PROVE  /\ Sent(b)
         /\ b.message.cmd = cmd /\ b.message.target = target
         /\ b.message.address = b.settings.clientAddress
         /\ b.message.id = b.settings.invokeID
         /\ (b.message.ics = {}) = (~ isCiphered(b.settings))
         /\ b.settings.invokeID = (s.invokeID + 1) % 16
         /\ b.settings.connected = s.connected
         /\ SameInfo(s, b.settings) /\ Alike(s, b.settings)
<1> DEFINE t == dlms_getInvokeIDPriority(s)
           m == [NoRequest EXCEPT !.cmd = cmd, !.target = target, !.id = t.invokeID,
                                  !.address = s.clientAddress]
<1>1. /\ t \in Settings /\ t.invokeID = (s.invokeID + 1) % 16
      /\ t.connected = s.connected /\ SameInfo(s, t) /\ Alike(s, t)
  BY InvokeIdType DEF dlms_getInvokeIDPriority, Settings, SameInfo, Alike
<1>2. isCiphered(s) = isCiphered(t)
  BY <1>1 DEF isCiphered, Alike
<1>3. b = Protected(t, m, s.invocationCounter)
  BY <1>2 DEF dlms_getLNPdu, Protected
<1> HIDE DEF t
<1>4. /\ m \in Requests /\ m.ics = {} /\ m.cmd = cmd /\ m.target = target
      /\ m.id = t.invokeID /\ m.address = s.clientAddress /\ m.cmd # "none"
  BY <1>1 DEF NoRequest, Requests, Settings, Addresses, Levels, InvokeIds, Services
<1> HIDE DEF m
<1>5. /\ Sent(b) /\ (b.message.ics = {}) = (~ isCiphered(b.settings))
      /\ b.message.cmd = m.cmd /\ b.message.address = m.address
      /\ b.message.id = m.id /\ b.message.target = m.target
      /\ Alike(t, b.settings) /\ SameInfo(t, b.settings)
      /\ b.settings.connected = t.connected /\ b.settings.invokeID = t.invokeID
  BY <1>1, <1>3, <1>4, ProtectedFields
<1>6. Alike(s, b.settings) /\ SameInfo(s, b.settings)
  BY <1>1, <1>5 DEF Alike, SameInfo
<1> QED BY <1>1, <1>4, <1>5, <1>6 DEF Alike

(* The challenge is answered with the next invoke id, if it can be at all. *)
LEMMA AuthFields ==
  ASSUME IInv, stage = "auth", NEW b, b = cl_getApplicationAssociationRequest(settings)
  PROVE  /\ b.ret = "OK" => /\ Sent(b) /\ Suits(b.message, b.settings)
                            /\ b.settings.invokeID = (settings.invokeID + 1) % 16
         /\ (b.ret = "OK") = isCiphered(settings)
         /\ b.ret # "OK" => b.message = NoRequest /\ b.settings = settings
         /\ b.settings.connected = settings.connected
         /\ SameInfo(settings, b.settings) /\ Alike(settings, b.settings)
<1>1. settings \in Settings
  BY DEF IInv, TypeOK
<1> DEFINE s == cip_encrypt(settings)
           d == dlms_getLNPdu(s, "AUTH", "none")
           c == settings.invocationCounter
<1>2. /\ s \in Settings /\ s.connected = settings.connected
      /\ SameInfo(settings, s) /\ Alike(settings, s) /\ s.invokeID = settings.invokeID
  BY <1>1, EncryptType, EncryptFields
<1>3. /\ d.message \in Requests
      /\ d = [ret |-> d.ret, settings |-> d.settings, message |-> d.message]
  <2>1. Builds(s, d)
    BY <1>2, ServiceBuilds
  <2>2. d = [ret |-> d.ret, settings |-> d.settings, message |-> d.message]
    BY DEF dlms_getLNPdu, Built
  <2> QED BY <2>1, <2>2 DEF Builds
<1>4. CASE isCiphered(settings)
  <2>1. b = [d EXCEPT !.message.ics = @ \cup {c}]
    BY <1>4 DEF cl_getApplicationAssociationRequest, cl_methodLN
  <2> DEFINE m == [d.message EXCEPT !.ics = @ \cup {c}]
  <2>2. b.ret = d.ret /\ b.settings = d.settings /\ b.message = m
    <3> HIDE DEF d, c
    <3> QED BY <1>3, <2>1
  <2>3. /\ Sent(d)
        /\ d.message.cmd = "AUTH" /\ d.message.target = "none"
        /\ d.message.address = d.settings.clientAddress
        /\ d.message.id = d.settings.invokeID
        /\ d.settings.invokeID = (s.invokeID + 1) % 16
        /\ d.settings.connected = s.connected
        /\ SameInfo(s, d.settings) /\ Alike(s, d.settings)
    BY <1>2, ServiceFields DEF Services
  <2> HIDE DEF d, c, s
  <2>4. /\ m.ics = d.message.ics \cup {c} /\ m.cmd = "AUTH"
        /\ m.address = d.message.address /\ m.id = d.message.id
    BY <1>3, <2>3 DEF Requests
  <2> HIDE DEF m
  <2>5. b.message # NoRequest
    BY <2>2, <2>4 DEF NoRequest
  <2>6. isCiphered(b.settings) /\ m.ics # {}
    BY <1>2, <1>4, <2>2, <2>3, <2>4 DEF isCiphered, Alike
  <2>7. Suits(b.message, b.settings)
    BY <2>2, <2>3, <2>4, <2>6 DEF Suits, CmdOf, Services
  <2>8. Alike(settings, b.settings) /\ SameInfo(settings, b.settings)
    BY <1>2, <2>2, <2>3 DEF Alike, SameInfo
  <2> QED BY <1>2, <1>4, <2>2, <2>3, <2>5, <2>7, <2>8 DEF Sent, isCiphered
<1>5. CASE ~ isCiphered(settings)
  <2>1. b = Refused("INVALID_PARAMETER", settings)
    BY <1>5 DEF cl_getApplicationAssociationRequest
  <2>2. b.ret = "INVALID_PARAMETER" /\ b.settings = settings /\ b.message = NoRequest
    BY <2>1 DEF Refused
  <2> HIDE DEF s, d, c
  <2> QED BY <1>5, <2>2 DEF Alike, SameInfo, isCiphered
<1> QED BY <1>4, <1>5

(* A release request is sent by who thinks it is associated.               *)
LEMMA ReleaseFields ==
  ASSUME IInv, stage = "release", NEW b, b = cl_releaseRequest2(settings)
  PROVE  /\ "DLMS" \in settings.connected => Sent(b) /\ Suits(b.message, b.settings)
         /\ "DLMS" \notin settings.connected => b.message = NoRequest
         /\ b.ret = "OK" /\ b.settings.connected = settings.connected \ {"DLMS"}
         /\ b.settings.invokeID = settings.invokeID
         /\ SameInfo(settings, b.settings) /\ Alike(settings, b.settings)
<1>1. settings \in Settings
  BY DEF IInv, TypeOK
<1>2. CASE "DLMS" \notin settings.connected
  <2>1. b.ret = "OK" /\ b.settings = settings /\ b.message = NoRequest
    BY <1>2 DEF cl_releaseRequest2, Built
  <2> QED BY <1>2, <2>1 DEF Alike, SameInfo
<1>3. CASE "DLMS" \in settings.connected
  <2> DEFINE t == [settings EXCEPT !.connected = @ \ {"DLMS"},
                                   !.maxPduSize = settings.initializePduSize]
             m == [NoRequest EXCEPT !.cmd = "RLRQ", !.address = settings.clientAddress]
             c == settings.invocationCounter
  <2>1. /\ t \in Settings /\ t.connected = settings.connected \ {"DLMS"}
        /\ t.invokeID = settings.invokeID
        /\ SameInfo(settings, t) /\ Alike(settings, t)
    BY <1>1 DEF Settings, SameInfo, Alike
  <2>2. m \in Requests /\ m.ics = {} /\ m.cmd = "RLRQ" /\ m.address = settings.clientAddress
    <3>1. m.ics = {} /\ m.cmd = "RLRQ" /\ m.address = settings.clientAddress
      BY DEF NoRequest
    <3> QED BY <1>1, <3>1, NoRequestType DEF Requests, Settings
  <2>3. isCiphered(settings) = isCiphered(t)
    BY <2>1 DEF isCiphered, Alike
  <2>4. b = Protected(t, m, c)
    BY <1>3, <2>3 DEF cl_releaseRequest2, Protected
  <2> HIDE DEF t, m, c
  <2>5. /\ Sent(b) /\ (b.message.ics = {}) = (~ isCiphered(b.settings))
        /\ b.message.cmd = m.cmd /\ b.message.address = m.address
        /\ Alike(t, b.settings) /\ SameInfo(t, b.settings)
        /\ b.settings.connected = t.connected /\ b.settings.invokeID = t.invokeID
    BY <2>1, <2>2, <2>4, ProtectedFields
  <2>6. Alike(settings, b.settings) /\ SameInfo(settings, b.settings)
    BY <2>1, <2>5 DEF Alike, SameInfo
  <2>7. Suits(b.message, b.settings)
    BY <2>2, <2>5, <2>6 DEF Suits, CmdOf, Services, Alike
  <2> QED BY <1>3, <2>1, <2>5, <2>6, <2>7 DEF Sent
<1> QED BY <1>2, <1>3

(* A DISC is sent by who thinks it has a link, and puts the HDLC           *)
(* parameters back.                                                        *)
LEMMA DiscFields ==
  ASSUME IInv, stage \in {"icDisc", "disc"}, NEW b, b = cl_disconnectRequest(settings)
  PROVE  /\ "HDLC" \in settings.connected =>
              /\ Sent(b) /\ Suits(b.message, b.settings)
              /\ b.settings.maxInfo = settings.initializeMaxInfo
         /\ "HDLC" \notin settings.connected =>
              b.message = NoRequest /\ b.settings.maxInfo = settings.maxInfo
         /\ b.ret = "OK" /\ b.settings.connected = settings.connected \ {"HDLC"}
         /\ b.settings.initializeMaxInfo = settings.initializeMaxInfo
         /\ b.settings.invokeID = settings.invokeID
         /\ Alike(settings, b.settings)
<1>1. settings \in Settings
  BY DEF IInv, TypeOK
<1>2. CASE "HDLC" \notin settings.connected
  <2> DEFINE t == [settings EXCEPT !.maxPduSize = DefaultPdu]
  <2>1. /\ t.connected = settings.connected /\ t.invokeID = settings.invokeID
        /\ SameInfo(settings, t) /\ Alike(settings, t)
    BY <1>1 DEF Settings, SameInfo, Alike
  <2>2. b = Built(t, NoRequest)
    BY <1>2 DEF cl_disconnectRequest
  <2> HIDE DEF t
  <2> QED BY <1>2, <2>1, <2>2 DEF Built, SameInfo
<1>3. CASE "HDLC" \in settings.connected
  <2> DEFINE t == [settings EXCEPT !.connected = @ \ {"HDLC"},
                                   !.maxInfo = settings.initializeMaxInfo,
                                   !.maxPduSize = settings.initializePduSize]
             m == [NoRequest EXCEPT !.cmd = "DISC", !.address = settings.clientAddress]
  <2>1. /\ t.connected = settings.connected \ {"HDLC"} /\ t.invokeID = settings.invokeID
        /\ t.maxInfo = settings.initializeMaxInfo
        /\ t.initializeMaxInfo = settings.initializeMaxInfo /\ Alike(settings, t)
    BY <1>1 DEF Settings, Alike
  <2>2. m.ics = {} /\ m.cmd = "DISC" /\ m.address = settings.clientAddress /\ m # NoRequest
    BY DEF NoRequest
  <2>3. b = Built(t, m)
    BY <1>3 DEF cl_disconnectRequest
  <2> HIDE DEF t, m
  <2>4. b.ret = "OK" /\ b.settings = t /\ b.message = m
    BY <2>3 DEF Built
  <2>5. Suits(m, t)
    BY <2>1, <2>2 DEF Suits, CmdOf, Services, Alike
  <2> QED BY <1>3, <2>1, <2>2, <2>4, <2>5 DEF Sent
<1> QED BY <1>2, <1>3

-----------------------------------------------------------------------------
(* The request of every stage, in one place.                               *)

Reopens(b) == /\ Sent(b) /\ b.settings.connected = {}
              /\ b.settings.maxInfo = settings.maxInfo
              /\ b.settings.initializeMaxInfo = settings.maxInfo
Associates(b) == /\ b.ret = "OK" => /\ Sent(b) /\ b.settings.invokeID = 0
                                    /\ b.settings.serverAddress # 0
                 /\ b.settings.connected = settings.connected \ {"DLMS"}
                 /\ SameInfo(settings, b.settings)
Serves(b) == /\ b.ret = "OK" => /\ Sent(b)
                                /\ b.settings.invokeID = (settings.invokeID + 1) % 16
             /\ (b.ret = "OK") = (stage # "auth" \/ isCiphered(settings))
             /\ b.settings.connected = settings.connected
             /\ SameInfo(settings, b.settings)
Releases(b) == /\ b.ret = "OK" /\ Sent(b) = ("DLMS" \in settings.connected)
               /\ b.settings.connected = settings.connected \ {"DLMS"}
               /\ SameInfo(settings, b.settings)
Disconnects(b) == /\ b.ret = "OK" /\ Sent(b) = ("HDLC" \in settings.connected)
                  /\ b.settings.connected = settings.connected \ {"HDLC"}
                  /\ b.settings.initializeMaxInfo = settings.initializeMaxInfo
                  /\ b.settings.maxInfo = IF Sent(b) THEN settings.initializeMaxInfo
                                          ELSE settings.maxInfo

CallFits(b) ==
  /\ Builds(settings, b) /\ Alike(settings, b.settings)
  /\ Sent(b) => Suits(b.message, b.settings)
  /\ ~ Sent(b) => b.message = NoRequest
  /\ stage \in {"icSnrm", "snrm"} => Reopens(b)
  /\ stage \in {"icAarq", "aarq"} => Associates(b)
  /\ stage \in {"icRead", "auth", "item"} => Serves(b)
  /\ stage = "release" => Releases(b)
  /\ stage \in {"icDisc", "disc"} => Disconnects(b)

(* Every stage builds the request it should.                               *)
LEMMA CallBuilt ==
  ASSUME IInv, stage \in Asking, NEW b, b = Call
  PROVE  CallFits(b)
<1>1. settings \in Settings
  BY DEF IInv, TypeOK
<1>2. CASE stage \in {"icSnrm", "snrm"}
  <2>1. b = cl_snrmRequest(settings)
    BY <1>2 DEF Call
  <2> QED BY <1>1, <1>2, <2>1, SnrmFields, SnrmBuilds DEF CallFits, Reopens
<1>3. CASE stage \in {"icAarq", "aarq"}
  <2>1. b = cl_aarqRequest(settings)
    BY <1>3 DEF Call
  <2> QED BY <1>1, <1>3, <2>1, AarqFields, AarqBuilds DEF CallFits, Associates, Sent
<1>4. CASE stage \in {"icRead", "item"}
  <2> DEFINE cmd == CmdOf
             target == IF stage = "icRead" THEN "ic" ELSE Head(todo)
  <2>1. stage = "item" => IF Reading THEN Head(todo) \in Reads ELSE Head(todo) \in Commands
    BY HeadTailProperties DEF IInv, TodoFits, Reading, Reads
  <2>2. /\ target \in {"none", "ic", "meter_sn", "energy", "relay", "off", "on"}
        /\ cmd \in {"GET", "ACTION"} /\ cmd = CmdOf
        /\ cmd = "GET" => target \in Objects
    BY <1>4, <2>1 DEF CmdOf, Reads, Commands, Objects
  <2>3. b = dlms_getLNPdu(settings, cmd, target)
    BY <1>4 DEF Call, CmdOf, cl_readLN, cl_methodLN
  <2>4. stage = "icRead" => target = "ic"
    OBVIOUS
  <2>5. stage = "item" => target = Head(todo)
    OBVIOUS
  <2> HIDE DEF target, cmd
  <2>6. /\ Sent(b)
        /\ b.message.cmd = cmd /\ b.message.target = target
        /\ b.message.address = b.settings.clientAddress
        /\ b.message.id = b.settings.invokeID
        /\ (b.message.ics = {}) = (~ isCiphered(b.settings))
        /\ b.settings.invokeID = (settings.invokeID + 1) % 16
        /\ b.settings.connected = settings.connected
        /\ SameInfo(settings, b.settings) /\ Alike(settings, b.settings)
    BY <1>1, <2>2, <2>3, ServiceFields DEF Services
  <2>7. Builds(settings, b)
    BY <1>1, <2>2, <2>3, ServiceBuilds
  <2>8. Suits(b.message, b.settings)
    BY <1>4, <2>2, <2>4, <2>5, <2>6 DEF Suits, Services
  <2>9. Serves(b)
    BY <1>4, <2>6 DEF Serves, Sent
  <2> QED BY <1>4, <2>6, <2>7, <2>8, <2>9 DEF CallFits
<1>5. CASE stage = "auth"
  <2>1. b = cl_getApplicationAssociationRequest(settings)
    BY <1>5 DEF Call
  <2> QED BY <1>1, <1>5, <2>1, AuthFields, AuthBuilds DEF CallFits, Serves, Sent
<1>6. CASE stage = "release"
  <2>1. b = cl_releaseRequest2(settings)
    BY <1>6 DEF Call
  <2> QED BY <1>1, <1>6, <2>1, ReleaseFields, ReleaseBuilds DEF CallFits, Releases, Sent
<1>7. CASE stage \in {"icDisc", "disc"}
  <2>1. b = cl_disconnectRequest(settings)
    BY <1>7 DEF Call
  <2> QED BY <1>1, <1>7, <2>1, DiscFields, DisconnectBuilds DEF CallFits, Disconnects, Sent
<1> QED BY <1>2, <1>3, <1>4, <1>5, <1>6, <1>7 DEF Asking

(* What handing a request to com_readDataBlock does.                       *)
LEMMA Requesting ==
  ASSUME IInv, phase = "call", stage \in Asking, NEW b, b = Call, Request(b)
  PROVE  /\ settings' = b.settings /\ phase' \in {"wait", "back"}
         /\ UNCHANGED <<args, stage, saved, ret, parse_stage, todo, out>>
         /\ ~ Sent(b) => /\ phase' = "back" /\ UNCHANGED lineVars
                         /\ reply' = [ret |-> b.ret, answer |-> NoAnswer]
         /\ Sent(b) => /\ tx' = b.message /\ tries' = 1 /\ used' = used \cup b.message.ics
                       /\ sendData(b.message, [meter EXCEPT !.received = FALSE, !.last = <<>>])
BY DEF Request, Sent, sendData, Returned

(* While an exchange is under way, or its answer is looked at, tx is the   *)
(* request of the stage.                                                   *)
TxFits ==
  phase = "wait" \/ (phase = "back" /\ reply.answer # NoAnswer) => Suits(tx, settings)

(* Every step keeps the last request fitting its stage.                    *)
LEMMA NextTxFits == ASSUME IInv, TxFits, [Next]_vars PROVE TxFits'
<1>1. CASE Idle
  <2>1. /\ UNCHANGED <<args, stage, settings, todo, tx>>
        /\ phase' = "wait" => phase = "wait"
        /\ phase' = "back" /\ reply'.answer # NoAnswer =>
             phase = "wait" \/ (phase = "back" /\ reply.answer # NoAnswer)
    BY <1>1, IdleKeeps
  <2> QED BY <2>1 DEF TxFits, Suits, CmdOf, Reading
<1>2. CASE phase = "call" /\ stage \in Asking /\ Request(Call)
  <2> DEFINE b == Call
  <2>1. CallFits(b)
    BY <1>2, CallBuilt
  <2>2. /\ settings' = b.settings /\ UNCHANGED <<args, stage, todo>>
        /\ ~ Sent(b) => phase' = "back" /\ reply' = [ret |-> b.ret, answer |-> NoAnswer]
        /\ Sent(b) => tx' = b.message
    BY <1>2, Requesting
  <2> HIDE DEF b
  <2>3. CASE Sent(b)
    <3>1. Suits(tx', settings')
      BY <2>1, <2>2, <2>3 DEF CallFits
    <3> QED BY <2>2, <3>1 DEF TxFits, Suits, CmdOf, Reading
  <2>4. CASE ~ Sent(b)
    BY <2>2, <2>4 DEF TxFits
  <2> QED BY <2>3, <2>4
<1>3. CASE Turn
  BY <1>3, TurnKeeps DEF TxFits
<1> QED BY <1>1, <1>2, <1>3, StepKinds

-----------------------------------------------------------------------------
(* The line and the meter, whatever the disturbances.                      *)

(* The sequence t is what is left of s.                                    *)
Rest(s, t) == \E k \in Nat : /\ Len(t) + k = Len(s)
                             /\ \A i \in 1..Len(t) : t[i] = s[i + k]

(* Suffixes and tails are what is left of a sequence.                      *)
LEMMA RestOf ==
  ASSUME NEW s \in Seq(Answers)
  PROVE  /\ \A t \in Suffixes(s) : Rest(s, t)
         /\ s # <<>> => Rest(s, Tail(s))
         /\ s # <<>> => \A t \in Suffixes(Tail(s)) : Rest(s, t)
<1>1. ASSUME NEW r \in Seq(Answers), NEW t \in Suffixes(r) PROVE Rest(r, t)
  <2>1. Len(r) \in Nat
    BY LenProperties
  <2>2. CASE t = <<>>
    <3>1. Len(t) = 0
      BY <2>2
    <3> QED BY <2>1, <3>1 DEF Rest
  <2>3. ASSUME NEW n \in 1..Len(r), t = SubSeq(r, n, Len(r)) PROVE Rest(r, t)
    <3>1. /\ Len(t) = Len(r) - n + 1
          /\ \A i \in 1..Len(t) : t[i] = r[n + i - 1]
      BY <2>1, <2>3
    <3>2. n - 1 \in Nat /\ Len(t) + (n - 1) = Len(r)
      BY <2>1, <3>1
    <3>3. \A i \in 1..Len(t) : t[i] = r[i + (n - 1)]
      <4>1. \A i \in 1..Len(t) : i + (n - 1) = n + i - 1
        BY <2>1, <3>1
      <4> QED BY <3>1, <4>1
    <3> QED BY <3>2, <3>3 DEF Rest
  <2> QED BY <2>2, <2>3 DEF Suffixes
<1>2. ASSUME s # <<>> PROVE Rest(s, Tail(s)) /\ Tail(s) \in Seq(Answers)
  <2>1. /\ Tail(s) \in Seq(Answers) /\ Len(s) \in Nat /\ Len(Tail(s)) = Len(s) - 1
        /\ \A i \in 1..Len(Tail(s)) : Tail(s)[i] = s[i + 1]
    BY <1>2, HeadTailProperties
  <2>2. 1 \in Nat /\ Len(Tail(s)) + 1 = Len(s)
    BY <2>1
  <2> QED BY <2>1, <2>2 DEF Rest
<1>3. ASSUME s # <<>>, NEW t \in Suffixes(Tail(s)) PROVE Rest(s, t)
  <2>1. Rest(s, Tail(s)) /\ Tail(s) \in Seq(Answers) /\ Rest(Tail(s), t)
    BY <1>1, <1>2, <1>3
  <2> DEFINE r == Tail(s)
  <2>2. PICK j \in Nat : Len(r) + j = Len(s) /\ \A i \in 1..Len(r) : r[i] = s[i + j]
    BY <2>1 DEF Rest
  <2>3. PICK k \in Nat : Len(t) + k = Len(r) /\ \A i \in 1..Len(t) : t[i] = r[i + k]
    BY <2>1 DEF Rest
  <2>4. Len(r) \in Nat /\ Len(s) \in Nat
    BY <2>1, LenProperties
  <2> HIDE DEF r
  <2>5. Len(t) = Len(r) - k \/ Len(t) + k = Len(r)
    BY <2>3
  <2>6. t \in Seq(Answers)
    BY <1>3, <2>1, SuffixType
  <2>7. Len(t) \in Nat
    BY <2>6, LenProperties
  <2>8. ASSUME NEW i \in 1..Len(t) PROVE t[i] = s[i + (k + j)]
    <3>1. i + k \in 1..Len(r) /\ (i + k) + j = i + (k + j)
      BY <2>3, <2>4, <2>7, <2>8
    <3> QED BY <2>2, <2>3, <2>8, <3>1
  <2>9. k + j \in Nat /\ Len(t) + (k + j) = Len(s)
    BY <2>2, <2>3, <2>4, <2>7
  <2> QED BY <2>8, <2>9 DEF Rest
<1> QED BY <1>1, <1>2, <1>3

(* What is left of a sequence holds nothing new, and two sequences hold    *)
(* what either does.                                                       *)
LEMMA RestHolds ==
  ASSUME NEW S, NEW s \in Seq(S), NEW t \in Seq(S), Rest(s, t)
  PROVE  ToSet(t) \subseteq ToSet(s)
<1>1. PICK k \in Nat : Len(t) + k = Len(s) /\ \A i \in 1..Len(t) : t[i] = s[i + k]
  BY DEF Rest
<1>2. /\ Len(s) \in Nat /\ Len(t) \in Nat /\ DOMAIN s = 1..Len(s) /\ DOMAIN t = 1..Len(t)
  BY LenProperties
<1>3. \A i \in 1..Len(t) : i + k \in 1..Len(s)
  BY <1>1, <1>2
<1> QED BY <1>1, <1>2, <1>3 DEF ToSet

(* One sequence after another holds the elements of both.                  *)
LEMMA BothHold ==
  ASSUME NEW S, NEW s \in Seq(S), NEW t \in Seq(S)
  PROVE  ToSet(s \o t) = ToSet(s) \cup ToSet(t)
<1>1. /\ Len(s) \in Nat /\ Len(t) \in Nat /\ DOMAIN s = 1..Len(s) /\ DOMAIN t = 1..Len(t)
  BY LenProperties
<1>2. /\ s \o t \in Seq(S) /\ Len(s \o t) = Len(s) + Len(t)
      /\ \A i \in 1..(Len(s) + Len(t)) :
           (s \o t)[i] = IF i <= Len(s) THEN s[i] ELSE t[i - Len(s)]
  BY ConcatProperties
<1>3. DOMAIN (s \o t) = 1..(Len(s) + Len(t))
  BY <1>2, LenProperties
<1> DEFINE u == s \o t
<1> HIDE DEF u
<1>4. ASSUME NEW i \in DOMAIN u PROVE u[i] \in ToSet(s) \cup ToSet(t)
  <2>1. i \in 1..(Len(s) + Len(t))
    BY <1>3, <1>4 DEF u
  <2>2. CASE i <= Len(s)
    <3>1. i \in 1..Len(s) /\ u[i] = s[i]
      BY <1>1, <1>2, <2>1, <2>2 DEF u
    <3> QED BY <1>1, <3>1 DEF ToSet
  <2>3. CASE ~ (i <= Len(s))
    <3>1. i - Len(s) \in 1..Len(t) /\ u[i] = t[i - Len(s)]
      BY <1>1, <1>2, <2>1, <2>3 DEF u
    <3> QED BY <1>1, <3>1 DEF ToSet
  <2> QED BY <2>2, <2>3
<1>5. ASSUME NEW i \in DOMAIN s PROVE s[i] \in ToSet(u)
  <2>1. i \in DOMAIN u /\ u[i] = s[i]
    BY <1>1, <1>2, <1>3, <1>5 DEF u
  <2> QED BY <2>1 DEF ToSet
<1>6. ASSUME NEW i \in DOMAIN t PROVE t[i] \in ToSet(u)
  <2>1. /\ i + Len(s) \in 1..(Len(s) + Len(t)) /\ ~ (i + Len(s) <= Len(s))
        /\ (i + Len(s)) - Len(s) = i
    BY <1>1, <1>6
  <2>2. i + Len(s) \in DOMAIN u /\ u[i + Len(s)] = t[i]
    BY <1>2, <1>3, <2>1 DEF u
  <2> QED BY <2>2 DEF ToSet
<1>7. /\ ToSet(u) \subseteq ToSet(s) \cup ToSet(t)
      /\ ToSet(s) \subseteq ToSet(u) /\ ToSet(t) \subseteq ToSet(u)
  BY <1>4, <1>5, <1>6 DEF ToSet
<1> QED BY <1>7 DEF u

(* The outcome of sending: the meter hears the request and reacts, or it   *)
(* does not, or only repeats itself.                                       *)
LEMMA Sending ==
  ASSUME NEW q \in Requests, WellAimed(q), q.cmd # "none", NEW m \in Meters,
         sendData(q, m)
  PROVE  \/ /\ phase' = "wait" /\ reply' = reply
            /\ settings.serverAddress # 0 /\ ~ m.received
            /\ line' = line \/ line' = line \o meter'.last
            /\ AfterFits(q, meter') /\ Effects(m, q, meter')
         \/ /\ meter' = m \/ meter' = [m EXCEPT !.last = <<>>]
            /\ \/ phase' = "wait" /\ reply' = reply
               \/ phase' = "back" /\ reply'.answer = NoAnswer
            /\ line' = line \/ line' = line \o meter'.last
<1>1. ASSUME NEW n \in Hears(q, m)
      PROVE  \/ /\ settings.serverAddress # 0 /\ ~ m.received
                /\ AfterFits(q, n) /\ Effects(m, q, n)
             \/ n = m \/ n = [m EXCEPT !.last = <<>>]
  <2>1. CASE settings.serverAddress = 0
    BY <1>1, <2>1 DEF Hears
  <2>2. CASE settings.serverAddress # 0 /\ m.received
    BY <1>1, <2>2 DEF Hears, Repeats
  <2>3. CASE settings.serverAddress # 0 /\ ~ m.received
    BY <1>1, <2>3, ReactionsFit DEF Hears
  <2> QED BY <2>1, <2>2, <2>3
<1>2. CASE /\ \E n \in Hears(q, m) : meter' = n /\ line' = line \o n.last
           /\ phase' = "wait" /\ UNCHANGED <<reply, budget>>
  BY <1>1, <1>2
<1>3. CASE Disturb /\ meter' \in Hears(q, m) /\ phase' = "wait" /\ UNCHANGED <<reply, line>>
  BY <1>1, <1>3
<1>4. CASE Disturb /\ meter' = m /\ phase' = "wait" /\ UNCHANGED <<reply, line>>
  BY <1>4
<1>5. CASE /\ Disturb /\ meter' = m
           /\ Returned("COMMUNICATION_ERROR", NoAnswer) /\ UNCHANGED line
  BY <1>5 DEF Returned
<1> QED BY <1>2, <1>3, <1>4, <1>5 DEF sendData

(* The meter handles the request.                                          *)
Heard ==
  /\ phase' = "wait" /\ reply' = reply /\ settings.serverAddress # 0
  /\ \/ phase = "call"
     \/ phase = "wait" /\ UNCHANGED <<tx, settings, stage, args, todo>> /\ ~ meter.received
  /\ line' = line \/ line' = line \o meter'.last
  /\ AfterFits(tx', meter') /\ Effects(meter, tx', meter')

(* The meter keeps its state, and at most forgets or repeats an answer.    *)
Unheard ==
  /\ meter'.link = meter.link /\ meter'.assoc = meter.assoc
  /\ meter'.relay = meter.relay /\ meter'.ic = meter.ic
  /\ \/ meter'.received = meter.received /\ meter'.last \in {meter.last, <<>>}
     \/ phase = "call" /\ phase' # "call" /\ ~ meter'.received /\ meter'.last = <<>>
  /\ line' = line \/ line' = line \o meter'.last \/ Rest(line, line')
  /\ \/ reply'.answer \in {reply.answer, NoAnswer}
     \/ phase = "wait" /\ line # <<>> /\ reply'.answer = Head(line)

(* The meter and the line behave in one of three ways.                     *)
LEMMA Wire ==
  ASSUME IInv, TxFits, [Next]_vars
  PROVE  Heard \/ Unheard \/ MeterRestarts
<1>1. /\ tx \in Requests /\ WellAimed(tx) /\ line \in Seq(Answers) /\ meter \in Meters
      /\ meter.last \in Seq(Answers)
  BY DEF IInv, TypeOK, Meters
<1>2. CASE Turn
  <2>1. /\ meter' = meter /\ reply' = reply
        /\ line' = line \/ Rest(line, line')
    BY <1>1, <1>2, TurnKeeps, RestOf
  <2> QED BY <2>1 DEF Unheard
<1>3. CASE phase = "call" /\ stage \in Asking /\ Request(Call)
  <2> DEFINE b == Call
             m == [meter EXCEPT !.received = FALSE, !.last = <<>>]
  <2>1. CallFits(b)
    BY <1>3, CallBuilt
  <2>2. /\ phase' \in {"wait", "back"}
        /\ ~ Sent(b) => UNCHANGED <<meter, line>> /\ reply'.answer = NoAnswer
        /\ Sent(b) => tx' = b.message /\ sendData(b.message, m)
    BY <1>3, Requesting DEF lineVars
  <2>3. /\ m \in Meters /\ ~ m.received /\ m.last = <<>>
        /\ m.link = meter.link /\ m.assoc = meter.assoc /\ m.relay = meter.relay
        /\ m.ic = meter.ic
    <3>1. <<>> \in Seq(Answers)
      OBVIOUS
    <3> QED BY <1>1, <3>1 DEF Meters
  <2>4. [m EXCEPT !.last = <<>>] = m
    BY <2>3 DEF Meters
  <2> HIDE DEF b, m
  <2>5. CASE Sent(b)
    <3>1. b.message \in Requests /\ WellAimed(b.message) /\ b.message.cmd # "none"
      BY <2>1, <2>5 DEF CallFits, Builds, Suits, CmdOf
    <3>2. \/ /\ phase' = "wait" /\ reply' = reply
             /\ settings.serverAddress # 0 /\ ~ m.received
             /\ line' = line \/ line' = line \o meter'.last
             /\ AfterFits(b.message, meter') /\ Effects(m, b.message, meter')
          \/ /\ meter' = m \/ meter' = [m EXCEPT !.last = <<>>]
             /\ \/ phase' = "wait" /\ reply' = reply
                \/ phase' = "back" /\ reply'.answer = NoAnswer
             /\ line' = line \/ line' = line \o meter'.last
      BY <2>2, <2>3, <2>5, <3>1, Sending
    <3>3. Effects(m, b.message, meter') => Effects(meter, b.message, meter')
      BY <2>3 DEF Effects
    <3>4. CASE /\ phase' = "wait" /\ reply' = reply
               /\ settings.serverAddress # 0 /\ ~ m.received
               /\ line' = line \/ line' = line \o meter'.last
               /\ AfterFits(b.message, meter') /\ Effects(m, b.message, meter')
      BY <1>3, <2>2, <2>5, <3>3, <3>4 DEF Heard
    <3>5. CASE /\ meter' = m
               /\ \/ phase' = "wait" /\ reply' = reply
                  \/ phase' = "back" /\ reply'.answer = NoAnswer
               /\ line' = line \/ line' = line \o meter'.last
      BY <1>3, <2>3, <3>5 DEF Unheard
    <3> QED BY <2>4, <3>2, <3>4, <3>5
  <2>6. CASE ~ Sent(b)
    BY <2>2, <2>6 DEF Unheard
  <2> QED BY <2>5, <2>6
<1>4. CASE Resend \/ ResendLate
  <2>1. tx.cmd # "none" /\ phase = "wait" /\ UNCHANGED <<tx, settings, stage, args, todo>>
    BY <1>4 DEF Resend, ResendLate, Waiting, TxFits, Suits, CmdOf, connectionVars
  <2>2. \/ sendData(tx, meter)
        \/ /\ meter' \in Hears(tx, meter) /\ line' = line \o meter'.last
           /\ phase' = "wait" /\ reply' = reply
    BY <1>4 DEF Resend, ResendLate, Waiting
  <2>3. \/ /\ phase' = "wait" /\ reply' = reply
           /\ settings.serverAddress # 0 /\ ~ meter.received
           /\ line' = line \/ line' = line \o meter'.last
           /\ AfterFits(tx, meter') /\ Effects(meter, tx, meter')
        \/ /\ meter' = meter \/ meter' = [meter EXCEPT !.last = <<>>]
           /\ \/ phase' = "wait" /\ reply' = reply
              \/ phase' = "back" /\ reply'.answer = NoAnswer
           /\ line' = line \/ line' = line \o meter'.last
    <3>1. CASE sendData(tx, meter)
      BY <1>1, <2>1, <3>1, Sending
    <3>2. CASE /\ meter' \in Hears(tx, meter) /\ line' = line \o meter'.last
               /\ phase' = "wait" /\ reply' = reply
      <4>1. CASE settings.serverAddress = 0 \/ meter.received
        BY <3>2, <4>1 DEF Hears, Repeats
      <4>2. CASE ~ (settings.serverAddress = 0 \/ meter.received)
        BY <1>1, <2>1, <3>2, <4>2, ReactionsFit DEF Hears
      <4> QED BY <4>1, <4>2
    <3> QED BY <2>2, <3>1, <3>2
  <2>4. CASE /\ phase' = "wait" /\ reply' = reply
             /\ settings.serverAddress # 0 /\ ~ meter.received
             /\ line' = line \/ line' = line \o meter'.last
             /\ AfterFits(tx, meter') /\ Effects(meter, tx, meter')
    BY <2>1, <2>4 DEF Heard
  <2>5. CASE /\ meter' = meter \/ meter' = [meter EXCEPT !.last = <<>>]
             /\ \/ phase' = "wait" /\ reply' = reply
                \/ phase' = "back" /\ reply'.answer = NoAnswer
             /\ line' = line \/ line' = line \o meter'.last
    <3>1. /\ meter'.link = meter.link /\ meter'.assoc = meter.assoc
          /\ meter'.relay = meter.relay /\ meter'.ic = meter.ic
          /\ meter'.received = meter.received /\ meter'.last \in {meter.last, <<>>}
      BY <1>1, <2>5 DEF Meters
    <3> QED BY <2>5, <3>1 DEF Unheard
  <2> QED BY <2>3, <2>4, <2>5
<1>5. CASE Receive
  <2>1. /\ meter' = meter /\ Rest(line, line') /\ phase = "wait" /\ line # <<>>
        /\ reply' = reply \/ reply'.answer = Head(line)
    BY <1>1, <1>5, RestOf DEF Receive, Returned, Waiting
  <2> QED BY <2>1 DEF Unheard
<1>6. CASE GiveUp \/ Corrupt \/ ReadFails
  <2>1. /\ meter' = meter /\ reply'.answer = NoAnswer
        /\ line' = line \/ Rest(line, line')
    <3>1. CASE Corrupt
      <4>1. line # <<>> /\ line' = Tail(line) /\ Returned("WRONG_CRC", NoAnswer) /\ meter' = meter
        BY <3>1 DEF Corrupt
      <4> QED BY <1>1, <4>1, RestOf DEF Returned
    <3>2. CASE GiveUp \/ ReadFails
      BY <3>2 DEF GiveUp, ReadFails, Returned
    <3> QED BY <1>6, <3>1, <3>2
  <2> QED BY <2>1 DEF Unheard
<1>7. CASE HangUp
  BY <1>7 DEF HangUp, Waiting, Unheard
<1>8. CASE Poll \/ Spin \/ UNCHANGED vars
  BY <1>8 DEF Poll, Spin, vars, Unheard
<1> QED BY <1>2, <1>3, <1>4, <1>5, <1>6, <1>7, <1>8, StepKinds DEF Idle, Exchange

(* The answers on the line or remembered by the meter, and with the last   *)
(* reply every answer the program may still look at.                       *)
OnLine == ToSet(line) \cup ToSet(meter.last)
Known  == OnLine \cup {reply.answer}

(* After every step all are answers.                                       *)
LEMMA KnownTyped == ASSUME IInv' PROVE Known' \subseteq Answers
<1>1. line' \in Seq(Answers) /\ meter'.last \in Seq(Answers) /\ reply'.answer \in Answers
  BY DEF IInv, TypeOK, Meters
<1>2. \A s \in Seq(Answers) : ToSet(s) \subseteq Answers
  BY DEF ToSet
<1> QED BY <1>1, <1>2 DEF Known, OnLine

(* Nothing but what the meter has just answered is added to them.          *)
LEMMA KnownSteps ==
  ASSUME IInv, [Next]_vars
  PROVE  /\ Heard => /\ OnLine' \subseteq OnLine \cup ToSet(meter'.last)
                     /\ \A a \in ToSet(meter'.last) : AnswerFits(tx', meter', a)
         /\ Unheard \/ MeterRestarts => OnLine' \subseteq OnLine
         /\ Heard \/ Unheard \/ MeterRestarts =>
              reply'.answer \in Known \cup {NoAnswer}
<1>1. /\ line \in Seq(Answers) /\ line' \in Seq(Answers)
      /\ meter.last \in Seq(Answers) /\ meter'.last \in Seq(Answers)
  BY NextIInv DEF IInv, TypeOK, Meters
<1>2. ToSet(line \o meter'.last) = ToSet(line) \cup ToSet(meter'.last)
  BY <1>1, BothHold
<1>3. Rest(line, line') => ToSet(line') \subseteq ToSet(line)
  BY <1>1, RestHolds
<1>4. ToSet(<<>>) = {} /\ \A a : ToSet(<<a>>) = {a}
  BY DEF ToSet
<1>5. ASSUME Heard
      PROVE  /\ OnLine' \subseteq OnLine \cup ToSet(meter'.last)
             /\ \A a \in ToSet(meter'.last) : AnswerFits(tx', meter', a)
             /\ reply'.answer \in Known \cup {NoAnswer}
  <2>1. OnLine' \subseteq OnLine \cup ToSet(meter'.last)
    BY <1>2, <1>5 DEF Heard, OnLine
  <2>2. AfterFits(tx', meter')
    BY <1>5 DEF Heard
  <2>3. \A a \in ToSet(meter'.last) : AnswerFits(tx', meter', a)
    BY <1>4, <2>2 DEF AfterFits
  <2> QED BY <1>5, <2>1, <2>3 DEF Heard, Known
<1>6. ASSUME Unheard
      PROVE  OnLine' \subseteq OnLine /\ reply'.answer \in Known \cup {NoAnswer}
  <2>1. ToSet(meter'.last) \subseteq ToSet(meter.last)
    BY <1>4, <1>6 DEF Unheard
  <2>2. ToSet(line') \subseteq ToSet(line) \cup ToSet(meter'.last)
    BY <1>2, <1>3, <1>6 DEF Unheard
  <2>3. line # <<>> => Head(line) \in ToSet(line)
    <3>1. line # <<>> => 1 \in DOMAIN line /\ Head(line) = line[1]
      BY <1>1
    <3> QED BY <3>1 DEF ToSet
  <2>4. reply'.answer \in ToSet(line) \cup {reply.answer, NoAnswer}
    BY <1>6, <2>3 DEF Unheard
  <2> QED BY <2>1, <2>2, <2>4 DEF Known, OnLine
<1>7. ASSUME MeterRestarts PROVE OnLine' \subseteq OnLine /\ reply' = reply
  <2>1. meter'.last = <<>> /\ line' = line /\ reply' = reply
    BY <1>7 DEF MeterRestarts, Restarted, IInv, TypeOK, Meters
  <2> QED BY <1>4, <2>1 DEF OnLine
<1>8. reply.answer \in Known
  BY DEF Known
<1> QED BY <1>5, <1>6, <1>7, <1>8

(* How an exchange ends.                                                   *)
LEMMA Replies ==
  ASSUME IInv, [Next]_vars, phase' = "back"
  PROVE  /\ UNCHANGED <<args, stage, todo, out, ret>>
         /\ phase # "call" => UNCHANGED <<settings, tx>>
         /\ phase = "back" => reply' = reply
         /\ \/ phase = "back"
            \/ /\ reply'.answer = NoAnswer
               /\ reply'.ret # "OK" \/ (phase = "call" /\ stage \in {"icDisc", "disc", "release"})
            \/ /\ phase = "wait" /\ line # <<>> /\ reply'.answer = Head(line)
               /\ reply'.ret = dlms_getPdu(settings, reply'.answer)
               /\ line' \in Suffixes(Tail(line)) /\ meter' = meter
<1>1. CASE Idle
  <2>1. /\ UNCHANGED <<args, stage, todo, out, ret, settings, tx>>
        /\ phase = "back" => reply' = reply
        /\ phase = "call" => phase' = "call"
        /\ phase' # phase => phase = "wait"
    BY <1>1, IdleKeeps
  <2>2. CASE phase = "wait"
    <3>1. CASE Resend
      BY <2>1, <2>2, <3>1 DEF Resend, sendData, Returned
    <3>2. CASE Receive
      BY <2>1, <2>2, <3>2 DEF Receive, Returned
    <3>3. CASE GiveUp \/ Corrupt \/ ReadFails
      BY <2>1, <2>2, <3>3 DEF GiveUp, Corrupt, ReadFails, Returned
    <3>4. CASE ResendLate \/ HangUp \/ Poll \/ Spin \/ MeterRestarts \/ UNCHANGED vars
      BY <2>1, <2>2, <3>4 DEF ResendLate, HangUp, Poll, Spin, MeterRestarts, Waiting, vars
    <3> QED BY <1>1, <2>1, <2>2, <3>1, <3>2, <3>3, <3>4 DEF Idle, Exchange
  <2> QED BY <2>1, <2>2
<1>2. CASE phase = "call" /\ stage \in Asking /\ Request(Call)
  <2> DEFINE b == Call
  <2>1. CallFits(b)
    BY <1>2, CallBuilt
  <2>2. /\ UNCHANGED <<args, stage, todo, out, ret>>
        /\ ~ Sent(b) => reply' = [ret |-> b.ret, answer |-> NoAnswer]
        /\ Sent(b) => sendData(b.message, [meter EXCEPT !.received = FALSE, !.last = <<>>])
    BY <1>2, Requesting
  <2> HIDE DEF b
  <2>3. CASE Sent(b)
    <3>1. reply'.answer = NoAnswer /\ reply'.ret # "OK"
      BY <2>2, <2>3 DEF sendData, Returned
    <3> QED BY <1>2, <2>2, <3>1
  <2>4. CASE ~ Sent(b)
    <3>1. b.ret = "OK" => stage \in {"icDisc", "disc", "release"}
      BY <1>2, <2>1, <2>4 DEF CallFits, Reopens, Associates, Serves, Asking
    <3> QED BY <1>2, <2>2, <2>4, <3>1
  <2> QED BY <2>3, <2>4
<1>3. CASE Turn
  BY <1>3, TurnKeeps
<1> QED BY <1>1, <1>2, <1>3, StepKinds
-----------------------------------------------------------------------------
(* The program's turns.                                                    *)

(* The stages a stage may be followed by.                                  *)
Follows ==
  CASE stage = "open"    -> {"icHead", "head", "exit"}
    [] stage = "icHead"  -> {"icSnrm", "release"}
    [] stage = "icSnrm"  -> {"icAarq"}
    [] stage = "icAarq"  -> {"icRead", "release"}
    [] stage = "icRead"  -> {"icDisc", "release"}
    [] stage = "icDisc"  -> {"head"}
    [] stage = "head"    -> {"snrm", "release"}
    [] stage = "snrm"    -> {"aarq", "release"}
    [] stage = "aarq"    -> {"auth", "item", "release"}
    [] stage = "auth"    -> {"item", "release"}
    [] stage = "item"    -> {"item", "release"}
    [] stage = "release" -> {"disc"}
    [] OTHER             -> {"exit"}

Ending == {"release", "disc", "exit"}

(* A turn leads to one of them; com_close is entered early only with an    *)
(* error, and the objects are touched by their own loop only.              *)
LEMMA TurnLeads ==
  ASSUME IInv, Turn
  PROVE  /\ stage' \in Follows /\ stage # "exit"
         /\ phase = "back" \/ stage \in {"open", "icHead", "head"}
         /\ stage = "item" => (ReadBack /\ Reading) \/ (CommandBack /\ ~ Reading)
         /\ stage # "item" =>
              /\ UNCHANGED <<out, parse_stage, todo>>
              /\ stage' \in Ending => ret' # "OK" \/ (stage \in Ending /\ ret' = ret)
         /\ stage \in {"icAarq", "icRead", "snrm", "aarq", "auth"} /\ stage' # "release"
              => reply.ret = "OK"
         /\ stage = "aarq" => stage' # IF settings'.authentication = "HIGH_GMAC"
                                       THEN "item" ELSE "auth"
         /\ stage = "open" => stage' # IF isCiphered(settings) THEN "head" ELSE "icHead"
<1>1. CASE com_open
  BY <1>1 DEF com_open, At, Goto, Follows, Ending, connectionVars
<1>2. CASE IcHead \/ OpticalHead
  BY <1>2 DEF IcHead, OpticalHead, com_initializeOpticalHead, At, Goto, Quit, Follows, Ending,
              connectionVars
<1>3. CASE IcSnrmBack \/ IcDiscBack
  BY <1>3 DEF IcSnrmBack, IcDiscBack, Back, Goto, Follows, Ending
<1>4. CASE IcAarqBack \/ IcReadBack \/ SnrmBack \/ AarqBack \/ AuthBack
  BY <1>4 DEF IcAarqBack, IcReadBack, SnrmBack, AarqBack, AuthBack, Back, Proceed, Parsed,
              Digest, Goto, Quit, Follows, Ending
<1>5. CASE ReadBack
  BY <1>5 DEF ReadBack, NextObject, Follows
<1>6. CASE CommandBack
  BY <1>6 DEF CommandBack, Back, NextObject, Follows
<1>7. CASE ReleaseBack \/ DiscBack
  BY <1>7 DEF ReleaseBack, DiscBack, Back, Goto, Follows, Ending, connectionVars
<1> QED BY <1>1, <1>2, <1>3, <1>4, <1>5, <1>6, <1>7 DEF Turn

(* An AARE has no say in the addresses, the invoke id, the HDLC limits and *)
(* the link.                                                               *)
AareKeeps(s, t) ==
  /\ t.serverAddress = s.serverAddress /\ t.invokeID = s.invokeID
  /\ t.initializeMaxInfo = s.initializeMaxInfo /\ t.maxInfo = s.maxInfo
  /\ t.connected \in {s.connected, s.connected \cup {"DLMS"}}

(* Whatever it names; and only an accepting one associates.                *)
LEMMA AareSettings ==
  ASSUME NEW s \in Settings, NEW a \in Answers
  PROVE  LET t == cl_parseAAREResponse(s, a).settings
         IN AareKeeps(s, t) /\ (a.data # "aare" => t.connected = s.connected)
<1>1. PICK t : t = apdu_updateAuthentication(s, a)
  OBVIOUS
<1>2. t \in Settings /\ AareKeeps(s, t) /\ t.connected = s.connected
  <2>1. t \in Settings
    BY <1>1, MechanismNames
  <2>2. \E l : t = [s EXCEPT !.authentication = l]
    BY <1>1 DEF apdu_updateAuthentication
  <2> QED BY <2>1, <2>2 DEF AareKeeps, Settings
<1>3. PICK u : u = apdu_parseUserInformation(t, a)
  OBVIOUS
<1>4. /\ u.settings \in Settings /\ AareKeeps(t, u.settings)
      /\ u.settings.connected = t.connected
  <2>1. u.settings \in Settings
    BY <1>2, <1>3, ProtectionNames DEF Names
  <2>2. \/ u.settings = t
        \/ \E n : u.settings = [t EXCEPT !.maxPduSize = n]
        \/ \E p, n : u.settings = [t EXCEPT !.security = p, !.maxPduSize = n]
    BY <1>3 DEF apdu_parseUserInformation, Digest
  <2> QED BY <1>2, <2>1, <2>2 DEF AareKeeps, Settings
<1>5. PICK d : d = apdu_parsePDU(s, a)
  OBVIOUS
<1>6. d = u \/ d = Digest("REJECTED", t)
  BY <1>1, <1>3, <1>5 DEF apdu_parsePDU
<1>7. /\ d.settings \in Settings /\ AareKeeps(s, d.settings)
      /\ d.settings.connected = s.connected
      /\ d = [ret |-> d.ret, settings |-> d.settings]
  <2>1. u = [ret |-> u.ret, settings |-> u.settings]
    BY <1>3 DEF apdu_parseUserInformation, Digest
  <2> QED BY <1>2, <1>4, <1>6, <2>1 DEF AareKeeps, Digest
<1>8. AareKeeps(s, [d.settings EXCEPT !.connected = @ \cup {"DLMS"}])
  BY <1>7 DEF AareKeeps, Settings
<1>9. \/ cl_parseAAREResponse(s, a) = d
      \/ /\ a.data = "aare"
         /\ cl_parseAAREResponse(s, a) =
              [ret |-> d.ret, settings |-> [d.settings EXCEPT !.connected = @ \cup {"DLMS"}]]
  BY <1>5, <1>7 DEF cl_parseAAREResponse
<1> QED BY <1>7, <1>8, <1>9

(* What a turn makes of the settings.                                      *)
LEMMA TurnSettings ==
  ASSUME IInv, Turn
  PROVE  /\ settings'.serverAddress = settings.serverAddress
         /\ settings'.initializeMaxInfo = settings.initializeMaxInfo
         /\ stage # "disc" => settings'.invokeID = settings.invokeID
         /\ stage \notin {"icSnrm", "snrm"} => settings'.maxInfo = settings.maxInfo
         /\ stage \notin {"icSnrm", "snrm", "icAarq", "aarq", "auth"} =>
              settings'.connected = settings.connected
<1>1. settings \in Settings /\ reply.answer \in Answers
  BY DEF IInv, TypeOK
<1>2. CASE com_open \/ OpticalHead \/ ReleaseBack
  BY <1>2 DEF com_open, OpticalHead, ReleaseBack, connectionVars
<1>3. CASE ReadBack \/ CommandBack
  BY <1>3 DEF ReadBack, CommandBack, connectionVars
<1>4. CASE IcHead \/ IcDiscBack
  <2>1. \E i : settings' = Assume(settings, i) \/ settings' = settings
    BY <1>4 DEF IcHead, IcDiscBack, RestoreIdentity
  <2> QED BY <1>1, <2>1 DEF Assume, Settings
<1>5. CASE DiscBack
  BY <1>1, <1>5 DEF DiscBack, Back, cl_clear, Settings
<1>6. CASE IcSnrmBack \/ SnrmBack
  <2>1. \/ settings' = settings
        \/ settings' = LowerInfo(settings, reply.answer)
        \/ settings' = [LowerInfo(settings, reply.answer) EXCEPT !.connected = {"HDLC"}]
    BY <1>6 DEF IcSnrmBack, SnrmBack, Proceed, Parsed, Digest, cl_parseUAResponse
  <2>2. stage \in {"icSnrm", "snrm"}
    BY <1>6 DEF IcSnrmBack, SnrmBack, Back
  <2> QED BY <1>1, <2>1, <2>2 DEF LowerInfo, Settings
<1>7. CASE IcAarqBack \/ AarqBack
  <2>1. settings' = Parsed(cl_parseAAREResponse).settings /\ stage \in {"icAarq", "aarq"}
    BY <1>7 DEF IcAarqBack, AarqBack, Back, Proceed
  <2>2. AareKeeps(settings, settings')
    <3>1. CASE reply.ret = "OK"
      BY <1>1, <2>1, <3>1, AareSettings DEF Parsed
    <3>2. CASE reply.ret # "OK"
      BY <2>1, <3>2 DEF Parsed, Digest, AareKeeps
    <3> QED BY <3>1, <3>2
  <2> QED BY <2>1, <2>2 DEF AareKeeps
<1>8. CASE IcReadBack
  <2>1. settings' = Parsed(ReadCounter).settings /\ stage = "icRead"
    BY <1>8 DEF IcReadBack, Back, Proceed
  <2>2. \E n : settings' = settings \/ settings' = [settings EXCEPT !.invocationCounter = n]
    BY <2>1 DEF Parsed, Digest, ReadCounter
  <2> QED BY <1>1, <2>1, <2>2 DEF Settings
<1>9. CASE AuthBack
  <2>1. /\ settings' = Parsed(cl_parseApplicationAssociationResponse).settings
        /\ stage = "auth"
    BY <1>9 DEF AuthBack, Back, Proceed
  <2>2. \E n, c : settings' = [settings EXCEPT !.invocationCounter = n, !.connected = c]
    <3>1. /\ settings = [settings EXCEPT !.invocationCounter = settings.invocationCounter,
                                         !.connected = settings.connected]
          /\ \A c : [settings EXCEPT !.connected = c] =
                    [settings EXCEPT !.invocationCounter = settings.invocationCounter,
                                     !.connected = c]
          /\ \A c : [cip_encrypt(settings) EXCEPT !.connected = c] =
                    [settings EXCEPT !.invocationCounter = (settings.invocationCounter + 1) % IcMod,
                                     !.connected = c]
      BY <1>1 DEF Settings, cip_encrypt
    <3> QED BY <2>1, <3>1 DEF Parsed, Digest, cl_parseApplicationAssociationResponse
  <2> QED BY <1>1, <2>1, <2>2 DEF Settings
<1> QED BY <1>2, <1>3, <1>4, <1>5, <1>6, <1>7, <1>8, <1>9 DEF Turn

(* Only the high level reads the counter, and proves who it is: unless the *)
(* meter may ask others for a proof by the mechanism it names.             *)
HighStages ==
  /\ stage \in {"icHead", "icSnrm", "icAarq", "icRead", "icDisc"} => High
  /\ Namings = {} /\ stage = "auth" => High

(* A reply is an answer the library has looked at, or an error, or that    *)
(* nothing had to be sent to close a link or an association.               *)
Replied ==
  phase = "back" =>
    \/ /\ reply.answer = NoAnswer
       /\ reply.ret # "OK" \/ stage \in {"icDisc", "disc", "release"}
    \/ reply.answer.cmd # "none" /\ reply.ret = dlms_getPdu(settings, reply.answer)

(* No answer is empty.                                                     *)
Real == \A a \in OnLine : a.cmd # "none"

(* What every argument below rests on.                                     *)
Basic == IInv /\ TxFits /\ Public /\ HighStages /\ Replied /\ Real

(* The level is the one of the command line, until an AARE names another.  *)
LeveledStages ==
  {"open", "head", "snrm", "aarq"} \cup IF Namings = {} THEN {"auth", "item"} ELSE {}

(* The identity of the command line says which.                            *)
LEMMA LevelKept ==
  ASSUME IInv
  PROVE  /\ stage \in LeveledStages =>
              /\ isCiphered(settings) = High
              /\ (settings.authentication = "HIGH_GMAC") = High
         /\ stage \in {"icHead", "open", "head", "snrm", "aarq", "auth", "item"} =>
              settings.clientAddress = 111
BY DEF IInv, IdentityKept, ConfiguredIdentity, IdentityOf, Identity, isCiphered, High,
       LeveledStages

(* The facts every later invariant rests on hold at the start.             *)
LEMMA InitBasic == Init => Basic
<1> SUFFICES ASSUME Init PROVE Basic
  OBVIOUS
<1>1. OnLine = {}
  <2>1. \E c, r : meter = FreshMeter(c, r)
    BY DEF Init
  <2>2. meter.last = <<>> /\ line = <<>>
    BY <2>1 DEF FreshMeter, Init
  <2> QED BY <2>2 DEF OnLine, ToSet
<1>2. Real
  BY <1>1 DEF Real
<1> QED BY <1>2, InitIInv DEF Init, Basic, TxFits, Public, HighStages, Replied

(* Every step keeps them.                                                  *)
LEMMA NextBasic == ASSUME Basic, [Next]_vars PROVE Basic'
<1>1. IInv' /\ TxFits' /\ Public'
  BY NextIInv, NextTxFits, NextPublic DEF Basic
<1>2. HighStages'
  <2>1. CASE Idle
    BY <2>1, IdleKeeps DEF Basic, HighStages, High
  <2>2. CASE phase = "call" /\ stage \in Asking /\ Request(Call)
    BY <2>2, Requesting DEF Basic, HighStages, High
  <2>3. CASE Turn
    <3>1. args' = args
      BY <2>3, TurnKeeps DEF Basic
    <3>2. /\ stage' \in Follows
          /\ stage = "aarq" => stage' # IF settings'.authentication = "HIGH_GMAC"
                                        THEN "item" ELSE "auth"
          /\ stage = "open" => stage' # IF isCiphered(settings) THEN "head" ELSE "icHead"
      BY <2>3, TurnLeads DEF Basic
    <3>3. stage = "open" => isCiphered(settings) = High
      BY LevelKept DEF Basic, LeveledStages
    <3>4. CASE stage = "open"
      BY <3>1, <3>2, <3>3, <3>4 DEF HighStages, High, Follows
    <3>5. CASE stage = "aarq"
      <4>1. Namings = {} /\ stage' = "auth" => (settings'.authentication = "HIGH_GMAC") = High'
        BY <1>1 DEF IInv, IdentityKept, ConfiguredIdentity, Identity, High
      <4> QED BY <3>1, <3>2, <3>5, <4>1 DEF HighStages, High, Follows
    <3>6. CASE stage \notin {"open", "aarq"}
      BY <3>1, <3>2, <3>6 DEF Basic, HighStages, High, Follows
    <3> QED BY <3>4, <3>5, <3>6
  <2> QED BY <2>1, <2>2, <2>3, StepKinds
<1>3. Real'
  <2>1. Heard \/ Unheard \/ MeterRestarts
    BY Wire DEF Basic
  <2>2. \A a : AnswerFits(tx', meter', a) => a.cmd # "none"
    BY DEF AnswerFits
  <2> QED BY <2>1, <2>2, KnownSteps DEF Basic, Real
<1>4. Replied'
  <2>1. SUFFICES ASSUME phase' = "back" PROVE Replied'
    BY DEF Replied
  <2>2. CASE phase = "back"
    BY <2>1, <2>2, Replies DEF Basic, Replied
  <2>3. CASE /\ reply'.answer = NoAnswer
             /\ reply'.ret # "OK" \/ (phase = "call" /\ stage \in {"icDisc", "disc", "release"})
    BY <2>1, <2>3, Replies DEF Basic, Replied
  <2>4. CASE /\ phase = "wait" /\ line # <<>> /\ reply'.answer = Head(line)
             /\ reply'.ret = dlms_getPdu(settings, reply'.answer)
    <3>1. Head(line) \in ToSet(line)
      <4>1. 1 \in DOMAIN line /\ Head(line) = line[1]
        BY <2>4 DEF Basic, IInv, TypeOK
      <4> QED BY <4>1 DEF ToSet
    <3>2. settings' = settings
      BY <2>1, <2>4, Replies DEF Basic
    <3> QED BY <2>4, <3>1, <3>2 DEF Basic, Real, OnLine, Replied
  <2> QED BY <2>1, <2>2, <2>3, <2>4, Replies DEF Basic
<1> QED BY <1>1, <1>2, <1>3, <1>4 DEF Basic

(* What is read, and when.                                                 *)

Reported(item) == \E o \in out : o[1] = item

(* Exit status 0 for a serial number is only given once it was printed.    *)
SnKept ==
  args.item = "meter_sn" /\ ret = "OK" /\ stage \in Ending => Reported("meter_sn")

(* Every step keeps the serial number reported.                            *)
LEMMA NextSn == ASSUME Basic, SnKept, [Next]_vars PROVE SnKept'
<1>1. CASE Idle
  BY <1>1, IdleKeeps DEF SnKept, Reported
<1>2. CASE phase = "call" /\ stage \in Asking /\ Request(Call)
  BY <1>2, Requesting DEF Basic, SnKept, Reported
<1>3. CASE Turn
  <2>1. IInv /\ args' = args
    BY <1>3, TurnKeeps DEF Basic
  <2>2. CASE stage # "item"
    BY <1>3, <2>1, <2>2, TurnLeads DEF SnKept, Reported
  <2>3. CASE stage = "item" /\ ReadBack
    <3>1. SUFFICES ASSUME args.item = "meter_sn", ret' = "OK" PROVE Reported("meter_sn")'
      BY <2>1 DEF SnKept
    <3>2. parse_rx
      BY <2>3, <3>1 DEF ReadBack, NextObject, Readable
    <3>3. out' = out \cup {<<"meter_sn", ReadValue>>}
      BY <3>1, <3>2 DEF parse_rx
    <3> DEFINE o == <<"meter_sn", ReadValue>>
    <3>4. o[1] = "meter_sn" /\ o \in out'
      BY <3>3
    <3> HIDE DEF o
    <3> QED BY <3>4 DEF Reported
  <2>4. CASE stage = "item" /\ ~ Reading
    BY <2>1, <2>4 DEF SnKept, Reading
  <2> QED BY <1>3, <2>1, <2>2, <2>3, <2>4, TurnLeads
<1> QED BY <1>1, <1>2, <1>3, StepKinds

(* "100 - get meter sn": exit status 0 means that the number was printed,  *)
(* whatever the meter and the line did.                                    *)
THEOREM SerialNumberAlwaysReported == Spec => []SerialNumberReported
<1>1. Init => SnKept
  BY DEF Init, SnKept, Ending
<1>2. SnKept => SerialNumberReported
  BY DEF SnKept, SerialNumberReported, Reported, Ending
<1> QED BY <1>1, <1>2, InitBasic, NextBasic, NextSn, PTL DEF Spec

-----------------------------------------------------------------------------
(* Readings are of the object they are printed as.                         *)

Todo0 == ObjectsOf(args.item)
Done == IF todo = Todo0 THEN 0 ELSE 1
Own  == IF High THEN 1 ELSE 0

(* The objects left, and how far the energy item has come.                 *)
TodoKept ==
  /\ stage \notin {"item"} \cup Ending => todo = Todo0
  /\ stage = "item" => todo = Todo0 \/ (args.item = "energy" /\ todo = <<"energy">>)
  /\ parse_stage # 0 => todo # Todo0

(* The invoke id counts the requests since the AARQ.                       *)
Numbered ==
  /\ stage \in {"icAarq", "aarq"} /\ phase # "call" =>
       settings.invokeID = 0 \/ (phase = "back" /\ reply.ret # "OK")
  /\ stage \in {"icRead", "auth"} => settings.invokeID = Asked
  /\ stage = "item" => settings.invokeID = Own + Done + Asked

(* An answer in the clear with this invoke id is about that object. Above  *)
(* the low level only the counter is read in the clear.                    *)
Tells(id, object) ==
  IF High THEN id = 1
  ELSE \/ id = 1 /\ object = Head(Todo0)
       \/ id = 2 /\ args.item = "energy" /\ object = "energy"

Told(a) == a.cmd = "GET" /\ a.value # NoValue => Tells(a.id, a.value.object)

AllTold == \A a \in Known : Told(a)

(* The objects of an item are one, or the two of the energy reading.       *)
LEMMA TodoLengths ==
  ASSUME IInv
  PROVE  /\ args.item = "energy" => /\ Todo0 = <<"meter_sn", "energy">> /\ Len(Todo0) = 2
                                    /\ Tail(Todo0) = <<"energy">>
                                    /\ Head(Todo0) = "meter_sn"
         /\ args.item # "energy" => /\ Todo0 = <<args.item>> /\ Len(Todo0) = 1
                                    /\ Head(Todo0) = args.item
         /\ <<"energy">> # <<"meter_sn", "energy">>
         /\ Len(<<"energy">>) = 1 /\ Tail(<<"energy">>) = <<>> /\ Head(<<"energy">>) = "energy"
         /\ Tail(Todo0) # Todo0 /\ Tail(<<"energy">>) # Todo0
<1>1. args.item \in Items
  BY DEF IInv, TypeOK, CommandLines
<1>2. /\ Len(<<"energy">>) = 1 /\ Tail(<<"energy">>) = <<>> /\ Head(<<"energy">>) = "energy"
      /\ Len(<<"meter_sn", "energy">>) = 2 /\ Tail(<<"meter_sn", "energy">>) = <<"energy">>
      /\ Head(<<"meter_sn", "energy">>) = "meter_sn" /\ Len(<<>>) = 0
  OBVIOUS
<1>3. \A x : Len(<<x>>) = 1 /\ Head(<<x>>) = x /\ Tail(<<x>>) = <<>> /\ <<x>> # <<>>
  OBVIOUS
<1>4. CASE args.item = "energy"
  <2>1. Todo0 = <<"meter_sn", "energy">>
    BY <1>4 DEF Todo0, ObjectsOf
  <2> QED BY <1>2, <1>4, <2>1
<1>5. CASE args.item # "energy"
  <2>1. Todo0 = <<args.item>>
    BY <1>5 DEF Todo0, ObjectsOf
  <2>2. Len(Todo0) = 1 /\ Head(Todo0) = args.item /\ Tail(Todo0) # Todo0
        /\ <<>> # Todo0
    BY <1>3, <2>1
  <2>3. <<"energy">> # <<"meter_sn", "energy">>
    BY <1>2
  <2> QED BY <1>2, <1>5, <2>1, <2>2, <2>3
<1> QED BY <1>4, <1>5

(* Handling an object leaves one fewer.                                    *)
LEMMA NextTodoKept == ASSUME Basic, TodoKept, [Next]_vars PROVE TodoKept'
<1>1. CASE Idle
  BY <1>1, IdleKeeps DEF TodoKept, Todo0
<1>2. CASE phase = "call" /\ stage \in Asking /\ Request(Call)
  BY <1>2, Requesting DEF Basic, TodoKept, Todo0
<1>3. CASE Turn
  <2>1. IInv /\ args' = args /\ Todo0' = Todo0
    BY <1>3, TurnKeeps DEF Basic, Todo0
  <2>2. CASE stage # "item"
    <3>1. UNCHANGED <<parse_stage, todo>> /\ stage' \in Follows
      BY <1>3, <2>1, <2>2, TurnLeads
    <3> QED BY <2>1, <2>2, <3>1 DEF TodoKept, Follows, Ending
  <2>3. CASE stage = "item"
    <3>1. /\ todo' = Tail(todo) /\ stage' = IF Len(todo) = 1 THEN "release" ELSE "item"
      BY <1>3, <2>1, <2>3, TurnLeads DEF ReadBack, CommandBack, NextObject
    <3>2. parse_stage' = parse_stage \/ args.item = "energy"
      BY <1>3, <2>1, <2>3, TurnLeads
         DEF ReadBack, CommandBack, Back, connectionVars, parse_rx
    <3>3. todo' # Todo0
      BY <2>1, <2>3, <3>1, TodoLengths DEF TodoKept
    <3>4. stage' = "item" => args.item = "energy" /\ todo' = <<"energy">>
      BY <2>1, <2>3, <3>1, TodoLengths DEF TodoKept
    <3> QED BY <2>1, <3>1, <3>3, <3>4 DEF TodoKept, Ending
  <2> QED BY <2>2, <2>3
<1> QED BY <1>1, <1>2, <1>3, StepKinds

(* Small invoke ids are counted without wrapping.                          *)
LEMMA SmallIds == \A i \in 0..14 : (i + 1) % 16 = i + 1
OBVIOUS

(* Every request takes the next invoke id, and every turn keeps the count. *)
LEMMA NextNumbered ==
  ASSUME Namings = {}, Basic, TodoKept, Numbered, [Next]_vars PROVE Numbered'
<1>1. Own' = Own \/ args' # args
  BY DEF Own, High
<1>2. CASE Idle
  <2>1. /\ UNCHANGED <<args, stage, settings, todo>>
        /\ (phase' = "call") = (phase = "call")
        /\ phase = "back" => phase' = "back" /\ reply' = reply
    BY <1>2, IdleKeeps
  <2>2. Own' = Own /\ Done' = Done /\ Asked' = Asked
    BY <1>1, <2>1 DEF Done, Todo0, Asked
  <2> QED BY <2>1, <2>2 DEF Numbered
<1>3. CASE phase = "call" /\ stage \in Asking /\ Request(Call)
  <2> DEFINE b == Call
  <2>1. CallFits(b)
    BY <1>3, CallBuilt DEF Basic
  <2>2. /\ UNCHANGED <<args, stage, todo>> /\ phase' # "call" /\ settings' = b.settings
        /\ ~ Sent(b) => phase' = "back" /\ reply'.ret = b.ret
    BY <1>3, Requesting DEF Basic
  <2> HIDE DEF b
  <2>3. Own' = Own /\ Done' = Done /\ Asked' = 1 /\ Asked = 0
    BY <1>1, <1>3, <2>2 DEF Done, Todo0, Asked
  <2>4. CASE stage \in {"icAarq", "aarq"}
    BY <2>1, <2>2, <2>4 DEF CallFits, Associates, Sent, Numbered
  <2>5. CASE stage \in {"icRead", "auth"}
    <3>1. b.ret = "OK"
      BY <2>1, <2>5, LevelKept DEF CallFits, Serves, Basic, HighStages, High, LeveledStages
    <3>2. settings.invokeID = 0
      BY <2>3, <2>5 DEF Numbered
    <3>3. settings'.invokeID = 1
      BY <2>1, <2>2, <2>5, <3>1, <3>2, SmallIds DEF CallFits, Serves
    <3> QED BY <2>2, <2>3, <2>5, <3>3 DEF Numbered
  <2>6. CASE stage = "item"
    <3>1. b.ret = "OK"
      BY <2>1, <2>6 DEF CallFits, Serves
    <3>2. settings.invokeID = Own + Done /\ Own + Done \in 0..2
      BY <2>3, <2>6 DEF Numbered, Own, Done
    <3>3. settings'.invokeID = Own + Done + 1
      BY <2>1, <2>2, <2>6, <3>1, <3>2, SmallIds DEF CallFits, Serves
    <3> QED BY <2>2, <2>3, <2>6, <3>3 DEF Numbered
  <2>7. CASE stage \notin {"icAarq", "aarq", "icRead", "auth", "item"}
    BY <2>2, <2>7 DEF Numbered
  <2> QED BY <2>4, <2>5, <2>6, <2>7
<1>4. CASE Turn
  <2>1. IInv /\ args' = args /\ phase' = "call" /\ Asked' = 0
    BY <1>4, TurnKeeps DEF Basic, Asked
  <2>2. Own' = Own /\ Todo0' = Todo0
    BY <1>1, <2>1 DEF Todo0
  <2>3. /\ stage' \in Follows
        /\ phase = "back" \/ stage \in {"open", "icHead", "head"}
        /\ stage \in {"icAarq", "icRead", "snrm", "aarq", "auth"} /\ stage' # "release"
             => reply.ret = "OK"
        /\ stage = "aarq" => stage' # IF settings'.authentication = "HIGH_GMAC"
                                      THEN "item" ELSE "auth"
        /\ stage # "item" => todo' = todo
    BY <1>4, <2>1, TurnLeads
  <2>4. stage # "disc" => settings'.invokeID = settings.invokeID
    BY <1>4, <2>1, TurnSettings
  <2>5. CASE stage' \in {"icRead", "auth"}
    <3>1. stage \in {"icAarq", "aarq"} /\ phase # "call" /\ reply.ret = "OK"
      BY <2>3, <2>5 DEF Follows
    <3> QED BY <2>1, <2>4, <2>5, <3>1 DEF Numbered
  <2>6. CASE stage' = "item" /\ stage = "aarq"
    <3>1. ~ High /\ phase # "call" /\ reply.ret = "OK"
      <4>1. (settings.authentication = "HIGH_GMAC")' = High'
        BY <2>6, NextIInv DEF Basic, IInv, IdentityKept, ConfiguredIdentity, Identity, High
      <4>2. High' = High
        BY <2>1 DEF High
      <4> QED BY <2>1, <2>3, <2>6, <4>1, <4>2
    <3>2. Done' = 0 /\ Own = 0
      BY <2>2, <2>3, <2>6, <3>1 DEF Done, Own, TodoKept, Ending
    <3>3. settings'.invokeID = 0
      BY <2>4, <2>6, <3>1 DEF Numbered
    <3> QED BY <2>1, <2>2, <2>6, <3>2, <3>3 DEF Numbered
  <2>7. CASE stage' = "item" /\ stage = "auth"
    <3>1. High /\ Asked = 1
      BY <2>3, <2>7 DEF Basic, HighStages, Asked
    <3>2. Done' = 0 /\ Own = 1
      BY <2>2, <2>3, <2>7, <3>1 DEF Done, Own, TodoKept, Ending
    <3>3. settings'.invokeID = 1
      BY <2>4, <2>7, <3>1 DEF Numbered
    <3> QED BY <2>1, <2>2, <2>7, <3>2, <3>3 DEF Numbered
  <2>8. CASE stage' = "item" /\ stage = "item"
    <3>1. todo' = Tail(todo) /\ Len(todo) # 1 /\ Asked = 1
      BY <1>4, <2>1, <2>3, <2>8, TurnLeads DEF ReadBack, CommandBack, NextObject, Asked
    <3>2. Done = 0 /\ Done' = 1
      BY <2>1, <2>2, <2>8, <3>1, TodoLengths DEF Done, TodoKept
    <3>3. settings'.invokeID = Own + 1
      BY <2>4, <2>8, <3>1, <3>2 DEF Numbered, Own
    <3> QED BY <2>1, <2>2, <2>8, <3>2, <3>3 DEF Numbered, Own
  <2>9. CASE stage' \notin {"icRead", "auth", "item"}
    BY <2>1, <2>9 DEF Numbered
  <2> QED BY <2>3, <2>5, <2>6, <2>7, <2>8, <2>9 DEF Follows
<1> QED BY <1>2, <1>3, <1>4, StepKinds

(* Every read in the clear asks for what its invoke id stands for.         *)
LEMMA AsksTold ==
  ASSUME Namings = {}, Basic', Numbered', TodoKept', phase' # "call",
         Suits(tx, settings)', tx'.cmd = "GET", tx'.ics = {}
  PROVE  Tells(tx.id, tx.target)'
<1>1. /\ tx'.id = settings'.invokeID /\ (tx.cmd = CmdOf)'
      /\ ~ isCiphered(settings')
      /\ stage' = "icRead" => tx'.target = "ic"
      /\ stage' = "item" => tx'.target = Head(todo')
  BY DEF Suits, Services
<1>2. stage' \in {"icRead", "item"}
  BY <1>1 DEF CmdOf
<1>3. CASE stage' = "icRead"
  <2>1. High' /\ settings'.invokeID = 1
    BY <1>3 DEF Numbered, Asked, Basic, HighStages
  <2> QED BY <1>1, <2>1 DEF Tells
<1>4. CASE stage' = "item"
  <2>1. ~ High'
    <3>1. (isCiphered(settings) = High)'
      BY <1>4 DEF Basic, IInv, IdentityKept, ConfiguredIdentity, IdentityOf, Identity,
                  isCiphered, High
    <3> QED BY <1>1, <3>1
  <2>2. settings'.invokeID = Done' + 1
    BY <1>4, <2>1 DEF Numbered, Asked, Own, Done
  <2>3. CASE todo' = Todo0'
    BY <1>1, <1>4, <2>1, <2>2, <2>3 DEF Tells, Done
  <2>4. CASE todo' # Todo0'
    <3>1. args'.item = "energy" /\ todo' = <<"energy">>
      BY <1>4, <2>4 DEF TodoKept
    <3>2. Head(<<"energy">>) = "energy"
      OBVIOUS
    <3> QED BY <1>1, <1>4, <2>1, <2>2, <2>4, <3>1, <3>2 DEF Tells, Done
  <2> QED BY <2>3, <2>4
<1> QED BY <1>2, <1>3, <1>4

(* The command line never changes.                                         *)
LEMMA ArgsKept == ASSUME IInv, [Next]_vars PROVE args' = args
BY StepKinds, IdleKeeps, Requesting, TurnKeeps

(* So every answer in the clear is about what its invoke id stands for.    *)
LEMMA NextTold ==
  ASSUME Namings = {}, Basic, AllTold, [Next]_vars, Basic', Numbered', TodoKept'
  PROVE  AllTold'
<1>1. \A a : Told(a) => Told(a)'
  BY ArgsKept DEF Basic, Told, Tells, High, Todo0
<1>2. Told(NoAnswer)'
  BY DEF Told, NoAnswer, Answer
<1>3. ASSUME Heard, NEW a, AnswerFits(tx', meter', a) PROVE Told(a)'
  <2>1. SUFFICES ASSUME a.cmd = "GET", a.value # NoValue
                 PROVE  Tells(a.id, a.value.object)'
    BY DEF Told
  <2>2. /\ tx'.cmd = "GET" /\ tx'.ics = {} /\ a.id = tx'.id
        /\ a.value = Attribute(meter', tx'.target)
    BY <1>3, <2>1 DEF AnswerFits, Ciphered
  <2>3. a.value.object = tx'.target
    BY <2>2 DEF Attribute
  <2>4. Tells(tx.id, tx.target)'
    <3>1. phase' = "wait" /\ Suits(tx, settings)'
      BY <1>3 DEF Heard, Basic, TxFits
    <3> QED BY <2>2, <3>1, AsksTold
  <2> QED BY <2>2, <2>3, <2>4
<1>4. ASSUME NEW a \in Known' PROVE Told(a)'
  <2>1. Heard \/ Unheard \/ MeterRestarts
    BY Wire DEF Basic
  <2>2. CASE Heard
    BY <1>1, <1>2, <1>3, <1>4, <2>2, KnownSteps DEF Basic, AllTold, Known
  <2>3. CASE Unheard \/ MeterRestarts
    BY <1>1, <1>2, <1>4, <2>3, KnownSteps DEF Basic, AllTold, Known
  <2> QED BY <2>1, <2>2, <2>3
<1> QED BY <1>4 DEF AllTold

(* The invariant behind ReadingsGenuine.                                   *)
Genuine == TodoKept /\ Numbered /\ AllTold /\ ReadingsGenuine

(* Every step keeps the answers telling of what they answer.               *)
LEMMA NextGenuine ==
  ASSUME Namings = {}, Basic, Genuine, [Next]_vars PROVE Genuine'
<1>1. Basic' /\ TodoKept' /\ Numbered' /\ AllTold'
  BY NextBasic, NextTodoKept, NextNumbered, NextTold DEF Genuine
<1>2. ReadingsGenuine'
  <2>1. CASE out' = out
    BY <2>1 DEF Genuine, ReadingsGenuine
  <2>2. CASE Turn /\ stage = "item" /\ ReadBack /\ out' # out
    <3> DEFINE item == args.item
               a == reply.answer
    <3>1. /\ parse_rx /\ (ReadValue # NoValue \/ Head(todo) = "relay") /\ phase = "back"
      BY <2>2 DEF ReadBack, Printable
    <3>2. /\ item \in {"meter_sn", "energy", "relay"} /\ out' = out \cup {<<item, ReadValue>>}
          /\ item = "energy" => parse_stage # 0
      BY <2>2, <3>1 DEF parse_rx
    <3>3. SUFFICES ASSUME item \in {"meter_sn", "energy"} PROVE ReadValue.object = item
      <4> DEFINE o == <<item, ReadValue>>
      <4>1. o[1] = item /\ o[2] = ReadValue
        OBVIOUS
      <4>2. o[1] \in {"meter_sn", "energy"} => o[2].object = o[1]
        BY <3>3, <4>1
      <4>3. out' = out \cup {o}
        BY <3>2
      <4> HIDE DEF o
      <4> QED BY <4>2, <4>3 DEF Genuine, ReadingsGenuine
    <3>4. Head(todo) = item /\ (item = "energy" => Done = 1) /\ (item = "meter_sn" => Done = 0)
      BY <2>2, <3>2, <3>3, TodoLengths DEF Basic, Genuine, TodoKept, Done
    <3>5. ReadValue # NoValue
      BY <3>1, <3>3, <3>4
    <3>6. reply.ret = "OK" /\ a.cmd = "GET" /\ ReadValue = a.value /\ a.value # NoValue
      BY <3>5 DEF ReadValue, dlms_handleGetResponse
    <3>7. a.id = settings.invokeID
      BY <3>1, <3>6 DEF Basic, Replied, NoAnswer, Answer, dlms_getPdu, dlms_verifyInvokeId
    <3>8. a.id = Own + Done + 1
      BY <2>2, <3>1, <3>7 DEF Genuine, Numbered, Asked
    <3>9. Tells(a.id, a.value.object)
      BY <3>6 DEF Genuine, AllTold, Told, Known
    <3>10. ~ High
      BY <3>4, <3>8, <3>9 DEF Tells, Own, Done
    <3>11. a.value.object = item
      BY <3>3, <3>4, <3>8, <3>9, <3>10, TodoLengths DEF Tells, Own, Done, Basic
    <3> QED BY <3>6, <3>11
  <2>3. CASE Turn /\ ~ (stage = "item" /\ ReadBack)
    <3>1. out' = out
      BY <2>3, TurnLeads DEF Basic, CommandBack, Back
    <3> QED BY <2>1, <3>1
  <2>4. CASE Idle \/ (phase = "call" /\ stage \in Asking /\ Request(Call))
    <3>1. out' = out
      BY <2>4, IdleKeeps, Requesting DEF Basic
    <3> QED BY <2>1, <3>1
  <2> QED BY <2>1, <2>2, <2>3, <2>4, StepKinds
<1> QED BY <1>1, <1>2 DEF Genuine

(* Nothing has been asked or answered at the start.                        *)
LEMMA InitGenuine == Init => Genuine
<1> SUFFICES ASSUME Init PROVE Genuine
  OBVIOUS
<1>1. TodoKept /\ Numbered /\ ReadingsGenuine
  BY DEF Init, TodoKept, Todo0, Ending, Numbered, ReadingsGenuine
<1>2. OnLine = {}
  <2>1. \E c, r : meter = FreshMeter(c, r)
    BY DEF Init
  <2>2. meter.last = <<>> /\ line = <<>>
    BY <2>1 DEF FreshMeter, Init
  <2> QED BY <2>2 DEF OnLine, ToSet
<1>3. AllTold
  BY <1>2 DEF Init, AllTold, Known, Told, NoAnswer, Answer
<1> QED BY <1>1, <1>3 DEF Genuine

(* A serial number or an energy that is printed was read from that object, *)
(* whatever answers were lost, late or repeated on the line: the level     *)
(* being the configured one, no invoke id stands for two objects.          *)
THEOREM ReadingsAlwaysGenuine ==
  ASSUME Namings = {} PROVE Spec => []ReadingsGenuine
<1>1. Genuine => ReadingsGenuine
  BY DEF Genuine
<1>2. Basic /\ Genuine /\ [Next]_vars => Genuine'
  BY NextGenuine
<1> QED BY <1>1, <1>2, InitBasic, NextBasic, InitGenuine, PTL DEF Spec

-----------------------------------------------------------------------------
(* The association the client works in.                                    *)

LinkUp  == meter.link = 111 /\ meter.assoc = "client"

(* The stage that establishes the association, and the answer that does.   *)
Opening  == IF High THEN "auth" ELSE "aarq"
Proof(a) == a.data = IF High THEN "octets" ELSE "aare"

(* A meter that has given such an answer is in the association and does    *)
(* not handle the request again; a late answer of an earlier stage is      *)
(* never one. The low level is never asked to prove who it is.             *)
AssocKept ==
  /\ stage = "item" => LinkUp
  /\ \A a \in Known : Proof(a) =>
       /\ stage \in {Opening, "item"} \cup Ending
       /\ stage = Opening => phase # "call" /\ meter.received /\ LinkUp
  /\ ~ High => \A a \in Known : a.data # "authRequired"

(* A proof is only given in the stage that asks for it, by a meter that    *)
(* then is in the association.                                             *)
LEMMA NewProof ==
  ASSUME Namings = {}, Basic', Heard, NEW a \in Answers, AnswerFits(tx', meter', a)
  PROVE  /\ Proof(a)' => stage' = Opening' /\ meter'.received /\ LinkUp'
         /\ ~ High' => a.data # "authRequired"
<1>1. phase' = "wait" /\ Suits(tx, settings)' /\ meter'.received
  BY DEF Heard, AfterFits, Basic, TxFits
<1>2. /\ tx'.cmd = CmdOf' /\ tx'.address = settings'.clientAddress
      /\ tx'.cmd = "AARQ" => tx'.authentication = settings'.authentication
  BY <1>1 DEF Suits
<1>3. tx'.cmd \in {"AARQ", "AUTH"} => stage' \in {"icAarq", "aarq", "auth"}
  BY <1>2 DEF CmdOf
<1>4. /\ stage' \in {"icAarq", "auth"} => High'
      /\ stage' \in {"aarq", "auth"} => /\ settings'.clientAddress = 111
                                        /\ ~ High' => settings'.authentication = "NONE"
  BY DEF Basic, HighStages, IInv, IdentityKept, ConfiguredIdentity, IdentityOf, Identity, High
<1>5. (tx'.cmd = "AUTH" => stage' = "auth") /\ a.naming = AsAsked
  BY <1>2 DEF CmdOf, Answers
<1>6. CASE High'
  <2>1. SUFFICES ASSUME a.data = "octets" PROVE stage' = Opening' /\ LinkUp'
    BY <1>1, <1>6 DEF Proof
  <2>2. tx'.cmd = "AUTH" /\ meter'.assoc = "client" /\ meter'.link = tx'.address
    BY <2>1, MeterAssumption DEF AnswerFits
  <2> QED BY <1>2, <1>4, <1>5, <1>6, <2>2 DEF Opening, LinkUp
<1>7. CASE ~ High'
  <2>1. ASSUME a.data = "authRequired" PROVE FALSE
    <3>1. tx'.cmd = "AARQ" /\ tx'.authentication = "HIGH_GMAC"
      BY <1>5, <2>1, MeterAssumption DEF AnswerFits
    <3> QED BY <1>2, <1>3, <1>4, <1>7, <3>1
  <2>2. ASSUME a.data = "aare" PROVE stage' = Opening' /\ LinkUp'
    <3>1. /\ tx'.cmd = "AARQ" /\ meter'.link = tx'.address
          /\ meter'.assoc = IF tx'.address = 16 THEN "public" ELSE "client"
      BY <1>5, <2>2, MeterAssumption DEF AnswerFits
    <3>2. stage' = "aarq"
      BY <1>3, <1>4, <1>7, <3>1, <1>2 DEF CmdOf
    <3> QED BY <1>2, <1>4, <1>7, <3>1, <3>2 DEF Opening, LinkUp
  <2> QED BY <1>1, <1>7, <2>1, <2>2 DEF Proof
<1> QED BY <1>6, <1>7

(* A turn into the objects follows such an answer.                         *)
LEMMA TurnOpens ==
  ASSUME Namings = {}, Basic, AssocKept, Turn, stage' = "item", stage # "item", Basic'
  PROVE  stage = Opening /\ Proof(reply.answer)
<1>1. /\ stage \in {"aarq", "auth"}
      /\ stage = "aarq" => settings'.authentication # "HIGH_GMAC"
      /\ reply.ret = "OK"
  BY TurnLeads DEF Follows, Basic
<1>2. stage = "aarq" => ~ High
  <2>1. (settings.authentication = "HIGH_GMAC")' = High' /\ High' = High
    BY TurnKeeps DEF Basic, IInv, IdentityKept, ConfiguredIdentity, Identity, High
  <2> QED BY <1>1, <2>1
<1>3. CASE stage = "aarq"
  <2>1. AarqBack
    BY <1>1, <1>3 DEF Turn, com_open, IcHead, OpticalHead, IcSnrmBack, IcAarqBack, IcReadBack,
          IcDiscBack, SnrmBack, AuthBack, ReadBack, CommandBack, ReleaseBack, DiscBack, At, Back
  <2>2. Parsed(cl_parseAAREResponse).ret = "OK"
    BY <2>1 DEF AarqBack, Proceed, Goto, Quit
  <2>3. cl_parseAAREResponse(settings, reply.answer).ret = "OK"
    BY <1>1, <2>2 DEF Parsed
  <2>4. reply.answer.data \in {"aare", "authRequired"}
    <3>1. \/ reply.answer.data \in {"aare", "authRequired"}
          \/ apdu_parsePDU(settings, reply.answer).ret = "REJECTED"
      BY DEF apdu_parsePDU, Digest
    <3> QED BY <2>3, <3>1 DEF cl_parseAAREResponse
  <2> QED BY <1>2, <1>3, <2>4 DEF AssocKept, Known, Opening, Proof
<1>4. CASE stage = "auth"
  <2>1. AuthBack
    BY <1>1, <1>4 DEF Turn, com_open, IcHead, OpticalHead, IcSnrmBack, IcAarqBack, IcReadBack,
          IcDiscBack, SnrmBack, AarqBack, ReadBack, CommandBack, ReleaseBack, DiscBack, At, Back
  <2>2. Parsed(cl_parseApplicationAssociationResponse).ret = "OK"
    BY <2>1 DEF AuthBack, Proceed, Goto, Quit
  <2>3. cl_parseApplicationAssociationResponse(settings, reply.answer).ret = "OK"
    BY <1>1, <2>2 DEF Parsed
  <2>4. reply.answer.data = "octets"
    BY <2>3 DEF cl_parseApplicationAssociationResponse, Digest
  <2> QED BY <1>4, <2>4 DEF Basic, HighStages, Opening, Proof
<1> QED BY <1>1, <1>3, <1>4

(* Every step keeps what an accepting answer says of the meter.            *)
LEMMA NextAssoc ==
  ASSUME Namings = {}, ~ MeterRestarts, Basic, AssocKept, [Next]_vars PROVE AssocKept'
<1>1. Basic' /\ args' = args
  BY NextBasic, ArgsKept DEF Basic
<1>2. High' = High /\ Opening' = Opening /\ \A a : Proof(a)' = Proof(a)
  BY <1>1 DEF High, Opening, Proof
<1>3. Heard \/ Unheard
  BY Wire DEF Basic
<1>4. ~ Proof(NoAnswer) /\ NoAnswer.data # "authRequired"
  BY DEF Proof, NoAnswer, Answer
<1>5. \A a \in Known' : /\ a \in Answers
                        /\ a \in Known \cup {NoAnswer} \/ (Heard /\ AnswerFits(tx', meter', a))
  <2>1. Known' \subseteq Answers
    BY <1>1, KnownTyped DEF Basic
  <2> QED BY <1>3, <2>1, KnownSteps DEF Basic, Known
<1> DEFINE New(a) == /\ Proof(a)' => stage' = Opening' /\ meter'.received /\ LinkUp'
                     /\ ~ High' => a.data # "authRequired"
<1>10. ASSUME NEW a \in Known' PROVE a \in Known \cup {NoAnswer} \/ (Heard /\ New(a))
  <2>1. a \in Known \cup {NoAnswer} \/ (Heard /\ AnswerFits(tx', meter', a))
    BY <1>5
  <2>2. ASSUME Heard, AnswerFits(tx', meter', a) PROVE New(a)
    <3>1. a \in Answers
      BY <1>5
    <3> QED BY <1>1, <2>2, <3>1, NewProof
  <2> QED BY <2>1, <2>2
<1>6. ~ High => \A a \in Known' : a.data # "authRequired"
  BY <1>2, <1>4, <1>10 DEF AssocKept
<1>7. /\ Unheard => meter'.link = meter.link /\ meter'.assoc = meter.assoc
      /\ Unheard /\ phase # "call" => meter'.received = meter.received
  BY DEF Unheard
<1>8. CASE Idle \/ (phase = "call" /\ stage \in Asking /\ Request(Call))
  <2>1. /\ stage' = stage
        /\ phase # "call" => phase' # "call"
        /\ phase = "call" => Idle \/ phase' # "call"
    BY <1>8, IdleKeeps, Requesting DEF Basic
  <2>2. ASSUME stage = "item" PROVE LinkUp'
    <3>1. CASE Heard
      <4>1. tx'.cmd \in {"GET", "ACTION"} /\ Effects(meter, tx', meter')
        BY <1>1, <2>1, <2>2, <3>1 DEF Heard, Basic, TxFits, Suits, CmdOf
      <4> QED BY <2>2, <4>1 DEF Effects, AssocKept, LinkUp
    <3> QED BY <1>3, <1>7, <2>2, <3>1 DEF AssocKept, LinkUp
  <2>3. ASSUME NEW a \in Known, Proof(a)
        PROVE  /\ stage \in {Opening, "item"} \cup Ending
               /\ stage = Opening => phase' # "call" /\ meter'.received /\ LinkUp'
    <3>1. /\ stage \in {Opening, "item"} \cup Ending
          /\ stage = Opening => phase # "call" /\ meter.received /\ LinkUp
      BY <2>3 DEF AssocKept
    <3>2. stage = Opening => ~ Heard
      BY <3>1 DEF Heard
    <3> QED BY <1>3, <1>7, <2>1, <3>1, <3>2 DEF LinkUp
  <2>4. ASSUME NEW a \in Known', Proof(a)
        PROVE  /\ stage \in {Opening, "item"} \cup Ending
               /\ stage = Opening => phase' # "call" /\ meter'.received /\ LinkUp'
    <3>1. CASE a \in Known
      BY <2>3, <2>4, <3>1
    <3>2. CASE Heard /\ New(a)
      BY <1>2, <2>1, <2>4, <3>2 DEF Heard
    <3> QED BY <1>4, <1>10, <2>4, <3>1, <3>2
  <2> QED BY <1>2, <1>6, <2>1, <2>2, <2>4 DEF AssocKept
<1>9. CASE Turn
  <2>1. meter' = meter /\ phase' = "call" /\ stage' \in Follows /\ stage # "exit"
        /\ (phase = "back" \/ stage \in {"open", "icHead", "head"})
    BY <1>9, TurnKeeps, TurnLeads DEF Basic
  <2>2. ~ Heard
    BY <2>1 DEF Heard
  <2>3. stage' = "item" => LinkUp
    <3>1. stage' = "item" /\ stage # "item" => LinkUp
      BY <1>1, <1>9, TurnOpens DEF AssocKept, Known
    <3> QED BY <3>1 DEF AssocKept
  <2>4. \A a \in Known' : Proof(a) => stage' \in {"item"} \cup Ending
    <3>1. ASSUME NEW a \in Known, Proof(a) PROVE stage' \in {"item"} \cup Ending
      <4>1. stage \in {Opening, "item"} \cup Ending
        BY <3>1 DEF AssocKept
      <4>2. stage = "aarq" => stage' # "auth" \/ High
        BY <1>1, <1>2 DEF Basic, HighStages
      <4> QED BY <2>1, <4>1, <4>2 DEF Follows, Opening, Ending
    <3> QED BY <1>4, <1>5, <2>2, <3>1
  <2>5. Opening \notin {"item"} \cup Ending
    BY DEF Opening, Ending
  <2> QED BY <1>2, <1>6, <2>1, <2>3, <2>4, <2>5 DEF AssocKept, LinkUp
<1> QED BY <1>8, <1>9, StepKinds

(* At the start the program knows of no answer.                            *)
LEMMA InitKnown == Init => Known = {NoAnswer}
<1> SUFFICES ASSUME Init PROVE Known = {NoAnswer}
  OBVIOUS
<1>1. \E c, r : meter = FreshMeter(c, r)
  BY DEF Init
<1>2. meter.last = <<>> /\ line = <<>> /\ reply.answer = NoAnswer
  BY <1>1 DEF FreshMeter, Init
<1> QED BY <1>2 DEF Known, OnLine, ToSet

(* Nobody has been asked yet.                                              *)
LEMMA InitAssoc == Init => AssocKept
<1> SUFFICES ASSUME Init PROVE AssocKept
  OBVIOUS
<1>1. ~ Proof(NoAnswer) /\ NoAnswer.data # "authRequired"
  BY DEF Proof, NoAnswer, Answer
<1> QED BY <1>1, InitKnown DEF Init, AssocKept

(* Without restarts of the meter, the client handles its objects only in   *)
(* an association that the meter, too, takes to be established, whatever   *)
(* the line loses, damages or delays.                                      *)
THEOREM AssociationAlwaysAgreed ==
  ASSUME Namings = {}, Restarts = FALSE PROVE Spec => []AssociationAgreed
<1>1. AssocKept => AssociationAgreed
  BY DEF AssocKept, AssociationAgreed, LinkUp
<1>2. Init => AssocKept
  BY InitAssoc
<1>3. Basic /\ AssocKept /\ [Next]_vars => AssocKept'
  BY NextAssoc DEF MeterRestarts
<1> QED BY <1>1, <1>2, <1>3, InitBasic, NextBasic, PTL DEF Spec

-----------------------------------------------------------------------------
(* The HDLC parameters.                                                    *)

(* Only a UA opens the client's link, and only one with parameters does.   *)
LEMMA TurnLinks ==
  ASSUME IInv, Turn
  PROVE  /\ stage \notin {"icSnrm", "snrm"} =>
              ("HDLC" \in settings'.connected) = ("HDLC" \in settings.connected)
         /\ stage \in {"icSnrm", "snrm"} =>
              \/ settings' = settings /\ ~ (reply.ret = "OK" /\ reply.answer.data = "params")
              \/ /\ reply.ret = "OK" /\ reply.answer.data = "params"
                 /\ settings'.connected = {"HDLC"}
              \/ reply.answer.data = "malformed" /\ settings'.connected = settings.connected
<1>1. settings \in Settings /\ reply.answer \in Answers
  BY DEF IInv, TypeOK
<1>2. CASE stage \notin {"icSnrm", "snrm", "icAarq", "aarq", "auth"}
  BY <1>2, TurnSettings
<1>3. CASE stage \in {"icSnrm", "snrm"}
  <2> DEFINE a == reply.answer
             t == LowerInfo(settings, a)
  <2>1. settings' = Parsed(cl_parseUAResponse).settings
    BY <1>3 DEF Turn, com_open, IcHead, OpticalHead, IcSnrmBack, IcAarqBack, IcReadBack,
       IcDiscBack, SnrmBack, AarqBack, AuthBack, ReadBack, CommandBack, ReleaseBack, DiscBack,
       At, Back, Proceed
  <2>2. CASE reply.ret = "OK" /\ a.data = "params"
    <3>1. settings' = [t EXCEPT !.connected = {"HDLC"}]
      BY <2>1, <2>2 DEF Parsed, cl_parseUAResponse, Digest
    <3>2. settings'.connected = {"HDLC"}
      BY <1>1, <3>1 DEF Settings, LowerInfo
    <3> QED BY <1>3, <2>2, <3>2
  <2>3. CASE reply.ret = "OK" /\ a.data = "malformed"
    <3>1. settings' = t
      BY <2>1, <2>3 DEF Parsed, cl_parseUAResponse, Digest
    <3>2. settings'.connected = settings.connected
      BY <1>1, <3>1 DEF Settings, LowerInfo
    <3> QED BY <1>3, <2>3, <3>2
  <2>4. CASE ~ (reply.ret = "OK" /\ a.data \in {"params", "malformed"})
    <3>1. settings' = settings
      BY <2>1, <2>4 DEF Parsed, cl_parseUAResponse, Digest
    <3> QED BY <1>3, <2>4, <3>1
  <2> QED BY <2>2, <2>3, <2>4
<1>4. CASE stage \in {"icAarq", "aarq"}
  <2>1. settings' = Parsed(cl_parseAAREResponse).settings
    BY <1>4 DEF Turn, com_open, IcHead, OpticalHead, IcSnrmBack, IcAarqBack, IcReadBack,
       IcDiscBack, SnrmBack, AarqBack, AuthBack, ReadBack, CommandBack, ReleaseBack, DiscBack,
       At, Back, Proceed
  <2>2. CASE reply.ret = "OK"
    <3>1. AareKeeps(settings, settings')
      BY <1>1, <2>1, <2>2, AareSettings DEF Parsed
    <3> QED BY <1>4, <3>1 DEF AareKeeps
  <2>3. CASE reply.ret # "OK"
    BY <1>4, <2>1, <2>3 DEF Parsed, Digest
  <2> QED BY <2>2, <2>3
<1>5. CASE stage = "auth"
  <2>1. settings' = Parsed(cl_parseApplicationAssociationResponse).settings
    BY <1>5 DEF Turn, com_open, IcHead, OpticalHead, IcSnrmBack, IcAarqBack, IcReadBack,
       IcDiscBack, SnrmBack, AarqBack, AuthBack, ReadBack, CommandBack, ReleaseBack, DiscBack,
       At, Back, Proceed
  <2>2. \/ settings' = settings
        \/ \E t \in {settings, cip_encrypt(settings)} :
             \/ settings' = [t EXCEPT !.connected = @ \cup {"DLMS"}]
             \/ settings' = [t EXCEPT !.connected = @ \ {"DLMS"}]
    BY <2>1 DEF Parsed, Digest, cl_parseApplicationAssociationResponse
  <2>3. settings'.connected \in {settings.connected, settings.connected \cup {"DLMS"},
                                  settings.connected \ {"DLMS"}}
    BY <1>1, <2>2 DEF Settings, cip_encrypt
  <2> QED BY <1>5, <2>3
<1> QED BY <1>2, <1>3, <1>4, <1>5

(* What a UA lowered is put back with the DISC that closes the client's    *)
(* link, and nothing is lowered while the client has none: not even by the *)
(* fields before the one a UA is found wrong at.                           *)
InfoKept ==
  /\ settings.initializeMaxInfo = DefaultInfo
  /\ \/ stage \in {"open", "icHead", "icSnrm", "head", "snrm"}
     \/ stage = "icDisc" /\ phase # "call"
     => settings.maxInfo = DefaultInfo
  /\ stage \in {"icAarq", "icRead", "icDisc"} =>
       settings.maxInfo = DefaultInfo \/ "HDLC" \in settings.connected
  /\ \A a \in Known : a.data # "malformed"

(* Every request and every turn keeps them so.                             *)
LEMMA NextInfo ==
  ASSUME "malformed" \notin UaData, Basic, InfoKept, [Next]_vars PROVE InfoKept'
<1>1. \A a \in Known' : a.data # "malformed"
  <2>1. \A a : AnswerFits(tx', meter', a) => a.data # "malformed"
    BY MeterAssumption DEF AnswerFits
  <2>2. NoAnswer.data # "malformed"
    BY DEF NoAnswer, Answer
  <2>3. Heard \/ Unheard \/ MeterRestarts
    BY Wire DEF Basic
  <2> QED BY <2>1, <2>2, <2>3, KnownSteps DEF Basic, InfoKept, Known
<1>2. CASE Idle
  <2>1. /\ UNCHANGED <<stage, settings>>
        /\ phase' # "call" => phase # "call"
    BY <1>2, IdleKeeps
  <2> QED BY <1>1, <2>1 DEF InfoKept
<1>3. CASE phase = "call" /\ stage \in Asking /\ Request(Call)
  <2> DEFINE b == Call
  <2>1. CallFits(b) /\ settings' = b.settings /\ stage' = stage
    BY <1>3, CallBuilt, Requesting DEF Basic
  <2> HIDE DEF b
  <2>2. CASE stage \in {"icSnrm", "snrm"}
    BY <1>1, <2>1, <2>2 DEF CallFits, Reopens, InfoKept
  <2>3. CASE stage \in {"icAarq", "aarq"}
    BY <1>1, <2>1, <2>3 DEF CallFits, Associates, SameInfo, InfoKept
  <2>4. CASE stage \in {"icRead", "auth", "item"}
    BY <1>1, <2>1, <2>4 DEF CallFits, Serves, SameInfo, InfoKept
  <2>5. CASE stage = "release"
    BY <1>1, <2>1, <2>5 DEF CallFits, Releases, SameInfo, InfoKept
  <2>6. CASE stage \in {"icDisc", "disc"}
    BY <1>1, <2>1, <2>6 DEF CallFits, Disconnects, InfoKept
  <2> QED BY <1>3, <2>2, <2>3, <2>4, <2>5, <2>6 DEF Asking
<1>4. CASE Turn
  <2>1. /\ settings'.initializeMaxInfo = settings.initializeMaxInfo /\ phase' = "call"
        /\ stage \notin {"icSnrm", "snrm"} => settings'.maxInfo = settings.maxInfo
        /\ stage' \in Follows /\ (phase = "back" \/ stage \in {"open", "icHead", "head"})
    BY <1>4, TurnSettings, TurnKeeps, TurnLeads DEF Basic
  <2>2. /\ stage \notin {"icSnrm", "snrm"} =>
             ("HDLC" \in settings'.connected) = ("HDLC" \in settings.connected)
        /\ stage \in {"icSnrm", "snrm"} =>
             settings' = settings \/ settings'.connected = {"HDLC"}
    BY <1>4, TurnLinks DEF Basic, InfoKept, Known
  <2>3. CASE stage \in {"icSnrm", "snrm"}
    BY <1>1, <2>1, <2>2, <2>3 DEF InfoKept, Follows
  <2>4. CASE stage \notin {"icSnrm", "snrm"}
    BY <1>1, <2>1, <2>2, <2>4 DEF InfoKept, Follows
  <2> QED BY <2>3, <2>4
<1> QED BY <1>2, <1>3, <1>4, StepKinds

(* If every UA is well formed, the second link is opened with the HDLC     *)
(* parameters the program started with, whatever the UA of the first one   *)
(* lowered and however its exchanges failed.                               *)
THEOREM InfoAlwaysRestored ==
  ASSUME "malformed" \notin UaData PROVE Spec => []InfoRestored
<1>1. InfoKept => InfoRestored
  BY DEF InfoKept, InfoRestored, At
<1>2. Init => InfoKept
  <2> SUFFICES ASSUME Init PROVE InfoKept
    OBVIOUS
  <2>1. NoAnswer.data # "malformed"
    BY DEF NoAnswer, Answer
  <2> QED BY <2>1, InitKnown DEF Init, InfoKept, connectMeter, cl_init, Assume
<1>3. Basic /\ InfoKept /\ [Next]_vars => InfoKept'
  BY NextInfo
<1> QED BY <1>1, <1>2, <1>3, InitBasic, NextBasic, PTL DEF Spec

-----------------------------------------------------------------------------
(* The relay commands of the high level.                                   *)

Switching == High /\ ~ Reading

Protects(a) == a.cmd = "GLO_ACTION"

(* On the line, whatever follows the proof is its repetition.              *)
Ordered(s) == \A i, j \in DOMAIN s : i < j /\ Proof(s[i]) => Protects(s[j])

(* The answer to a relay command cannot be mistaken: the only other        *)
(* answers around are copies of the meter's proof, which have the first    *)
(* invoke id; the answer that counts says where the relay is.              *)
RelayKept ==
  /\ stage \notin {"auth", "item"} \cup Ending => \A a \in Known : ~ Protects(a)
  /\ stage = "auth" =>
       /\ \A a \in Known : Protects(a) => a.id = 1
       /\ (\E a \in Known : Proof(a)) => \A a \in ToSet(meter.last) : Protects(a)
       /\ Ordered(line)
       /\ Proof(reply.answer) => phase = "back" /\ \A a \in ToSet(line) : Protects(a)
  /\ stage = "item" =>
       /\ \A a \in OnLine : /\ Protects(a)
                            /\ a.id # 1 /\ a.result = "OK" => meter.relay = Commanded
       /\ phase = "back" /\ reply.ret = "OK" => meter.relay = Commanded
  /\ stage \in Ending /\ ret = "OK" => meter.relay = Commanded

(* Order survives reading the line and adding to it.                       *)
LEMMA OrderKept ==
  ASSUME NEW s \in Seq(Answers), NEW t \in Seq(Answers)
  PROVE  /\ Ordered(s) /\ Rest(s, t) => Ordered(t)
         /\ Ordered(s) /\ (\A a \in ToSet(t) : Protects(a)) => Ordered(s \o t)
         /\ (\A a \in ToSet(s) : ~ Proof(a)) /\ Len(t) \in {0, 1} => Ordered(s \o t)
         /\ s # <<>> /\ Ordered(s) /\ Proof(Head(s)) =>
              \A a \in ToSet(Tail(s)) : Protects(a)
<1>1. /\ Len(s) \in Nat /\ Len(t) \in Nat /\ DOMAIN s = 1..Len(s) /\ DOMAIN t = 1..Len(t)
  BY LenProperties
<1>2. ASSUME Ordered(s), Rest(s, t) PROVE Ordered(t)
  <2>1. PICK k \in Nat : Len(t) + k = Len(s) /\ \A i \in 1..Len(t) : t[i] = s[i + k]
    BY <1>2 DEF Rest
  <2>2. ASSUME NEW i \in DOMAIN t, NEW j \in DOMAIN t, i < j, Proof(t[i]) PROVE Protects(t[j])
    <3>1. i + k \in DOMAIN s /\ j + k \in DOMAIN s /\ i + k < j + k
      BY <1>1, <2>1, <2>2
    <3>2. t[i] = s[i + k] /\ t[j] = s[j + k]
      BY <1>1, <2>1, <2>2
    <3> QED BY <1>2, <2>2, <3>1, <3>2 DEF Ordered
  <2> QED BY <2>2 DEF Ordered
<1> DEFINE u == s \o t
<1>3. /\ DOMAIN u = 1..(Len(s) + Len(t))
      /\ \A i \in 1..(Len(s) + Len(t)) : u[i] = IF i <= Len(s) THEN s[i] ELSE t[i - Len(s)]
  <2>1. u \in Seq(Answers) /\ Len(u) = Len(s) + Len(t)
    BY ConcatProperties
  <2>2. DOMAIN u = 1..Len(u)
    BY <2>1, LenProperties
  <2> QED BY <2>1, <2>2, ConcatProperties
<1> HIDE DEF u
<1>4. \A j \in DOMAIN u : /\ j <= Len(s) => j \in DOMAIN s /\ u[j] = s[j]
                          /\ ~ (j <= Len(s)) => j - Len(s) \in DOMAIN t /\ u[j] = t[j - Len(s)]
  BY <1>1, <1>3
<1>5. ASSUME Ordered(s), \A a \in ToSet(t) : Protects(a) PROVE Ordered(u)
  <2>1. ASSUME NEW i \in DOMAIN u, NEW j \in DOMAIN u, i < j, Proof(u[i]) PROVE Protects(u[j])
    <3>1. CASE j <= Len(s)
      <4>1. i <= Len(s)
        BY <1>1, <1>3, <2>1, <3>1
      <4>2. i \in DOMAIN s /\ j \in DOMAIN s /\ u[i] = s[i] /\ u[j] = s[j]
        BY <1>4, <3>1, <4>1
      <4> QED BY <1>5, <2>1, <4>2 DEF Ordered
    <3>2. CASE ~ (j <= Len(s))
      BY <1>4, <1>5, <3>2 DEF ToSet
    <3> QED BY <3>1, <3>2
  <2> QED BY <2>1 DEF Ordered
<1>6. ASSUME \A a \in ToSet(s) : ~ Proof(a), Len(t) \in {0, 1} PROVE Ordered(u)
  <2>1. ASSUME NEW i \in DOMAIN u, NEW j \in DOMAIN u, i < j, Proof(u[i]) PROVE FALSE
    <3>1. i <= Len(s)
      BY <1>1, <1>3, <1>6, <2>1
    <3> QED BY <1>4, <1>6, <2>1, <3>1 DEF ToSet
  <2> QED BY <2>1 DEF Ordered
<1>7. ASSUME s # <<>>, Ordered(s), Proof(Head(s)) PROVE \A a \in ToSet(Tail(s)) : Protects(a)
  <2> DEFINE r == Tail(s)
  <2>1. /\ r \in Seq(Answers) /\ Len(r) = Len(s) - 1 /\ Head(s) = s[1]
        /\ \A i \in 1..Len(r) : r[i] = s[i + 1]
    BY <1>7, HeadTailProperties
  <2>2. DOMAIN r = 1..Len(r)
    BY <2>1, LenProperties
  <2> HIDE DEF r
  <2>3. ASSUME NEW i \in DOMAIN r PROVE Protects(r[i])
    <3>1. i + 1 \in DOMAIN s /\ 1 \in DOMAIN s /\ 1 < i + 1 /\ r[i] = s[i + 1]
      BY <1>1, <2>1, <2>2, <2>3
    <3> QED BY <1>7, <2>1, <3>1 DEF Ordered
  <2> QED BY <2>3 DEF ToSet, r
<1> QED BY <1>2, <1>5, <1>6, <1>7 DEF u

(* The answer to a request of the high level's own stages.                 *)
LEMMA NewProtected ==
  ASSUME Namings = {}, Exceptions = FALSE, Switching', Basic', Numbered', TodoKept', AssocKept', Heard,
         NEW a, AnswerFits(tx', meter', a)
  PROVE  /\ Protects(a) => stage' \in {"auth", "item"}
         /\ stage' = "auth" => /\ Protects(a) => a.id = 1
                               /\ Proof(a)' => Protects(a)
         /\ stage' = "item" => /\ Protects(a)
                               /\ a.result = "OK" => meter'.relay = Commanded'
<1>1. phase' = "wait" /\ Suits(tx, settings)'
  BY DEF Heard, Basic, TxFits
<1>2. /\ (tx.cmd = CmdOf)' /\ tx'.address = settings'.clientAddress
      /\ tx'.cmd \in Services => tx'.id = settings'.invokeID
      /\ tx'.cmd \in Services => (tx'.ics = {}) = (~ isCiphered(settings'))
      /\ stage' = "item" => tx'.target = Head(todo')
  BY <1>1 DEF Suits
<1>3. /\ Protects(a) => tx'.cmd \in {"AUTH", "ACTION"}
      /\ Proof(a)' /\ High' => Protects(a)
  BY MeterAssumption DEF AnswerFits, Protects, Proof
<1>4. Protects(a) => stage' \in {"auth", "item"}
  BY <1>2, <1>3 DEF CmdOf
<1>5. ASSUME stage' = "auth", Protects(a) PROVE a.id = 1
  <2>1. a.id = tx'.id /\ tx'.id = settings'.invokeID
    BY <1>2, <1>3, <1>5 DEF AnswerFits, Protects, Services
  <2>2. settings'.invokeID = 1
    BY <1>1, <1>5 DEF Numbered, Asked
  <2> QED BY <2>1, <2>2
<1>6. ASSUME stage' = "item"
      PROVE  Protects(a) /\ (a.result = "OK" => meter'.relay = Commanded')
  <2>1. tx'.cmd = "ACTION" /\ tx'.ics # {}
    <3>1. tx'.cmd = "ACTION"
      BY <1>2, <1>6 DEF CmdOf, Switching
    <3>2. isCiphered(settings')
      BY <1>6 DEF Basic, IInv, IdentityKept, ConfiguredIdentity, IdentityOf, Identity,
                  isCiphered, Switching, High
    <3> QED BY <1>2, <3>1, <3>2 DEF Services
  <2>2. settings'.clientAddress = 111 /\ meter'.link = 111
    BY <1>6 DEF Basic, IInv, IdentityKept, ConfiguredIdentity, IdentityOf, Identity,
                AssocKept, LinkUp
  <2>3. tx'.target = args'.item
    <3>1. args'.item # "energy" /\ args'.item \in Items
      BY DEF Switching, Reading, Basic, IInv, TypeOK, CommandLines
    <3>2. todo' = <<args'.item>>
      BY <1>6, <3>1 DEF TodoKept, Todo0, ObjectsOf
    <3>3. Head(todo') = args'.item
      BY <3>2
    <3> QED BY <1>2, <1>6, <3>3
  <2> QED BY <1>2, <2>1, <2>2, <2>3 DEF AnswerFits, Protects, Ciphered, Commanded
<1> QED BY <1>3, <1>4, <1>5, <1>6 DEF Switching

(* Every step keeps the answers told apart.                                *)
LEMMA NextRelay ==
  ASSUME Namings = {}, Restarts = FALSE, Exceptions = FALSE, Switching,
         Basic, Genuine, AssocKept, RelayKept, [Next]_vars
  PROVE  RelayKept'
<1>1. /\ args' = args /\ Basic' /\ AssocKept' /\ Numbered' /\ TodoKept'
      /\ Heard \/ Unheard
      /\ Todo0' = Todo0
  BY ArgsKept, NextBasic, NextAssoc, NextGenuine, Wire
     DEF Basic, Genuine, MeterRestarts, Todo0
<1>2. /\ Switching' /\ Commanded' = Commanded /\ \A a : Proof(a)' = Proof(a)
      /\ Ordered(line') = Ordered(line)'
  BY <1>1 DEF Switching, High, Reading, Commanded, Proof, Ordered
<1>3. /\ line \in Seq(Answers) /\ line' \in Seq(Answers) /\ meter'.last \in Seq(Answers)
      /\ meter.last \in Seq(Answers)
  BY <1>1 DEF Basic, IInv, TypeOK, Meters
<1>4. ~ Protects(NoAnswer) /\ ~ Proof(NoAnswer)
  BY DEF NoAnswer, Answer, Protects, Proof
<1>5. \A a \in OnLine' : a \in OnLine \/ (Heard /\ AnswerFits(tx', meter', a))
  BY <1>1, KnownSteps DEF Basic
<1>6. \A a \in Known' : a \in Known \cup {NoAnswer} \/ (Heard /\ AnswerFits(tx', meter', a))
  BY <1>1, <1>5, KnownSteps DEF Basic, Known
<1>7. OnLine \subseteq Known /\ reply.answer \in Known
  BY DEF Known
<1> DEFINE Before == \A a \in Known' : ~ Protects(a)
<1>8. CASE Turn
  <2>1. /\ stage' \in Follows /\ phase' = "call" /\ meter' = meter /\ reply' = reply
        /\ stage # "exit"
    BY <1>8, TurnKeeps, TurnLeads DEF Basic
  <2>2. ~ Heard /\ \A a \in Known' : a \in Known \cup {NoAnswer}
    BY <1>6, <2>1 DEF Heard
  <2>3. CASE stage \notin {"auth", "item"} \cup Ending
    <3>1. Before
      BY <1>4, <2>2, <2>3 DEF RelayKept
    <3>2. stage' # "item"
      BY <1>1, <1>8, <2>1, <2>3, TurnOpens DEF Basic, Opening, Switching
    <3>3. stage' \in Ending => ret' # "OK"
      BY <1>8, <2>3, TurnLeads DEF Basic, Ending
    <3>4. \A a \in Known' : ~ Proof(a)
      <4>1. \A a \in Known : ~ Proof(a)
        BY <2>3 DEF AssocKept, Opening, Switching
      <4> QED BY <1>4, <2>2, <4>1
    <3>5. Ordered(line')
      <4>1. \A i \in DOMAIN line' : line'[i] \in Known'
        BY DEF Known, OnLine, ToSet
      <4> QED BY <3>4, <4>1 DEF Ordered
    <3>6. reply'.answer \in Known'
      BY DEF Known
    <3> QED BY <1>2, <3>1, <3>2, <3>3, <3>4, <3>5, <3>6 DEF RelayKept
  <2>4. CASE stage = "auth"
    <3>1. stage' \in {"item", "release"} /\ (stage' = "release" => ret' # "OK")
      BY <1>8, <2>1, <2>4, TurnLeads DEF Basic, Follows, Ending
    <3>2. CASE stage' = "item"
      <4>1. Proof(reply.answer)
        BY <1>1, <1>8, <2>4, <3>2, TurnOpens
      <4>2. \A a \in OnLine : Protects(a) /\ a.id = 1
        BY <1>7, <2>4, <4>1 DEF RelayKept, OnLine
      <4>3. \A a \in OnLine' : Protects(a) /\ a.id = 1
        BY <1>5, <2>2, <4>2
      <4> QED BY <2>1, <3>2, <4>3 DEF RelayKept, Ending
    <3> QED BY <3>1, <3>2 DEF RelayKept, Ending
  <2>5. CASE stage = "item"
    <3>1. CommandBack
      BY <1>8, <2>5, TurnLeads DEF Basic, Switching
    <3>2. todo = <<args.item>> /\ Len(<<args.item>>) = 1
      <4>1. args.item # "energy"
        BY DEF Switching, Reading
      <4> QED BY <2>5, <4>1 DEF Genuine, TodoKept, Todo0, ObjectsOf
    <3>3. stage' = "release" /\ ret' = reply.ret /\ phase = "back"
      BY <3>1, <3>2 DEF CommandBack, Back, NextObject
    <3> QED BY <1>2, <2>1, <2>5, <3>3 DEF RelayKept, Ending
  <2>6. CASE stage \in Ending
    <3>1. ret' = ret \/ ret' # "OK"
      BY <1>8, <2>1, <2>6, TurnLeads DEF Basic, Ending, Follows
    <3> QED BY <1>2, <2>1, <2>6, <3>1 DEF RelayKept, Ending, Follows
  <2> QED BY <2>3, <2>4, <2>5, <2>6
<1>9. CASE Idle \/ (phase = "call" /\ stage \in Asking /\ Request(Call))
  <2>1. /\ stage' = stage /\ ret' = ret
        /\ phase = "call" => Idle \/ phase' # "call"
        /\ phase = "back" => phase' = "back" /\ UNCHANGED <<reply, line, meter>>
    BY <1>9, IdleKeeps, Requesting DEF Basic
  <2>2. CASE stage \notin {"auth", "item"} \cup Ending
    <3>1. Before
      BY <1>1, <1>2, <1>4, <1>6, <2>1, <2>2, NewProtected DEF RelayKept
    <3> QED BY <2>1, <2>2, <3>1 DEF RelayKept
  <2>3. CASE stage \in Ending
    <3>1. meter'.relay = meter.relay
      <4>1. CASE Heard
        <5>1. tx'.cmd # "ACTION"
          BY <1>1, <2>1, <2>3, <4>1 DEF Heard, Basic, TxFits, Suits, CmdOf, Ending
        <5> QED BY <4>1, <5>1 DEF Heard, Effects
      <4> QED BY <1>1, <4>1 DEF Unheard
    <3> QED BY <1>2, <2>1, <2>3, <3>1 DEF RelayKept, Ending
  <2>4. CASE stage = "item"
    <3>1. ASSUME NEW a \in OnLine, a.id # 1, a.result = "OK" PROVE meter'.relay = Commanded
      <4>1. meter.relay = Commanded
        BY <2>4, <3>1 DEF RelayKept
      <4>2. CASE Heard
        <5>1. tx'.target = args.item
          <6>1. args.item # "energy"
            BY DEF Switching, Reading
          <6>2. todo' = <<args.item>> /\ Head(<<args.item>>) = args.item
            BY <1>1, <2>1, <2>4, <6>1 DEF TodoKept, Todo0, ObjectsOf
          <6> QED BY <1>1, <2>1, <2>4, <4>2, <6>2 DEF Heard, Basic, TxFits, Suits
        <5> QED BY <4>1, <4>2, <5>1 DEF Heard, Effects, Commanded
      <4> QED BY <1>1, <4>1, <4>2 DEF Unheard
    <3>2. \A a \in OnLine' : /\ Protects(a)
                             /\ a.id # 1 /\ a.result = "OK" => meter'.relay = Commanded
      BY <1>1, <1>2, <1>5, <2>1, <2>4, <3>1, NewProtected DEF RelayKept
    <3>3. ASSUME phase' = "back", reply'.ret = "OK" PROVE meter'.relay = Commanded
      <4>1. CASE phase = "back"
        BY <2>1, <2>4, <3>3, <4>1 DEF RelayKept
      <4>2. CASE /\ phase = "wait" /\ line # <<>> /\ reply'.answer = Head(line)
                 /\ reply'.ret = dlms_getPdu(settings, reply'.answer) /\ meter' = meter
        <5>1. Head(line) \in OnLine
          <6>1. 1 \in DOMAIN line /\ Head(line) = line[1]
            BY <1>3, <4>2
          <6> QED BY <6>1 DEF OnLine, ToSet
        <5>2. settings.invokeID = 2
          <6>1. todo = Todo0
            BY <2>4 DEF Genuine, TodoKept, Switching, Reading
          <6> QED BY <2>4, <4>2, <6>1 DEF Genuine, Numbered, Asked, Done, Own, Switching
        <5>3. /\ Protects(Head(line))
              /\ dlms_getPdu(settings, Head(line)) = "OK"
          BY <2>4, <3>3, <4>2, <5>1 DEF RelayKept
        <5>4. Head(line).id = 2 /\ Head(line).result = "OK"
          BY <5>2, <5>3 DEF Protects, dlms_getPdu, dlms_verifyInvokeId
        <5> QED BY <2>4, <4>2, <5>1, <5>4 DEF RelayKept
      <4> QED BY <2>4, <3>3, <4>1, <4>2, Replies DEF Basic
    <3> QED BY <1>2, <2>1, <2>4, <3>2, <3>3 DEF RelayKept, Ending
  <2>5. CASE stage = "auth"
    <3>1. \A a \in Known' : Protects(a) => a.id = 1
      BY <1>1, <1>2, <1>4, <1>6, <2>1, <2>5, NewProtected DEF RelayKept
    <3>2. ASSUME Heard
          PROVE  /\ \A a \in Known : ~ Proof(a)
                 /\ (\E a \in Known' : Proof(a)) => \A a \in ToSet(meter'.last) : Protects(a)
                 /\ Ordered(line') /\ ~ Proof(reply'.answer)
      <4>1. \A a \in Known : ~ Proof(a)
        BY <2>5, <3>2 DEF AssocKept, Heard, Opening, Switching
      <4>2. \A a : AnswerFits(tx', meter', a) /\ Proof(a) => Protects(a)
        BY <1>1, <1>2, <2>1, <2>5, <3>2, NewProtected
      <4>3. ToSet(meter'.last) = {} \/ \E b : /\ meter'.last = <<b>>
                                              /\ ToSet(meter'.last) = {b}
        BY <3>2 DEF Heard, AfterFits, ToSet
      <4>4. \A a \in Known' : Proof(a) => a \in ToSet(meter'.last)
        <5>1. OnLine' \subseteq OnLine \cup ToSet(meter'.last) /\ reply'.answer = reply.answer
          BY <3>2, KnownSteps DEF Basic, Heard
        <5> QED BY <1>7, <4>1, <5>1 DEF Known
      <4>5. Len(meter'.last) \in {0, 1}
        <5>1. Len(<<>>) = 0 /\ \A b : Len(<<b>>) = 1
          OBVIOUS
        <5>2. meter'.last = <<>> \/ \E b : meter'.last = <<b>>
          BY <3>2 DEF Heard, AfterFits
        <5> QED BY <5>1, <5>2
      <4>6. Ordered(line')
        <5>1. \A a \in ToSet(line) : ~ Proof(a)
          BY <4>1 DEF Known, OnLine
        <5> QED BY <1>3, <2>5, <3>2, <4>5, <5>1, OrderKept DEF Heard, RelayKept
      <4>7. (\E a \in Known' : Proof(a)) => \A a \in ToSet(meter'.last) : Protects(a)
        <5>1. \A a \in ToSet(meter'.last) : AnswerFits(tx', meter', a)
          BY <3>2, KnownSteps DEF Basic
        <5> QED BY <4>2, <4>3, <4>4, <5>1
      <4> QED BY <1>7, <3>2, <4>1, <4>6, <4>7 DEF Heard
    <3>3. ASSUME Unheard
          PROVE  /\ (\E a \in Known' : Proof(a)) => \A a \in ToSet(meter'.last) : Protects(a)
                 /\ Ordered(line')
      <4>1. ToSet(meter'.last) \subseteq ToSet(meter.last)
        <5>1. ToSet(<<>>) = {}
          BY DEF ToSet
        <5> QED BY <3>3, <5>1 DEF Unheard
      <4>2. (\E a \in Known' : Proof(a)) => \E a \in Known : Proof(a)
        BY <1>4, <3>3, KnownSteps DEF Basic, Known
      <4>3. (\E a \in Known' : Proof(a)) => \A a \in ToSet(meter'.last) : Protects(a)
        BY <2>5, <4>1, <4>2 DEF RelayKept
      <4>4. CASE \E a \in Known' : Proof(a)
        BY <1>3, <2>5, <3>3, <4>3, <4>4, OrderKept DEF Unheard, RelayKept
      <4>5. CASE ~ \E a \in Known' : Proof(a)
        <5>1. \A i \in DOMAIN line' : line'[i] \in Known'
          BY DEF Known, OnLine, ToSet
        <5> QED BY <4>5, <5>1 DEF Ordered
      <4> QED BY <4>3, <4>4, <4>5
    <3>4. ASSUME Proof(reply'.answer)
          PROVE  phase' = "back" /\ \A a \in ToSet(line') : Protects(a)
      <4>1. CASE reply' = reply
        BY <2>1, <2>5, <3>4, <4>1 DEF RelayKept
      <4>2. CASE reply' # reply
        <5>1. phase' = "back"
          BY <1>9, <4>2, Requesting
             DEF Basic, Idle, Exchange, Resend, ResendLate, GiveUp, Receive, Corrupt,
                 ReadFails, HangUp, Poll, Spin, Waiting, sendData, Returned, MeterRestarts, vars, lineVars
        <5>2. /\ phase = "wait" /\ line # <<>> /\ reply'.answer = Head(line)
              /\ line' \in Suffixes(Tail(line))
          BY <1>4, <3>4, <4>2, <5>1, Replies DEF Basic
        <5>3. Tail(line) \in Seq(Answers) /\ \A a \in ToSet(Tail(line)) : Protects(a)
          BY <1>3, <2>5, <3>4, <5>2, OrderKept DEF RelayKept
        <5>4. ToSet(line') \subseteq ToSet(Tail(line))
          <6>1. Rest(Tail(line), line')
            BY <5>2, <5>3, RestOf
          <6> QED BY <1>3, <5>3, <6>1, RestHolds
        <5> QED BY <5>1, <5>3, <5>4
      <4> QED BY <4>1, <4>2
    <3> QED BY <1>1, <1>2, <2>1, <2>5, <3>1, <3>2, <3>3, <3>4 DEF RelayKept, Ending
  <2> QED BY <2>2, <2>3, <2>4, <2>5
<1> QED BY <1>8, <1>9, StepKinds

(* "5600 - set relay on" and "5700 - set relay off" at the high level: if  *)
(* the meter neither restarts nor answers with an exception response,      *)
(* exit status 0 means that the relay is where it was told to go, whatever *)
(* the line loses, damages or delays.                                      *)
THEOREM ProtectedRelayCommandAlwaysDone ==
  ASSUME Namings = {}, Restarts = FALSE, Exceptions = FALSE
  PROVE  Spec => []ProtectedRelayCommandDone
<1> DEFINE Inv == Switching => RelayKept
<1>1. Inv => ProtectedRelayCommandDone
  <2> SUFFICES ASSUME Inv, stage = "exit", ret = "OK", args.item \in {"on", "off"},
                      args.security = "high"
               PROVE  meter.relay = Commanded
    BY DEF ProtectedRelayCommandDone, RelayCommandDone
  <2> QED BY DEF Switching, High, Reading, RelayKept, Ending
<1>2. Init => Inv
  <2> SUFFICES ASSUME Init PROVE RelayKept
    OBVIOUS
  <2>1. ~ Protects(NoAnswer)
    BY DEF Protects, NoAnswer, Answer
  <2> QED BY <2>1, InitKnown DEF Init, RelayKept, Ending
<1>3. Init => AssocKept
  BY InitAssoc
<1>4. Basic /\ Genuine /\ AssocKept /\ Inv /\ [Next]_vars => AssocKept' /\ Inv'
  <2> SUFFICES ASSUME Basic, Genuine, AssocKept, Inv, [Next]_vars PROVE AssocKept' /\ Inv'
    OBVIOUS
  <2>1. Switching' = Switching
    BY ArgsKept DEF Basic, Switching, High, Reading
  <2> QED BY <2>1, NextAssoc, NextRelay DEF MeterRestarts
<1>5. Basic /\ Genuine /\ [Next]_vars => Genuine'
  BY NextGenuine
<1> QED BY <1>1, <1>2, <1>3, <1>4, <1>5, InitBasic, NextBasic, InitGenuine, PTL DEF Spec

-----------------------------------------------------------------------------
(* A line without disturbances.                                            *)

(* There is one answer at most, and it is the meter's to the request the   *)
(* program waits for, or has had. The meter never hears of a program that  *)
(* has no server address.                                                  *)
Calm ==
  /\ budget = 0
  /\ phase # "wait" => line = <<>>
  /\ phase = "wait" =>
       line = meter.last /\ (settings.serverAddress # 0 => AfterFits(tx, meter))
  /\ phase = "back" /\ reply.answer # NoAnswer =>
       /\ settings.serverAddress # 0
       /\ meter.last = <<reply.answer>> /\ AfterFits(tx, meter)
  /\ settings.serverAddress = 0 => meter.link = 0 /\ (phase = "wait" => line = <<>>)

Quiet == Basic /\ Calm

(* A request is sent: the meter has heard it, or it cannot hear anything.  *)
Delivered(b) ==
  /\ phase' = "wait" /\ tx' = b.message /\ reply' = reply /\ budget' = 0
  /\ line' = meter'.last
  /\ \/ settings.serverAddress # 0 /\ AfterFits(tx', meter') /\ Effects(meter, tx', meter')
     \/ /\ settings.serverAddress = 0 /\ meter'.last = <<>>
        /\ meter'.link = meter.link /\ meter'.assoc = meter.assoc
        /\ meter'.relay = meter.relay /\ meter'.ic = meter.ic

(* An exchange ends with the meter's answer, or without one.               *)
Answered ==
  /\ settings.serverAddress # 0 /\ AfterFits(tx, meter) /\ meter.last = <<reply'.answer>>
  /\ AnswerFits(tx, meter, reply'.answer) /\ Suits(tx, settings)
  /\ reply'.ret = dlms_getPdu(settings, reply'.answer)
Unanswered ==
  /\ line = <<>> /\ reply' = [ret |-> "RECEIVE_FAILED", answer |-> NoAnswer]

(* The line changes nothing but what the program knows.                    *)
LEMMA CalmIdle ==
  ASSUME Quiet, Idle
  PROVE  /\ meter' = meter /\ budget' = 0 /\ ~ MeterRestarts
         /\ phase' = phase => line' = line /\ reply' = reply
         /\ phase' # phase => /\ phase = "wait" /\ line' = <<>>
                              /\ phase' \in {"back", "spin"}
         /\ phase' = "back" /\ phase = "wait" => Answered \/ Unanswered
<1>1. /\ budget = 0 /\ line \in Seq(Answers) /\ meter \in Meters /\ meter.last \in Seq(Answers)
  BY DEF Quiet, Basic, Calm, IInv, TypeOK, Meters
<1>2. ~ Disturb
  BY <1>1 DEF Disturb
<1>3. CASE Resend
  <2>1. /\ line = <<>> /\ meter.last = <<>> /\ phase = "wait"
        /\ settings.serverAddress # 0 => meter.received
    BY <1>3 DEF Resend, Waiting, Quiet, Calm, AfterFits
  <2>2. Hears(tx, meter) = {meter}
    <3>1. [meter EXCEPT !.last = <<>>] = meter
      BY <1>1, <2>1 DEF Meters
    <3> QED BY <2>1, <3>1 DEF Hears, Repeats
  <2>3. \E n \in Hears(tx, meter) : meter' = n /\ line' = line \o n.last
        /\ phase' = "wait" /\ UNCHANGED <<reply, budget>>
    BY <1>2, <1>3 DEF Resend, sendData
  <2>4. line' = <<>> \o <<>> /\ <<>> \o <<>> = <<>>
    BY <2>1, <2>2, <2>3
  <2> QED BY <1>1, <1>2, <2>1, <2>2, <2>3, <2>4 DEF MeterRestarts
<1>4. CASE GiveUp
  <2>1. phase = "wait" /\ line = <<>> /\ budget' = budget /\ Returned("RECEIVE_FAILED", NoAnswer)
        /\ meter' = meter /\ line' = line
    BY <1>1, <1>4 DEF GiveUp, Waiting, Silence, SilenceTaken
  <2> QED BY <1>1, <1>2, <2>1 DEF Returned, Unanswered, MeterRestarts
<1>5. CASE Receive
  <2>1. phase = "wait" /\ line # <<>> /\ UNCHANGED <<tx, meter, budget, settings>>
        /\ line' \in Suffixes(Tail(line))
    BY <1>5 DEF Receive, Waiting, connectionVars
  <2>2. line = meter.last /\ settings.serverAddress # 0 /\ AfterFits(tx, meter)
    BY <2>1 DEF Quiet, Calm
  <2>3. PICK a \in Answers : meter.last = <<a>> /\ AnswerFits(tx, meter, a)
    BY <2>1, <2>2 DEF AfterFits
  <2>4. Head(line) = a /\ Tail(line) = <<>>
    BY <2>2, <2>3
  <2>5. line' = <<>>
    <3>1. <<>> \in Seq(Answers) /\ Len(<<>>) = 0
      OBVIOUS
    <3>2. Rest(<<>>, line')
      BY <2>1, <2>4, <3>1, RestOf
    <3>3. line' \in Seq(Answers)
      BY <2>1, <2>4, <3>1, SuffixType
    <3>4. Len(line') \in Nat
      BY <3>3, LenProperties
    <3>5. Len(line') = 0
      BY <3>1, <3>2, <3>4 DEF Rest
    <3> QED BY <3>3, <3>5, EmptySeq
  <2>6. \/ phase' = "spin" /\ reply' = reply
        \/ Returned(dlms_getPdu(settings, a), a)
    BY <1>5, <2>4 DEF Receive
  <2>7. phase' = "back" => Answered
    BY <2>1, <2>2, <2>3, <2>6 DEF Returned, Answered, Quiet, Basic, TxFits
  <2>8. phase' \in {"back", "spin"}
    BY <2>6 DEF Returned
  <2> QED BY <1>1, <1>2, <2>1, <2>5, <2>7, <2>8 DEF MeterRestarts
<1>6. CASE ResendLate \/ Corrupt \/ ReadFails \/ HangUp \/ MeterRestarts
  BY <1>2, <1>6 DEF ResendLate, Corrupt, ReadFails, HangUp, MeterRestarts
<1>7. CASE Poll \/ Spin \/ UNCHANGED vars
  BY <1>1, <1>2, <1>7 DEF Poll, Spin, vars, MeterRestarts
<1> QED BY <1>3, <1>4, <1>5, <1>6, <1>7 DEF Idle, Exchange

(* A request reaches the meter.                                            *)
LEMMA CalmRequest ==
  ASSUME Quiet, phase = "call", stage \in Asking, NEW b, b = Call, Request(b)
  PROVE  /\ Sent(b) => Delivered(b)
         /\ ~ Sent(b) => /\ phase' = "back" /\ reply' = [ret |-> b.ret, answer |-> NoAnswer]
                         /\ UNCHANGED <<tx, line, meter, budget>>
<1> DEFINE m == [meter EXCEPT !.received = FALSE, !.last = <<>>]
<1>1. /\ CallFits(b) /\ budget = 0 /\ line = <<>>
      /\ meter \in Meters /\ settings' = b.settings
  BY CallBuilt, Requesting DEF Quiet, Basic, Calm, IInv, TypeOK
<1>2. /\ m \in Meters /\ ~ m.received /\ m.last = <<>>
      /\ m.link = meter.link /\ m.assoc = meter.assoc /\ m.relay = meter.relay
      /\ m.ic = meter.ic
  <2>1. <<>> \in Seq(Answers)
    OBVIOUS
  <2> QED BY <1>1, <2>1 DEF Meters
<1>3. ASSUME ~ Sent(b)
      PROVE  /\ phase' = "back" /\ reply' = [ret |-> b.ret, answer |-> NoAnswer]
             /\ UNCHANGED <<tx, line, meter, budget>>
  BY <1>3, Requesting DEF Quiet, Basic, lineVars
<1>4. ASSUME Sent(b) PROVE Delivered(b)
  <2>1. tx' = b.message /\ sendData(b.message, m)
    BY <1>4, Requesting DEF Quiet, Basic
  <2> HIDE DEF m
  <2>2. PICK n \in Hears(b.message, m) : /\ meter' = n /\ line' = line \o n.last
                                         /\ phase' = "wait" /\ UNCHANGED <<reply, budget>>
    BY <1>1, <2>1 DEF sendData, Disturb
  <2>3. /\ b.message \in Requests /\ WellAimed(b.message) /\ b.message.cmd # "none"
    BY <1>1, <1>4 DEF CallFits, Builds, Suits, CmdOf
  <2>4. CASE settings.serverAddress # 0
    <3>1. n \in Reactions(m, b.message)
      <4>1. settings'.serverAddress = settings.serverAddress
        BY <1>1 DEF CallFits, Alike
      <4> QED BY <1>2, <2>2, <2>4, <4>1 DEF Hears
    <3>2. AfterFits(b.message, n) /\ Effects(m, b.message, n)
      BY <1>2, <2>3, <3>1, ReactionsFit
    <3>3. line' = n.last
      <4>1. n \in Meters
        BY <1>2, <2>3, <3>1, ReactionsType
      <4> QED BY <1>1, <2>2, <4>1 DEF Meters
    <3>4. Effects(meter, b.message, n)
      BY <1>2, <3>2 DEF Effects
    <3> QED BY <1>1, <2>1, <2>2, <2>4, <3>2, <3>3, <3>4 DEF Delivered
  <2>5. CASE settings.serverAddress = 0
    <3>1. n = m
      BY <2>2, <2>5 DEF Hears
    <3>2. line' = <<>>
      BY <1>1, <1>2, <2>2, <3>1
    <3> QED BY <1>1, <1>2, <2>1, <2>2, <2>5, <3>1, <3>2 DEF Delivered
  <2> QED BY <2>4, <2>5
<1> QED BY <1>3, <1>4

(* The line stays calm.                                                    *)
LEMMA NextCalm == ASSUME Quiet, [Next]_vars PROVE Quiet'
<1>1. Basic'
  BY NextBasic DEF Quiet
<1>2. CASE Idle
  <2>1. UNCHANGED <<settings, tx>>
    BY <1>2, IdleKeeps
  <2>2. Unanswered => reply'.answer = NoAnswer
    BY DEF Unanswered
  <2> QED BY <1>1, <1>2, <2>1, <2>2, CalmIdle DEF Quiet, Calm, Answered
<1>3. CASE phase = "call" /\ stage \in Asking /\ Request(Call)
  <2> DEFINE b == Call
  <2>1. /\ CallFits(b) /\ settings' = b.settings
        /\ Sent(b) => Delivered(b)
        /\ ~ Sent(b) => /\ phase' = "back" /\ reply' = [ret |-> b.ret, answer |-> NoAnswer]
                        /\ UNCHANGED <<tx, line, meter, budget>>
    BY <1>3, CallBuilt, Requesting, CalmRequest DEF Quiet, Basic
  <2> HIDE DEF b
  <2>2. settings'.serverAddress = settings.serverAddress
    BY <2>1 DEF CallFits, Alike
  <2>3. CASE Sent(b)
    BY <1>1, <2>1, <2>2, <2>3 DEF Quiet, Calm, Delivered
  <2>4. CASE ~ Sent(b)
    BY <1>1, <1>3, <2>1, <2>2, <2>4 DEF Quiet, Calm
  <2> QED BY <2>3, <2>4
<1>4. CASE Turn
  <2>1. /\ UNCHANGED <<meter, budget>> /\ phase' = "call" /\ phase \in {"call", "back"}
        /\ line' = line \/ line' \in Suffixes(line)
        /\ settings'.serverAddress = settings.serverAddress
    BY <1>4, TurnKeeps, TurnSettings DEF Quiet, Basic
  <2>2. line' = <<>>
    <3>1. line = <<>>
      BY <2>1 DEF Quiet, Calm
    <3>2. <<>> \in Seq(Answers) /\ Len(<<>>) = 0
      OBVIOUS
    <3>3. CASE line' \in Suffixes(<<>>)
      <4>1. Rest(<<>>, line') /\ line' \in Seq(Answers)
        BY <3>2, <3>3, RestOf, SuffixType
      <4>2. Len(line') \in Nat
        BY <4>1, LenProperties
      <4>3. Len(line') = 0
        BY <3>2, <4>1, <4>2 DEF Rest
      <4> QED BY <4>1, <4>3, EmptySeq
    <3> QED BY <2>1, <3>1, <3>3
  <2> QED BY <1>1, <2>1, <2>2 DEF Quiet, Calm
<1> QED BY <1>2, <1>3, <1>4, StepKinds

(* It is calm from the start.                                              *)
LEMMA InitCalm == ASSUME Disturbances = 0 PROVE Init => Quiet
<1> SUFFICES ASSUME Init PROVE Quiet
  OBVIOUS
<1>1. \E c, r : meter = FreshMeter(c, r)
  BY DEF Init
<1>2. meter.link = 0
  BY <1>1 DEF FreshMeter
<1> QED BY <1>2, InitBasic DEF Init, Quiet, Calm

-----------------------------------------------------------------------------
(* The HDLC link.                                                          *)

(* Stages in which the client has a link, if the meter has.                *)
Linked == {"icAarq", "icRead", "aarq", "auth", "item", "release"}

(* The meter has no link the client does not know of, once it has parsed   *)
(* the UA; and none where the client is about to open one or has closed    *)
(* its own.                                                                *)
LinkKept ==
  /\ meter.link = 0 => meter.assoc = "none"
  /\ stage \in {"open", "icHead", "head", "exit"} => meter.link = 0
  /\ stage \in {"icSnrm", "snrm"} =>
       /\ phase = "call" => meter.link = 0
       /\ phase = "back" /\ meter.link # 0 =>
            reply.ret = "OK" /\ reply.answer.data = "params"
  /\ stage \in {"icDisc", "disc"} /\ phase # "call" => meter.link = 0
  /\ stage \in Linked \/ (stage \in {"icDisc", "disc"} /\ phase = "call") =>
       (meter.link # 0 => "HDLC" \in settings.connected)

(* Every step keeps the two ends of the link in step.                      *)
LEMMA NextLink ==
  ASSUME UaData \subseteq {"params"}, Quiet, LinkKept, [Next]_vars PROVE LinkKept'
<1>1. CASE Idle
  <2>1. /\ UNCHANGED <<stage, settings, meter>> /\ (phase' = "call" <=> phase = "call")
        /\ phase' = phase => reply' = reply
        /\ phase' = "back" /\ phase # "back" => Answered \/ Unanswered
        /\ phase' # phase => phase = "wait"
    BY <1>1, IdleKeeps, CalmIdle
  <2>2. ASSUME stage \in {"icSnrm", "snrm"}, phase = "wait", phase' = "back", meter.link # 0
        PROVE  reply'.ret = "OK" /\ reply'.answer.data = "params"
    <3>1. settings.serverAddress # 0 /\ tx.cmd = "SNRM" /\ meter.last = line /\ AfterFits(tx, meter)
      BY <2>2 DEF Quiet, Basic, Calm, TxFits, Suits, CmdOf
    <3>2. ~ Unanswered
      BY <3>1 DEF AfterFits, Unanswered
    <3>3. Answered
      BY <2>1, <2>2, <3>2
    <3>4. reply'.answer.cmd = "UA" /\ reply'.answer.data = "params"
      BY <3>1, <3>3 DEF Answered, AnswerFits
    <3>5. reply'.ret = "OK"
      BY <3>3, <3>4 DEF Answered, dlms_getPdu
    <3> QED BY <3>4, <3>5
  <2> QED BY <2>1, <2>2 DEF LinkKept
<1>2. CASE phase = "call" /\ stage \in Asking /\ Request(Call)
  <2> DEFINE b == Call
  <2>1. /\ CallFits(b) /\ settings' = b.settings /\ stage' = stage
        /\ Sent(b) => Delivered(b)
        /\ ~ Sent(b) => phase' = "back" /\ meter' = meter
    BY <1>2, CallBuilt, Requesting, CalmRequest DEF Quiet, Basic
  <2> HIDE DEF b
  <2>2. /\ Sent(b) => b.message.cmd = CmdOf /\ b.message.address \in {16, 111}
        /\ settings \in Settings
    BY <2>1 DEF CallFits, Suits, Quiet, Basic, IInv, TypeOK, Builds, Settings, Addresses
  <2>3. CASE stage \in {"icSnrm", "snrm"}
    <3>1. Sent(b) /\ Delivered(b)
      BY <2>1, <2>3 DEF CallFits, Reopens
    <3>2. meter'.link = 0 => meter'.assoc = "none"
      BY <2>2, <2>3, <3>1 DEF Delivered, Effects, CmdOf, LinkKept
    <3> QED BY <2>1, <2>3, <3>1, <3>2 DEF LinkKept, Delivered, Linked
  <2>4. CASE stage \in {"icDisc", "disc"}
    <3>1. CASE Sent(b)
      <4>1. meter'.link = 0 /\ meter'.assoc = "none" /\ phase' = "wait"
        BY <2>1, <2>2, <2>4, <3>1 DEF Delivered, Effects, CmdOf, LinkKept, Quiet, Calm
      <4> QED BY <2>1, <2>4, <4>1 DEF LinkKept, Linked
    <3>2. CASE ~ Sent(b)
      BY <1>2, <2>1, <2>4, <3>2 DEF LinkKept, Linked, CallFits, Disconnects
    <3> QED BY <3>1, <3>2
  <2>5. CASE stage \in Linked
    <3>1. meter'.link = meter.link /\ (meter.link = 0 => meter'.assoc = "none")
      <4>1. CASE Sent(b)
        <5>1. tx'.cmd \notin {"SNRM", "DISC"} /\ tx'.address # 0
          BY <2>1, <2>2, <2>5, <4>1 DEF Delivered, CmdOf, Linked
        <5> QED BY <2>1, <4>1, <5>1 DEF Delivered, Effects, LinkKept
      <4> QED BY <2>1, <4>1 DEF LinkKept
    <3>2. "HDLC" \in settings.connected => "HDLC" \in settings'.connected
      BY <2>1, <2>5 DEF CallFits, Associates, Serves, Releases, Linked
    <3> QED BY <2>1, <2>5, <3>1, <3>2 DEF LinkKept, Linked
  <2> QED BY <1>2, <2>3, <2>4, <2>5 DEF Asking, Linked
<1>3. CASE Turn
  <2>1. /\ meter' = meter /\ phase' = "call" /\ stage' \in Follows
        /\ phase = "back" \/ stage \in {"open", "icHead", "head"}
    BY <1>3, TurnKeeps, TurnLeads DEF Quiet, Basic
  <2>2. CASE stage \in {"icSnrm", "snrm"}
    <3>1. meter.link # 0 => "HDLC" \in settings'.connected
      BY <1>3, <2>1, <2>2, TurnLinks DEF LinkKept, Quiet, Basic
    <3> QED BY <2>1, <2>2, <3>1 DEF LinkKept, Follows, Linked
  <2>3. CASE stage \in Linked
    <3>1. meter.link # 0 => "HDLC" \in settings'.connected
      BY <1>3, <2>3, TurnLinks DEF LinkKept, Linked, Quiet, Basic
    <3>2. stage' \in Linked \cup {"icDisc", "disc"}
      BY <2>1, <2>3 DEF Follows, Linked
    <3> QED BY <2>1, <3>1, <3>2 DEF LinkKept, Linked
  <2>4. CASE stage \notin {"icSnrm", "snrm"} \cup Linked
    <3>1. meter.link = 0
      BY <2>1, <2>4 DEF LinkKept, Linked, Follows, Quiet, Basic, IInv, TypeOK, Stages
    <3>2. stage' \notin {"icSnrm", "snrm"} \/ phase' = "call"
      BY <2>1
    <3> QED BY <2>1, <3>1, <3>2 DEF LinkKept
  <2> QED BY <2>2, <2>3, <2>4
<1> QED BY <1>1, <1>2, <1>3, StepKinds

(* At the start there is no link.                                          *)
LEMMA InitLink == Init => LinkKept
<1> SUFFICES ASSUME Init PROVE LinkKept
  OBVIOUS
<1>1. \E c, r : meter = FreshMeter(c, r)
  BY DEF Init
<1>2. meter.link = 0 /\ meter.assoc = "none"
  BY <1>1 DEF FreshMeter
<1> QED BY <1>2 DEF Init, LinkKept

(* On a line without disturbances, with a meter that sends its HDLC        *)
(* parameters in the UA, the meter's link and association are closed when  *)
(* the program exits, however it came to.                                  *)
THEOREM LinkAlwaysClosedAtExit ==
  ASSUME Disturbances = 0, UaData \subseteq {"params"} PROVE Spec => []LinkClosedAtExit
<1>1. LinkKept => LinkClosedAtExit
  BY DEF LinkKept, LinkClosedAtExit
<1>2. Init => Quiet
  BY InitCalm
<1>3. Quiet /\ LinkKept /\ [Next]_vars => LinkKept'
  BY NextLink
<1> QED BY <1>1, <1>2, <1>3, NextCalm, InitLink, PTL DEF Spec

-----------------------------------------------------------------------------
(* The release request.                                                    *)

(* An answer the program looks at is the meter's to its last request.      *)
LEMMA BackAnswer ==
  ASSUME Quiet, phase = "back", reply.answer # NoAnswer
  PROVE  AnswerFits(tx, meter, reply.answer) /\ Suits(tx, settings)
<1>1. meter.last = <<reply.answer>> /\ AfterFits(tx, meter)
  BY DEF Quiet, Calm
<1>2. \A a : meter.last = <<a>> => a = reply.answer /\ meter.last # <<>>
  BY <1>1
<1> QED BY <1>1, <1>2 DEF AfterFits, Quiet, Basic, TxFits

(* Only an answer that accepts it makes the client think that it is        *)
(* associated.                                                             *)
LEMMA TurnAssociates ==
  ASSUME IInv, Turn, stage \in {"icAarq", "aarq", "auth"}, "DLMS" \in settings'.connected,
         "DLMS" \notin settings.connected
  PROVE  phase = "back" /\ reply.answer.data \in {"aare", "octets"}
<1>1. settings \in Settings /\ phase = "back"
  BY TurnLeads DEF IInv, TypeOK
<1>2. CASE stage \in {"icAarq", "aarq"}
  <2>1. settings' = Parsed(cl_parseAAREResponse).settings
    BY <1>2 DEF Turn, com_open, IcHead, OpticalHead, IcSnrmBack, IcAarqBack, IcReadBack,
       IcDiscBack, SnrmBack, AarqBack, AuthBack, ReadBack, CommandBack, ReleaseBack, DiscBack,
       At, Back, Proceed
  <2>2. reply.ret = "OK"
    BY <2>1 DEF Parsed, Digest
  <2>3. reply.answer.data # "aare" => settings'.connected = settings.connected
    BY <1>1, <2>1, <2>2, AareSettings DEF Parsed, IInv, TypeOK
  <2> QED BY <1>1, <2>3
<1>3. CASE stage = "auth"
  <2>1. settings' = Parsed(cl_parseApplicationAssociationResponse).settings
    BY <1>3 DEF Turn, com_open, IcHead, OpticalHead, IcSnrmBack, IcAarqBack, IcReadBack,
       IcDiscBack, SnrmBack, AarqBack, AuthBack, ReadBack, CommandBack, ReleaseBack, DiscBack,
       At, Back, Proceed
  <2>2. ASSUME reply.answer.data # "octets" PROVE FALSE
    <3>1. \/ settings' = settings
          \/ \E t \in {settings, cip_encrypt(settings)} :
               settings' = [t EXCEPT !.connected = @ \ {"DLMS"}]
      BY <2>1, <2>2 DEF Parsed, Digest, cl_parseApplicationAssociationResponse
    <3> QED BY <1>1, <3>1 DEF Settings, cip_encrypt
  <2> QED BY <1>1, <2>2
<1> QED BY <1>2, <1>3

(* The two opening calls fail for the optical head only.                   *)
LEMMA HeadTurn ==
  ASSUME HeadFailures = FALSE, Turn, stage \in {"icHead", "head"}
  PROVE  stage' # "release"
BY DEF Turn, com_open, IcHead, OpticalHead, com_initializeOpticalHead, Goto, IcSnrmBack,
       IcAarqBack, IcReadBack, IcDiscBack, SnrmBack, AarqBack, AuthBack, ReadBack, CommandBack,
       ReleaseBack, DiscBack, At, Back

(* The client does not think that it is associated without a link. An      *)
(* association forgotten by its DISC is forgotten for good with the next   *)
(* SNRM.                                                                   *)
DlmsKept ==
  /\ stage \in {"icSnrm", "snrm"} /\ phase # "call" => settings.connected = {}
  /\ stage \in Linked /\ "DLMS" \in settings.connected => "HDLC" \in settings.connected

(* Every step keeps the association on top of the link.                    *)
LEMMA NextDlms ==
  ASSUME HeadFailures = FALSE, UaData \subseteq {"params"},
         Quiet, LinkKept, DlmsKept, [Next]_vars
  PROVE  DlmsKept'
<1>1. CASE Idle
  <2>1. UNCHANGED <<stage, settings>> /\ (phase' = "call" <=> phase = "call")
    BY <1>1, IdleKeeps
  <2> QED BY <2>1 DEF DlmsKept
<1>2. CASE phase = "call" /\ stage \in Asking /\ Request(Call)
  <2> DEFINE b == Call
  <2>1. CallFits(b) /\ settings' = b.settings /\ stage' = stage
    BY <1>2, CallBuilt, Requesting DEF Quiet, Basic
  <2> HIDE DEF b
  <2>2. CASE stage \in {"icSnrm", "snrm"}
    BY <2>1, <2>2 DEF DlmsKept, CallFits, Reopens, Linked
  <2>3. CASE stage \in Linked
    BY <2>1, <2>3 DEF DlmsKept, CallFits, Associates, Serves, Releases, Linked
  <2>4. CASE stage \notin {"icSnrm", "snrm"} \cup Linked
    BY <2>1, <2>4 DEF DlmsKept
  <2> QED BY <2>2, <2>3, <2>4
<1>3. CASE Turn
  <2>1. /\ phase' = "call" /\ stage' \in Follows
        /\ phase = "back" \/ stage \in {"open", "icHead", "head"}
    BY <1>3, TurnKeeps, TurnLeads DEF Quiet, Basic
  <2>2. stage' \in Linked => stage \in Linked \cup {"icSnrm", "snrm"}
    BY <1>3, <2>1, HeadTurn DEF Follows, Linked
  <2>3. CASE stage \in {"icSnrm", "snrm"}
    <3>1. settings'.connected = {} \/ settings'.connected = {"HDLC"}
      BY <1>3, <2>1, <2>3, TurnLinks DEF DlmsKept, Quiet, Basic
    <3> QED BY <2>1, <3>1 DEF DlmsKept
  <2>4. CASE stage \in Linked
    <3>1. ("HDLC" \in settings'.connected) = ("HDLC" \in settings.connected)
      BY <1>3, <2>4, TurnLinks DEF Linked, Quiet, Basic
    <3>2. CASE "DLMS" \in settings'.connected /\ "DLMS" \notin settings.connected
      <4>1. stage \in {"icAarq", "aarq", "auth"}
        BY <1>3, <3>2, <2>4, TurnSettings DEF Linked, Quiet, Basic
      <4>2. phase = "back" /\ reply.answer.data \in {"aare", "octets"}
        BY <1>3, <3>2, <4>1, TurnAssociates DEF Quiet, Basic
      <4>3. reply.answer # NoAnswer
        BY <4>2 DEF NoAnswer, Answer
      <4>4. AnswerFits(tx, meter, reply.answer) /\ Suits(tx, settings)
        BY <4>2, <4>3, BackAnswer
      <4>5. meter.link = tx.address
        BY <4>2, <4>4, MeterAssumption DEF AnswerFits
      <4>6. tx.address # 0
        BY <4>4 DEF Suits, Quiet, Basic, IInv, TypeOK, Settings, Addresses
      <4>7. "HDLC" \in settings.connected
        BY <2>4, <4>5, <4>6 DEF LinkKept
      <4> QED BY <2>1, <3>1, <4>7 DEF DlmsKept
    <3>3. CASE ~ ("DLMS" \in settings'.connected /\ "DLMS" \notin settings.connected)
      BY <2>1, <2>4, <3>1, <3>3 DEF DlmsKept
    <3> QED BY <3>2, <3>3
  <2>5. CASE stage \notin {"icSnrm", "snrm"} \cup Linked
    BY <2>1, <2>2, <2>5 DEF DlmsKept
  <2> QED BY <2>3, <2>4, <2>5
<1> QED BY <1>1, <1>2, <1>3, StepKinds

(* What a step that sends something new sends.                             *)
LEMMA NewRequest ==
  ASSUME Basic, [Next]_vars, tx' # tx
  PROVE  /\ phase = "call" /\ stage \in Asking /\ Request(Call) /\ CallFits(Call)
         /\ Sent(Call) /\ tx' = Call.message /\ tx'.cmd = CmdOf
<1>1. phase = "call" /\ stage \in Asking /\ Request(Call)
  BY StepKinds, IdleKeeps, TurnKeeps DEF Basic
<1> DEFINE b == Call
<1>2. /\ CallFits(b)
      /\ ~ Sent(b) => UNCHANGED lineVars
      /\ Sent(b) => tx' = b.message
  BY <1>1, CallBuilt, Requesting DEF Basic
<1> HIDE DEF b
<1>3. Sent(b) /\ tx' = b.message /\ tx'.cmd = CmdOf
  BY <1>2 DEF lineVars, CallFits, Suits
<1> QED BY <1>1, <1>2, <1>3 DEF b

(* On a line without disturbances, if the optical head can be set up and   *)
(* the UA carries parameters, a release request is only sent over a link   *)
(* the client has.                                                         *)
THEOREM ReleaseAlwaysHasLink ==
  ASSUME Disturbances = 0, HeadFailures = FALSE, UaData \subseteq {"params"}
  PROVE  Spec => ReleaseNeedsLink
<1>1. Init => DlmsKept
  BY DEF Init, DlmsKept, Linked
<1>2. Init => Quiet
  BY InitCalm
<1>3. Quiet /\ LinkKept /\ DlmsKept /\ [Next]_vars => LinkKept' /\ DlmsKept'
  BY NextLink, NextDlms
<1>4. Quiet /\ DlmsKept /\ [Next]_vars
        => [tx' # tx /\ tx'.cmd = "RLRQ" => "HDLC" \in settings.connected]_vars
  <2> SUFFICES ASSUME Quiet, DlmsKept, [Next]_vars, tx' # tx, tx'.cmd = "RLRQ"
               PROVE  "HDLC" \in settings.connected
    OBVIOUS
  <2> DEFINE b == Call
  <2>1. CallFits(b) /\ Sent(b) /\ CmdOf = "RLRQ"
    BY NewRequest DEF Quiet
  <2> HIDE DEF b
  <2>2. stage = "release"
    BY <2>1 DEF CmdOf
  <2>3. "DLMS" \in settings.connected
    BY <2>1, <2>2 DEF CallFits, Releases
  <2> QED BY <2>2, <2>3 DEF DlmsKept, Linked
<1> QED BY <1>1, <1>2, <1>3, <1>4, NextCalm, InitLink, PTL DEF Spec, ReleaseNeedsLink

-----------------------------------------------------------------------------
(* What the objects' requests come to on such a line.                      *)

(* The reply is the meter's reaction to the request of this object.        *)
Served ==
  stage = "item" /\ phase = "back" =>
    /\ AfterFits(tx, meter) /\ Suits(tx, settings)
    /\ \/ meter.last = <<>> /\ reply.ret = "RECEIVE_FAILED"
       \/ /\ AnswerFits(tx, meter, reply.answer)
          /\ reply.ret = dlms_getPdu(settings, reply.answer)

Settled == Namings = {} /\ Quiet /\ Genuine /\ AssocKept /\ Served

(* All of this holds at the start of a run without disturbances.           *)
LEMMA InitSettled == ASSUME Namings = {}, Disturbances = 0 PROVE Init => Settled
BY InitCalm, InitGenuine, InitAssoc DEF Init, Settled, Served

(* Every step of a run without disturbances keeps it.                      *)
LEMMA NextSettled == ASSUME Settled, [Next]_vars PROVE Settled'
<1>1. Basic' /\ Quiet' /\ Genuine'
  BY NextCalm, NextBasic, NextGenuine DEF Settled, Quiet
<1>2. AssocKept'
  <2>1. ~ MeterRestarts
    BY DEF MeterRestarts, Disturb, Settled, Quiet, Calm
  <2> QED BY <2>1, NextAssoc DEF Settled, Quiet
<1>3. Served'
  <2>1. CASE Idle
    <3>1. /\ UNCHANGED <<args, stage, settings, todo, tx, meter>>
          /\ phase' = "back" => phase \in {"back", "wait"}
          /\ phase = "back" => reply' = reply
          /\ phase' = "back" /\ phase = "wait" => Answered \/ Unanswered
      BY <2>1, IdleKeeps, CalmIdle DEF Settled
    <3>2. SUFFICES ASSUME stage = "item", phase' = "back", phase = "wait" PROVE Served'
      BY <3>1 DEF Settled, Served, Suits, CmdOf, Reading
    <3>3. settings.serverAddress # 0
      BY <3>2 DEF Settled, AssocKept, LinkUp, Quiet, Calm
    <3>4. AfterFits(tx, meter) /\ Suits(tx, settings) /\ line = meter.last
      BY <3>2, <3>3 DEF Settled, Quiet, Calm, Basic, TxFits
    <3>5. CmdOf' = CmdOf
      BY <3>1 DEF CmdOf, Reading
    <3> QED BY <3>1, <3>2, <3>4, <3>5 DEF Served, Suits, Answered, Unanswered
  <2>2. CASE phase = "call" /\ stage \in Asking /\ Request(Call)
    <3> DEFINE b == Call
    <3>1. CallFits(b) /\ stage' = stage /\ (Sent(b) => phase' = "wait")
      BY <2>2, CallBuilt, Requesting, CalmRequest DEF Settled, Quiet, Basic, Delivered
    <3> HIDE DEF b
    <3>2. stage = "item" => Sent(b)
      BY <3>1 DEF CallFits, Serves
    <3> QED BY <3>1, <3>2 DEF Served
  <2>3. CASE Turn
    BY <2>3, TurnKeeps DEF Served, Settled, Quiet, Basic
  <2> QED BY <2>1, <2>2, <2>3, StepKinds
<1> QED BY <1>1, <1>2, <1>3 DEF Settled

(* The request of an object reaches the meter in the association.          *)
LEMMA ItemRequest ==
  ASSUME Settled, stage = "item", phase = "back"
  PROVE  /\ tx.cmd = (IF Reading THEN "GET" ELSE "ACTION") /\ tx.id = settings.invokeID
         /\ tx.target = Head(todo) /\ Ciphered(tx) = High
         /\ meter.link = tx.address /\ meter.assoc = "client"
<1>1. Suits(tx, settings) /\ LinkUp
  BY DEF Settled, Served, AssocKept
<1>2. settings.clientAddress = 111 /\ isCiphered(settings) = High
  BY LevelKept DEF Settled, Quiet, Basic, LeveledStages
<1>3. tx.cmd = (IF Reading THEN "GET" ELSE "ACTION")
  BY <1>1 DEF Suits, CmdOf
<1>4. tx.cmd \in Services
  BY <1>3 DEF Services
<1> QED BY <1>1, <1>2, <1>3, <1>4 DEF Suits, LinkUp, Ciphered, isCiphered, High

(* A relay command that is reported done has been carried out.             *)
LEMMA CommandServed ==
  ASSUME Exceptions = FALSE, Settled, stage = "item", phase = "back", ~ Reading,
         reply.ret = "OK"
  PROVE  meter.relay = Commanded
<1> DEFINE a == reply.answer
<1>1. AnswerFits(tx, meter, a) /\ dlms_getPdu(settings, a) = "OK"
  BY DEF Settled, Served
<1>2. /\ tx.cmd = "ACTION" /\ tx.target = Head(todo) /\ meter.link = tx.address
      /\ tx.id = settings.invokeID
  BY ItemRequest
<1>3. /\ a.cmd \in {"ACTION", "GLO_ACTION"} /\ a.id = tx.id
      /\ a.result = "OK" => meter.relay = IF tx.target = "on" THEN 1 ELSE 0
  BY <1>1, <1>2 DEF AnswerFits
<1>4. a.result = "OK"
  BY <1>1, <1>2, <1>3 DEF dlms_getPdu, dlms_verifyInvokeId
<1>5. Head(todo) = args.item
  <2>1. args.item # "energy"
    BY DEF Reading
  <2>2. todo = <<args.item>>
    BY <2>1 DEF Settled, Genuine, TodoKept, Todo0, ObjectsOf
  <2> QED BY <2>2
<1> QED BY <1>2, <1>3, <1>4, <1>5 DEF Commanded

(* A read in the clear gives the value of the object, or the meter's own   *)
(* refusal.                                                                *)
LEMMA ReadServed ==
  ASSUME Exceptions = FALSE, Settled, stage = "item", phase = "back", Reading, ~ High
  PROVE  /\ reply.ret \in ReadResults
         /\ reply.ret = "OK" => ReadValue = Attribute(meter, Head(todo))
<1> DEFINE a == reply.answer
<1>1. /\ tx.cmd = "GET" /\ tx.target = Head(todo) /\ meter.link = tx.address
      /\ tx.id = settings.invokeID /\ ~ Ciphered(tx) /\ meter.assoc = "client"
  BY ItemRequest
<1>2. meter.last # <<>>
  <2>1. AfterFits(tx, meter) /\ tx.ics = {} /\ \A b : <<b>> # <<>>
    BY <1>1 DEF Settled, Served, Ciphered
  <2> QED BY <1>1, <2>1 DEF AfterFits
<1>3. AnswerFits(tx, meter, a) /\ reply.ret = dlms_getPdu(settings, a)
  BY <1>2 DEF Settled, Served
<1>4. /\ a.cmd = "GET" /\ a.id = tx.id /\ a.result \in ReadResults
      /\ a.value = IF a.result = "OK" THEN Attribute(meter, tx.target) ELSE NoValue
  BY <1>1, <1>3 DEF AnswerFits
<1>5. reply.ret = a.result
  BY <1>1, <1>3, <1>4 DEF dlms_getPdu, dlms_verifyInvokeId
<1> HIDE DEF a
<1>6. reply.ret = "OK" => ReadValue = a.value
  BY <1>4 DEF ReadValue, dlms_handleGetResponse, a
<1> QED BY <1>1, <1>4, <1>5, <1>6

(* Exit status 0 for a relay command is only given once it was carried     *)
(* out, and nothing moves the relay afterwards.                            *)
DoneKept ==
  ~ Reading /\ stage \in Ending /\ ret = "OK" => meter.relay = Commanded

(* Every step keeps the relay where a reported command put it.             *)
LEMMA NextDone ==
  ASSUME Exceptions = FALSE, Settled, DoneKept, [Next]_vars PROVE DoneKept'
<1>1. args' = args /\ Commanded' = Commanded /\ Reading' = Reading
  BY ArgsKept DEF Settled, Quiet, Basic, Commanded, Reading
<1>2. CASE Idle
  BY <1>1, <1>2, IdleKeeps, CalmIdle DEF Settled, DoneKept
<1>3. CASE phase = "call" /\ stage \in Asking /\ Request(Call)
  <2> DEFINE b == Call
  <2>1. /\ CallFits(b) /\ UNCHANGED <<stage, ret>>
        /\ Sent(b) => Delivered(b)
        /\ ~ Sent(b) => meter' = meter
    BY <1>3, CallBuilt, Requesting, CalmRequest DEF Settled, Quiet, Basic
  <2> HIDE DEF b
  <2>2. stage \in Ending => meter'.relay = meter.relay
    <3>1. stage \in Ending /\ Sent(b) => b.message.cmd # "ACTION"
      BY <2>1 DEF CallFits, Suits, CmdOf, Ending
    <3> QED BY <2>1, <3>1 DEF Delivered, Effects
  <2> QED BY <1>1, <2>1, <2>2 DEF DoneKept
<1>4. CASE Turn
  <2>1. meter' = meter /\ (phase = "back" \/ stage \in {"open", "icHead", "head"})
    BY <1>4, TurnKeeps, TurnLeads DEF Settled, Quiet, Basic
  <2>2. CASE stage = "item" /\ ~ Reading
    <3>1. ret' = reply.ret /\ phase = "back"
      BY <1>4, <2>1, <2>2, TurnLeads DEF Settled, Quiet, Basic, CommandBack, NextObject
    <3> QED BY <1>1, <2>1, <2>2, <3>1, CommandServed DEF DoneKept
  <2>3. CASE stage # "item"
    BY <1>1, <1>4, <2>1, <2>3, TurnLeads DEF DoneKept, Settled, Quiet, Basic
  <2> QED BY <1>1, <2>2, <2>3 DEF DoneKept
<1> QED BY <1>2, <1>3, <1>4, StepKinds

(* "5600 - set relay on" and "5700 - set relay off" at either level: on a  *)
(* line without disturbances, if the meter gives no exception responses,   *)
(* exit status 0 means that the relay is where it was told to go.          *)
THEOREM RelayCommandAlwaysDone ==
  ASSUME Namings = {}, Disturbances = 0, Exceptions = FALSE
  PROVE  Spec => []RelayCommandDone
<1>1. DoneKept => RelayCommandDone
  BY DEF DoneKept, RelayCommandDone, Reading, Ending
<1>2. Init => DoneKept
  BY DEF Init, DoneKept, Ending
<1>3. Init => Settled
  BY InitSettled
<1>4. Settled /\ DoneKept /\ [Next]_vars => DoneKept'
  BY NextDone
<1> QED BY <1>1, <1>2, <1>3, <1>4, NextSettled, PTL DEF Spec

-----------------------------------------------------------------------------
(* Readings.                                                               *)

(* Exit status 0 for an energy is only given once it was printed. In the   *)
(* clear parse_rx counts the objects; ciphered answers are never read.     *)
EnergyKept ==
  args.item = "energy" =>
    /\ stage = "item" /\ ~ High => parse_stage = Done
    /\ stage \in Ending /\ ret = "OK" => Reported("energy")

(* An answer to a ciphered read has no value.                              *)
LEMMA CipheredUnread ==
  ASSUME Settled, stage = "item", phase = "back", Reading, High PROVE ReadValue = NoValue
<1>1. tx.cmd = "GET" /\ Ciphered(tx)
  BY ItemRequest
<1>2. reply.ret = "OK" => reply.answer.cmd # "GET"
  <2>1. reply.ret = "OK" => AnswerFits(tx, meter, reply.answer)
    BY DEF Settled, Served
  <2> QED BY <1>1, <2>1 DEF AnswerFits
<1> QED BY <1>2 DEF ReadValue, dlms_handleGetResponse

(* A read whose value was stored is a step of parse_rx.                    *)
LEMMA ReadDone ==
  ASSUME ReadBack, ret' = "OK"
  PROVE  parse_rx /\ Readable /\ Printable /\ NextObject("OK")
BY DEF ReadBack, NextObject, Readable

(* Every step keeps the energy on its way to the output.                   *)
LEMMA NextEnergy ==
  ASSUME Exceptions = FALSE, ReadResults \subseteq {"OK"}, Settled, EnergyKept, [Next]_vars
  PROVE  EnergyKept'
<1>1. args' = args /\ High' = High /\ Todo0' = Todo0 /\ Settled'
  BY ArgsKept, NextSettled DEF Settled, Quiet, Basic, High, Todo0
<1>2. SUFFICES ASSUME args.item = "energy" PROVE EnergyKept'
  BY <1>1 DEF EnergyKept
<1>3. Todo0 = <<"meter_sn", "energy">>
  BY <1>2 DEF Todo0, ObjectsOf
<1>4. CASE UNCHANGED <<stage, parse_stage, todo, ret, out>>
  BY <1>1, <1>4 DEF EnergyKept, Done, Reported
<1>5. CASE Turn /\ stage # "item"
  <2>1. /\ UNCHANGED <<out, parse_stage, todo>> /\ stage' \in Follows
        /\ stage' \in Ending => ret' # "OK" \/ (stage \in Ending /\ ret' = ret)
    BY <1>5, TurnLeads DEF Settled, Quiet, Basic
  <2>2. stage' = "item" => stage \notin Ending
    BY <2>1 DEF Follows, Ending
  <2>3. stage' = "item" => todo = Todo0 /\ parse_stage = 0
    BY <1>5, <2>2 DEF Settled, Genuine, TodoKept
  <2>4. stage' = "item" => parse_stage' = Done'
    BY <1>1, <2>1, <2>3 DEF Done
  <2> QED BY <1>1, <1>2, <2>1, <2>4 DEF EnergyKept, Reported
<1>6. CASE Turn /\ stage = "item"
  <2>1. ReadBack /\ Reading /\ phase = "back"
    BY <1>2, <1>6, TurnLeads DEF Settled, Quiet, Basic, Reading
  <2>2. Head(todo) \in {"meter_sn", "energy"}
    <3>1. todo \in {<<"meter_sn", "energy">>, <<"energy">>}
      BY <1>2, <1>3, <1>6 DEF Settled, Genuine, TodoKept
    <3> QED BY <3>1
  <2>3. CASE High
    <3>1. ~ Printable
      BY <1>6, <2>1, <2>2, <2>3, CipheredUnread DEF Printable
    <3>2. ret' # "OK"
      BY <2>1, <3>1, ReadDone
    <3> QED BY <1>1, <2>3, <3>2 DEF EnergyKept
  <2>4. CASE ~ High
    <3>1. reply.ret = "OK" /\ ReadValue = Attribute(meter, Head(todo))
      BY <1>6, <2>1, <2>4, ReadServed
    <3>2. ReadValue # NoValue
      BY <2>2, <3>1 DEF Attribute, NoValue
    <3>3. parse_rx /\ NextObject("OK")
      BY <2>1, <3>1, <3>2 DEF ReadBack, Readable, Printable
    <3>4. parse_stage = Done
      BY <1>2, <1>6, <2>4 DEF EnergyKept
    <3>5. CASE todo = Todo0
      <4>1. todo' = <<"energy">> /\ stage' = "item" /\ todo' # Todo0
        <5>1. Len(todo) = 2 /\ Tail(todo) = <<"energy">>
          BY <1>3, <3>5
        <5>2. <<"energy">> # <<"meter_sn", "energy">>
          <6>1. Len(<<"energy">>) = 1 /\ Len(<<"meter_sn", "energy">>) = 2
            OBVIOUS
          <6> QED BY <6>1
        <5> QED BY <1>3, <3>3, <5>1, <5>2 DEF NextObject
      <4>2. parse_stage' = 1
        BY <1>2, <3>3, <3>4, <3>5 DEF parse_rx, Done
      <4> QED BY <1>1, <4>1, <4>2 DEF EnergyKept, Done, Ending
    <3>6. CASE todo # Todo0
      <4>1. stage' = "release"
        <5>1. Len(<<"energy">>) = 1
          OBVIOUS
        <5> QED BY <1>6, <3>3, <3>6, <5>1 DEF NextObject, Settled, Genuine, TodoKept
      <4>2. out' = out \cup {<<"energy", ReadValue>>}
        BY <1>2, <3>3, <3>4, <3>6 DEF parse_rx, Done
      <4> DEFINE o == <<"energy", ReadValue>>
      <4>3. o[1] = "energy" /\ o \in out'
        BY <4>2
      <4> HIDE DEF o
      <4> QED BY <4>1, <4>3 DEF EnergyKept, Reported
    <3> QED BY <3>5, <3>6
  <2> QED BY <2>3, <2>4
<1>7. CASE Idle \/ (phase = "call" /\ stage \in Asking /\ Request(Call))
  <2>1. UNCHANGED <<stage, parse_stage, todo, ret, out>>
    BY <1>7, IdleKeeps, Requesting DEF Settled, Quiet, Basic
  <2> QED BY <1>4, <2>1
<1> QED BY <1>5, <1>6, <1>7, StepKinds

(* "1300 - get kwh": on a line without disturbances, with a meter that     *)
(* grants its reads and gives no exception responses, exit status 0 means  *)
(* that the energy was printed. A meter that refuses the first of the two  *)
(* objects makes the program exit with 0 and without the energy.           *)
THEOREM EnergyAlwaysReported ==
  ASSUME Namings = {}, Disturbances = 0, Exceptions = FALSE, ReadResults \subseteq {"OK"}
  PROVE  Spec => []EnergyReported
<1>1. EnergyKept => EnergyReported
  BY DEF EnergyKept, EnergyReported, Reported, Ending
<1>2. Init => EnergyKept
  BY DEF Init, EnergyKept, Ending
<1>3. Init => Settled
  BY InitSettled
<1>4. Settled /\ EnergyKept /\ [Next]_vars => EnergyKept'
  BY NextEnergy
<1> QED BY <1>1, <1>2, <1>3, <1>4, NextSettled, PTL DEF Spec

(* Without ciphering a relay state that is printed is the one the relay    *)
(* has; a run that prints it never moves the relay.                        *)
StatusKept ==
  ~ High =>
    \A o \in out : o[1] = "relay" => args.item = "relay" /\ o[2].number = meter.relay

(* Every step keeps the printed status that of the relay.                  *)
LEMMA NextStatus ==
  ASSUME Exceptions = FALSE, "READ_WRITE_DENIED" \notin ReadResults,
         Settled, StatusKept, [Next]_vars
  PROVE  StatusKept'
<1>1. args' = args /\ High' = High
  BY ArgsKept DEF Settled, Quiet, Basic, High
<1>2. SUFFICES ASSUME ~ High PROVE StatusKept'
  BY <1>1 DEF StatusKept
<1>3. CASE Idle
  <2>1. meter' = meter /\ out' = out
    BY <1>3, IdleKeeps, CalmIdle DEF Settled
  <2> QED BY <1>1, <1>2, <2>1 DEF StatusKept
<1>4. CASE phase = "call" /\ stage \in Asking /\ Request(Call)
  <2> DEFINE b == Call
  <2>1. /\ CallFits(b) /\ out' = out
        /\ Sent(b) => Delivered(b)
        /\ ~ Sent(b) => meter' = meter
    BY <1>4, CallBuilt, Requesting, CalmRequest DEF Settled, Quiet, Basic
  <2> HIDE DEF b
  <2>2. args.item = "relay" => meter'.relay = meter.relay
    <3>1. args.item = "relay" /\ Sent(b) => b.message.cmd # "ACTION"
      BY <2>1 DEF CallFits, Suits, CmdOf, Reading
    <3> QED BY <2>1, <3>1 DEF Delivered, Effects
  <2> QED BY <1>1, <1>2, <2>1, <2>2 DEF StatusKept
<1>5. CASE Turn
  <2>1. /\ meter' = meter /\ (phase = "back" \/ stage \in {"open", "icHead", "head"})
        /\ stage # "item" => out' = out
        /\ stage = "item" => (ReadBack /\ Reading) \/ (CommandBack /\ ~ Reading)
    BY <1>5, TurnKeeps, TurnLeads DEF Settled, Quiet, Basic
  <2>2. CASE out' = out
    BY <1>1, <1>2, <2>1, <2>2 DEF StatusKept
  <2>3. CASE out' # out
    <3>1. stage = "item" /\ ReadBack /\ Reading /\ phase = "back"
      BY <2>1, <2>3 DEF CommandBack, Back
    <3>2. parse_rx /\ Readable
      BY <2>3, <3>1 DEF ReadBack
    <3>3. out' = out \cup {<<args.item, ReadValue>>}
      BY <2>3, <3>2 DEF parse_rx
    <3>4. reply.ret = "OK" /\ ReadValue = Attribute(meter, Head(todo))
      BY <1>2, <3>1, <3>2, ReadServed DEF Readable
    <3>5. args.item = "relay" => ReadValue.number = meter.relay
      <4>1. args.item = "relay" => Head(todo) = "relay"
        BY <3>1 DEF Settled, Genuine, TodoKept, Todo0, ObjectsOf
      <4> QED BY <3>4, <4>1 DEF Attribute
    <3> DEFINE o == <<args.item, ReadValue>>
    <3>6. o[1] = args.item /\ o[2] = ReadValue
      OBVIOUS
    <3>7. \A r \in out' : r \in out \/ r = o
      BY <3>3
    <3> HIDE DEF o
    <3>8. \A r \in out' : r[1] = "relay" => args.item = "relay" /\ r[2].number = meter.relay
      BY <1>2, <3>5, <3>6, <3>7 DEF StatusKept
    <3> QED BY <1>1, <2>1, <3>8 DEF StatusKept
  <2> QED BY <2>2, <2>3
<1> QED BY <1>3, <1>4, <1>5, StepKinds

(* "5500 - get relay status" without ciphering: on a line without          *)
(* disturbances, with a meter that neither denies the read nor answers     *)
(* with an exception response, what is printed is the state of the relay.  *)
THEOREM PlainRelayStatusAlwaysTrue ==
  ASSUME Namings = {}, Disturbances = 0, Exceptions = FALSE,
         "READ_WRITE_DENIED" \notin ReadResults
  PROVE  Spec => []PlainRelayStatusTrue
<1>1. IInv /\ StatusKept => PlainRelayStatusTrue
  BY DEF StatusKept, PlainRelayStatusTrue, RelayStatusTrue, High, IInv, TypeOK, CommandLines
<1>2. Init => StatusKept
  BY DEF Init, StatusKept
<1>3. Init => Settled
  BY InitSettled
<1>4. Settled /\ StatusKept /\ [Next]_vars => StatusKept'
  BY NextStatus
<1>5. Settled => IInv
  BY DEF Settled, Quiet, Basic
<1> QED BY <1>1, <1>2, <1>3, <1>4, <1>5, NextSettled, PTL DEF Spec

-----------------------------------------------------------------------------
(* Invocation counters and the meter.                                      *)

(* The counters a stage's request takes.                                   *)
Cost == CASE stage \in {"aarq", "item", "release"} -> 1
          [] stage = "auth" -> 2
          [] OTHER -> 0

(* From s to t a request with these counters takes the ones in between.    *)
Counts(s, t, ics) ==
  \/ ics = {} /\ t.invocationCounter = s.invocationCounter
  \/ /\ isCiphered(s) /\ ics = {s.invocationCounter}
     /\ t.invocationCounter = (s.invocationCounter + 1) % IcMod

(* A counter below the last one does not wrap.                             *)
LEMMA NoWrap ==
  ASSUME NEW c \in Counters, c + 1 < IcMod
  PROVE  (c + 1) % IcMod = c + 1 /\ c + 1 \in Counters /\ c \in Nat
<1>1. IcMod \in Nat /\ c \in 0..(IcMod - 1)
  BY IcModAssumption DEF Counters
<1>2. (c + 1) % IcMod = IF c + 1 = IcMod THEN 0 ELSE c + 1
  BY NextCounter
<1> QED BY <1>1, <1>2 DEF Counters

(* The counters of the requests.                                           *)
LEMMA RequestCounts ==
  ASSUME NEW s \in Settings
  PROVE  /\ \A cmd, target : LET b == dlms_getLNPdu(s, cmd, target)
                             IN Counts(s, b.settings, b.message.ics)
         /\ LET b == cl_snrmRequest(s) IN Counts(s, b.settings, b.message.ics)
         /\ LET b == cl_aarqRequest(s) IN Counts(s, b.settings, b.message.ics)
         /\ LET b == cl_releaseRequest2(s) IN Counts(s, b.settings, b.message.ics)
         /\ LET b == cl_disconnectRequest(s) IN Counts(s, b.settings, b.message.ics)
<1>1. ASSUME NEW cmd, NEW target
      PROVE  LET b == dlms_getLNPdu(s, cmd, target)
             IN Counts(s, b.settings, b.message.ics)
  BY DEF dlms_getLNPdu, dlms_getInvokeIDPriority, cip_encrypt, Built, NoRequest, Settings,
         isCiphered, Counts
<1>2. LET b == cl_snrmRequest(s) IN Counts(s, b.settings, b.message.ics)
  BY DEF cl_snrmRequest, Built, NoRequest, Settings, Counts
<1>3. LET b == cl_aarqRequest(s) IN Counts(s, b.settings, b.message.ics)
  BY DEF cl_aarqRequest, apdu_generateUserInformation, cip_encrypt, Built, Refused,
         NoRequest, isCiphered, Settings, Counts
<1>4. LET b == cl_releaseRequest2(s) IN Counts(s, b.settings, b.message.ics)
  BY DEF cl_releaseRequest2, cip_encrypt, Built, NoRequest, isCiphered, Settings, Counts
<1>5. LET b == cl_disconnectRequest(s) IN Counts(s, b.settings, b.message.ics)
  BY DEF cl_disconnectRequest, Built, NoRequest, Settings, Counts
<1> QED BY <1>1, <1>2, <1>3, <1>4, <1>5

(* The challenge's tag takes one counter, and its request the next.        *)
LEMMA AuthCounts ==
  ASSUME NEW s \in Settings, isCiphered(s), NEW b, b = cl_getApplicationAssociationRequest(s)
  PROVE  LET c == s.invocationCounter
             d == (c + 1) % IcMod
         IN b.message.ics = {c, d} /\ b.settings.invocationCounter = (d + 1) % IcMod
<1> DEFINE t == cip_encrypt(s)
           c == s.invocationCounter
           d == t.invocationCounter
<1>1. t \in Settings /\ d = (c + 1) % IcMod /\ isCiphered(t)
  BY EncryptType DEF cip_encrypt, isCiphered, Settings
<1>2. b.settings.invocationCounter = (d + 1) % IcMod /\ b.message.ics = {c, d}
  BY <1>1 DEF cl_getApplicationAssociationRequest, cl_methodLN, dlms_getLNPdu,
       dlms_getInvokeIDPriority, cip_encrypt, Built, NoRequest, isCiphered, Settings
<1> QED BY <1>1, <1>2

(* If there is room for them, the request of a stage takes the next        *)
(* counters, and none without ciphering.                                   *)
LEMMA CallCounts ==
  ASSUME Namings = {}, IInv, Public, stage \in Asking, NEW b, b = Call, NEW c, c = settings.invocationCounter,
         NEW d, d = b.settings.invocationCounter, c + Cost < IcMod
  PROVE  /\ d \in Counters /\ c <= d /\ d <= c + Cost
         /\ \A i \in b.message.ics : c <= i /\ i < d
<1>1. settings \in Settings /\ c \in Counters /\ IcMod \in Nat
  BY IcModAssumption DEF IInv, TypeOK, Settings
<1>2. c \in Nat /\ Cost \in {0, 1, 2}
  BY <1>1 DEF Counters, Cost
<1>3. CASE stage = "auth" /\ isCiphered(settings)
  <2>1. /\ b.message.ics = {c, (c + 1) % IcMod} /\ d = (((c + 1) % IcMod) + 1) % IcMod
    BY <1>1, <1>3, AuthCounts DEF Call
  <2>2. c + 2 < IcMod /\ Cost = 2
    BY <1>3 DEF Cost
  <2>3. (c + 1) % IcMod = c + 1 /\ c + 1 \in Counters /\ c + 1 < IcMod
    BY <1>1, <1>2, <2>2, NoWrap
  <2>4. (c + 1) + 1 < IcMod
    BY <1>2, <2>2
  <2>5. ((c + 1) + 1) % IcMod = (c + 1) + 1 /\ (c + 1) + 1 \in Counters
    BY <2>3, <2>4, NoWrap
  <2>6. d = (c + 1) + 1 /\ b.message.ics = {c, c + 1}
    BY <2>1, <2>3, <2>5
  <2> HIDE DEF Cost
  <2> QED BY <1>2, <2>2, <2>5, <2>6
<1>4. CASE stage = "auth" /\ ~ isCiphered(settings)
  <2>1. b = Refused("INVALID_PARAMETER", settings)
    BY <1>4 DEF Call, cl_getApplicationAssociationRequest
  <2>2. b.message.ics = {} /\ d = c
    BY <2>1 DEF Refused, NoRequest
  <2> HIDE DEF Cost
  <2> QED BY <1>1, <1>2, <2>2
<1>5. CASE stage # "auth"
  <2>1. Counts(settings, b.settings, b.message.ics)
    BY <1>1, <1>5, RequestCounts DEF Call, Asking, cl_readLN, cl_methodLN
  <2>2. CASE b.message.ics = {} /\ d = c
    <3> HIDE DEF Cost
    <3> QED BY <1>1, <1>2, <2>2
  <2>3. CASE isCiphered(settings) /\ b.message.ics = {c} /\ d = (c + 1) % IcMod /\ Cost = 1
    <3>1. c + 1 < IcMod
      BY <2>3
    <3>2. d = c + 1 /\ d \in Counters
      BY <1>1, <2>3, <3>1, NoWrap
    <3> HIDE DEF Cost
    <3> QED BY <1>1, <1>2, <2>3, <3>2
  <2>4. ASSUME isCiphered(settings), b.message.ics # {}, Cost # 1 PROVE FALSE
    <3>1. stage \in {"snrm", "disc"}
      BY <1>5, <2>4 DEF Asking, Cost, Public, isCiphered
    <3>2. CallFits(b)
      BY CallBuilt
    <3>3. Sent(b)
      BY <2>4, <3>2 DEF CallFits, NoRequest
    <3> QED BY <2>4, <3>1, <3>2, <3>3 DEF CallFits, Suits, CmdOf
  <2>5. isCiphered(settings) /\ b.message.ics = {c} => Cost = 1
    BY <2>4
  <2> QED BY <2>1, <2>2, <2>3, <2>5 DEF Counts
<1> QED BY <1>3, <1>4, <1>5

(* What the turns do to the counter: only the check of the meter's         *)
(* challenge, the value read and cl_clear move it.                         *)
LEMMA TurnCounts ==
  ASSUME IInv, Turn, NEW c, c = settings.invocationCounter,
         NEW d, d = settings'.invocationCounter
  PROVE  /\ stage \notin {"icRead", "auth", "disc"} => d = c
         /\ stage = "auth" => d = c \/ d = (c + 1) % IcMod
         /\ stage = "icRead" /\ stage' = "icDisc" =>
              d = (1 + dlms_handleGetResponse(reply.answer).number) % IcMod
<1>1. settings \in Settings /\ saved = Identity(args)
  BY DEF IInv, TypeOK, IdentityKept
<1>2. CASE com_open \/ OpticalHead \/ ReleaseBack \/ ReadBack \/ CommandBack
  BY <1>2 DEF com_open, OpticalHead, ReleaseBack, ReadBack, CommandBack, connectionVars, At,
              Back
<1>3. CASE IcHead \/ IcDiscBack
  <2>1. \E i : settings' = Assume(settings, i) \/ settings' = settings
    BY <1>3 DEF IcHead, IcDiscBack, RestoreIdentity
  <2>2. d = c
    BY <1>1, <2>1 DEF Assume, Settings
  <2> QED BY <1>3, <2>2 DEF IcHead, IcDiscBack, At, Back
<1>4. CASE DiscBack
  BY <1>4 DEF DiscBack, Back
<1>5. CASE IcSnrmBack \/ SnrmBack \/ IcAarqBack \/ AarqBack
  BY <1>5, ParsedMoves DEF IcSnrmBack, SnrmBack, IcAarqBack, AarqBack, Back, Proceed
<1>6. CASE AuthBack
  <2>1. settings' = Parsed(cl_parseApplicationAssociationResponse).settings /\ stage = "auth"
    BY <1>6 DEF AuthBack, Back, Proceed
  <2>2. \E t \in {settings, cip_encrypt(settings)} : \E x :
           settings' = t \/ settings' = [t EXCEPT !.connected = x]
    BY <2>1 DEF Parsed, Digest, cl_parseApplicationAssociationResponse
  <2>3. \A t \in Settings : \A x : [t EXCEPT !.connected = x].invocationCounter
                                      = t.invocationCounter
    BY DEF Settings
  <2>4. cip_encrypt(settings) \in Settings
        /\ cip_encrypt(settings).invocationCounter = (c + 1) % IcMod
    BY <1>1, EncryptType DEF cip_encrypt, Settings
  <2>5. PICK t \in {settings, cip_encrypt(settings)} : \E x :
           settings' = t \/ settings' = [t EXCEPT !.connected = x]
    BY <2>2
  <2>6. t \in Settings /\ t.invocationCounter \in {c, (c + 1) % IcMod}
    BY <1>1, <2>4, <2>5
  <2>7. d = t.invocationCounter
    BY <2>3, <2>5, <2>6
  <2> QED BY <2>1, <2>6, <2>7
<1>7. CASE IcReadBack
  <2>1. /\ settings' = Parsed(ReadCounter).settings /\ stage = "icRead"
        /\ stage' = "icDisc" => Parsed(ReadCounter).ret = "OK"
    BY <1>7 DEF IcReadBack, Back, Proceed, Goto, Quit
  <2>2. stage' = "icDisc" =>
          settings' = [settings EXCEPT !.invocationCounter =
                         (1 + dlms_handleGetResponse(reply.answer).number) % IcMod]
    BY <2>1 DEF Parsed, Digest, ReadCounter
  <2> QED BY <1>1, <2>1, <2>2 DEF Settings
<1> QED BY <1>2, <1>3, <1>4, <1>5, <1>6, <1>7 DEF Turn

(* Whether the settings cipher: the counter association does not, until    *)
(* the identity of the command line is put back.                           *)
LEMMA TurnProtects ==
  ASSUME Namings = {}, IInv, Turn
  PROVE  /\ stage \notin {"icHead", "icDisc", "disc"} => settings'.security = settings.security
         /\ stage = "icDisc" => settings'.security = Identity(args).security
         /\ stage = "disc" => settings'.security = "NONE"
<1>1. settings \in Settings /\ saved = Identity(args)
  BY DEF IInv, TypeOK, IdentityKept
<1>2. CASE com_open \/ OpticalHead \/ ReleaseBack \/ ReadBack \/ CommandBack
  BY <1>2 DEF com_open, OpticalHead, ReleaseBack, ReadBack, CommandBack, connectionVars, At,
              Back
<1>3. CASE IcHead
  BY <1>3 DEF IcHead, At
<1>4. CASE IcDiscBack
  BY <1>1, <1>4 DEF IcDiscBack, Back, RestoreIdentity, Assume, Settings
<1>5. CASE DiscBack
  BY <1>1, <1>5 DEF DiscBack, Back, cl_clear, Settings
<1>6. CASE IcSnrmBack \/ SnrmBack \/ IcAarqBack \/ AarqBack \/ IcReadBack \/ AuthBack
  <2>1. /\ \/ IdentityOf(settings') = IdentityOf(settings)
           \/ Named(settings, settings')
        /\ stage \notin {"icHead", "icDisc", "disc"}
    BY <1>6, ParsedMoves DEF IcSnrmBack, SnrmBack, IcAarqBack, AarqBack, IcReadBack, AuthBack,
                             Back, Proceed
  <2>2. IdentityOf(settings') = IdentityOf(settings)
    BY <2>1, NothingNamed
  <2> QED BY <2>1, <2>2 DEF IdentityOf
<1> QED BY <1>2, <1>3, <1>4, <1>5, <1>6 DEF Turn

(* The limit grows with the counters a request takes.                      *)
LEMMA CostLimit ==
  ASSUME Namings = {}, IInv, CountersSpent, stage \in Asking, phase = "call",
         phase' # "call", UNCHANGED <<stage, todo>>
  PROVE  Limit' = Limit + Cost /\ Limit \in Nat /\ Cost \in {0, 1, 2} /\ Limit + Cost <= 7
<1>1. (stage = "item" => Len(todo) \in {1, 2}) /\ Early = 0
  BY LimitType DEF Early
<1>2. CASE stage = "item"
  <2>1. /\ Limit = Early + 6 - Len(todo) + 0 /\ Limit' = Early + 6 - Len(todo) + 1
        /\ Cost = 1
    BY <1>2 DEF Limit, Asked, Cost, Early
  <2>2. CASE Len(todo) = 1
    BY <1>1, <2>1, <2>2
  <2>3. CASE Len(todo) = 2
    BY <1>1, <2>1, <2>3
  <2> QED BY <1>1, <1>2, <2>2, <2>3
<1>3. CASE stage # "item"
  <2>1. \/ Limit = 0 /\ Limit' = 1 /\ Cost = 1
        \/ Limit = 1 /\ Limit' = 3 /\ Cost = 2
        \/ Limit = 6 /\ Limit' = 7 /\ Cost = 1
        \/ Limit = 7 /\ Limit' = 7 /\ Cost = 0
        \/ Limit = 0 /\ Limit' = 0 /\ Cost = 0
    <3>1. Early' = 0 /\ 0 + 1 = 1 /\ 0 + 1 + 2 * 0 = 1 /\ 0 + 1 + 2 * 1 = 3
          /\ 0 + 6 + 0 = 6 /\ 0 + 6 + 1 = 7 /\ 0 + 7 = 7 /\ 0 + 0 = 0
      BY <1>1 DEF Early
    <3> QED BY <1>1, <1>3, <3>1 DEF Limit, Asked, Cost, Asking
  <2> QED BY <2>1
<1> QED BY <1>2, <1>3

(* And with the one the check of the challenge takes.                      *)
LEMMA TurnLimit ==
  ASSUME Namings = {}, IInv, CountersSpent, Turn,
         stage \in {"icDisc", "head", "snrm", "aarq", "auth", "item"}
  PROVE  /\ Limit \in Nat /\ Limit' \in Nat /\ Limit <= Limit' /\ Limit' <= 7
         /\ stage = "auth" => Limit + 1 <= Limit'
<1>1. /\ stage' \in Follows /\ phase' = "call" /\ (phase = "back" \/ stage = "head")
      /\ stage # "item" => todo' = todo
  BY TurnKeeps, TurnLeads
<1>2. Len(todo) \in {1, 2} /\ Early = 0 /\ Early' = 0
  BY LimitType DEF Early
<1>3. CASE stage = "item"
  <2>1. /\ todo' = Tail(todo) /\ stage' = IF Len(todo) = 1 THEN "release" ELSE "item"
        /\ phase = "back"
    BY <1>1, <1>3, TurnLeads DEF ReadBack, CommandBack, NextObject
  <2>2. Len(todo') = Len(todo) - 1
    BY <1>2, <2>1, HeadTailProperties DEF IInv, TypeOK, TodoFits
  <2>3. /\ Limit = Early + 6 - Len(todo) + 1
        /\ Limit' = IF Len(todo) = 1 THEN Early' + 6 + 0 ELSE Early' + 6 - Len(todo') + 0
    BY <1>1, <1>3, <2>1 DEF Limit, Asked
  <2>4. CASE Len(todo) = 1
    BY <1>2, <1>3, <2>3, <2>4
  <2>5. CASE Len(todo) = 2
    <3>1. Len(todo') = 1
      BY <2>2, <2>5
    <3> QED BY <1>2, <1>3, <2>3, <2>5, <3>1
  <2> QED BY <1>2, <2>4, <2>5
<1>4. CASE stage = "auth"
  <2>1. /\ Limit = Early + 1 + 2 * 1
        /\ Limit' \in {Early' + 6 - Len(todo) + 0, Early' + 6 + 0}
    BY <1>1, <1>4 DEF Limit, Asked, Follows
  <2>2. CASE Len(todo) = 1
    BY <1>2, <2>1, <2>2
  <2>3. CASE Len(todo) = 2
    BY <1>2, <2>1, <2>3
  <2> QED BY <1>2, <2>2, <2>3
<1>5. CASE stage = "aarq"
  <2>1. /\ Limit = Early + 1
        /\ Limit' \in {Early' + 1 + 2 * 0, Early' + 6 - Len(todo) + 0, Early' + 6 + 0}
    BY <1>1, <1>5 DEF Limit, Asked, Follows
  <2>2. CASE Len(todo) = 1
    BY <1>2, <1>5, <2>1, <2>2
  <2>3. CASE Len(todo) = 2
    BY <1>2, <1>5, <2>1, <2>3
  <2> QED BY <1>2, <2>2, <2>3
<1>6. CASE stage \in {"icDisc", "head", "snrm"}
  <2>1. Limit = Early /\ Limit' \in {Early', Early' + 0, Early' + 6 + 0}
    BY <1>1, <1>6 DEF Limit, Asked, Follows
  <2> QED BY <1>2, <1>6, <2>1
<1> QED BY <1>3, <1>4, <1>5, <1>6

(* The last counter the meter has accepted is behind the next one, which   *)
(* is as far from wrapping as the rest of the run needs.                   *)
Ahead ==
  /\ meter.ic < settings.invocationCounter
  /\ settings.invocationCounter + 8 <= IcMod + Limit

(* The stages in which ciphered requests may follow.                       *)
Ciphering ==
  \/ stage \in {"icDisc", "head", "snrm", "aarq", "auth", "item"}
  \/ /\ stage = "release" /\ phase = "call" /\ isCiphered(settings)
     /\ "DLMS" \in settings.connected

(* Until the counter is read the meter's is that of before the run, and    *)
(* the meter that accepts the counter association has a link for it.       *)
AheadKept ==
  /\ ~ High => settings.security = "NONE"
  /\ stage \in {"open", "icHead"} => settings.connected = {}
  /\ High =>
       /\ stage \in {"open", "icHead", "icSnrm", "icAarq", "icRead"} => meter.ic \in MeterCounters
       /\ stage \in {"icSnrm", "icAarq", "icRead"} => settings.clientAddress = 16
       /\ stage = "icRead" => meter.link = 16
       /\ Ciphering => Ahead

Steady == Namings = {} /\ Quiet /\ CountersSpent /\ AheadKept

(* The counter the client starts with is one ahead of the meter's.         *)
LEMMA CounterRead ==
  ASSUME Exceptions = FALSE, Steady, High, stage = "icRead", phase = "back",
         reply.ret = "OK"
  PROVE  dlms_handleGetResponse(reply.answer).number = meter.ic
<1> DEFINE a == reply.answer
<1>1. a # NoAnswer /\ reply.ret = dlms_getPdu(settings, a)
  BY DEF Steady, Quiet, Basic, Replied, NoAnswer, Answer
<1>2. AnswerFits(tx, meter, a) /\ Suits(tx, settings)
  BY <1>1, BackAnswer DEF Steady
<1> HIDE DEF a
<1>3. settings.clientAddress = 16 /\ settings.security = "NONE"
  BY DEF Steady, CountersSpent, Public, AheadKept
<1>4. /\ tx.cmd = "GET" /\ tx.target = "ic" /\ tx.address = settings.clientAddress
      /\ tx.id = settings.invokeID /\ tx.ics = {}
  BY <1>2, <1>3 DEF Suits, CmdOf, Services, isCiphered
<1>5. CASE a.cmd = "DM"
  <2>1. meter.link # tx.address
    BY <1>2, <1>4, <1>5 DEF AnswerFits
  <2> QED BY <1>3, <1>4, <2>1 DEF Steady, AheadKept
<1>6. CASE a.cmd # "DM"
  <2>1. /\ a.cmd = "GET" /\ a.id = tx.id
        /\ a.value = IF a.result = "OK" THEN Attribute(meter, tx.target) ELSE NoValue
    BY <1>2, <1>4, <1>6 DEF AnswerFits, Ciphered
  <2>2. a.result = "OK"
    BY <1>1, <1>4, <2>1 DEF dlms_getPdu, dlms_verifyInvokeId
  <2> QED BY <1>4, <2>1, <2>2 DEF dlms_handleGetResponse, Attribute, a
<1> QED BY <1>5, <1>6

(* The meter that accepts the counter association has a link for it.       *)
LEMMA CounterLink ==
  ASSUME Steady, High, Turn, stage = "icAarq", stage' = "icRead"
  PROVE  meter.link = 16
<1> DEFINE a == reply.answer
<1>1. IcAarqBack /\ phase = "back" /\ reply.ret = "OK"
  BY TurnLeads DEF Steady, Quiet, Basic, Turn, com_open, IcHead, OpticalHead, IcSnrmBack,
        IcReadBack, IcDiscBack, SnrmBack, AarqBack, AuthBack, ReadBack, CommandBack,
        ReleaseBack, DiscBack, At, Back
<1>2. Parsed(cl_parseAAREResponse).ret = "OK"
  BY <1>1 DEF IcAarqBack, Proceed, Goto, Quit
<1>3. cl_parseAAREResponse(settings, a).ret = "OK"
  BY <1>1, <1>2 DEF Parsed
<1>4. a.data \in {"aare", "authRequired"}
  <2>1. \/ a.data \in {"aare", "authRequired"}
        \/ apdu_parsePDU(settings, a).ret = "REJECTED"
    BY DEF apdu_parsePDU, Digest
  <2> QED BY <1>3, <2>1 DEF cl_parseAAREResponse
<1>5. a # NoAnswer
  BY <1>4 DEF NoAnswer, Answer
<1>6. AnswerFits(tx, meter, a) /\ Suits(tx, settings)
  BY <1>1, <1>5, BackAnswer DEF Steady
<1> HIDE DEF a
<1>7. meter.link = tx.address
  BY <1>4, <1>6, MeterAssumption DEF AnswerFits
<1> QED BY <1>6, <1>7 DEF Suits, Steady, AheadKept

(* A request keeps the counter ahead: what it takes is all the meter can   *)
(* accept of it.                                                           *)
LEMMA RequestAhead ==
  ASSUME Steady, Ciphering, High, phase = "call", stage \in Asking, Request(Call)
  PROVE  /\ Ahead' /\ \A i \in Call.message.ics : i > meter.ic
<1> DEFINE b == Call
           c == settings.invocationCounter
           d == b.settings.invocationCounter
<1>1. /\ settings' = b.settings /\ UNCHANGED <<stage, todo>>
      /\ Sent(b) => Delivered(b)
      /\ ~ Sent(b) => phase' = "back" /\ meter' = meter
  BY Requesting, CalmRequest DEF Steady, Quiet, Basic
<1>2. phase' # "call"
  BY <1>1 DEF Delivered
<1>3. /\ Limit' = Limit + Cost /\ Limit \in Nat /\ Cost \in {0, 1, 2}
      /\ Limit + Cost <= 7
  BY <1>1, <1>2, CostLimit DEF Steady, Quiet, Basic
<1>4. c \in Counters /\ IcMod \in Nat /\ meter.ic \in Counters /\ c \in Nat /\ meter.ic \in Nat
  BY IcModAssumption DEF Steady, Quiet, Basic, IInv, TypeOK, Settings, Meters, Counters
<1>5. meter.ic < c /\ c + 8 <= IcMod + Limit
  BY DEF Steady, AheadKept, Ahead
<1>6. c + Cost < IcMod
  <2> HIDE DEF c, Cost, Limit
  <2> QED BY <1>3, <1>4, <1>5
<1>7. /\ d \in Counters /\ c <= d /\ d <= c + Cost
      /\ \A i \in b.message.ics : c <= i /\ i < d
  BY <1>6, CallCounts DEF Steady, Quiet, Basic
<1>8. b.message.ics \subseteq Counters
  BY CallBuilt DEF Steady, Quiet, Basic, CallFits, Builds, Requests, NoRequest
<1>9. meter'.ic = meter.ic \/ meter'.ic \in b.message.ics
  <2>1. CASE Sent(b)
    BY <1>1, <2>1 DEF Delivered, Effects
  <2>2. CASE ~ Sent(b)
    BY <1>1, <2>2
  <2> QED BY <2>1, <2>2
<1>10. d \in Nat /\ b.message.ics \subseteq Nat
  BY <1>4, <1>7, <1>8 DEF Counters
<1>11. settings'.invocationCounter = d
  BY <1>1
<1> HIDE DEF b, c, d, Cost, Limit
<1>12. meter'.ic < d
  BY <1>4, <1>5, <1>7, <1>9, <1>10
<1>13. d + 8 <= IcMod + Limit'
  BY <1>3, <1>4, <1>5, <1>7, <1>10
<1>14. \A i \in b.message.ics : i > meter.ic
  BY <1>4, <1>5, <1>7, <1>10
<1> QED BY <1>11, <1>12, <1>13, <1>14 DEF Ahead, b

(* Before the run the client has no connection, and the meter's counter is *)
(* one the constants allow.                                                *)
LEMMA InitAhead == Init => AheadKept
<1> SUFFICES ASSUME Init PROVE AheadKept
  OBVIOUS
<1>1. PICK c \in MeterCounters, r \in {0, 1} : meter = FreshMeter(c, r)
  BY DEF Init
<1>2. meter.ic \in MeterCounters
  BY <1>1 DEF FreshMeter
<1>3. settings.connected = {} /\ settings.security = Identity(args).security
  BY DEF Init, connectMeter, Assume, cl_init
<1>4. ~ High => settings.security = "NONE"
  BY <1>3 DEF Identity, High
<1> QED BY <1>2, <1>3, <1>4 DEF Init, AheadKept, Ciphering

(* The line keeps the counters.                                            *)
LEMMA IdleAhead == ASSUME Steady, Idle PROVE AheadKept'
<1>1. /\ UNCHANGED <<args, stage, settings, todo, meter>>
      /\ phase' = "call" <=> phase = "call"
  BY IdleKeeps, CalmIdle DEF Steady
<1>2. Limit' = Limit
  BY <1>1 DEF Limit, Asked
<1>3. Ahead => Ahead'
  BY <1>1, <1>2 DEF Ahead
<1>4. Ciphering' => Ciphering
  BY <1>1 DEF Ciphering
<1> QED BY <1>1, <1>3, <1>4 DEF Steady, AheadKept, High

(* A request keeps the counters.                                           *)
LEMMA AskAhead ==
  ASSUME Steady, phase = "call", stage \in Asking, Request(Call) PROVE AheadKept'
<1> DEFINE b == Call
<1>1. /\ CallFits(b) /\ settings' = b.settings /\ UNCHANGED <<args, stage, todo>>
      /\ Sent(b) => Delivered(b)
      /\ ~ Sent(b) => phase' = "back" /\ meter' = meter
  BY CallBuilt, Requesting, CalmRequest DEF Steady, Quiet, Basic
<1>2. Ciphering /\ High => Ahead'
  BY RequestAhead
<1> HIDE DEF b
<1>3. /\ settings'.security = settings.security
      /\ settings'.clientAddress = settings.clientAddress
      /\ phase' # "call"
  BY <1>1 DEF CallFits, Alike, Delivered
<1>4. Ciphering' => Ciphering
  BY <1>1, <1>3 DEF Ciphering
<1>5. stage \notin {"open", "icHead"}
  BY DEF Asking
<1>6. ASSUME stage \in {"icSnrm", "icAarq", "icRead"} PROVE meter'.ic = meter.ic
  <2>1. settings.security = "NONE"
    BY <1>6 DEF Steady, CountersSpent, Public
  <2>2. Sent(b) => b.message.ics = {}
    BY <1>1, <1>3, <1>6, <2>1 DEF CallFits, Suits, CmdOf, Services, isCiphered
  <2> QED BY <1>1, <2>2 DEF Delivered, Effects
<1>7. ASSUME stage = "icRead" PROVE meter'.link = meter.link
  <2>1. Sent(b) => b.message.cmd = "GET"
    BY <1>1, <1>7 DEF CallFits, Suits, CmdOf
  <2> QED BY <1>1, <2>1 DEF Delivered, Effects
<1> QED BY <1>1, <1>2, <1>3, <1>4, <1>5, <1>6, <1>7 DEF Steady, AheadKept, High

(* The turns of the counter association, up to the value read.             *)
LEMMA CounterTurn ==
  ASSUME Steady, High, Turn, stage' \in {"icHead", "icSnrm", "icAarq", "icRead"}
  PROVE  /\ meter'.ic \in MeterCounters
         /\ stage' # "icHead" => settings'.clientAddress = 16
         /\ stage' = "icRead" => meter'.link = 16
         /\ stage' = "icHead" => settings'.connected = {}
<1>1. /\ stage' \in Follows /\ meter' = meter /\ stage \in Stages
  BY TurnKeeps, TurnLeads DEF Steady, Quiet, Basic, IInv, TypeOK
<1>2. \/ stage = "open" /\ stage' = "icHead"
      \/ stage = "icHead" /\ stage' = "icSnrm"
      \/ stage = "icSnrm" /\ stage' = "icAarq"
      \/ stage = "icAarq" /\ stage' = "icRead"
  <2>1. ASSUME stage \notin {"open", "icHead", "icSnrm", "icAarq"} PROVE FALSE
    BY <1>1, <2>1 DEF Follows, Stages
  <2> QED BY <1>1, <2>1 DEF Follows
<1>3. meter'.ic \in MeterCounters
  BY <1>1, <1>2 DEF Steady, AheadKept
<1>4. stage' = "icRead" => meter'.link = 16
  BY <1>1, <1>2, CounterLink
<1>5. stage' = "icHead" => settings'.connected = {}
  BY <1>2, TurnSettings DEF Steady, AheadKept, Quiet, Basic
<1>6. CASE stage = "icHead"
  <2>1. IcHead
    BY <1>6 DEF Turn, com_open, OpticalHead, IcSnrmBack, IcAarqBack, IcReadBack, IcDiscBack,
          SnrmBack, AarqBack, AuthBack, ReadBack, CommandBack, ReleaseBack, DiscBack, At, Back
  <2>2. settings' = Assume(settings, PublicClient) /\ settings \in Settings
    BY <1>2, <1>6, <2>1 DEF IcHead, Steady, Quiet, Basic, IInv, TypeOK
  <2>3. settings'.clientAddress = 16
    BY <2>2 DEF Assume, PublicClient, Settings
  <2> QED BY <1>2, <1>3, <1>6, <2>3
<1>7. CASE stage \in {"icSnrm", "icAarq"}
  <2>1. IcSnrmBack \/ IcAarqBack
    BY <1>7 DEF Turn, com_open, IcHead, OpticalHead, IcReadBack, IcDiscBack,
          SnrmBack, AarqBack, AuthBack, ReadBack, CommandBack, ReleaseBack, DiscBack, At, Back
  <2>2. IdentityOf(settings') = IdentityOf(settings)
    <3>1. IdentityOf(settings') = IdentityOf(settings) \/ Named(settings, settings')
      BY <2>1, ParsedMoves DEF IcSnrmBack, IcAarqBack, Proceed, Steady, Quiet, Basic
    <3> QED BY <3>1, NothingNamed DEF Steady
  <2>3. settings'.clientAddress = 16
    BY <1>7, <2>2 DEF IdentityOf, Steady, AheadKept
  <2> QED BY <1>2, <1>3, <1>4, <1>7, <2>3
<1> QED BY <1>2, <1>3, <1>5, <1>6, <1>7

(* The value read starts the client's counter one ahead of the meter's.    *)
LEMMA ReadAhead ==
  ASSUME Exceptions = FALSE, \A c \in MeterCounters : c + 9 <= IcMod,
         Steady, High, Turn, stage = "icRead", stage' = "icDisc"
  PROVE  Ahead'
<1>1. /\ phase = "back" /\ meter' = meter /\ phase' = "call"
      /\ reply.ret = "OK"
  BY TurnKeeps, TurnLeads DEF Steady, Quiet, Basic
<1>2. dlms_handleGetResponse(reply.answer).number = meter.ic
  BY <1>1, CounterRead
<1>3. settings'.invocationCounter = (1 + meter.ic) % IcMod
  BY <1>2, TurnCounts DEF Steady, Quiet, Basic
<1>4. meter.ic \in MeterCounters /\ meter.ic \in Counters /\ IcMod \in Nat
  BY IcModAssumption DEF Steady, AheadKept, Quiet, Basic, IInv, TypeOK, Meters
<1>5. meter.ic + 9 <= IcMod /\ meter.ic \in Nat
  BY <1>4 DEF Counters
<1>6. meter.ic + 1 < IcMod
  BY <1>4, <1>5
<1>7. (meter.ic + 1) % IcMod = meter.ic + 1 /\ 1 + meter.ic = meter.ic + 1
  BY <1>4, <1>5, <1>6, NoWrap
<1>8. settings'.invocationCounter = meter'.ic + 1
  BY <1>1, <1>3, <1>7
<1>9. Limit' = 0
  BY DEF Limit, Early, Steady
<1> QED BY <1>1, <1>4, <1>5, <1>8, <1>9 DEF Ahead

(* Room before the counter wraps, for n more counters.                     *)
LEMMA StillRoom ==
  ASSUME NEW c \in Nat, NEW top \in Nat, NEW k \in Nat, NEW l \in Nat, NEW n \in {0, 1},
         k + n <= l, c + 8 <= top + k
  PROVE  (c + n) + 8 <= top + l
<1>1. CASE n = 0
  BY <1>1
<1>2. CASE n = 1
  BY <1>2
<1> QED BY <1>1, <1>2

(* The turns of the second association keep the counter ahead.             *)
LEMMA LaterAhead ==
  ASSUME Steady, High, Turn, stage \in {"icDisc", "head", "snrm", "aarq", "auth", "item"}
  PROVE  Ahead'
<1> DEFINE c == settings.invocationCounter
           d == settings'.invocationCounter
<1>1. /\ Limit \in Nat /\ Limit' \in Nat /\ Limit <= Limit' /\ Limit' <= 7
      /\ stage = "auth" => Limit + 1 <= Limit'
  BY TurnLimit DEF Steady, Quiet, Basic
<1>2. Ahead /\ meter' = meter
  BY TurnKeeps DEF Steady, AheadKept, Ciphering, Quiet, Basic
<1>3. c \in Counters /\ IcMod \in Nat /\ meter.ic \in Nat
  BY IcModAssumption DEF Steady, Quiet, Basic, IInv, TypeOK, Settings, Meters, Counters
<1>4. d = c \/ (stage = "auth" /\ d = (c + 1) % IcMod)
  BY TurnCounts DEF Steady, Quiet, Basic
<1>5. meter.ic < c /\ c + 8 <= IcMod + Limit /\ c \in Nat
  BY <1>2, <1>3 DEF Ahead, Counters
<1> HIDE DEF c, d, Limit
<1>6. CASE d = c
  <2>1. meter.ic < d
    BY <1>5, <1>6
  <2>2. c + 0 = c /\ Limit + 0 <= Limit'
    BY <1>1, <1>5
  <2>3. (c + 0) + 8 <= IcMod + Limit'
    BY <1>1, <1>3, <1>5, <2>2, StillRoom
  <2> QED BY <1>2, <1>6, <2>1, <2>2, <2>3 DEF Ahead, d
<1>7. CASE stage = "auth" /\ d = (c + 1) % IcMod
  <2>1. Limit + 1 <= Limit'
    BY <1>1, <1>7
  <2>2. c + 1 < IcMod
    BY <1>1, <1>3, <1>5, <2>1
  <2>3. d = c + 1
    BY <1>3, <1>7, <2>2, NoWrap
  <2>4. meter.ic < c + 1
    BY <1>3, <1>5
  <2>5. (c + 1) + 8 <= IcMod + Limit'
    BY <1>1, <1>3, <1>5, <2>1, StillRoom
  <2> QED BY <1>2, <2>3, <2>4, <2>5 DEF Ahead, d
<1> QED BY <1>4, <1>6, <1>7

(* So every turn keeps the counters.                                       *)
LEMMA TurnAhead ==
  ASSUME Exceptions = FALSE, \A c \in MeterCounters : c + 9 <= IcMod, Steady, Turn
  PROVE  AheadKept'
<1>1. /\ stage' \in Follows /\ args' = args /\ phase' = "call" /\ stage \in Stages
  BY TurnKeeps, TurnLeads DEF Steady, Quiet, Basic, IInv, TypeOK
<1>2. High' = High
  BY <1>1 DEF High
<1>3. ASSUME ~ High PROVE settings'.security = "NONE"
  <2>1. Identity(args).security = "NONE"
    BY <1>3 DEF Identity, High
  <2>2. settings.security = "NONE"
    BY <1>3 DEF Steady, AheadKept
  <2>3. CASE stage = "icHead"
    <3>1. IcHead
      BY <2>3 DEF Turn, com_open, OpticalHead, IcSnrmBack, IcAarqBack, IcReadBack, IcDiscBack,
            SnrmBack, AarqBack, AuthBack, ReadBack, CommandBack, ReleaseBack, DiscBack, At, Back
    <3>2. settings' \in {settings, Assume(settings, PublicClient)} /\ settings \in Settings
      BY <3>1 DEF IcHead, Steady, Quiet, Basic, IInv, TypeOK
    <3> QED BY <2>2, <3>2 DEF Assume, PublicClient, Settings
  <2> QED BY <2>1, <2>2, <2>3, TurnProtects DEF Steady, Quiet, Basic
<1>4. stage' = "open" => FALSE
  BY <1>1 DEF Follows, Stages
<1>5. stage' = "icHead" => settings'.connected = {}
  <2>1. stage' = "icHead" => stage = "open"
    BY <1>1 DEF Follows, Stages
  <2> QED BY <2>1, TurnSettings DEF Steady, AheadKept, Quiet, Basic
<1>6. ASSUME High, Ciphering' PROVE Ahead'
  <2>1. CASE stage \in {"icDisc", "head", "snrm", "aarq", "auth", "item"}
    BY <1>6, <2>1, LaterAhead
  <2>2. CASE stage \in {"open", "icHead", "icAarq", "icRead"} /\ stage' # "icDisc"
    <3>1. stage' \in {"icHead", "icSnrm", "icRead", "release", "exit"}
      <4>1. stage = "open" => stage' # "head"
        BY <1>6, TurnLeads, LevelKept DEF Steady, Quiet, Basic, LeveledStages
      <4> QED BY <1>1, <2>2, <4>1 DEF Follows
    <3>2. stage' = "release"
      BY <1>6, <3>1 DEF Ciphering
    <3>3. CASE stage = "icHead"
      <4>1. settings'.connected = {}
        BY <3>3, TurnSettings DEF Steady, AheadKept, Quiet, Basic
      <4> QED BY <1>6, <3>2, <4>1 DEF Ciphering
    <3>4. CASE stage \in {"icAarq", "icRead"}
      <4>1. settings'.security = "NONE"
        BY <3>4, TurnProtects DEF Steady, CountersSpent, Public, Quiet, Basic
      <4> QED BY <1>6, <3>2, <4>1 DEF Ciphering, isCiphered
    <3>5. stage # "open"
      BY <1>1, <3>2 DEF Follows
    <3> QED BY <2>2, <3>3, <3>4, <3>5
  <2>3. CASE stage' = "icDisc"
    <3>1. stage = "icRead"
      BY <1>1, <2>3 DEF Follows, Stages
    <3> QED BY <1>6, <2>3, <3>1, ReadAhead
  <2>4. CASE stage \in {"icSnrm", "release", "disc", "exit"}
    BY <1>1, <1>6, <2>4, TurnLeads DEF Follows, Ciphering, Steady, Quiet, Basic
  <2> QED BY <1>1, <2>1, <2>2, <2>3, <2>4 DEF Stages
<1> QED BY <1>2, <1>3, <1>4, <1>5, <1>6, CounterTurn DEF AheadKept

(* Every step keeps the counters.                                          *)
LEMMA NextAhead ==
  ASSUME Exceptions = FALSE, \A c \in MeterCounters : c + 9 <= IcMod, Steady, [Next]_vars
  PROVE  AheadKept'
BY IdleAhead, AskAhead, TurnAhead, StepKinds

(* What is ciphered is ciphered with counters the meter has not seen.      *)
LEMMA SentAhead ==
  ASSUME Steady, [Next]_vars, tx' # tx
  PROVE  \A i \in tx'.ics : i > meter.ic
<1> DEFINE b == Call
<1>1. /\ phase = "call" /\ stage \in Asking /\ Request(b) /\ CallFits(b) /\ Sent(b)
      /\ tx' = b.message
  BY NewRequest DEF Steady, Quiet
<1>2. Ciphering /\ High => \A i \in b.message.ics : i > meter.ic
  BY <1>1, RequestAhead
<1> HIDE DEF b
<1>3. settings'.security = settings.security /\ b.settings = settings'
  BY <1>1, Requesting DEF CallFits, Alike, Steady, Quiet, Basic, b
<1>4. ASSUME settings.security = "NONE" PROVE b.message.ics = {}
  <2>1. ~ isCiphered(b.settings)
    BY <1>3, <1>4 DEF isCiphered
  <2>2. Suits(b.message, b.settings) /\ b.message.cmd = CmdOf
    BY <1>1 DEF CallFits, Suits
  <2>3. CmdOf \in {"SNRM", "AARQ", "GET", "AUTH", "ACTION", "RLRQ", "DISC"}
    BY DEF CmdOf
  <2> QED BY <2>1, <2>2, <2>3 DEF Suits, Services
<1>5. ASSUME stage \in {"snrm", "icSnrm", "icDisc", "disc"} PROVE b.message.ics = {}
  BY <1>1, <1>5 DEF CallFits, Suits, CmdOf
<1>6. ASSUME stage \in {"icAarq", "icRead"} PROVE b.message.ics = {}
  BY <1>4, <1>6 DEF Steady, CountersSpent, Public
<1>7. ASSUME ~ High PROVE b.message.ics = {}
  BY <1>4, <1>7 DEF Steady, AheadKept
<1>8. CASE High /\ stage \in {"aarq", "auth", "item"}
  BY <1>1, <1>2, <1>8 DEF Ciphering
<1>9. CASE High /\ stage = "release" /\ isCiphered(settings)
  <2>1. "DLMS" \in settings.connected
    BY <1>1, <1>9 DEF CallFits, Releases
  <2> QED BY <1>1, <1>2, <1>9, <2>1 DEF Ciphering
<1>10. CASE stage = "release" /\ ~ isCiphered(settings)
  BY <1>1, <1>4, <1>10 DEF isCiphered
<1> QED BY <1>1, <1>5, <1>6, <1>7, <1>8, <1>9, <1>10 DEF Asking

(* On a line without disturbances, with a meter that sends no exception    *)
(* responses and whose counter is not about to wrap, every ciphered        *)
(* request of the run carries a counter above the last one the meter has   *)
(* accepted.                                                               *)
THEOREM CounterAlwaysAhead ==
  ASSUME Namings = {}, Disturbances = 0, Exceptions = FALSE,
         \A c \in MeterCounters : c + 9 <= IcMod
  PROVE  Spec => CounterAhead
<1>1. Init => Steady
  BY InitCalm, InitSpent, InitAhead DEF Steady
<1>2. Steady /\ [Next]_vars => Steady'
  <2> SUFFICES ASSUME Steady, [Next]_vars PROVE Steady'
    OBVIOUS
  <2>1. Quiet' /\ AheadKept'
    BY NextCalm, NextAhead DEF Steady
  <2>2. CountersSpent'
    BY NextSpent DEF Steady, Quiet, Basic
  <2> QED BY <2>1, <2>2 DEF Steady
<1>3. Steady /\ [Next]_vars => [tx' # tx => \A i \in tx'.ics : i > meter.ic]_vars
  BY SentAhead
<1> QED BY <1>1, <1>2, <1>3, PTL DEF Spec, CounterAhead
=============================================================================
