-------------------------------- MODULE Session --------------------------------
(***************************************************************************)
(* One run of the command: readSerialPort and the com_ functions of        *)
(* communication.c driving the client library of Client against the meter  *)
(* of Meter over a half-duplex serial line.                                *)
(*                                                                         *)
(* stage names the call readSerialPort is in; phase where that call is:    *)
(*   "call"  about to build its request,                                   *)
(*   "wait"  in the loop of readDLMSPacket with the request sent,          *)
(*   "back"  com_readDataBlock has returned reply,                         *)
(*   "spin"  in the empty loop of com_readDataBlock on reply.moreData,     *)
(*   "poll"  in the loop of com_readSerialPort, reads returning no bytes.  *)
(* The stages "ic..." are com_updateInvocationCounter, the ones from       *)
(* "head" to "auth" com_initializeConnection, "item" the loop over the     *)
(* objects, "release" and "disc" com_close.                                *)
(*                                                                         *)
(* A request is handled by the meter when it is (re)sent; its answer stays *)
(* on the line until the client reads it.  Each loss, write error, CRC     *)
(* error, read error, late answer or restart takes one from the budget.    *)
(***************************************************************************)
EXTENDS Meter, SequencesExt

CONSTANTS
  Arguments,     \* the command lines considered
  MeterCounters, \* the meter's invocation counter before the run
  HeadFailures,  \* may tcsetattr fail
  Restarts,      \* may the meter restart
  Disturbances   \* how many disturbances one run may see

Items == {"meter_sn", "energy", "relay", "off", "on"}
CommandLines == [security: {"low", "high"}, item: Items, server: {0, 1}]

ASSUME SessionAssumption ==
  /\ Arguments \subseteq CommandLines
  /\ MeterCounters \subseteq Counters
  /\ HeadFailures \in BOOLEAN /\ Restarts \in BOOLEAN
  /\ Disturbances \in Nat

VARIABLES
  args,        \* the command line
  stage, phase,
  tries,       \* times the request has been sent: pos - 1 in readDLMSPacket
  settings,    \* connection->settings
  saved,       \* locals add, auth and security of com_updateInvocationCounter
  tx,          \* the last request sent
  line,        \* answers in flight to the client, oldest first
  meter,
  reply,       \* return code and answer of com_readDataBlock
  ret,         \* the local ret of readSerialPort
  parse_stage, \* poll_result->parse_stage
  todo,        \* the objects still to be handled
  out,         \* labelled values printed so far
  used,        \* history: invocation counters ciphered with so far
  budget       \* disturbances left

connectionVars == <<settings, saved, parse_stage>>
lineVars == <<tx, line, meter, tries, used, budget>>
vars == <<args, stage, phase, tries, settings, saved, tx, line, meter, reply,
          ret, parse_stage, todo, out, used, budget>>

Stages == {"open", "icHead", "icSnrm", "icAarq", "icRead", "icDisc", "head",
           "snrm", "aarq", "auth", "item", "release", "disc", "exit"}

Phases == {"call", "wait", "back", "spin", "poll"}

Identity(a) ==
  [clientAddress  |-> 111,
   authentication |-> IF a.security = "high" THEN "HIGH_GMAC" ELSE "NONE",
   security |-> IF a.security = "high" THEN "AUTHENTICATION_ENCRYPTION" ELSE "NONE"]

PublicClient ==
  [clientAddress |-> 16, authentication |-> "NONE", security |-> "NONE"]

connectMeter(a) == Assume(cl_init(a.server), Identity(a))

ObjectsOf(item) == IF item = "energy" THEN <<"meter_sn", "energy">> ELSE <<item>>

Init ==
  /\ args \in Arguments
  /\ stage = "open" /\ phase = "call" /\ tries = 0
  /\ settings = connectMeter(args)
  /\ saved = Identity(args)
  /\ tx = NoRequest /\ line = <<>>
  /\ \E c \in MeterCounters, r \in {0, 1} : meter = FreshMeter(c, r)
  /\ reply = [ret |-> "OK", answer |-> NoAnswer] /\ ret = "OK"
  /\ parse_stage = 0 /\ todo = ObjectsOf(args.item)
  /\ out = {} /\ used = {} /\ budget = Disturbances
-----------------------------------------------------------------------------
(* readDLMSPacket: sending, resending once, receiving.                     *)

Disturb == budget > 0 /\ budget' = budget - 1

Hears(q, m) == IF settings.serverAddress = 0 THEN {m}
               ELSE IF m.received THEN Repeats(m) ELSE Reactions(m, q)

Returned(r, a) ==
  phase' = "back" /\ reply' = [ret |-> r, answer |-> a]

sendData(q, m) ==
  \/ /\ \E n \in Hears(q, m) : meter' = n /\ line' = line \o n.last
     /\ phase' = "wait" /\ UNCHANGED <<reply, budget>>
  \/ /\ Disturb                                  \* the answer is lost
     /\ meter' \in Hears(q, m)
     /\ phase' = "wait" /\ UNCHANGED <<reply, line>>
  \/ /\ Disturb                                  \* the request is lost
     /\ meter' = m /\ phase' = "wait" /\ UNCHANGED <<reply, line>>
  \/ /\ Disturb                                  \* write fails
     /\ meter' = m /\ Returned("COMMUNICATION_ERROR", NoAnswer) /\ UNCHANGED line

(* Building a request and handing it to com_readDataBlock.                 *)
Request(b) ==
  /\ phase = "call"
  /\ settings' = b.settings
  /\ IF b.ret # "OK" \/ b.message = NoRequest
     THEN Returned(b.ret, NoAnswer) /\ UNCHANGED lineVars
     ELSE /\ tx' = b.message /\ used' = used \cup b.message.ics /\ tries' = 1
          /\ sendData(b.message, [meter EXCEPT !.received = FALSE, !.last = <<>>])
  /\ UNCHANGED <<args, stage, saved, ret, parse_stage, todo, out>>

Waiting == phase = "wait" /\ UNCHANGED <<args, stage, connectionVars, ret, todo, out>>

(* Nothing arrived within waitTime: the answer is late, or there is none.  *)
Silence == line # <<>> => budget > 0
SilenceTaken == budget' = IF line # <<>> THEN budget - 1 ELSE budget

(* Mutation of Resend: pos is not incremented. *)
ResendUncounted ==
  /\ Waiting /\ tries = 1 /\ tries' = 1
  /\ line = <<>>
  /\ sendData(tx, meter)
  /\ UNCHANGED <<tx, used>>

Resend ==
  /\ Waiting /\ tries = 1 /\ tries' = 2
  /\ line = <<>>
  /\ sendData(tx, meter)
  /\ UNCHANGED <<tx, used>>

ResendLate ==
  /\ Waiting /\ tries = 1 /\ tries' = 2
  /\ line # <<>> /\ Disturb
  /\ meter' \in Hears(tx, meter) /\ line' = line \o meter'.last
  /\ UNCHANGED <<phase, reply, tx, used>>

GiveUp ==
  /\ Waiting /\ tries = 2 /\ Silence /\ SilenceTaken
  /\ Returned("RECEIVE_FAILED", NoAnswer)
  /\ UNCHANGED <<tx, line, meter, tries, used>>

(* One read takes every byte that has arrived; only the first frame is     *)
(* looked at, the next call sets data.size back to 0.                      *)
Receive ==
  /\ Waiting /\ line # <<>>
  /\ line' \in Suffixes(Tail(line))
  /\ LET a == Head(line)
         r == dlms_getPdu(settings, a)
     IN IF r = "OK" /\ a.more
        THEN phase' = "spin" /\ UNCHANGED reply
        ELSE Returned(r, a)
  /\ UNCHANGED <<tx, meter, tries, used, budget>>

Corrupt ==
  /\ Waiting /\ line # <<>> /\ Disturb
  /\ line' = Tail(line) /\ Returned("WRONG_CRC", NoAnswer)
  /\ UNCHANGED <<tx, meter, tries, used>>

ReadFails ==
  /\ Waiting /\ Disturb /\ Returned("COMMUNICATION_ERROR", NoAnswer)
  /\ UNCHANGED <<tx, line, meter, tries, used>>

(* The port hangs up: from now on reads return at once, with no bytes.     *)
HangUp ==
  /\ Waiting /\ Disturb /\ phase' = "poll"
  /\ UNCHANGED <<tx, line, meter, tries, used, reply>>

(* A read of no bytes is not counted as waiting, and tried again.          *)
Poll == phase = "poll" /\ UNCHANGED vars

Spin == phase = "spin" /\ UNCHANGED vars

Exchange == \/ Resend \/ ResendLate \/ GiveUp \/ Receive \/ Corrupt \/ ReadFails
            \/ HangUp \/ Poll \/ Spin
-----------------------------------------------------------------------------
(* Moving on to the next call.                                             *)

At(s) == stage = s /\ phase = "call"
Back(s) == stage = s /\ phase = "back" /\ UNCHANGED <<args, lineVars, reply, out>>
Goto(s) == stage' = s /\ phase' = "call"
Quit(code) == ret' = code /\ Goto("release")

(* reply parsed by an operator of Client, or the error of the exchange.    *)
Parsed(Parse(_, _)) ==
  IF reply.ret = "OK" THEN Parse(settings, reply.answer) ELSE Digest(reply.ret, settings)

(* The settings become the parsed ones; on an error, close.                *)
Proceed(d, next) ==
  /\ settings' = d.settings
  /\ IF d.ret = "OK" THEN Goto(next) /\ UNCHANGED ret ELSE Quit(d.ret)
  /\ UNCHANGED <<saved, parse_stage, todo>>

com_open ==
  /\ At("open")
  /\ \/ Goto(IF isCiphered(settings) THEN "icHead" ELSE "head") /\ UNCHANGED ret
     \/ ret' = "ERROR" /\ Goto("exit")
  /\ UNCHANGED <<args, connectionVars, lineVars, reply, todo, out>>

(* tcsetattr(TCSAFLUSH) drops what has arrived; late answers may follow.   *)
com_initializeOpticalHead(next) ==
  \/ line' \in Suffixes(line) /\ Goto(next) /\ UNCHANGED ret
  \/ HeadFailures /\ UNCHANGED line /\ Quit("INVALID_PARAMETER")

IcHead ==
  /\ At("icHead")
  /\ com_initializeOpticalHead("icSnrm")
  /\ saved' = IF stage' = "icSnrm" THEN IdentityOf(settings) ELSE saved
  /\ settings' = IF stage' = "icSnrm" THEN Assume(settings, PublicClient) ELSE settings
  /\ UNCHANGED <<args, tx, meter, tries, used, budget, reply, parse_stage, todo, out>>

IcSnrm == At("icSnrm") /\ Request(cl_snrmRequest(settings))

(* A failed SNRM is not an error here.                                     *)
IcSnrmBack ==
  /\ Back("icSnrm")
  /\ settings' = Parsed(cl_parseUAResponse).settings
  /\ Goto("icAarq")
  /\ UNCHANGED <<saved, parse_stage, ret, todo>>

IcAarq == At("icAarq") /\ Request(cl_aarqRequest(settings))
IcAarqBack == Back("icAarq") /\ Proceed(Parsed(cl_parseAAREResponse), "icRead")

IcRead == At("icRead") /\ Request(cl_readLN(settings, "ic"))

(* Mutations of ReadCounter: the counter of the last message is used, and  *)
(* the identity is restored before the disconnect request.                 *)
ReadCounterOfLast(s, a) ==
  Digest("OK", [s EXCEPT !.invocationCounter = dlms_handleGetResponse(a).number])
ReadCounterAndRestore(s, a) ==
  Digest("OK", [Assume(s, saved) EXCEPT !.invocationCounter =
                  (1 + dlms_handleGetResponse(a).number) % IcMod])

(* An answer without a value reads as 0.                                   *)
ReadCounter(s, a) ==
  Digest("OK", [s EXCEPT !.invocationCounter =
                  (1 + dlms_handleGetResponse(a).number) % IcMod])

IcReadBack == Back("icRead") /\ Proceed(Parsed(ReadCounter), "icDisc")

IcDisc == At("icDisc") /\ Request(cl_disconnectRequest(settings))

(* Mutation of RestoreIdentity: the security policy stays off. *)
RestoreIdentityInClear(s) == [Assume(s, saved) EXCEPT !.security = "NONE"]

RestoreIdentity(s) == Assume(s, saved)

IcDiscBack ==
  /\ Back("icDisc")
  /\ settings' = RestoreIdentity(settings)
  /\ Goto("head")
  /\ UNCHANGED <<saved, parse_stage, ret, todo>>

OpticalHead ==
  /\ At("head")
  /\ com_initializeOpticalHead("snrm")
  /\ UNCHANGED <<args, connectionVars, tx, meter, tries, used, budget, reply, todo, out>>

Snrm == At("snrm") /\ Request(cl_snrmRequest(settings))
SnrmBack == Back("snrm") /\ Proceed(Parsed(cl_parseUAResponse), "aarq")

Aarq == At("aarq") /\ Request(cl_aarqRequest(settings))
AarqBack ==
  /\ Back("aarq")
  /\ LET d == Parsed(cl_parseAAREResponse)
     IN Proceed(d, IF d.settings.authentication = "HIGH_GMAC" THEN "auth" ELSE "item")

Auth == At("auth") /\ Request(cl_getApplicationAssociationRequest(settings))
AuthBack ==
  Back("auth") /\ Proceed(Parsed(cl_parseApplicationAssociationResponse), "item")
-----------------------------------------------------------------------------
(* The loop over the objects of the comm item.                             *)

Reading == args.item \in {"meter_sn", "energy", "relay"}

(* Mutation of NextObject: the result of the object is not stored. *)
NextObjectDropsCode(code) ==
  /\ ret' = "OK" /\ todo' = Tail(todo) /\ phase' = "call"
  /\ stage' = IF Len(todo) = 1 THEN "release" ELSE "item"

(* ret is overwritten by every object: the last one decides.               *)
NextObject(code) ==
  /\ ret' = code /\ todo' = Tail(todo) /\ phase' = "call"
  /\ stage' = IF Len(todo) = 1 THEN "release" ELSE "item"

Read == At("item") /\ Reading /\ Request(cl_readLN(settings, Head(todo)))

(* The zeroed object keeps its value if nothing was read; only a relay     *)
(* object without a value can be turned into text.                         *)
ReadValue == IF reply.ret = "OK" THEN dlms_handleGetResponse(reply.answer) ELSE NoValue
Readable  == reply.ret \in {"OK", "READ_WRITE_DENIED"}
Printable == ReadValue # NoValue \/ Head(todo) = "relay"

(* Mutation of parse_rx: the stage is not advanced past the serial number. *)
parse_rxStays ==
  IF args.item = "energy" THEN UNCHANGED <<out, parse_stage>>
  ELSE out' = out \cup {<<args.item, ReadValue>>} /\ UNCHANGED parse_stage

parse_rx ==
  CASE args.item = "meter_sn" ->
         out' = out \cup {<<"meter_sn", ReadValue>>} /\ UNCHANGED parse_stage
    [] args.item = "energy" /\ parse_stage = 0 ->
         parse_stage' = 1 /\ UNCHANGED out
    [] args.item = "energy" /\ parse_stage = 1 ->
         parse_stage' = 2 /\ out' = out \cup {<<"energy", ReadValue>>}
    [] args.item = "relay" ->
         out' = out \cup {<<"relay", ReadValue>>} /\ UNCHANGED parse_stage
    [] OTHER -> UNCHANGED <<out, parse_stage>>

ReadBack ==
  /\ stage = "item" /\ phase = "back" /\ Reading
  /\ IF Readable /\ Printable
     THEN parse_rx /\ NextObject("OK")
     ELSE /\ NextObject(IF Readable THEN "ERROR" ELSE reply.ret)
          /\ UNCHANGED <<out, parse_stage>>
  /\ UNCHANGED <<args, settings, saved, lineVars, reply>>

Command == At("item") /\ ~ Reading /\ Request(cl_methodLN(settings, "ACTION", Head(todo)))

CommandBack ==
  Back("item") /\ ~ Reading /\ NextObject(reply.ret) /\ UNCHANGED connectionVars

(* com_close: failures are shown and otherwise ignored.                    *)
Release == At("release") /\ Request(cl_releaseRequest2(settings))
ReleaseBack ==
  Back("release") /\ Goto("disc") /\ UNCHANGED <<connectionVars, ret, todo>>

(* Mutation of cl_clear: the client address is zeroed, too. *)
cl_clearAll(s) == [s EXCEPT !.invokeID = 0, !.invocationCounter = 0,
                            !.security = "NONE", !.clientAddress = 0]

cl_clear(s) == [s EXCEPT !.invokeID = 1, !.invocationCounter = 1,
                         !.security = "NONE", !.maxPduSize = DefaultPdu]

Disc == At("disc") /\ Request(cl_disconnectRequest(settings))
DiscBack ==
  /\ Back("disc") /\ Goto("exit")
  /\ settings' = cl_clear(settings)
  /\ UNCHANGED <<saved, parse_stage, ret, todo>>

Exited == At("exit") /\ UNCHANGED vars

MeterRestarts ==
  /\ Restarts /\ Disturb /\ stage # "exit" /\ phase \in {"call", "wait"}
  /\ meter' = Restarted(meter)
  /\ UNCHANGED <<args, stage, phase, connectionVars, tx, line, tries, used, reply,
                 ret, todo, out>>
-----------------------------------------------------------------------------
Updating == IcHead \/ IcSnrm \/ IcSnrmBack \/ IcAarq \/ IcAarqBack
              \/ IcRead \/ IcReadBack \/ IcDisc \/ IcDiscBack
Connecting == OpticalHead \/ Snrm \/ SnrmBack \/ Aarq \/ AarqBack \/ Auth \/ AuthBack
Handling == Read \/ ReadBack \/ Command \/ CommandBack
Closing == Release \/ ReleaseBack \/ Disc \/ DiscBack \/ Exited

Client_ == com_open \/ Updating \/ Connecting \/ Handling \/ Closing \/ Exchange

Next == Client_ \/ MeterRestarts

Spec == Init /\ [][Next]_vars

(* The program is one thread that is always scheduled.                     *)
FairSpec == Spec /\ WF_vars(Client_)
-----------------------------------------------------------------------------
(* Types.                                                                  *)

TypeOK ==
  /\ args \in CommandLines
  /\ stage \in Stages /\ phase \in Phases
  /\ tries \in 0..2
  /\ settings \in Settings
  /\ saved \in Identities
  /\ tx \in Requests /\ line \in Seq(Answers) /\ meter \in Meters
  /\ reply \in [ret: Codes, answer: Answers] /\ ret \in Codes
  /\ parse_stage \in 0..2 /\ todo \in Seq(Items)
  /\ out \in SUBSET (Objects \X Value)
  /\ used \in SUBSET Counters /\ budget \in Nat
-----------------------------------------------------------------------------
(* Safety.                                                                 *)

(* Reading the invocation counter borrows the public client's identity     *)
(* (com_updateInvocationCounter), and its AARE may overwrite that too;     *)
(* once it is done the configured one is back, and the link is opened and  *)
(* the AARQ sent with it. After that only the AARE to this AARQ may have   *)
(* changed it (apdu_updateAuthentication, apdu_parseUserInformation): to   *)
(* what it names, and never to another protection than a configured one.   *)
ConfiguredIdentity ==
  LET configured == Identity(args)
  IN /\ stage \in {"head", "snrm", "aarq"} => IdentityOf(settings) = configured
     /\ stage \in {"auth", "item"} =>
          /\ settings.clientAddress = configured.clientAddress
          /\ settings.authentication
               \in {configured.authentication} \cup {n.mechanism : n \in Namings}
          /\ settings.security
               \in {configured.security}
                  \cup IF configured.security # "NONE" THEN {}
                       ELSE {n.protection : n \in Namings}

(* Every frame after an SNRM, the DISC and release of com_close included,  *)
(* carries the client address the link was opened with.                    *)
LinkAddress ==
  [][tx' # tx /\ tx'.cmd # "SNRM" => tx'.address = tx.address]_vars

(* A PDU size the meter granted in one association is never proposed in    *)
(* the next: cl_disconnectRequest and cl_releaseRequest2 put it back.      *)
DefaultPduProposed ==
  [][tx' # tx /\ tx'.cmd = "AARQ" => tx'.pdu = DefaultPdu]_vars

(* HDLC parameters lowered by the UA of the counter association are back   *)
(* at their defaults when the second link is opened.                       *)
InfoRestored == At("snrm") => settings.maxInfo = DefaultInfo

(* No invocation counter is used for two messages under the same key.      *)
CountersFresh == [][tx' # tx => tx'.ics \cap used = {}]_vars

(* The client works on objects only in an association that the meter, too, *)
(* takes to be established with the reading client.                        *)
AssociationAgreed ==
  stage = "item" => meter.link = 111 /\ meter.assoc = "client"

(* A serial number or energy that is printed was read from that object,    *)
(* whatever late or repeated answers were on the line.                     *)
ReadingsGenuine ==
  \A o \in out : o[1] \in {"meter_sn", "energy"} => o[2].object = o[1]

(* Exit status 0 for "100 - get meter sn" means the number was printed.    *)
SerialNumberReported ==
  stage = "exit" /\ ret = "OK" /\ args.item = "meter_sn" =>
    \E o \in out : o[1] = "meter_sn"

(* The same for "1300 - get kwh".                                          *)
EnergyReported ==
  stage = "exit" /\ ret = "OK" /\ args.item = "energy" =>
    \E o \in out : o[1] = "energy"

(* Exit status 0 for "5600 - set relay on" and "5700 - set relay off"      *)
(* means that the relay is where it was told to go.                        *)
Commanded == IF args.item = "on" THEN 1 ELSE 0
RelayCommandDone ==
  stage = "exit" /\ ret = "OK" /\ args.item \in {"on", "off"} =>
    meter.relay = Commanded
ProtectedRelayCommandDone == args.security = "high" => RelayCommandDone

(* "5500 - get relay status" prints the state of the meter's relay.        *)
RelayStatusTrue ==
  \A o \in out : o[1] = "relay" => o[2].number = meter.relay

(* When the program exits the meter's link and association are closed.     *)
LinkClosedAtExit ==
  stage = "exit" => meter.link = 0 /\ meter.assoc = "none"

(* A release request is sent only while the HDLC link is up.               *)
ReleaseNeedsLink ==
  [][tx' # tx /\ tx'.cmd = "RLRQ" => "HDLC" \in settings.connected]_vars

(* On a line without disturbances every ciphered request carries a counter *)
(* the meter has not seen: com_updateInvocationCounter starts one ahead of *)
(* the counter it reads.                                                   *)
CounterAhead ==
  [][tx' # tx => \A i \in tx'.ics : i > meter.ic]_vars

(* Without ciphering what is printed is the state of the relay.            *)
PlainRelayStatusTrue == args.security = "low" => RelayStatusTrue

(* Liveness: the program ends.                                             *)
Terminates == <>(stage = "exit")

(* Whatever the meter and the line do, there are two places where the      *)
(* program can hang: the loop of com_readDataBlock on reply.moreData, and  *)
(* that of com_readSerialPort on a port whose reads return no bytes.       *)
EndsOrSpins == <>(stage = "exit" \/ phase \in {"spin", "poll"})
=============================================================================
