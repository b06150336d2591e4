-------------------------------- MODULE Receiver -------------------------------
(***************************************************************************)
(* readDLMSPacket and com_readSerialPort (communication.c): a request is   *)
(* sent, the bytes of the answer are collected as they come in until       *)
(* dlms_getHdlcData finds a whole frame in them, and the request is sent   *)
(* once more after a silence. The port is open with O_NONBLOCK: a read     *)
(* returns what has arrived, EAGAIN when that is nothing, or no bytes when *)
(* the port has hung up.                                                   *)
(***************************************************************************)
EXTENDS Hdlc

CONSTANTS
  clientAddress, serverAddress,  \* of settings
  Exchanges,  \* the control byte and the information of every request's answer
  Preludes,   \* what may stand before an answer on the line
  Cuts,       \* the lengths to which each answer may be cut, 0 when it is lost
  Spots,      \* the bytes of each answer that may be changed, counted from 1
  Changes,    \* what may be added to such a byte
  Faults,     \* how many answers are disturbed by a prelude, a cut or a change
  HangUps,    \* how often the port hangs up
  WaitTime,   \* waitTime, in units of the 100 ms that readTime counts
  RECEIVE_BUFFER_SIZE,
  Capacity    \* of connection.data

ASSUME ReceiverAssumption ==
  /\ {clientAddress, serverAddress} \subseteq Numbers
  /\ Exchanges \in Seq([frame: Byte, info: Seq(Byte)])
  /\ Preludes \subseteq Seq(Byte) /\ Changes \subseteq Nat
  /\ {Faults, HangUps, WaitTime, RECEIVE_BUFFER_SIZE, Capacity} \subseteq Nat

VARIABLES
  line,      \* bytes on their way to the client or waiting in the port
  hungUp,    \* the port has hung up
  data,      \* connection.data; connection.data.position is d.position
  d,         \* what dlms_getHdlcData keeps
  readTime,  \* of com_readSerialPort, in units of 100 ms
  pos,       \* attempts of readDLMSPacket: 2, then 3
  stage,     \* "idle" or "reading"
  ret,       \* what readDLMSPacket returned
  reply,     \* the information it handed over
  exchange,  \* which request this is
  damaged,   \* history: an answer was cut or changed
  budget     \* answers that may still be damaged

vars == <<line, hungUp, data, d, readTime, pos, stage, ret, reply, exchange, damaged,
          budget>>

settings == [server |-> FALSE, clientAddress |-> clientAddress,
             serverAddress |-> serverAddress]

(* The frames the meter answers with.                                      *)
Answer ==
  [k \in DOMAIN Exchanges |->
     Frame(clientAddress, serverAddress, Exchanges[k].frame, FALSE, Exchanges[k].info)]

(* What is left of an answer that is lost, cut off, or changed in a byte.  *)
Damaged ==
  [k \in DOMAIN Exchanges |->
     {SubSeq(Answer[k], 1, n) : n \in Cuts[k]}
     \cup {[Answer[k] EXCEPT ![i] = (@ + c) % 256] : i \in Spots[k], c \in Changes}]

ASSUME DamageAssumption ==
  \A k \in DOMAIN Exchanges : /\ Cuts[k] \subseteq 0..Len(Answer[k])
                               /\ Spots[k] \subseteq 1..Len(Answer[k])

(* What an answer needs in order to be found among others. It has no flags *)
(* but its own two, its length fits into the eleven bits of its format,    *)
(* and it is a command the client knows or holds information that begins   *)
(* with the LLC bytes or unlike them.                                      *)
PlainAnswers ==
  \A k \in DOMAIN Exchanges :
    LET frame == Exchanges[k].frame
        info == Exchanges[k].info
    IN /\ \A i \in 2..(Len(Answer[k]) - 1) : Answer[k][i] # Flag
       /\ Len(Answer[k]) <= 2049
       /\ IF frame % 4 = 3 THEN frame \in Commands /\ ~ IsPrefix(LLC_REPLY_BYTES, info)
          ELSE \/ info = <<>> \/ IsPrefix(LLC_REPLY_BYTES, info)
               \/ \E i \in 1..3 : i <= Len(info) /\ info[i] # LLC_REPLY_BYTES[i]

(* A line that loses answers or delays them, and does nothing else.        *)
WholeAnswers ==
  Preludes = {} /\ Changes = {} /\ \A k \in DOMAIN Exchanges : Cuts[k] \subseteq {0}

(* connection.data has room for two answers but their closing flags, and   *)
(* for one more read.                                                      *)
RoomEnough ==
  \A j, k \in DOMAIN Exchanges :
    Len(Answer[j]) + Len(Answer[k]) + RECEIVE_BUFFER_SIZE <= Capacity + 2

Init ==
  /\ line = <<>> /\ hungUp = FALSE
  /\ data = <<>> /\ d = ReplyInit
  /\ readTime = 0 /\ pos = 2
  /\ stage = "idle" /\ ret = "OK" /\ reply = <<>>
  /\ exchange = 0
  /\ damaged = FALSE /\ budget = Faults

(* sendData, and what comes back: the answer, the answer after bytes that  *)
(* do not belong to it, or what is left of it.                             *)
SendAndAnswer(k) ==
  \/ /\ line' = line \o Answer[k]
     /\ UNCHANGED <<damaged, budget>>
  \/ /\ budget > 0
     /\ budget' = budget - 1
     /\ \E prelude \in Preludes : line' = line \o prelude \o Answer[k]
     /\ UNCHANGED damaged
  \/ /\ budget > 0
     /\ budget' = budget - 1
     /\ \E bytes \in Damaged[k] : line' = line \o bytes /\ damaged' = (damaged \/ bytes # <<>>)

(* Mutation of Begin: the bytes of the last exchange are kept. *)
BeginKept ==
  /\ stage = "idle"
  /\ exchange + 1 \in DOMAIN Exchanges
  /\ exchange' = exchange + 1
  /\ stage' = "reading"
  /\ d' = [ReplyInit EXCEPT !.position = d.position]
  /\ readTime' = 0 /\ pos' = 2
  /\ SendAndAnswer(exchange + 1)
  /\ UNCHANGED <<hungUp, data, ret, reply>>

(* readDLMSPacket up to its loop.                                          *)
Begin ==
  /\ stage = "idle"
  /\ exchange + 1 \in DOMAIN Exchanges
  /\ exchange' = exchange + 1
  /\ stage' = "reading"
  /\ data' = <<>> /\ d' = ReplyInit
  /\ readTime' = 0 /\ pos' = 2
  /\ SendAndAnswer(exchange + 1)
  /\ UNCHANGED <<hungUp, ret, reply>>

(* The end of com_readSerialPort: a closing flag is searched from the last *)
(* byte down to the second one, in six bytes or more.                      *)
EopFound(bytes) == Len(bytes) > 5 /\ \E i \in 2..Len(bytes) : bytes[i] = Flag

(* dlms_getDataFromFrame: the information of a whole frame.                *)
dlms_getDataFromFrame(bytes, r) == SubSeq(bytes, r.position + 1, r.packetLength)

(* cl_getData2 and what readDLMSPacket makes of its result: an error or a  *)
(* whole frame ends the exchange, otherwise com_readSerialPort begins      *)
(* anew.                                                                   *)
cl_getData2(bytes) ==
  \E r \in {dlms_getHdlcData(settings, bytes, d)} :
    /\ d' = r
    /\ stage' = IF r.ret # "OK" \/ r.complete THEN "idle" ELSE "reading"
    /\ ret' = r.ret
    /\ reply' = IF r.ret = "OK" /\ r.complete THEN dlms_getDataFromFrame(bytes, r)
                ELSE <<>>
    /\ readTime' = 0

(* A read that returns n bytes, and the work on them.                      *)
Read ==
  /\ stage = "reading" /\ ~ hungUp
  /\ \E n \in 1..Len(line) :
       LET bytes == data \o SubSeq(line, 1, n)
       IN /\ n <= RECEIVE_BUFFER_SIZE
          /\ data' = bytes
          /\ line' = SubSeq(line, n + 1, Len(line))
          /\ IF EopFound(bytes) THEN cl_getData2(bytes)
             ELSE UNCHANGED <<d, stage, ret, reply, readTime>>
  /\ UNCHANGED <<hungUp, pos, exchange, damaged, budget>>

(* Mutation of NoData: the time is counted and never compared. *)
NoDataOnly ==
  /\ stage = "reading" /\ ~ hungUp
  /\ readTime < 3
  /\ readTime' = readTime + 1
  /\ UNCHANGED <<line, hungUp, data, d, pos, stage, ret, reply, exchange, damaged,
                 budget>>

(* EAGAIN while waitTime has not passed.                                   *)
NoData ==
  /\ stage = "reading" /\ ~ hungUp
  /\ readTime <= WaitTime
  /\ readTime' = readTime + 1
  /\ UNCHANGED <<line, hungUp, data, d, pos, stage, ret, reply, exchange, damaged,
                 budget>>

(* Mutation of Resend: the bytes of the first attempt are dropped, the     *)
(* position in them is kept. *)
ResendEmptied ==
  /\ stage = "reading" /\ ~ hungUp
  /\ readTime > WaitTime /\ pos = 2
  /\ pos' = 3
  /\ readTime' = 0
  /\ data' = <<>>
  /\ SendAndAnswer(exchange)
  /\ UNCHANGED <<hungUp, d, stage, ret, reply, exchange>>

(* Mutation of Resend: attempts are not counted, whether or not the meter  *)
(* still answers. *)
ResendAgain ==
  /\ stage = "reading" /\ ~ hungUp
  /\ readTime > WaitTime
  /\ readTime' = 0
  /\ UNCHANGED <<line, hungUp, data, d, pos, stage, ret, reply, exchange, damaged, budget>>

(* EAGAIN once too often: RECEIVE_FAILED, and the request is sent again    *)
(* the first time.                                                         *)
Resend ==
  /\ stage = "reading" /\ ~ hungUp
  /\ readTime > WaitTime /\ pos = 2
  /\ pos' = 3
  /\ readTime' = 0
  /\ SendAndAnswer(exchange)
  /\ UNCHANGED <<hungUp, data, d, stage, ret, reply, exchange>>

GiveUp ==
  /\ stage = "reading" /\ ~ hungUp
  /\ readTime > WaitTime /\ pos = 3
  /\ stage' = "idle"
  /\ ret' = "RECEIVE_FAILED"
  /\ reply' = <<>>
  /\ UNCHANGED <<line, hungUp, data, d, readTime, pos, exchange, damaged, budget>>

(* The port hangs up, as a USB converter does when it is unplugged.        *)
HangUp ==
  /\ HangUps > 0 /\ ~ hungUp
  /\ hungUp' = TRUE
  /\ UNCHANGED <<line, data, d, readTime, pos, stage, ret, reply, exchange, damaged,
                 budget>>

(* A read that returns no bytes: com_readSerialPort sleeps and tries again *)
(* without counting the time.                                              *)
ReadNothing ==
  /\ stage = "reading" /\ hungUp
  /\ UNCHANGED vars

Next == Begin \/ Read \/ NoData \/ Resend \/ GiveUp \/ HangUp \/ ReadNothing

(* A program that reads goes on; nobody has to begin or to hang up.        *)
Fairness == WF_vars(NoData \/ Resend \/ GiveUp \/ Read)

Spec == Init /\ [][Next]_vars /\ Fairness

-----------------------------------------------------------------------------
TypeOK ==
  /\ line \in Seq(Byte) /\ data \in Seq(Byte) /\ reply \in Seq(Byte)
  /\ d.position \in 0..(Len(data) + 3)
  /\ readTime \in 0..(WaitTime + 1) /\ pos \in {2, 3}
  /\ stage \in {"idle", "reading"}
  /\ ret \in ReadCodes \cup {"RECEIVE_FAILED"}
  /\ exchange \in 0..Len(Exchanges)
  /\ hungUp \in BOOLEAN /\ damaged \in BOOLEAN /\ budget \in 0..Faults

(* A reply handed over is the information of an answer the meter gave, to  *)
(* this request or, late, to an earlier one, whatever happened to the      *)
(* bytes on the line and however they were cut up by the reads.            *)
Information(k) ==
  LET llc == dlms_checkLLCBytes(settings, Exchanges[k].info, 0)
  IN SubSeq(Exchanges[k].info, llc + 1, Len(Exchanges[k].info))

Genuine ==
  stage = "idle" /\ ret = "OK" /\ exchange > 0 =>
    \E k \in 1..exchange : reply = Information(k)

(* The exchange fails for want of an answer only when the answer has not   *)
(* been received: it is found wherever it stands among the bytes collected *)
(* over both attempts, behind noise and broken frames.                     *)
Received(bytes) ==
  \E n \in 0..(Len(data) - Len(bytes)) : SubSeq(data, n + 1, n + Len(bytes)) = bytes

NoAnswerMissed ==
  stage = "idle" /\ ret = "RECEIVE_FAILED" => ~ Received(Answer[exchange])

(* Unless an answer was damaged an exchange ends well or in silence,       *)
(* however its bytes are cut up by the reads and whatever precedes it.     *)
ErrorsNeedDamage == ~ damaged => ret \in {"OK", "RECEIVE_FAILED"}

(* The bytes of an exchange fit into connection.data: com_readSerialPort   *)
(* looks at RECEIVE_BUFFER_SIZE only, never at the room that is left.      *)
FitsBuffer == Len(data) <= Capacity

(* Every exchange ends ("Reply wait time is 5 seconds.", connection.c)     *)
(* unless the port hangs up: reads of no bytes are not counted as waiting. *)
EndsUnlessHungUp == stage = "reading" ~> stage = "idle" \/ hungUp
================================================================================
