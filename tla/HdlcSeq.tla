-------------------------------- MODULE HdlcSeq --------------------------------
(***************************************************************************)
(* The frame numbers of HDLC in the control bytes senderFrame and          *)
(* receiverFrame of dlmsSettings: getNextSend numbers what the client      *)
(* sends, checkFrame judges what it receives. dlms_getHdlcData ignores the *)
(* judgement, so here it is only recorded.                                 *)
(*                                                                         *)
(* A control byte is rrrfsss0 for a numbered frame (N(R), final bit,       *)
(* N(S)), ends in 01 for a supervisory and in 11 for an unnumbered one.    *)
(***************************************************************************)
EXTENDS Naturals, SequencesExt

CONSTANTS
  WindowSizeRX,  \* windowSizeRX: 1, or what a UA lowered it to
  MaxLinks,      \* links opened in one run
  MaxSent,       \* numbered frames sent per link
  Disturbances   \* losses, echoes and late answers one run may see

ASSUME HdlcSeqAssumption ==
  /\ WindowSizeRX \in {0, 1}
  /\ MaxLinks \in Nat /\ MaxSent \in Nat /\ Disturbances \in Nat

Byte == 0..255
Spinning == 3
SNRM == 147  \* 0x93
UA   == 115  \* 0x73
DISC == 83   \* 0x53

NS(frame) == (frame \div 2) % 8
NR(frame) == frame \div 32
Final(frame) == (frame \div 16) % 2 = 1
Unnumbered(frame)  == frame % 4 = 3
Supervisory(frame) == frame % 4 = 1
Numbered(frame)    == frame % 2 = 0

SetFinal(frame) == IF Final(frame) THEN frame ELSE frame + 16
Unfinal(frame)  == IF Final(frame) THEN frame - 16 ELSE frame

CLIENT_START_SENDER_FRAME_SEQUENCE   == 254  \* 0xFE
CLIENT_START_RCEIVER_FRAME_SEQUENCE  == 14   \* 0xE
SERVER_START_RECEIVER_FRAME_SEQUENCE == 254  \* 0xFE

increaseSendSequence(v) == ((v \div 16) * 16) + 2 * (((v \div 2) + 1) % 8)

(* Mutation of increaseReceiverSequence: the sum is cut off at 0xF0. *)
increaseReceiverSequenceStops(v) ==
  IF v + 32 > 255 THEN SetFinal(v) ELSE SetFinal(v + 32)

(* Mutation of increaseReceiverSequence: the sum is not an unsigned char. *)
increaseReceiverSequenceWide(v) == SetFinal(v + 32)

increaseReceiverSequence(v) == SetFinal((v + 32) % 256)

-----------------------------------------------------------------------------
VARIABLES
  senderFrame, receiverFrame,  \* of dlmsSettings
  connected,  \* DLMS_CONNECTION_STATE_HDLC
  verdict,    \* what checkFrame returned last
  tx,         \* control byte of the last frame sent
  tries,      \* how often, 0 when no answer is awaited, Spinning after one
              \* that com_readDataBlock waits to be continued
  line,       \* control bytes in flight to the client
  peer,       \* the meter: V(S), V(R) and its last answer
  heard,      \* history: the meter heard tx
  gap,        \* history: it never heard some earlier frame of this link, or
              \* an echo of SNRM, read late, has reset the numbers
  clean,      \* history: nothing disturbed this link
  links,      \* links opened
  sent,       \* numbered frames sent on this link
  budget      \* disturbances left

frames == <<senderFrame, receiverFrame>>
vars == <<frames, connected, verdict, tx, tries, line, peer, heard, gap, clean,
          links, sent, budget>>

resetFrameSequence ==
  /\ senderFrame' = CLIENT_START_SENDER_FRAME_SEQUENCE
  /\ receiverFrame' = CLIENT_START_RCEIVER_FRAME_SEQUENCE

getNextSend == increaseReceiverSequence(increaseSendSequence(senderFrame))

(* The numbered frame that answers the last one sent.                      *)
Expected == increaseReceiverSequence(increaseSendSequence(receiverFrame))

(* A further frame of an answer whose first was not the final one.         *)
ExpectedNext == SetFinal(increaseSendSequence(receiverFrame))

InOrder(frame) ==
  \/ frame = Expected
  \/ /\ WindowSizeRX # 1
     /\ \/ frame = Unfinal(Expected)
        \/ ~ Final(receiverFrame) /\ frame \in {ExpectedNext, Unfinal(ExpectedNext)}

PreEstablished == receiverFrame = SERVER_START_RECEIVER_FRAME_SEQUENCE

EchoOfSNRM ==
  senderFrame \in {16, 254} /\ receiverFrame = CLIENT_START_RCEIVER_FRAME_SEQUENCE

FreshLink ==
  /\ senderFrame = CLIENT_START_SENDER_FRAME_SEQUENCE
  /\ receiverFrame = CLIENT_START_RCEIVER_FRAME_SEQUENCE

(* The echo test of checkFrame for a supervisory frame can never succeed:  *)
(* the client's own frames end in 0.                                       *)
EchoOfSender(frame) == frame = ((senderFrame \div 16) * 16) + (senderFrame % 2)

(* Mutation of checkFrame: a numbered frame is accepted in any order. *)
checkFrameUnordered(frame) ==
  /\ verdict' = TRUE
  /\ receiverFrame' = IF Numbered(frame) THEN frame ELSE receiverFrame
  /\ UNCHANGED senderFrame

checkFrame(frame) ==
  \/ /\ Unnumbered(frame) /\ frame = SNRM
     /\ verdict' = ~ EchoOfSNRM /\ resetFrameSequence
  \/ /\ Unnumbered(frame) /\ frame # SNRM
     /\ verdict' = (frame = UA => FreshLink) /\ UNCHANGED frames
  \/ /\ Supervisory(frame)
     /\ verdict' = ~ EchoOfSender(frame)
     /\ receiverFrame' = IF EchoOfSender(frame) THEN receiverFrame
                         ELSE increaseReceiverSequence(receiverFrame)
     /\ UNCHANGED senderFrame
  \/ /\ Numbered(frame)
     /\ verdict' = (InOrder(frame) \/ PreEstablished)
     /\ receiverFrame' = IF InOrder(frame) \/ PreEstablished
                         THEN frame ELSE receiverFrame
     /\ UNCHANGED senderFrame
-----------------------------------------------------------------------------
(* The meter's link layer, and the line.                                   *)

After(n) == (n + 1) % 8
Frame(ns, nr) == 32 * nr + 16 + 2 * ns

Hear(p, frame) ==
  IF Unnumbered(frame)
  THEN {[vs |-> 0, vr |-> 0, last |-> <<UA>>]}
  ELSE IF NS(frame) = p.vr
  THEN {[vs |-> After(p.vs), vr |-> After(p.vr),
         last |-> <<Frame(p.vs, After(p.vr))>>]}
  ELSE IF After(NS(frame)) = p.vr
  THEN {p, [p EXCEPT !.last = <<>>]}                \* a repetition
  ELSE {[p EXCEPT !.last = <<32 * p.vr + 17>>]}     \* receive ready

Disturb == budget > 0 /\ budget' = budget - 1

Transmit(frame, undisturbed) ==
  \/ /\ \E p \in Hear(peer, frame) : peer' = p /\ line' = line \o p.last
     /\ heard' = TRUE /\ clean' = undisturbed /\ UNCHANGED budget
  \/ /\ Disturb /\ clean' = FALSE                   \* an echo is read, too
     /\ \E p \in Hear(peer, frame) : peer' = p /\ line' = line \o <<frame>> \o p.last
     /\ heard' = TRUE
  \/ /\ Disturb /\ clean' = FALSE                   \* the answer is lost
     /\ peer' \in Hear(peer, frame) /\ heard' = TRUE /\ UNCHANGED line
  \/ /\ Disturb /\ clean' = FALSE                   \* the frame is lost
     /\ heard' = (heard /\ tries > 0) /\ UNCHANGED <<peer, line>>

Init ==
  /\ senderFrame = CLIENT_START_SENDER_FRAME_SEQUENCE
  /\ receiverFrame = CLIENT_START_RCEIVER_FRAME_SEQUENCE
  /\ connected = FALSE /\ verdict = TRUE /\ tx = DISC /\ tries = 0
  /\ line = <<>> /\ peer = [vs |-> 0, vr |-> 0, last |-> <<>>]
  /\ heard = TRUE /\ gap = FALSE /\ clean = TRUE
  /\ links = 0 /\ sent = 0 /\ budget = Disturbances

(* cl_snrmRequest.                                                         *)
Snrm ==
  /\ tries = 0 /\ ~ connected /\ links < MaxLinks
  /\ links' = links + 1
  /\ tries' = 1 /\ tx' = SNRM /\ sent' = 0 /\ gap' = FALSE
  /\ resetFrameSequence
  /\ Transmit(SNRM, line = <<>>)
  /\ UNCHANGED <<connected, verdict>>

(* dlms_getHdlcFrame of any request but SNRM and DISC, which also follows  *)
(* an SNRM that failed.                                                    *)
Information ==
  /\ tries = 0 /\ tx # DISC /\ sent < MaxSent
  /\ tries' = 1 /\ sent' = sent + 1 /\ gap' = (gap \/ ~ heard)
  /\ senderFrame' = getNextSend /\ tx' = senderFrame'
  /\ Transmit(tx', clean)
  /\ UNCHANGED <<receiverFrame, connected, verdict, links>>

(* cl_disconnectRequest.                                                   *)
Disc ==
  /\ tries = 0 /\ connected
  /\ tries' = 1 /\ tx' = DISC /\ connected' = FALSE
  /\ resetFrameSequence
  /\ Transmit(DISC, clean)
  /\ UNCHANGED <<verdict, links, sent, gap>>

(* Mutation of Resend: the frame is built again, with the next number. *)
ResendRenumbered ==
  /\ tries = 1 /\ tries' = 2
  /\ line = <<>>
  /\ senderFrame' = IF Numbered(tx) THEN getNextSend ELSE senderFrame
  /\ tx' = IF Numbered(tx) THEN senderFrame' ELSE tx
  /\ Transmit(tx', clean)
  /\ UNCHANGED <<receiverFrame, connected, verdict, gap, links, sent>>

(* readDLMSPacket after a silence: the same bytes again, once.             *)
Resend ==
  /\ tries = 1 /\ tries' = 2
  /\ line = <<>>
  /\ Transmit(tx, clean)
  /\ UNCHANGED <<frames, connected, verdict, tx, gap, links, sent>>

ResendLate ==
  /\ tries = 1 /\ tries' = 2
  /\ line # <<>> /\ Disturb /\ clean' = FALSE /\ heard' = TRUE
  /\ peer' \in Hear(peer, tx) /\ line' = line \o peer'.last
  /\ UNCHANGED <<frames, connected, verdict, tx, gap, links, sent>>

GiveUp ==
  /\ tries = 2 /\ tries' = 0
  /\ line # <<>> => budget > 0
  /\ budget' = IF line # <<>> THEN budget - 1 ELSE budget
  /\ clean' = FALSE
  /\ UNCHANGED <<frames, connected, verdict, tx, line, peer, heard, gap, links, sent>>

(* dlms_getHdlcData on the first frame of what has arrived; the rest of    *)
(* the same read is dropped. A supervisory frame has no data: it sets      *)
(* moreData.                                                               *)
Receive ==
  /\ tries \in {1, 2} /\ line # <<>>
  /\ tries' = IF Supervisory(Head(line)) THEN Spinning ELSE 0
  /\ line' \in Suffixes(Tail(line))
  /\ checkFrame(Head(line))
  /\ \E parameters \in BOOLEAN :   \* an empty UA is not noted as a connection
       connected' = (connected \/ (parameters /\ tx = SNRM /\ Head(line) = UA))
  /\ gap' = (gap \/ Head(line) = SNRM)
  /\ UNCHANGED <<tx, peer, heard, clean, links, sent, budget>>

Spin == tries = Spinning /\ UNCHANGED vars

Next == Snrm \/ Information \/ Disc \/ Resend \/ ResendLate \/ GiveUp
          \/ Receive \/ Spin

Spec == Init /\ [][Next]_vars
-----------------------------------------------------------------------------
TypeOK ==
  /\ senderFrame \in Byte /\ receiverFrame \in Byte /\ tx \in Byte
  /\ connected \in BOOLEAN /\ verdict \in BOOLEAN
  /\ tries \in 0..Spinning /\ line \in Seq(Byte)
  /\ peer \in [vs: 0..7, vr: 0..7, last: Seq(Byte)]
  /\ heard \in BOOLEAN /\ gap \in BOOLEAN /\ clean \in BOOLEAN
  /\ links \in Nat /\ sent \in Nat /\ budget \in Nat

(* checkFrame accepts every frame of a link on which nothing was lost,     *)
(* late or echoed, however many frames it carries.                         *)
InStep == [][Receive /\ clean => verdict']_vars

(* As long as the meter heard every frame of the link, and no late echo of *)
(* SNRM made checkFrame reset the numbers, the frames of the client carry  *)
(* the numbers the meter waits for: a repetition keeps the number of the   *)
(* frame it repeats (readDLMSPacket resends the same bytes).               *)
NumbersAgree ==
  Numbered(tx) /\ ~ gap =>
    /\ peer.vr = IF heard THEN After(NS(tx)) ELSE NS(tx)
    /\ peer.vs = IF heard THEN After(NR(tx)) ELSE NR(tx)

(* checkFrame tells an echo of the client's own numbered frame, or a frame *)
(* it has taken already, from an answer.                                   *)
StaleRefused ==
  [][Receive /\ Numbered(Head(line)) /\ Head(line) \in {tx, receiverFrame}
       => ~ verdict']_vars

(* The control bytes only count: see FrameNumbers.                         *)
Counts == INSTANCE FrameNumbers WITH
  sentNo <- NS(senderFrame),
  taken  <- [ns |-> NS(receiverFrame), nr |-> NR(receiverFrame)]
CountsOnly == Counts!Spec
=============================================================================
