----------------------------- MODULE HdlcSeqProofs -----------------------------
(***************************************************************************)
(* Proofs about HdlcSeq, for any window, any number of links and frames    *)
(* and any number of disturbances: the control bytes stay bytes, they only *)
(* count (FrameNumbers), the numbers agree with the meter's as long as it  *)
(* heard every frame, and with a window of 1 no frame is taken twice.      *)
(***************************************************************************)
EXTENDS HdlcSeq, SequenceTheorems, TLAPS

(* tx is the last number given out, and the meter is one ahead of it if it *)
(* heard it; right after an SNRM both sides count from the start.          *)
Agreed ==
  ~ gap =>
    /\ Numbered(tx) => senderFrame = tx /\ NumbersAgree
    /\ tx = SNRM => /\ senderFrame = CLIENT_START_SENDER_FRAME_SEQUENCE
                    /\ heard => peer.vs = 0 /\ peer.vr = 0

HInv ==
  /\ TypeOK
  /\ Numbered(senderFrame) /\ (Numbered(tx) \/ tx \in {SNRM, DISC})
  /\ Agreed
-----------------------------------------------------------------------------

(* Setting or clearing the final bit changes neither number.               *)
LEMMA FinalBit ==
  ASSUME NEW v \in Byte
  PROVE  /\ SetFinal(v) \in Byte /\ NS(SetFinal(v)) = NS(v) /\ NR(SetFinal(v)) = NR(v)
         /\ Unfinal(v) \in Byte /\ NS(Unfinal(v)) = NS(v) /\ NR(Unfinal(v)) = NR(v)
         /\ SetFinal(v) % 2 = v % 2 /\ Unfinal(v) % 2 = v % 2
  BY SMT DEF Byte, SetFinal, Unfinal, Final, NS, NR

(* The numbers of a byte have three bits.                                  *)
LEMMA ThreeBits ==
  ASSUME NEW v \in Byte
  PROVE  NS(v) \in 0..7 /\ NR(v) \in 0..7
  BY SMT DEF Byte, NS, NR

(* increaseSendSequence moves N(S) on and leaves N(R) alone.               *)
LEMMA SendCounts ==
  ASSUME NEW v \in Byte
  PROVE  /\ increaseSendSequence(v) \in Byte
         /\ NS(increaseSendSequence(v)) = After(NS(v))
         /\ NR(increaseSendSequence(v)) = NR(v)
         /\ Numbered(increaseSendSequence(v))
  BY SMT DEF Byte, increaseSendSequence, NS, NR, After, Numbered

(* increaseReceiverSequence moves N(R) on and leaves N(S) alone.           *)
LEMMA ReceiverCounts ==
  ASSUME NEW v \in Byte
  PROVE  /\ increaseReceiverSequence(v) \in Byte
         /\ NR(increaseReceiverSequence(v)) = After(NR(v))
         /\ NS(increaseReceiverSequence(v)) = NS(v)
         /\ increaseReceiverSequence(v) % 2 = v % 2
<1> DEFINE w == (v + 32) % 256
<1>1. w \in Byte /\ NR(w) = After(NR(v)) /\ NS(w) = NS(v) /\ w % 2 = v % 2
  BY SMT DEF Byte, NS, NR, After
<1>2. increaseReceiverSequence(v) = SetFinal(w)
  BY DEF increaseReceiverSequence
<1> HIDE DEF w
<1> QED BY <1>1, <1>2, FinalBit
-----------------------------------------------------------------------------
(* What is left of the line is a line.                                     *)
LEMMA SuffixBytes ==
  ASSUME NEW l \in Seq(Byte), NEW t \in Suffixes(l) PROVE t \in Seq(Byte)
<1>1. \A i \in 1..Len(l) : l[i] \in Byte /\ Len(l) \in Int
  BY ElementOfSeq, LenProperties
<1>2. ASSUME NEW n \in 1..Len(l) PROVE SubSeq(l, n, Len(l)) \in Seq(Byte)
  BY <1>1, LenProperties, SubSeqProperties
<1> QED BY <1>2, EmptySeq DEF Suffixes

(* The meter's link layer answers in bytes; to a numbered frame it waits   *)
(* for it moves both of its numbers on, to a repeated one neither.         *)
LEMMA Heard ==
  ASSUME NEW p \in [vs: 0..7, vr: 0..7, last: Seq(Byte)], NEW f \in Byte,
         NEW n \in Hear(p, f)
  PROVE  /\ n \in [vs: 0..7, vr: 0..7, last: Seq(Byte)]
         /\ Unnumbered(f) => n.vs = 0 /\ n.vr = 0
         /\ ~ Unnumbered(f) /\ NS(f) = p.vr =>
              n.vr = After(p.vr) /\ n.vs = After(p.vs)
         /\ ~ Unnumbered(f) /\ After(NS(f)) = p.vr =>
              n.vr = p.vr /\ n.vs = p.vs
<1>1. \A m \in 0..7 : After(m) \in 0..7 /\ After(m) # m
  BY SMT DEF After
<1>2. \A a, b \in 0..7 : Frame(a, b) \in Byte
  BY SMT DEF Frame, Byte
<1>3. UA \in Byte /\ \A m \in 0..7 : 32 * m + 17 \in Byte
  BY SMT DEF UA, Byte
<1>4. <<>> \in Seq(Byte) /\ \A b \in Byte : <<b>> \in Seq(Byte)
  BY EmptySeq
<1>5. CASE Unnumbered(f)
  <2>1. n = [vs |-> 0, vr |-> 0, last |-> <<UA>>] /\ <<UA>> \in Seq(Byte)
    BY <1>3, <1>4, <1>5 DEF Hear
  <2>2. n \in [vs: 0..7, vr: 0..7, last: Seq(Byte)] /\ n.vs = 0 /\ n.vr = 0
    BY <2>1
  <2> QED BY <1>5, <2>2
<1>6. CASE ~ Unnumbered(f) /\ NS(f) = p.vr
  <2>1. /\ n = [vs |-> After(p.vs), vr |-> After(p.vr),
                last |-> <<Frame(p.vs, After(p.vr))>>]
        /\ After(p.vs) \in 0..7 /\ After(p.vr) \in 0..7 /\ After(p.vr) # p.vr
    BY <1>1, <1>6 DEF Hear
  <2>2. <<Frame(p.vs, After(p.vr))>> \in Seq(Byte)
    BY <1>2, <1>4, <2>1
  <2>3. /\ n \in [vs: 0..7, vr: 0..7, last: Seq(Byte)]
        /\ n.vr = After(p.vr) /\ n.vs = After(p.vs)
    BY <2>1, <2>2
  <2> QED BY <1>6, <2>1, <2>3
<1>7. CASE ~ Unnumbered(f) /\ NS(f) # p.vr /\ After(NS(f)) = p.vr
  <2>1. n \in {p, [p EXCEPT !.last = <<>>]}
    BY <1>7 DEF Hear
  <2>2. /\ n \in [vs: 0..7, vr: 0..7, last: Seq(Byte)]
        /\ n.vr = p.vr /\ n.vs = p.vs
    BY <1>4, <2>1
  <2> QED BY <1>7, <2>2
<1>8. CASE ~ Unnumbered(f) /\ NS(f) # p.vr /\ After(NS(f)) # p.vr
  <2>1. n = [p EXCEPT !.last = <<32 * p.vr + 17>>]
    BY <1>8 DEF Hear
  <2>2. n \in [vs: 0..7, vr: 0..7, last: Seq(Byte)]
    BY <1>3, <1>4, <2>1
  <2> QED BY <1>8, <2>2
<1> QED BY <1>5, <1>6, <1>7, <1>8

(* What a transmission leaves behind, whether or not it is heard.          *)
LEMMA Transmitted ==
  ASSUME TypeOK, NEW f \in Byte, NEW u \in BOOLEAN, Transmit(f, u)
  PROVE  /\ line' \in Seq(Byte) /\ budget' \in Nat
         /\ heard' \in BOOLEAN /\ clean' \in BOOLEAN
         /\ peer' \in [vs: 0..7, vr: 0..7, last: Seq(Byte)]
         /\ \/ heard' = TRUE /\ peer' \in Hear(peer, f)
            \/ (heard' <=> heard /\ tries > 0) /\ peer' = peer
<1>1. /\ line \in Seq(Byte) /\ budget \in Nat /\ heard \in BOOLEAN
      /\ peer \in [vs: 0..7, vr: 0..7, last: Seq(Byte)] /\ tries \in Nat
  BY DEF TypeOK, Spinning
<1>2. ASSUME NEW p \in Hear(peer, f)
      PROVE  p \in [vs: 0..7, vr: 0..7, last: Seq(Byte)] /\ p.last \in Seq(Byte)
  BY <1>1, <1>2, Heard
<1>3. Disturb => budget' \in Nat
  BY <1>1 DEF Disturb
<1>4. \A s, t \in Seq(Byte) : s \o t \in Seq(Byte)
  BY ConcatProperties
<1>5. <<f>> \in Seq(Byte)
  OBVIOUS
<1>6. CASE /\ \E p \in Hear(peer, f) : peer' = p /\ line' = line \o p.last
           /\ heard' = TRUE /\ clean' = u /\ UNCHANGED budget
  BY <1>1, <1>2, <1>4, <1>6
<1>7. CASE /\ Disturb /\ clean' = FALSE
           /\ \E p \in Hear(peer, f) : peer' = p /\ line' = line \o <<f>> \o p.last
           /\ heard' = TRUE
  <2>1. line \o <<f>> \in Seq(Byte)
    BY <1>1, <1>4, <1>5
  <2> QED BY <1>1, <1>2, <1>3, <1>4, <1>7, <2>1
<1>8. CASE /\ Disturb /\ clean' = FALSE
           /\ peer' \in Hear(peer, f) /\ heard' = TRUE /\ UNCHANGED line
  BY <1>1, <1>2, <1>3, <1>8
<1>9. CASE /\ Disturb /\ clean' = FALSE
           /\ heard' = (heard /\ tries > 0) /\ UNCHANGED <<peer, line>>
  <2>1. line' \in Seq(Byte) /\ peer' \in [vs: 0..7, vr: 0..7, last: Seq(Byte)]
    BY <1>1, <1>9
  <2>2. heard' \in BOOLEAN /\ clean' \in BOOLEAN
    BY <1>9
  <2> QED BY <1>3, <1>9, <2>1, <2>2
<1> QED BY <1>6, <1>7, <1>8, <1>9 DEF Transmit

(* A control byte is of one kind.                                          *)
LEMMA Kinds ==
  ASSUME NEW f \in Byte
  PROVE  /\ Unnumbered(f) => ~ Supervisory(f) /\ ~ Numbered(f)
         /\ Supervisory(f) => ~ Numbered(f)
         /\ Numbered(f) => f # SNRM
         /\ Supervisory(f) => f # SNRM
  BY SMT DEF Byte, Unnumbered, Supervisory, Numbered, SNRM

(* checkFrame keeps bytes and the parity of senderFrame, and gives out no  *)
(* number of its own except by a reset.                                    *)
LEMMA Checked ==
  ASSUME TypeOK, NEW f \in Byte, checkFrame(f)
  PROVE  /\ senderFrame' \in Byte /\ receiverFrame' \in Byte /\ verdict' \in BOOLEAN
         /\ f # SNRM => senderFrame' = senderFrame
         /\ Numbered(senderFrame) => Numbered(senderFrame')
         /\ [Counts!Next]_(Counts!vars)
<1>1. senderFrame \in Byte /\ receiverFrame \in Byte /\ verdict \in BOOLEAN
  BY DEF TypeOK
<1>2. CASE Unnumbered(f) /\ f = SNRM
  <2>1. senderFrame' = 254 /\ receiverFrame' = 14 /\ verdict' \in BOOLEAN
    BY <1>2 DEF checkFrame, resetFrameSequence, CLIENT_START_SENDER_FRAME_SEQUENCE,
                CLIENT_START_RCEIVER_FRAME_SEQUENCE, Unnumbered, Supervisory, Numbered, SNRM
  <2>2. /\ NS(254) = 7 /\ NS(14) = 7 /\ NR(14) = 0 /\ Numbered(254)
        /\ 254 \in Byte /\ 14 \in Byte
    BY SMT DEF NS, NR, Numbered, Byte
  <2>3. Counts!Reset
    BY <2>1, <2>2 DEF Counts!Reset, Counts!Start
  <2> QED BY <1>2, <2>1, <2>2, <2>3 DEF Counts!Next
<1>3. CASE Unnumbered(f) /\ f # SNRM
  <2>1. UNCHANGED frames /\ verdict' = (f = UA => FreshLink)
    BY <1>3, Kinds, Zenon DEF checkFrame
  <2> QED BY <1>1, <2>1 DEF frames, Counts!vars
<1>4. CASE Supervisory(f)
  <2>1. /\ senderFrame' = senderFrame /\ verdict' = ~ EchoOfSender(f) /\ f # SNRM
        /\ receiverFrame' = IF EchoOfSender(f) THEN receiverFrame
                            ELSE increaseReceiverSequence(receiverFrame)
    BY <1>4, Kinds, Zenon DEF checkFrame
  <2>2. CASE receiverFrame' = receiverFrame
    BY <1>1, <2>1, <2>2 DEF Counts!vars
  <2>3. CASE receiverFrame' = increaseReceiverSequence(receiverFrame)
    <3>1. /\ receiverFrame' \in Byte /\ NS(receiverFrame') = NS(receiverFrame)
          /\ NR(receiverFrame') = After(NR(receiverFrame))
      BY <1>1, <2>3, ReceiverCounts
    <3>2. Counts!Acknowledge
      BY <2>1, <3>1 DEF Counts!Acknowledge, Counts!After, After
    <3> QED BY <1>1, <2>1, <3>1, <3>2 DEF Counts!Next
  <2>4. receiverFrame' \in {receiverFrame, increaseReceiverSequence(receiverFrame)}
    BY <2>1
  <2> QED BY <2>2, <2>3, <2>4
<1>5. CASE Numbered(f)
  <2>1. /\ senderFrame' = senderFrame /\ verdict' = (InOrder(f) \/ PreEstablished)
        /\ receiverFrame' = IF InOrder(f) \/ PreEstablished THEN f ELSE receiverFrame
        /\ f # SNRM
    BY <1>5, Kinds, Zenon DEF checkFrame
  <2>2. CASE receiverFrame' = receiverFrame
    BY <1>1, <2>1, <2>2 DEF Counts!vars
  <2>3. CASE receiverFrame' = f /\ PreEstablished
    <3>1. NS(receiverFrame) = 7 /\ NR(receiverFrame) = 7
      BY <2>3, SMT DEF PreEstablished, SERVER_START_RECEIVER_FRAME_SEQUENCE, NS, NR
    <3>2. Counts!Resync
      BY <2>1, <2>3, <3>1, ThreeBits DEF Counts!Resync
    <3> QED BY <1>1, <2>1, <2>3, <3>2 DEF Counts!Next
  <2>4. CASE receiverFrame' = f /\ InOrder(f)
    <3> DEFINE up == increaseSendSequence(receiverFrame)
    <3>1. /\ up \in Byte /\ NS(up) = After(NS(receiverFrame))
          /\ NR(up) = NR(receiverFrame)
      BY <1>1, SendCounts
    <3> HIDE DEF up
    <3>2. /\ increaseReceiverSequence(up) \in Byte
          /\ NS(increaseReceiverSequence(up)) = NS(up)
          /\ NR(increaseReceiverSequence(up)) = After(NR(up))
      BY <3>1, ReceiverCounts
    <3>3. f \in {Expected, Unfinal(Expected), ExpectedNext, Unfinal(ExpectedNext)}
      BY <2>4 DEF InOrder
    <3>4. CASE f \in {Expected, Unfinal(Expected)}
      <4>1. NS(f) = After(NS(receiverFrame)) /\ NR(f) = After(NR(receiverFrame))
        BY <3>1, <3>2, <3>4, FinalBit DEF Expected, up
      <4>2. Counts!Take
        BY <2>1, <2>4, <4>1 DEF Counts!Take, Counts!After, After
      <4> QED BY <1>1, <2>1, <2>4, <4>2 DEF Counts!Next
    <3>5. CASE f \in {ExpectedNext, Unfinal(ExpectedNext)}
      <4>1. NS(f) = After(NS(receiverFrame)) /\ NR(f) = NR(receiverFrame)
        BY <3>1, <3>5, FinalBit DEF ExpectedNext, up
      <4>2. Counts!TakeNext
        BY <2>1, <2>4, <4>1 DEF Counts!TakeNext, Counts!After, After
      <4> QED BY <1>1, <2>1, <2>4, <4>2 DEF Counts!Next
    <3> QED BY <3>3, <3>4, <3>5
  <2>5. \/ receiverFrame' = receiverFrame
        \/ receiverFrame' = f /\ (InOrder(f) \/ PreEstablished)
    BY <2>1
  <2> QED BY <2>2, <2>3, <2>4, <2>5
<1> QED BY <1>2, <1>3, <1>4, <1>5 DEF checkFrame
-----------------------------------------------------------------------------
(* The start values: 7 and 0 in the numbers, so that 0 is sent first.      *)
LEMMA StartValues ==
  /\ CLIENT_START_SENDER_FRAME_SEQUENCE \in Byte
  /\ CLIENT_START_RCEIVER_FRAME_SEQUENCE \in Byte
  /\ NS(CLIENT_START_SENDER_FRAME_SEQUENCE) = 7
  /\ NR(CLIENT_START_SENDER_FRAME_SEQUENCE) = 7
  /\ NS(CLIENT_START_RCEIVER_FRAME_SEQUENCE) = 7
  /\ NR(CLIENT_START_RCEIVER_FRAME_SEQUENCE) = 0
  /\ Numbered(CLIENT_START_SENDER_FRAME_SEQUENCE)
  /\ After(7) = 0
  /\ SNRM \in Byte /\ DISC \in Byte /\ SNRM # DISC
  /\ Unnumbered(SNRM) /\ Unnumbered(DISC) /\ ~ Numbered(SNRM) /\ ~ Numbered(DISC)
  BY SMT DEF CLIENT_START_SENDER_FRAME_SEQUENCE, CLIENT_START_RCEIVER_FRAME_SEQUENCE,
             NS, NR, Numbered, Unnumbered, Byte, After, SNRM, DISC

(* TypeOK in two parts, one for each prover.                               *)
BytesOK ==
  /\ senderFrame \in Byte /\ receiverFrame \in Byte /\ tx \in Byte
  /\ tries \in 0..Spinning /\ line \in Seq(Byte)
  /\ peer \in [vs: 0..7, vr: 0..7, last: Seq(Byte)]
  /\ links \in Nat /\ sent \in Nat /\ budget \in Nat
FlagsOK ==
  /\ connected \in BOOLEAN /\ verdict \in BOOLEAN
  /\ heard \in BOOLEAN /\ gap \in BOOLEAN /\ clean \in BOOLEAN

(* The strengthened invariant holds at the start, where both count from 0. *)
LEMMA InitHInv == Init => HInv /\ Counts!Init
<1> SUFFICES ASSUME Init PROVE HInv /\ Counts!Init
  OBVIOUS
<1>1. TypeOK
  <2>1. BytesOK
    BY StartValues, HdlcSeqAssumption, EmptySeq DEF Init, BytesOK, Spinning
  <2>2. FlagsOK
    BY Zenon DEF Init, FlagsOK
  <2> QED BY <2>1, <2>2, Zenon DEF TypeOK, BytesOK, FlagsOK
<1>2. Agreed /\ Numbered(senderFrame) /\ tx = DISC
  BY StartValues DEF Init, Agreed
<1>3. Counts!Init
  BY StartValues DEF Init, Counts!Init, Counts!Start
<1> QED BY <1>1, <1>2, <1>3 DEF HInv

(* A reset of the frame sequence is a reset of the counters.               *)
LEMMA ResetCounts ==
  ASSUME resetFrameSequence
  PROVE  /\ senderFrame' \in Byte /\ receiverFrame' \in Byte /\ Numbered(senderFrame')
         /\ Counts!Next
<1>1. Counts!Reset
  BY StartValues DEF resetFrameSequence, Counts!Reset, Counts!Start
<1> QED BY <1>1, StartValues DEF resetFrameSequence, Counts!Next

(* Opening a link starts the numbers on both sides, if it is heard.        *)
LEMMA SnrmStep == ASSUME HInv, Snrm PROVE HInv' /\ Counts!Next
<1>1. TypeOK /\ (line = <<>>) \in BOOLEAN
  BY DEF HInv
<1>2. Transmit(SNRM, line = <<>>) /\ resetFrameSequence
  BY DEF Snrm
<1>3. /\ line' \in Seq(Byte) /\ budget' \in Nat /\ heard' \in BOOLEAN
      /\ clean' \in BOOLEAN /\ peer' \in [vs: 0..7, vr: 0..7, last: Seq(Byte)]
      /\ \/ heard' = TRUE /\ peer' \in Hear(peer, SNRM)
         \/ (heard' <=> heard /\ tries > 0)
  BY <1>1, <1>2, StartValues, Transmitted
<1>4. TypeOK'
  <2>1. BytesOK'
    BY <1>1, <1>2, <1>3, ResetCounts, StartValues DEF Snrm, TypeOK, BytesOK, Spinning
  <2>2. FlagsOK'
    BY <1>1, <1>3, Zenon DEF Snrm, TypeOK, FlagsOK
  <2> QED BY <2>1, <2>2, Zenon DEF TypeOK, BytesOK, FlagsOK
<1>5. heard' => peer'.vs = 0 /\ peer'.vr = 0
  <2>1. tries = 0 /\ peer \in [vs: 0..7, vr: 0..7, last: Seq(Byte)]
    BY <1>1 DEF Snrm, TypeOK
  <2>2. ~ (tries > 0)
    BY <2>1
  <2>3. heard' => peer' \in Hear(peer, SNRM)
    BY <1>3, <2>2, Zenon
  <2> QED BY <2>1, <2>3, StartValues, Heard
<1>6. Agreed'
  BY <1>2, <1>5, StartValues DEF Snrm, Agreed, resetFrameSequence
<1> QED BY <1>2, <1>4, <1>6, ResetCounts DEF Snrm, HInv

(* Closing it resets the client's numbers; what follows needs a new link.  *)
LEMMA DiscStep == ASSUME HInv, Disc PROVE HInv' /\ Counts!Next
<1>1. TypeOK /\ clean \in BOOLEAN
  BY DEF HInv, TypeOK
<1>2. Transmit(DISC, clean) /\ resetFrameSequence
  BY DEF Disc
<1>3. /\ line' \in Seq(Byte) /\ budget' \in Nat /\ heard' \in BOOLEAN
      /\ clean' \in BOOLEAN /\ peer' \in [vs: 0..7, vr: 0..7, last: Seq(Byte)]
  BY <1>1, <1>2, StartValues, Transmitted
<1>4. TypeOK'
  <2>1. BytesOK'
    BY <1>1, <1>2, <1>3, ResetCounts, StartValues DEF Disc, TypeOK, BytesOK, Spinning
  <2>2. FlagsOK'
    BY <1>1, <1>3, Zenon DEF Disc, TypeOK, FlagsOK
  <2> QED BY <2>1, <2>2, Zenon DEF TypeOK, BytesOK, FlagsOK
<1>5. Agreed'
  BY StartValues DEF Disc, Agreed
<1> QED BY <1>2, <1>4, <1>5, ResetCounts DEF Disc, HInv

(* The next frame carries the next number, which is the one the meter      *)
(* waits for if it heard the frame before.                                 *)
LEMMA InformationStep == ASSUME HInv, Information PROVE HInv' /\ Counts!Next
<1>1. /\ TypeOK /\ clean \in BOOLEAN /\ senderFrame \in Byte /\ heard \in BOOLEAN
      /\ gap \in BOOLEAN /\ peer \in [vs: 0..7, vr: 0..7, last: Seq(Byte)]
      /\ Numbered(senderFrame) /\ tries = 0
  BY DEF HInv, TypeOK, Information
<1> DEFINE up == increaseSendSequence(senderFrame)
<1>2. /\ up \in Byte /\ NS(up) = After(NS(senderFrame)) /\ NR(up) = NR(senderFrame)
      /\ up % 2 = 0
  BY <1>1, SendCounts DEF Numbered
<1> HIDE DEF up
<1>3. /\ senderFrame' \in Byte /\ tx' = senderFrame' /\ Numbered(senderFrame')
      /\ NS(senderFrame') = After(NS(senderFrame))
      /\ NR(senderFrame') = After(NR(senderFrame))
  BY <1>2, ReceiverCounts DEF Information, getNextSend, up, Numbered
<1>4. ~ Unnumbered(tx') /\ tx' # SNRM
  BY <1>3, Kinds
<1>5. /\ line' \in Seq(Byte) /\ budget' \in Nat /\ heard' \in BOOLEAN
      /\ clean' \in BOOLEAN /\ peer' \in [vs: 0..7, vr: 0..7, last: Seq(Byte)]
      /\ \/ heard' = TRUE /\ peer' \in Hear(peer, tx')
         \/ (heard' <=> heard /\ tries > 0) /\ peer' = peer
  <2>1. Transmit(tx', clean) /\ tx' \in Byte
    BY <1>3 DEF Information
  <2> QED BY <1>1, <2>1, Transmitted
<1>6. TypeOK'
  <2>1. BytesOK'
    BY <1>1, <1>3, <1>5 DEF Information, TypeOK, BytesOK, Spinning
  <2>2. FlagsOK'
    <3>1. gap' \in BOOLEAN
      BY <1>1 DEF Information
    <3> QED BY <1>1, <1>5, <3>1, Zenon DEF Information, TypeOK, FlagsOK
  <2> QED BY <2>1, <2>2, Zenon DEF TypeOK, BytesOK, FlagsOK
<1>7. ASSUME ~ gap' PROVE NumbersAgree'
  <2>1. ~ gap /\ heard
    BY <1>7, <1>1 DEF Information
  <2>2. peer.vr = NS(tx') /\ peer.vs = NR(tx')
    <3>1. CASE Numbered(tx)
      BY <1>3, <2>1, <3>1 DEF HInv, Agreed, NumbersAgree
    <3>2. CASE tx = SNRM
      BY <1>3, <2>1, <3>2, StartValues DEF HInv, Agreed
    <3>3. Numbered(tx) \/ tx = SNRM
      BY DEF HInv, Information
    <3> QED BY <3>1, <3>2, <3>3
  <2>3. CASE heard' = TRUE /\ peer' \in Hear(peer, tx')
    BY <1>1, <1>3, <1>4, <2>2, <2>3, Heard DEF NumbersAgree
  <2>4. CASE heard' = FALSE /\ peer' = peer
    BY <2>2, <2>4 DEF NumbersAgree
  <2>5. ~ (tries > 0)
    BY <1>1
  <2>6. heard' = FALSE \/ heard' = TRUE
    BY <1>5
  <2> QED BY <1>5, <2>3, <2>4, <2>5, <2>6, Zenon
<1>8. Counts!Send
  BY <1>3 DEF Information, Counts!Send, Counts!After, After
<1> QED BY <1>3, <1>4, <1>6, <1>7, <1>8 DEF HInv, Agreed, Counts!Next

(* The same bytes again, and heard: the meter has them already, or it had  *)
(* not heard them before.                                                  *)
LEMMA HeardAgain ==
  ASSUME HInv, heard' = TRUE, peer' \in Hear(peer, tx), tx' = tx, gap' = gap,
         UNCHANGED senderFrame
  PROVE  Agreed'
<1>1. /\ heard \in BOOLEAN /\ tx \in Byte
      /\ peer \in [vs: 0..7, vr: 0..7, last: Seq(Byte)]
  BY DEF HInv, TypeOK
<1>2. ASSUME ~ gap, Numbered(tx) PROVE NumbersAgree'
  <2>1. ~ Unnumbered(tx) /\ NumbersAgree
    BY <1>1, <1>2, Kinds DEF HInv, Agreed
  <2>2. CASE heard
    <3>1. After(NS(tx)) = peer.vr /\ After(NR(tx)) = peer.vs
      BY <1>2, <2>1, <2>2 DEF NumbersAgree
    <3>2. peer'.vr = peer.vr /\ peer'.vs = peer.vs
      BY <1>1, <2>1, <3>1, Heard
    <3> QED BY <3>1, <3>2 DEF NumbersAgree
  <2>3. CASE ~ heard
    <3>1. NS(tx) = peer.vr /\ NR(tx) = peer.vs
      BY <1>2, <2>1, <2>3 DEF NumbersAgree
    <3>2. peer'.vr = After(peer.vr) /\ peer'.vs = After(peer.vs)
      BY <1>1, <2>1, <3>1, Heard
    <3> QED BY <3>1, <3>2 DEF NumbersAgree
  <2> QED BY <2>2, <2>3
<1>3. ASSUME tx = SNRM PROVE peer'.vs = 0 /\ peer'.vr = 0
  BY <1>1, <1>3, StartValues, Heard
<1> QED BY <1>2, <1>3 DEF HInv, Agreed

(* The same bytes again, heard or not.                                     *)
LEMMA Repeated ==
  ASSUME HInv, tries > 0, Transmit(tx, clean), tx' = tx, gap' = gap,
         UNCHANGED senderFrame
  PROVE  Agreed'
<1>1. TypeOK /\ clean \in BOOLEAN /\ tx \in Byte
  BY DEF HInv, TypeOK
<1>2. \/ heard' = TRUE /\ peer' \in Hear(peer, tx)
      \/ (heard' <=> heard) /\ peer' = peer
  BY <1>1, Transmitted
<1>3. CASE (heard' <=> heard) /\ peer' = peer
  BY <1>3 DEF HInv, Agreed, NumbersAgree
<1> QED BY <1>2, <1>3, HeardAgain

(* A repetition after a silence changes no number of the client.           *)
LEMMA ResendStep == ASSUME HInv, Resend PROVE HInv' /\ UNCHANGED frames
<1>1. TypeOK /\ tx \in Byte /\ clean \in BOOLEAN /\ tries > 0 /\ Transmit(tx, clean)
  BY DEF HInv, TypeOK, Resend
<1>2. /\ line' \in Seq(Byte) /\ budget' \in Nat /\ heard' \in BOOLEAN
      /\ clean' \in BOOLEAN /\ peer' \in [vs: 0..7, vr: 0..7, last: Seq(Byte)]
  BY <1>1, Transmitted
<1>3. TypeOK'
  <2>1. BytesOK'
    BY <1>1, <1>2 DEF Resend, frames, TypeOK, BytesOK, Spinning
  <2>2. FlagsOK'
    BY <1>1, <1>2, Zenon DEF Resend, TypeOK, FlagsOK
  <2> QED BY <2>1, <2>2, Zenon DEF TypeOK, BytesOK, FlagsOK
<1>4. Agreed'
  BY <1>1, Repeated DEF Resend, frames
<1> QED BY <1>3, <1>4 DEF Resend, frames, HInv

(* Neither does one that crosses a late answer.                            *)
LEMMA ResendLateStep == ASSUME HInv, ResendLate PROVE HInv' /\ UNCHANGED frames
<1>1. /\ TypeOK /\ tx \in Byte /\ clean \in BOOLEAN /\ tries > 0
      /\ line \in Seq(Byte) /\ budget \in Nat
      /\ peer \in [vs: 0..7, vr: 0..7, last: Seq(Byte)]
  BY DEF HInv, TypeOK, ResendLate
<1>2. /\ peer' \in Hear(peer, tx) /\ heard' = TRUE /\ line' = line \o peer'.last
      /\ Disturb /\ clean' = FALSE
  BY DEF ResendLate
<1>3. peer' \in [vs: 0..7, vr: 0..7, last: Seq(Byte)] /\ peer'.last \in Seq(Byte)
  BY <1>1, <1>2, Heard
<1>4. line' \in Seq(Byte) /\ budget' \in Nat
  BY <1>1, <1>2, <1>3, ConcatProperties DEF Disturb
<1>5. TypeOK'
  <2>1. BytesOK'
    BY <1>1, <1>3, <1>4 DEF ResendLate, frames, TypeOK, BytesOK, Spinning
  <2>2. FlagsOK'
    BY <1>1, <1>2, Zenon DEF ResendLate, TypeOK, FlagsOK
  <2> QED BY <2>1, <2>2, Zenon DEF TypeOK, BytesOK, FlagsOK
<1>6. Agreed'
  BY <1>1, HeardAgain DEF ResendLate, frames
<1> QED BY <1>5, <1>6 DEF ResendLate, frames, HInv

(* Giving up leaves the numbers as they are: the next frame shows whether  *)
(* the meter heard this one.                                               *)
LEMMA GiveUpStep == ASSUME HInv, GiveUp PROVE HInv' /\ UNCHANGED frames
<1>1. TypeOK /\ budget' \in Nat
  BY DEF HInv, TypeOK, GiveUp
<1>2. TypeOK'
  <2>1. BytesOK'
    BY <1>1 DEF GiveUp, frames, TypeOK, BytesOK, Spinning
  <2>2. FlagsOK'
    BY <1>1, Zenon DEF GiveUp, TypeOK, FlagsOK
  <2> QED BY <2>1, <2>2, Zenon DEF TypeOK, BytesOK, FlagsOK
<1> QED BY <1>2 DEF GiveUp, frames, HInv, Agreed, NumbersAgree

(* Receiving moves the client's own number only by the reset of a late     *)
(* echo of SNRM, which gap records.                                        *)
LEMMA ReceiveStep ==
  ASSUME HInv, Receive PROVE HInv' /\ [Counts!Next]_(Counts!vars)
<1>1. /\ TypeOK /\ line \in Seq(Byte) /\ gap \in BOOLEAN /\ connected \in BOOLEAN
      /\ Numbered(senderFrame)
  BY DEF HInv, TypeOK
<1>2. line # <<>> /\ line' \in Suffixes(Tail(line)) /\ checkFrame(Head(line))
  BY DEF Receive
<1>3. Head(line) \in Byte /\ line' \in Seq(Byte)
  BY <1>1, <1>2, HeadTailProperties, SuffixBytes
<1>4. /\ senderFrame' \in Byte /\ receiverFrame' \in Byte /\ verdict' \in BOOLEAN
      /\ Head(line) # SNRM => senderFrame' = senderFrame
      /\ Numbered(senderFrame')
      /\ [Counts!Next]_(Counts!vars)
  BY <1>1, <1>2, <1>3, Checked
<1>5. TypeOK'
  <2>1. BytesOK'
    BY <1>1, <1>3, <1>4 DEF Receive, TypeOK, BytesOK, Spinning
  <2>2. connected' \in BOOLEAN /\ gap' \in BOOLEAN
    BY <1>1 DEF Receive
  <2>3. FlagsOK'
    BY <1>1, <1>4, <2>2, Zenon DEF Receive, TypeOK, FlagsOK
  <2> QED BY <2>1, <2>3, Zenon DEF TypeOK, BytesOK, FlagsOK
<1>6. Agreed'
  <2>1. ~ gap' => ~ gap /\ Head(line) # SNRM
    BY DEF Receive
  <2>2. UNCHANGED <<tx, peer, heard>>
    BY DEF Receive
  <2> QED BY <1>4, <2>1, <2>2 DEF HInv, Agreed, NumbersAgree
<1> QED BY <1>4, <1>5, <1>6 DEF Receive, HInv

(* Every step keeps the invariant and is a step, or none, of the counters. *)
LEMMA NextHInv == HInv /\ [Next]_vars => HInv' /\ [Counts!Next]_(Counts!vars)
<1> SUFFICES ASSUME HInv, [Next]_vars PROVE HInv' /\ [Counts!Next]_(Counts!vars)
  OBVIOUS
<1>1. CASE Snrm
  BY <1>1, SnrmStep
<1>2. CASE Information
  BY <1>2, InformationStep
<1>3. CASE Disc
  BY <1>3, DiscStep
<1>4. UNCHANGED frames => UNCHANGED Counts!vars
  BY DEF frames, Counts!vars
<1>5. CASE Resend
  BY <1>4, <1>5, ResendStep
<1>6. CASE ResendLate
  BY <1>4, <1>6, ResendLateStep
<1>7. CASE GiveUp
  BY <1>4, <1>7, GiveUpStep
<1>8. CASE Receive
  BY <1>8, ReceiveStep
<1>9. CASE Spin \/ UNCHANGED vars
  <2>1. UNCHANGED vars
    BY <1>9 DEF Spin
  <2>2. UNCHANGED frames /\ TypeOK'
    BY <2>1 DEF vars, frames, HInv, TypeOK
  <2>3. HInv'
    BY <2>1, <2>2 DEF vars, frames, HInv, Agreed, NumbersAgree
  <2> QED BY <1>4, <2>2, <2>3
<1> QED BY <1>1, <1>2, <1>3, <1>5, <1>6, <1>7, <1>8, <1>9 DEF Next
-----------------------------------------------------------------------------
(* Every variable keeps its type; the control bytes stay bytes.            *)
THEOREM HdlcTypeCorrect == Spec => []TypeOK
<1>1. HInv => TypeOK
  BY DEF HInv
<1> QED BY <1>1, InitHInv, NextHInv, PTL DEF Spec

(* The meter waits for the number the client sends, on any link on which   *)
(* it heard every frame, for any number of frames, losses and repetitions. *)
THEOREM NumbersAlwaysAgree == Spec => []NumbersAgree
<1>1. HInv => NumbersAgree
  BY DEF HInv, Agreed, NumbersAgree
<1> QED BY <1>1, InitHInv, NextHInv, PTL DEF Spec

(* HdlcSeq implements FrameNumbers: the arithmetic on control bytes does   *)
(* nothing but count modulo 8.                                             *)
THEOREM ImplementsFrameNumbers == Spec => CountsOnly
<1> QED BY InitHInv, NextHInv, PTL DEF Spec, CountsOnly, Counts!Spec

-----------------------------------------------------------------------------
(* What the client sends carries one and the same number twice, what it    *)
(* takes an N(R) one ahead of the N(S): so it can be told whose it is. A   *)
(* supervisory frame breaks the distance, but nothing is received after it.*)
Apart ==
  /\ NR(senderFrame) = NS(senderFrame)
  /\ Numbered(tx) => NR(tx) = NS(tx)
  /\ tries # Spinning => NR(receiverFrame) = After(NS(receiverFrame))

(* A number is not its own successor.                                      *)
LEMMA NextDiffers == \A n \in 0..7 : After(n) \in 0..7 /\ After(n) # n
  BY SMT DEF After

(* With a window of 1 a frame is in order only if both of its numbers are  *)
(* one on from those of the last one taken.                                *)
LEMMA OneOn ==
  ASSUME WindowSizeRX = 1, NEW f \in Byte, receiverFrame \in Byte, InOrder(f)
  PROVE  /\ NS(f) = After(NS(receiverFrame))
         /\ NR(f) = After(NR(receiverFrame))
<1> DEFINE up == increaseSendSequence(receiverFrame)
<1>1. /\ up \in Byte /\ NS(up) = After(NS(receiverFrame))
      /\ NR(up) = NR(receiverFrame)
  BY SendCounts
<1> HIDE DEF up
<1>2. f = increaseReceiverSequence(up)
  BY DEF InOrder, Expected, up
<1> QED BY <1>1, <1>2, ReceiverCounts

(* The number that accepts anything is never reached.                      *)
LEMMA NotPreEstablished ==
  ASSUME receiverFrame \in Byte, NR(receiverFrame) = After(NS(receiverFrame))
  PROVE  ~ PreEstablished
<1>1. NS(SERVER_START_RECEIVER_FRAME_SEQUENCE) = 7
  BY SMT DEF SERVER_START_RECEIVER_FRAME_SEQUENCE, NS
<1>2. NR(SERVER_START_RECEIVER_FRAME_SEQUENCE) = 7
  BY SMT DEF SERVER_START_RECEIVER_FRAME_SEQUENCE, NR
<1>3. After(7) = 0
  BY StartValues
<1> QED BY <1>1, <1>2, <1>3 DEF PreEstablished

(* So neither the client's own frame nor the last one taken is in order.   *)
LEMMA StaleNotInOrder ==
  ASSUME WindowSizeRX = 1, HInv, Apart, tries # Spinning,
         NEW f \in {tx, receiverFrame}, Numbered(f)
  PROVE  ~ InOrder(f)
<1> SUFFICES ASSUME InOrder(f) PROVE FALSE
  OBVIOUS
<1>1. f \in Byte /\ receiverFrame \in Byte
  BY DEF HInv, TypeOK
<1>2. NS(f) = After(NS(receiverFrame)) /\ NR(f) = After(NR(receiverFrame))
  BY <1>1, OneOn
<1>3. NS(receiverFrame) \in 0..7
  BY <1>1, ThreeBits
<1>4. NR(receiverFrame) = After(NS(receiverFrame))
  BY DEF Apart
<1>5. CASE f = receiverFrame
  BY <1>2, <1>3, <1>5, NextDiffers
<1>6. CASE f = tx
  <2>1. NR(f) = NS(f)
    BY <1>6 DEF Apart
  <2>2. After(After(NS(receiverFrame))) = After(NS(receiverFrame))
    BY <1>2, <1>4, <2>1
  <2>3. After(NS(receiverFrame)) \in 0..7
    BY <1>3, NextDiffers
  <2> QED BY <2>2, <2>3, NextDiffers
<1> QED BY <1>5, <1>6

(* A reset puts the numbers the right way apart.                           *)
LEMMA ResetApart ==
  ASSUME resetFrameSequence
  PROVE  /\ NR(senderFrame') = NS(senderFrame')
         /\ NR(receiverFrame') = After(NS(receiverFrame'))
BY StartValues DEF resetFrameSequence

(* What is received leaves them so, unless nothing more is received.       *)
LEMMA ReceiveApart ==
  ASSUME WindowSizeRX = 1, HInv, Apart, Receive PROVE Apart'
<1>1. /\ line # <<>> /\ line \in Seq(Byte) /\ receiverFrame \in Byte
      /\ checkFrame(Head(line)) /\ tx' = tx
      /\ tries' = IF Supervisory(Head(line)) THEN Spinning ELSE 0
      /\ tries # Spinning
  BY DEF Receive, HInv, TypeOK, Spinning
<1> DEFINE f == Head(line)
<1>2. f \in Byte
  BY <1>1, HeadTailProperties
<1> HIDE DEF f
<1>3. checkFrame(f) /\ tries' = IF Supervisory(f) THEN Spinning ELSE 0
  BY <1>1 DEF f
<1>4. CASE resetFrameSequence
  BY <1>1, <1>4, ResetApart DEF Apart
<1>5. CASE UNCHANGED frames
  BY <1>1, <1>5 DEF Apart, frames
<1>6. CASE Supervisory(f) /\ UNCHANGED senderFrame
  BY <1>1, <1>3, <1>6 DEF Apart
<1>7. CASE /\ Numbered(f) /\ UNCHANGED senderFrame
           /\ receiverFrame' = IF InOrder(f) \/ PreEstablished
                               THEN f ELSE receiverFrame
  <2>1. ~ PreEstablished
    BY <1>1, NotPreEstablished DEF Apart
  <2>2. CASE InOrder(f)
    <3>1. receiverFrame' = f
      BY <1>7, <2>2
    <3>2. NR(f) = After(NS(f))
      BY <1>1, <1>2, <2>2, OneOn DEF Apart
    <3> QED BY <1>1, <1>7, <3>1, <3>2 DEF Apart
  <2>3. CASE ~ InOrder(f)
    <3>1. receiverFrame' = receiverFrame
      BY <1>7, <2>1, <2>3
    <3> QED BY <1>1, <1>7, <3>1 DEF Apart
  <2> QED BY <2>2, <2>3
<1> QED BY <1>3, <1>4, <1>5, <1>6, <1>7 DEF checkFrame

LEMMA InitApart == Init => Apart
BY StartValues DEF Init, Apart

LEMMA NextApart ==
  ASSUME WindowSizeRX = 1, HInv, Apart, [Next]_vars PROVE Apart'
<1>1. CASE Snrm
  BY <1>1, ResetApart, StartValues DEF Snrm, Apart
<1>2. CASE Disc
  BY <1>2, ResetApart, StartValues DEF Disc, Apart
<1>3. CASE Information
  <2> DEFINE up == increaseSendSequence(senderFrame)
  <2>1. senderFrame \in Byte
    BY DEF HInv, TypeOK
  <2>2. up \in Byte /\ NS(up) = After(NS(senderFrame)) /\ NR(up) = NR(senderFrame)
    BY <2>1, SendCounts
  <2> HIDE DEF up
  <2>3. senderFrame' = increaseReceiverSequence(up)
    BY <1>3 DEF Information, getNextSend, up
  <2>4. NR(senderFrame') = NS(senderFrame')
    BY <2>2, <2>3, ReceiverCounts DEF Apart
  <2>5. tries # Spinning
    BY <1>3 DEF Information, Spinning
  <2> QED BY <1>3, <2>4, <2>5 DEF Information, Apart
<1>4. CASE Resend \/ ResendLate \/ GiveUp
  <2>1. tries # Spinning /\ UNCHANGED <<senderFrame, receiverFrame, tx>>
    BY <1>4 DEF Resend, ResendLate, GiveUp, frames, Spinning
  <2> QED BY <2>1 DEF Apart
<1>5. CASE Receive
  BY <1>5, ReceiveApart
<1>6. CASE Spin \/ UNCHANGED vars
  BY <1>6 DEF Spin, vars, frames, Apart
<1> QED BY <1>1, <1>2, <1>3, <1>4, <1>5, <1>6 DEF Next

(* The judgement on such a frame.                                          *)
LEMMA StaleStep ==
  ASSUME WindowSizeRX = 1, HInv, Apart, Receive, Numbered(Head(line)),
         Head(line) \in {tx, receiverFrame}
  PROVE  ~ verdict'
<1> DEFINE f == Head(line)
<1>1. /\ tries # Spinning /\ receiverFrame \in Byte /\ checkFrame(f)
      /\ Numbered(f) /\ f \in {tx, receiverFrame} /\ f \in Byte
  BY DEF Receive, HInv, TypeOK, Spinning
<1> HIDE DEF f
<1>2. ~ Unnumbered(f) /\ ~ Supervisory(f)
  BY <1>1, SMT DEF Numbered, Unnumbered, Supervisory, Byte
<1>3. verdict' = (InOrder(f) \/ PreEstablished)
  BY <1>1, <1>2 DEF checkFrame
<1>4. ~ InOrder(f)
  BY <1>1, StaleNotInOrder
<1>5. ~ PreEstablished
  BY <1>1, NotPreEstablished DEF Apart
<1> QED BY <1>3, <1>4, <1>5

(* With the default window of 1, checkFrame never takes the echo of the    *)
(* client's own frame, nor a frame it has taken already, for an answer,    *)
(* however many frames, links, losses, echoes and repetitions there are:   *)
(* see Apart. With a window of 0 it takes the echo of its first frame.     *)
THEOREM StaleAlwaysRefused ==
  ASSUME WindowSizeRX = 1
  PROVE  Spec => StaleRefused
<1>1. HInv /\ Apart /\ [Next]_vars => Apart'
  BY NextApart
<1>2. HInv /\ Apart =>
        [Receive /\ Numbered(Head(line)) /\ Head(line) \in {tx, receiverFrame}
           => ~ verdict']_vars
  BY StaleStep
<1> QED BY <1>1, <1>2, InitHInv, NextHInv, InitApart, PTL DEF Spec, StaleRefused
=============================================================================
