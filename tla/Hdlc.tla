--------------------------------- MODULE Hdlc ----------------------------------
(***************************************************************************)
(* HDLC frames as dlms.c builds and reads them, byte by byte: countCRC,    *)
(* dlms_getHdlcFrame, dlms_getHdlcData and what they call. A frame is      *)
(*   7E | A0/A8 + length | length | to | from | control | HCS              *)
(*      | information | FCS | 7E                                           *)
(* and without information it has no FCS. Positions count from 0.          *)
(***************************************************************************)
EXTENDS Address, SequencesExt

Flag == 126  \* HDLC_FRAME_START_END, 0x7E
LLC_SEND_BYTES  == <<230, 230, 0>>
LLC_REPLY_BYTES == <<230, 231, 0>>

UA == 115  \* 0x73
Commands == {147, 115, 31, 151, 83}  \* SNRM, UA, DM, FRMR, DISC
Spontaneous == {3, 19}  \* 0x3, 0x13

(* Exclusive or of two bytes, half by half.                                *)
Half == 0..15
XorTable ==
  [a \in Half |-> [b \in Half |->
     LET bit(k) == IF (a \div k) % 2 # (b \div k) % 2 THEN k ELSE 0
     IN bit(1) + bit(2) + bit(4) + bit(8)]]
Xored(a, b) == 16 * XorTable[a \div 16][b \div 16] + XorTable[a % 16][b % 16]

(* FCS16Table holds the remainders of the polynomial 0x8408, here as their *)
(* low and their high byte: a byte is shifted out bit by bit.              *)
Shifted(v) ==
  LET half == <<v[1] \div 2 + 128 * (v[2] % 2), v[2] \div 2>>
  IN IF v[1] % 2 = 1 THEN <<Xored(half[1], 8), Xored(half[2], 132)>> ELSE half

FourShifted(v) == Shifted(Shifted(Shifted(Shifted(v))))
FCS16Table == [b \in Byte |-> FourShifted(FourShifted(<<b, 0>>))]

(* The running sum as its low and its high byte, after byte b.             *)
Summed(fcs, b) ==
  LET t == FCS16Table[Xored(fcs[1], b)]
  IN <<Xored(fcs[2], t[1]), t[2]>>

(* The check sum of the bytes s, in the order in which it is sent.         *)
countCRC(s) ==
  LET fcs[i \in 0..Len(s)] == IF i = 0 THEN <<255, 255>> ELSE Summed(fcs[i - 1], s[i])
      FCS16 == fcs[Len(s)]
  IN <<255 - FCS16[1], 255 - FCS16[2]>>

-----------------------------------------------------------------------------
(* Mutation of FrameSize: room is added, not left. *)
FrameSizeOver(maxInfoTX, position) ==
  IF position = 0 THEN maxInfoTX + 3 ELSE maxInfoTX

(* Sending. maxInfoTX is 128 until a UA lowers it; the first frame of a    *)
(* message leaves room for the three LLC bytes.                            *)
FrameSize(maxInfoTX, position) ==
  IF position = 0 THEN maxInfoTX - 3 ELSE maxInfoTX

(* How many bytes of data from position on the next frame takes.           *)
InfoLength(maxInfoTX, data, position) ==
  LET frameSize == FrameSize(maxInfoTX, position)
  IN IF Len(data) - position <= frameSize THEN Len(data) - position ELSE frameSize

(* A frame with the control byte frame, more telling that others follow.   *)
Frame(to, from, frame, more, info) ==
  LET addresses == dlms_getAddressBytes(to) \o dlms_getAddressBytes(from)
      length == Len(addresses) + (IF info = <<>> THEN 5 ELSE 7 + Len(info))
      head == <<160 + (IF more THEN 8 ELSE 0) + ((length \div 256) % 8), length % 256>>
              \o addresses \o <<frame>>
      body == head \o countCRC(head) \o info
  IN <<Flag>> \o body \o (IF info = <<>> THEN <<>> ELSE countCRC(body)) \o <<Flag>>

(* The frame for data from position on. dlms_getHdlcFrame does not move    *)
(* data->position itself when a client sends: bb_set2 does.                *)
dlms_getHdlcFrame(to, from, frame, maxInfoTX, data, position) ==
  LET n == InfoLength(maxInfoTX, data, position)
  IN Frame(to, from, frame, Len(data) - position > n,
           SubSeq(data, position + 1, position + n))

-----------------------------------------------------------------------------
(* Receiving. d is what dlms_getHdlcData keeps between two calls, of       *)
(* gxReplyData and of the received bytes: position, complete, moreData     *)
(* (its bit for further frames), command, packetLength; and what it        *)
(* returns: ret, frame (the control byte).                                 *)
ReplyInit == [position |-> 0, complete |-> FALSE, moreData |-> FALSE, command |-> 0,
              packetLength |-> 0, ret |-> "OK", frame |-> 0]

Smallest == 9  \* bytes without which no search is made

(* The first position from p on that holds a flag.                         *)
FlagsFrom(s, p) == {i \in p..(Len(s) - 1) : At(s, i) = Flag}
NextFlag(s, p) == CHOOSE i \in FlagsFrom(s, p) : \A j \in FlagsFrom(s, p) : i <= j

Word(s, i) == <<At(s, i), At(s, i + 1)>>
Fails(d, ret) == [d EXCEPT !.ret = ret]

(* Mutation of dlms_checkHdlcAddress: the second address is not skipped. *)
dlms_checkHdlcAddressOne(settings, s, start, eopPos) ==
  [refused |-> FALSE, position |-> dlms_getHDLCAddress(s, start, FALSE).position]

(* The position after the two addresses of the frame that begins at start, *)
(* and whether the frame is refused for the client's address: the only     *)
(* error that dlms_getHdlcData heeds. The code ignores whose the addresses *)
(* are; after the client's own request (an echo) it moves behind the frame.*)
dlms_checkHdlcAddress(settings, s, start, eopPos) ==
  LET to == dlms_getHDLCAddress(s, start, FALSE)
      from == dlms_getHDLCAddress(s, to.position, settings.server)
      echo == /\ ~ settings.server
              /\ to.value = settings.serverAddress
              /\ from.value = settings.clientAddress
              /\ to.value # from.value
  IN IF to.ret # "OK" THEN [refused |-> FALSE, position |-> start]
     ELSE IF from.ret # "OK"
     THEN [refused |-> from.ret = "INVALID_CLIENT_ADDRESS", position |-> to.position]
     ELSE [refused |-> FALSE, position |-> IF echo THEN eopPos + 1 ELSE from.position]

(* The position after the LLC bytes, if there are any.                     *)
dlms_checkLLCBytes(settings, s, p) ==
  LET llc == IF settings.server THEN LLC_SEND_BYTES ELSE LLC_REPLY_BYTES
  IN IF IsPrefix(llc, SubSeq(s, p + 1, Len(s))) THEN p + 3 ELSE p

(* The control byte is at position p, both check sums are right.           *)
Accepted(settings, s, d, start, frameLen, p) ==
  LET frame == At(s, p)
      empty == p + 3 = start + frameLen + 1
      read == [d EXCEPT !.frame = frame, !.packetLength = start + frameLen - 1]
  IN CASE frame % 4 = 3 /\ frame \notin Spontaneous ->
            [read EXCEPT !.position = IF empty THEN p + 4 ELSE p + 3,
                         !.command = frame,
                         !.ret = IF frame \in Commands THEN "OK" ELSE "REJECTED"]
       [] (frame % 4 # 3 \/ frame \in Spontaneous) /\ empty ->
            [read EXCEPT !.position = p + 4, !.moreData = @ \/ frame % 2 = 1]
       [] OTHER ->
            [read EXCEPT !.position = dlms_checkLLCBytes(settings, s, p + 3)]

(* Mutation of FrameRight: only the header is checked. *)
FrameRightAlways(s, start, frameLen, p) == TRUE

(* The control byte is at position p and the frame is whole. Checked at    *)
(* once: the header check sum after it and, when bytes remain before the   *)
(* closing flag, the frame check sum.                                      *)
HeaderRight(s, start, p) == countCRC(SubSeq(s, start + 2, p + 1)) = Word(s, p + 1)
FrameRight(s, start, frameLen, p) ==
  \/ p + 3 = start + frameLen + 1
  \/ countCRC(SubSeq(s, start + 2, start + frameLen - 1)) = Word(s, start + frameLen - 1)

(* One look for a frame from d.position on: what is kept, and whether the  *)
(* code looks once more, from behind what it found.                        *)
Ends(d) == [again |-> FALSE, data |-> d]
Again(d) == [again |-> TRUE, data |-> d]

(* A whole frame: its addresses are refused, or what follows them is       *)
(* checked, behind an echo too, where little may be left to read.          *)
Checked(settings, s, begun, start, frameLen, addresses) ==
  LET p == addresses.position
      continued == [begun EXCEPT !.moreData = (At(s, start + 1) \div 8) % 2 = 1,
                                 !.position = p + 3]
  IN IF addresses.refused
     THEN Ends(Fails([begun EXCEPT !.position = p], "INVALID_CLIENT_ADDRESS"))
     ELSE IF p + 3 > Len(s)
     THEN Ends(Fails(continued, "OUTOFMEMORY"))
     ELSE IF ~ HeaderRight(s, start, p)
     THEN IF Len(s) - (p + 3) > 8 THEN Again(continued)
          ELSE Ends(Fails(continued, "WRONG_CRC"))
     ELSE IF ~ FrameRight(s, start, frameLen, p)
     THEN Ends(Fails(continued, "WRONG_CRC"))
     ELSE Ends(Accepted(settings, s, continued, start, frameLen, p))

Look(settings, s, d) ==
  LET start == NextFlag(s, d.position)
      frameLen == 256 * (At(s, start + 1) % 8) + At(s, start + 2)
      eopPos == start + frameLen + 1
      begun == [d EXCEPT !.complete = TRUE]
  IN IF Len(s) - d.position < Smallest
     THEN Ends([d EXCEPT !.complete = FALSE])
     ELSE IF FlagsFrom(s, d.position) \subseteq {Len(s) - 1}
     THEN Ends([d EXCEPT !.complete = FALSE, !.position = Len(s)])
     ELSE IF At(s, start + 1) \div 16 # 10  \* 0xA.
     THEN Again([begun EXCEPT !.position = start + 1])
     ELSE IF start + 2 = Len(s)
     THEN Ends(Fails(begun, "OUTOFMEMORY"))
     ELSE IF Len(s) <= eopPos
     THEN Ends([d EXCEPT !.complete = FALSE, !.position = start])
     ELSE IF At(s, eopPos) # Flag
     THEN Again([begun EXCEPT !.position = start + 1])
     ELSE Checked(settings, s, begun, start, frameLen,
                dlms_checkHdlcAddress(settings, s, start + 3, eopPos))

(* The code calls itself to look once more.                                *)
ReadCodes == {"OK", "OUTOFMEMORY", "WRONG_CRC", "REJECTED", "INVALID_CLIENT_ADDRESS"}
HdlcData ==
  [position: Nat, complete: BOOLEAN, moreData: BOOLEAN, command: Nat,
   packetLength: Int, ret: ReadCodes, frame: Nat]

dlms_getHdlcData(settings, s, d) ==
  LET read[e \in HdlcData] == LET look == Look(settings, s, e)
                              IN IF look.again THEN read[look.data] ELSE look.data
  IN read[d]
================================================================================
