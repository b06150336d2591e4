-------------------------------- MODULE Framing --------------------------------
(***************************************************************************)
(* A message cut into HDLC frames by the loop of dlms_getLnMessages, each  *)
(* read back by the same library in the role of the other side, with one   *)
(* byte of one frame changed on the line.                                  *)
(***************************************************************************)
EXTENDS Hdlc

CONSTANTS
  Servers, Clients,  \* addresses
  MaxInfoTX,         \* values of settings.maxInfoTX
  Pdus,              \* messages, LLC bytes first
  Changes            \* what may be added to a byte on the line

ASSUME FramingAssumption ==
  /\ Servers \subseteq Numbers /\ Clients \subseteq Numbers
  /\ MaxInfoTX \subseteq Nat \ 0..3
  /\ Pdus \subseteq Seq(Byte) /\ \A pdu \in Pdus : IsPrefix(LLC_SEND_BYTES, pdu)
  /\ Changes \subseteq Int

(* What a message of several frames needs in order to arrive whole. The    *)
(* first frame holds all three LLC bytes, and the length of a frame fits   *)
(* into the eleven bits of its format.                                     *)
FramesWide == MaxInfoTX \subseteq 6..2032

(* The other side drops LLC bytes at the beginning of every frame, not     *)
(* only of the first (dlms_checkLLCBytes): no later frame begins like them *)
(* or is nothing but a part of them.                                       *)
LLCInFirstFrame ==
  \A pdu \in Pdus : \A m \in MaxInfoTX : \A j \in 1..Len(pdu) :
    m * j - 3 < Len(pdu) =>
      \E i \in 1..3 : m * j - 3 + i <= Len(pdu) /\ pdu[m * j - 3 + i] # LLC_SEND_BYTES[i]

VARIABLES
  settings,  \* of both sides
  data,      \* the message
  position,  \* of data: what was sent
  line,      \* the frame on the line
  damaged,   \* it was changed
  received   \* what the other side has put together

vars == <<settings, data, position, line, damaged, received>>

I_FRAME == 16  \* 0x10, any number will do

Init ==
  /\ settings \in [server : {TRUE}, serverAddress : Servers, clientAddress : Clients,
                   maxInfoTX : MaxInfoTX]
  /\ data \in Pdus
  /\ position = 0
  /\ line = <<>>
  /\ damaged = FALSE
  /\ received = <<>>

(* Mutation of Send: the position moves by a whole frame. *)
SendFull ==
  /\ line = <<>> /\ ~ damaged
  /\ position # Len(data)
  /\ line' = dlms_getHdlcFrame(settings.serverAddress, settings.clientAddress, I_FRAME,
                               settings.maxInfoTX, data, position)
  /\ position' = position + FrameSize(settings.maxInfoTX, position)
  /\ UNCHANGED <<settings, data, damaged, received>>

Send ==
  /\ line = <<>> /\ ~ damaged
  /\ position # Len(data)
  /\ line' = dlms_getHdlcFrame(settings.serverAddress, settings.clientAddress, I_FRAME,
                               settings.maxInfoTX, data, position)
  /\ position' = position + InfoLength(settings.maxInfoTX, data, position)
  /\ UNCHANGED <<settings, data, damaged, received>>

Damage ==
  /\ ~ damaged
  /\ damaged' = TRUE
  /\ \E i \in DOMAIN line, c \in Changes : line' = [line EXCEPT ![i] = (@ + c) % 256]
  /\ UNCHANGED <<settings, data, position, received>>

(* The information of the frame dlms_getHdlcData has read.                 *)
Information(s, d) == SubSeq(s, d.position + 1, d.packetLength)

Receive ==
  LET d == dlms_getHdlcData(settings, line, ReplyInit)
  IN /\ line # <<>>
     /\ received' = IF d.complete /\ d.ret = "OK" THEN received \o Information(line, d)
                    ELSE received
     /\ line' = <<>>
     /\ UNCHANGED <<settings, data, position, damaged>>

Next == Send \/ Damage \/ Receive

Spec == Init /\ [][Next]_vars

-----------------------------------------------------------------------------
TypeOK ==
  /\ position \in 0..Len(data)
  /\ line \in Seq(Byte) /\ received \in Seq(Byte)
  /\ damaged \in BOOLEAN

(* The frames of a message bring exactly the message without its LLC       *)
(* bytes, for any length of message, frame and server address, if the      *)
(* client's address is one byte; of a client with a longer address a       *)
(* server takes nothing (dlms_getHDLCAddress).                             *)
Reassembled ==
  line = <<>> /\ position = Len(data) /\ ~ damaged =>
    IF settings.clientAddress < 128 THEN LLC_SEND_BYTES \o received = data
    ELSE received = <<>>

(* No frame carries more than maxInfoTX bytes, and the format byte says    *)
(* whether it is the last (dlms_getHdlcFrame).                             *)
InfoFits ==
  line # <<>> /\ ~ damaged =>
    /\ Len(line) <= settings.maxInfoTX + 9 + Len(dlms_getAddressBytes(settings.serverAddress))
                    + Len(dlms_getAddressBytes(settings.clientAddress))
    /\ (line[2] \div 8) % 2 = 1 <=> position # Len(data)

(* Of a frame in which one byte was changed, be it a flag, the length, an  *)
(* address or a check sum, nothing is taken (countCRC, dlms_getHdlcData).  *)
DamageNoticed == [][line # <<>> /\ damaged => received' = received]_vars
================================================================================
