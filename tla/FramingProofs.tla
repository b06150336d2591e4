----------------------------- MODULE FramingProofs -----------------------------
(*****************************************************************************)
(* The frames of a message fit, and bring exactly the message to a server    *)
(* that admits the client's address, for every message, server address,      *)
(* frame size and cut into frames.                                           *)
(*                                                                           *)
(* Neither is inductive by itself.  FramesSent adds that the line holds the  *)
(* frame sent last, from a position that brought position where it is;       *)
(* FramesTaken that what was put together is the message up to there, and    *)
(* that every frame ends at a boundary (Boundary), which is where the        *)
(* hypothesis LLCInFirstFrame speaks of the bytes that follow.               *)
(*****************************************************************************)
EXTENDS Framing, EncodingProofs

(* The information is not mistaken for the LLC bytes or a part of them.    *)
Unlike(info) == \E i \in 1..3 : i <= Len(info) /\ info[i] # LLC_SEND_BYTES[i]

(* What d has taken from s is info, but for LLC bytes at its beginning.    *)
ReadWhole(s, info, d) ==
  /\ d.complete /\ d.ret = "OK"
  /\ Unlike(info) => Information(s, d) = info
  /\ Stands(info, 0, LLC_SEND_BYTES) => LLC_SEND_BYTES \o Information(s, d) = info

(* A frame is read back: the whole information, without LLC bytes at its   *)
(* beginning.                                                              *)
LEMMA InformationRead ==
  ASSUME NEW conf, IsServer(conf), NEW to \in Numbers, NEW from \in Numbers, from < 128,
         NEW frame \in Byte, frame % 4 # 3, NEW more \in BOOLEAN,
         NEW info \in Seq(Byte), info # <<>>, Length(to, from, info) \in Lengths,
         NEW s, s = Frame(to, from, frame, more, info),
         NEW d, d = dlms_getHdlcData(conf, s, ReplyInit)
  PROVE  ReadWhole(s, info, d)
<1> DEFINE H == Header(to, from, frame, more, info)
           n == Len(H)
           p == n + 3
           k == Len(info)
           X == LLC_SEND_BYTES
<1>1. /\ d.complete /\ d.ret = "OK"
      /\ d.position = dlms_checkLLCBytes(conf, s, p)
      /\ d.packetLength = p + k
  BY FrameTaken
<1>2. s \in Seq(Byte) /\ Stands(s, p, info)
  BY FrameLayout
<1>3. H \in Seq(Byte)
  BY HeaderBytes
<1> HIDE DEF H
<1>4. p \in Nat /\ k \in Nat
  BY <1>3
<1>5. p + k <= Len(s) /\ p <= Len(s) /\ Len(s) \in Nat
  BY <1>2, <1>4 DEF Stands
<1> HIDE DEF n, p
<1>6. d.position = IF Stands(s, p, X) THEN p + 3 ELSE p
  <2>1. IsPrefix(X, SubSeq(s, p + 1, Len(s))) <=> Stands(s, p, X)
    BY <1>2, <1>4, <1>5, LLCBytes, PrefixStands
  <2> QED BY <1>1, <2>1 DEF dlms_checkLLCBytes, IsServer
<1>7. ReadBack(s, p, info)
  BY <1>2, <1>4, StandsSubSeq
<1>8. ASSUME Unlike(info)  PROVE Information(s, d) = info
  <2>1. PICK i \in 1..3 : i <= Len(info) /\ info[i] # X[i]
    BY <1>8 DEF Unlike
  <2>2. i \in 1..Len(info)
    BY <1>4, <2>1
  <2>3. s[p + i] = info[i]
    BY <1>2, <2>2 DEF Stands
  <2>4. ~ Stands(s, p, X)
    BY <2>1, <2>3, LLCBytes DEF Stands
  <2>5. d.position = p
    BY <1>6, <2>4
  <2> QED BY <1>1, <1>7, <2>5 DEF Information, ReadBack
<1>9. ASSUME Stands(info, 0, X)  PROVE X \o Information(s, d) = info
  <2>1. Stands(s, p, X)
    <3>1. Stands(s, p + 0, X) /\ p + 0 = p
      BY <1>2, <1>4, <1>9, LLCBytes, StandsWithin
    <3> QED BY <3>1
  <2>2. d.position = p + 3
    BY <1>6, <2>1
  <2>3. 3 <= k /\ \A i \in 1..3 : info[i] = X[i]
    <3>1. 0 + 3 <= k /\ \A i \in 1..3 : info[0 + i] = X[i]
      BY <1>9, LLCBytes DEF Stands
    <3> QED BY <3>1, <1>4
  <2> DEFINE rest == SubSeq(s, p + 3 + 1, p + k)
  <2>4. \A i \in (p + 3 + 1)..(p + k) : s[i] \in Byte
    BY <1>2, <1>4, <1>5
  <2>5. /\ rest \in Seq(Byte) /\ Len(rest) = k - 3
        /\ \A i \in 1..(k - 3) : rest[i] = s[p + 3 + i]
    <3>1. PICK a, b : a = p + 3 + 1 /\ b = p + k
      OBVIOUS
    <3>2. /\ a \in Int /\ b \in Int /\ \A i \in a..b : s[i] \in Byte
          /\ a <= b + 1 /\ b - a + 1 = k - 3 /\ \A i \in 1..(k - 3) : a + i - 1 = p + 3 + i
      BY <1>4, <2>3, <2>4, <3>1
    <3>3. PICK r : r = SubSeq(s, a, b)
      OBVIOUS
    <3>4. Cut(s, a, b, r)
      BY <3>2, <3>3, CutBytes
    <3>5. r \in Seq(Byte) /\ Len(r) = k - 3 /\ \A i \in 1..(k - 3) : r[i] = s[p + 3 + i]
      <4>1. r \in Seq(Byte)
        BY <3>2, <3>4 DEF Cut
      <4>2. Len(r) = IF a <= b THEN b - a + 1 ELSE 0
        BY <3>2, <3>4 DEF Cut
      <4>3. Len(r) = k - 3
        <5>1. \A i, j \in Int : i <= j + 1 => (IF i <= j THEN j - i + 1 ELSE 0) = j - i + 1
          OBVIOUS
        <5>2. Len(r) = b - a + 1
          BY <3>2, <4>2, <5>1, Zenon
        <5> QED BY <3>2, <5>2, Zenon
      <4>4. \A i \in 1..(b - a + 1) : r[i] = s[a + i - 1]
        BY <3>2, <3>4 DEF Cut
      <4> QED BY <3>2, <4>1, <4>3, <4>4
    <3>6. r = rest
      BY <3>1, <3>3
    <3> HIDE DEF rest
    <3> QED BY <3>5, <3>6
  <2> HIDE DEF rest
  <2>7. \A i \in 1..(k - 3) : rest[i] = info[3 + i]
    <3> TAKE i \in 1..(k - 3)
    <3>1. p + 3 + i = p + (3 + i) /\ 3 + i \in 1..Len(info)
      BY <1>4, <2>3
    <3>2. s[p + (3 + i)] = info[3 + i]
      BY <1>2, <3>1 DEF Stands
    <3>3. rest[i] = s[p + 3 + i]
      BY <2>5
    <3> QED BY <3>1, <3>2, <3>3
  <2>8. /\ X \o rest \in Seq(Byte) /\ Len(X \o rest) = Len(X) + Len(rest)
        /\ \A i \in 1..(Len(X) + Len(rest)) :
             (X \o rest)[i] = IF i <= Len(X) THEN X[i] ELSE rest[i - Len(X)]
    BY <2>5, LLCBytes, ConcatProperties
  <2>9. Len(X \o rest) = Len(info)
    <3>1. Len(X \o rest) = 3 + (k - 3)
      BY <2>5, <2>8, LLCBytes, Zenon
    <3>2. 3 + (k - 3) = k
      BY <1>4
    <3> QED BY <3>1, <3>2, Zenon
  <2>10. ASSUME NEW i \in 1..Len(X \o rest)  PROVE (X \o rest)[i] = info[i]
    <3>1. i \in 1..k /\ i \in 1..(Len(X) + Len(rest))
      BY <2>8, <2>9
    <3>2. (X \o rest)[i] = IF i <= 3 THEN X[i] ELSE rest[i - 3]
      BY <2>8, <3>1, LLCBytes, Zenon
    <3>3. CASE i <= 3
      <4>1. i \in 1..3
        BY <3>3
      <4> QED BY <2>3, <3>2, <3>3, <4>1
    <3>4. CASE ~ (i <= 3)
      <4>1. i - 3 \in 1..(k - 3) /\ 3 + (i - 3) = i
        BY <1>4, <3>1, <3>4
      <4>2. rest[i - 3] = info[3 + (i - 3)]
        BY <2>7, <4>1
      <4> QED BY <3>2, <3>4, <4>1, <4>2
    <3> QED BY <3>3, <3>4
  <2>11. X \o rest = info
    BY <2>8, <2>9, <2>10, SeqEqual
  <2>12. Information(s, d) = rest
    BY <1>1, <2>2 DEF Information, rest
  <2> QED BY <2>11, <2>12
<1> QED BY <1>1, <1>8, <1>9 DEF ReadWhole

(* What a frame for data from q on carries.                                *)
Carries(m, s, q, n, info) ==
  /\ n \in 1..m /\ q + n <= Len(s) /\ (Len(s) - q > n <=> q + n # Len(s))
  /\ q = 0 => n <= m - 3
  /\ q + n # Len(s) => n = IF q = 0 THEN m - 3 ELSE m
  /\ info \in Seq(Byte) /\ info # <<>> /\ Len(info) = n
  /\ \A i \in 1..n : info[i] = s[q + i]

(* How much of the data dlms_getHdlcFrame takes, and which bytes.          *)
LEMMA FrameCarries ==
  ASSUME NEW m \in Nat \ 0..3, NEW s \in Seq(Byte), NEW q \in Nat, q < Len(s)
  PROVE  Carries(m, s, q, InfoLength(m, s, q),
                 SubSeq(s, q + 1, q + InfoLength(m, s, q)))
<1> DEFINE f == IF q = 0 THEN m - 3 ELSE m
<1>0. PICK l \in Nat : l = Len(s)
  OBVIOUS
<1>1. PICK n : n = IF l - q <= f THEN l - q ELSE f
  OBVIOUS
<1>2. InfoLength(m, s, q) = n
  BY <1>0, <1>1 DEF InfoLength, FrameSize
<1>3. /\ n \in 1..m /\ q + n <= l /\ (l - q > n <=> q + n # l)
      /\ q = 0 => n <= m - 3
      /\ q + n # l => n = IF q = 0 THEN m - 3 ELSE m
  BY <1>0, <1>1
<1>4. PICK info : info = SubSeq(s, q + 1, q + n)
  OBVIOUS
<1>5. PICK a, b : a = q + 1 /\ b = q + n
  OBVIOUS
<1>6. a \in Int /\ b \in Int /\ a <= b /\ b - a + 1 = n /\ \A i \in 1..n : a + i - 1 = q + i
  BY <1>3, <1>5
<1>7. \A i \in a..b : s[i] \in Byte
  <2>1. \A i \in a..b : i \in 1..Len(s)
    BY <1>0, <1>3, <1>5
  <2> QED BY <2>1
<1>8. Cut(s, a, b, info)
  BY <1>4, <1>5, <1>6, <1>7, CutBytes
<1>9. info \in Seq(Byte) /\ Len(info) = b - a + 1
  BY <1>6, <1>8 DEF Cut
<1>10. \A i \in 1..(b - a + 1) : info[i] = s[a + i - 1]
  BY <1>8 DEF Cut
<1>11. Len(info) = n /\ \A i \in 1..n : info[i] = s[q + i]
  BY <1>6, <1>9, <1>10
<1>12. info # <<>>
  BY <1>3, <1>9, <1>11
<1>13. Carries(m, s, q, n, info)
  BY <1>0, <1>3, <1>9, <1>11, <1>12 DEF Carries
<1> QED BY <1>2, <1>4, <1>13

(* The frame it makes of them.                                             *)
LEMMA FrameSent ==
  ASSUME NEW to, NEW from, NEW frame, NEW m \in Nat \ 0..3, NEW s \in Seq(Byte), NEW q \in Nat,
         q < Len(s)
  PROVE  dlms_getHdlcFrame(to, from, frame, m, s, q) =
           Frame(to, from, frame, q + InfoLength(m, s, q) # Len(s),
                 SubSeq(s, q + 1, q + InfoLength(m, s, q)))
<1>0. PICK n, info : n = InfoLength(m, s, q) /\ info = SubSeq(s, q + 1, q + n)
  OBVIOUS
<1>1. Carries(m, s, q, n, info)
  BY <1>0, FrameCarries
<1>2. (Len(s) - q > n) = (q + n # Len(s))
  <2>1. Len(s) - q > n <=> q + n # Len(s)
    BY <1>1 DEF Carries
  <2>2. (Len(s) - q > n) \in BOOLEAN /\ (q + n # Len(s)) \in BOOLEAN
    OBVIOUS
  <2> QED BY <2>1, <2>2
<1>3. dlms_getHdlcFrame(to, from, frame, m, s, q) =
        Frame(to, from, frame, Len(s) - q > n, info)
  BY <1>0 DEF dlms_getHdlcFrame
<1>4. dlms_getHdlcFrame(to, from, frame, m, s, q) =
        Frame(to, from, frame, q + n # Len(s), info)
  BY <1>2, <1>3, Zenon
<1> QED BY <1>0, <1>4

(* What InfoFits says of a frame s that carries at most m bytes.           *)
Fits(to, from, m, more, s) ==
  /\ s \in Seq(Byte) /\ s # <<>>
  /\ Len(s) <= m + 9 + Len(dlms_getAddressBytes(to)) + Len(dlms_getAddressBytes(from))
  /\ (s[2] \div 8) % 2 = 1 <=> more

(* Every frame says as much.                                               *)
LEMMA FrameFits ==
  ASSUME NEW to \in Numbers, NEW from \in Numbers, NEW frame \in Byte, NEW more \in BOOLEAN,
         NEW info \in Seq(Byte), info # <<>>, NEW m \in Nat, Len(info) <= m,
         NEW s, s = Frame(to, from, frame, more, info)
  PROVE  Fits(to, from, m, more, s)
<1> DEFINE H == Header(to, from, frame, more, info)
           C == Content(to, from, frame, more, info)
           F == Format(to, from, more, info)
           L == Length(to, from, info)
<1>1. PICK a, b : a = Len(dlms_getAddressBytes(to)) /\ b = Len(dlms_getAddressBytes(from))
  OBVIOUS
<1>2. a \in Nat /\ b \in Nat
  BY <1>1, AddressBytes
<1>3. /\ H \in Seq(Byte) /\ Len(H) = Len(Addresses(to, from)) + 3
      /\ Len(Addresses(to, from)) = a + b
      /\ F \in Seq(Byte) /\ Len(F) = 2 /\ L \in Nat
  BY <1>1, HeaderBytes
<1>4. C \in Seq(Byte) /\ Len(C) = Len(H) + 2 + Len(info)
  BY ContentBytes
<1>5. s \in Seq(Byte) /\ Len(s) = Len(C) + 4 /\ Stands(s, 1, H)
  BY FrameLayout
<1>6. Stands(H, 0, F)
  BY HeaderLayout
<1>7. F = <<FirstFormat(L, more), L % 256>>
  BY DEF Format, FirstFormat
<1>8. Says(FirstFormat(L, more), L, more)
  BY <1>3, FormatRead, Zenon
<1> HIDE DEF H, C, F, L
<1>9. Len(s) = a + b + 9 + Len(info) /\ Len(info) \in Nat
  <2>1. Len(info) \in Nat /\ Len(s) \in Nat
    BY <1>5
  <2>2. Len(H) \in Nat /\ Len(C) \in Nat
    BY <1>3, <1>4
  <2>3. PICK k, h, c, l \in Nat : k = Len(info) /\ h = Len(H) /\ c = Len(C) /\ l = Len(s)
    BY <2>1, <2>2
  <2>4. h = (a + b) + 3 /\ c = h + 2 + k /\ l = c + 4
    BY <1>3, <1>4, <1>5, <2>3
  <2>5. l = a + b + 9 + k
    BY <1>2, <2>4
  <2> QED BY <2>3, <2>5
<1>10. Len(s) <= m + 9 + a + b /\ Len(s) > 0
  BY <1>2, <1>9
<1>11. s # <<>>
  BY <1>5, <1>10
<1>12. s[2] = FirstFormat(L, more)
  <2>1. PICK x : x = FirstFormat(L, more)
    OBVIOUS
  <2>2. F[1] = x /\ Len(F) = 2
    BY <1>7, <2>1
  <2>3. H[0 + 1] = F[1]
    BY <1>6, <2>2 DEF Stands
  <2>4. s[1 + 1] = H[1]
    <3>1. 1 \in 1..Len(H)
      BY <1>2, <1>3
    <3> QED BY <1>5, <3>1 DEF Stands
  <2>5. 0 + 1 = 1 /\ 1 + 1 = 2
    OBVIOUS
  <2> QED BY <2>1, <2>2, <2>3, <2>4, <2>5
<1>13. (s[2] \div 8) % 2 = 1 <=> more
  BY <1>8, <1>12 DEF Says
<1> QED BY <1>1, <1>5, <1>10, <1>11, <1>13 DEF Fits

-----------------------------------------------------------------------------
(* Both sides keep their settings and the message is what it was.          *)
Conf == [server : {TRUE}, serverAddress : Servers, clientAddress : Clients,
         maxInfoTX : MaxInfoTX]
Unchanging == settings \in Conf /\ data \in Pdus

(* What the assumption says of the values they have.                       *)
LEMMA Constants ==
  ASSUME Unchanging
  PROVE  /\ settings.serverAddress \in Numbers /\ settings.clientAddress \in Numbers
         /\ settings.maxInfoTX \in Nat \ 0..3 /\ data \in Seq(Byte) /\ Len(data) \in Nat
         /\ IsServer(settings) /\ settings.maxInfoTX \in MaxInfoTX
         /\ IsPrefix(LLC_SEND_BYTES, data)
<1>1. /\ settings.serverAddress \in Servers /\ settings.clientAddress \in Clients
      /\ settings.maxInfoTX \in MaxInfoTX /\ settings.server = TRUE
  BY DEF Unchanging, Conf
<1>2. data \in Seq(Byte) /\ IsPrefix(LLC_SEND_BYTES, data)
  BY FramingAssumption DEF Unchanging
<1>3. settings.serverAddress \in Numbers /\ settings.clientAddress \in Numbers
  BY <1>1, FramingAssumption, Zenon
<1>4. settings.maxInfoTX \in Nat \ 0..3
  BY <1>1, FramingAssumption, Zenon
<1>5. Len(data) \in Nat
  BY <1>2
<1>6. IsServer(settings)
  BY <1>1 DEF IsServer
<1> QED BY <1>1, <1>2, <1>3, <1>4, <1>5, <1>6, Zenon

(* Of the message from q on: the length of the next frame's information,   *)
(* that information and the frame.                                         *)
Parts(q) == InfoLength(settings.maxInfoTX, data, q)
Carried(q) == SubSeq(data, q + 1, q + Parts(q))
FrameAt(q) == dlms_getHdlcFrame(settings.serverAddress, settings.clientAddress, I_FRAME,
                                settings.maxInfoTX, data, q)

(* The next frame carries them, and fits.                                  *)
LEMMA Sent ==
  ASSUME Unchanging, NEW q \in Nat, q < Len(data)
  PROVE  /\ Carries(settings.maxInfoTX, data, q, Parts(q), Carried(q))
         /\ FrameAt(q) = Frame(settings.serverAddress, settings.clientAddress, I_FRAME,
                               q + Parts(q) # Len(data), Carried(q))
         /\ Fits(settings.serverAddress, settings.clientAddress, settings.maxInfoTX,
                 q + Parts(q) # Len(data), FrameAt(q))
<1>1. PICK to, from, m, s : /\ to = settings.serverAddress /\ from = settings.clientAddress
                            /\ m = settings.maxInfoTX /\ s = data
  OBVIOUS
<1>2. to \in Numbers /\ from \in Numbers /\ m \in Nat \ 0..3 /\ s \in Seq(Byte)
  BY <1>1, Constants
<1>3. PICK n : n = InfoLength(m, s, q)
  OBVIOUS
<1>4. PICK info : info = SubSeq(s, q + 1, q + n)
  OBVIOUS
<1>5. PICK f : f = dlms_getHdlcFrame(to, from, I_FRAME, m, s, q)
  OBVIOUS
<1>6. Parts(q) = n /\ Carried(q) = info /\ FrameAt(q) = f
  BY <1>1, <1>3, <1>4, <1>5 DEF Parts, Carried, FrameAt
<1>7. q < Len(s)
  BY <1>1
<1>8. Carries(m, s, q, n, info)
  <2>1. Carries(m, s, q, InfoLength(m, s, q), SubSeq(s, q + 1, q + InfoLength(m, s, q)))
    BY <1>2, <1>7, FrameCarries, Zenon
  <2> QED BY <1>3, <1>4, <2>1, Zenon
<1>9. f = Frame(to, from, I_FRAME, q + n # Len(s), info)
  <2>1. dlms_getHdlcFrame(to, from, I_FRAME, m, s, q) =
          Frame(to, from, I_FRAME, q + InfoLength(m, s, q) # Len(s),
                SubSeq(s, q + 1, q + InfoLength(m, s, q)))
    <3>1. \A u, v, w : dlms_getHdlcFrame(u, v, w, m, s, q) =
            Frame(u, v, w, q + InfoLength(m, s, q) # Len(s),
                  SubSeq(s, q + 1, q + InfoLength(m, s, q)))
      BY <1>2, <1>7, FrameSent
    <3> QED BY <3>1, Zenon
  <2> QED BY <1>3, <1>4, <1>5, <2>1
<1>10. I_FRAME \in Byte /\ (q + n # Len(s)) \in BOOLEAN
  BY DEF I_FRAME, Byte
<1>11. info \in Seq(Byte) /\ info # <<>> /\ Len(info) <= m /\ m \in Nat
  BY <1>2, <1>8 DEF Carries
<1>12. Fits(to, from, m, q + n # Len(s), f)
  BY <1>2, <1>9, <1>10, <1>11, FrameFits
<1> QED BY <1>1, <1>6, <1>8, <1>9, <1>12

-----------------------------------------------------------------------------

(* TypeOK is inductive beside what never changes.                          *)
FramesType == TypeOK /\ Unchanging

(* It holds at the start.                                                  *)
LEMMA FramesBegin ==
  ASSUME Init
  PROVE  FramesType
<1>1. Unchanging
  BY DEF Init, Unchanging, Conf
<1>2. Len(data) \in Nat
  BY <1>1, Constants
<1>3. 0 \in 0..Len(data) /\ <<>> \in Seq(Byte)
  BY <1>2
<1>4. position = 0 /\ line = <<>> /\ damaged = FALSE /\ received = <<>>
  BY DEF Init
<1> QED BY <1>1, <1>3, <1>4 DEF FramesType, TypeOK

(* A frame is sent from where the one before ended.                        *)
LEMMA SendsFrame ==
  ASSUME FramesType, Send
  PROVE  /\ position \in Nat /\ position < Len(data) /\ line = <<>> /\ ~ damaged
         /\ line' = FrameAt(position) /\ position' = position + Parts(position)
         /\ position' \in 0..Len(data) /\ line' \in Seq(Byte)
         /\ UNCHANGED <<settings, data, damaged, received>>
<1>1. Unchanging /\ position \in 0..Len(data) /\ Len(data) \in Nat /\ position # Len(data)
  BY Constants DEF FramesType, TypeOK, Send
<1>2. position \in Nat /\ position < Len(data)
  BY <1>1
<1>3. line' = FrameAt(position) /\ position' = position + Parts(position)
  BY DEF Send, FrameAt, Parts
<1>4. Carries(settings.maxInfoTX, data, position, Parts(position), Carried(position))
  BY <1>1, <1>2, Sent
<1>5. Parts(position) \in Nat /\ position + Parts(position) <= Len(data)
  <2>1. settings.maxInfoTX \in Nat
    BY <1>1, Constants
  <2> QED BY <1>4, <2>1 DEF Carries
<1>6. position' \in 0..Len(data)
  BY <1>1, <1>2, <1>3, <1>5
<1>7. line' \in Seq(Byte)
  <2>1. Fits(settings.serverAddress, settings.clientAddress, settings.maxInfoTX,
             position + Parts(position) # Len(data), FrameAt(position))
    BY <1>1, <1>2, Sent
  <2> QED BY <1>3, <2>1 DEF Fits
<1> QED BY <1>2, <1>3, <1>6, <1>7 DEF Send

(* What is taken out of a frame is bytes.                                  *)
LEMMA InformationBytes ==
  ASSUME NEW s \in Seq(Byte), NEW d \in Left(s), d.complete, d.ret = "OK"
  PROVE  Information(s, d) \in Seq(Byte)
<1>1. d.position \in Nat /\ d.packetLength \in Int /\ d.packetLength <= Len(s)
  BY DEF Left, HdlcData
<1>2. PICK a, b : a = d.position + 1 /\ b = d.packetLength
  OBVIOUS
<1>3. a \in Int /\ b \in Int /\ \A i \in a..b : s[i] \in Byte
  <2>1. \A i \in a..b : i \in 1..Len(s)
    <3>1. Len(s) \in Nat
      OBVIOUS
    <3> QED BY <1>1, <1>2, <3>1
  <2> QED BY <1>1, <1>2, <2>1
<1>4. Cut(s, a, b, SubSeq(s, a, b))
  BY <1>3, CutBytes, Zenon
<1> QED BY <1>2, <1>4 DEF Cut, Information

(* Whatever was on the line, bytes are put together.                       *)
LEMMA ReceivedBytes ==
  ASSUME FramesType, Receive
  PROVE  received' \in Seq(Byte)
<1> DEFINE d == dlms_getHdlcData(settings, line, ReplyInit)
<1>1. line \in Seq(Byte) /\ received \in Seq(Byte)
  BY DEF FramesType, TypeOK
<1>2. d \in Left(line)
  <2>1. ReplyInit \in HdlcData
    BY DEF ReplyInit, HdlcData, ReadCodes
  <2> QED BY <1>1, <2>1, DataRead
<1>3. received' = IF d.complete /\ d.ret = "OK" THEN received \o Information(line, d)
                  ELSE received
  BY DEF Receive
<1> HIDE DEF d
<1>4. CASE ~ (d.complete /\ d.ret = "OK")
  BY <1>1, <1>3, <1>4
<1>5. CASE d.complete /\ d.ret = "OK"
  <2>6. Information(line, d) \in Seq(Byte)
    BY <1>1, <1>2, <1>5, InformationBytes
  <2>7. received \o Information(line, d) \in Seq(Byte)
    BY <1>1, <2>6, Concat, Zenon
  <2> QED BY <1>3, <1>5, <2>7
<1> QED BY <1>4, <1>5

(* Every step keeps it.                                                    *)
LEMMA FramesTypeKept ==
  ASSUME FramesType, [Next]_vars
  PROVE  FramesType'
<1>0. TypeOK /\ Unchanging
  BY DEF FramesType
<1>1. CASE Send
  <2>1. /\ position' \in 0..Len(data) /\ line' \in Seq(Byte)
        /\ UNCHANGED <<settings, data, damaged, received>>
    BY <1>1, SendsFrame
  <2> QED BY <1>0, <2>1 DEF FramesType, TypeOK, Unchanging
<1>2. CASE Damage
  <2>1. /\ damaged' = TRUE /\ UNCHANGED <<settings, data, position, received>>
    BY <1>2 DEF Damage
  <2>2. PICK i \in DOMAIN line, c \in Changes : line' = [line EXCEPT ![i] = (line[i] + c) % 256]
    BY <1>2 DEF Damage
  <2>3. line \in Seq(Byte) /\ c \in Int
    BY <1>0, FramingAssumption DEF TypeOK
  <2>4. line[i] \in Byte
    BY <2>3
  <2>5. (line[i] + c) % 256 \in Byte
    <3>1. \A a, b \in Int : (a + b) % 256 \in Byte
      BY DEF Byte
    <3>2. line[i] \in Int
      BY <2>4 DEF Byte
    <3> QED BY <2>3, <3>1, <3>2, Zenon
  <2>6. line' \in Seq(Byte)
    BY <2>2, <2>3, <2>5
  <2> QED BY <1>0, <2>1, <2>6 DEF FramesType, TypeOK, Unchanging
<1>3. CASE Receive
  <2>1. line' = <<>> /\ UNCHANGED <<settings, data, position, damaged>>
    BY <1>3 DEF Receive
  <2>2. received' \in Seq(Byte)
    BY <1>3, ReceivedBytes
  <2>3. <<>> \in Seq(Byte)
    OBVIOUS
  <2>4. TypeOK'
    BY <1>0, <2>1, <2>2, <2>3 DEF TypeOK
  <2>5. Unchanging'
    BY <1>0, <2>1 DEF Unchanging
  <2> QED BY <2>4, <2>5 DEF FramesType
<1>4. CASE UNCHANGED vars
  BY <1>0, <1>4 DEF vars, FramesType, TypeOK, Unchanging
<1> QED BY <1>1, <1>2, <1>3, <1>4 DEF Next

(* TypeOK of every message, address and frame size, and of any bytes the   *)
(* line makes of a frame.                                                  *)
THEOREM FramingTypeCorrect == Spec => []TypeOK
<1>1. Init => FramesType
  BY FramesBegin
<1>2. FramesType /\ [Next]_vars => FramesType'
  BY FramesTypeKept
<1>3. FramesType => TypeOK
  BY DEF FramesType
<1> QED BY <1>1, <1>2, <1>3, PTL DEF Spec

-----------------------------------------------------------------------------
(* The frame on the line is the one that brought position where it is.     *)
OnLine(q) ==
  /\ q \in Nat /\ q < Len(data)
  /\ line = FrameAt(q) /\ position = q + Parts(q)
(* The line holds what was sent last, until it is damaged.                 *)
FramesSent == FramesType /\ (line # <<>> /\ ~ damaged => \E q : OnLine(q))

(* Every step keeps that.                                                  *)
LEMMA FramesSentKept ==
  ASSUME FramesSent, [Next]_vars
  PROVE  FramesSent'
<1>0. FramesType
  BY DEF FramesSent
<1>1. FramesType'
  BY <1>0, FramesTypeKept
<1>2. CASE Send
  <2>1. /\ position \in Nat /\ position < Len(data)
        /\ line' = FrameAt(position) /\ position' = position + Parts(position)
        /\ UNCHANGED <<settings, data>>
    BY <1>0, <1>2, SendsFrame
  <2>2. FrameAt(position) = dlms_getHdlcFrame(settings'.serverAddress, settings'.clientAddress,
          I_FRAME, settings'.maxInfoTX, data', position)
    BY <2>1 DEF FrameAt
  <2>3. PICK q : q = position
    OBVIOUS
  <2>4. OnLine(q)'
    BY <2>1, <2>3 DEF OnLine, FrameAt, Parts
  <2> QED BY <1>1, <2>4 DEF FramesSent
<1>3. CASE Damage
  BY <1>1, <1>3 DEF FramesSent, Damage
<1>4. CASE Receive
  BY <1>1, <1>4 DEF FramesSent, Receive
<1>5. CASE UNCHANGED vars
  <2>1. \A q : OnLine(q) <=> OnLine(q)'
    BY <1>5 DEF vars, OnLine, FrameAt, Parts
  <2>2. line' = line /\ damaged' = damaged
    BY <1>5 DEF vars
  <2> QED BY <1>1, <2>1, <2>2 DEF FramesSent
<1> QED BY <1>2, <1>3, <1>4, <1>5 DEF Next

(* And what was sent fits.                                                 *)
LEMMA SentFits ==
  ASSUME FramesSent
  PROVE  InfoFits
<1> SUFFICES ASSUME line # <<>>, ~ damaged
             PROVE  /\ Len(line) <= settings.maxInfoTX + 9
                         + Len(dlms_getAddressBytes(settings.serverAddress))
                         + Len(dlms_getAddressBytes(settings.clientAddress))
                    /\ (line[2] \div 8) % 2 = 1 <=> position # Len(data)
  BY DEF InfoFits
<1>1. PICK q : OnLine(q)
  BY DEF FramesSent
<1>2. q \in Nat /\ q < Len(data) /\ line = FrameAt(q) /\ position = q + Parts(q)
  BY <1>1 DEF OnLine
<1>3. Fits(settings.serverAddress, settings.clientAddress, settings.maxInfoTX,
           q + Parts(q) # Len(data), FrameAt(q))
  BY <1>2, Sent DEF FramesSent, FramesType
<1>4. Fits(settings.serverAddress, settings.clientAddress, settings.maxInfoTX,
           position # Len(data), line)
  BY <1>2, <1>3
<1> QED BY <1>4 DEF Fits

(* No frame carries more than maxInfoTX bytes, and its format says whether *)
(* it is the last.                                                         *)
THEOREM InfoAlwaysFits == Spec => []InfoFits
<1>1. Init => FramesSent
  <2>1. Init => FramesType
    BY FramesBegin
  <2> QED BY <2>1 DEF Init, FramesSent
<1>2. FramesSent /\ [Next]_vars => FramesSent'
  BY FramesSentKept
<1>3. FramesSent => InfoFits
  BY SentFits
<1> QED BY <1>1, <1>2, <1>3, PTL DEF Spec

-----------------------------------------------------------------------------

(* The positions at which a frame ends, and what has been put together     *)
(* when the frames up to position q have arrived: nothing of a client      *)
(* whose address takes more than one byte.                                 *)
OneByteClient == settings.clientAddress < 128
Boundary(q) ==
  q = 0 \/ q = Len(data) \/ \E j \in Nat \ {0} : q = settings.maxInfoTX * j - 3
Taken(q) ==
  IF q = 0 \/ ~ OneByteClient THEN received = <<>>
  ELSE LLC_SEND_BYTES \o received = SubSeq(data, 1, q)

(* A frame sent from one such position ends at the next.                   *)
LEMMA NextBoundary ==
  ASSUME Unchanging, NEW q \in Nat, q < Len(data), Boundary(q)
  PROVE  Boundary(q + Parts(q))
<1> DEFINE m == settings.maxInfoTX
           n == Parts(q)
<1>1. m \in Nat /\ Len(data) \in Nat
  BY Constants
<1>2. Carries(m, data, q, n, Carried(q))
  BY Sent
<1>3. n \in 1..m /\ (q + n # Len(data) => n = IF q = 0 THEN m - 3 ELSE m)
  BY <1>2 DEF Carries
<1> HIDE DEF m, n
<1>4. CASE q + n = Len(data)
  BY <1>4 DEF Boundary, n
<1>5. CASE q + n # Len(data) /\ q = 0
  <2>1. q + n = m * 1 - 3
    BY <1>1, <1>3, <1>5
  <2> QED BY <2>1 DEF Boundary, n, m
<1>6. CASE q + n # Len(data) /\ q # 0
  <2>1. PICK j \in Nat \ {0} : q = m * j - 3
    BY <1>6 DEF Boundary, m
  <2>2. q + n = m * (j + 1) - 3
    BY <1>1, <1>3, <1>6, <2>1
  <2>3. j + 1 \in Nat \ {0}
    OBVIOUS
  <2> QED BY <2>2, <2>3 DEF Boundary, n, m
<1> QED BY <1>4, <1>5, <1>6

(* The bounds of a wide frame.                                             *)
LEMMA Widths ==
  ASSUME FramesWide, NEW m \in MaxInfoTX
  PROVE  m \in Nat /\ m >= 6 /\ m <= 2032
  BY DEF FramesWide

(* Frames after the first are not taken for LLC bytes.                     *)
LEMMA LaterUnlike ==
  ASSUME FramesWide, LLCInFirstFrame, Unchanging, NEW q \in Nat, q < Len(data), q # 0,
         Boundary(q)
  PROVE  Unlike(Carried(q))
<1> DEFINE m == settings.maxInfoTX
           n == Parts(q)
           info == Carried(q)
<1>1. m \in MaxInfoTX /\ m \in Nat /\ m >= 6 /\ Len(data) \in Nat /\ data \in Pdus
  <2>1. m \in MaxInfoTX /\ Len(data) \in Nat
    BY Constants
  <2>2. m \in Nat /\ m >= 6
    BY <2>1, Widths
  <2> QED BY <2>1, <2>2 DEF Unchanging
<1>2. Carries(m, data, q, n, info)
  BY Sent
<1>3. /\ n \in 1..m /\ q + n <= Len(data) /\ (q + n # Len(data) => n = m)
      /\ Len(info) = n /\ \A i \in 1..n : info[i] = data[q + i]
  BY <1>2 DEF Carries
<1> HIDE DEF m, n, info
<1>4. PICK j \in Nat \ {0} : q = m * j - 3
  BY DEF Boundary, m
<1>5. j \in 1..Len(data)
  <2>1. m * j >= 6 * j
    BY <1>1
  <2> QED BY <1>1, <1>4, <2>1
<1>6. m * j - 3 < Len(data)
  BY <1>4
<1>7. PICK i \in 1..3 : m * j - 3 + i <= Len(data) /\ data[m * j - 3 + i] # LLC_SEND_BYTES[i]
  <2>1. \A a \in 1..Len(data) : m * a - 3 < Len(data) =>
          \E i \in 1..3 : m * a - 3 + i <= Len(data)
                          /\ data[m * a - 3 + i] # LLC_SEND_BYTES[i]
    BY <1>1, Zenon DEF LLCInFirstFrame
  <2> QED BY <1>5, <1>6, <2>1
<1>8. q + i <= Len(data) /\ data[q + i] # LLC_SEND_BYTES[i]
  BY <1>4, <1>7
<1>9. i <= n /\ i \in 1..n
  <2>1. i \in 1..3 /\ n \in 1..m
    BY <1>3
  <2>2. CASE q + n = Len(data)
    BY <1>8, <2>1, <2>2
  <2>3. CASE n = m
    BY <1>1, <2>1, <2>3
  <2> QED BY <1>3, <2>2, <2>3
<1>10. info[i] # LLC_SEND_BYTES[i] /\ i <= Len(info)
  BY <1>3, <1>8, <1>9
<1> QED BY <1>10 DEF Unlike, info

(* The first one begins with them.                                         *)
LEMMA FirstBegins ==
  ASSUME FramesWide, Unchanging, 0 < Len(data)
  PROVE  Stands(Carried(0), 0, LLC_SEND_BYTES)
<1> DEFINE m == settings.maxInfoTX
           n == Parts(0)
           info == Carried(0)
           X == LLC_SEND_BYTES
<1>1. m \in Nat /\ m >= 6 /\ Len(data) \in Nat /\ data \in Seq(Byte) /\ IsPrefix(X, data)
  <2>1. m \in MaxInfoTX /\ Len(data) \in Nat /\ data \in Seq(Byte) /\ IsPrefix(X, data)
    BY Constants
  <2>2. m \in Nat /\ m >= 6
    BY <2>1, Widths
  <2> QED BY <2>1, <2>2
<1>2. Carries(m, data, 0, n, info)
  BY Sent
<1>3. /\ n \in 1..m /\ (0 + n # Len(data) => n = m - 3)
      /\ Len(info) = n /\ \A i \in 1..n : info[i] = data[0 + i]
  BY <1>2 DEF Carries
<1> HIDE DEF m, n, info
<1>4. Stands(data, 0, X)
  <2>1. SubSeq(data, 0 + 1, Len(data)) = data
    BY <1>1, SubSeqFull
  <2>2. PICK z \in Nat : z = 0
    OBVIOUS
  <2>3. z <= Len(data)
    BY <1>1, <2>2
  <2>4. IsPrefix(X, SubSeq(data, z + 1, Len(data))) <=> Stands(data, z, X)
    BY <1>1, <2>3, LLCBytes, PrefixStands, Zenon
  <2> QED BY <1>1, <2>1, <2>2, <2>4
<1>5. 0 + 3 <= Len(data) /\ \A i \in 1..3 : data[0 + i] = X[i]
  BY <1>4, LLCBytes DEF Stands
<1>6. 3 <= n
  <2>1. CASE 0 + n = Len(data)
    BY <1>1, <1>3, <1>5, <2>1
  <2>2. CASE n = m - 3
    BY <1>1, <2>2
  <2> QED BY <1>3, <2>1, <2>2
<1>7. \A i \in 1..3 : i \in 1..n
  BY <1>3, <1>6
<1>8. \A i \in 1..3 : info[0 + i] = X[i]
  BY <1>3, <1>5, <1>7
<1>9. 0 + 3 <= Len(info)
  BY <1>3, <1>6
<1> QED BY <1>8, <1>9, LLCBytes DEF Stands, info

(* The frame from q on, read, brings the message up to its end together.   *)
Continues(q, d) ==
  /\ d.complete /\ d.ret = "OK"
  /\ LLC_SEND_BYTES \o (received \o Information(FrameAt(q), d))
       = SubSeq(data, 1, q + Parts(q))

(* Reading the frame sent from such a position does so, or takes nothing.  *)
LEMMA FrameContinues ==
  ASSUME FramesWide, LLCInFirstFrame, FramesType, NEW q \in Nat, q < Len(data),
         Boundary(q), Taken(q), NEW d, d = dlms_getHdlcData(settings, FrameAt(q), ReplyInit)
  PROVE  IF OneByteClient THEN Continues(q, d) ELSE d.ret = "INVALID_CLIENT_ADDRESS"
<1> DEFINE m == settings.maxInfoTX
           n == Parts(q)
           info == Carried(q)
           s == FrameAt(q)
           to == settings.serverAddress
           from == settings.clientAddress
           X == LLC_SEND_BYTES
           I == Information(s, d)
<1>0. Unchanging /\ received \in Seq(Byte)
  BY DEF FramesType, TypeOK
<1>1. /\ m \in MaxInfoTX /\ to \in Numbers /\ from \in Numbers /\ data \in Seq(Byte)
      /\ Len(data) \in Nat /\ IsServer(settings)
  BY <1>0, Constants
<1>2. Carries(m, data, q, n, info)
  BY <1>0, Sent
<1>3. PICK more \in BOOLEAN : s = Frame(to, from, I_FRAME, more, info)
  <2>1. s = Frame(to, from, I_FRAME, q + n # Len(data), info)
    BY <1>0, Sent
  <2>2. (q + n # Len(data)) \in BOOLEAN
    OBVIOUS
  <2> QED BY <2>1, <2>2, Zenon
<1>4. q # 0 => Unlike(info)
  BY <1>0, LaterUnlike
<1>5. q = 0 => Stands(info, 0, X)
  BY <1>0, FirstBegins
<1>6. info = SubSeq(data, q + 1, q + n)
  BY DEF Carried
<1>7. d = dlms_getHdlcData(settings, s, ReplyInit)
  OBVIOUS
<1> HIDE DEF m, n, info, s, to, from
<1>8. /\ n \in Nat /\ n > 0 /\ n <= m /\ q + n <= Len(data)
      /\ info \in Seq(Byte) /\ info # <<>> /\ Len(info) = n
  <2>1. m \in Nat
    BY <1>1, Widths
  <2> QED BY <1>2, <2>1 DEF Carries
<1>9. Length(to, from, info) \in Lengths
  <2>1. m \in Nat /\ m <= 2032
    BY <1>1, Widths
  <2>2. Len(Addresses(to, from)) \in 2..8
    <3>1. 0 \in Byte /\ TRUE \in BOOLEAN
      BY DEF Byte
    <3> QED BY <1>1, <1>8, <3>1, HeaderBytes
  <2>3. Length(to, from, info) = Len(Addresses(to, from)) + (7 + n)
    BY <1>8 DEF Length
  <2>4. PICK a \in 2..8 : a = Len(Addresses(to, from))
    BY <2>2
  <2>5. a + (7 + n) \in 0..2047
    BY <1>8, <2>1
  <2> QED BY <2>3, <2>4, <2>5 DEF Lengths
<1>10. I_FRAME \in Byte /\ I_FRAME % 4 # 3
  BY DEF I_FRAME, Byte
<1>11. ASSUME OneByteClient  PROVE Continues(q, d)
  <2>0. from < 128
    BY <1>11 DEF OneByteClient, from
  <2>11. /\ d.complete /\ d.ret = "OK"
         /\ Unlike(info) => I = info
         /\ Stands(info, 0, X) => X \o I = info
    <3>1. ReadWhole(s, info, d)
      BY <1>1, <1>3, <1>7, <1>8, <1>9, <1>10, <2>0, InformationRead, Zenon
    <3> QED BY <3>1 DEF ReadWhole
  <2>i. I \in Seq(Byte)
    <3>1. s \in Seq(Byte)
      <4>1. Fits(to, from, m, q + n # Len(data), s)
        BY <1>0, Sent DEF to, from, m, n, s
      <4> QED BY <4>1 DEF Fits
    <3>2. ReplyInit \in HdlcData
      BY DEF ReplyInit, HdlcData, ReadCodes
    <3>3. d \in Left(s)
      BY <1>7, <3>1, <3>2, DataRead
    <3> QED BY <2>11, <3>1, <3>3, InformationBytes
  <2> HIDE DEF I
  <2>12. CASE q = 0
    <3>1. received = <<>>
      BY <2>12 DEF Taken
    <3>2. X \o I = info
      BY <1>5, <2>11, <2>12
    <3>3. I \in Seq(Byte) /\ received \o I = I
      BY <2>i, <3>1, ConcatEmptySeq
    <3>4. info = SubSeq(data, 1, q + n)
      BY <1>6, <2>12
    <3> QED BY <2>11, <3>2, <3>3, <3>4 DEF Continues, n, s, I
  <2>13. CASE q # 0
    <3>1. X \o received = SubSeq(data, 1, q)
      BY <1>11, <2>13 DEF Taken
    <3>2. I = info
      BY <1>4, <2>11, <2>13
    <3>3. X \o (received \o I) = (X \o received) \o I
      <4>1. X \in Seq(Byte) /\ received \in Seq(Byte) /\ I \in Seq(Byte)
        BY <1>0, <2>i, LLCBytes
      <4>2. \A u, v, w \in Seq(Byte) : (u \o v) \o w = u \o (v \o w)
        BY ConcatAssociative
      <4>3. (X \o received) \o I = X \o (received \o I)
        <5> HIDE DEF X
        <5> QED BY <4>1, <4>2
      <4> QED BY <4>3
    <3>4. SubSeq(data, 1, q) \o SubSeq(data, q + 1, q + n) = SubSeq(data, 1, q + n)
      <4>1. PICK a, b : a = 1 /\ b = q + n
        OBVIOUS
      <4>2. a \in 1..(Len(data) + 1) /\ q \in (a - 1)..Len(data) /\ b \in q..Len(data)
        BY <1>1, <1>8, <4>1
      <4>3. SubSeq(data, a, q) \o SubSeq(data, q + 1, b) = SubSeq(data, a, b)
        BY <1>1, <4>2, ConcatAdjacentSubSeq
      <4> QED BY <4>1, <4>3
    <3>5. X \o (received \o I) = SubSeq(data, 1, q + n)
      BY <1>6, <3>1, <3>2, <3>3, <3>4
    <3> QED BY <2>11, <3>5 DEF Continues, n, s, I
  <2> QED BY <2>12, <2>13
<1>12. ASSUME ~ OneByteClient  PROVE d.ret = "INVALID_CLIENT_ADDRESS"
  <2>0. ~ (from < 128)
    BY <1>12 DEF OneByteClient, from
  <2>1. PICK h : h = Len(Header(to, from, I_FRAME, more, info))
    OBVIOUS
  <2> QED BY <1>1, <1>3, <1>7, <1>8, <1>9, <1>10, <2>0, <2>1, FrameTaken
<1> QED BY <1>11, <1>12

-----------------------------------------------------------------------------

(* What has been received is the message up to the end of the last frame   *)
(* that arrived; the frame on the line continues it.                       *)
FramesTaken ==
  /\ FramesType
  /\ Boundary(position)
  /\ ~ damaged /\ line = <<>> => Taken(position)
  /\ ~ damaged /\ line # <<>> => \E q : OnLine(q) /\ Boundary(q) /\ Taken(q)

(* At the start nothing has been sent.                                     *)
LEMMA TakenBegins ==
  ASSUME Init
  PROVE  FramesTaken
<1>1. FramesType
  BY FramesBegin
<1>2. position = 0 /\ line = <<>> /\ received = <<>>
  BY DEF Init
<1> QED BY <1>1, <1>2 DEF FramesTaken, Boundary, Taken

(* Sending keeps FramesTaken,                                              *)
LEMMA TakenOnSend ==
  ASSUME FramesTaken, Send
  PROVE  FramesTaken'
<1>0. FramesType /\ Unchanging
  BY DEF FramesTaken, FramesType
<1>1. FramesType'
  BY <1>0, FramesTypeKept DEF Next
<1>2. /\ position \in Nat /\ position < Len(data) /\ line = <<>> /\ ~ damaged
      /\ line' = FrameAt(position) /\ position' = position + Parts(position)
      /\ UNCHANGED <<settings, data, damaged, received>>
  BY <1>0, SendsFrame
<1>3. Boundary(position) /\ Taken(position)
  BY <1>2 DEF FramesTaken
<1>4. PICK q : q = position
  OBVIOUS
<1>5. Boundary(q) /\ Taken(q) /\ q \in Nat /\ q < Len(data)
  BY <1>2, <1>3, <1>4
<1>6. OnLine(q)'
  BY <1>2, <1>4 DEF OnLine, FrameAt, Parts
<1>7. Boundary(q)' /\ Taken(q)'
  BY <1>2, <1>5 DEF Boundary, Taken, OneByteClient
<1>8. PICK r : r = q + Parts(q)
  OBVIOUS
<1>9. Boundary(r)
  BY <1>0, <1>5, <1>8, NextBoundary
<1>10. Boundary(r)'
  BY <1>2, <1>9 DEF Boundary
<1>11. position' = r
  BY <1>2, <1>4, <1>8
<1>12. Boundary(position)'
  BY <1>10, <1>11 DEF Boundary
<1>13. line' # <<>>
  <2>1. Fits(settings.serverAddress, settings.clientAddress, settings.maxInfoTX,
             position + Parts(position) # Len(data), FrameAt(position))
    BY <1>0, <1>2, Sent
  <2> QED BY <1>2, <2>1 DEF Fits
<1> QED BY <1>1, <1>6, <1>7, <1>12, <1>13 DEF FramesTaken

(* and so does receiving.                                                  *)
LEMMA TakenOnReceive ==
  ASSUME FramesWide, LLCInFirstFrame, FramesTaken, Receive
  PROVE  FramesTaken'
<1>0. FramesType /\ Unchanging
  BY DEF FramesTaken, FramesType
<1>1. FramesType'
  BY <1>0, FramesTypeKept DEF Next
<1>2. line # <<>> /\ line' = <<>> /\ UNCHANGED <<settings, data, position, damaged>>
  BY DEF Receive
<1>3. Boundary(position)'
  BY <1>2 DEF FramesTaken, Boundary
<1>4. ASSUME ~ damaged  PROVE Taken(position)'
  <2>1. PICK q : OnLine(q) /\ Boundary(q) /\ Taken(q)
    BY <1>2, <1>4 DEF FramesTaken
  <2>2. q \in Nat /\ q < Len(data) /\ line = FrameAt(q) /\ position = q + Parts(q)
    BY <2>1 DEF OnLine
  <2>3. PICK d : d = dlms_getHdlcData(settings, FrameAt(q), ReplyInit)
    OBVIOUS
  <2>4. IF OneByteClient THEN Continues(q, d) ELSE d.ret = "INVALID_CLIENT_ADDRESS"
    BY <1>0, <2>1, <2>2, <2>3, FrameContinues
  <2>5. received' = IF d.complete /\ d.ret = "OK" THEN received \o Information(line, d)
                    ELSE received
    BY <2>2, <2>3 DEF Receive
  <2>6. CASE OneByteClient
    <3>1. received' = received \o Information(FrameAt(q), d)
      BY <2>2, <2>4, <2>5, <2>6 DEF Continues
    <3>2. LLC_SEND_BYTES \o received' = SubSeq(data, 1, position)
      BY <2>2, <2>4, <2>6, <3>1 DEF Continues
    <3>3. position # 0
      <4>1. Carries(settings.maxInfoTX, data, q, Parts(q), Carried(q))
        BY <1>0, <2>2, Sent
      <4>2. settings.maxInfoTX \in Nat
        BY <1>0, Constants
      <4> QED BY <2>2, <4>1, <4>2 DEF Carries
    <3> QED BY <1>2, <2>6, <3>2, <3>3 DEF Taken, OneByteClient
  <2>7. CASE ~ OneByteClient
    <3>1. received' = received /\ received = <<>>
      BY <2>1, <2>4, <2>5, <2>7 DEF Taken
    <3> QED BY <1>2, <2>7, <3>1 DEF Taken, OneByteClient
  <2> QED BY <2>6, <2>7
<1> QED BY <1>1, <1>2, <1>3, <1>4 DEF FramesTaken

(* Every step keeps it.                                                    *)
LEMMA TakenKept ==
  ASSUME FramesWide, LLCInFirstFrame, FramesTaken, [Next]_vars
  PROVE  FramesTaken'
<1>1. CASE Send
  BY <1>1, TakenOnSend
<1>2. CASE Receive
  BY <1>2, TakenOnReceive
<1>3. CASE Damage
  <2>1. FramesType'
    BY FramesTypeKept DEF FramesTaken
  <2>2. damaged' /\ UNCHANGED <<settings, data, position>>
    BY <1>3 DEF Damage
  <2>3. Boundary(position)'
    BY <2>2 DEF FramesTaken, Boundary
  <2> QED BY <2>1, <2>2, <2>3 DEF FramesTaken
<1>4. CASE UNCHANGED vars
  <2>1. FramesType'
    BY FramesTypeKept DEF FramesTaken
  <2>2. /\ settings' = settings /\ data' = data /\ position' = position /\ line' = line
        /\ damaged' = damaged /\ received' = received
    BY <1>4 DEF vars
  <2>3. \A q : Boundary(q)' <=> Boundary(q)
    BY <2>2 DEF Boundary
  <2>4. \A q : Taken(q)' <=> Taken(q)
    BY <2>2 DEF Taken, OneByteClient
  <2>5. \A q : OnLine(q)' <=> OnLine(q)
    BY <2>2 DEF OnLine, FrameAt, Parts
  <2>6. Boundary(position)' /\ (Taken(position)' <=> Taken(position))
    BY <2>2 DEF FramesTaken, Boundary, Taken, OneByteClient
  <2> QED BY <2>1, <2>2, <2>3, <2>4, <2>5, <2>6 DEF FramesTaken
<1> QED BY <1>1, <1>2, <1>3, <1>4 DEF Next

(* At the end it is the whole message.                                     *)
LEMMA TakenWhole ==
  ASSUME FramesTaken
  PROVE  Reassembled
<1> SUFFICES ASSUME line = <<>>, position = Len(data), ~ damaged
             PROVE  IF OneByteClient THEN LLC_SEND_BYTES \o received = data ELSE received = <<>>
  BY DEF Reassembled, OneByteClient
<1>1. data \in Seq(Byte) /\ Len(data) \in Nat /\ IsPrefix(LLC_SEND_BYTES, data)
  BY Constants DEF FramesTaken, FramesType
<1>2. Len(data) # 0
  <2>1. Len(LLC_SEND_BYTES) <= Len(data)
    BY <1>1, Zenon DEF IsPrefix
  <2> QED BY <1>1, <2>1, LLCBytes
<1>3. Taken(position)
  BY DEF FramesTaken
<1>4. CASE OneByteClient
  <2>1. LLC_SEND_BYTES \o received = SubSeq(data, 1, Len(data))
    BY <1>2, <1>3, <1>4 DEF Taken
  <2> QED BY <1>1, <1>4, <2>1, SubSeqFull
<1>5. CASE ~ OneByteClient
  BY <1>3, <1>5 DEF Taken
<1> QED BY <1>4, <1>5

(* The frames of a message bring exactly the message, if only its first    *)
(* frame begins like LLC bytes and the client's address is one byte;       *)
(* otherwise a server takes nothing of it.                                 *)
THEOREM AlwaysReassembled ==
  ASSUME FramesWide, LLCInFirstFrame
  PROVE  Spec => []Reassembled
<1>1. Init => FramesTaken
  BY TakenBegins
<1>2. FramesTaken /\ [Next]_vars => FramesTaken'
  BY TakenKept
<1>3. FramesTaken => Reassembled
  BY TakenWhole
<1> QED BY <1>1, <1>2, <1>3, PTL DEF Spec
================================================================================
