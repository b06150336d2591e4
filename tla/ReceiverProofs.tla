----------------------------- MODULE ReceiverProofs ----------------------------
(*****************************************************************************)
(* Every exchange that ends well hands over an answer, and none fails while  *)
(* the answer is there, for every list of exchanges, every cut of the bytes  *)
(* into reads, every delay and every loss of answers (PlainAnswers,          *)
(* WholeAnswers).                                                            *)
(*                                                                           *)
(* ReceiverInv is inductive: what the client has collected and what is still *)
(* on the line are, one behind the other, a stream of whole answers, the     *)
(* first of which may have lost its beginning to an earlier exchange         *)
(* (Stream); the search has not come further than where the next answer      *)
(* begins, and nothing collected behind that place is a flag (Collects). A   *)
(* search from there waits or takes that answer (Searched), whatever part of *)
(* it has arrived; what it leaves on the line is again a stream.             *)
(*****************************************************************************)
EXTENDS Receiver, EncodingProofs

(* TypeOK, and what the next search and the next answer need. *)
ReceiverType == TypeOK /\ d \in HdlcData /\ (stage = "reading" => exchange # 0)

(* The constants have their types. *)
LEMMA Constants ==
  /\ clientAddress \in Numbers /\ serverAddress \in Numbers
  /\ Exchanges \in Seq([frame: Byte, info: Seq(Byte)])
  /\ \A k \in DOMAIN Exchanges : Exchanges[k].frame \in Byte /\ Exchanges[k].info \in Seq(Byte)
  /\ DOMAIN Exchanges = 1..Len(Exchanges) /\ Len(Exchanges) \in Nat
  /\ Preludes \subseteq Seq(Byte) /\ Changes \subseteq Nat
  /\ Faults \in Nat /\ WaitTime \in Nat
<1>1. Exchanges \in Seq([frame: Byte, info: Seq(Byte)])
  BY ReceiverAssumption
<1>2. DOMAIN Exchanges = 1..Len(Exchanges) /\ Len(Exchanges) \in Nat
  BY <1>1
<1>3. \A k \in DOMAIN Exchanges : Exchanges[k] \in [frame: Byte, info: Seq(Byte)]
  <2> PICK R : R = [frame: Byte, info: Seq(Byte)]
    OBVIOUS
  <2>1. Exchanges \in Seq(R)
    BY <1>1
  <2>2. \A k \in 1..Len(Exchanges) : Exchanges[k] \in R
    BY <2>1, ElementOfSeq
  <2> QED BY <1>2, <2>2
<1> QED BY <1>1, <1>2, <1>3, ReceiverAssumption

(* What a frame is made of whatever it carries. *)
LEMMA FrameBytes ==
  ASSUME NEW to \in Numbers, NEW from \in Numbers, NEW frame \in Byte, NEW more \in BOOLEAN,
         NEW info \in Seq(Byte)
  PROVE  Frame(to, from, frame, more, info) \in Seq(Byte)
<1> DEFINE s == Frame(to, from, frame, more, info)
           H == Header(to, from, frame, more, info)
           C == Content(to, from, frame, more, info)
           T == Trailer(to, from, frame, more, info)
<1>1. Placed(s, H, C, T, info)
  BY FramePlaced
<1> HIDE DEF s, H, C, T
<1>2. s \in Seq(Byte)
  BY <1>1 DEF Placed
<1> QED BY <1>2 DEF s

(* What the meter sends is bytes, whole or damaged. *)
LEMMA AnswerBytes ==
  ASSUME NEW k \in DOMAIN Exchanges
  PROVE  Answer[k] \in Seq(Byte) /\ Damaged[k] \subseteq Seq(Byte)
<1>1. PICK a : a = Frame(clientAddress, serverAddress, Exchanges[k].frame, FALSE, Exchanges[k].info)
  OBVIOUS
<1>2. a \in Seq(Byte)
  BY <1>1, Constants, FrameBytes
<1>3. Answer[k] = a
  BY <1>1 DEF Answer
<1>4. ASSUME NEW bytes \in Damaged[k]  PROVE bytes \in Seq(Byte)
  <2>1. Damaged[k] = {SubSeq(a, 1, n) : n \in Cuts[k]}
                     \cup {[a EXCEPT ![i] = (@ + c) % 256] : i \in Spots[k], c \in Changes}
    BY <1>3 DEF Damaged
  <2>2. CASE bytes \in {SubSeq(a, 1, n) : n \in Cuts[k]}
    <3>1. PICK n \in Cuts[k] : bytes = SubSeq(a, 1, n)
      BY <2>2
    <3>2. n \in 0..Len(a)
      BY <1>3, DamageAssumption
    <3>3. /\ 1 \in Int /\ n \in Int /\ \A i \in 1..n : a[i] \in Byte
      <4>1. \A i \in 1..Len(a) : a[i] \in Byte
        BY <1>2
      <4>2. Len(a) \in Nat
        BY <1>2
      <4> QED BY <3>2, <4>1, <4>2
    <3> HIDE DEF Byte
    <3>4. Cut(a, 1, n, SubSeq(a, 1, n))
      BY <3>3, CutBytes
    <3> QED BY <3>1, <3>4 DEF Cut
  <2>3. CASE bytes \in {[a EXCEPT ![i] = (@ + c) % 256] : i \in Spots[k], c \in Changes}
    <3>1. PICK i \in Spots[k], c \in Changes : bytes = [a EXCEPT ![i] = (@ + c) % 256]
      BY <2>3
    <3>2. i \in 1..Len(a) /\ c \in Nat
      BY <1>3, Constants, DamageAssumption
    <3>3. a[i] \in Byte
      BY <1>2, <3>2
    <3>4. (a[i] + c) % 256 \in Byte
      <4>1. \A x \in Nat : x % 256 \in 0..255
        OBVIOUS
      <4>2. a[i] + c \in Nat
        <5>1. \A x \in 0..255, y \in Nat : x + y \in Nat
          OBVIOUS
        <5> QED BY <3>2, <3>3, <5>1 DEF Byte
      <4> QED BY <4>1, <4>2 DEF Byte
    <3>5. PICK v \in Byte : v = (a[i] + c) % 256
      BY <3>4
    <3>6. bytes = [a EXCEPT ![i] = v]
      BY <3>1, <3>5
    <3> QED BY <1>2, <3>2, <3>6
  <2> QED BY <2>1, <2>2, <2>3
<1> QED BY <1>2, <1>3, <1>4

(* The initial state has the type. *)
LEMMA ReceiverTypeBegins ==
  ASSUME Init
  PROVE  ReceiverType
<1>1. d \in HdlcData /\ d.position = 0
  BY DEF Init, ReplyInit, HdlcData, ReadCodes
<1>2. <<>> \in Seq(Byte) /\ Len(<<>>) = 0
  OBVIOUS
<1>3. 0 \in 0..Len(Exchanges) /\ 0 \in 0..(WaitTime + 1) /\ Faults \in 0..Faults
  BY Constants
<1>4. 0 \in 0..(Len(<<>>) + 3) /\ 2 \in {2, 3}
  OBVIOUS
<1>5. TypeOK
  BY <1>1, <1>2, <1>3, <1>4 DEF Init, TypeOK, ReadCodes
<1>6. stage = "idle" /\ "idle" # "reading"
  BY DEF Init
<1> QED BY <1>1, <1>5, <1>6 DEF ReceiverType

(* Bytes are put on the line. *)
LEMMA LineBytes ==
  ASSUME TypeOK, NEW k \in DOMAIN Exchanges, SendAndAnswer(k)
  PROVE  line' \in Seq(Byte) /\ damaged' \in BOOLEAN /\ budget' \in 0..Faults
<1>0. line \in Seq(Byte) /\ damaged \in BOOLEAN /\ budget \in 0..Faults /\ Faults \in Nat
  BY Constants DEF TypeOK
<1>1. Answer[k] \in Seq(Byte) /\ \A bytes \in Damaged[k] : bytes \in Seq(Byte)
  BY AnswerBytes
<1>2. \A prelude \in Preludes : prelude \in Seq(Byte)
  BY Constants
<1>3. \A s, t \in Seq(Byte) : s \o t \in Seq(Byte)
  BY Concat
<1>4. CASE line' = line \o Answer[k] /\ UNCHANGED <<damaged, budget>>
  BY <1>0, <1>1, <1>3, <1>4
<1>5. CASE /\ budget > 0 /\ budget' = budget - 1
           /\ \E prelude \in Preludes : line' = line \o prelude \o Answer[k]
           /\ UNCHANGED damaged
  <2>1. PICK prelude \in Preludes : line' = line \o prelude \o Answer[k]
    BY <1>5
  <2>2. line \o prelude \in Seq(Byte)
    BY <1>0, <1>2, <1>3
  <2>3. line' \in Seq(Byte)
    BY <1>1, <1>3, <2>1, <2>2
  <2> QED BY <1>0, <1>5, <2>3
<1>6. CASE /\ budget > 0 /\ budget' = budget - 1
           /\ \E bytes \in Damaged[k] :
                line' = line \o bytes /\ damaged' = (damaged \/ bytes # <<>>)
  <2>1. PICK bytes \in Damaged[k] : line' = line \o bytes /\ damaged' = (damaged \/ bytes # <<>>)
    BY <1>6
  <2>2. line' \in Seq(Byte)
    BY <1>0, <1>1, <1>3, <2>1
  <2>3. damaged' \in BOOLEAN
    BY <2>1
  <2> QED BY <1>0, <1>6, <2>2, <2>3
<1> QED BY <1>4, <1>5, <1>6 DEF SendAndAnswer

(* The type of what a search hands over, whatever the bytes are. *)
LEMMA SearchType ==
  ASSUME ReceiverType, NEW bytes \in Seq(Byte), Len(data) <= Len(bytes), cl_getData2(bytes)
  PROVE  /\ d' \in HdlcData /\ d'.position \in 0..(Len(bytes) + 3)
         /\ stage' \in {"idle", "reading"}
         /\ ret' \in ReadCodes
         /\ reply' \in Seq(Byte) /\ readTime' = 0
<1>1. PICK r : r = dlms_getHdlcData(settings, bytes, d)
  OBVIOUS
<1>2. /\ d' = r /\ ret' = r.ret /\ readTime' = 0
      /\ stage' = IF r.ret # "OK" \/ r.complete THEN "idle" ELSE "reading"
      /\ reply' = IF r.ret = "OK" /\ r.complete THEN dlms_getDataFromFrame(bytes, r) ELSE <<>>
  BY <1>1 DEF cl_getData2
<1>3. d \in HdlcData /\ Near(bytes, d)
  <2>1. d \in HdlcData /\ d.position \in 0..(Len(data) + 3)
    BY DEF ReceiverType, TypeOK
  <2>2. Len(data) \in Nat /\ Len(bytes) \in Nat
    BY DEF ReceiverType, TypeOK
  <2> QED BY <2>1, <2>2 DEF Near
<1>4. r \in Left(bytes)
  BY <1>1, <1>3, DataRead
<1>5. Near(bytes, r)
  BY <1>1, <1>3, DataNear
<1>6. /\ r \in HdlcData /\ r.position \in Nat /\ r.packetLength \in Int
      /\ r.ret \in ReadCodes
      /\ r.complete /\ r.ret = "OK" => r.packetLength <= Len(bytes)
  BY <1>4 DEF Left, HdlcData
<1>7. r.position \in 0..(Len(bytes) + 3)
  BY <1>5, <1>6 DEF Near
<1>8. ASSUME r.ret = "OK" /\ r.complete  PROVE dlms_getDataFromFrame(bytes, r) \in Seq(Byte)
  <2>1. PICK a, b \in Int : a = r.position + 1 /\ b = r.packetLength
    BY <1>6
  <2>2. \A i \in a..b : bytes[i] \in Byte
    <3> TAKE i \in a..b
    <3>1. i \in 1..Len(bytes)
      BY <1>6, <1>8, <2>1
    <3> QED BY <3>1
  <2>3. Cut(bytes, a, b, SubSeq(bytes, a, b))
    BY <2>2, CutBytes
  <2> QED BY <2>1, <2>3 DEF Cut, dlms_getDataFromFrame
<1>9. reply' \in Seq(Byte)
  <2>1. <<>> \in Seq(Byte)
    OBVIOUS
  <2> QED BY <1>2, <1>8, <2>1
<1> QED BY <1>2, <1>6, <1>7, <1>9

(* Every step keeps the type. *)
LEMMA ReceiverTypeKept ==
  ASSUME ReceiverType, [Next]_vars
  PROVE  ReceiverType'
<1>0. /\ line \in Seq(Byte) /\ data \in Seq(Byte) /\ reply \in Seq(Byte)
      /\ d.position \in 0..(Len(data) + 3) /\ d \in HdlcData
      /\ readTime \in 0..(WaitTime + 1) /\ pos \in {2, 3} /\ stage \in {"idle", "reading"}
      /\ ret \in ReadCodes \cup {"RECEIVE_FAILED"}
      /\ exchange \in 0..Len(Exchanges)
      /\ hungUp \in BOOLEAN /\ damaged \in BOOLEAN /\ budget \in 0..Faults
      /\ Faults \in Nat /\ WaitTime \in Nat /\ TypeOK
  BY Constants DEF ReceiverType, TypeOK
<1>e. <<>> \in Seq(Byte) /\ Len(<<>>) = 0
  OBVIOUS
<1>1. CASE Begin
  <2>1. /\ exchange + 1 \in DOMAIN Exchanges /\ exchange' = exchange + 1 /\ stage' = "reading"
        /\ data' = <<>> /\ d' = ReplyInit /\ readTime' = 0 /\ pos' = 2
        /\ SendAndAnswer(exchange + 1) /\ UNCHANGED <<hungUp, ret, reply>>
    BY <1>1 DEF Begin
  <2>2. line' \in Seq(Byte) /\ damaged' \in BOOLEAN /\ budget' \in 0..Faults
    <3>1. PICK k \in DOMAIN Exchanges : k = exchange + 1
      BY <2>1
    <3> QED BY <1>0, <2>1, <3>1, LineBytes
  <2>3. exchange' \in 0..Len(Exchanges) /\ exchange' # 0
    BY <1>0, <2>1, Constants
  <2>4. d' \in HdlcData /\ d'.position = 0
    BY <2>1 DEF ReplyInit, HdlcData, ReadCodes
  <2> QED BY <1>0, <1>e, <2>1, <2>2, <2>3, <2>4 DEF ReceiverType, TypeOK
<1>2. CASE Read
  <2>1. PICK n \in 1..Len(line) :
          LET bytes == data \o SubSeq(line, 1, n)
          IN /\ data' = bytes
             /\ line' = SubSeq(line, n + 1, Len(line))
             /\ IF EopFound(bytes) THEN cl_getData2(bytes)
                ELSE UNCHANGED <<d, stage, ret, reply, readTime>>
    BY <1>2 DEF Read
  <2>2. PICK bytes : bytes = data \o SubSeq(line, 1, n)
    OBVIOUS
  <2>3. /\ data' = bytes /\ line' = SubSeq(line, n + 1, Len(line))
        /\ IF EopFound(bytes) THEN cl_getData2(bytes)
           ELSE UNCHANGED <<d, stage, ret, reply, readTime>>
        /\ UNCHANGED <<hungUp, pos, exchange, damaged, budget>>
    BY <1>2, <2>1, <2>2 DEF Read
  <2>4. SubSeq(line, 1, n) \in Seq(Byte) /\ line' \in Seq(Byte)
    <3>1. Len(line) \in Nat /\ \A i \in 1..Len(line) : line[i] \in Byte
      BY <1>0
    <3>2. \A i \in 1..n : line[i] \in Byte
      BY <3>1
    <3>3. \A i \in (n + 1)..Len(line) : line[i] \in Byte
      BY <3>1
    <3>4. Cut(line, 1, n, SubSeq(line, 1, n))
      BY <3>2, CutBytes
    <3>5. Cut(line, n + 1, Len(line), SubSeq(line, n + 1, Len(line)))
      <4>1. n + 1 \in Int /\ Len(line) \in Int
        BY <3>1
      <4> QED BY <3>3, <4>1, CutBytes
    <3> QED BY <2>3, <3>4, <3>5 DEF Cut
  <2>5. bytes \in Seq(Byte) /\ Len(bytes) = Len(data) + Len(SubSeq(line, 1, n))
    BY <1>0, <2>2, <2>4, Concat
  <2>6. Len(data) <= Len(bytes) /\ Len(data) \in Nat /\ Len(bytes) \in Nat
    <3>1. Len(data) \in Nat /\ Len(SubSeq(line, 1, n)) \in Nat
      BY <1>0, <2>4
    <3> QED BY <2>5, <3>1
  <2>7. /\ d' \in HdlcData /\ d'.position \in 0..(Len(bytes) + 3)
        /\ stage' \in {"idle", "reading"}
        /\ ret' \in ReadCodes \cup {"RECEIVE_FAILED"}
        /\ reply' \in Seq(Byte) /\ readTime' \in 0..(WaitTime + 1)
    <3>1. CASE EopFound(bytes)
      BY <1>0, <2>3, <2>5, <2>6, <3>1, SearchType
    <3>2. CASE ~ EopFound(bytes)
      BY <1>0, <2>3, <2>6, <3>2
    <3> QED BY <3>1, <3>2
  <2>8. exchange' # 0
    BY <1>2, <2>3 DEF Read, ReceiverType
  <2> QED BY <1>0, <2>3, <2>4, <2>5, <2>7, <2>8 DEF ReceiverType, TypeOK
<1>3. CASE NoData
  BY <1>0, <1>3 DEF NoData, ReceiverType, TypeOK
<1>4. CASE Resend
  <2>1. /\ stage = "reading" /\ pos' = 3 /\ readTime' = 0 /\ SendAndAnswer(exchange)
        /\ UNCHANGED <<hungUp, data, d, stage, ret, reply, exchange>>
    BY <1>4 DEF Resend
  <2>2. line' \in Seq(Byte) /\ damaged' \in BOOLEAN /\ budget' \in 0..Faults
    <3>1. exchange \in DOMAIN Exchanges
      BY <1>0, <2>1, Constants DEF ReceiverType
    <3> QED BY <1>0, <2>1, <3>1, LineBytes
  <2> QED BY <1>0, <2>1, <2>2 DEF ReceiverType, TypeOK
<1>5. CASE GiveUp
  BY <1>0, <1>5, <1>e DEF GiveUp, ReceiverType, TypeOK
<1>6. CASE HangUp
  BY <1>0, <1>6 DEF HangUp, ReceiverType, TypeOK
<1>7. CASE ReadNothing \/ UNCHANGED vars
  BY <1>0, <1>7 DEF ReadNothing, vars, ReceiverType, TypeOK
<1> QED BY <1>1, <1>2, <1>3, <1>4, <1>5, <1>6, <1>7 DEF Next

(* Always the type: data, line and reply hold bytes, and the position that *)
(* dlms_getHdlcData keeps stays within three bytes behind the data, whatever *)
(* the line did to the answers.                                            *)
THEOREM ReceiverTypeCorrect == Spec => []TypeOK
<1>1. Init => ReceiverType
  BY ReceiverTypeBegins
<1>2. ReceiverType /\ [Next]_vars => ReceiverType'
  BY ReceiverTypeKept
<1>3. ReceiverType => TypeOK
  BY DEF ReceiverType
<1> QED BY <1>1, <1>2, <1>3, PTL DEF Spec

(* The length of a frame is what its format says and its two flags. *)
LEMMA FrameSpan ==
  ASSUME NEW to \in Numbers, NEW from \in Numbers, NEW frame \in Byte, NEW more \in BOOLEAN,
         NEW info \in Seq(Byte)
  PROVE  /\ Len(Frame(to, from, frame, more, info)) = Length(to, from, info) + 2
         /\ Length(to, from, info) \in Nat /\ Length(to, from, info) >= 7
         /\ At(Frame(to, from, frame, more, info), 0) = Flag
         /\ At(Frame(to, from, frame, more, info), Length(to, from, info) + 1) = Flag
<1> DEFINE s == Frame(to, from, frame, more, info)
           H == Header(to, from, frame, more, info)
           C == Content(to, from, frame, more, info)
           T == Trailer(to, from, frame, more, info)
           k == Len(info)
           L == Length(to, from, info)
<1>1. Placed(s, H, C, T, info)
  BY FramePlaced
<1>2. Len(H) = Len(Addresses(to, from)) + 3 /\ Len(Addresses(to, from)) \in 2..8
  BY HeaderBytes
<1>3. L = Len(Addresses(to, from)) + (IF info = <<>> THEN 5 ELSE 7 + k)
  BY DEF Length
<1>4. PICK a \in 2..8 : a = Len(Addresses(to, from))
  BY <1>2
<1>k. k \in Nat /\ (info = <<>> <=> k = 0)
  OBVIOUS
<1> HIDE DEF s, H, C, T, k, L
<1>5. /\ s \in Seq(Byte) /\ Len(C) = Len(H) + 2 + k
      /\ Len(T) = (IF info = <<>> THEN 0 ELSE 2) /\ Len(s) = Len(C) + Len(T) + 2
      /\ Stands(s, 0, <<Flag>>) /\ Stands(s, Len(C) + Len(T) + 1, <<Flag>>)
  BY <1>1 DEF Placed, k
<1>x. PICK x, y, z : x = Len(C) /\ y = Len(T) /\ z = Len(s)
  OBVIOUS
<1>6. Len(C) + Len(T) + 1 = L + 1 /\ Len(s) = L + 2 /\ L \in Nat /\ L >= 7
  <2>1. Len(H) = a + 3
    BY <1>2, <1>4
  <2>2. CASE info = <<>>
    <3>1. L = a + 5 /\ y = 0 /\ k = 0
      BY <1>3, <1>4, <1>5, <1>k, <1>x, <2>2
    <3>2. x = a + 3 + 2 + k /\ z = x + y + 2
      BY <1>5, <1>x, <2>1
    <3> QED BY <1>x, <3>1, <3>2
  <2>3. CASE info # <<>>
    <3>1. L = a + (7 + k) /\ y = 2
      BY <1>3, <1>4, <1>5, <1>x, <2>3
    <3>2. x = a + 3 + 2 + k /\ z = x + y + 2
      BY <1>5, <1>x, <2>1
    <3> QED BY <1>k, <1>x, <3>1, <3>2
  <2> QED BY <2>2, <2>3
<1>7. At(s, 0) = Flag
  BY <1>5, StandsByte
<1>8. At(s, L + 1) = Flag
  <2>1. Stands(s, L + 1, <<Flag>>)
    BY <1>5, <1>6
  <2> QED BY <1>5, <1>6, <2>1, StandsByte
<1> QED BY <1>6, <1>7, <1>8 DEF s, L

(* An answer begins and ends with its only flags. *)
Flagged(a) ==
  /\ a \in Seq(Byte) /\ Len(a) \in Nat /\ Len(a) >= Smallest
  /\ At(a, 0) = Flag /\ At(a, Len(a) - 1) = Flag
  /\ \A i \in 1..(Len(a) - 2) : At(a, i) # Flag

(* What the meter sends in exchange k. *)
Info(k) == Exchanges[k].info
Control(k) == Exchanges[k].frame
Sent(k) == Length(clientAddress, serverAddress, Info(k))

(* An answer is a frame. *)
LEMMA AnswerIs ==
  ASSUME NEW k \in DOMAIN Exchanges
  PROVE  /\ Answer[k] = Frame(clientAddress, serverAddress, Control(k), FALSE, Info(k))
         /\ Control(k) \in Byte /\ Info(k) \in Seq(Byte)
  BY Constants DEF Answer, Control, Info

(* A plain answer has its two flags, a length that its format can tell, and *)
(* is a command or information that the client takes.                      *)
LEMMA AnswerFlagged ==
  ASSUME PlainAnswers, NEW k \in DOMAIN Exchanges
  PROVE  /\ Flagged(Answer[k]) /\ Len(Answer[k]) = Sent(k) + 2 /\ Sent(k) \in Lengths
         /\ Recognised(Control(k), Info(k))
<1>1. PICK a : a = Answer[k]
  OBVIOUS
<1>2. /\ a = Frame(clientAddress, serverAddress, Control(k), FALSE, Info(k))
      /\ Control(k) \in Byte /\ Info(k) \in Seq(Byte)
      /\ clientAddress \in Numbers /\ serverAddress \in Numbers
  BY <1>1, AnswerIs, Constants
<1>3. a \in Seq(Byte)
  BY <1>2, FrameBytes
<1>4. /\ Len(a) = Sent(k) + 2 /\ Sent(k) \in Nat /\ Sent(k) >= 7
      /\ At(a, 0) = Flag /\ At(a, Sent(k) + 1) = Flag
  BY <1>2, FrameSpan DEF Sent
<1>5. /\ \A i \in 2..(Len(a) - 1) : a[i] # Flag
      /\ Len(a) <= 2049
      /\ IF Control(k) % 4 = 3
         THEN Control(k) \in Commands /\ ~ IsPrefix(LLC_REPLY_BYTES, Info(k))
         ELSE \/ Info(k) = <<>> \/ IsPrefix(LLC_REPLY_BYTES, Info(k))
              \/ \E i \in 1..3 : i <= Len(Info(k)) /\ Info(k)[i] # LLC_REPLY_BYTES[i]
  BY <1>1 DEF PlainAnswers, Control, Info
<1>6. \A i \in 1..(Len(a) - 2) : At(a, i) # Flag
  <2> TAKE i \in 1..(Len(a) - 2)
  <2>1. i + 1 \in 2..(Len(a) - 1)
    BY <1>4
  <2> QED BY <1>5, <2>1 DEF At
<1>7. Flagged(a)
  <2>1. Len(a) - 1 = Sent(k) + 1 /\ Len(a) \in Nat /\ Len(a) >= 9
    BY <1>4
  <2> QED BY <1>3, <1>4, <1>6, <2>1 DEF Flagged, Smallest
<1>8. Sent(k) \in Lengths
  <2>1. PICK x \in Nat : x = Sent(k)
    BY <1>4
  <2>2. x + 2 <= 2049
    BY <1>4, <1>5, <2>1
  <2>3. x \in Lengths
    BY <2>2 DEF Lengths
  <2> QED BY <2>1, <2>3
<1>9. IsPrefix(LLC_REPLY_BYTES, Info(k)) <=> Stands(Info(k), 0, LLC_REPLY_BYTES)
  <2>1. LLC_REPLY_BYTES \in Seq(Byte)
    BY DEF LLC_REPLY_BYTES, Byte
  <2>2. SubSeq(Info(k), 0 + 1, Len(Info(k))) = Info(k)
    BY <1>2
  <2>3. 0 <= Len(Info(k))
    BY <1>2
  <2>4. IsPrefix(LLC_REPLY_BYTES, SubSeq(Info(k), 0 + 1, Len(Info(k))))
          <=> Stands(Info(k), 0, LLC_REPLY_BYTES)
    BY <1>2, <2>1, <2>3, PrefixStands
  <2> QED BY <2>2, <2>4
<1>10. Recognised(Control(k), Info(k))
  BY <1>5, <1>9 DEF Recognised
<1> QED BY <1>1, <1>4, <1>7, <1>8, <1>10

(* Of n bytes one of the first m answers has more.                         *)
PartOfOne(m, n) == \E k \in 1..m : n < Len(Answer[k])

(* w is a stream of whole answers from p on: each stands at one of the     *)
(* positions P, the next one where it ends. What stands before p is the    *)
(* end of an answer whose beginning is lost.                               *)
Stream(w, m, P, p) ==
  /\ w \in Seq(Byte) /\ P \subseteq 0..Len(w) /\ p \in P /\ Len(w) \in P
  /\ \A b \in P : p <= b
  /\ \A b \in P \ {Len(w)} : \E k \in 1..m : Stands(w, b, Answer[k]) /\ b + Len(Answer[k]) \in P
  /\ \A i \in 0..(p - 2) : At(w, i) # Flag
  /\ p # 0 => At(w, p - 1) = Flag /\ PartOfOne(m, p)

(* The bytes of an answer that stands in w. *)
LEMMA FlaggedStands ==
  ASSUME NEW w \in Seq(Byte), NEW b \in Nat, NEW a, Flagged(a), Stands(w, b, a)
  PROVE  /\ b + Len(a) <= Len(w) /\ At(w, b) = Flag /\ At(w, b + Len(a) - 1) = Flag
         /\ \A i \in (b + 1)..(b + Len(a) - 2) : At(w, i) # Flag
<1>1. /\ Len(a) \in Nat /\ Len(a) >= 9 /\ Len(w) \in Nat
      /\ At(a, 0) = Flag /\ At(a, Len(a) - 1) = Flag
      /\ \A i \in 1..(Len(a) - 2) : At(a, i) # Flag
  BY DEF Flagged, Smallest
<1>2. b + Len(a) <= Len(w) /\ \A i \in 1..Len(a) : w[b + i] = a[i]
  BY <1>1 DEF Stands
<1>3. \A i \in 0..(Len(a) - 1) : At(w, b + i) = At(a, i)
  <2> TAKE i \in 0..(Len(a) - 1)
  <2>1. i + 1 \in 1..Len(a) /\ b + (i + 1) = b + i + 1
    BY <1>1
  <2> QED BY <1>2, <2>1 DEF At
<1>4. /\ 0 \in 0..(Len(a) - 1) /\ Len(a) - 1 \in 0..(Len(a) - 1) /\ b + 0 = b
      /\ b + (Len(a) - 1) = b + Len(a) - 1
  BY <1>1
<1>5. ASSUME NEW i \in (b + 1)..(b + Len(a) - 2)  PROVE At(w, i) # Flag
  <2>1. PICK j \in 1..(Len(a) - 2) : i = b + j
    <3>1. i - b \in 1..(Len(a) - 2) /\ i = b + (i - b)
      BY <1>1
    <3> QED BY <3>1
  <2>2. j \in 0..(Len(a) - 1)
    BY <1>1
  <2> QED BY <1>1, <1>3, <2>1, <2>2
<1> QED BY <1>1, <1>2, <1>3, <1>4, <1>5

(* What stands in w stands in w when bytes are put behind it. *)
LEMMA StandsLonger ==
  ASSUME NEW w \in Seq(Byte), NEW t \in Seq(Byte), NEW b \in Nat, NEW a \in Seq(Byte),
         Stands(w, b, a)
  PROVE  Stands(w \o t, b, a)
<1>1. PICK v : v = w \o t
  OBVIOUS
<1>2. v \in Seq(Byte) /\ Stands(v, 0, w)
  BY <1>1, Concat, StandsFirst
<1>3. Stands(v, 0 + b, a)
  BY <1>2, StandsWithin
<1> QED BY <1>1, <1>3

(* The bytes of w are those of w \o t. *)
LEMMA BytesLonger ==
  ASSUME NEW w \in Seq(Byte), NEW t \in Seq(Byte), NEW i \in Nat, i < Len(w)
  PROVE  At(w \o t, i) = At(w, i)
<1>1. i + 1 \in 1..Len(w) /\ Len(w) \in Nat /\ Len(t) \in Nat
  OBVIOUS
<1>2. PICK j : j = i + 1
  OBVIOUS
<1>3. (w \o t)[j] = w[j]
  BY <1>1, <1>2
<1> QED BY <1>2, <1>3 DEF At

(* Exchanges 1 to m have answers. *)
LEMMA KnownAnswers ==
  ASSUME PlainAnswers, NEW m \in 0..Len(Exchanges), NEW k \in 1..m
  PROVE  k \in DOMAIN Exchanges /\ Flagged(Answer[k])
<1>1. k \in DOMAIN Exchanges
  BY Constants
<1> QED BY <1>1, AnswerFlagged

(* A stream with another answer behind it is a stream. *)
LEMMA StreamLonger ==
  ASSUME PlainAnswers, NEW w, NEW P, NEW p, NEW m \in 0..Len(Exchanges), Stream(w, m, P, p),
         NEW n \in 0..Len(Exchanges), m <= n, NEW k \in 1..n
  PROVE  \E Q : Stream(w \o Answer[k], n, Q, p)
<1>1. PICK a : a = Answer[k] /\ Flagged(a)
  BY KnownAnswers
<1>2. a \in Seq(Byte) /\ Len(a) \in Nat /\ Len(a) >= 9
  BY <1>1 DEF Flagged, Smallest
<1>3. PICK v : v = w \o a
  OBVIOUS
<1>4. /\ w \in Seq(Byte) /\ P \subseteq 0..Len(w) /\ p \in P /\ Len(w) \in P
      /\ \A b \in P : p <= b
      /\ \A b \in P \ {Len(w)} :
           \E j \in 1..m : Stands(w, b, Answer[j]) /\ b + Len(Answer[j]) \in P
      /\ \A i \in 0..(p - 2) : At(w, i) # Flag
      /\ p # 0 => At(w, p - 1) = Flag /\ PartOfOne(m, p)
  BY DEF Stream
<1>5. v \in Seq(Byte) /\ Len(v) = Len(w) + Len(a)
  BY <1>2, <1>3, <1>4, Concat
<1>6. PICK L, M \in Nat : L = Len(w) /\ M = Len(v) /\ M = L + Len(a)
  <2>1. Len(w) \in Nat /\ Len(v) \in Nat
    BY <1>4, <1>5
  <2> QED BY <1>5, <2>1
<1> DEFINE Q == P \cup {M}
<1>7. Q \subseteq 0..Len(v) /\ p \in Q /\ Len(v) \in Q /\ \A b \in Q : p <= b
  <2>1. \A b \in P : b \in 0..L
    BY <1>4, <1>6
  <2>2. \A b \in P : b \in 0..M
    <3>1. L <= M
      BY <1>2, <1>6
    <3> HIDE DEF Q
    <3>2. \A b \in 0..L : b \in 0..M
      BY <3>1
    <3> QED BY <2>1, <3>2
  <2>3. p \in 0..L /\ p <= M
    <3>1. L <= M
      BY <1>2, <1>6
    <3>2. p \in 0..L
      BY <1>4, <2>1
    <3> QED BY <3>1, <3>2
  <2>4. M \in 0..M
    OBVIOUS
  <2>5. \A b \in Q : b \in 0..M
    BY <2>2, <2>4
  <2>6. \A b \in Q : p <= b
    BY <1>4, <2>3
  <2>7. p \in Q /\ M \in Q
    BY <1>4
  <2>8. Len(v) = M
    BY <1>6
  <2> HIDE DEF Q
  <2> QED BY <2>5, <2>6, <2>7, <2>8
<1>8. ASSUME NEW b \in Q \ {Len(v)}
      PROVE  \E j \in 1..n : Stands(v, b, Answer[j]) /\ b + Len(Answer[j]) \in Q
  <2>0. b \in P /\ b \in Nat
    BY <1>4, <1>6, <1>8
  <2>1. CASE b = L
    <3>1. Stands(v, L, a)
      BY <1>2, <1>3, <1>4, <1>6, StandsFirst
    <3> QED BY <1>1, <1>6, <2>1, <3>1
  <2>2. CASE b # L
    <3>1. PICK j \in 1..m : Stands(w, b, Answer[j]) /\ b + Len(Answer[j]) \in P
      BY <1>4, <1>6, <2>0, <2>2
    <3>2. Answer[j] \in Seq(Byte)
      BY <3>1, KnownAnswers DEF Flagged
    <3>3. Stands(v, b, Answer[j])
      BY <1>2, <1>3, <1>4, <2>0, <3>1, <3>2, StandsLonger
    <3>4. j \in 1..n
      OBVIOUS
    <3> QED BY <3>1, <3>3, <3>4
  <2> QED BY <2>1, <2>2
<1>9. p \in Nat /\ p <= Len(w) /\ Len(w) \in Nat
  BY <1>4, <1>6
<1>10. \A i \in 0..(p - 2) : At(v, i) # Flag
  <2> TAKE i \in 0..(p - 2)
  <2>1. i \in Nat /\ i < Len(w) /\ At(w, i) # Flag
    BY <1>4, <1>9
  <2> QED BY <1>2, <1>3, <1>4, <2>1, BytesLonger
<1>11. p # 0 => At(v, p - 1) = Flag /\ PartOfOne(n, p)
  <2> SUFFICES ASSUME p # 0  PROVE At(v, p - 1) = Flag /\ PartOfOne(n, p)
    OBVIOUS
  <2>1. p - 1 \in Nat /\ p - 1 < Len(w) /\ At(w, p - 1) = Flag
    BY <1>4, <1>9
  <2>2. PartOfOne(n, p)
    <3>1. \A j \in 1..m : j \in 1..n
      OBVIOUS
    <3> QED BY <1>4, <3>1 DEF PartOfOne
  <2>3. At(v, p - 1) = Flag
    BY <1>2, <1>3, <1>4, <2>1, BytesLonger
  <2> QED BY <2>2, <2>3
<1> HIDE DEF Q
<1>12. Stream(v, n, Q, p)
  BY <1>5, <1>7, <1>8, <1>10, <1>11 DEF Stream
<1> QED BY <1>1, <1>3, <1>12

(* A stream of the first m answers is one of the first n. *)
LEMMA StreamOfMore ==
  ASSUME NEW w, NEW P, NEW p, NEW m \in Nat, Stream(w, m, P, p), NEW n \in Nat, m <= n
  PROVE  Stream(w, n, P, p)
<1>1. \A j \in 1..m : j \in 1..n
  OBVIOUS
<1> QED BY <1>1 DEF Stream, PartOfOne

(* e is where the first of m answers begins in what is left of w behind c. *)
Begins(w, m, P, c, e) ==
  /\ e \in P /\ c <= e
  /\ \A i \in c..(e - 2) : At(w, i) # Flag
  /\ e > c => At(w, e - 1) = Flag /\ PartOfOne(m, e - c)

(* Wherever a stream is cut there is an answer, or its end, where the next *)
(* begins.                                                                 *)
LEMMA RestBegins ==
  ASSUME PlainAnswers, NEW w, NEW P, NEW p, NEW m \in 0..Len(Exchanges), Stream(w, m, P, p),
         NEW c \in 0..Len(w)
  PROVE  \E e : Begins(w, m, P, c, e)
<1>1. /\ w \in Seq(Byte) /\ P \subseteq 0..Len(w) /\ p \in P /\ Len(w) \in P
      /\ \A b \in P \ {Len(w)} :
           \E j \in 1..m : Stands(w, b, Answer[j]) /\ b + Len(Answer[j]) \in P
      /\ \A i \in 0..(p - 2) : At(w, i) # Flag
      /\ p # 0 => At(w, p - 1) = Flag /\ PartOfOne(m, p)
  BY DEF Stream
<1>2. PICK L \in Nat : L = Len(w)
  BY <1>1
<1>3. \A b \in P : b \in Nat /\ b <= L
  BY <1>1, <1>2
<1>4. c \in Nat /\ c <= L /\ p \in Nat
  BY <1>1, <1>2, <1>3
<1>5. CASE c <= p
  <2>1. \A i \in c..(p - 2) : At(w, i) # Flag
    BY <1>1, <1>4
  <2>2. p > c => At(w, p - 1) = Flag
    BY <1>1, <1>4
  <2>3. p > c => PartOfOne(m, p - c)
    <3> SUFFICES ASSUME p > c  PROVE PartOfOne(m, p - c)
      OBVIOUS
    <3>1. PICK k \in 1..m : p < Len(Answer[k])
      BY <1>1, <1>4 DEF PartOfOne
    <3>2. Len(Answer[k]) \in Nat
      BY KnownAnswers DEF Flagged
    <3>3. p - c < Len(Answer[k])
      BY <1>4, <3>1, <3>2
    <3> QED BY <3>3 DEF PartOfOne
  <2> QED BY <1>1, <1>5, <2>1, <2>2, <2>3 DEF Begins
<1>6. CASE p < c
  <2> DEFINE T == {c - x : x \in {y \in P : y < c}}
  <2>1. T \subseteq Nat
    BY <1>3, <1>4
  <2>2. c - p \in T
    BY <1>1, <1>6
  <2>3. PICK t \in T : \A y \in T : ~ (y < t)
    BY <2>1, <2>2, LeastNumber
  <2>4. PICK b \in P : b < c /\ t = c - b
    BY <2>3
  <2>5. \A x \in P : x < c => x <= b
    <3> TAKE x \in P
    <3> HAVE x < c
    <3>1. c - x \in T
      OBVIOUS
    <3>2. ~ (c - x < c - b)
      BY <2>3, <2>4, <3>1
    <3> QED BY <1>3, <1>4, <3>2
  <2> HIDE DEF T
  <2>6. b \in Nat /\ b # Len(w)
    BY <1>2, <1>3, <1>4, <2>4
  <2>7. PICK j \in 1..m : Stands(w, b, Answer[j]) /\ b + Len(Answer[j]) \in P
    BY <1>1, <2>6
  <2>8. PICK a : a = Answer[j] /\ Flagged(a)
    BY KnownAnswers
  <2>9. PICK e : e = b + Len(a)
    OBVIOUS
  <2>10. /\ e \in P /\ e \in Nat /\ Len(a) \in Nat /\ Len(a) >= 9 /\ e >= b + 9
    BY <1>3, <2>6, <2>7, <2>8, <2>9 DEF Flagged, Smallest
  <2>11. /\ At(w, b + Len(a) - 1) = Flag
         /\ \A i \in (b + 1)..(b + Len(a) - 2) : At(w, i) # Flag
    <3>1. Stands(w, b, a)
      BY <2>7, <2>8
    <3> QED BY <1>1, <2>6, <2>8, <3>1, FlaggedStands
  <2>12. c <= e
    <3>1. ~ e < c
      BY <2>5, <2>6, <2>10
    <3> QED BY <1>4, <2>10, <3>1
  <2>13. b + 1 <= c
    BY <1>4, <2>4, <2>6
  <2>14. \A i \in c..(e - 2) : At(w, i) # Flag
    <3> TAKE i \in c..(e - 2)
    <3>1. i \in (b + 1)..(b + Len(a) - 2)
      BY <1>4, <2>6, <2>9, <2>10, <2>13
    <3> QED BY <2>11, <3>1
  <2>15. At(w, e - 1) = Flag
    BY <2>6, <2>9, <2>10, <2>11
  <2>16. PartOfOne(m, e - c)
    <3>1. e - c < Len(a)
      BY <1>4, <2>6, <2>9, <2>10, <2>13
    <3> QED BY <2>8, <3>1 DEF PartOfOne
  <2> QED BY <2>10, <2>12, <2>14, <2>15, <2>16 DEF Begins
<1> QED BY <1>4, <1>5, <1>6

(* The bytes of w behind the first c are u. *)
Behind(w, c, u) ==
  /\ u \in Seq(Byte) /\ Len(u) = Len(w) - c
  /\ \A i \in 1..(Len(w) - c) : u[i] = w[c + i]

(* What is left of w behind c. *)
LEMMA RestBytes ==
  ASSUME NEW w \in Seq(Byte), NEW c \in 0..Len(w)
  PROVE  Behind(w, c, SubSeq(w, c + 1, Len(w)))
<1>1. PICK u : u = SubSeq(w, c + 1, Len(w))
  OBVIOUS
<1>2. Len(w) \in Nat /\ c \in Nat /\ c <= Len(w)
  OBVIOUS
<1>3. PICK x, L \in Nat : x = c + 1 /\ L = Len(w)
  BY <1>2
<1>4. \A i \in x..L : w[i] \in Byte
  <2> TAKE i \in x..L
  <2>1. i \in 1..Len(w)
    BY <1>2, <1>3
  <2> QED BY <2>1
<1>5. Cut(w, x, L, u)
  BY <1>1, <1>3, <1>4, CutBytes
<1>6. u \in Seq(Byte) /\ Len(u) = L - c
  BY <1>2, <1>3, <1>5 DEF Cut
<1>7. \A i \in 1..(L - c) : u[i] = w[c + i]
  <2> TAKE i \in 1..(L - c)
  <2>1. L - x + 1 = L - c /\ x + i - 1 = c + i
    BY <1>2, <1>3
  <2>2. u[i] = w[x + i - 1]
    BY <1>5, <2>1 DEF Cut
  <2> QED BY <2>1, <2>2
<1> QED BY <1>1, <1>3, <1>6, <1>7 DEF Behind

(* A byte of u, and what stands in w behind c stands in u. *)
LEMMA BehindBytes ==
  ASSUME NEW w \in Seq(Byte), NEW c \in 0..Len(w), NEW u, Behind(w, c, u)
  PROVE  /\ \A i \in c..(Len(w) - 1) : At(u, i - c) = At(w, i)
         /\ \A b \in c..Len(w), a \in Seq(Byte) : Stands(w, b, a) => Stands(u, b - c, a)
<1>1. PICK L \in Nat : L = Len(w) /\ Len(u) = L - c /\ \A i \in 1..(L - c) : u[i] = w[c + i]
  BY DEF Behind
<1>2. c \in Nat /\ c <= L
  BY <1>1
<1>3. ASSUME NEW i \in c..(L - 1)  PROVE At(u, i - c) = At(w, i)
  <2>1. PICK j \in 1..(L - c) : j = i - c + 1 /\ c + j = i + 1
    <3>1. i - c + 1 \in 1..(L - c) /\ c + (i - c + 1) = i + 1
      BY <1>2
    <3> QED BY <3>1
  <2> QED BY <1>1, <2>1 DEF At
<1>4. ASSUME NEW b \in c..L, NEW a \in Seq(Byte), Stands(w, b, a)  PROVE Stands(u, b - c, a)
  <2>1. b + Len(a) <= L /\ (\A i \in 1..Len(a) : w[b + i] = a[i]) /\ Len(a) \in Nat
    BY <1>1, <1>4 DEF Stands
  <2>2. (b - c) + Len(a) <= Len(u)
    BY <1>1, <1>2, <2>1
  <2>3. ASSUME NEW i \in 1..Len(a)  PROVE u[(b - c) + i] = a[i]
    <3>1. (b - c) + i \in 1..(L - c) /\ c + ((b - c) + i) = b + i
      BY <1>2, <2>1
    <3>2. PICK j \in 1..(L - c) : j = (b - c) + i /\ c + j = b + i
      BY <3>1
    <3> QED BY <1>1, <2>1, <3>2
  <2> QED BY <2>2, <2>3 DEF Stands
<1> QED BY <1>1, <1>3, <1>4

(* What is left of a stream is a stream. *)
LEMMA StreamRest ==
  ASSUME PlainAnswers, NEW w, NEW P, NEW p, NEW m \in 0..Len(Exchanges), Stream(w, m, P, p),
         NEW c \in 0..Len(w)
  PROVE  \E Q, q : Stream(SubSeq(w, c + 1, Len(w)), m, Q, q)
<1>1. PICK u : u = SubSeq(w, c + 1, Len(w))
  OBVIOUS
<1>2. /\ w \in Seq(Byte) /\ P \subseteq 0..Len(w) /\ p \in P /\ Len(w) \in P
      /\ \A b \in P \ {Len(w)} :
           \E j \in 1..m : Stands(w, b, Answer[j]) /\ b + Len(Answer[j]) \in P
  BY DEF Stream
<1>3. Behind(w, c, u)
  BY <1>1, <1>2, RestBytes
<1>4. PICK L \in Nat : L = Len(w) /\ Len(u) = L - c /\ c \in Nat /\ c <= L /\ u \in Seq(Byte)
  <2>1. Len(w) \in Nat
    BY <1>2
  <2> QED BY <1>3, <2>1 DEF Behind
<1>5. /\ \A i \in c..(L - 1) : At(u, i - c) = At(w, i)
      /\ \A b \in c..L, a \in Seq(Byte) : Stands(w, b, a) => Stands(u, b - c, a)
  BY <1>2, <1>3, <1>4, BehindBytes
<1>6. \A b \in P : b \in Nat /\ b <= L
  BY <1>2, <1>4
<1>7. PICK e : Begins(w, m, P, c, e)
  BY RestBegins
<1>8. /\ e \in P /\ e \in Nat /\ c <= e /\ e <= L
      /\ \A i \in c..(e - 2) : At(w, i) # Flag
      /\ e > c => At(w, e - 1) = Flag /\ PartOfOne(m, e - c)
  BY <1>6, <1>7 DEF Begins
<1> DEFINE Q == {x - c : x \in {y \in P : e <= y}}
<1>9. \A x \in P : e <= x => x - c \in Q
  OBVIOUS
<1>10. \A b \in Q : \E x \in P : e <= x /\ b = x - c
  OBVIOUS
<1> HIDE DEF Q
<1>11. PICK q : q = e - c
  OBVIOUS
<1>12. q \in Q /\ q \in Nat
  BY <1>4, <1>8, <1>9, <1>11
<1>13. Len(u) \in Q
  BY <1>2, <1>4, <1>8, <1>9
<1>14. \A b \in Q : b \in 0..Len(u) /\ q <= b
  <2> TAKE b \in Q
  <2>1. PICK x \in P : e <= x /\ b = x - c
    BY <1>10
  <2>2. x \in Nat /\ x <= L
    BY <1>6
  <2>3. b \in 0..(L - c)
    BY <1>4, <1>8, <2>1, <2>2
  <2>4. e - c <= x - c
    BY <1>4, <1>8, <2>1, <2>2
  <2> QED BY <1>4, <1>11, <2>1, <2>3, <2>4
<1>15. ASSUME NEW b \in Q \ {Len(u)}
       PROVE  \E j \in 1..m : Stands(u, b, Answer[j]) /\ b + Len(Answer[j]) \in Q
  <2>1. PICK x \in P : e <= x /\ b = x - c
    BY <1>10
  <2>2. x \in Nat /\ x <= L /\ x # Len(w) /\ x \in c..L
    BY <1>4, <1>6, <1>8, <1>15, <2>1
  <2>3. PICK j \in 1..m : Stands(w, x, Answer[j]) /\ x + Len(Answer[j]) \in P
    BY <1>2, <2>2
  <2>4. PICK a : a = Answer[j] /\ a \in Seq(Byte) /\ Len(a) \in Nat
    BY KnownAnswers DEF Flagged
  <2>5. Stands(u, b, a)
    BY <1>5, <2>1, <2>2, <2>3, <2>4
  <2>6. x + Len(a) \in P /\ e <= x + Len(a)
    BY <1>8, <2>1, <2>2, <2>3, <2>4
  <2>7. (x + Len(a)) - c \in Q
    BY <1>9, <2>6
  <2>8. b + Len(a) = (x + Len(a)) - c
    BY <1>4, <2>1, <2>2, <2>4
  <2> QED BY <2>4, <2>5, <2>7, <2>8
<1>16. \A i \in 0..(q - 2) : At(u, i) # Flag
  <2> TAKE i \in 0..(q - 2)
  <2>1. PICK j \in c..(e - 2) : j = i + c /\ j \in c..(L - 1) /\ i = j - c
    <3>1. i + c \in c..(e - 2) /\ i + c \in c..(L - 1) /\ i = (i + c) - c
      BY <1>4, <1>8, <1>11
    <3> QED BY <3>1
  <2> QED BY <1>5, <1>8, <2>1
<1>17. q # 0 => At(u, q - 1) = Flag /\ PartOfOne(m, q)
  <2> SUFFICES ASSUME q # 0  PROVE At(u, q - 1) = Flag /\ PartOfOne(m, q)
    OBVIOUS
  <2>1. PICK j \in c..(L - 1) : j = e - 1 /\ j - c = q - 1
    <3>1. e - 1 \in c..(L - 1) /\ (e - 1) - c = q - 1
      BY <1>4, <1>8, <1>11
    <3> QED BY <3>1
  <2>2. At(u, j - c) = At(w, j)
    BY <1>5, <2>1
  <2>3. At(w, j) = Flag
    BY <1>4, <1>8, <1>11, <2>1
  <2>4. PartOfOne(m, q)
    BY <1>4, <1>8, <1>11
  <2> QED BY <2>1, <2>2, <2>3, <2>4
<1>18. Stream(u, m, Q, q)
  BY <1>4, <1>12, <1>13, <1>14, <1>15, <1>16, <1>17 DEF Stream
<1> QED BY <1>1, <1>18

(* What the first look from e.position on makes of w when it does not come *)
(* as far as the addresses.                                                *)
Kept(e, position) == [e EXCEPT !.complete = FALSE, !.position = position]
Passed(e, position) == [e EXCEPT !.complete = TRUE, !.position = position]
Told(w, start) == start + (256 * (At(w, start + 1) % 8) + At(w, start + 2)) + 1

(* One look, by what stands behind the first flag. *)
LEMMA FirstLook ==
  ASSUME NEW conf, NEW w, NEW e \in HdlcData
  PROVE  LET start == NextFlag(w, e.position)
         IN /\ Len(w) - e.position < Smallest =>
                 Look(conf, w, e) = Ends(Kept(e, e.position))
            /\ ~ (Len(w) - e.position < Smallest) =>
                 /\ FlagsFrom(w, e.position) \subseteq {Len(w) - 1} =>
                      Look(conf, w, e) = Ends(Kept(e, Len(w)))
                 /\ ~ (FlagsFrom(w, e.position) \subseteq {Len(w) - 1}) =>
                      /\ At(w, start + 1) \div 16 # 10 =>
                           Look(conf, w, e) = Again(Passed(e, start + 1))
                      /\ (~ (At(w, start + 1) \div 16 # 10) /\ start + 2 # Len(w)
                            /\ Len(w) <= Told(w, start)) =>
                           Look(conf, w, e) = Ends(Kept(e, start))
<1> DEFINE start == NextFlag(w, e.position)
           frameLen == 256 * (At(w, start + 1) % 8) + At(w, start + 2)
           eopPos == start + frameLen + 1
           read == dlms_checkHdlcAddress(conf, w, start + 3, eopPos)
           p == read.position
           begun == [e EXCEPT !.complete = TRUE]
           flag == (At(w, start + 1) \div 8) % 2 = 1
           continued == [begun EXCEPT !.moreData = flag, !.position = p + 3]
           look == Look(conf, w, e)
<1> DEFINE behind ==
             IF Len(w) <= eopPos THEN Ends([e EXCEPT !.complete = FALSE, !.position = start])
             ELSE IF At(w, eopPos) # Flag THEN Again([begun EXCEPT !.position = start + 1])
             ELSE IF read.refused
             THEN Ends(Fails([begun EXCEPT !.position = p], "INVALID_CLIENT_ADDRESS"))
             ELSE IF p + 3 > Len(w) THEN Ends(Fails(continued, "OUTOFMEMORY"))
             ELSE IF ~ HeaderRight(w, start, p)
             THEN IF Len(w) - (p + 3) > 8 THEN Again(continued)
                  ELSE Ends(Fails(continued, "WRONG_CRC"))
             ELSE IF ~ FrameRight(w, start, frameLen, p) THEN Ends(Fails(continued, "WRONG_CRC"))
             ELSE Ends(Accepted(conf, w, continued, start, frameLen, p))
           flagged ==
             IF At(w, start + 1) \div 16 # 10 THEN Again([begun EXCEPT !.position = start + 1])
             ELSE IF start + 2 = Len(w) THEN Ends(Fails(begun, "OUTOFMEMORY"))
             ELSE behind
<1>1. look =
     IF Len(w) - e.position < Smallest THEN Ends([e EXCEPT !.complete = FALSE])
     ELSE IF FlagsFrom(w, e.position) \subseteq {Len(w) - 1}
     THEN Ends([e EXCEPT !.complete = FALSE, !.position = Len(w)])
     ELSE flagged
  BY Zenon DEF Look, Checked
<1>a. Len(w) <= eopPos => behind = Ends([e EXCEPT !.complete = FALSE, !.position = start])
  BY Zenon
<1> HIDE DEF behind
<1>b. /\ At(w, start + 1) \div 16 # 10 => flagged = Again([begun EXCEPT !.position = start + 1])
      /\ ~ (At(w, start + 1) \div 16 # 10) /\ start + 2 # Len(w) => flagged = behind
  BY Zenon
<1> HIDE DEF flagged
<1>2. [e EXCEPT !.complete = FALSE] = Kept(e, e.position)
  BY DEF Kept, HdlcData
<1>3. [begun EXCEPT !.position = start + 1] = Passed(e, start + 1)
  BY DEF Passed, HdlcData
<1>4. eopPos = Told(w, start)
  BY DEF Told
<1>5. /\ [e EXCEPT !.complete = FALSE, !.position = Len(w)] = Kept(e, Len(w))
      /\ [e EXCEPT !.complete = FALSE, !.position = start] = Kept(e, start)
  BY DEF Kept
<1> HIDE DEF frameLen, eopPos, read, p, begun, flag, continued, look
<1>6. Len(w) - e.position < Smallest => look = Ends(Kept(e, e.position))
  BY <1>1, <1>2, Zenon
<1>7. ~ (Len(w) - e.position < Smallest) /\ FlagsFrom(w, e.position) \subseteq {Len(w) - 1}
        => look = Ends(Kept(e, Len(w)))
  BY <1>1, <1>5, Zenon
<1>8. ASSUME ~ (Len(w) - e.position < Smallest),
             ~ (FlagsFrom(w, e.position) \subseteq {Len(w) - 1}),
             At(w, start + 1) \div 16 # 10
      PROVE  look = Again(Passed(e, start + 1))
  BY <1>8, <1>1, <1>3, <1>b, Zenon
<1>9. ASSUME ~ (Len(w) - e.position < Smallest),
             ~ (FlagsFrom(w, e.position) \subseteq {Len(w) - 1}),
             ~ (At(w, start + 1) \div 16 # 10), start + 2 # Len(w), Len(w) <= Told(w, start)
      PROVE  look = Ends(Kept(e, start))
  BY <1>9, <1>1, <1>4, <1>5, <1>a, <1>b, Zenon
<1> QED BY <1>6, <1>7, <1>8, <1>9, Zenon DEF look

(* The same of the whole search. *)
LEMMA SearchShort ==
  ASSUME NEW conf, NEW w \in Seq(Byte), NEW e \in HdlcData, Len(w) - e.position < Smallest
  PROVE  dlms_getHdlcData(conf, w, e) = Kept(e, e.position)
<1>1. Look(conf, w, e) = Ends(Kept(e, e.position))
  BY FirstLook, Zenon
<1>2. Look(conf, w, e).again = FALSE /\ Look(conf, w, e).data = Kept(e, e.position)
  BY <1>1 DEF Ends
<1> QED BY <1>2, DataRead, Zenon

(* Bytes without a flag but the last are passed over. *)
LEMMA SearchFlagless ==
  ASSUME NEW conf, NEW w \in Seq(Byte), NEW e \in HdlcData, ~ (Len(w) - e.position < Smallest),
         FlagsFrom(w, e.position) \subseteq {Len(w) - 1}
  PROVE  dlms_getHdlcData(conf, w, e) = Kept(e, Len(w))
<1>1. Look(conf, w, e) = Ends(Kept(e, Len(w)))
  BY FirstLook, Zenon
<1>2. Look(conf, w, e).again = FALSE /\ Look(conf, w, e).data = Kept(e, Len(w))
  BY <1>1 DEF Ends
<1> QED BY <1>2, DataRead, Zenon

(* A flag that no format follows is passed over. *)
LEMMA SearchPast ==
  ASSUME NEW conf, NEW w \in Seq(Byte), NEW e \in HdlcData, NEW b, FirstAt(w, e.position, b),
         ~ (Len(w) - e.position < Smallest), b + 1 < Len(w), At(w, b + 1) \div 16 # 10
  PROVE  dlms_getHdlcData(conf, w, e) = dlms_getHdlcData(conf, w, Passed(e, b + 1))
<1>0. Len(w) \in Nat /\ b \in Nat /\ e.position \in Nat
  BY DEF FirstAt, HdlcData
<1>1. NextFlag(w, e.position) = b /\ b \in FlagsFrom(w, e.position)
  BY <1>0, FirstIsNext
<1>2. ~ (FlagsFrom(w, e.position) \subseteq {Len(w) - 1})
  <2>1. b # Len(w) - 1
    BY <1>0
  <2> QED BY <1>1, <2>1
<1>3. Look(conf, w, e) = Again(Passed(e, b + 1))
  BY <1>1, <1>2, FirstLook, Zenon
<1>4. Look(conf, w, e).again = TRUE /\ Look(conf, w, e).data = Passed(e, b + 1)
  BY <1>3 DEF Again
<1> QED BY <1>4, DataRead, Zenon

(* A frame that has not arrived whole is waited for. *)
LEMMA SearchPart ==
  ASSUME NEW conf, NEW w \in Seq(Byte), NEW e \in HdlcData, NEW b, FirstAt(w, e.position, b),
         ~ (Len(w) - e.position < Smallest), b + 2 < Len(w), At(w, b + 1) \div 16 = 10,
         Len(w) <= Told(w, b)
  PROVE  dlms_getHdlcData(conf, w, e) = Kept(e, b)
<1>0. Len(w) \in Nat /\ b \in Nat /\ e.position \in Nat
  BY DEF FirstAt, HdlcData
<1>1. NextFlag(w, e.position) = b /\ b \in FlagsFrom(w, e.position)
  BY <1>0, FirstIsNext
<1>2. ~ (FlagsFrom(w, e.position) \subseteq {Len(w) - 1}) /\ b + 2 # Len(w)
  <2>1. b # Len(w) - 1 /\ b + 2 # Len(w)
    BY <1>0
  <2> QED BY <1>1, <2>1
<1>3. Look(conf, w, e) = Ends(Kept(e, b))
  BY <1>1, <1>2, FirstLook, Zenon
<1>4. Look(conf, w, e).again = FALSE /\ Look(conf, w, e).data = Kept(e, b)
  BY <1>3 DEF Ends
<1> QED BY <1>4, DataRead, Zenon

(* The format of a readable frame. *)
LEMMA ReadableFormat ==
  ASSUME NEW w, NEW b, NEW n, NEW l, NEW frame, NEW more, NEW info,
         Readable(w, b, n, l, frame, more, info)
  PROVE  At(w, b + 1) \div 16 = 10 /\ 256 * (At(w, b + 1) % 8) + At(w, b + 2) = l
  BY Zenon DEF Readable

(* The format of an answer that stands at b says where it ends. *)
LEMMA AnswerHead ==
  ASSUME PlainAnswers, NEW k \in DOMAIN Exchanges, NEW w \in Seq(Byte), NEW b \in Nat,
         Stands(w, b, Answer[k])
  PROVE  At(w, b + 1) \div 16 = 10 /\ Told(w, b) = b + Len(Answer[k]) - 1
<1>1. /\ Answer[k] = Frame(clientAddress, serverAddress, Control(k), FALSE, Info(k))
      /\ Control(k) \in Byte /\ Info(k) \in Seq(Byte)
      /\ clientAddress \in Numbers /\ serverAddress \in Numbers
  BY AnswerIs, Constants
<1>2. Len(Answer[k]) = Sent(k) + 2 /\ Sent(k) \in Lengths
  BY AnswerFlagged
<1>3. PICK n : n = Len(Header(clientAddress, serverAddress, Control(k), FALSE, Info(k)))
  OBVIOUS
<1>4. Readable(w, b, n, Sent(k), Control(k), FALSE, Info(k))
  <2>1. Length(clientAddress, serverAddress, Info(k)) \in Lengths
    BY <1>2 DEF Sent
  <2>2. Stands(w, b, Frame(clientAddress, serverAddress, Control(k), FALSE, Info(k)))
    BY <1>1, Zenon
  <2>3. FALSE \in BOOLEAN
    OBVIOUS
  <2>4. Readable(w, b, Len(Header(clientAddress, serverAddress, Control(k), FALSE, Info(k))),
                 Length(clientAddress, serverAddress, Info(k)), Control(k), FALSE, Info(k))
    BY <1>1, <2>1, <2>2, <2>3, FrameReadable, Zenon
  <2> QED BY <1>3, <2>4, Zenon DEF Sent
<1>5. At(w, b + 1) \div 16 = 10 /\ 256 * (At(w, b + 1) % 8) + At(w, b + 2) = Sent(k)
  <2>1. PICK x, f, i, more : x = Sent(k) /\ f = Control(k) /\ i = Info(k) /\ more = FALSE
    OBVIOUS
  <2>2. Readable(w, b, n, x, f, more, i)
    BY <1>4, <2>1
  <2>3. At(w, b + 1) \div 16 = 10 /\ 256 * (At(w, b + 1) % 8) + At(w, b + 2) = x
    BY <2>2, ReadableFormat
  <2> QED BY <2>1, <2>3
<1>6. PICK x \in Nat : x = Sent(k)
  <2>1. PICK x : x = Sent(k)
    OBVIOUS
  <2>2. x \in Lengths
    BY <1>2, <2>1
  <2>3. x \in Nat
    BY <2>2 DEF Lengths
  <2> QED BY <2>1, <2>3
<1>7. Told(w, b) = b + x + 1
  BY <1>5, <1>6 DEF Told
<1>8. Len(Answer[k]) = x + 2
  BY <1>2, <1>6
<1> QED BY <1>5, <1>7, <1>8

(* u is the beginning of w. *)
Arrived(w, u) ==
  u \in Seq(Byte) /\ Len(u) <= Len(w) /\ \A i \in 1..Len(u) : u[i] = w[i]

(* The bytes of u are those of w, and what has arrived whole stands in u. *)
LEMMA ArrivedBytes ==
  ASSUME NEW w \in Seq(Byte), NEW u, Arrived(w, u)
  PROVE  /\ \A i \in 0..(Len(u) - 1) : At(u, i) = At(w, i)
         /\ \A b \in Nat, a \in Seq(Byte) :
              Stands(w, b, a) /\ b + Len(a) <= Len(u) => Stands(u, b, a)
<1>1. /\ u \in Seq(Byte) /\ Len(u) <= Len(w) /\ Len(u) \in Nat
      /\ \A i \in 1..Len(u) : u[i] = w[i]
  BY DEF Arrived
<1>2. ASSUME NEW i \in 0..(Len(u) - 1)  PROVE At(u, i) = At(w, i)
  <2>1. i + 1 \in 1..Len(u)
    BY <1>1
  <2> QED BY <1>1, <2>1 DEF At
<1>3. ASSUME NEW b \in Nat, NEW a \in Seq(Byte), Stands(w, b, a), b + Len(a) <= Len(u)
      PROVE  Stands(u, b, a)
  <2>1. Len(a) \in Nat /\ \A i \in 1..Len(a) : w[b + i] = a[i]
    BY <1>3 DEF Stands
  <2>2. \A i \in 1..Len(a) : b + i \in 1..Len(u)
    BY <1>1, <1>3, <2>1
  <2>3. \A i \in 1..Len(a) : u[b + i] = a[i]
    BY <1>1, <2>1, <2>2
  <2> QED BY <1>3, <2>3 DEF Stands
<1> QED BY <1>2, <1>3

(* Where a stream goes on an answer stands. *)
LEMMA StreamNext ==
  ASSUME PlainAnswers, NEW w, NEW P, NEW p, NEW m \in 0..Len(Exchanges), Stream(w, m, P, p),
         p < Len(w)
  PROVE  \E k \in 1..m : Flagged(Answer[k]) /\ Stands(w, p, Answer[k])
<1>1. /\ p \in P /\ w \in Seq(Byte) /\ P \subseteq 0..Len(w)
      /\ \A b \in P \ {Len(w)} :
           \E j \in 1..m : Stands(w, b, Answer[j]) /\ b + Len(Answer[j]) \in P
  BY DEF Stream
<1>2. p \in P \ {Len(w)}
  <2>1. p \in 0..Len(w) /\ Len(w) \in Nat
    BY <1>1
  <2> QED BY <1>1, <2>1
<1>3. PICK j \in 1..m : Stands(w, p, Answer[j])
  BY <1>1, <1>2
<1> QED BY <1>3, KnownAnswers

(* Behind position p there is no flag in u. *)
Awaits(u, p) == \A i \in (p + 1)..(Len(u) - 1) : At(u, i) # Flag

(* A few bytes of an answer are too few for its end. *)
LEMMA AwaitsEnd ==
  ASSUME PlainAnswers, NEW w, NEW P, NEW p, NEW m \in 0..Len(Exchanges), Stream(w, m, P, p),
         NEW u, Arrived(w, u),
         \/ Len(u) < p + 9
         \/ \E k \in 1..m : Flagged(Answer[k]) /\ Stands(w, p, Answer[k])
                            /\ Len(u) < p + Len(Answer[k])
  PROVE  Awaits(u, p)
<1>1. /\ w \in Seq(Byte) /\ p \in Nat /\ u \in Seq(Byte) /\ Len(u) \in Nat /\ Len(w) \in Nat
      /\ Len(u) <= Len(w)
  <2>1. w \in Seq(Byte) /\ p \in 0..Len(w)
    BY DEF Stream
  <2>2. u \in Seq(Byte) /\ Len(u) <= Len(w)
    BY DEF Arrived
  <2> QED BY <2>1, <2>2
<1>2. ASSUME NEW i \in (p + 1)..(Len(u) - 1)  PROVE At(u, i) # Flag
  <2>1. p < Len(w) /\ i \in 0..(Len(u) - 1)
    BY <1>1
  <2>2. PICK k \in 1..m : Flagged(Answer[k]) /\ Stands(w, p, Answer[k])
                          /\ Len(u) < p + Len(Answer[k])
    <3>1. CASE Len(u) < p + 9
      <4>1. PICK k \in 1..m : Flagged(Answer[k]) /\ Stands(w, p, Answer[k])
        BY <2>1, StreamNext
      <4>2. Len(Answer[k]) \in Nat /\ Len(Answer[k]) >= 9
        BY <4>1 DEF Flagged, Smallest
      <4> QED BY <1>1, <3>1, <4>1, <4>2
    <3>2. CASE ~ (Len(u) < p + 9)
      BY <3>2
    <3> QED BY <3>1, <3>2
  <2>3. PICK a : a = Answer[k] /\ Flagged(a) /\ Stands(w, p, a) /\ Len(u) < p + Len(a)
    BY <2>2
  <2>4. Len(a) \in Nat
    BY <2>3 DEF Flagged
  <2>5. \A j \in (p + 1)..(p + Len(a) - 2) : At(w, j) # Flag
    BY <1>1, <2>3, FlaggedStands
  <2>6. i \in (p + 1)..(p + Len(a) - 2)
    BY <1>1, <2>3, <2>4
  <2>7. At(u, i) = At(w, i)
    BY <1>1, <2>1, ArrivedBytes
  <2> QED BY <2>5, <2>6, <2>7
<1> QED BY <1>2 DEF Awaits

(* What a search of the bytes u may make of them: it waits at p or before, *)
(* or it takes an answer of the first m exchanges.                         *)
Waiting(u, p, r) == r.complete = FALSE /\ r.ret = "OK" /\ r.position <= p /\ Awaits(u, p)
Taken(u, m, r) == \E k \in 1..m : Delivered(settings, u, Info(k), r)
Searched(u, m, p, r) == Waiting(u, p, r) \/ Taken(u, m, r)

(* What is kept and what is passed over. *)
LEMMA KeptWaits ==
  ASSUME NEW e \in HdlcData, e.ret = "OK", NEW i \in Nat, NEW p, i <= p, NEW u, Awaits(u, p)
  PROVE  Waiting(u, p, Kept(e, i))
<1>1. Kept(e, i).complete = FALSE /\ Kept(e, i).ret = "OK" /\ Kept(e, i).position = i
  BY DEF Kept, HdlcData
<1> QED BY <1>1 DEF Waiting

(* What is passed over leaves the rest of the reply as it is. *)
LEMMA PassedOn ==
  ASSUME NEW e \in HdlcData, e.ret = "OK", NEW i \in Nat
  PROVE  Passed(e, i) \in HdlcData /\ Passed(e, i).ret = "OK" /\ Passed(e, i).position = i
  BY DEF Passed, HdlcData

(* The client does not take answers for its own requests. *)
LEMMA ReadsAnswers ==
  IsClient(settings) /\ Admits(settings, clientAddress, serverAddress)
  BY DEF IsClient, Admits, settings

(* A whole answer is taken. *)
LEMMA AnswerTaken ==
  ASSUME PlainAnswers, NEW k \in DOMAIN Exchanges, NEW u \in Seq(Byte), NEW p \in Nat,
         Stands(u, p, Answer[k]), NEW e \in HdlcData, e.ret = "OK", FirstAt(u, e.position, p)
  PROVE  Delivered(settings, u, Info(k), dlms_getHdlcData(settings, u, e))
<1> DEFINE n == Len(Header(clientAddress, serverAddress, Control(k), FALSE, Info(k)))
           l == Length(clientAddress, serverAddress, Info(k))
<1>1. /\ Answer[k] = Frame(clientAddress, serverAddress, Control(k), FALSE, Info(k))
      /\ Control(k) \in Byte /\ Info(k) \in Seq(Byte) /\ FALSE \in BOOLEAN
      /\ clientAddress \in Numbers /\ serverAddress \in Numbers
  BY AnswerIs, Constants
<1>2. Sent(k) \in Lengths /\ Recognised(Control(k), Info(k))
  BY AnswerFlagged
<1>3. l \in Lengths
  BY <1>2 DEF Sent
<1>4. Stands(u, p, Frame(clientAddress, serverAddress, Control(k), FALSE, Info(k)))
  BY <1>1, Zenon
<1>5. IsClient(settings) /\ Admits(settings, clientAddress, serverAddress)
  BY ReadsAnswers
<1>6. TakesFrame(settings, u, e, p, n, l, Control(k), FALSE, Info(k))
  <2>1. TakenOrRefused(settings, clientAddress, serverAddress, u, e, p, n, l, Control(k), FALSE,
                       Info(k))
    BY <1>1, <1>3, <1>4, FrameFound, Zenon
  <2> QED BY <1>5, <2>1, Zenon DEF TakenOrRefused
<1> HIDE DEF n, l
<1>7. /\ Readable(u, p, n, l, Control(k), FALSE, Info(k))
      /\ dlms_getHdlcData(settings, u, e)
           = Accepted(settings, u, Continued(e, FALSE, p + n), p, l, p + n)
  BY <1>6, Zenon DEF TakesFrame
<1>8. Delivered(settings, u, Info(k),
                Accepted(settings, u, Continued(e, FALSE, p + n), p, l, p + n))
  BY <1>1, <1>2, <1>5, <1>7, AnswerDelivered, Zenon
<1> QED BY <1>7, <1>8, Zenon

(* A search from where an answer begins. *)
LEMMA SearchAt ==
  ASSUME PlainAnswers, NEW w, NEW P, NEW p, NEW m \in 0..Len(Exchanges), Stream(w, m, P, p),
         NEW u, Arrived(w, u), NEW e \in HdlcData, e.position = p, e.ret = "OK"
  PROVE  Searched(u, m, p, dlms_getHdlcData(settings, u, e))
<1>1. /\ w \in Seq(Byte) /\ p \in Nat /\ u \in Seq(Byte) /\ Len(u) \in Nat /\ Len(w) \in Nat
      /\ Len(u) <= Len(w)
  <2>1. w \in Seq(Byte) /\ p \in 0..Len(w)
    BY DEF Stream
  <2>2. u \in Seq(Byte) /\ Len(u) <= Len(w)
    BY DEF Arrived
  <2> QED BY <2>1, <2>2
<1>2. CASE Len(u) - p < Smallest
  <2>1. dlms_getHdlcData(settings, u, e) = Kept(e, p)
    BY <1>1, <1>2, SearchShort
  <2>2. Awaits(u, p)
    <3>1. Len(u) < p + 9
      BY <1>1, <1>2 DEF Smallest
    <3> QED BY <3>1, AwaitsEnd
  <2>3. Waiting(u, p, Kept(e, p))
    <3>1. p <= p
      BY <1>1
    <3> QED BY <1>1, <2>2, <3>1, KeptWaits, Zenon
  <2> QED BY <2>1, <2>3 DEF Searched
<1>3. CASE ~ (Len(u) - p < Smallest)
  <2>1. Len(u) >= p + 9 /\ p < Len(w) /\ p < Len(u)
    BY <1>1, <1>3 DEF Smallest
  <2>2. PICK k \in 1..m : Flagged(Answer[k]) /\ Stands(w, p, Answer[k])
    BY <2>1, StreamNext
  <2>3. PICK a : a = Answer[k] /\ Flagged(a) /\ Stands(w, p, a)
    BY <2>2
  <2>4. a \in Seq(Byte) /\ Len(a) \in Nat /\ Len(a) >= 9
    BY <2>3 DEF Flagged, Smallest
  <2>5. \A i \in 0..(Len(u) - 1) : At(u, i) = At(w, i)
    BY <1>1, ArrivedBytes
  <2>6. FirstAt(u, e.position, p)
    <3>1. At(w, p) = Flag
      BY <1>1, <2>3, FlaggedStands
    <3>2. At(u, p) = Flag
      BY <1>1, <2>1, <2>5, <3>1
    <3> QED BY <1>1, <2>1, <3>2 DEF FirstAt
  <2>7. k \in DOMAIN Exchanges
    BY KnownAnswers
  <2>8. CASE p + Len(a) <= Len(u)
    <3>1. Stands(u, p, a)
      BY <1>1, <2>3, <2>4, <2>8, ArrivedBytes
    <3>2. Delivered(settings, u, Info(k), dlms_getHdlcData(settings, u, e))
      BY <1>1, <2>3, <2>6, <2>7, <3>1, AnswerTaken
    <3>3. Taken(u, m, dlms_getHdlcData(settings, u, e))
      BY <3>2, Zenon DEF Taken
    <3> QED BY <3>3 DEF Searched
  <2>9. CASE Len(u) < p + Len(a)
    <3>1. At(w, p + 1) \div 16 = 10 /\ Told(w, p) = p + Len(a) - 1
      BY <1>1, <2>3, <2>7, AnswerHead
    <3>2. At(u, p + 1) = At(w, p + 1) /\ At(u, p + 2) = At(w, p + 2)
      <4>1. p + 1 \in 0..(Len(u) - 1) /\ p + 2 \in 0..(Len(u) - 1)
        BY <1>1, <2>1
      <4> QED BY <2>5, <4>1
    <3>3. Told(u, p) = Told(w, p) /\ At(u, p + 1) \div 16 = 10
      BY <3>1, <3>2 DEF Told
    <3>4. Len(u) <= Told(u, p) /\ p + 2 < Len(u)
      BY <1>1, <2>1, <2>4, <2>9, <3>1, <3>3
    <3>5. dlms_getHdlcData(settings, u, e) = Kept(e, p)
      BY <1>1, <1>3, <2>6, <3>3, <3>4, SearchPart
    <3>6. Awaits(u, p)
      BY <2>2, <2>3, <2>9, AwaitsEnd
    <3>7. Waiting(u, p, Kept(e, p))
      <4>1. p <= p
        BY <1>1
      <4> QED BY <1>1, <3>6, <4>1, KeptWaits, Zenon
    <3> QED BY <3>5, <3>7 DEF Searched
  <2> QED BY <1>1, <2>4, <2>8, <2>9
<1> QED BY <1>2, <1>3

(* A search from before it. *)
LEMMA SearchStream ==
  ASSUME PlainAnswers, NEW w, NEW P, NEW p, NEW m \in 0..Len(Exchanges), Stream(w, m, P, p),
         NEW u, Arrived(w, u), NEW e \in HdlcData, e.position <= p, e.ret = "OK"
  PROVE  Searched(u, m, p, dlms_getHdlcData(settings, u, e))
<1>1. /\ w \in Seq(Byte) /\ p \in Nat /\ u \in Seq(Byte) /\ Len(u) \in Nat /\ Len(w) \in Nat
      /\ Len(u) <= Len(w)
      /\ \A i \in 0..(p - 2) : At(w, i) # Flag
      /\ p # 0 => At(w, p - 1) = Flag
  <2>1. w \in Seq(Byte) /\ p \in 0..Len(w)
    BY DEF Stream
  <2>2. u \in Seq(Byte) /\ Len(u) <= Len(w)
    BY DEF Arrived
  <2>3. /\ \A i \in 0..(p - 2) : At(w, i) # Flag
        /\ p # 0 => At(w, p - 1) = Flag
    BY DEF Stream
  <2> QED BY <2>1, <2>2, <2>3
<1>2. \A i \in 0..(Len(u) - 1) : At(u, i) = At(w, i)
  BY <1>1, ArrivedBytes
<1>3. PICK q \in Nat : q = e.position /\ q <= p
  BY DEF HdlcData
<1>4. CASE q = p
  BY <1>3, <1>4, SearchAt
<1>5. CASE q # p /\ Len(u) - q < Smallest
  <2>1. dlms_getHdlcData(settings, u, e) = Kept(e, q)
    BY <1>1, <1>3, <1>5, SearchShort
  <2>2. Awaits(u, p)
    <3>1. Len(u) < p + 9
      BY <1>1, <1>3, <1>5 DEF Smallest
    <3> QED BY <3>1, AwaitsEnd
  <2>3. Waiting(u, p, Kept(e, q))
    BY <1>3, <2>2, KeptWaits
  <2> QED BY <2>1, <2>3 DEF Searched
<1>6. CASE q # p /\ ~ (Len(u) - q < Smallest) /\ Len(u) <= p
  <2>1. FlagsFrom(u, q) \subseteq {Len(u) - 1}
    <3> SUFFICES ASSUME NEW i \in FlagsFrom(u, q)  PROVE i = Len(u) - 1
      OBVIOUS
    <3>1. i \in q..(Len(u) - 1) /\ At(u, i) = Flag
      BY DEF FlagsFrom
    <3>2. i \in 0..(Len(u) - 1)
      BY <1>3, <3>1
    <3>3. At(w, i) = Flag
      BY <1>2, <3>1, <3>2
    <3>4. i \notin 0..(p - 2)
      BY <1>1, <3>3
    <3> QED BY <1>1, <1>6, <3>2, <3>4
  <2>2. dlms_getHdlcData(settings, u, e) = Kept(e, Len(u))
    BY <1>1, <1>3, <1>6, <2>1, SearchFlagless
  <2>3. Awaits(u, p)
    BY <1>1, <1>6 DEF Awaits
  <2>4. Waiting(u, p, Kept(e, Len(u)))
    BY <1>1, <1>6, <2>3, KeptWaits
  <2> QED BY <2>2, <2>4 DEF Searched
<1>7. CASE q # p /\ ~ (Len(u) - q < Smallest) /\ p < Len(u)
  <2>1. PICK b \in Nat : b = p - 1 /\ q <= b /\ b + 1 = p
    <3>1. p - 1 \in Nat /\ q <= p - 1 /\ (p - 1) + 1 = p
      BY <1>1, <1>3, <1>7
    <3> QED BY <3>1
  <2>2. FirstAt(u, q, b)
    <3>1. b < Len(u) /\ At(u, b) = Flag
      <4>1. b \in 0..(Len(u) - 1) /\ At(w, b) = Flag
        BY <1>1, <1>7, <2>1
      <4> QED BY <1>1, <1>2, <4>1
    <3>2. \A i \in q..(b - 1) : At(u, i) # Flag
      <4> TAKE i \in q..(b - 1)
      <4>1. i \in 0..(p - 2) /\ i \in 0..(Len(u) - 1)
        BY <1>1, <1>3, <1>7, <2>1
      <4> QED BY <1>1, <1>2, <4>1
    <3> QED BY <2>1, <3>1, <3>2 DEF FirstAt
  <2>3. At(u, b + 1) \div 16 # 10 /\ b + 1 < Len(u)
    <3>1. p < Len(w)
      BY <1>1, <1>7
    <3>2. PICK k \in 1..m : Flagged(Answer[k]) /\ Stands(w, p, Answer[k])
      BY <3>1, StreamNext
    <3>3. At(w, p) = Flag
      BY <1>1, <3>2, FlaggedStands
    <3>4. At(u, p) = Flag
      BY <1>1, <1>2, <1>7, <3>3
    <3>5. At(u, b + 1) = 126
      BY <2>1, <3>4 DEF Flag
    <3> QED BY <1>7, <2>1, <3>5
  <2>4. dlms_getHdlcData(settings, u, e) = dlms_getHdlcData(settings, u, Passed(e, p))
    <3>1. FirstAt(u, e.position, b) /\ ~ (Len(u) - e.position < Smallest)
      BY <1>3, <1>7, <2>2
    <3>2. dlms_getHdlcData(settings, u, e) = dlms_getHdlcData(settings, u, Passed(e, b + 1))
      BY <1>1, <2>3, <3>1, SearchPast, Zenon
    <3> QED BY <2>1, <3>2
  <2>5. PICK f : f = Passed(e, p) /\ f \in HdlcData /\ f.ret = "OK" /\ f.position = p
    BY <1>1, PassedOn
  <2>6. Searched(u, m, p, dlms_getHdlcData(settings, u, f))
    BY <2>5, SearchAt
  <2> QED BY <2>4, <2>5, <2>6
<1> QED BY <1>1, <1>4, <1>5, <1>6, <1>7

(* While the client collects, what it has and what comes is a stream in    *)
(* which it has not yet come further than the next answer begins; between  *)
(* two exchanges what is left on the line is a stream.                     *)
Collects(P, p) ==
  Stream(data \o line, exchange, P, p) /\ d.position <= p /\ d.ret = "OK" /\ Awaits(data, p)
Collecting == stage = "reading" => \E P, p : Collects(P, p)
Resting == stage = "idle" => \E P, p : Stream(line, exchange, P, p)

ReceiverInv ==
  ReceiverType /\ Collecting /\ Resting /\ ret \in {"OK", "RECEIVE_FAILED"} /\ Genuine
  /\ NoAnswerMissed

(* A line that loses or delays answers carries nothing else. *)
LEMMA WholeOrNothing ==
  ASSUME WholeAnswers, TypeOK, NEW k \in DOMAIN Exchanges, SendAndAnswer(k)
  PROVE  line' = line \/ line' = line \o Answer[k]
<1>1. Preludes = {} /\ Changes = {} /\ Cuts[k] \subseteq {0}
  BY DEF WholeAnswers
<1>2. CASE line' = line \o Answer[k]
  BY <1>2
<1>3. CASE \E prelude \in Preludes : line' = line \o prelude \o Answer[k]
  BY <1>1, <1>3
<1>4. CASE \E bytes \in Damaged[k] : line' = line \o bytes
  <2>1. PICK bytes \in Damaged[k] : line' = line \o bytes
    BY <1>4
  <2>2. PICK n \in Cuts[k] : bytes = SubSeq(Answer[k], 1, n)
    BY <1>1 DEF Damaged
  <2>3. n = 0 /\ Answer[k] \in Seq(Byte)
    BY <1>1, <2>2, AnswerBytes
  <2>4. bytes = <<>>
    BY <2>2, <2>3
  <2>5. line \in Seq(Byte)
    BY DEF TypeOK
  <2>6. line \o <<>> = line
    BY <2>5
  <2> QED BY <2>1, <2>4, <2>6
<1> QED BY <1>2, <1>3, <1>4 DEF SendAndAnswer

(* Nothing is a stream. *)
LEMMA NothingStreams == Stream(<<>>, 0, {0}, 0)
<1>1. <<>> \in Seq(Byte) /\ Len(<<>>) = 0
  OBVIOUS
<1> QED BY <1>1 DEF Stream

(* Nothing is collected, nothing is on the line. *)
LEMMA ReceiverInvBegins ==
  ASSUME Init
  PROVE  ReceiverInv
<1>1. ReceiverType
  BY ReceiverTypeBegins
<1>2. line = <<>> /\ stage = "idle" /\ ret = "OK" /\ exchange = 0
  BY DEF Init
<1>3. Resting
  BY <1>2, NothingStreams DEF Resting
<1>4. Collecting
  BY <1>2 DEF Collecting
<1>5. Genuine /\ NoAnswerMissed
  BY <1>2 DEF Genuine, NoAnswerMissed
<1> QED BY <1>1, <1>2, <1>3, <1>4, <1>5 DEF ReceiverInv

(* The answers sent so far. *)
LEMMA ExchangesSoFar ==
  ASSUME ReceiverType
  PROVE  exchange \in 0..Len(Exchanges) /\ line \in Seq(Byte) /\ data \in Seq(Byte)
         /\ d \in HdlcData
  BY DEF ReceiverType, TypeOK

(* Begin: nothing is collected yet. *)
LEMMA BeginCollects ==
  ASSUME PlainAnswers, WholeAnswers, ReceiverInv, Begin
  PROVE  \E P, p : Collects(P, p)'
<1>1. /\ stage = "idle" /\ exchange + 1 \in DOMAIN Exchanges /\ exchange' = exchange + 1
      /\ data' = <<>> /\ d' = ReplyInit /\ SendAndAnswer(exchange + 1)
  BY DEF Begin
<1>2. TypeOK /\ exchange \in 0..Len(Exchanges) /\ line \in Seq(Byte) /\ Len(Exchanges) \in Nat
  BY ExchangesSoFar, Constants DEF ReceiverInv, ReceiverType
<1>3. PICK P, p : Stream(line, exchange, P, p)
  BY <1>1 DEF ReceiverInv, Resting
<1>4. PICK k \in DOMAIN Exchanges : k = exchange + 1
  BY <1>1
<1>5. k \in 0..Len(Exchanges) /\ k \in Nat /\ k \in 1..k /\ exchange <= k /\ exchange \in Nat
  BY <1>2, <1>4, Constants
<1>6. \E Q : Stream(line', k, Q, p)
  <2>1. line' = line \/ line' = line \o Answer[k]
    BY <1>1, <1>2, <1>4, WholeOrNothing
  <2>2. Stream(line, k, P, p)
    BY <1>3, <1>5, StreamOfMore
  <2>3. \E Q : Stream(line \o Answer[k], k, Q, p)
    BY <1>2, <1>3, <1>5, StreamLonger
  <2> QED BY <2>1, <2>2, <2>3
<1>7. PICK Q : Stream(line', k, Q, p)
  BY <1>6
<1>8. line' \in Seq(Byte) /\ p \in Nat
  <2>1. line' \in Seq(Byte) /\ p \in 0..Len(line')
    BY <1>7 DEF Stream
  <2> QED BY <2>1
<1>9. data' \o line' = line'
  BY <1>1, <1>8
<1>10. d'.position <= p /\ d'.ret = "OK"
  BY <1>1, <1>8 DEF ReplyInit
<1>11. Awaits(data', p)
  <2>1. Len(data') = 0
    BY <1>1
  <2> QED BY <1>8, <2>1 DEF Awaits
<1>12. Stream(data' \o line', exchange', Q, p)
  BY <1>1, <1>4, <1>7, <1>9
<1>13. Collects(Q, p)'
  BY <1>10, <1>11, <1>12 DEF Collects
<1> QED BY <1>13

(* Resend: another answer, or none. *)
LEMMA ResendCollects ==
  ASSUME PlainAnswers, WholeAnswers, ReceiverInv, Resend
  PROVE  \E P, p : Collects(P, p)'
<1>1. stage = "reading" /\ SendAndAnswer(exchange) /\ UNCHANGED <<data, d, exchange>>
  BY DEF Resend
<1>2. /\ TypeOK /\ exchange \in 0..Len(Exchanges) /\ line \in Seq(Byte) /\ data \in Seq(Byte)
      /\ Len(Exchanges) \in Nat /\ exchange # 0
  BY <1>1, ExchangesSoFar, Constants DEF ReceiverInv, ReceiverType
<1>3. PICK P, p : Collects(P, p)
  BY <1>1 DEF ReceiverInv, Collecting
<1>4. Stream(data \o line, exchange, P, p)
  BY <1>3 DEF Collects
<1>5. PICK k \in DOMAIN Exchanges : k = exchange
  BY <1>2, Constants
<1>6. k \in 0..Len(Exchanges) /\ k \in 1..k /\ k <= k
  BY <1>2, <1>5, Constants
<1>7. line' = line \/ line' = line \o Answer[k]
  BY <1>1, <1>2, <1>5, WholeOrNothing
<1>8. \E Q : Stream(data \o line', k, Q, p)
  <2>1. CASE line' = line
    BY <1>4, <1>5, <2>1
  <2>2. CASE line' = line \o Answer[k]
    <3>1. PICK w : w = data \o line
      OBVIOUS
    <3>2. \E Q : Stream(w \o Answer[k], k, Q, p)
      BY <1>4, <1>5, <1>6, <3>1, StreamLonger
    <3>3. Answer[k] \in Seq(Byte)
      BY AnswerBytes
    <3>4. data \o (line \o Answer[k]) = (data \o line) \o Answer[k]
      <4>1. \A x, y, z \in Seq(Byte) : x \o (y \o z) = (x \o y) \o z
        BY Between
      <4> QED BY <1>2, <3>3, <4>1
    <3> QED BY <2>2, <3>1, <3>2, <3>4
  <2> QED BY <1>7, <2>1, <2>2
<1>9. PICK Q : Stream(data \o line', k, Q, p)
  BY <1>8
<1>10. Stream(data' \o line', exchange', Q, p)
  BY <1>1, <1>5, <1>9
<1>11. Collects(Q, p)'
  BY <1>1, <1>3, <1>10 DEF Collects
<1> QED BY <1>11

(* What is put before v is cut off again. *)
Before(u, v) == Arrived(u \o v, u) /\ SubSeq(u \o v, Len(u) + 1, Len(u \o v)) = v

(* u is the beginning of u \o v, and v the rest. *)
LEMMA CutOff ==
  ASSUME NEW u \in Seq(Byte), NEW v \in Seq(Byte)
  PROVE  Before(u, v)
<1>1. PICK w : w = u \o v
  OBVIOUS
<1>2. w \in Seq(Byte) /\ Len(w) = Len(u) + Len(v) /\ Stands(w, 0, u) /\ Stands(w, Len(u), v)
  BY <1>1, Concat, StandsFirst
<1>3. PICK x, y \in Nat : x = Len(u) /\ y = Len(v)
  OBVIOUS
<1>4. Arrived(w, u)
  <2>1. 0 + Len(u) <= Len(w) /\ \A i \in 1..Len(u) : w[0 + i] = u[i]
    BY <1>2 DEF Stands
  <2>2. \A i \in 1..Len(u) : 0 + i = i
    OBVIOUS
  <2>3. \A i \in 1..Len(u) : u[i] = w[i]
    BY <2>1, <2>2
  <2>4. Len(u) <= Len(w)
    BY <1>2, <1>3
  <2> QED BY <2>3, <2>4 DEF Arrived
<1>5. SubSeq(w, Len(u) + 1, Len(w)) = v
  <2>1. ReadBack(w, Len(u), v)
    BY <1>2, <1>3, StandsSubSeq
  <2> QED BY <1>2, <2>1 DEF ReadBack
<1> QED BY <1>1, <1>4, <1>5 DEF Before

(* The bytes that a read takes off the line. *)
Splits(t, n) ==
  /\ SubSeq(t, 1, n) \in Seq(Byte) /\ SubSeq(t, n + 1, Len(t)) \in Seq(Byte)
  /\ SubSeq(t, 1, n) \o SubSeq(t, n + 1, Len(t)) = t

(* A read takes the first n bytes off the line. *)
LEMMA ReadSplits ==
  ASSUME NEW t \in Seq(Byte), NEW n \in 1..Len(t)
  PROVE  Splits(t, n)
<1>1. PICK l \in Nat : l = Len(t)
  OBVIOUS
<1>2. \A i \in 1..l : t[i] \in Byte
  BY <1>1
<1>3. n \in Int /\ 1 <= n + 1 /\ n <= l /\ l \in Int /\ n + 1 \in Int
  BY <1>1
<1>4. SubSeq(t, 1, n) \in Seq(Byte)
  <2>1. \A i \in 1..n : t[i] \in Byte
    BY <1>2, <1>3
  <2>2. Cut(t, 1, n, SubSeq(t, 1, n))
    BY <1>3, <2>1, CutBytes
  <2> QED BY <2>2 DEF Cut
<1>5. SubSeq(t, n + 1, l) \in Seq(Byte)
  <2>1. \A i \in (n + 1)..l : t[i] \in Byte
    BY <1>2, <1>3
  <2>2. Cut(t, n + 1, l, SubSeq(t, n + 1, l))
    BY <1>3, <2>1, CutBytes
  <2> QED BY <2>2 DEF Cut
<1>6. SubSeq(t, 1, n) \o SubSeq(t, n + 1, l) = SubSeq(t, 1, l)
  BY <1>1, <1>3, ConcatAdjacentSubSeq
<1>7. SubSeq(t, 1, l) = t
  BY <1>1
<1> QED BY <1>1, <1>4, <1>5, <1>6, <1>7 DEF Splits

(* The bytes of a read go from the line to the data, and the rest of the   *)
(* line is what stands behind them.                                        *)
Moved(w, u, v) ==
  /\ u \in Seq(Byte) /\ v \in Seq(Byte) /\ u \o v = w /\ Arrived(w, u)
  /\ SubSeq(w, Len(u) + 1, Len(w)) = v

(* A read moves bytes from the line to the data. *)
LEMMA ReadMoves ==
  ASSUME NEW s \in Seq(Byte), NEW t \in Seq(Byte), NEW n \in 1..Len(t)
  PROVE  Moved(s \o t, s \o SubSeq(t, 1, n), SubSeq(t, n + 1, Len(t)))
<1>1. PICK a, v : a = SubSeq(t, 1, n) /\ v = SubSeq(t, n + 1, Len(t))
  OBVIOUS
<1>2. a \in Seq(Byte) /\ v \in Seq(Byte) /\ a \o v = t
  BY <1>1, ReadSplits DEF Splits
<1>3. s \o (a \o v) = (s \o a) \o v
  <2>1. \A x, y, z \in Seq(Byte) : x \o (y \o z) = (x \o y) \o z
    BY Between
  <2> QED BY <1>2, <2>1
<1>4. s \o a \in Seq(Byte)
  BY <1>2, Concat
<1>5. Before(s \o a, v)
  BY <1>2, <1>4, CutOff
<1> QED BY <1>1, <1>2, <1>3, <1>4, <1>5 DEF Moved, Before

(* A read that does not look for a closing flag has no flag behind p. *)
LEMMA NothingFound ==
  ASSUME PlainAnswers, NEW w, NEW P, NEW p, NEW m \in 0..Len(Exchanges), Stream(w, m, P, p),
         NEW u, Arrived(w, u), ~ EopFound(u)
  PROVE  Awaits(u, p)
<1>1. u \in Seq(Byte) /\ Len(u) \in Nat /\ p \in Nat
  <2>1. w \in Seq(Byte) /\ p \in 0..Len(w)
    BY DEF Stream
  <2>2. u \in Seq(Byte)
    BY DEF Arrived
  <2> QED BY <2>1, <2>2
<1>2. CASE Len(u) < 9
  <2>1. Len(u) < p + 9
    BY <1>1, <1>2
  <2> QED BY <2>1, AwaitsEnd
<1>3. CASE Len(u) >= 9
  <2>1. \A i \in 2..Len(u) : u[i] # Flag
    BY <1>1, <1>3 DEF EopFound
  <2>2. ASSUME NEW i \in (p + 1)..(Len(u) - 1)  PROVE At(u, i) # Flag
    <3>1. i + 1 \in 2..Len(u)
      BY <1>1
    <3> QED BY <2>1, <3>1 DEF At
  <2> QED BY <2>2 DEF Awaits
<1> QED BY <1>1, <1>2, <1>3

(* What is left on the line when the exchange ends is a stream. *)
LEMMA LeftOver ==
  ASSUME PlainAnswers, NEW w, NEW P, NEW p, NEW m \in 0..Len(Exchanges), Stream(w, m, P, p),
         NEW u, NEW v, Moved(w, u, v)
  PROVE  \E Q, q : Stream(v, m, Q, q)
<1>1. Len(u) \in 0..Len(w) /\ SubSeq(w, Len(u) + 1, Len(w)) = v
  <2>1. u \in Seq(Byte) /\ w \in Seq(Byte) /\ Len(u) <= Len(w)
    BY DEF Moved, Arrived, Stream
  <2>2. Len(u) \in Nat /\ Len(w) \in Nat
    BY <2>1
  <2> QED BY <2>1, <2>2 DEF Moved
<1>2. \E Q, q : Stream(SubSeq(w, Len(u) + 1, Len(w)), m, Q, q)
  BY <1>1, StreamRest
<1> QED BY <1>1, <1>2

(* What a search makes of an exchange that collects. *)
Searches ==
  /\ ret' \in {"OK", "RECEIVE_FAILED"} /\ Genuine' /\ NoAnswerMissed' /\ Collecting' /\ Resting'

(* cl_getData2: the search waits, or ends the exchange with an answer. *)
LEMMA FoundOrNot ==
  ASSUME PlainAnswers, NEW w, NEW P, NEW p, ReceiverInv, Stream(w, exchange, P, p),
         stage = "reading", d.position <= p, d.ret = "OK",
         NEW u, Moved(w, u, line'), data' = u, UNCHANGED exchange, cl_getData2(u)
  PROVE  Searches
<1>1. PICK r : r = dlms_getHdlcData(settings, u, d)
  OBVIOUS
<1>2. /\ d' = r /\ ret' = r.ret
      /\ stage' = IF r.ret # "OK" \/ r.complete THEN "idle" ELSE "reading"
      /\ reply' = IF r.ret = "OK" /\ r.complete THEN dlms_getDataFromFrame(u, r) ELSE <<>>
  BY <1>1 DEF cl_getData2
<1>3. exchange \in 0..Len(Exchanges) /\ exchange # 0 /\ d \in HdlcData
  BY ExchangesSoFar DEF ReceiverInv, ReceiverType
<1>4. Arrived(w, u) /\ u \o line' = w
  BY DEF Moved
<1>5. Searched(u, exchange, p, r)
  BY <1>1, <1>3, <1>4, SearchStream
<1>6. CASE Waiting(u, p, r)
  <2>1. r.complete = FALSE /\ r.ret = "OK" /\ r.position <= p /\ Awaits(u, p)
    BY <1>6 DEF Waiting
  <2>2. stage' = "reading" /\ ret' = "OK"
    BY <1>2, <2>1
  <2>3. Collects(P, p)'
    BY <1>2, <1>4, <2>1 DEF Collects
  <2>4. Collecting' /\ Resting'
    BY <2>2, <2>3 DEF Collecting, Resting
  <2>5. Genuine' /\ NoAnswerMissed'
    BY <2>2 DEF Genuine, NoAnswerMissed
  <2> QED BY <2>2, <2>4, <2>5 DEF Searches
<1>7. CASE Taken(u, exchange, r)
  <2>1. PICK k \in 1..exchange : Delivered(settings, u, Info(k), r)
    BY <1>7 DEF Taken
  <2>2. /\ r.complete /\ r.ret = "OK"
        /\ SubSeq(u, r.position + 1, r.packetLength) =
             SubSeq(Info(k), dlms_checkLLCBytes(settings, Info(k), 0) + 1, Len(Info(k)))
    BY <2>1, Zenon DEF Delivered
  <2>3. stage' = "idle" /\ ret' = "OK" /\ reply' = dlms_getDataFromFrame(u, r)
    BY <1>2, <2>2
  <2>4. reply' = Information(k)
    BY <2>2, <2>3, Zenon DEF dlms_getDataFromFrame, Information, Info
  <2>5. Genuine'
    BY <2>4 DEF Genuine
  <2>6. NoAnswerMissed' /\ Collecting'
    BY <2>3 DEF NoAnswerMissed, Collecting
  <2>7. Resting'
    <3>1. \E Q, q : Stream(line', exchange, Q, q)
      BY <1>3, LeftOver
    <3> QED BY <3>1 DEF Resting
  <2> QED BY <2>3, <2>5, <2>6, <2>7 DEF Searches
<1> QED BY <1>5, <1>6, <1>7 DEF Searched

(* A read. *)
LEMMA ReadSearches ==
  ASSUME PlainAnswers, ReceiverInv, Read
  PROVE  Searches
<1>1. PICK n \in 1..Len(line) :
        LET bytes == data \o SubSeq(line, 1, n)
        IN /\ data' = bytes /\ line' = SubSeq(line, n + 1, Len(line))
           /\ IF EopFound(bytes) THEN cl_getData2(bytes)
              ELSE UNCHANGED <<d, stage, ret, reply, readTime>>
  BY DEF Read
<1>2. PICK u : u = data \o SubSeq(line, 1, n)
  OBVIOUS
<1>3. /\ data' = u /\ line' = SubSeq(line, n + 1, Len(line))
      /\ IF EopFound(u) THEN cl_getData2(u) ELSE UNCHANGED <<d, stage, ret, reply, readTime>>
      /\ UNCHANGED exchange /\ stage = "reading"
  BY <1>1, <1>2 DEF Read
<1>4. PICK P, p : Collects(P, p)
  BY <1>3 DEF ReceiverInv, Collecting
<1>5. PICK w : w = data \o line
  OBVIOUS
<1>6. Stream(w, exchange, P, p) /\ d.position <= p /\ d.ret = "OK"
  BY <1>4, <1>5 DEF Collects
<1>7. exchange \in 0..Len(Exchanges) /\ data \in Seq(Byte) /\ line \in Seq(Byte)
  BY ExchangesSoFar DEF ReceiverInv
<1>8. Moved(w, u, line')
  BY <1>2, <1>3, <1>5, <1>7, ReadMoves
<1>9. CASE EopFound(u)
  <2>1. cl_getData2(u)
    BY <1>3, <1>9
  <2> QED BY <1>3, <1>6, <1>8, <2>1, FoundOrNot
<1>10. CASE ~ EopFound(u)
  <2>1. UNCHANGED <<d, stage, ret, reply>>
    BY <1>3, <1>10
  <2>2. u \o line' = w /\ Arrived(w, u)
    BY <1>8 DEF Moved
  <2>3. Awaits(u, p)
    BY <1>6, <1>7, <1>10, <2>2, NothingFound
  <2>4. Collects(P, p)'
    BY <1>3, <1>6, <2>1, <2>2, <2>3 DEF Collects
  <2>5. stage' = "reading"
    BY <1>3, <2>1
  <2>6. Collecting' /\ Resting' /\ Genuine' /\ NoAnswerMissed'
    BY <2>4, <2>5 DEF Collecting, Resting, Genuine, NoAnswerMissed
  <2> QED BY <2>1, <2>6 DEF Searches, ReceiverInv
<1> QED BY <1>9, <1>10

(* GiveUp: a whole answer would have shown two flags far apart. *)
LEMMA NotReceived ==
  ASSUME PlainAnswers, ReceiverInv, stage = "reading"
  PROVE  ~ Received(Answer[exchange])
<1>1. PICK P, p : Collects(P, p)
  BY DEF ReceiverInv, Collecting
<1>2. Stream(data \o line, exchange, P, p) /\ Awaits(data, p)
  BY <1>1 DEF Collects
<1>3. exchange \in 0..Len(Exchanges) /\ exchange # 0 /\ data \in Seq(Byte) /\ line \in Seq(Byte)
  BY ExchangesSoFar DEF ReceiverInv, ReceiverType
<1>4. PICK w : w = data \o line
  OBVIOUS
<1>5. w \in Seq(Byte) /\ p \in Nat /\ \A i \in 0..(p - 2) : At(w, i) # Flag
  <2>1. w \in Seq(Byte) /\ p \in 0..Len(w) /\ \A i \in 0..(p - 2) : At(w, i) # Flag
    BY <1>2, <1>4 DEF Stream
  <2> QED BY <2>1
<1>6. \A i \in 0..(Len(data) - 1) : At(data, i) = At(w, i)
  <2>1. Arrived(w, data)
    BY <1>3, <1>4, CutOff DEF Before
  <2> QED BY <1>5, <2>1, ArrivedBytes
<1>7. \A i \in 0..(Len(data) - 1) : At(data, i) = Flag => i = p - 1 \/ i = p
  <2> TAKE i \in 0..(Len(data) - 1)
  <2> HAVE At(data, i) = Flag
  <2>1. i \notin 0..(p - 2)
    BY <1>5, <1>6
  <2>2. i \notin (p + 1)..(Len(data) - 1)
    BY <1>2 DEF Awaits
  <2> QED BY <1>5, <2>1, <2>2
<1>8. exchange \in 1..exchange
  BY <1>3, Constants
<1>9. PICK a : a = Answer[exchange] /\ Flagged(a)
  BY <1>3, <1>8, KnownAnswers
<1>10. SUFFICES ASSUME Received(a)  PROVE FALSE
  BY <1>9
<1>11. PICK n \in 0..(Len(data) - Len(a)) : SubSeq(data, n + 1, n + Len(a)) = a
  BY <1>10 DEF Received
<1>12. PICK l, b \in Nat : l = Len(data) /\ b = Len(a) /\ b >= 9 /\ n + b <= l /\ n \in Nat
  BY <1>3, <1>9, <1>11 DEF Flagged, Smallest
<1>13. \A i \in 1..b : data[n + i] = a[i]
  <2>0. n + 1 \in Nat /\ n + b \in Nat
    BY <1>12
  <2>1. PICK x \in Nat, y \in Nat : x = n + 1 /\ y = n + b
    BY <2>0
  <2>2. \A i \in x..y : data[i] \in Byte
    <3> TAKE i \in x..y
    <3>1. i \in 1..Len(data)
      BY <1>12, <2>1
    <3> QED BY <1>3, <3>1
  <2>3. Cut(data, x, y, a)
    <3>1. x \in Int /\ y \in Int
      OBVIOUS
    <3>2. Cut(data, x, y, SubSeq(data, x, y))
      BY <2>2, <3>1, CutBytes
    <3>3. SubSeq(data, x, y) = a
      BY <1>11, <1>12, <2>1
    <3> QED BY <3>2, <3>3
  <2>4. y - x + 1 = b
    BY <1>12, <2>1
  <2> TAKE i \in 1..b
  <2>5. a[i] = data[x + i - 1]
    BY <2>3, <2>4 DEF Cut
  <2>6. x + i - 1 = n + i
    BY <1>12, <2>1
  <2> QED BY <2>5, <2>6
<1>14. Stands(data, n, a)
  <2>1. n + Len(a) <= Len(data) /\ \A i \in 1..Len(a) : data[n + i] = a[i]
    BY <1>12, <1>13
  <2> QED BY <2>1 DEF Stands
<1>15. At(data, n) = Flag /\ At(data, n + b - 1) = Flag
  <2>1. n \in Nat /\ Flagged(a)
    BY <1>9, <1>12
  <2>2. At(data, n) = Flag /\ At(data, n + Len(a) - 1) = Flag
    BY <1>3, <1>14, <2>1, FlaggedStands
  <2>3. n + Len(a) - 1 = n + b - 1
    BY <1>12
  <2> QED BY <2>2, <2>3
<1>16. n \in 0..(Len(data) - 1) /\ n + b - 1 \in 0..(Len(data) - 1)
  BY <1>12
<1> QED BY <1>5, <1>7, <1>12, <1>15, <1>16

(* Every step keeps the invariant. *)
LEMMA ReceiverInvKept ==
  ASSUME PlainAnswers, WholeAnswers, ReceiverInv, [Next]_vars
  PROVE  ReceiverInv'
<1>1. ReceiverType'
  BY ReceiverTypeKept DEF ReceiverInv
<1>2. /\ Collecting /\ Resting /\ ret \in {"OK", "RECEIVE_FAILED"} /\ Genuine /\ NoAnswerMissed
      /\ stage \in {"idle", "reading"}
  BY DEF ReceiverInv, ReceiverType, TypeOK
<1>3. Searches
  <2>1. CASE Begin
    <3>1. stage' = "reading" /\ ret' = ret
      BY <2>1 DEF Begin
    <3>2. Collecting'
      BY <2>1, BeginCollects DEF Collecting
    <3>3. Resting' /\ Genuine' /\ NoAnswerMissed'
      BY <3>1 DEF Resting, Genuine, NoAnswerMissed
    <3> QED BY <1>2, <3>1, <3>2, <3>3 DEF Searches
  <2>2. CASE Read
    BY <2>2, ReadSearches
  <2>3. CASE Resend
    <3>1. stage' = "reading" /\ ret' = ret
      BY <2>3 DEF Resend
    <3>2. Collecting'
      BY <2>3, ResendCollects DEF Collecting
    <3>3. Resting' /\ Genuine' /\ NoAnswerMissed'
      BY <3>1 DEF Resting, Genuine, NoAnswerMissed
    <3> QED BY <1>2, <3>1, <3>2, <3>3 DEF Searches
  <2>4. CASE GiveUp
    <3>1. /\ stage = "reading" /\ stage' = "idle" /\ ret' = "RECEIVE_FAILED"
          /\ UNCHANGED <<line, data, exchange>>
      BY <2>4 DEF GiveUp
    <3>2. ~ Received(Answer[exchange])
      BY <3>1, NotReceived
    <3>3. NoAnswerMissed'
      BY <3>1, <3>2 DEF NoAnswerMissed, Received
    <3>4. Resting'
      <4>1. PICK P, p : Collects(P, p)
        BY <1>2, <3>1 DEF Collecting
      <4>2. PICK w : w = data \o line /\ Stream(w, exchange, P, p)
        BY <4>1 DEF Collects
      <4>3. exchange \in 0..Len(Exchanges) /\ data \in Seq(Byte) /\ line \in Seq(Byte)
        BY ExchangesSoFar DEF ReceiverInv
      <4>4. Moved(w, data, line)
        BY <4>2, <4>3, CutOff DEF Moved, Before
      <4>5. \E Q, q : Stream(line, exchange, Q, q)
        BY <4>2, <4>3, <4>4, LeftOver
      <4> QED BY <3>1, <4>5 DEF Resting
    <3>5. Collecting' /\ Genuine'
      BY <3>1 DEF Collecting, Genuine
    <3> QED BY <3>1, <3>3, <3>4, <3>5 DEF Searches
  <2>5. CASE NoData \/ HangUp \/ ReadNothing \/ UNCHANGED vars
    <3>1. UNCHANGED <<line, data, d, stage, ret, reply, exchange>>
      BY <2>5 DEF NoData, HangUp, ReadNothing, vars
    <3>2. Collecting'
      <4>1. ASSUME NEW P, NEW p, Collects(P, p)  PROVE Collects(P, p)'
        BY <3>1, <4>1 DEF Collects
      <4> QED BY <1>2, <3>1, <4>1 DEF Collecting
    <3>3. Resting'
      BY <1>2, <3>1 DEF Resting
    <3>4. Genuine' /\ NoAnswerMissed'
      BY <1>2, <3>1 DEF Genuine, NoAnswerMissed, Received
    <3> QED BY <1>2, <3>1, <3>2, <3>3, <3>4 DEF Searches
  <2> QED BY <2>1, <2>2, <2>3, <2>4, <2>5 DEF Next
<1> QED BY <1>1, <1>3 DEF Searches, ReceiverInv

(* The invariant holds in every reachable state. *)
LEMMA ReceiverInvAlways ==
  ASSUME PlainAnswers, WholeAnswers
  PROVE  Spec => []ReceiverInv
<1>1. Init => ReceiverInv
  BY ReceiverInvBegins
<1>2. ReceiverInv /\ [Next]_vars => ReceiverInv'
  BY ReceiverInvKept
<1> QED BY <1>1, <1>2, PTL DEF Spec

(* Genuine: what readDLMSPacket hands over is the information of an answer *)
(* that the meter gave to this request or an earlier one, however the reads *)
(* cut the bytes up and however late the answers come.                     *)
THEOREM AnswersAlwaysGenuine ==
  ASSUME PlainAnswers, WholeAnswers
  PROVE  Spec => []Genuine
<1>1. Spec => []ReceiverInv
  BY ReceiverInvAlways
<1>2. ReceiverInv => Genuine
  BY DEF ReceiverInv
<1> QED BY <1>1, <1>2, PTL

(* NoAnswerMissed: when readDLMSPacket gives up after the second silence,  *)
(* the answer is not among the bytes of its two attempts.                  *)
THEOREM AnswersNeverMissed ==
  ASSUME PlainAnswers, WholeAnswers
  PROVE  Spec => []NoAnswerMissed
<1>1. Spec => []ReceiverInv
  BY ReceiverInvAlways
<1>2. ReceiverInv => NoAnswerMissed
  BY DEF ReceiverInv
<1> QED BY <1>1, <1>2, PTL

(* ErrorsNeedDamage: on a line that only loses or delays answers an exchange *)
(* ends well or in RECEIVE_FAILED; no CRC error, no rejection, no memory   *)
(* error.                                                                  *)
THEOREM WellOrInSilence ==
  ASSUME PlainAnswers, WholeAnswers
  PROVE  Spec => []ErrorsNeedDamage
<1>1. Spec => []ReceiverInv
  BY ReceiverInvAlways
<1>2. ReceiverInv => ErrorsNeedDamage
  BY DEF ReceiverInv, ErrorsNeedDamage
<1> QED BY <1>1, <1>2, PTL

(* What is collected without a closing flag is less than two answers.      *)
LEMMA CollectedFits ==
  ASSUME PlainAnswers, RoomEnough, ReceiverInv, stage = "reading"
  PROVE  Len(data) + RECEIVE_BUFFER_SIZE <= Capacity
<1>1. PICK P, p : Collects(P, p)
  BY DEF ReceiverInv, Collecting
<1>2. Stream(data \o line, exchange, P, p) /\ Awaits(data, p)
  BY <1>1 DEF Collects
<1>3. exchange \in 0..Len(Exchanges) /\ exchange # 0 /\ data \in Seq(Byte) /\ line \in Seq(Byte)
  BY ExchangesSoFar DEF ReceiverInv, ReceiverType
<1>4. PICK w : w = data \o line
  OBVIOUS
<1>5. PICK m : m = exchange
  OBVIOUS
<1>6. /\ m \in 0..Len(Exchanges) /\ m \in Nat /\ m # 0 /\ Stream(w, m, P, p)
      /\ w \in Seq(Byte) /\ Len(w) \in Nat /\ p \in Nat /\ p <= Len(w)
  <2>1. m \in 0..Len(Exchanges) /\ m # 0 /\ Len(Exchanges) \in Nat
    BY <1>3, <1>5, Constants
  <2>2. Stream(w, m, P, p)
    BY <1>2, <1>4, <1>5
  <2>3. w \in Seq(Byte) /\ p \in 0..Len(w)
    BY <2>2 DEF Stream
  <2> QED BY <2>1, <2>2, <2>3
<1>7. Arrived(w, data)
  BY <1>3, <1>4, CutOff DEF Before
<1>8. PICK n \in Nat : n = Len(data) /\ n <= Len(w)
  <2>1. Len(data) \in Nat /\ Len(data) <= Len(w)
    BY <1>3, <1>7 DEF Arrived
  <2> QED BY <2>1
<1>9. \A k \in 1..m : k \in DOMAIN Exchanges /\ Flagged(Answer[k])
  BY <1>6, KnownAnswers
<1>10. \A k \in 1..m : Len(Answer[k]) \in Nat /\ Len(Answer[k]) >= 9
  BY <1>9 DEF Flagged, Smallest
<1>11. PICK j \in 1..m : p <= Len(Answer[j]) - 1
  <2>1. CASE p = 0
    <3>1. 1 \in 1..m /\ p <= Len(Answer[1]) - 1
      BY <1>6, <1>10, <2>1
    <3> QED BY <3>1
  <2>2. CASE p # 0
    <3>1. PICK k \in 1..m : p < Len(Answer[k])
      BY <1>6, <2>2 DEF Stream, PartOfOne
    <3> QED BY <1>6, <1>10, <3>1
  <2> QED BY <2>1, <2>2
<1>12. PICK k \in 1..m : n <= p + Len(Answer[k]) - 1
  <2>1. CASE p = Len(w)
    BY <1>6, <1>8, <1>10, <1>11, <2>1
  <2>2. CASE p # Len(w)
    <3>1. PICK k \in 1..m : Flagged(Answer[k]) /\ Stands(w, p, Answer[k])
      BY <1>6, <2>2, StreamNext
    <3>2. PICK a : a = Answer[k] /\ Len(a) \in Nat /\ Len(a) >= 9
      BY <1>10
    <3>3. At(w, p + Len(a) - 1) = Flag
      BY <1>6, <3>1, <3>2, FlaggedStands
    <3>4. n <= p + Len(a) - 1
      <4> SUFFICES ASSUME ~ (n <= p + Len(a) - 1)  PROVE FALSE
        OBVIOUS
      <4>1. PICK i : i = p + Len(a) - 1
        OBVIOUS
      <4>2. i \in 0..(Len(data) - 1) /\ i \in (p + 1)..(Len(data) - 1)
        <5>1. PICK l \in Nat : l = Len(a) /\ l >= 9
          BY <3>2
        <5>2. i \in 0..(n - 1) /\ i \in (p + 1)..(n - 1)
          <6>1. p \in Nat /\ i = p + l - 1 /\ ~ (n <= p + l - 1)
            BY <1>6, <4>1, <5>1
          <6> QED BY <5>1, <6>1
        <5> QED BY <1>8, <5>2
      <4>3. At(data, i) = At(w, i)
        BY <1>6, <1>7, <4>2, ArrivedBytes
      <4>4. At(data, i) # Flag
        BY <1>2, <4>2 DEF Awaits
      <4> QED BY <3>3, <4>1, <4>3, <4>4
    <3> QED BY <3>2, <3>4
  <2> QED BY <2>1, <2>2
<1>13. PICK x, y \in Nat : x = Len(Answer[j]) /\ y = Len(Answer[k])
  BY <1>10
<1>14. x + y + RECEIVE_BUFFER_SIZE <= Capacity + 2
  BY <1>9, <1>13 DEF RoomEnough
<1>15. RECEIVE_BUFFER_SIZE \in Nat /\ Capacity \in Nat
  BY ReceiverAssumption
<1>16. p \in Nat /\ p <= x - 1 /\ n <= p + y - 1
  BY <1>6, <1>11, <1>12, <1>13
<1>17. n + RECEIVE_BUFFER_SIZE <= Capacity
  BY <1>14, <1>15, <1>16
<1> QED BY <1>8, <1>17

(* FitsBuffer: if connection.data holds one read more than two answers     *)
(* without their closing flags, com_readSerialPort, which never looks at   *)
(* the room that is left, does not need more, resend and late answers      *)
(* included.                                                               *)
THEOREM BufferAlwaysFits ==
  ASSUME PlainAnswers, WholeAnswers, RoomEnough
  PROVE  Spec => []FitsBuffer
<1>1. Init => FitsBuffer
  <2> SUFFICES ASSUME Init  PROVE Len(data) <= Capacity
    BY DEF FitsBuffer
  <2>1. data = <<>> /\ Len(<<>>) = 0 /\ Capacity \in Nat
    BY ReceiverAssumption DEF Init
  <2> QED BY <2>1
<1>2. ASSUME ReceiverInv, FitsBuffer, [Next]_vars  PROVE FitsBuffer'
  <2>0. Capacity \in Nat /\ RECEIVE_BUFFER_SIZE \in Nat
    BY ReceiverAssumption
  <2>1. CASE data' = <<>>
    <3>1. Len(data') = 0
      BY <2>1
    <3> QED BY <2>0, <3>1 DEF FitsBuffer
  <2>2. CASE data' = data
    BY <1>2, <2>2 DEF FitsBuffer
  <2>3. CASE Read
    <3>1. PICK n \in 1..Len(line) :
            n <= RECEIVE_BUFFER_SIZE /\ data' = data \o SubSeq(line, 1, n)
      BY <2>3 DEF Read
    <3>2. Len(data) + RECEIVE_BUFFER_SIZE <= Capacity
      BY <1>2, <2>3, CollectedFits DEF Read
    <3>3. data \in Seq(Byte) /\ line \in Seq(Byte) /\ Len(data) \in Nat /\ Len(line) \in Nat
      <4>1. data \in Seq(Byte) /\ line \in Seq(Byte)
        BY <1>2, ExchangesSoFar DEF ReceiverInv
      <4> QED BY <4>1
    <3>4. Len(SubSeq(line, 1, n)) = n
      BY <3>3
    <3>5. SubSeq(line, 1, n) \in Seq(Byte)
      BY <3>3, ReadSplits DEF Splits
    <3>6. Len(data') = Len(data) + n
      <4>1. PICK v \in Seq(Byte) : v = SubSeq(line, 1, n)
        BY <3>5
      <4> QED BY <3>1, <3>3, <3>4, <4>1
    <3>7. Len(data') <= Capacity
      BY <2>0, <3>1, <3>2, <3>3, <3>6
    <3> QED BY <3>7 DEF FitsBuffer
  <2>4. data' = <<>> \/ data' = data \/ Read
    BY <1>2 DEF Next, Begin, NoData, Resend, GiveUp, HangUp, ReadNothing, vars
  <2> QED BY <2>1, <2>2, <2>3, <2>4
<1>3. Spec => []ReceiverInv
  BY ReceiverInvAlways
<1> QED BY <1>1, <1>2, <1>3, PTL DEF Spec
================================================================================
