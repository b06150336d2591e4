---------------------------- MODULE EncodingProofs -----------------------------
(*****************************************************************************)
(* What is written is read back: addresses, frames, counts and texts, for    *)
(* every number, length and byte; and what of a long count is lost.          *)
(*                                                                           *)
(* dlms_getHdlcData looks for a frame from one position on, and again from   *)
(* behind what it found.  Every further look begins further behind, so the   *)
(* search ends, and is what its first look makes of it (DataRead).  What it  *)
(* leaves behind lies within the bytes, whatever the bytes are (Left, Near). *)
(* A look that begins before a frame of dlms_getHdlcFrame finds all parts    *)
(* where the format says (Stands, Placed) and takes it (FrameFound): a frame *)
(* that is all there is (FrameTaken), and one that stands among other bytes  *)
(* (AnswerDelivered).  The check sums need no arithmetic for that: both      *)
(* sides sum the same bytes.                                                 *)
(*****************************************************************************)
EXTENDS Hdlc, Values, WellFoundedInduction, SequenceTheorems, TLAPS

(* An address ends at its only odd byte, n bytes after p.                  *)
LEMMA EndOfAddress ==
  ASSUME NEW s \in Seq(Byte), NEW p \in Nat, NEW n \in Nat \ {0},
         p + n <= Len(s),
         s[p + n] % 2 = 1,
         \A i \in 1..(n - 1) : s[p + i] % 2 = 0
  PROVE  AddressEnd(s, p) = p + n - 1
<1>1. p + n - 1 \in AddressEnds(s, p)
  BY DEF AddressEnds, At
<1>2. \A i \in AddressEnds(s, p) : p + n - 1 <= i
  <2> SUFFICES ASSUME NEW i \in AddressEnds(s, p), i < p + n - 1 PROVE FALSE
    BY DEF AddressEnds
  <2>1. i \in p..(Len(s) - 1) /\ s[i + 1] % 2 = 1
    BY DEF AddressEnds, At
  <2>2. i + 1 - p \in 1..(n - 1) /\ p + (i + 1 - p) = i + 1
    BY <2>1
  <2>3. s[i + 1] % 2 = 0
    BY <2>2
  <2> QED
    BY <2>1, <2>3
<1>3. AddressEnds(s, p) \subseteq Int
  BY DEF AddressEnds
<1>4. AddressEnd(s, p) \in AddressEnds(s, p)
       /\ \A j \in AddressEnds(s, p) : AddressEnd(s, p) <= j
  BY <1>1, <1>2, <1>3 DEF AddressEnd
<1> QED
  BY <1>1, <1>2, <1>3, <1>4

(* A number is what is left of it and its last group, joined.              *)
LEMMA UpperNat == ASSUME NEW v \in Nat PROVE Upper(v) \in Nat
  BY DEF Upper

LEMMA UpperJoined == ASSUME NEW v \in Nat PROVE Joined(Upper(v), v % 128) = v
  BY DEF Upper, Joined

(* A byte made of a group is even in the middle of an address and odd at   *)
(* its end, and half of it is the group.                                   *)
LEMMA ByteOfGroup ==
  ASSUME NEW v \in Nat
  PROVE  /\ Inner(v) % 2 = 0 /\ Inner(v) \div 2 = v % 128
         /\ Final(v) % 2 = 1 /\ Final(v) \div 2 = v % 128
<1>1. v % 128 \in 0..127
  OBVIOUS
<1>2. \A g \in 0..127 : /\ (2 * g) % 2 = 0 /\ (2 * g) \div 2 = g
                        /\ (2 * g + 1) % 2 = 1 /\ (2 * g + 1) \div 2 = g
  OBVIOUS
<1> QED
  BY <1>1, <1>2 DEF Inner, Final

(* The address read at position p is v; only a server that reads a         *)
(* client's address refuses one of several bytes.                          *)
ReadAs(s, p, v) ==
  /\ dlms_getHDLCAddress(s, p, FALSE) =
       [ret |-> "OK", value |-> v, position |-> p + Len(dlms_getAddressBytes(v))]
  /\ v < 128 => dlms_getHDLCAddress(s, p, TRUE) = dlms_getHDLCAddress(s, p, FALSE)
  /\ ~ (v < 128) =>
       dlms_getHDLCAddress(s, p, TRUE) = AddressFails(p, "INVALID_CLIENT_ADDRESS")

(* What dlms_getAddressBytes writes for v, dlms_getHDLCAddress reads as v, *)
(* and it stops behind the last byte of the address.                       *)
THEOREM AddressRoundTrip ==
  ASSUME NEW v \in Numbers, NEW s \in Seq(Byte), NEW p \in Nat,
         p + Len(dlms_getAddressBytes(v)) <= Len(s),
         \A i \in 1..Len(dlms_getAddressBytes(v)) :
           s[p + i] = dlms_getAddressBytes(v)[i]
  PROVE  ReadAs(s, p, v)
<1> DEFINE u1 == Upper(v)
           u2 == Upper(u1)
           u3 == Upper(u2)
<1>0. /\ v \in Nat /\ u1 \in Nat /\ u2 \in Nat /\ u3 \in Nat /\ u3 < 128
  BY UpperNat DEF Numbers
<1>N. 1 \in Nat \ {0} /\ 2 \in Nat \ {0} /\ 4 \in Nat \ {0}
  OBVIOUS
<1> HIDE DEF u1, u2, u3
<1>U. u1 = Upper(v) /\ u2 = Upper(u1) /\ u3 = Upper(u2)
  BY DEF u1, u2, u3
<1>J. /\ Joined(u1, v % 128) = v /\ Joined(u2, u1 % 128) = u1
      /\ Joined(u3, u2 % 128) = u2
  BY <1>0, <1>U, UpperJoined, Zenon
<1>B. /\ Final(v) % 2 = 1 /\ Final(v) \div 2 = v % 128
      /\ \A u \in {u1, u2, u3} : Inner(u) % 2 = 0 /\ Inner(u) \div 2 = u % 128
  <2>1. \A u \in {u1, u2, u3} : u \in Nat
    BY <1>0, Zenon
  <2>2. Final(v) % 2 = 1 /\ Final(v) \div 2 = v % 128
    BY <1>0, ByteOfGroup, Zenon
  <2>3. ASSUME NEW u \in {u1, u2, u3}
        PROVE  Inner(u) % 2 = 0 /\ Inner(u) \div 2 = u % 128
    <3>1. u \in Nat
      BY <2>1, Zenon
    <3> QED
      BY <3>1, ByteOfGroup, Zenon
  <2> QED
    BY <2>2, <2>3, Zenon
<1>1. CASE v < 128
  <2>1. dlms_getAddressBytes(v) = <<Final(v)>>
    BY <1>0, <1>1 DEF dlms_getAddressBytes
  <2>2. s[p + 1] = Final(v) /\ p + 1 <= Len(s)
    BY <2>1
  <2>0. v % 128 = v
    BY <1>0, <1>1
  <2>3. s[p + 1] % 2 = 1 /\ s[p + 1] \div 2 = v
    BY <1>B, <2>0, <2>2, Zenon
  <2>E. \A i \in 1..(1 - 1) : s[p + i] % 2 = 0
    OBVIOUS
  <2>4. AddressEnd(s, p) = p + 1 - 1
    BY <1>N, <2>2, <2>3, <2>E, EndOfAddress, Zenon
  <2>5. AddressEnd(s, p) = p
    BY <2>4
  <2>6. AddressValue(s, p) = v
    BY <2>3, <2>5 DEF AddressValue, Bits, At
  <2>L. Len(dlms_getAddressBytes(v)) = 1
    BY <2>1
  <2>M. AddressEnd(s, p) \in {p, p + 1, p + 3} /\ AddressEnd(s, p) + 1 = p + 1
    BY <2>5
  <2> QED
    BY <1>1, <2>L, <2>M, <2>5, <2>6, Zenon DEF ReadAs, dlms_getHDLCAddress
<1>2. CASE v >= 128 /\ v < 16384
  <2>1. dlms_getAddressBytes(v) = <<Inner(u1), Final(v)>>
    BY <1>0, <1>2 DEF u1, dlms_getAddressBytes
  <2>2. s[p + 1] = Inner(u1) /\ s[p + 2] = Final(v) /\ p + 2 <= Len(s)
    BY <2>1
  <2>3. /\ s[p + 1] % 2 = 0 /\ s[p + 1] \div 2 = u1 % 128
        /\ s[p + 2] % 2 = 1 /\ s[p + 2] \div 2 = v % 128
    BY <1>B, <2>2, Zenon
  <2>0. u1 < 128
    BY <1>0, <1>2, <1>U DEF Upper
  <2>4. u1 % 128 = u1 /\ Joined(u1, v % 128) = v
    BY <1>0, <1>J, <2>0
  <2>5. \A i \in 1..(2 - 1) : s[p + i] % 2 = 0
    BY <2>3
  <2>6. AddressEnd(s, p) = p + 2 - 1
    BY <1>N, <2>2, <2>3, <2>5, EndOfAddress, Zenon
  <2>7. AddressEnd(s, p) = p + 1 /\ p + 1 # p
    BY <2>6
  <2>8. AddressValue(s, p) = v
    BY <2>3, <2>4, <2>7 DEF AddressValue, Bits, At
  <2>L. Len(dlms_getAddressBytes(v)) = 2
    BY <2>1
  <2>M. AddressEnd(s, p) \in {p, p + 1, p + 3} /\ AddressEnd(s, p) + 1 = p + 2
    BY <2>7
  <2>W. ~ (v < 128) /\ AddressEnd(s, p) # p
    BY <1>0, <1>2, <2>7
  <2> QED
    BY <2>L, <2>M, <2>W, <2>8, Zenon DEF ReadAs, dlms_getHDLCAddress
<1>3. CASE v >= 16384
  <2>1. dlms_getAddressBytes(v) = <<Inner(u3), Inner(u2), Inner(u1), Final(v)>>
    BY <1>0, <1>3 DEF u1, u2, u3, dlms_getAddressBytes
  <2>2. /\ s[p + 1] = Inner(u3) /\ s[p + 2] = Inner(u2)
        /\ s[p + 3] = Inner(u1) /\ s[p + 4] = Final(v)
        /\ p + 4 <= Len(s)
    BY <2>1
  <2>3. /\ s[p + 1] % 2 = 0 /\ s[p + 1] \div 2 = u3 % 128
        /\ s[p + 2] % 2 = 0 /\ s[p + 2] \div 2 = u2 % 128
        /\ s[p + 3] % 2 = 0 /\ s[p + 3] \div 2 = u1 % 128
        /\ s[p + 4] % 2 = 1 /\ s[p + 4] \div 2 = v % 128
    BY <1>B, <2>2, Zenon
  <2>0. u3 % 128 = u3
    BY <1>0
  <2>4. /\ u3 % 128 = u3 /\ Joined(u3, u2 % 128) = u2
        /\ Joined(u2, u1 % 128) = u1 /\ Joined(u1, v % 128) = v
    BY <1>J, <2>0
  <2>5. \A i \in 1..(4 - 1) : s[p + i] % 2 = 0
    BY <2>3
  <2>6. AddressEnd(s, p) = p + 4 - 1
    BY <1>N, <2>2, <2>3, <2>5, EndOfAddress, Zenon
  <2>7. AddressEnd(s, p) = p + 3 /\ p + 3 # p /\ p + 3 # p + 1
    BY <2>6
  <2>8. /\ Bits(s, p) = u3 /\ Bits(s, p + 1) = u2 % 128
        /\ Bits(s, p + 2) = u1 % 128 /\ Bits(s, p + 3) = v % 128
    BY <2>3, <2>4 DEF Bits, At
  <2>9. AddressValue(s, p) = Joined(Joined(Joined(u3, u2 % 128), u1 % 128), v % 128)
    BY <2>7, <2>8 DEF AddressValue
  <2>10. AddressValue(s, p) = v
    BY <2>4, <2>9
  <2>L. Len(dlms_getAddressBytes(v)) = 4
    BY <2>1
  <2>M. AddressEnd(s, p) \in {p, p + 1, p + 3} /\ AddressEnd(s, p) + 1 = p + 4
    BY <2>7
  <2>W. ~ (v < 128) /\ AddressEnd(s, p) # p
    BY <1>0, <1>3, <2>7
  <2> QED
    BY <2>L, <2>M, <2>W, <2>10, Zenon DEF ReadAs, dlms_getHDLCAddress
<1> QED
  BY <1>0, <1>1, <1>2, <1>3

-----------------------------------------------------------------------------

(* What follows a sequence is what was appended to it.                     *)
LEMMA AfterConcat ==
  ASSUME NEW S, NEW c \in Seq(S), NEW t \in Seq(S)
  PROVE  /\ After(c \o t, Len(c)) = t
         /\ Len(c \o t) = Len(c) + Len(t)
         /\ \A i \in 1..Len(c) : (c \o t)[i] = c[i]
  BY DEF After

LEMMA ConcatRest ==
  ASSUME NEW S, NEW c \in Seq(S), NEW t \in Seq(S), NEW i \in 1..Len(t)
  PROVE  (c \o t)[Len(c) + i] = t[i]
  OBVIOUS

(* The bytes that stand between two sequences.                             *)
LEMMA Between ==
  ASSUME NEW S, NEW c \in Seq(S), NEW b \in Seq(S), NEW t \in Seq(S)
  PROVE  /\ SubSeq(c \o b \o t, Len(c) + 1, Len(c) + Len(b)) = b
         /\ Len(c \o b \o t) = Len(c) + Len(b) + Len(t)
         /\ c \o b \o t \in Seq(S) /\ c \o (b \o t) = c \o b \o t
  OBVIOUS

LEMMA Modulus == UInt16Mod \in Nat \ {0} /\ 256 * 256 = UInt16Mod
  BY DEF UInt16Mod

(* A 16-bit number is made of its two bytes.                               *)
LEMMA HighLow ==
  ASSUME NEW n \in Nat, n < UInt16Mod
  PROVE  High(n) \in Octets /\ Low(n) \in Octets /\ 256 * High(n) + Low(n) = n
<1>1. n < 256 * 256
  BY Modulus
<1>2. High(n) \in Nat /\ High(n) < 256 /\ Low(n) \in 0..255
  BY <1>1 DEF High, Low
<1> QED
  BY <1>2 DEF Octets, High, Low

(* A count below 65536 as it is written, form by form.                     *)
LEMMA CountWritten ==
  ASSUME NEW n \in Nat, n < UInt16Mod
  PROVE  \/ n < 128 /\ hlp_setObjectCount(n) = <<n>>
         \/ n < 256 /\ hlp_setObjectCount(n) = <<129, n>>
         \/ hlp_setObjectCount(n) = <<130, High(n), Low(n)>>
<1>1. CASE n < 128
  BY <1>1 DEF hlp_setObjectCount
<1>2. CASE n >= 128 /\ n < 256
  BY <1>2 DEF hlp_setObjectCount
<1>3. CASE n >= 256
  BY <1>3 DEF hlp_setObjectCount
<1> QED
  BY <1>1, <1>2, <1>3

LEMMA CountOctets ==
  ASSUME NEW n \in Nat, n < UInt16Mod
  PROVE  hlp_setObjectCount(n) \in Seq(Octets) /\ Len(hlp_setObjectCount(n)) \in 1..3
<1>1. CASE n < 128 /\ hlp_setObjectCount(n) = <<n>>
  BY <1>1 DEF Octets
<1>2. CASE n < 256 /\ hlp_setObjectCount(n) = <<129, n>>
  BY <1>2 DEF Octets
<1>3. CASE hlp_setObjectCount(n) = <<130, High(n), Low(n)>>
  <2>1. High(n) \in Octets /\ Low(n) \in Octets /\ 130 \in Octets
    BY HighLow DEF Octets
  <2> QED
    BY <1>3, <2>1
<1> QED
  BY <1>1, <1>2, <1>3, CountWritten

(* How each form of a count is read.                                       *)
LEMMA FormsRead ==
  ASSUME NEW s \in Seq(Octets), s # <<>>
  PROVE  /\ s[1] <= 128 => CountLength(s) = 1 /\ hlp_getObjectCount2(s) = s[1]
         /\ s[1] = 129 /\ Len(s) >= 2 =>
              CountLength(s) = 2 /\ hlp_getObjectCount2(s) = s[2]
         /\ s[1] = 130 /\ Len(s) >= 3 =>
              CountLength(s) = 3 /\ hlp_getObjectCount2(s) = 256 * s[2] + s[3]
         /\ s[1] = 132 /\ Len(s) >= 5 =>
              CountLength(s) = 5 /\ hlp_getObjectCount2(s) = 256 * s[4] + s[5]
<1>1. s[1] <= 128 => CountLength(s) = 1
  BY DEF CountLength
<1>2. s[1] = 129 /\ Len(s) >= 2 => CountLength(s) = 2
  BY DEF CountLength
<1>3. s[1] = 130 /\ Len(s) >= 3 => CountLength(s) = 3
  BY DEF CountLength
<1>4. s[1] = 132 /\ Len(s) >= 5 => CountLength(s) = 5
  BY DEF CountLength
<1> QED
  BY <1>1, <1>2, <1>3, <1>4 DEF hlp_getObjectCount2

(* A count below 65536 that hlp_setObjectCount writes is the count that    *)
(* hlp_getObjectCount2 reads, whatever follows, and what follows is left.  *)
THEOREM CountReadBack ==
  ASSUME NEW n \in Nat, n < UInt16Mod, NEW t \in Seq(Octets)
  PROVE  /\ hlp_getObjectCount2(hlp_setObjectCount(n) \o t) = n
         /\ CountLength(hlp_setObjectCount(n) \o t) = Len(hlp_setObjectCount(n))
         /\ After(hlp_setObjectCount(n) \o t, Len(hlp_setObjectCount(n))) = t
<1>1. PICK c : c = hlp_setObjectCount(n)
  BY Zenon
<1>2. c \in Seq(Octets) /\ Len(c) \in 1..3
  BY <1>1, CountOctets
<1>3. PICK s : s = c \o t
  BY Zenon
<1> SUFFICES hlp_getObjectCount2(s) = n /\ CountLength(s) = Len(c) /\ After(s, Len(c)) = t
  BY <1>1, <1>3, Zenon
<1>4. /\ s \in Seq(Octets) /\ s # <<>> /\ Len(s) >= Len(c)
      /\ After(s, Len(c)) = t
      /\ \A i \in 1..Len(c) : s[i] = c[i]
  <2>1. /\ After(s, Len(c)) = t /\ Len(s) = Len(c) + Len(t)
        /\ \A i \in 1..Len(c) : s[i] = c[i]
    BY <1>2, <1>3, AfterConcat, Zenon
  <2>2. s \in Seq(Octets)
    BY <1>2, <1>3
  <2>3. Len(t) \in Nat
    OBVIOUS
  <2> QED
    BY <1>2, <2>1, <2>2, <2>3
<1>5. CASE n < 128 /\ c = <<n>>
  <2>1. s[1] = n /\ Len(c) = 1
    BY <1>4, <1>5
  <2> QED
    BY <1>4, <1>5, <2>1, FormsRead
<1>6. CASE c = <<129, n>>
  <2>1. s[1] = 129 /\ s[2] = n /\ Len(c) = 2
    BY <1>4, <1>6
  <2> QED
    BY <1>4, <2>1, FormsRead
<1>7. CASE c = <<130, High(n), Low(n)>>
  <2>1. s[1] = 130 /\ s[2] = High(n) /\ s[3] = Low(n) /\ Len(c) = 3
    BY <1>4, <1>7
  <2>2. 256 * s[2] + s[3] = n
    BY <2>1, HighLow
  <2> QED
    BY <1>4, <2>1, <2>2, FormsRead
<1> QED
  BY <1>1, <1>5, <1>6, <1>7, CountWritten

(* The bytes of a 32-bit number are bytes, and its low two its low 16 bits. *)
LEMMA FourOctets ==
  ASSUME NEW n \in Nat, n < UInt16Mod * UInt16Mod
  PROVE  /\ Four(n) \in Seq(Octets) /\ Len(Four(n)) = 4
         /\ \A i \in 1..4 : Four(n)[i] \in Octets
         /\ 256 * Four(n)[1] + Four(n)[2] = n \div UInt16Mod
         /\ 256 * Four(n)[3] + Four(n)[4] = n % UInt16Mod
<1>1. PICK h : h = n \div UInt16Mod
  BY Zenon
<1>2. PICK l : l = n % UInt16Mod
  BY Zenon
<1>3. h \in Nat /\ h < UInt16Mod /\ l \in Nat /\ l < UInt16Mod
  BY <1>1, <1>2 DEF UInt16Mod
<1>4. Four(n) = <<High(h), Low(h), High(l), Low(l)>>
  BY <1>1, <1>2, Zenon DEF Four
<1>5. /\ High(h) \in Octets /\ Low(h) \in Octets /\ 256 * High(h) + Low(h) = h
      /\ High(l) \in Octets /\ Low(l) \in Octets /\ 256 * High(l) + Low(l) = l
  BY <1>3, HighLow
<1> QED
  BY <1>1, <1>2, <1>4, <1>5

(* Of a count that needs more than 16 bits only the low 16 are read.       *)
THEOREM LongCountCut ==
  ASSUME NEW n \in Nat, n >= UInt16Mod, n < UInt16Mod * UInt16Mod,
         NEW t \in Seq(Octets)
  PROVE  /\ hlp_getObjectCount2(hlp_setObjectCount(n) \o t) = n % UInt16Mod
         /\ hlp_getObjectCount2(hlp_setObjectCount(n) \o t) # n
<1>1. PICK f : f = Four(n)
  BY Zenon
<1>2. /\ f \in Seq(Octets) /\ Len(f) = 4 /\ f[3] \in Octets /\ f[4] \in Octets
      /\ 256 * f[3] + f[4] = n % UInt16Mod
  BY <1>1, FourOctets
<1>3. PICK h : h = <<132>>
  BY Zenon
<1>4. h \in Seq(Octets) /\ Len(h) = 1 /\ h[1] = 132
  BY <1>3 DEF Octets
<1>T. h \in Seq(Octets) /\ f \in Seq(Octets)
  BY <1>2, <1>4
<1>5. PICK c : c = h \o f
  BY Zenon
<1>6. c \in Seq(Octets) /\ Len(c) = 5 /\ c[1] = 132 /\ c[4] = f[3] /\ c[5] = f[4]
  <2>1. Len(c) = Len(h) + Len(f) /\ \A i \in 1..Len(h) : c[i] = h[i]
    BY <1>T, <1>5, AfterConcat, Zenon
  <2>2. \A i \in 1..Len(f) : c[Len(h) + i] = f[i]
    BY <1>T, <1>5, ConcatRest, Zenon
  <2>3. c \in Seq(Octets)
    BY <1>2, <1>4, <1>5
  <2>4. 1 \in 1..Len(h) /\ 3 \in 1..Len(f) /\ 4 \in 1..Len(f)
    BY <1>2, <1>4
  <2>5. c[1] = h[1] /\ c[Len(h) + 3] = f[3] /\ c[Len(h) + 4] = f[4]
    BY <2>1, <2>2, <2>4, Zenon
  <2> QED
    BY <1>2, <1>4, <2>1, <2>3, <2>5
<1>S. PICK s : s = c \o t
  BY Zenon
<1>C. c \in Seq(Octets)
  BY <1>6
<1>7. s \in Seq(Octets) /\ Len(s) >= 5 /\ s[1] = 132 /\ s[4] = f[3] /\ s[5] = f[4]
  <2>1. Len(s) = Len(c) + Len(t) /\ \A i \in 1..Len(c) : s[i] = c[i]
    BY <1>C, <1>S, AfterConcat, Zenon
  <2>2. s \in Seq(Octets) /\ Len(t) \in Nat
    BY <1>6, <1>S
  <2> QED
    BY <1>6, <2>1, <2>2
<1>8. hlp_getObjectCount2(s) = 256 * s[4] + s[5]
  BY <1>7, FormsRead
<1>9. hlp_getObjectCount2(s) = n % UInt16Mod
  BY <1>2, <1>7, <1>8
<1>10. hlp_setObjectCount(n) = h \o f
  <2>1. ~ n < 128 /\ ~ n < 256 /\ ~ n < UInt16Mod
    BY Modulus
  <2> QED
    BY <1>1, <1>3, <2>1, Zenon DEF hlp_setObjectCount
<1>11. n % UInt16Mod # n
  BY Modulus
<1> QED
  BY <1>5, <1>S, <1>9, <1>10, <1>11, Zenon

-----------------------------------------------------------------------------
(* An answer is a type and what follows it.                                *)
LEMMA TypeAndRest ==
  ASSUME NEW vt \in Octets, NEW u \in Seq(Octets)
  PROVE  (<<vt>> \o u)[1] = vt /\ After(<<vt>> \o u, 1) = u
<1>1. PICK h : h = <<vt>>
  BY Zenon
<1>2. h \in Seq(Octets) /\ Len(h) = 1 /\ h[1] = vt /\ 1 \in 1..1
  BY <1>1
<1>3. h \in Seq(Octets)
  BY <1>2
<1>4. After(h \o u, Len(h)) = u /\ \A i \in 1..Len(h) : (h \o u)[i] = h[i]
  BY <1>3, AfterConcat, Zenon
<1> QED
  BY <1>1, <1>2, <1>4, Zenon

LEMMA NotBelow ==
  ASSUME NEW x \in Nat, NEW y \in Nat, NEW z \in Nat
  PROVE  ~ x + y + z < x + y
  OBVIOUS

(* An octet string of the meter is taken out of the answer byte by byte,   *)
(* wherever the answer ends (getOctetString).                              *)
THEOREM OctetStringRead ==
  ASSUME NEW b \in Seq(Octets), Len(b) < UInt16Mod, NEW t \in Seq(Octets)
  PROVE  dlms_getData(<<OCTET_STRING>> \o ((hlp_setObjectCount(Len(b)) \o b) \o t))
           = Gives("OK", Variant(OCTET_STRING, b, 0))
<1>1. PICK c : c = hlp_setObjectCount(Len(b))
  BY Zenon
<1>2. c \in Seq(Octets) /\ Len(c) \in 1..3 /\ Len(b) \in Nat /\ Len(t) \in Nat
  BY <1>1, CountOctets
<1>C. c \in Seq(Octets)
  BY <1>2
<1>3. PICK u : u = (c \o b) \o t
  BY Zenon
<1>4. /\ SubSeq(u, Len(c) + 1, Len(c) + Len(b)) = b
      /\ Len(u) = Len(c) + Len(b) + Len(t)
      /\ u \in Seq(Octets) /\ u = c \o (b \o t)
  <2>1. /\ SubSeq((c \o b) \o t, Len(c) + 1, Len(c) + Len(b)) = b
        /\ Len((c \o b) \o t) = Len(c) + Len(b) + Len(t)
        /\ (c \o b) \o t \in Seq(Octets) /\ c \o (b \o t) = (c \o b) \o t
    BY <1>C, Between
  <2> QED
    BY <1>3, <2>1, Zenon
<1>5. b \o t \in Seq(Octets)
  OBVIOUS
<1>6. hlp_getObjectCount2(u) = Len(b) /\ CountLength(u) = Len(c)
  BY <1>1, <1>2, <1>4, <1>5, CountReadBack, Zenon
<1>7. Len(c) # 0 /\ ~ Len(u) < Len(c) + Len(b)
  <2>1. Len(u) = Len(c) + Len(b) + Len(t)
    BY <1>4, Zenon
  <2>2. Len(c) \in Nat /\ Len(c) # 0
    BY <1>2, \A x \in 1..3 : x \in Nat /\ x # 0, Zenon
  <2> QED
    BY <1>2, <2>1, <2>2, NotBelow, Zenon
<1>8. getOctetString(u, OCTET_STRING) = Gives("OK", Variant(OCTET_STRING, b, 0))
  BY <1>4, <1>6, <1>7, Zenon DEF getOctetString
<1>9. OCTET_STRING \in Octets /\ OCTET_STRING % BYREF = OCTET_STRING
  BY DEF OCTET_STRING, Octets, BYREF
<1>10. PICK s : s = <<OCTET_STRING>> \o u
  BY Zenon
<1>11. s[1] = OCTET_STRING /\ After(s, 1) = u
  BY <1>4, <1>9, <1>10, TypeAndRest, Zenon
<1>12. dlms_getData(s) = getOctetString(u, OCTET_STRING)
  BY <1>9, <1>11, Zenon DEF dlms_getData
<1> QED
  BY <1>1, <1>3, <1>8, <1>10, <1>12, Zenon

(* The two digits of a byte are read as the byte.                          *)
LEMMA HexRead ==
  ASSUME NEW v \in Octets
  PROVE  LowByte(<<v \div 16, v % 16>>) = v
  BY DEF LowByte, Octets

LEMMA HexOutput ==
  ASSUME NEW b \in Seq(Octets), Len(b) < OutputSize
  PROVE  Output(hlp_bytesToHex(b)) = b
<1>1. PICK x : x = hlp_bytesToHex(b)
  BY Zenon
<1>2. Len(x) = Len(b) /\ \A i \in 1..Len(b) : x[i] = <<b[i] \div 16, b[i] % 16>>
  BY <1>1 DEF hlp_bytesToHex
<1>3. Lower(Len(x), OutputSize - 1) = Len(b)
  BY <1>2 DEF Lower, OutputSize
<1>4. \A i \in 1..Len(b) : LowByte(x[i]) = b[i]
  <2> TAKE i \in 1..Len(b)
  <2>1. b[i] \in Octets
    OBVIOUS
  <2> QED
    BY <1>2, <2>1, HexRead, Zenon
<1>5. Output(x) = [i \in 1..Len(b) |-> b[i]]
  BY <1>3, <1>4, Zenon DEF Output
<1> QED
  BY <1>1, <1>5

LEMMA AllPrinted ==
  ASSUME NEW b \in Seq(Octets), \A i \in 1..Len(b) : b[i] # 0
  PROVE  Printed(b) = b
<1> DEFINE Tails(n) == (\A i \in 1..n : b[i] # 0) /\ (n = Len(b) \/ b[n + 1] = 0)
<1>1. Len(b) \in 0..Len(b) /\ Tails(Len(b))
  OBVIOUS
<1>2. \A n \in 0..Len(b) : Tails(n) => n = Len(b)
  OBVIOUS
<1>3. (CHOOSE n \in 0..Len(b) : Tails(n)) = Len(b)
  BY <1>1, <1>2
<1>4. Printed(b) = SubSeq(b, 1, Len(b))
  BY <1>3 DEF Printed
<1> QED
  BY <1>4

(* A serial number of at most 63 bytes, none of them 0, is printed exactly *)
(* as the meter sent it, whatever follows it in the answer.                *)
THEOREM SerialNumberPrinted ==
  ASSUME NEW b \in Seq(Octets), Len(b) < OutputSize,
         \A i \in 1..Len(b) : b[i] # 0,
         NEW t \in Seq(Octets),
         NEW s, s = <<OCTET_STRING>> \o ((hlp_setObjectCount(Len(b)) \o b) \o t)
  PROVE  ~ Failed(s) /\ parse_meter_sn(s) = b
<1>1. Len(b) < UInt16Mod
  BY DEF OutputSize, UInt16Mod
<1>2. dlms_getData(s) = Gives("OK", Variant(OCTET_STRING, b, 0))
  BY <1>1, OctetStringRead, Zenon
<1>3. dlms_getData(s).ret = "OK" /\ dlms_getData(s).value = Variant(OCTET_STRING, b, 0)
  BY <1>2 DEF Gives
<1>4. Variant(OCTET_STRING, b, 0).vt = OCTET_STRING /\ Variant(OCTET_STRING, b, 0).bytes = b
  BY DEF Variant
<1>5. ~ OCTET_STRING >= BYREF /\ OCTET_STRING # BOOLEAN_
  BY DEF OCTET_STRING, BYREF, BOOLEAN_
<1>6. cosem_setRegister(s) = Variant(OCTET_STRING, b, 0)
  BY <1>3, <1>4, <1>5, Zenon DEF cosem_setRegister, var_copy
<1>7. ~ Failed(s)
  BY <1>3, <1>4, <1>6, Zenon DEF Failed, Convertible
<1>8. var_toString(cosem_setRegister(s)) = hlp_bytesToHex(b)
  BY <1>4, <1>6, Zenon DEF var_toString
<1> QED
  BY <1>7, <1>8, HexOutput, AllPrinted, Zenon DEF parse_meter_sn

(* A number the meter sends in four bytes is the number that is printed.   *)
THEOREM EnergyPrinted ==
  ASSUME NEW n \in Nat, n < UInt16Mod * UInt16Mod, NEW t \in Seq(Octets),
         NEW s, s = <<UINT32>> \o (Four(n) \o t)
  PROVE  ~ Failed(s) /\ parse_energy(s) = <<hlp_uint64ToString(n)>>
<1>1. PICK f : f = Four(n)
  BY Zenon
<1>2. /\ f \in Seq(Octets) /\ Len(f) = 4
      /\ 256 * f[1] + f[2] = n \div UInt16Mod /\ 256 * f[3] + f[4] = n % UInt16Mod
  BY <1>1, FourOctets
<1>F. f \in Seq(Octets)
  BY <1>2
<1>3. PICK u : u = f \o t
  BY Zenon
<1>4. /\ u \in Seq(Octets) /\ ~ Len(u) < 4
      /\ u[1] = f[1] /\ u[2] = f[2] /\ u[3] = f[3] /\ u[4] = f[4]
  <2>1. Len(u) = Len(f) + Len(t) /\ \A i \in 1..Len(f) : u[i] = f[i]
    BY <1>F, <1>3, AfterConcat, Zenon
  <2>2. u \in Seq(Octets) /\ Len(t) \in Nat
    BY <1>F, <1>3
  <2> QED
    BY <1>2, <2>1, <2>2
<1>5. getUInt32(u) = UInt16Mod * (n \div UInt16Mod) + (n % UInt16Mod)
  BY <1>2, <1>4, Zenon DEF getUInt32
<1>6. UInt16Mod * (n \div UInt16Mod) + (n % UInt16Mod) = n
  BY DEF UInt16Mod
<1>7. /\ UINT32 \in Octets /\ UINT32 % BYREF = UINT32 /\ UINT32 # OCTET_STRING
      /\ ~ UINT32 >= BYREF /\ UINT32 # BOOLEAN_ /\ UINT32 # STRING_
  BY DEF UINT32, Octets, OCTET_STRING, BYREF, BOOLEAN_, STRING_
<1>8. s[1] = UINT32 /\ After(s, 1) = u
  BY <1>1, <1>3, <1>4, <1>7, TypeAndRest, Zenon
<1>9. dlms_getData(s) = Gives("OK", Variant(UINT32, <<>>, n))
  BY <1>5, <1>6, <1>7, <1>8, Zenon DEF dlms_getData
<1>10. dlms_getData(s).ret = "OK" /\ dlms_getData(s).value = Variant(UINT32, <<>>, n)
  BY <1>9 DEF Gives
<1>11. Variant(UINT32, <<>>, n).vt = UINT32 /\ Variant(UINT32, <<>>, n).number = n
  BY DEF Variant
<1>12. cosem_setRegister(s) = Variant(UINT32, <<>>, n)
  BY <1>7, <1>10, <1>11, Zenon DEF cosem_setRegister, var_copy
<1>13. ~ Failed(s)
  BY <1>10, <1>11, <1>12, Zenon DEF Failed, Convertible
<1> QED
  BY <1>7, <1>11, <1>12, <1>13, Zenon DEF parse_energy, var_toString

(* A relay whose state comes as a Boolean is printed "off" for 0 and "on"  *)
(* for every other byte; one whose state comes in a type that is not read  *)
(* is printed "off" whatever its state is (cosem_setDisconnectControl).    *)
THEOREM RelayPrinted ==
  ASSUME NEW n \in Octets
  PROVE  /\ parse_relay(<<BOOLEAN_>> \o <<n>>) = {IF n = 0 THEN "off" ELSE "on"}
         /\ \A vt \in Octets :
              vt < BYREF /\ vt \notin {BOOLEAN_, UINT32, OCTET_STRING} =>
                parse_relay(<<vt>> \o <<n>>) = {"off"}
<1>1. PICK u : u = <<n>>
  BY Zenon
<1>2. u \in Seq(Octets) /\ u # <<>> /\ u[1] = n
  BY <1>1
<1>3. \A vt \in Octets : (<<vt>> \o u)[1] = vt /\ After(<<vt>> \o u, 1) = u
  BY <1>2, TypeAndRest, Zenon
<1>4. BOOLEAN_ \in Octets /\ BOOLEAN_ % BYREF = BOOLEAN_
      /\ BOOLEAN_ # OCTET_STRING /\ BOOLEAN_ # UINT32
  BY DEF UINT32, Octets, OCTET_STRING, BYREF, BOOLEAN_
<1>5. \A vt \in Octets : vt < BYREF => vt % BYREF = vt
  BY DEF BYREF, Octets
<1>6. getBool(u) = IF n = 0 THEN 0 ELSE 1
  BY <1>2, Zenon DEF getBool
<1>7. 0 % 256 = 0 /\ 1 % 256 = 1
  OBVIOUS
<1>8. \A s, vt, k : dlms_getData(s) = Gives("OK", Variant(vt, <<>>, k)) =>
        cosem_setDisconnectControl(s) = {k % 256}
  BY DEF Gives, Variant, cosem_setDisconnectControl
<1>9. parse_relay(<<BOOLEAN_>> \o u) = {IF n = 0 THEN "off" ELSE "on"}
  <2>1. dlms_getData(<<BOOLEAN_>> \o u) = Gives("OK", Variant(BOOLEAN_, <<>>, getBool(u)))
    BY <1>3, <1>4, Zenon DEF dlms_getData
  <2>2. cosem_setDisconnectControl(<<BOOLEAN_>> \o u) = {getBool(u) % 256}
    BY <1>8, <2>1, Zenon
  <2>3. getBool(u) % 256 = IF n = 0 THEN 0 ELSE 1
    BY <1>6, <1>7
  <2> QED
    BY <2>2, <2>3 DEF parse_relay
<1>10. ASSUME NEW vt \in Octets, vt < BYREF, vt \notin {BOOLEAN_, UINT32, OCTET_STRING}
       PROVE  parse_relay(<<vt>> \o u) = {"off"}
  <2>1. dlms_getData(<<vt>> \o u) = Gives("OK", Variant(vt, <<>>, 0))
    BY <1>3, <1>5, <1>10, Zenon DEF dlms_getData
  <2>2. cosem_setDisconnectControl(<<vt>> \o u) = {0 % 256}
    BY <1>8, <2>1, Zenon
  <2> QED
    BY <1>7, <2>2 DEF parse_relay
<1> QED
  BY <1>1, <1>9, <1>10, Zenon

-----------------------------------------------------------------------------

(* A set of natural numbers has a least one. *)
LEMMA LeastNumber ==
  ASSUME NEW T, T \subseteq Nat, T # {}
  PROVE  \E x \in T : \A y \in T : ~ (y < x)
<1> DEFINE R == OpToRel(<, Nat)
<1>1. IsWellFoundedOn(R, Nat)
  BY NatLessThanWellFounded
<1>2. \A x, y \in Nat : y < x => <<y, x>> \in R
  BY DEF OpToRel
<1> HIDE DEF R
<1>3. \E x \in T : \A y \in T : ~ (<<y, x>> \in R)
  BY <1>1, WFMin
<1> QED BY <1>2, <1>3

(* A search: from x it goes on to next[x], which is nearer to the end by   *)
(* the measure m, or ends with out[x].  Below(S, m, n) is where fewer than *)
(* n steps are left, Solutions what a search from there may come to.       *)
Below(S, m, n) == {x \in S : m[x] < n}

(* What is found from every x of X satisfies the search.                   *)
Solves(f, X, goes, next, out) ==
  \A x \in X : f[x] = IF goes[x] THEN f[next[x]] ELSE out[x]

(* A search whose parts are typed and whose every step comes nearer to the *)
(* end.                                                                    *)
Search(S, V, goes, next, out, m) ==
  /\ goes \in [S -> BOOLEAN] /\ next \in [S -> S] /\ out \in [S -> V] /\ m \in [S -> Nat]
  /\ \A x \in S : goes[x] => m[next[x]] < m[x]

(* The results of a search from where fewer than n steps are left.         *)
Solutions(S, V, goes, next, out, m, n) ==
  {f \in [Below(S, m, n) -> V] : Solves(f, Below(S, m, n), goes, next, out)}

(* A result for fewer than n steps extends to one step more.               *)
LEMMA LongerSolution ==
  ASSUME NEW S, NEW V, NEW goes, NEW next, NEW out, NEW m, Search(S, V, goes, next, out, m),
         NEW n \in Nat, NEW f \in Solutions(S, V, goes, next, out, m, n)
  PROVE  Solutions(S, V, goes, next, out, m, n + 1) # {}
<1> DEFINE A == Below(S, m, n)
           B == Below(S, m, n + 1)
           F == [x \in B |-> IF x \in A THEN f[x] ELSE IF goes[x] THEN f[next[x]] ELSE out[x]]
<1>1. /\ goes \in [S -> BOOLEAN] /\ next \in [S -> S] /\ out \in [S -> V] /\ m \in [S -> Nat]
      /\ \A x \in S : goes[x] => m[next[x]] < m[x]
  BY DEF Search
<1>2. f \in [A -> V] /\ \A x \in A : f[x] = IF goes[x] THEN f[next[x]] ELSE out[x]
  BY DEF Solutions, Solves
<1>3. A \subseteq B /\ B \subseteq S
  BY <1>1 DEF Below
<1>4. \A x \in B : goes[x] => next[x] \in A
  BY <1>1 DEF Below
<1>5. F \in [B -> V]
  <2>1. ASSUME NEW x \in B  PROVE F[x] \in V
    <3>1. CASE x \in A
      BY <1>2, <3>1
    <3>2. CASE x \notin A /\ goes[x]
      BY <1>2, <1>4, <3>2
    <3>3. CASE x \notin A /\ ~ goes[x]
      BY <1>1, <1>3, <3>3
    <3> QED BY <3>1, <3>2, <3>3
  <2> QED BY <2>1
<1>6. \A x \in A : F[x] = f[x]
  BY <1>3
<1>7. \A x \in B : F[x] = IF goes[x] THEN f[next[x]] ELSE out[x]
  BY <1>2, <1>3
<1> HIDE DEF F, A, B
<1>8. Solves(F, B, goes, next, out)
  BY <1>4, <1>6, <1>7 DEF Solves
<1>9. F \in Solutions(S, V, goes, next, out, m, n + 1)
  BY <1>5, <1>8 DEF Solutions, B
<1> QED BY <1>9

(* So there is one for every number of steps,                              *)
LEMMA SolutionsExist ==
  ASSUME NEW S, NEW V, NEW goes, NEW next, NEW out, NEW m, Search(S, V, goes, next, out, m),
         NEW n \in Nat
  PROVE  Solutions(S, V, goes, next, out, m, n) # {}
<1> DEFINE T == {k \in Nat : Solutions(S, V, goes, next, out, m, k) = {}}
<1> SUFFICES ASSUME T # {}  PROVE FALSE
  OBVIOUS
<1>1. PICK k \in T : \A y \in T : ~ (y < k)
  BY LeastNumber
<1>2. k # 0
  <2>1. Below(S, m, 0) = {}
    BY DEF Search, Below
  <2>2. [x \in {} |-> 0] \in [{} -> V]
    OBVIOUS
  <2>3. [x \in {} |-> 0] \in Solutions(S, V, goes, next, out, m, 0)
    BY <2>1, <2>2 DEF Solutions, Solves
  <2> QED BY <2>3
<1>3. k - 1 \in Nat /\ k - 1 < k /\ (k - 1) + 1 = k
  BY <1>2
<1>4. k - 1 \notin T
  BY <1>1, <1>3
<1>5. PICK f : f \in Solutions(S, V, goes, next, out, m, k - 1)
  BY <1>3, <1>4
<1>6. PICK j \in Nat : j = k - 1
  BY <1>3
<1>7. Solutions(S, V, goes, next, out, m, j + 1) # {}
  BY <1>5, <1>6, LongerSolution, Zenon
<1> QED BY <1>1, <1>3, <1>6, <1>7

(* and those for different numbers agree where both are defined.           *)
LEMMA SolutionsAgree ==
  ASSUME NEW S, NEW V, NEW goes, NEW next, NEW out, NEW m, Search(S, V, goes, next, out, m),
         NEW i \in Nat, NEW j \in Nat, i <= j,
         NEW f \in Solutions(S, V, goes, next, out, m, i),
         NEW g \in Solutions(S, V, goes, next, out, m, j)
  PROVE  \A x \in Below(S, m, i) : f[x] = g[x]
<1> DEFINE A == Below(S, m, i)
           T == {m[x] : x \in {y \in A : f[y] # g[y]}}
<1>1. /\ goes \in [S -> BOOLEAN] /\ next \in [S -> S] /\ m \in [S -> Nat]
      /\ \A x \in S : goes[x] => m[next[x]] < m[x]
  BY DEF Search
<1>2. /\ A \subseteq Below(S, m, j) /\ A \subseteq S
      /\ \A x \in A : m[x] < i /\ (goes[x] => next[x] \in A)
  BY <1>1 DEF Below
<1>3. \A x \in A : /\ f[x] = IF goes[x] THEN f[next[x]] ELSE out[x]
                   /\ g[x] = IF goes[x] THEN g[next[x]] ELSE out[x]
  BY <1>2 DEF Solutions, Solves
<1> SUFFICES ASSUME T # {}  PROVE FALSE
  OBVIOUS
<1>4. T \subseteq Nat
  BY <1>1, <1>2
<1>5. PICK k \in T : \A y \in T : ~ (y < k)
  BY <1>4, LeastNumber
<1>6. PICK x \in A : f[x] # g[x] /\ k = m[x]
  BY <1>5
<1> HIDE DEF A
<1>7. goes[x] /\ f[next[x]] # g[next[x]]
  BY <1>3, <1>6
<1>8. next[x] \in A /\ m[next[x]] < m[x]
  BY <1>1, <1>2, <1>6, <1>7
<1>9. m[next[x]] \in T
  BY <1>7, <1>8
<1> QED BY <1>5, <1>6, <1>8, <1>9

(* Every such search has a result. *)
LEMMA SearchEnds ==
  ASSUME NEW S, NEW V, NEW goes, NEW next, NEW out, NEW m, Search(S, V, goes, next, out, m)
  PROVE  \E f \in [S -> V] : Solves(f, S, goes, next, out)
<1> DEFINE Sol(n) == Solutions(S, V, goes, next, out, m, n)
           pick(n) == CHOOSE f : f \in Sol(n)
           F == [x \in S |-> pick(m[x] + 1)[x]]
<1>1. /\ goes \in [S -> BOOLEAN] /\ next \in [S -> S] /\ m \in [S -> Nat] /\ out \in [S -> V]
      /\ \A x \in S : goes[x] => m[next[x]] < m[x]
  BY DEF Search
<1>2. \A n \in Nat : pick(n) \in Sol(n)
  <2> TAKE n \in Nat
  <2>1. Sol(n) # {}
    BY SolutionsExist
  <2> HIDE DEF Sol
  <2> QED BY <2>1
<1>3. \A n \in Nat : /\ pick(n) \in [Below(S, m, n) -> V]
                     /\ Solves(pick(n), Below(S, m, n), goes, next, out)
  <2> TAKE n \in Nat
  <2>1. pick(n) \in Sol(n)
    BY <1>2
  <2> HIDE DEF pick
  <2> QED BY <2>1 DEF Solutions
<1>4. \A i, j \in Nat : i <= j => \A x \in Below(S, m, i) : pick(i)[x] = pick(j)[x]
  <2> TAKE i, j \in Nat
  <2> HAVE i <= j
  <2>1. pick(i) \in Sol(i) /\ pick(j) \in Sol(j)
    BY <1>2
  <2> HIDE DEF pick
  <2> QED BY <2>1, SolutionsAgree
<1> HIDE DEF pick, Sol
<1>5. \A x \in S : x \in Below(S, m, m[x] + 1) /\ m[x] + 1 \in Nat
  BY <1>1 DEF Below
<1>6. F \in [S -> V]
  BY <1>3, <1>5
<1>7. ASSUME NEW x \in S
      PROVE  F[x] = IF goes[x] THEN F[next[x]] ELSE out[x]
  <2>1. F[x] = IF goes[x] THEN pick(m[x] + 1)[next[x]] ELSE out[x]
    BY <1>3, <1>5 DEF Solves
  <2>2. ASSUME goes[x]
        PROVE  pick(m[x] + 1)[next[x]] = F[next[x]]
    <3>1. next[x] \in S /\ m[next[x]] + 1 <= m[x] + 1
      BY <1>1, <2>2
    <3>2. pick(m[next[x]] + 1)[next[x]] = pick(m[x] + 1)[next[x]]
      BY <1>4, <1>5, <3>1
    <3> QED BY <3>1, <3>2
  <2> QED BY <2>1, <2>2
<1> HIDE DEF F
<1>8. Solves(F, S, goes, next, out)
  BY <1>7 DEF Solves
<1> QED BY <1>6, <1>8

(* All solutions of a search agree. *)
LEMMA SearchUnique ==
  ASSUME NEW S, NEW V, NEW goes, NEW next, NEW out, NEW m, Search(S, V, goes, next, out, m),
         NEW f, f = [x \in S |-> f[x]], Solves(f, S, goes, next, out)
  PROVE  f \in [S -> V]
<1> DEFINE W == V \cup {f[x] : x \in S}
<1>1. PICK g \in [S -> V] : Solves(g, S, goes, next, out)
  BY SearchEnds
<1>2. g \in [S -> W] /\ f \in [S -> W]
  OBVIOUS
<1>3. Search(S, W, goes, next, out, m)
  BY DEF Search
<1>4. /\ goes \in [S -> BOOLEAN] /\ next \in [S -> S] /\ m \in [S -> Nat]
      /\ \A x \in S : goes[x] => m[next[x]] < m[x]
  BY DEF Search
<1> DEFINE T == {m[x] : x \in {y \in S : f[y] # g[y]}}
<1>5. T = {}
  <2> SUFFICES ASSUME T # {}  PROVE FALSE
    OBVIOUS
  <2>1. T \subseteq Nat
    BY <1>4
  <2>2. PICK k \in T : \A y \in T : ~ (y < k)
    BY <2>1, LeastNumber
  <2>3. PICK x \in S : f[x] # g[x] /\ k = m[x]
    BY <2>2
  <2>4. /\ f[x] = IF goes[x] THEN f[next[x]] ELSE out[x]
        /\ g[x] = IF goes[x] THEN g[next[x]] ELSE out[x]
    BY <1>1 DEF Solves
  <2>5. goes[x] /\ f[next[x]] # g[next[x]]
    BY <2>3, <2>4
  <2>6. next[x] \in S /\ m[next[x]] < m[x]
    BY <1>4, <2>5
  <2>7. m[next[x]] \in T
    BY <2>5, <2>6
  <2> QED BY <2>2, <2>3, <2>6, <2>7, <1>4
<1>6. \A x \in S : f[x] = g[x]
  BY <1>5
<1> QED BY <1>6, <1>1

(* The first flag from p on. *)
LEMMA FirstFlag ==
  ASSUME NEW s \in Seq(Byte), NEW p \in Nat, FlagsFrom(s, p) # {}
  PROVE  /\ NextFlag(s, p) \in p..(Len(s) - 1)
         /\ At(s, NextFlag(s, p)) = Flag
         /\ \A j \in FlagsFrom(s, p) : NextFlag(s, p) <= j
<1>1. FlagsFrom(s, p) \subseteq Nat
  BY DEF FlagsFrom
<1>2. \E i \in FlagsFrom(s, p) : \A j \in FlagsFrom(s, p) : ~ (j < i)
  BY <1>1, LeastNumber
<1>3. \E i \in FlagsFrom(s, p) : \A j \in FlagsFrom(s, p) : i <= j
  BY <1>1, <1>2
<1>4. /\ NextFlag(s, p) \in FlagsFrom(s, p)
      /\ \A j \in FlagsFrom(s, p) : NextFlag(s, p) <= j
  BY <1>3 DEF NextFlag
<1> QED BY <1>4 DEF FlagsFrom

(* Where the reading of an address may stop.                               *)
LEMMA EndOrStart ==
  ASSUME NEW s, NEW p, NEW check
  PROVE  LET e == AddressEnd(s, p)
             r == dlms_getHDLCAddress(s, p, check)
         IN r.position = p \/ (e \in {p, p + 1, p + 3} /\ r.position = e + 1)
<1> DEFINE e == AddressEnd(s, p)
           r == dlms_getHDLCAddress(s, p, check)
<1>1. \A ret : AddressFails(p, ret).position = p
  BY DEF AddressFails
<1>2. CASE check /\ e # p
  BY <1>1, <1>2 DEF dlms_getHDLCAddress
<1>3. CASE ~ (check /\ e # p) /\ e \in {p, p + 1, p + 3}
  BY <1>3 DEF dlms_getHDLCAddress
<1>4. CASE ~ (check /\ e # p) /\ e \notin {p, p + 1, p + 3}
  BY <1>1, <1>4 DEF dlms_getHDLCAddress
<1> QED BY <1>2, <1>3, <1>4

(* An address is never read backwards,                                     *)
LEMMA EndBehind ==
  ASSUME NEW s \in Seq(Byte), NEW p \in Nat, NEW check
  PROVE  /\ dlms_getHDLCAddress(s, p, check).position \in Nat
         /\ dlms_getHDLCAddress(s, p, check).position >= p
<1> DEFINE e == AddressEnd(s, p)
           r == dlms_getHDLCAddress(s, p, check)
<1>1. r.position = p \/ (e \in {p, p + 1, p + 3} /\ r.position = e + 1)
  BY EndOrStart, Zenon
<1> HIDE DEF r, e
<1>2. r.position \in Nat /\ r.position >= p
  BY <1>1
<1> QED BY <1>2 DEF r

(* Where the reading of two addresses may stop.                            *)
LEMMA AddressesPosition ==
  ASSUME NEW conf, NEW s, NEW start, NEW eopPos
  PROVE  LET to == dlms_getHDLCAddress(s, start, FALSE)
             from == dlms_getHDLCAddress(s, to.position, conf.server)
         IN dlms_checkHdlcAddress(conf, s, start, eopPos).position
              \in {start, to.position, eopPos + 1, from.position}
<1> DEFINE to == dlms_getHDLCAddress(s, start, FALSE)
           from == dlms_getHDLCAddress(s, to.position, conf.server)
           echo == /\ ~ conf.server
                   /\ to.value = conf.serverAddress
                   /\ from.value = conf.clientAddress
                   /\ to.value # from.value
           r == dlms_checkHdlcAddress(conf, s, start, eopPos)
<1>1. r = IF to.ret # "OK" THEN [refused |-> FALSE, position |-> start]
          ELSE IF from.ret # "OK"
          THEN [refused |-> from.ret = "INVALID_CLIENT_ADDRESS", position |-> to.position]
          ELSE [refused |-> FALSE, position |-> IF echo THEN eopPos + 1 ELSE from.position]
  BY DEF dlms_checkHdlcAddress
<1> HIDE DEF to, from, echo, r
<1>2. r.position \in {start, to.position, eopPos + 1, from.position}
  BY <1>1
<1> QED BY <1>2 DEF r, to, from

(* nor are two of them; after an echo the frame is left behind.            *)
LEMMA AddressesBehind ==
  ASSUME NEW conf, NEW s \in Seq(Byte), NEW start \in Nat, NEW eopPos \in Nat
  PROVE  LET r == dlms_checkHdlcAddress(conf, s, start, eopPos).position
         IN r \in Nat /\ (r >= start \/ r = eopPos + 1)
<1> DEFINE to == dlms_getHDLCAddress(s, start, FALSE)
           from == dlms_getHDLCAddress(s, to.position, conf.server)
           r == dlms_checkHdlcAddress(conf, s, start, eopPos).position
<1>1. to.position \in Nat /\ to.position >= start
  BY EndBehind, Zenon
<1>2. from.position \in Nat /\ from.position >= to.position
  BY <1>1, EndBehind, Zenon
<1>3. r \in {start, to.position, eopPos + 1, from.position}
  BY AddressesPosition, Zenon
<1> HIDE DEF to, from, r
<1>4. r \in Nat /\ (r >= start \/ r = eopPos + 1)
  BY <1>1, <1>2, <1>3
<1> QED BY <1>4 DEF r

-----------------------------------------------------------------------------

(* What a look may leave behind: a frame taken without error lies within   *)
(* the bytes.                                                              *)
Left(s) == {r \in HdlcData : r.complete /\ r.ret = "OK" => r.packetLength <= Len(s)}

(* What stands within the bytes is a byte.                                 *)
LEMMA BytesAreNumbers ==
  ASSUME NEW s \in Seq(Byte), NEW i \in Nat, i < Len(s)
  PROVE  At(s, i) \in Byte
<1>1. i + 1 \in 1..Len(s)
  OBVIOUS
<1> QED BY <1>1 DEF At

(* The LLC bytes are skipped forwards.                                     *)
LEMMA LLCBehind ==
  ASSUME NEW conf, NEW s, NEW p \in Nat
  PROVE  dlms_checkLLCBytes(conf, s, p) \in Nat /\ dlms_checkLLCBytes(conf, s, p) >= p
<1> PICK b \in BOOLEAN : b = IsPrefix(IF conf.server THEN LLC_SEND_BYTES ELSE LLC_REPLY_BYTES,
                                      SubSeq(s, p + 1, Len(s)))
  BY DEF IsPrefix
<1>1. dlms_checkLLCBytes(conf, s, p) = IF b THEN p + 3 ELSE p
  BY DEF dlms_checkLLCBytes
<1> QED BY <1>1

(* A frame that is accepted lies within the bytes.                         *)
LEMMA AcceptedLeft ==
  ASSUME NEW conf, NEW s \in Seq(Byte), NEW d \in HdlcData, NEW start \in Nat,
         NEW frameLen \in Nat, NEW p \in Nat, p + 3 <= Len(s), start + frameLen - 1 <= Len(s)
  PROVE  Accepted(conf, s, d, start, frameLen, p) \in Left(s)
<1> DEFINE frame == At(s, p)
           read == [d EXCEPT !.frame = frame, !.packetLength = start + frameLen - 1]
<1>1. frame \in Nat
  <2>1. p < Len(s)
    OBVIOUS
  <2>2. frame \in Byte
    BY <2>1, BytesAreNumbers
  <2>3. \A b \in Byte : b \in Nat
    BY DEF Byte
  <2> QED BY <2>2, <2>3, Zenon
<1>2. start + frameLen - 1 \in Int
  OBVIOUS
<1> HIDE DEF frame
<1>3. read \in HdlcData /\ read.packetLength = start + frameLen - 1
  BY <1>1, <1>2 DEF HdlcData
<1>4. \A q, c \in Nat, t \in {"OK", "REJECTED"} :
        [read EXCEPT !.position = q, !.command = c, !.ret = t] \in Left(s)
  BY <1>3 DEF HdlcData, ReadCodes, Left
<1>5. \A q \in Nat, t \in BOOLEAN : [read EXCEPT !.position = q, !.moreData = t] \in Left(s)
  BY <1>3 DEF HdlcData, Left
<1>6. \A q \in Nat : [read EXCEPT !.position = q] \in Left(s)
  BY <1>3 DEF HdlcData, Left
<1>7. p + 4 \in Nat /\ p + 3 \in Nat /\ dlms_checkLLCBytes(conf, s, p + 3) \in Nat
  BY LLCBehind
<1>8. (read.moreData \/ frame % 2 = 1) \in BOOLEAN
  BY <1>3 DEF HdlcData
<1>9. CASE frame % 4 = 3 /\ frame \notin Spontaneous
  <2> DEFINE q == IF p + 3 = start + frameLen + 1 THEN p + 4 ELSE p + 3
             t == IF frame \in Commands THEN "OK" ELSE "REJECTED"
  <2>1. q \in Nat
    BY <1>7
  <2>2. t \in {"OK", "REJECTED"}
    OBVIOUS
  <2>3. Accepted(conf, s, d, start, frameLen, p) =
          [read EXCEPT !.position = q, !.command = frame, !.ret = t]
    BY <1>9 DEF Accepted, frame
  <2> HIDE DEF read, q, t
  <2>4. \A c \in Nat, u \in {"OK", "REJECTED"} :
          [read EXCEPT !.position = q, !.command = c, !.ret = u] \in Left(s)
    BY <1>4, <2>1, Zenon
  <2>5. \A u \in {"OK", "REJECTED"} :
          [read EXCEPT !.position = q, !.command = frame, !.ret = u] \in Left(s)
    BY <1>1, <2>4, Zenon
  <2> QED BY <2>2, <2>3, <2>5, Zenon
<1>10. CASE (frame % 4 # 3 \/ frame \in Spontaneous) /\ p + 3 = start + frameLen + 1
  <2>1. Accepted(conf, s, d, start, frameLen, p) =
          [read EXCEPT !.position = p + 4, !.moreData = read.moreData \/ frame % 2 = 1]
    BY <1>10 DEF Accepted, frame
  <2> HIDE DEF read
  <2> QED BY <1>5, <1>7, <1>8, <2>1, Zenon
<1>11. CASE (frame % 4 # 3 \/ frame \in Spontaneous) /\ p + 3 # start + frameLen + 1
  <2>1. Accepted(conf, s, d, start, frameLen, p) =
          [read EXCEPT !.position = dlms_checkLLCBytes(conf, s, p + 3)]
    BY <1>11 DEF Accepted, frame
  <2> HIDE DEF read
  <2> QED BY <1>6, <1>7, <2>1, Zenon
<1> QED BY <1>9, <1>10, <1>11

(* What one look does: it goes on from further behind, or ends within the  *)
(* bytes.                                                                  *)
Looked(s, d, look) ==
  /\ look.again \in BOOLEAN /\ look.data \in HdlcData
  /\ look.again => d.position < Len(s) /\ d.position < look.data.position
  /\ ~ look.again => look.data \in Left(s)

(* A look that ends.                                                       *)
LEMMA LookedEnds ==
  ASSUME NEW s, NEW d, NEW r \in Left(s)
  PROVE  Looked(s, d, Ends(r))
  BY DEF Looked, Ends, Left

(* A look that goes on.                                                    *)
LEMMA LookedAgain ==
  ASSUME NEW s, NEW d, NEW r \in HdlcData, d.position < Len(s), d.position < r.position
  PROVE  Looked(s, d, Again(r))
  BY DEF Looked, Again

(* Every look is one of the two, whatever the bytes are                    *)
(* (dlms_getHdlcData).                                                     *)
LEMMA Looks ==
  ASSUME NEW conf, NEW s \in Seq(Byte), NEW d \in HdlcData
  PROVE  Looked(s, d, Look(conf, s, d))
<1> DEFINE start == NextFlag(s, d.position)
           frameLen == 256 * (At(s, start + 1) % 8) + At(s, start + 2)
           eopPos == start + frameLen + 1
           read == dlms_checkHdlcAddress(conf, s, start + 3, eopPos)
           p == read.position
           begun == [d EXCEPT !.complete = TRUE]
           more == (At(s, start + 1) \div 8) % 2 = 1
           continued == [begun EXCEPT !.moreData = more, !.position = p + 3]
           L == Look(conf, s, d)
           c1 == Len(s) - d.position < Smallest
           c2 == FlagsFrom(s, d.position) \subseteq {Len(s) - 1}
           c3 == At(s, start + 1) \div 16 # 10
           c4 == start + 2 = Len(s)
           c5 == Len(s) <= eopPos
           c6 == At(s, eopPos) # Flag
           refusal == [begun EXCEPT !.position = p]
           cr == read.refused
           c7 == p + 3 > Len(s)
           c8 == ~ HeaderRight(s, start, p)
           c9 == Len(s) - (p + 3) > 8
           c10 == ~ FrameRight(s, start, frameLen, p)
<1>L. L = IF c1 THEN Ends([d EXCEPT !.complete = FALSE])
     ELSE IF c2 THEN Ends([d EXCEPT !.complete = FALSE, !.position = Len(s)])
     ELSE IF c3 THEN Again([begun EXCEPT !.position = start + 1])
     ELSE IF c4 THEN Ends(Fails(begun, "OUTOFMEMORY"))
     ELSE IF c5 THEN Ends([d EXCEPT !.complete = FALSE, !.position = start])
     ELSE IF c6 THEN Again([begun EXCEPT !.position = start + 1])
     ELSE IF cr THEN Ends(Fails(refusal, "INVALID_CLIENT_ADDRESS"))
     ELSE IF c7 THEN Ends(Fails(continued, "OUTOFMEMORY"))
     ELSE IF c8 THEN IF c9 THEN Again(continued) ELSE Ends(Fails(continued, "WRONG_CRC"))
     ELSE IF c10 THEN Ends(Fails(continued, "WRONG_CRC"))
     ELSE Ends(Accepted(conf, s, continued, start, frameLen, p))
  BY Zenon DEF Look, Checked
<1>d. d.position \in Nat /\ Len(s) \in Nat
  BY DEF HdlcData
<1>n. \A n \in Nat : /\ [d EXCEPT !.complete = FALSE, !.position = n] \in Left(s)
                     /\ [begun EXCEPT !.position = n] \in HdlcData
                     /\ [begun EXCEPT !.position = n].position = n
  BY DEF HdlcData, Left
<1>m. \A n \in Nat, b \in BOOLEAN : /\ [begun EXCEPT !.moreData = b, !.position = n] \in HdlcData
                                    /\ [begun EXCEPT !.moreData = b, !.position = n].position = n
  BY DEF HdlcData
<1>b. begun \in HdlcData
  BY DEF HdlcData
<1>f. \A r \in HdlcData : \A t \in {"OUTOFMEMORY", "WRONG_CRC", "INVALID_CLIENT_ADDRESS"} :
        Fails(r, t) \in Left(s)
  BY DEF HdlcData, ReadCodes, Left, Fails
<1>1. CASE c1
  <2>1. [d EXCEPT !.complete = FALSE] \in Left(s)
    BY DEF HdlcData, Left
  <2>2. L = Ends([d EXCEPT !.complete = FALSE])
    BY <1>L, <1>1
  <2> HIDE DEF L
  <2>3. Looked(s, d, L)
    BY <2>1, <2>2, LookedEnds, Zenon
  <2> QED BY <2>3 DEF L
<1>2. CASE ~ c1 /\ c2
  <2>1. [d EXCEPT !.complete = FALSE, !.position = Len(s)] \in Left(s)
    BY <1>n, <1>d, Zenon
  <2>2. L = Ends([d EXCEPT !.complete = FALSE, !.position = Len(s)])
    BY <1>L, <1>2, Zenon
  <2> HIDE DEF L
  <2>3. Looked(s, d, L)
    BY <2>1, <2>2, LookedEnds, Zenon
  <2> QED BY <2>3 DEF L
<1>3. ASSUME ~ c1, ~ c2  PROVE Looked(s, d, L)
  <2>1. FlagsFrom(s, d.position) # {} /\ d.position < Len(s)
    BY <1>3, <1>d DEF Smallest
  <2>2. start \in d.position..(Len(s) - 1)
    BY <2>1, <1>d, FirstFlag
  <2>3. start < Len(s) - 1
    <3>1. PICK j \in FlagsFrom(s, d.position) : j # Len(s) - 1
      BY <1>3
    <3>2. j \in d.position..(Len(s) - 1)
      BY DEF FlagsFrom
    <3>3. start <= j
      BY <2>1, <1>d, FirstFlag
    <3> HIDE DEF start
    <3> QED BY <2>2, <3>1, <3>2, <3>3, <1>d
  <2>4. start \in Nat /\ start + 1 \in Nat /\ start + 1 > d.position /\ start + 1 < Len(s)
    <3> HIDE DEF start
    <3> QED BY <2>2, <2>3, <1>d
  <2>5. Looked(s, d, Again([begun EXCEPT !.position = start + 1]))
    <3>1. /\ [begun EXCEPT !.position = start + 1] \in HdlcData
          /\ [begun EXCEPT !.position = start + 1].position = start + 1
      BY <1>n, <2>4, Zenon
    <3>2. d.position < [begun EXCEPT !.position = start + 1].position
      <4> HIDE DEF start, begun
      <4> QED BY <3>1, <2>4
    <3> HIDE DEF begun, start
    <3> QED BY <3>1, <3>2, <2>1, LookedAgain, Zenon
  <2>6. CASE c3
    <3>1. L = Again([begun EXCEPT !.position = start + 1])
      BY <1>L, <1>3, <2>6, Zenon
    <3> QED BY <2>5, <3>1, Zenon
  <2>7. CASE ~ c3 /\ c4
    <3>1. L = Ends(Fails(begun, "OUTOFMEMORY"))
      BY <1>L, <1>3, <2>7, Zenon
    <3>2. Fails(begun, "OUTOFMEMORY") \in Left(s)
      BY <1>f, <1>b, Zenon
    <3> QED BY <3>1, <3>2, LookedEnds, Zenon
  <2>8. ASSUME ~ c3, ~ c4  PROVE Looked(s, d, L)
    <3>1. At(s, start + 1) \in Byte /\ At(s, start + 2) \in Byte
      <4> HIDE DEF start
      <4> QED BY <2>4, <2>8, BytesAreNumbers
    <3>2. frameLen \in Nat
      <4>1. \A a, b \in Byte : 256 * (a % 8) + b \in Nat
        BY DEF Byte
      <4> QED BY <3>1, <4>1, Zenon
    <3>3. eopPos \in Nat /\ eopPos > start
      <4> HIDE DEF start, frameLen
      <4> QED BY <3>2, <2>4
    <3>4. CASE c5
      <4>1. L = Ends([d EXCEPT !.complete = FALSE, !.position = start])
        BY <1>L, <1>3, <2>8, <3>4, Zenon
      <4>2. [d EXCEPT !.complete = FALSE, !.position = start] \in Left(s)
        BY <1>n, <2>4, Zenon
      <4> QED BY <4>1, <4>2, LookedEnds, Zenon
    <3>5. CASE ~ c5 /\ c6
      <4>1. L = Again([begun EXCEPT !.position = start + 1])
        BY <1>L, <1>3, <2>8, <3>5, Zenon
      <4> QED BY <2>5, <4>1, Zenon
    <3>6. ASSUME ~ c5, ~ c6  PROVE Looked(s, d, L)
      <4>0. start + 3 \in Nat
        <5> HIDE DEF start
        <5> QED BY <2>4
      <4>1. p \in Nat /\ (p >= start + 3 \/ p = eopPos + 1)
        <5> HIDE DEF start, frameLen, eopPos
        <5> QED BY <4>0, <3>3, AddressesBehind, Zenon
      <4>2. p + 3 \in Nat /\ d.position < p + 3
        <5> HIDE DEF start, frameLen, eopPos, p
        <5> QED BY <4>1, <3>3, <2>4, <1>d
      <4>3. more \in BOOLEAN
        OBVIOUS
      <4>4. continued \in HdlcData /\ continued.position = p + 3
        <5> HIDE DEF begun, start, frameLen, eopPos, p, more
        <5> QED BY <1>m, <4>2, <4>3, Zenon
      <4>5. Looked(s, d, Again(continued))
        <5>1. d.position < continued.position
          BY <4>4, <4>2, Zenon
        <5> HIDE DEF continued
        <5> QED BY <4>4, <5>1, <2>1, LookedAgain, Zenon
      <4>6. Looked(s, d, Ends(Fails(continued, "OUTOFMEMORY")))
            /\ Looked(s, d, Ends(Fails(continued, "WRONG_CRC")))
        <5> HIDE DEF continued
        <5> QED BY <4>4, <1>f, LookedEnds, Zenon
      <4>r. CASE cr
        <5>1. L = Ends(Fails(refusal, "INVALID_CLIENT_ADDRESS"))
          BY <1>L, <1>3, <2>8, <3>6, <4>r, Zenon
        <5>2. refusal \in HdlcData
          <6> HIDE DEF begun, p
          <6> QED BY <4>1, <1>n, Zenon
        <5> HIDE DEF refusal, L
        <5> QED BY <5>1, <5>2, <1>f, LookedEnds, Zenon
      <4>7. CASE ~ cr /\ c7
        <5>1. L = Ends(Fails(continued, "OUTOFMEMORY"))
          BY <1>L, <1>3, <2>8, <3>6, <4>7, Zenon
        <5> QED BY <5>1, <4>6, Zenon
      <4>8. CASE ~ cr /\ ~ c7 /\ c8
        <5>1. L = Again(continued) \/ L = Ends(Fails(continued, "WRONG_CRC"))
          BY <1>L, <1>3, <2>8, <3>6, <4>8, Zenon
        <5> QED BY <5>1, <4>5, <4>6, Zenon
      <4>9. CASE ~ cr /\ ~ c7 /\ ~ c8 /\ c10
        <5>1. L = Ends(Fails(continued, "WRONG_CRC"))
          BY <1>L, <1>3, <2>8, <3>6, <4>9, Zenon
        <5> QED BY <5>1, <4>6, Zenon
      <4>10. CASE ~ cr /\ ~ c7 /\ ~ c8 /\ ~ c10
        <5>1. L = Ends(Accepted(conf, s, continued, start, frameLen, p))
          BY <1>L, <1>3, <2>8, <3>6, <4>10, Zenon
        <5>2. p + 3 <= Len(s)
          <6> HIDE DEF p
          <6> QED BY <4>1, <4>10, <1>d
        <5>3. start + frameLen - 1 <= Len(s)
          <6> HIDE DEF start, frameLen
          <6> QED BY <3>6, <3>2, <2>4, <1>d
        <5>4. Accepted(conf, s, continued, start, frameLen, p) \in Left(s)
          <6> HIDE DEF continued, start, frameLen, p
          <6> QED BY <5>2, <5>3, <4>1, <4>4, <3>2, <2>4, AcceptedLeft, Zenon
        <5> HIDE DEF continued, start, frameLen, p, L
        <5> QED BY <5>1, <5>4, LookedEnds, Zenon
      <4> QED BY <4>r, <4>7, <4>8, <4>9, <4>10, Zenon
    <3> QED BY <3>4, <3>5, <3>6, Zenon
  <2> QED BY <2>6, <2>7, <2>8, Zenon
<1> QED BY <1>1, <1>2, <1>3, Zenon

(* dlms_getHdlcData looks until a look ends the search, and comes to an    *)
(* end: each further look begins behind the one before.                    *)
LEMMA DataRead ==
  ASSUME NEW conf, NEW s \in Seq(Byte), NEW d \in HdlcData
  PROVE  /\ dlms_getHdlcData(conf, s, d) \in Left(s)
         /\ dlms_getHdlcData(conf, s, d) =
              IF Look(conf, s, d).again THEN dlms_getHdlcData(conf, s, Look(conf, s, d).data)
              ELSE Look(conf, s, d).data
<1> DEFINE S == HdlcData
           V == Left(s)
           look(e) == Look(conf, s, e)
           goes == [e \in S |-> look(e).again]
           next == [e \in S |-> look(e).data]
           out == [e \in S |-> IF look(e).again THEN ReplyInit ELSE look(e).data]
           m == [e \in S |-> IF e.position <= Len(s) THEN Len(s) - e.position ELSE 0]
           body(g) == [e \in S |-> IF look(e).again THEN g[look(e).data] ELSE look(e).data]
           read == CHOOSE g : g = body(g)
<1>1. \A e \in S : /\ look(e).again \in BOOLEAN /\ look(e).data \in S
                   /\ look(e).again => e.position < Len(s) /\ e.position < look(e).data.position
                   /\ ~ look(e).again => look(e).data \in V
  BY Looks DEF Looked
<1>2. ReplyInit \in V
  BY DEF ReplyInit, Left, HdlcData, ReadCodes
<1> HIDE DEF look, V
<1>3. goes \in [S -> BOOLEAN] /\ next \in [S -> S] /\ out \in [S -> V]
  BY <1>1, <1>2
<1>4. m \in [S -> Nat]
  BY DEF HdlcData
<1>5. \A e \in S : goes[e] => m[next[e]] < m[e]
  <2> TAKE e \in S
  <2> HAVE goes[e]
  <2>1. next[e] \in S /\ e.position < Len(s) /\ e.position < next[e].position
    BY <1>1
  <2>2. \A x \in S : x.position \in Nat
    BY DEF HdlcData
  <2>3. m[next[e]] = IF next[e].position <= Len(s) THEN Len(s) - next[e].position ELSE 0
    BY <2>1
  <2>4. m[e] = Len(s) - e.position
    <3>1. \A a, c \in Nat : a < c => a <= c
      OBVIOUS
    <3>2. e.position <= Len(s)
      <4>1. Len(s) \in Nat
        OBVIOUS
      <4> QED BY <2>1, <2>2, <3>1, <4>1, Zenon
    <3> QED BY <3>2
  <2> HIDE DEF m, next
  <2>5. next[e].position \in Nat /\ e.position \in Nat /\ Len(s) \in Nat
    BY <2>1, <2>2
  <2>6. \A a, b, c \in Nat : a < c /\ a < b => (IF b <= c THEN c - b ELSE 0) < c - a
    OBVIOUS
  <2> QED BY <2>1, <2>3, <2>4, <2>5, <2>6, Zenon
<1>6. Search(S, V, goes, next, out, m)
  <2> HIDE DEF S, goes, next, out, m
  <2> QED BY <1>3, <1>4, <1>5 DEF Search
<1>7. \E g : g = body(g)
  <2>1. PICK g \in [S -> V] : Solves(g, S, goes, next, out)
    <3> HIDE DEF S, goes, next, out, m
    <3> QED BY <1>6, SearchEnds
  <2>2. \A e \in S : g[e] = IF look(e).again THEN g[look(e).data] ELSE look(e).data
    BY <2>1 DEF Solves
  <2>3. g = [e \in S |-> g[e]]
    OBVIOUS
  <2>4. g = body(g)
    BY <2>2, <2>3
  <2> QED BY <2>4
<1>8. read = body(read)
  BY <1>7
<1>9. read = [e \in S |-> read[e]] /\ Solves(read, S, goes, next, out)
  <2>1. PICK f : f = read
    OBVIOUS
  <2>2. f = body(f)
    BY <1>8, <2>1
  <2> HIDE DEF read
  <2>3. f = [e \in S |-> f[e]]
    BY <2>2
  <2>4. \A e \in S : f[e] = IF look(e).again THEN f[look(e).data] ELSE look(e).data
    BY <2>2
  <2>5. Solves(f, S, goes, next, out)
    BY <2>4 DEF Solves
  <2> HIDE DEF goes, next, out
  <2> QED BY <2>1, <2>3, <2>5
<1>10. read \in [S -> V]
  <2>1. PICK f : f = read
    OBVIOUS
  <2> HIDE DEF read, S, goes, next, out, m
  <2> QED BY <1>6, <1>9, <2>1, SearchUnique
<1>11. \A e \in S : read[e] = IF look(e).again THEN read[look(e).data] ELSE look(e).data
  <2>1. PICK f : f = read
    OBVIOUS
  <2>2. f = body(f)
    BY <1>8, <2>1
  <2> HIDE DEF read
  <2>3. \A e \in S : f[e] = IF look(e).again THEN f[look(e).data] ELSE look(e).data
    BY <2>2
  <2> QED BY <2>1, <2>3
<1>12. \A e : dlms_getHdlcData(conf, s, e) = read[e]
  BY DEF dlms_getHdlcData, look
<1> HIDE DEF read
<1>13. /\ dlms_getHdlcData(conf, s, d) \in V
       /\ dlms_getHdlcData(conf, s, d) =
              IF look(d).again THEN dlms_getHdlcData(conf, s, look(d).data)
              ELSE look(d).data
  BY <1>10, <1>11, <1>12
<1> QED BY <1>13 DEF V, look

-----------------------------------------------------------------------------

(* A check sum is two bytes.                                               *)
Sums == Byte \X Byte

(* Two bytes make one.                                                     *)
LEMMA SumOf ==
  ASSUME NEW a \in Byte, NEW b \in Byte
  PROVE  <<a, b>> \in Sums
  BY DEF Sums

(* Its bytes.                                                              *)
LEMMA PartsOf ==
  ASSUME NEW v \in Sums
  PROVE  v[1] \in Byte /\ v[2] \in Byte /\ v = <<v[1], v[2]>>
  BY DEF Sums

(* The exclusive or of two bytes is a byte,                                *)
LEMMA XoredByte ==
  ASSUME NEW a \in Byte, NEW b \in Byte
  PROVE  Xored(a, b) \in Byte
<1>1. \A i, j \in Half : XorTable[i][j] \in Half
  <2> TAKE i, j \in Half
  <2> DEFINE bit(k) == IF (i \div k) % 2 # (j \div k) % 2 THEN k ELSE 0
  <2>1. XorTable[i][j] = bit(1) + bit(2) + bit(4) + bit(8)
    BY DEF XorTable
  <2>2. bit(1) \in {0, 1} /\ bit(2) \in {0, 2} /\ bit(4) \in {0, 4} /\ bit(8) \in {0, 8}
    OBVIOUS
  <2>3. \A w \in {0, 1}, x \in {0, 2}, y \in {0, 4}, z \in {0, 8} : w + x + y + z \in 0..15
    OBVIOUS
  <2> HIDE DEF bit
  <2> QED BY <2>1, <2>2, <2>3 DEF Half
<1>2. \A c \in Byte : c \div 16 \in Half /\ c % 16 \in Half
  BY DEF Byte, Half
<1>3. XorTable[a \div 16][b \div 16] \in Half /\ XorTable[a % 16][b % 16] \in Half
  BY <1>1, <1>2, Zenon
<1>4. \A i, j \in Half : 16 * i + j \in Byte
  BY DEF Byte, Half
<1> QED BY <1>3, <1>4, Zenon DEF Xored

(* a shifted sum is a sum,                                                 *)
LEMMA ShiftedSum ==
  ASSUME NEW v \in Sums
  PROVE  Shifted(v) \in Sums
<1> DEFINE l == v[1] \div 2 + 128 * (v[2] % 2)
           h == v[2] \div 2
<1>1. \A a, b \in Byte : a \div 2 + 128 * (b % 2) \in Byte /\ b \div 2 \in Byte
  BY DEF Byte
<1>2. l \in Byte /\ h \in Byte
  BY <1>1, PartsOf, Zenon
<1>3. 8 \in Byte /\ 132 \in Byte
  BY DEF Byte
<1> HIDE DEF l, h
<1>4. <<l, h>> \in Sums /\ <<Xored(l, 8), Xored(h, 132)>> \in Sums
  BY <1>2, <1>3, XoredByte, SumOf, Zenon
<1>5. Shifted(v) = IF v[1] % 2 = 1 THEN <<Xored(l, 8), Xored(h, 132)>> ELSE <<l, h>>
  BY DEF Shifted, l, h
<1> QED BY <1>4, <1>5

(* so is every entry of FCS16Table,                                        *)
LEMMA TableSum ==
  ASSUME NEW b \in Byte
  PROVE  FCS16Table[b] \in Sums
<1>1. \A v \in Sums : FourShifted(v) \in Sums
  BY ShiftedSum, Zenon DEF FourShifted
<1>2. <<b, 0>> \in Sums
  <2>1. 0 \in Byte
    BY DEF Byte
  <2> QED BY <2>1, SumOf, Zenon
<1>3. FCS16Table[b] = FourShifted(FourShifted(<<b, 0>>))
  BY DEF FCS16Table
<1> QED BY <1>1, <1>2, <1>3, Zenon

(* and the sum after one more byte.                                        *)
LEMMA SummedSum ==
  ASSUME NEW v \in Sums, NEW b \in Byte
  PROVE  Summed(v, b) \in Sums
<1>1. PICK t : t = FCS16Table[Xored(v[1], b)]
  OBVIOUS
<1>2. t \in Sums
  BY <1>1, PartsOf, XoredByte, TableSum, Zenon
<1>3. Xored(v[2], t[1]) \in Byte /\ t[2] \in Byte
  BY <1>2, PartsOf, XoredByte, Zenon
<1>4. Summed(v, b) = <<Xored(v[2], t[1]), t[2]>>
  BY <1>1 DEF Summed
<1> QED BY <1>3, <1>4, SumOf, Zenon

(* The check sum of any bytes is two bytes: the running sum is one after   *)
(* each of them.                                                           *)
LEMMA CRCIsSum ==
  ASSUME NEW s \in Seq(Byte)
  PROVE  countCRC(s) \in Sums
<1> DEFINE D == 0..Len(s)
           part(f, i) == IF i = 0 THEN <<255, 255>> ELSE Summed(f[i - 1], s[i])
           Runs(n) == {f \in [0..n -> Sums] : \A i \in 0..n : f[i] = part(f, i)}
           sum == CHOOSE f : f = [i \in D |-> part(f, i)]
<1>0. Len(s) \in Nat /\ <<255, 255>> \in Sums
  <2>1. 255 \in Byte
    BY DEF Byte
  <2>2. <<255, 255>> \in Sums
    BY <2>1, SumOf, Zenon
  <2> QED BY <2>2
<1>1. \A n \in 0..Len(s) : Runs(n) # {}
  <2> DEFINE T == {n \in 0..Len(s) : Runs(n) = {}}
  <2> SUFFICES ASSUME T # {}  PROVE FALSE
    OBVIOUS
  <2>0. T \subseteq Nat
    OBVIOUS
  <2>1. PICK k \in T : \A y \in T : ~ (y < k)
    <3> HIDE DEF T
    <3> QED BY <2>0, LeastNumber
  <2>2. k # 0
    <3> DEFINE z == [i \in 0..0 |-> <<255, 255>>]
    <3>1. z \in [0..0 -> Sums]
      BY <1>0
    <3>2. \A i \in 0..0 : z[i] = part(z, i)
      OBVIOUS
    <3>3. z \in Runs(0)
      BY <3>1, <3>2
    <3> HIDE DEF z, Runs
    <3> QED BY <3>3
  <2>3. PICK j \in Nat : j = k - 1
    BY <2>2
  <2>4. j \in 0..Len(s) /\ j < k /\ k = j + 1 /\ k \in 1..Len(s) /\ k \in Nat
    BY <2>3
  <2>5. PICK f : f \in Runs(j)
    BY <2>1, <2>4
  <2> DEFINE g == [i \in 0..k |-> IF i = k THEN Summed(f[j], s[k]) ELSE f[i]]
  <2>6. f \in [0..j -> Sums] /\ \A i \in 0..j : f[i] = part(f, i)
    BY <2>5
  <2>7. Summed(f[j], s[k]) \in Sums
    <3>1. f[j] \in Sums /\ s[k] \in Byte
      BY <2>4, <2>6
    <3> QED BY <3>1, SummedSum
  <2>8. g \in [0..k -> Sums]
    <3>1. ASSUME NEW i \in 0..k  PROVE g[i] \in Sums
      <4>1. CASE i = k
        BY <2>7, <4>1
      <4>2. CASE i # k
        <5>1. i \in 0..j
          BY <2>4, <4>2
        <5> QED BY <2>6, <4>2, <5>1
      <4> QED BY <4>1, <4>2
    <3> HIDE DEF Sums
    <3> QED BY <3>1
  <2>9. \A i \in 0..k : g[i] = part(g, i)
    <3> TAKE i \in 0..k
    <3>1. CASE i = k
      <4>1. k # 0 /\ k - 1 = j /\ j \in 0..k /\ j # k
        BY <2>4
      <4>2. g[j] = f[j] /\ g[k] = Summed(f[j], s[k])
        BY <4>1, <2>4
      <4> HIDE DEF g
      <4> QED BY <3>1, <4>1, <4>2
    <3>2. CASE i # k /\ i # 0
      <4>1. i \in 0..j /\ i - 1 \in 0..k /\ i - 1 # k
        BY <2>4, <3>2
      <4>2. g[i] = f[i] /\ g[i - 1] = f[i - 1]
        BY <4>1, <3>2
      <4>3. f[i] = Summed(f[i - 1], s[i])
        BY <2>6, <4>1, <3>2
      <4> HIDE DEF g
      <4> QED BY <4>2, <4>3, <3>2
    <3>3. CASE i # k /\ i = 0
      <4>1. i \in 0..j
        BY <2>4, <3>3
      <4> QED BY <2>6, <3>3, <4>1
    <3> QED BY <3>1, <3>2, <3>3
  <2>10. g \in Runs(k)
    <3> HIDE DEF g, part
    <3> QED BY <2>8, <2>9
  <2> HIDE DEF Runs
  <2> QED BY <2>1, <2>10
<1>2. \E f : f = [i \in D |-> part(f, i)]
  <2>1. PICK f : f \in Runs(Len(s))
    <3>1. Len(s) \in 0..Len(s)
      BY <1>0
    <3> HIDE DEF Runs
    <3> QED BY <1>1, <3>1
  <2>2. f = [i \in D |-> f[i]] /\ \A i \in D : f[i] = part(f, i)
    BY <2>1
  <2>3. f = [i \in D |-> part(f, i)]
    <3> HIDE DEF part
    <3> QED BY <2>2
  <2> QED BY <2>3
<1>3. sum = [i \in D |-> part(sum, i)]
  BY <1>2
<1>4. \A i \in D : sum[i] = part(sum, i)
  <2>1. PICK f : f = sum
    OBVIOUS
  <2> HIDE DEF sum
  <2>2. f = [i \in D |-> part(f, i)]
    BY <1>3, <2>1
  <2>3. \A i \in D : f[i] = part(f, i)
    <3> HIDE DEF part
    <3> QED BY <2>2
  <2> QED BY <2>1, <2>3
<1> HIDE DEF sum
<1>5. \A i \in D : sum[i] \in Sums
  <2> DEFINE T == {i \in D : sum[i] \notin Sums}
  <2> SUFFICES ASSUME T # {}  PROVE FALSE
    OBVIOUS
  <2>0. T \subseteq Nat
    OBVIOUS
  <2>1. PICK k \in T : \A y \in T : ~ (y < k)
    <3> HIDE DEF T
    <3> QED BY <2>0, LeastNumber
  <2>2. k # 0
    BY <1>0, <1>4
  <2>3. k \in D /\ k - 1 \in D /\ k - 1 < k /\ k \in 1..Len(s)
    BY <2>2
  <2>4. sum[k - 1] \in Sums
    BY <2>1, <2>3
  <2>5. s[k] \in Byte
    BY <2>3
  <2>6. sum[k] = Summed(sum[k - 1], s[k])
    BY <1>4, <2>2, <2>3
  <2>7. sum[k] \in Sums
    BY <2>4, <2>5, <2>6, SummedSum, Zenon
  <2> QED BY <2>7
<1>6. PICK v : v = sum[Len(s)]
  OBVIOUS
<1>7. v \in Sums
  BY <1>0, <1>5, <1>6
<1>8. countCRC(s) = <<255 - v[1], 255 - v[2]>>
  BY <1>6 DEF countCRC, sum
<1>9. \A a \in Byte : 255 - a \in Byte
  BY DEF Byte
<1>10. 255 - v[1] \in Byte /\ 255 - v[2] \in Byte
  BY <1>7, <1>9, PartsOf, Zenon
<1>11. <<255 - v[1], 255 - v[2]>> \in Sums
  BY <1>10, SumOf, Zenon
<1> QED BY <1>8, <1>11, Zenon

-----------------------------------------------------------------------------

(* The bytes t stand in s behind the first p.                              *)
Stands(s, p, t) == p + Len(t) <= Len(s) /\ \A i \in 1..Len(t) : s[p + i] = t[i]

(* Both parts of a concatenation stand in it.                              *)
LEMMA StandsFirst ==
  ASSUME NEW s \in Seq(Byte), NEW t \in Seq(Byte)
  PROVE  Stands(s \o t, 0, s) /\ Stands(s \o t, Len(s), t)
<1> DEFINE c == s \o t
<1>1. /\ Len(c) = Len(s) + Len(t) /\ Len(s) \in Nat /\ Len(t) \in Nat
      /\ \A i \in 1..(Len(s) + Len(t)) : c[i] = IF i <= Len(s) THEN s[i] ELSE t[i - Len(s)]
  <2>1. Len(s) \in Nat /\ Len(t) \in Nat
    OBVIOUS
  <2>2. /\ Len(c) = Len(s) + Len(t)
        /\ \A i \in 1..(Len(s) + Len(t)) : c[i] = IF i <= Len(s) THEN s[i] ELSE t[i - Len(s)]
    BY ConcatProperties
  <2> QED BY <2>1, <2>2
<1> HIDE DEF c
<1>2. 0 + Len(s) <= Len(c) /\ \A i \in 1..Len(s) : c[0 + i] = s[i]
  BY <1>1
<1>3. Len(s) + Len(t) <= Len(c) /\ \A i \in 1..Len(t) : c[Len(s) + i] = t[i]
  BY <1>1
<1> QED BY <1>2, <1>3 DEF Stands, c

(* What stands in a part stands in the whole.                              *)
LEMMA StandsWithin ==
  ASSUME NEW s \in Seq(Byte), NEW t \in Seq(Byte), NEW u \in Seq(Byte),
         NEW p \in Nat, NEW q \in Nat, Stands(s, p, t), Stands(t, q, u)
  PROVE  Stands(s, p + q, u)
<1>0. Len(s) \in Nat /\ Len(t) \in Nat /\ Len(u) \in Nat
  OBVIOUS
<1>1. p + Len(t) <= Len(s) /\ \A i \in 1..Len(t) : s[p + i] = t[i]
  BY DEF Stands
<1>2. q + Len(u) <= Len(t) /\ \A i \in 1..Len(u) : t[q + i] = u[i]
  BY DEF Stands
<1>3. (p + q) + Len(u) <= Len(s)
  BY <1>0, <1>1, <1>2
<1>4. ASSUME NEW i \in 1..Len(u)  PROVE s[(p + q) + i] = u[i]
  <2>1. q + i \in 1..Len(t) /\ p + (q + i) = (p + q) + i
    BY <1>0, <1>2
  <2> QED BY <1>1, <1>2, <2>1
<1> QED BY <1>3, <1>4 DEF Stands

(* The bytes t are cut out of s behind the first p.                        *)
ReadBack(s, p, t) == SubSeq(s, p + 1, p + Len(t)) = t

(* What stands somewhere is cut out there.                                 *)
LEMMA StandsSubSeq ==
  ASSUME NEW s \in Seq(Byte), NEW t \in Seq(Byte), NEW p \in Nat, Stands(s, p, t)
  PROVE  ReadBack(s, p, t)
<1> DEFINE u == SubSeq(s, p + 1, p + Len(t))
<1>0. Len(s) \in Nat /\ Len(t) \in Nat /\ p + Len(t) <= Len(s)
      /\ \A i \in 1..Len(t) : s[p + i] = t[i]
  <2>1. Len(s) \in Nat /\ Len(t) \in Nat
    OBVIOUS
  <2> QED BY <2>1 DEF Stands
<1>1. p + 1 \in Int /\ p + Len(t) \in Int /\ \A i \in (p + 1)..(p + Len(t)) : s[i] \in Byte
  BY <1>0
<1>2. /\ u \in Seq(Byte)
      /\ Len(u) = IF p + 1 <= p + Len(t) THEN p + Len(t) - (p + 1) + 1 ELSE 0
      /\ \A i \in 1..(p + Len(t) - (p + 1) + 1) : u[i] = s[p + 1 + i - 1]
  BY <1>1, SubSeqProperties
<1> HIDE DEF u
<1>3. Len(u) = Len(t)
  BY <1>0, <1>2
<1>4. ASSUME NEW i \in 1..Len(u)  PROVE u[i] = t[i]
  <2>1. i \in 1..(p + Len(t) - (p + 1) + 1) /\ p + 1 + i - 1 = p + i /\ i \in 1..Len(t)
    BY <1>0, <1>3
  <2> QED BY <1>0, <1>2, <2>1
<1>5. u = t
  BY <1>2, <1>3, <1>4, SeqEqual
<1> QED BY <1>5 DEF u, ReadBack

(* An address has one to four bytes.                                       *)
LEMMA AddressBytes ==
  ASSUME NEW v \in Numbers
  PROVE  /\ dlms_getAddressBytes(v) \in Seq(Byte)
         /\ Len(dlms_getAddressBytes(v)) \in 1..4
<1>1. v \in Nat
  BY DEF Numbers
<1>2. \A u \in Nat : Upper(u) \in Nat /\ Inner(u) \in Byte /\ Final(u) \in Byte
  BY DEF Upper, Inner, Final, Byte
<1>3. PICK a, b, c, d : a = Final(v) /\ b = Inner(Upper(v)) /\ c = Inner(Upper(Upper(v)))
                        /\ d = Inner(Upper(Upper(Upper(v))))
  OBVIOUS
<1>4. a \in Byte /\ b \in Byte /\ c \in Byte /\ d \in Byte
  BY <1>1, <1>2, <1>3, Zenon
<1>5. dlms_getAddressBytes(v) \in {<<a>>, <<b, a>>, <<d, c, b, a>>}
  BY <1>3 DEF dlms_getAddressBytes
<1>6. \A t \in {<<a>>, <<b, a>>, <<d, c, b, a>>} : t \in Seq(Byte) /\ Len(t) \in 1..4
  <2>1. <<a>> \in Seq(Byte) /\ Len(<<a>>) = 1
    BY <1>4
  <2>2. <<b, a>> \in Seq(Byte) /\ Len(<<b, a>>) = 2
    BY <1>4
  <2>3. <<d, c, b, a>> \in Seq(Byte) /\ Len(<<d, c, b, a>>) = 4
    BY <1>4
  <2>4. 1 \in 1..4 /\ 2 \in 1..4 /\ 4 \in 1..4
    OBVIOUS
  <2> QED BY <2>1, <2>2, <2>3, <2>4, Zenon
<1> QED BY <1>5, <1>6, Zenon

(* What the parts of a frame are and where they stand.                     *)
Addresses(to, from) == dlms_getAddressBytes(to) \o dlms_getAddressBytes(from)
Length(to, from, info) ==
  Len(Addresses(to, from)) + (IF info = <<>> THEN 5 ELSE 7 + Len(info))
Format(to, from, more, info) ==
  <<160 + (IF more THEN 8 ELSE 0) + ((Length(to, from, info) \div 256) % 8),
    Length(to, from, info) % 256>>
Header(to, from, frame, more, info) ==
  Format(to, from, more, info) \o Addresses(to, from) \o <<frame>>
Content(to, from, frame, more, info) ==
  Header(to, from, frame, more, info) \o countCRC(Header(to, from, frame, more, info)) \o info

(* A frame is made of these parts (dlms_getHdlcFrame).                     *)
LEMMA FrameParts ==
  ASSUME NEW to, NEW from, NEW frame, NEW more, NEW info
  PROVE  Frame(to, from, frame, more, info) =
           <<Flag>> \o Content(to, from, frame, more, info)
           \o (IF info = <<>> THEN <<>> ELSE countCRC(Content(to, from, frame, more, info)))
           \o <<Flag>>
  BY DEF Frame, Content, Header, Format, Length, Addresses

(* The type and the length of a concatenation of bytes.                    *)
LEMMA Concat ==
  ASSUME NEW s \in Seq(Byte), NEW t \in Seq(Byte)
  PROVE  s \o t \in Seq(Byte) /\ Len(s \o t) = Len(s) + Len(t)
  BY ConcatProperties

(* A sum is a sequence of two bytes.                                       *)
LEMMA Pair ==
  ASSUME NEW v \in Sums
  PROVE  v \in Seq(Byte) /\ Len(v) = 2
<1>1. PICK a, b \in Byte : v = <<a, b>>
  BY DEF Sums
<1>2. <<a, b>> \in Seq(Byte) /\ Len(<<a, b>>) = 2
  OBVIOUS
<1> QED BY <1>1, <1>2

(* The types and the lengths of the parts before the information.          *)
LEMMA HeaderBytes ==
  ASSUME NEW to \in Numbers, NEW from \in Numbers, NEW frame \in Byte, NEW more \in BOOLEAN,
         NEW info \in Seq(Byte)
  PROVE  /\ Addresses(to, from) \in Seq(Byte) /\ Len(Addresses(to, from)) \in 2..8
         /\ Len(Addresses(to, from))
              = Len(dlms_getAddressBytes(to)) + Len(dlms_getAddressBytes(from))
         /\ Length(to, from, info) \in Nat
         /\ Format(to, from, more, info) \in Seq(Byte) /\ Len(Format(to, from, more, info)) = 2
         /\ Header(to, from, frame, more, info) \in Seq(Byte)
         /\ Len(Header(to, from, frame, more, info)) = Len(Addresses(to, from)) + 3
<1> DEFINE t == dlms_getAddressBytes(to)
           f == dlms_getAddressBytes(from)
           A == Addresses(to, from)
           n == Length(to, from, info)
           F == Format(to, from, more, info)
           H == Header(to, from, frame, more, info)
<1>1. t \in Seq(Byte) /\ f \in Seq(Byte) /\ Len(t) \in 1..4 /\ Len(f) \in 1..4
  BY AddressBytes
<1>2. A = t \o f
  BY DEF Addresses
<1> HIDE DEF t, f, A
<1>3. A \in Seq(Byte) /\ Len(A) = Len(t) + Len(f)
  BY <1>1, <1>2, Concat
<1>4. Len(A) \in 2..8
  <2>1. \A i, j \in 1..4 : i + j \in 2..8
    OBVIOUS
  <2> QED BY <1>1, <1>3, <2>1, Zenon
<1>5. n \in Nat
  <2>1. n = Len(A) + (IF info = <<>> THEN 5 ELSE 7 + Len(info))
    BY DEF Length, A
  <2> QED BY <1>4, <2>1
<1> HIDE DEF n
<1>6. PICK x, y : /\ x = 160 + (IF more THEN 8 ELSE 0) + ((n \div 256) % 8)
                  /\ y = n % 256
  OBVIOUS
<1>7. x \in Byte /\ y \in Byte
  <2>1. (n \div 256) % 8 \in 0..7 /\ n % 256 \in 0..255
    BY <1>5
  <2>2. \A r \in 0..7 : 160 + (IF more THEN 8 ELSE 0) + r \in 0..255
    OBVIOUS
  <2> QED BY <1>6, <2>1, <2>2 DEF Byte
<1>8. F = <<x, y>>
  BY <1>6 DEF Format, n
<1> HIDE DEF F
<1>9. F \in Seq(Byte) /\ Len(F) = 2
  BY <1>7, <1>8
<1>10. <<frame>> \in Seq(Byte) /\ Len(<<frame>>) = 1
  OBVIOUS
<1>11. H = (F \o A) \o <<frame>>
  BY DEF Header, F, A
<1> HIDE DEF H
<1>12. (F \o A) \in Seq(Byte) /\ Len(F \o A) = 2 + Len(A)
  BY <1>3, <1>9, Concat
<1>13. H \in Seq(Byte) /\ Len(H) = Len(A) + 3
  <2>1. H \in Seq(Byte) /\ Len(H) = Len(F \o A) + Len(<<frame>>)
    BY <1>10, <1>11, <1>12, Concat
  <2>2. \A k, l \in Nat : l = 2 + k => l + 1 = k + 3
    OBVIOUS
  <2>3. Len(A) \in Nat /\ Len(F \o A) \in Nat
    BY <1>3, <1>12
  <2> QED BY <1>10, <1>12, <2>1, <2>2, <2>3, Zenon
<1> QED BY <1>3, <1>4, <1>5, <1>9, <1>13 DEF t, f, A, n, F, H

(* The parts between the flags stand where the format says,                *)
LEMMA ContentBytes ==
  ASSUME NEW to \in Numbers, NEW from \in Numbers, NEW frame \in Byte, NEW more \in BOOLEAN,
         NEW info \in Seq(Byte), NEW H, H = Header(to, from, frame, more, info),
         NEW C, C = Content(to, from, frame, more, info)
  PROVE  /\ C \in Seq(Byte) /\ Len(C) = Len(H) + 2 + Len(info)
         /\ Stands(C, 0, H) /\ Stands(C, Len(H), countCRC(H)) /\ Stands(C, Len(H) + 2, info)
<1> DEFINE X == countCRC(H)
<1>1. H \in Seq(Byte) /\ Len(H) \in Nat
  BY HeaderBytes
<1>2. X \in Seq(Byte) /\ Len(X) = 2
  BY <1>1, CRCIsSum, Pair, Zenon
<1>3. C = (H \o X) \o info
  BY DEF Content
<1> HIDE DEF X
<1>4. H \o X \in Seq(Byte) /\ Len(H \o X) = Len(H) + 2
  <2>1. H \o X \in Seq(Byte)
    BY <1>1, <1>2, Concat, Zenon
  <2>2. Len(H \o X) = Len(H) + Len(X)
    BY <1>1, <1>2, Concat, Zenon
  <2> QED BY <1>2, <2>1, <2>2, Zenon
<1>5. C \in Seq(Byte) /\ Len(C) = Len(H) + 2 + Len(info)
  BY <1>3, <1>4, Concat
<1>6. Stands(C, 0, H \o X) /\ Stands(C, Len(H) + 2, info)
  BY <1>3, <1>4, StandsFirst
<1>7. Stands(H \o X, 0, H) /\ Stands(H \o X, Len(H), X)
  BY <1>1, <1>2, StandsFirst
<1>8. Stands(C, 0 + 0, H) /\ Stands(C, 0 + Len(H), X)
  <2>1. 0 \in Nat
    OBVIOUS
  <2> QED BY <1>1, <1>2, <1>4, <1>5, <1>6, <1>7, <2>1, StandsWithin, Zenon
<1>9. 0 + 0 = 0 /\ 0 + Len(H) = Len(H)
  BY <1>1
<1> QED BY <1>5, <1>6, <1>8, <1>9, Zenon DEF X

(* the parts of the header in the header,                                  *)
LEMMA HeaderLayout ==
  ASSUME NEW to \in Numbers, NEW from \in Numbers, NEW frame \in Byte, NEW more \in BOOLEAN,
         NEW info \in Seq(Byte), NEW H, H = Header(to, from, frame, more, info)
  PROVE  /\ Stands(H, 0, Format(to, from, more, info))
         /\ Stands(H, 2, dlms_getAddressBytes(to))
         /\ Stands(H, 2 + Len(dlms_getAddressBytes(to)), dlms_getAddressBytes(from))
         /\ Stands(H, 2 + Len(Addresses(to, from)), <<frame>>)
<1> DEFINE t == dlms_getAddressBytes(to)
           f == dlms_getAddressBytes(from)
           A == Addresses(to, from)
           F == Format(to, from, more, info)
<1>1. /\ t \in Seq(Byte) /\ f \in Seq(Byte) /\ A \in Seq(Byte) /\ F \in Seq(Byte)
      /\ Len(F) = 2 /\ H \in Seq(Byte)
  BY AddressBytes, HeaderBytes
<1>2. H = (F \o A) \o <<frame>> /\ A = t \o f
  BY DEF Header, Addresses
<1> HIDE DEF t, f, A, F
<1>3. F \o A \in Seq(Byte) /\ Len(F \o A) = 2 + Len(A) /\ <<frame>> \in Seq(Byte)
  <2>1. F \o A \in Seq(Byte)
    BY <1>1, Concat, Zenon
  <2>2. Len(F \o A) = Len(F) + Len(A)
    BY <1>1, Concat, Zenon
  <2>3. Len(F \o A) = 2 + Len(A)
    BY <1>1, <2>2, Zenon
  <2> QED BY <2>1, <2>3
<1>4. Stands(H, 0, F \o A) /\ Stands(H, 2 + Len(A), <<frame>>)
  BY <1>2, <1>3, StandsFirst
<1>5. Stands(F \o A, 0, F) /\ Stands(F \o A, 2, A)
  BY <1>1, StandsFirst
<1>6. Stands(A, 0, t) /\ Stands(A, Len(t), f)
  BY <1>1, <1>2, StandsFirst
<1>7. 0 \in Nat /\ 2 \in Nat /\ Len(t) \in Nat /\ 0 + 2 = 2 /\ 0 + 0 = 0 /\ 2 + 0 = 2
  BY <1>1
<1>8. Stands(H, 0, F) /\ Stands(H, 2, A)
  BY <1>1, <1>3, <1>4, <1>5, <1>7, StandsWithin
<1>9. Stands(H, 2 + 0, t) /\ Stands(H, 2 + Len(t), f)
  BY <1>1, <1>6, <1>7, <1>8, StandsWithin, Zenon
<1> QED BY <1>4, <1>7, <1>8, <1>9 DEF t, f, A, F

(* The frame check sum, which a frame without information does not have.   *)
Trailer(to, from, frame, more, info) ==
  IF info = <<>> THEN <<>> ELSE countCRC(Content(to, from, frame, more, info))

(* Where the parts of a frame stand in s, with or without information.     *)
Placed(s, H, C, T, info) ==
  /\ s \in Seq(Byte) /\ C \in Seq(Byte) /\ T \in Seq(Byte) /\ H \in Seq(Byte)
  /\ Len(C) = Len(H) + 2 + Len(info)
  /\ Len(T) = (IF info = <<>> THEN 0 ELSE 2) /\ Len(s) = Len(C) + Len(T) + 2
  /\ Stands(s, 0, <<Flag>>) /\ Stands(s, 1, C) /\ Stands(s, Len(C) + 1, T)
  /\ Stands(s, Len(C) + Len(T) + 1, <<Flag>>)
  /\ Stands(s, 1, H) /\ Stands(s, Len(H) + 1, countCRC(H)) /\ Stands(s, Len(H) + 3, info)

(* All of them stand in the frame where the format says.                   *)
LEMMA FramePlaced ==
  ASSUME NEW to \in Numbers, NEW from \in Numbers, NEW frame \in Byte, NEW more \in BOOLEAN,
         NEW info \in Seq(Byte)
  PROVE  Placed(Frame(to, from, frame, more, info), Header(to, from, frame, more, info),
                Content(to, from, frame, more, info), Trailer(to, from, frame, more, info), info)
<1> DEFINE H == Header(to, from, frame, more, info)
           C == Content(to, from, frame, more, info)
           s == Frame(to, from, frame, more, info)
           X == Trailer(to, from, frame, more, info)
           Y == countCRC(H)
           G == <<Flag>>
<1>1. /\ C \in Seq(Byte) /\ Stands(C, 0, H) /\ Stands(C, Len(H), Y)
      /\ Stands(C, Len(H) + 2, info) /\ Len(C) = Len(H) + 2 + Len(info)
  BY ContentBytes
<1>2. H \in Seq(Byte) /\ Y \in Seq(Byte)
  BY HeaderBytes, CRCIsSum, Pair, Zenon
<1>3. X \in Seq(Byte) /\ Len(X) = IF info = <<>> THEN 0 ELSE 2
  <2>1. CASE info = <<>>
    <3>1. X = <<>>
      BY <2>1 DEF Trailer
    <3> QED BY <2>1, <3>1
  <2>2. CASE info # <<>>
    <3>1. X = countCRC(C)
      BY <2>2 DEF Trailer
    <3>2. X \in Seq(Byte) /\ Len(X) = 2
      BY <1>1, <3>1, CRCIsSum, Pair, Zenon
    <3> QED BY <2>2, <3>2
  <2> QED BY <2>1, <2>2
<1>4. G \in Seq(Byte) /\ Len(G) = 1
  BY DEF Flag, Byte
<1>5. s = ((G \o C) \o X) \o G
  BY FrameParts DEF Trailer
<1> HIDE DEF X, Y, G, C, H, s
<1>6. PICK n, l \in Nat : n = Len(C) /\ l = Len(X)
  BY <1>1, <1>3
<1>7. G \o C \in Seq(Byte) /\ Len(G \o C) = n + 1
  <2>1. G \o C \in Seq(Byte)
    BY <1>1, <1>4, Concat, Zenon
  <2>2. Len(G \o C) = Len(G) + Len(C)
    BY <1>1, <1>4, Concat, Zenon
  <2>3. Len(G \o C) = 1 + n
    BY <1>4, <1>6, <2>2, Zenon
  <2> QED BY <1>6, <2>1, <2>3
<1>8. (G \o C) \o X \in Seq(Byte) /\ Len((G \o C) \o X) = n + l + 1
  <2>1. (G \o C) \o X \in Seq(Byte)
    BY <1>3, <1>7, Concat, Zenon
  <2>2. Len((G \o C) \o X) = Len(G \o C) + Len(X)
    BY <1>3, <1>7, Concat, Zenon
  <2>3. Len((G \o C) \o X) = (n + 1) + l
    BY <1>6, <1>7, <2>2, Zenon
  <2>4. (n + 1) + l = n + l + 1
    OBVIOUS
  <2> QED BY <2>1, <2>3, <2>4
<1>9. s \in Seq(Byte) /\ Len(s) = n + l + 2
  <2>1. s \in Seq(Byte)
    BY <1>4, <1>5, <1>8, Concat, Zenon
  <2>2. Len(s) = Len((G \o C) \o X) + Len(G)
    BY <1>4, <1>5, <1>8, Concat, Zenon
  <2>3. Len(s) = (n + l + 1) + 1
    BY <1>4, <1>8, <2>2, Zenon
  <2>4. (n + l + 1) + 1 = n + l + 2
    OBVIOUS
  <2> QED BY <2>1, <2>3, <2>4
<1>10. Stands(s, 0, (G \o C) \o X) /\ Stands(s, n + l + 1, G)
  <2>1. Stands(s, 0, (G \o C) \o X) /\ Stands(s, Len((G \o C) \o X), G)
    BY <1>4, <1>5, <1>8, StandsFirst
  <2> QED BY <1>8, <2>1, Zenon
<1>11. Stands((G \o C) \o X, 0, G \o C) /\ Stands((G \o C) \o X, n + 1, X)
  <2>1. Stands((G \o C) \o X, 0, G \o C) /\ Stands((G \o C) \o X, Len(G \o C), X)
    BY <1>3, <1>7, StandsFirst
  <2> QED BY <1>7, <2>1, Zenon
<1>12. Stands(G \o C, 0, G) /\ Stands(G \o C, 1, C)
  BY <1>1, <1>4, StandsFirst
<1>n. /\ 0 \in Nat /\ 1 \in Nat /\ n + 1 \in Nat /\ Len(H) \in Nat /\ Len(H) + 2 \in Nat
      /\ 0 + 0 = 0 /\ 0 + 1 = 1 /\ 1 + 0 = 1 /\ 0 + (n + 1) = n + 1
      /\ 1 + Len(H) = Len(H) + 1 /\ 1 + (Len(H) + 2) = Len(H) + 3
  BY <1>2
<1>13. Stands(s, 0 + 0, G \o C) /\ Stands(s, 0 + (n + 1), X)
  BY <1>3, <1>7, <1>8, <1>9, <1>10, <1>11, <1>n, StandsWithin, Zenon
<1>14. Stands(s, 0, G \o C) /\ Stands(s, n + 1, X)
  BY <1>13, <1>n, Zenon
<1>15. Stands(s, 0 + 0, G) /\ Stands(s, 0 + 1, C)
  BY <1>1, <1>4, <1>7, <1>9, <1>12, <1>14, <1>n, StandsWithin, Zenon
<1>16. Stands(s, 0, G) /\ Stands(s, 1, C)
  BY <1>15, <1>n, Zenon
<1>17. /\ Stands(s, 1 + 0, H) /\ Stands(s, 1 + Len(H), Y)
       /\ Stands(s, 1 + (Len(H) + 2), info)
  BY <1>1, <1>2, <1>9, <1>16, <1>n, StandsWithin, Zenon
<1>18. Stands(s, 1, H) /\ Stands(s, Len(H) + 1, Y) /\ Stands(s, Len(H) + 3, info)
  BY <1>17, <1>n, Zenon
<1>19. Stands(s, n + l + 1, G) /\ Stands(s, n + 1, X)
  BY <1>10, <1>14
<1>20. Stands(s, Len(C) + 1, X) /\ Stands(s, Len(C) + Len(X) + 1, G) /\ Len(s) = Len(C) + Len(X) + 2
  BY <1>6, <1>9, <1>19
<1>21. Placed(s, H, C, X, info)
  BY <1>1, <1>2, <1>3, <1>9, <1>16, <1>18, <1>20 DEF Placed, Y, G
<1> QED BY <1>21 DEF s, H, C, X

(* The same of a frame with information.                                   *)
LEMMA FrameLayout ==
  ASSUME NEW to \in Numbers, NEW from \in Numbers, NEW frame \in Byte, NEW more \in BOOLEAN,
         NEW info \in Seq(Byte), info # <<>>,
         NEW H, H = Header(to, from, frame, more, info),
         NEW C, C = Content(to, from, frame, more, info),
         NEW s, s = Frame(to, from, frame, more, info)
  PROVE  /\ s \in Seq(Byte) /\ Len(s) = Len(C) + 4
         /\ Stands(s, 0, <<Flag>>) /\ Stands(s, 1, C) /\ Stands(s, Len(C) + 1, countCRC(C))
         /\ Stands(s, Len(C) + 3, <<Flag>>)
         /\ Stands(s, 1, H) /\ Stands(s, Len(H) + 1, countCRC(H)) /\ Stands(s, Len(H) + 3, info)
<1>1. PICK X : X = countCRC(C)
  OBVIOUS
<1>2. Trailer(to, from, frame, more, info) = X
  BY <1>1 DEF Trailer
<1>3. Placed(s, H, C, X, info)
  BY <1>2, FramePlaced
<1>4. /\ s \in Seq(Byte) /\ C \in Seq(Byte) /\ Len(X) = 2 /\ Len(s) = Len(C) + Len(X) + 2
      /\ Stands(s, 0, <<Flag>>) /\ Stands(s, 1, C) /\ Stands(s, Len(C) + 1, X)
      /\ Stands(s, Len(C) + Len(X) + 1, <<Flag>>)
      /\ Stands(s, 1, H) /\ Stands(s, Len(H) + 1, countCRC(H)) /\ Stands(s, Len(H) + 3, info)
  BY <1>3 DEF Placed
<1>5. Len(s) = Len(C) + 4 /\ Len(C) + Len(X) + 1 = Len(C) + 3
  <2>1. Len(C) \in Nat
    BY <1>4
  <2> QED BY <1>4, <2>1
<1> QED BY <1>1, <1>4, <1>5

(* The lengths that fit into the format.                                   *)
Lengths == 0..2047

(* The format says how long the frame is and whether another follows.      *)
FirstFormat(n, more) == 160 + (IF more THEN 8 ELSE 0) + ((n \div 256) % 8)
(* x, the first byte of the format, tells the length n and whether another *)
(* frame follows.                                                          *)
Says(x, n, more) ==
  /\ x \in Byte /\ x \div 16 = 10
  /\ (x \div 8) % 2 = 1 <=> more
  /\ n \in Lengths => 256 * (x % 8) + (n % 256) = n

(* The format byte the library writes tells both.                          *)
LEMMA FormatRead ==
  ASSUME NEW n \in Nat, NEW more \in BOOLEAN
  PROVE  Says(FirstFormat(n, more), n, more)
<1>0. PICK x : x = FirstFormat(n, more)
  OBVIOUS
<1>1. PICK r : r = (n \div 256) % 8
  OBVIOUS
<1>2. r \in 0..7
  BY <1>1
<1>3. CASE more
  <2>1. x = 168 + r
    BY <1>0, <1>1, <1>2, <1>3 DEF FirstFormat
  <2>2. \A q \in 0..7 : /\ 168 + q \in 0..255 /\ (168 + q) \div 16 = 10
                        /\ ((168 + q) \div 8) % 2 = 1 /\ (168 + q) % 8 = q
    OBVIOUS
  <2>3. x \in 0..255 /\ x \div 16 = 10 /\ (x \div 8) % 2 = 1 /\ x % 8 = r
    <3>1. /\ 168 + r \in 0..255 /\ (168 + r) \div 16 = 10
          /\ ((168 + r) \div 8) % 2 = 1 /\ (168 + r) % 8 = r
      BY <1>2, <2>2, Zenon
    <3> QED BY <2>1, <3>1
  <2>4. n \in Lengths => 256 * r + (n % 256) = n
    BY <1>1 DEF Lengths
  <2>5. n \in Lengths => 256 * (x % 8) + (n % 256) = n
    BY <2>3, <2>4
  <2> QED BY <1>0, <1>3, <2>3, <2>5 DEF Byte, Says
<1>4. CASE ~ more
  <2>1. x = 160 + r
    BY <1>0, <1>1, <1>2, <1>4 DEF FirstFormat
  <2>2. \A q \in 0..7 : /\ 160 + q \in 0..255 /\ (160 + q) \div 16 = 10
                        /\ ((160 + q) \div 8) % 2 = 0 /\ (160 + q) % 8 = q
    OBVIOUS
  <2>3. x \in 0..255 /\ x \div 16 = 10 /\ (x \div 8) % 2 = 0 /\ x % 8 = r
    <3>1. /\ 160 + r \in 0..255 /\ (160 + r) \div 16 = 10
          /\ ((160 + r) \div 8) % 2 = 0 /\ (160 + r) % 8 = r
      BY <1>2, <2>2, Zenon
    <3> QED BY <2>1, <3>1
  <2>4. n \in Lengths => 256 * r + (n % 256) = n
    BY <1>1 DEF Lengths
  <2>5. n \in Lengths => 256 * (x % 8) + (n % 256) = n
    BY <2>3, <2>4
  <2>6. ~ ((x \div 8) % 2 = 1)
    BY <2>3
  <2> QED BY <1>0, <1>4, <2>3, <2>5, <2>6 DEF Byte, Says
<1> QED BY <1>3, <1>4

(* A byte that stands somewhere is read there,                             *)
LEMMA StandsByte ==
  ASSUME NEW s \in Seq(Byte), NEW p \in Nat, NEW b, Stands(s, p, <<b>>)
  PROVE  At(s, p) = b /\ p < Len(s)
<1>1. Len(<<b>>) = 1 /\ <<b>>[1] = b /\ 1 \in 1..1
  OBVIOUS
<1>2. p + 1 <= Len(s) /\ s[p + 1] = b
  BY <1>1 DEF Stands
<1> QED BY <1>2 DEF At

(* and so are two.                                                         *)
LEMMA StandsWord ==
  ASSUME NEW s \in Seq(Byte), NEW p \in Nat, NEW v \in Sums, Stands(s, p, v)
  PROVE  Word(s, p) = v
<1>1. PICK a, b \in Byte : v = <<a, b>>
  BY DEF Sums
<1>2. Len(v) = 2 /\ v[1] = a /\ v[2] = b
  BY <1>1
<1>3. \A i \in 1..2 : s[p + i] = v[i]
  BY <1>2 DEF Stands
<1>4. s[p + 1] = a /\ s[p + 2] = b
  BY <1>2, <1>3
<1>5. p + 1 + 1 = p + 2
  OBVIOUS
<1>6. Word(s, p) = <<a, b>>
  BY <1>4, <1>5 DEF Word, At
<1> QED BY <1>1, <1>6

(* Where an address stands it is read.                                     *)
LEMMA AddressRead ==
  ASSUME NEW v \in Numbers, NEW s \in Seq(Byte), NEW p \in Nat,
         Stands(s, p, dlms_getAddressBytes(v))
  PROVE  ReadAs(s, p, v)
<1>1. /\ p + Len(dlms_getAddressBytes(v)) <= Len(s)
      /\ \A i \in 1..Len(dlms_getAddressBytes(v)) :
           s[p + i] = dlms_getAddressBytes(v)[i]
  BY Zenon DEF Stands
<1> QED BY <1>1, AddressRoundTrip, Zenon

(* Who reads is the server, so that the client's frames are no echo.       *)
IsServer(conf) == conf.server = TRUE

(* A frame of length l is readable in w at position b: its flags, its      *)
(* format, its control byte at b + n, both check sums, its information.    *)
Readable(w, b, n, l, frame, more, info) ==
  /\ n \in Nat /\ n > 4 /\ l = n + (IF info = <<>> THEN 2 ELSE 4 + Len(info))
  /\ b + l + 2 <= Len(w)
  /\ At(w, b) = Flag /\ At(w, b + l + 1) = Flag
  /\ At(w, b + 1) \div 16 = 10 /\ ((At(w, b + 1) \div 8) % 2 = 1 <=> more)
  /\ 256 * (At(w, b + 1) % 8) + At(w, b + 2) = l
  /\ At(w, b + n) = frame
  /\ HeaderRight(w, b, b + n) /\ FrameRight(w, b, l, b + n)
  /\ Stands(w, b + n + 3, info)

(* Where a frame stands it is readable.                                    *)
LEMMA FrameReadable ==
  ASSUME NEW to \in Numbers, NEW from \in Numbers, NEW frame \in Byte, NEW more \in BOOLEAN,
         NEW info \in Seq(Byte), Length(to, from, info) \in Lengths,
         NEW w \in Seq(Byte), NEW b \in Nat, Stands(w, b, Frame(to, from, frame, more, info))
  PROVE  Readable(w, b, Len(Header(to, from, frame, more, info)), Length(to, from, info),
                  frame, more, info)
<1> DEFINE s == Frame(to, from, frame, more, info)
           H == Header(to, from, frame, more, info)
           C == Content(to, from, frame, more, info)
           T == Trailer(to, from, frame, more, info)
           L == Length(to, from, info)
           F == Format(to, from, more, info)
           k == Len(info)
           n == Len(H)
<1>0. /\ H = Header(to, from, frame, more, info) /\ C = Content(to, from, frame, more, info)
      /\ L = Length(to, from, info) /\ F = Format(to, from, more, info)
  OBVIOUS
<1>p. Placed(s, H, C, T, info)
  BY FramePlaced
<1>h. /\ H \in Seq(Byte) /\ F \in Seq(Byte) /\ Len(F) = 2 /\ <<frame>> \in Seq(Byte)
      /\ n = Len(Addresses(to, from)) + 3 /\ Len(Addresses(to, from)) \in 2..8
      /\ L \in Nat
  BY HeaderBytes
<1>l. Stands(H, 0, F) /\ Stands(H, 2 + Len(Addresses(to, from)), <<frame>>)
  BY HeaderLayout, Zenon
<1>t. info # <<>> => T = countCRC(C)
  BY DEF Trailer
<1>s. Stands(w, b, s)
  OBVIOUS
<1>a. PICK a \in 2..8 : a = Len(Addresses(to, from))
  BY <1>h
<1>2. L = a + (IF info = <<>> THEN 5 ELSE 7 + k)
  BY <1>a DEF Length
<1>k. k = Len(info) /\ k \in Nat /\ (info = <<>> <=> k = 0)
  OBVIOUS
<1>L. L \in Lengths
  OBVIOUS
<1>n. n = Len(H)
  OBVIOUS
<1> HIDE DEF s, H, C, T, L, F, k, n
<1>3. n = a + 3 /\ n = Len(H) /\ n \in Nat /\ n > 4 /\ 2 + a = n - 1 /\ n - 1 \in Nat
  <2>1. n = a + 3
    BY <1>a, <1>h, <1>n, Zenon
  <2> QED BY <1>n, <2>1
<1>4. /\ s \in Seq(Byte) /\ C \in Seq(Byte) /\ T \in Seq(Byte) /\ H \in Seq(Byte)
      /\ Len(C) = n + 2 + k /\ Len(T) = (IF info = <<>> THEN 0 ELSE 2)
      /\ Len(s) = Len(C) + Len(T) + 2
      /\ Stands(s, 0, <<Flag>>) /\ Stands(s, 1, C) /\ Stands(s, Len(C) + 1, T)
      /\ Stands(s, Len(C) + Len(T) + 1, <<Flag>>)
      /\ Stands(s, 1, H) /\ Stands(s, n + 1, countCRC(H)) /\ Stands(s, n + 3, info)
  BY <1>3, <1>k, <1>p, Zenon DEF Placed
<1>5. /\ L = n + (IF info = <<>> THEN 2 ELSE 4 + k)
      /\ Len(s) = L + 2 /\ Len(C) + Len(T) + 1 = L + 1
      /\ info # <<>> => Len(C) + 1 = L - 1
  <2>1. CASE info = <<>>
    <3>1. L = a + 5 /\ Len(T) = 0 /\ k = 0
      BY <1>2, <1>4, <1>k, <2>1
    <3> QED BY <1>3, <1>4, <2>1, <3>1
  <2>2. CASE info # <<>>
    <3>1. L = a + (7 + k) /\ Len(T) = 2
      BY <1>2, <1>4, <2>2
    <3> QED BY <1>3, <1>4, <1>k, <2>2, <3>1
  <2> QED BY <2>1, <2>2
<1>g. <<Flag>> \in Seq(Byte)
  BY DEF Flag, Byte
<1>c. /\ 0 \in Nat /\ 1 \in Nat /\ n + 1 \in Nat /\ n + 3 \in Nat /\ L \in Nat /\ L + 1 \in Nat
      /\ b + 1 \in Nat /\ b + 0 = b /\ 1 + 0 = 1 /\ 1 + (n - 1) = n /\ b + n \in Nat
      /\ b + (L + 1) = b + L + 1 /\ b + (n + 1) = b + n + 1 /\ b + (n + 3) = b + n + 3
      /\ b + n + 1 \in Nat /\ b + L + 1 \in Nat
  BY <1>3, <1>h
<1>6. Stands(w, b + 0, <<Flag>>) /\ Stands(w, b + (L + 1), <<Flag>>)
  <2>1. Stands(s, L + 1, <<Flag>>)
    BY <1>4, <1>5
  <2> QED BY <1>4, <1>c, <1>g, <1>s, <2>1, StandsWithin, Zenon
<1>7. At(w, b) = Flag /\ At(w, b + L + 1) = Flag
  <2>1. Stands(w, b, <<Flag>>) /\ Stands(w, b + L + 1, <<Flag>>)
    BY <1>6, <1>c, Zenon
  <2> QED BY <2>1, <1>c, StandsByte, Zenon
<1>8. Stands(w, b + 1, H) /\ Stands(w, b + 1, C)
  BY <1>4, <1>c, <1>s, StandsWithin, Zenon
<1>9. Stands(w, b + 1, F) /\ Stands(w, b + n, <<frame>>)
  <2>1. Stands(H, n - 1, <<frame>>)
    BY <1>a, <1>l, <1>3, Zenon
  <2>2. Stands(w, (b + 1) + 0, F) /\ Stands(w, (b + 1) + (n - 1), <<frame>>)
    BY <1>4, <1>8, <1>c, <1>3, <1>h, <1>l, <2>1, StandsWithin, Zenon
  <2>3. (b + 1) + 0 = b + 1 /\ (b + 1) + (n - 1) = b + n
    BY <1>3
  <2> QED BY <2>2, <2>3, Zenon
<1>10. PICK x : x = FirstFormat(L, more)
  OBVIOUS
<1>11. /\ x \in Byte /\ x \div 16 = 10 /\ 256 * (x % 8) + (L % 256) = L
       /\ (x \div 8) % 2 = 1 <=> more
  <2>1. Says(x, L, more)
    BY <1>10, <1>c, FormatRead, Zenon
  <2> QED BY <1>L, <2>1 DEF Says
<1>12. At(w, b + 1) = x /\ At(w, b + 2) = L % 256
  <2>1. F = <<x, L % 256>>
    BY <1>0, <1>10 DEF Format, FirstFormat
  <2>2. F[1] = x /\ F[2] = L % 256 /\ Len(F) = 2
    BY <2>1
  <2>3. w[b + 1 + 1] = x /\ w[b + 1 + 2] = L % 256
    BY <1>9, <2>2 DEF Stands
  <2>4. At(w, b + 1) = w[b + 1 + 1] /\ At(w, b + 2) = w[b + 2 + 1]
    BY DEF At
  <2>5. b + 2 + 1 = b + 1 + 2
    OBVIOUS
  <2> QED BY <2>3, <2>4, <2>5
<1>13. At(w, b + n) = frame
  BY <1>9, <1>c, StandsByte, Zenon
<1>14. HeaderRight(w, b, b + n)
  <2>1. SubSeq(w, b + 2, b + n + 1) = H
    <3>1. b + 2 = (b + 1) + 1 /\ b + n + 1 = (b + 1) + Len(H)
      BY <1>3
    <3>2. ReadBack(w, b + 1, H)
      BY <1>4, <1>8, <1>c, StandsSubSeq, Zenon
    <3> QED BY <3>1, <3>2, Zenon DEF ReadBack
  <2>2. Stands(w, b + (n + 1), countCRC(H))
    BY <1>4, <1>c, <1>s, CRCIsSum, Pair, StandsWithin, Zenon
  <2>3. Word(w, b + n + 1) = countCRC(H)
    BY <1>4, <1>c, <2>2, CRCIsSum, StandsWord, Zenon
  <2> QED BY <2>1, <2>3, Zenon DEF HeaderRight
<1>15. FrameRight(w, b, L, b + n)
  <2>1. CASE info = <<>>
    <3>1. b + n + 3 = b + L + 1
      BY <1>5, <2>1, <1>3
    <3> QED BY <3>1 DEF FrameRight
  <2>2. CASE info # <<>>
    <3>1. SubSeq(w, b + 2, b + L - 1) = C
      <4>1. b + 2 = (b + 1) + 1 /\ b + L - 1 = (b + 1) + Len(C)
        BY <1>3, <1>4, <1>5, <2>2, <1>k
      <4>2. ReadBack(w, b + 1, C)
        BY <1>4, <1>8, <1>c, StandsSubSeq, Zenon
      <4> QED BY <4>1, <4>2, Zenon DEF ReadBack
    <3>2. Stands(s, L - 1, countCRC(C)) /\ L - 1 \in Nat
      BY <1>4, <1>5, <1>t, <2>2, <1>3, <1>k
    <3>3. Stands(w, b + (L - 1), countCRC(C))
      BY <1>4, <1>c, <1>s, <3>2, CRCIsSum, Pair, StandsWithin, Zenon
    <3>4. b + (L - 1) = b + L - 1 /\ b + L - 1 \in Nat
      BY <3>2, <1>c
    <3>5. Word(w, b + L - 1) = countCRC(C)
      BY <1>4, <3>3, <3>4, CRCIsSum, StandsWord, Zenon
    <3> QED BY <3>1, <3>5, Zenon DEF FrameRight
  <2> QED BY <2>1, <2>2
<1>16. Stands(w, b + n + 3, info)
  <2>1. Stands(w, b + (n + 3), info)
    BY <1>4, <1>c, <1>s, StandsWithin, Zenon
  <2> QED BY <1>c, <2>1, Zenon
<1>17. b + L + 2 <= Len(w)
  <2>1. b + Len(s) <= Len(w)
    BY <1>s DEF Stands
  <2>2. Len(s) = L + 2 /\ L \in Nat /\ Len(w) \in Nat
    BY <1>5, <1>c
  <2> QED BY <2>1, <2>2
<1>18. Readable(w, b, n, L, frame, more, info)
  <2>1. /\ At(w, b + 1) \div 16 = 10 /\ ((At(w, b + 1) \div 8) % 2 = 1 <=> more)
        /\ 256 * (At(w, b + 1) % 8) + At(w, b + 2) = L
    BY <1>11, <1>12
  <2> QED BY <1>3, <1>5, <1>7, <1>13, <1>14, <1>15, <1>16, <1>17, <1>k, <2>1, Zenon DEF Readable
<1> QED BY <1>18, <1>3 DEF L, H

(* The reader goes on behind the addresses: a server because the client's  *)
(* is one byte, a client because the frame is not its own request come     *)
(* back.                                                                   *)
Admits(conf, to, from) ==
  \/ conf.server = TRUE /\ from < 128
  \/ /\ conf.server = FALSE
     /\ to # conf.serverAddress \/ from # conf.clientAddress \/ to = from

(* What the reading of two addresses that stand at p comes to: behind      *)
(* both, or a refusal behind the first.                                    *)
BothRead(conf, to, from, p, read) ==
  LET first == p + Len(dlms_getAddressBytes(to))
  IN /\ Admits(conf, to, from) =>
          read = [refused |-> FALSE, position |-> first + Len(dlms_getAddressBytes(from))]
     /\ conf.server = TRUE /\ ~ (from < 128) => read = [refused |-> TRUE, position |-> first]

(* Where two addresses stand both are read over, if the reader does not    *)
(* refuse the second.                                                      *)
LEMMA AddressesRead ==
  ASSUME NEW conf, NEW to \in Numbers, NEW from \in Numbers,
         NEW s \in Seq(Byte), NEW p \in Nat, NEW eopPos,
         Stands(s, p, dlms_getAddressBytes(to)),
         Stands(s, p + Len(dlms_getAddressBytes(to)), dlms_getAddressBytes(from))
  PROVE  BothRead(conf, to, from, p, dlms_checkHdlcAddress(conf, s, p, eopPos))
<1> DEFINE q == p + Len(dlms_getAddressBytes(to))
           r == q + Len(dlms_getAddressBytes(from))
           a == dlms_getHDLCAddress(s, p, FALSE)
           b(check) == dlms_getHDLCAddress(s, a.position, check)
           echo == /\ ~ conf.server
                   /\ a.value = conf.serverAddress
                   /\ b(conf.server).value = conf.clientAddress
                   /\ a.value # b(conf.server).value
           c == dlms_checkHdlcAddress(conf, s, p, eopPos)
<1>1. q \in Nat
  BY AddressBytes
<1>2. a = [ret |-> "OK", value |-> to, position |-> q]
  BY AddressRead, Zenon DEF ReadAs
<1>3. a.position = q /\ a.ret = "OK" /\ a.value = to
  <2> HIDE DEF a, q
  <2> QED BY <1>2
<1>4. /\ b(FALSE) = [ret |-> "OK", value |-> from, position |-> r]
      /\ from < 128 => b(TRUE) = b(FALSE)
      /\ ~ (from < 128) => b(TRUE) = AddressFails(q, "INVALID_CLIENT_ADDRESS")
  <2> HIDE DEF a, q
  <2>1. Stands(s, q, dlms_getAddressBytes(from))
    BY DEF q
  <2>2. ReadAs(s, q, from)
    BY <1>1, <2>1, AddressRead, Zenon
  <2> QED BY <1>3, <2>2, Zenon DEF ReadAs, r, b
<1>5. c = IF a.ret # "OK" THEN [refused |-> FALSE, position |-> p]
          ELSE IF b(conf.server).ret # "OK"
          THEN [refused |-> b(conf.server).ret = "INVALID_CLIENT_ADDRESS",
                position |-> a.position]
          ELSE [refused |-> FALSE,
                position |-> IF echo THEN eopPos + 1 ELSE b(conf.server).position]
  BY DEF dlms_checkHdlcAddress
<1>6. ASSUME Admits(conf, to, from)  PROVE c = [refused |-> FALSE, position |-> r]
  <2>1. b(conf.server) = [ret |-> "OK", value |-> from, position |-> r]
    <3> HIDE DEF b
    <3> QED BY <1>4, <1>6 DEF Admits
  <2>2. ~ echo
    <3> HIDE DEF a, b
    <3> QED BY <1>3, <1>6, <2>1 DEF Admits
  <2> HIDE DEF a, b, c, echo, r
  <2> QED BY <1>3, <1>5, <2>1, <2>2
<1>7. ASSUME conf.server = TRUE, ~ (from < 128)  PROVE c = [refused |-> TRUE, position |-> q]
  <2>1. b(conf.server) = [ret |-> "INVALID_CLIENT_ADDRESS", value |-> 0, position |-> q]
    <3> HIDE DEF b
    <3> QED BY <1>4, <1>7 DEF AddressFails
  <2>2. b(conf.server).ret # "OK" /\ (b(conf.server).ret = "INVALID_CLIENT_ADDRESS") = TRUE
    <3> HIDE DEF b
    <3> QED BY <2>1
  <2> HIDE DEF a, b, c, echo, q
  <2> QED BY <1>3, <1>5, <2>2, Zenon
<1> QED BY <1>6, <1>7, Zenon DEF BothRead

(* A position between d's and b holds no flag, and w has one at b.         *)
FirstAt(w, q, b) ==
  /\ b \in Nat /\ q <= b /\ b < Len(w) /\ At(w, b) = Flag
  /\ \A i \in q..(b - 1) : At(w, i) # Flag

(* That is the flag at which a look begins.                                *)
LEMMA FirstIsNext ==
  ASSUME NEW w \in Seq(Byte), NEW q \in Nat, NEW b, FirstAt(w, q, b)
  PROVE  NextFlag(w, q) = b /\ b \in FlagsFrom(w, q)
<1>1. Len(w) \in Nat /\ b \in Nat /\ q <= b /\ b < Len(w) /\ At(w, b) = Flag
      /\ \A i \in q..(b - 1) : At(w, i) # Flag
  BY DEF FirstAt
<1>2. b \in FlagsFrom(w, q)
  BY <1>1 DEF FlagsFrom
<1>3. /\ NextFlag(w, q) \in q..(Len(w) - 1) /\ At(w, NextFlag(w, q)) = Flag
      /\ NextFlag(w, q) <= b
  <2>1. FlagsFrom(w, q) # {}
    BY <1>2
  <2> QED BY <1>2, <2>1, FirstFlag
<1>4. NextFlag(w, q) \notin q..(b - 1)
  BY <1>1, <1>3
<1> QED BY <1>1, <1>2, <1>3, <1>4

(* What d becomes on its way to the control byte at position p.            *)
Continued(d, more, p) == [d EXCEPT !.complete = TRUE, !.moreData = more, !.position = p + 3]

(* A search that ends at a client's address.                               *)
Refused(e, p) ==
  Fails([e EXCEPT !.complete = TRUE, !.position = p], "INVALID_CLIENT_ADDRESS")

(* What dlms_getHdlcData makes of the frame at b once the addresses are    *)
(* read.                                                                   *)
ReadsOn(conf, w, e, b, n, l, more, read) ==
  /\ read = [refused |-> FALSE, position |-> b + n] =>
       dlms_getHdlcData(conf, w, e) = Accepted(conf, w, Continued(e, more, b + n), b, l, b + n)
  /\ read.refused = TRUE => dlms_getHdlcData(conf, w, e) = Refused(e, read.position)

(* A look that begins before a readable frame takes it, or refuses it for  *)
(* its client.                                                             *)
LEMMA FrameReached ==
  ASSUME NEW conf, NEW w \in Seq(Byte), NEW b \in Nat, NEW n, NEW l, NEW frame,
         NEW more \in BOOLEAN, NEW info \in Seq(Byte),
         Readable(w, b, n, l, frame, more, info),
         NEW to, to = dlms_checkHdlcAddress(conf, w, b + 3, b + l + 1),
         NEW e \in HdlcData, FirstAt(w, e.position, b)
  PROVE  ReadsOn(conf, w, e, b, n, l, more, to)
<1> DEFINE start == NextFlag(w, e.position)
           frameLen == 256 * (At(w, start + 1) % 8) + At(w, start + 2)
           eopPos == start + frameLen + 1
           read == dlms_checkHdlcAddress(conf, w, start + 3, eopPos)
           p == read.position
           begun == [e EXCEPT !.complete = TRUE]
           flag == (At(w, start + 1) \div 8) % 2 = 1
           continued == [begun EXCEPT !.moreData = flag, !.position = p + 3]
           look == Look(conf, w, e)
<1>1. /\ n \in Nat /\ n > 4 /\ l = n + (IF info = <<>> THEN 2 ELSE 4 + Len(info))
      /\ b + l + 2 <= Len(w)
      /\ At(w, b) = Flag /\ At(w, b + l + 1) = Flag
      /\ At(w, b + 1) \div 16 = 10 /\ ((At(w, b + 1) \div 8) % 2 = 1 <=> more)
      /\ 256 * (At(w, b + 1) % 8) + At(w, b + 2) = l
      /\ HeaderRight(w, b, b + n) /\ FrameRight(w, b, l, b + n)
  BY Zenon DEF Readable
<1>2. l \in Nat /\ l >= n + 2 /\ Len(w) \in Nat
  <2>1. Len(info) \in Nat /\ Len(w) \in Nat
    OBVIOUS
  <2> QED BY <1>1, <2>1
<1>3. e.position \in Nat /\ e.position <= b
  BY DEF FirstAt, HdlcData
<1>4. start = b /\ b \in FlagsFrom(w, e.position)
  BY <1>3, FirstIsNext, Zenon
<1>18. look =
     IF Len(w) - e.position < Smallest THEN Ends([e EXCEPT !.complete = FALSE])
     ELSE IF FlagsFrom(w, e.position) \subseteq {Len(w) - 1}
     THEN Ends([e EXCEPT !.complete = FALSE, !.position = Len(w)])
     ELSE IF At(w, start + 1) \div 16 # 10 THEN Again([begun EXCEPT !.position = start + 1])
     ELSE IF start + 2 = Len(w) THEN Ends(Fails(begun, "OUTOFMEMORY"))
     ELSE IF Len(w) <= eopPos THEN Ends([e EXCEPT !.complete = FALSE, !.position = start])
     ELSE IF At(w, eopPos) # Flag THEN Again([begun EXCEPT !.position = start + 1])
     ELSE IF read.refused
     THEN Ends(Fails([begun EXCEPT !.position = p], "INVALID_CLIENT_ADDRESS"))
     ELSE IF p + 3 > Len(w) THEN Ends(Fails(continued, "OUTOFMEMORY"))
     ELSE IF ~ HeaderRight(w, start, p)
     THEN IF Len(w) - (p + 3) > 8 THEN Again(continued) ELSE Ends(Fails(continued, "WRONG_CRC"))
     ELSE IF ~ FrameRight(w, start, frameLen, p) THEN Ends(Fails(continued, "WRONG_CRC"))
     ELSE Ends(Accepted(conf, w, continued, start, frameLen, p))
  BY Zenon DEF Look, Checked
<1>22. frameLen = l
  BY <1>1, <1>4
<1> HIDE DEF start, frameLen
<1>23. eopPos = b + l + 1
  BY <1>4, <1>22
<1> HIDE DEF eopPos
<1>24. read = to
  BY <1>4, <1>23
<1> HIDE DEF read
<1>p. p = to.position
  BY <1>24
<1> HIDE DEF p
<1>19. /\ ~ (Len(w) - e.position < Smallest) /\ start + 2 # Len(w) /\ ~ (Len(w) <= eopPos)
       /\ b + n + 3 <= Len(w)
  <2>1. Len(w) >= b + 9 /\ Len(w) > b + 2 /\ Len(w) > b + l + 1 /\ b + n + 3 <= Len(w)
    <3>1. n \in Nat /\ n > 4 /\ b + l + 2 <= Len(w)
      BY <1>1
    <3> QED BY <1>2, <3>1
  <2>2. Len(w) - e.position >= 9 /\ b + 2 # Len(w) /\ b + l + 1 < Len(w)
    BY <1>2, <1>3, <2>1
  <2> QED BY <1>2, <1>3, <1>4, <1>23, <2>1, <2>2 DEF Smallest
<1>20. ~ (FlagsFrom(w, e.position) \subseteq {Len(w) - 1})
  <2>1. b # Len(w) - 1
    BY <1>1, <1>2
  <2> QED BY <1>4, <2>1
<1>21. ~ (At(w, start + 1) \div 16 # 10) /\ ~ (At(w, eopPos) # Flag)
  BY <1>1, <1>4, <1>23, Zenon
<1>26. dlms_getHdlcData(conf, w, e) = IF look.again THEN dlms_getHdlcData(conf, w, look.data)
                                      ELSE look.data
  BY DataRead
<1>27. ASSUME to = [refused |-> FALSE, position |-> b + n]
       PROVE  dlms_getHdlcData(conf, w, e) =
                Accepted(conf, w, Continued(e, more, b + n), b, l, b + n)
  <2>0. p = b + n /\ ~ read.refused
    BY <1>24, <1>p, <1>27
  <2>5. continued = Continued(e, more, b + n)
    <3>1. flag = more
      BY <1>1, <1>4
    <3> HIDE DEF flag
    <3> QED BY <2>0, <3>1 DEF Continued, HdlcData
  <2>1. ~ (p + 3 > Len(w))
    BY <1>2, <1>19, <2>0, <1>1
  <2>4. HeaderRight(w, start, p) /\ FrameRight(w, start, frameLen, p)
    BY <1>1, <1>4, <1>22, <2>0, Zenon
  <2> HIDE DEF look, continued, begun
  <2>6. look = Ends(Accepted(conf, w, continued, start, frameLen, p))
    BY <1>18, <1>19, <1>20, <1>21, <2>0, <2>1, <2>4, Zenon
  <2>7. look = Ends(Accepted(conf, w, continued, b, l, b + n))
    BY <1>4, <1>22, <2>0, <2>6, Zenon
  <2>8. look.again = FALSE /\ look.data = Accepted(conf, w, continued, b, l, b + n)
    BY <2>7 DEF Ends
  <2> QED BY <2>5, <1>26, <2>8
<1>28. ASSUME to.refused = TRUE
       PROVE  dlms_getHdlcData(conf, w, e) = Refused(e, to.position)
  <2>0. read.refused
    BY <1>24, <1>28
  <2>1. Fails([begun EXCEPT !.position = p], "INVALID_CLIENT_ADDRESS")
          = Refused(e, to.position)
    BY <1>p DEF Refused, HdlcData
  <2> HIDE DEF look, continued, begun
  <2>2. look = Ends(Fails([begun EXCEPT !.position = p], "INVALID_CLIENT_ADDRESS"))
    BY <1>18, <1>19, <1>20, <1>21, <2>0, Zenon
  <2>3. look.again = FALSE /\ look.data = Refused(e, to.position)
    BY <2>1, <2>2 DEF Ends
  <2> QED BY <1>26, <2>3
<1> QED BY <1>27, <1>28, Zenon DEF ReadsOn

(* What dlms_getHdlcData makes of w from e on if it takes the frame at b. *)
TakesFrame(conf, w, e, b, n, l, frame, more, info) ==
  /\ Readable(w, b, n, l, frame, more, info)
  /\ dlms_getHdlcData(conf, w, e) = Accepted(conf, w, Continued(e, more, b + n), b, l, b + n)

(* The frame at b of w is taken, or refused for its client's address.      *)
TakenOrRefused(conf, to, from, w, e, b, n, l, frame, more, info) ==
  /\ Admits(conf, to, from) => TakesFrame(conf, w, e, b, n, l, frame, more, info)
  /\ conf.server = TRUE /\ ~ (from < 128) =>
       \E p \in Nat : dlms_getHdlcData(conf, w, e) = Refused(e, p)

(* A search that begins before a frame, behind all flags that stand before *)
(* it, takes the frame or refuses it, whatever else w holds.               *)
LEMMA FrameFound ==
  ASSUME NEW conf, NEW to \in Numbers, NEW from \in Numbers,
         NEW frame \in Byte, NEW more \in BOOLEAN, NEW info \in Seq(Byte),
         Length(to, from, info) \in Lengths,
         NEW w \in Seq(Byte), NEW b \in Nat, Stands(w, b, Frame(to, from, frame, more, info)),
         NEW e \in HdlcData, FirstAt(w, e.position, b)
  PROVE  TakenOrRefused(conf, to, from, w, e, b, Len(Header(to, from, frame, more, info)),
                        Length(to, from, info), frame, more, info)
<1> DEFINE s == Frame(to, from, frame, more, info)
           H == Header(to, from, frame, more, info)
           C == Content(to, from, frame, more, info)
           T == Trailer(to, from, frame, more, info)
           t == dlms_getAddressBytes(to)
           f == dlms_getAddressBytes(from)
           n == Len(H)
           l == Length(to, from, info)
<1>1. Readable(w, b, n, l, frame, more, info)
  BY FrameReadable
<1>2. PICK a : a = dlms_checkHdlcAddress(conf, w, b + 3, b + l + 1)
  OBVIOUS
<1>5. /\ Admits(conf, to, from) => a = [refused |-> FALSE, position |-> b + n]
      /\ conf.server = TRUE /\ ~ (from < 128) => a.refused = TRUE /\ a.position \in Nat
  <2>1. s \in Seq(Byte) /\ H \in Seq(Byte) /\ Stands(s, 1, H)
    <3>1. Placed(s, H, C, T, info)
      BY FramePlaced
    <3> HIDE DEF s, H, C, T
    <3> QED BY <3>1 DEF Placed
  <2>2. /\ n = Len(Addresses(to, from)) + 3
        /\ Len(Addresses(to, from)) = Len(t) + Len(f)
    BY HeaderBytes
  <2>3. Stands(H, 2, t) /\ Stands(H, 2 + Len(t), f)
    BY HeaderLayout, Zenon
  <2>4. t \in Seq(Byte) /\ f \in Seq(Byte) /\ Stands(w, b, s)
    BY AddressBytes
  <2>t. Len(t) \in Nat /\ Len(f) \in Nat
    BY <2>4
  <2>a. PICK i, j \in Nat : i = Len(t) /\ j = Len(f)
    BY <2>t
  <2>5. n = i + j + 3
    <3>1. n = (i + j) + 3
      BY <2>2, <2>a, Zenon
    <3> QED BY <3>1
  <2>6. PICK k : k = b + n /\ k = b + 3 + i + j
    BY <2>5, <2>a
  <2>g. PICK g : g = b + l + 1
    OBVIOUS
  <2> HIDE DEF s, H, C, T, n, l
  <2>c. PICK c, q, h, m : c = b + 1 /\ q = 2 + Len(t) /\ h = b + 3 /\ m = b + 3 + Len(t)
    OBVIOUS
  <2>7. c \in Nat /\ q \in Nat /\ h \in Nat /\ 2 \in Nat /\ c + 2 = h /\ c + q = m /\ m = h + i
        /\ m + j = k /\ 1 \in Nat
    BY <2>6, <2>a, <2>c
  <2>8. Stands(w, c, H)
    <3>1. Stands(w, b + 1, H)
      BY <2>1, <2>4, <2>7, StandsWithin, Zenon
    <3> QED BY <2>c, <3>1, Zenon
  <2>9. Stands(H, q, f) /\ Stands(H, 2, t)
    BY <2>3, <2>c, Zenon
  <2> HIDE DEF t, f
  <2>x. Stands(w, c + 2, t) /\ Stands(w, c + q, f)
    BY <2>1, <2>4, <2>7, <2>8, <2>9, StandsWithin, Zenon
  <2>10. Stands(w, h, t) /\ Stands(w, h + Len(t), f)
    BY <2>x, <2>7, <2>a, Zenon
  <2>11. /\ Admits(conf, to, from) => a = [refused |-> FALSE, position |-> h + Len(t) + Len(f)]
         /\ conf.server = TRUE /\ ~ (from < 128) =>
              a = [refused |-> TRUE, position |-> h + Len(t)]
    <3>1. /\ Stands(w, h, dlms_getAddressBytes(to))
          /\ Stands(w, h + Len(dlms_getAddressBytes(to)), dlms_getAddressBytes(from))
      BY <2>10 DEF t, f
    <3>2. a = dlms_checkHdlcAddress(conf, w, h, g)
      BY <1>2, <2>c, <2>g
    <3>3. BothRead(conf, to, from, h, a)
      <4>1. h \in Nat
        BY <2>7
      <4>2. BothRead(conf, to, from, h, dlms_checkHdlcAddress(conf, w, h, g))
        BY <4>1, <3>1, AddressesRead, SMTT(30)
      <4> QED BY <3>2, <4>2, Zenon
    <3> QED BY <3>3, Zenon DEF BothRead, t, f
  <2> HIDE DEF t, f
  <2>12. h + Len(t) + Len(f) = k /\ h + Len(t) \in Nat
    BY <2>7, <2>a
  <2> QED BY <2>11, <2>12, <2>6
<1> HIDE DEF n, l
<1>3. ReadsOn(conf, w, e, b, n, l, more, a)
  BY <1>1, <1>2, FrameReached
<1>4. Admits(conf, to, from) => TakesFrame(conf, w, e, b, n, l, frame, more, info)
  BY <1>1, <1>3, <1>5, Zenon DEF ReadsOn, TakesFrame
<1>6. conf.server = TRUE /\ ~ (from < 128) =>
        \E p \in Nat : dlms_getHdlcData(conf, w, e) = Refused(e, p)
  BY <1>3, <1>5, Zenon DEF ReadsOn
<1> QED BY <1>4, <1>6, Zenon DEF TakenOrRefused, n, l

(* The first look of a server at a frame takes it, if the client's address *)
(* is one byte, and takes nothing otherwise.                               *)
LEMMA FrameTaken ==
  ASSUME NEW conf, IsServer(conf), NEW to \in Numbers, NEW from \in Numbers,
         NEW frame \in Byte, frame % 4 # 3, NEW more \in BOOLEAN,
         NEW info \in Seq(Byte), info # <<>>, Length(to, from, info) \in Lengths,
         NEW s, s = Frame(to, from, frame, more, info),
         NEW n, n = Len(Header(to, from, frame, more, info)),
         NEW d, d = dlms_getHdlcData(conf, s, ReplyInit)
  PROVE  /\ from < 128 =>
              /\ d.complete /\ d.ret = "OK"
              /\ d.position = dlms_checkLLCBytes(conf, s, n + 3)
              /\ d.packetLength = n + 3 + Len(info)
         /\ ~ (from < 128) => d.ret = "INVALID_CLIENT_ADDRESS"
<1> DEFINE H == Header(to, from, frame, more, info)
           C == Content(to, from, frame, more, info)
           T == Trailer(to, from, frame, more, info)
           l == Length(to, from, info)
<1>1. s \in Seq(Byte) /\ Len(s) \in Nat /\ Len(s) > 0 /\ Stands(s, 0, s) /\ At(s, 0) = Flag
  <2>1. Placed(s, H, C, T, info)
    BY FramePlaced
  <2> HIDE DEF H, C, T
  <2>2. s \in Seq(Byte) /\ Stands(s, 0, <<Flag>>)
    BY <2>1 DEF Placed
  <2>3. At(s, 0) = Flag /\ 0 < Len(s)
    BY <2>2, StandsByte
  <2>4. Stands(s, 0, s)
    BY <2>2 DEF Stands
  <2> QED BY <2>2, <2>3, <2>4
<1>2. ReplyInit \in HdlcData /\ FirstAt(s, ReplyInit.position, 0)
  <2>1. ReplyInit.position = 0 /\ ReplyInit \in HdlcData
    BY DEF ReplyInit, HdlcData, ReadCodes
  <2>2. FirstAt(s, 0, 0)
    BY <1>1 DEF FirstAt
  <2> QED BY <2>1, <2>2
<1>4. PICK e : e = ReplyInit
  OBVIOUS
<1>5. TakenOrRefused(conf, to, from, s, e, 0, n, l, frame, more, info)
  BY <1>1, <1>2, <1>4, FrameFound
<1> HIDE DEF l
<1>t. ASSUME from < 128
      PROVE  /\ d.complete /\ d.ret = "OK"
             /\ d.position = dlms_checkLLCBytes(conf, s, n + 3)
             /\ d.packetLength = n + 3 + Len(info)
  <2>3. TakesFrame(conf, s, e, 0, n, l, frame, more, info)
    BY <1>5, <1>t DEF TakenOrRefused, Admits, IsServer
  <2>6. /\ n \in Nat /\ l = n + 4 + Len(info) /\ At(s, 0 + n) = frame
        /\ d = Accepted(conf, s, Continued(e, more, 0 + n), 0, l, 0 + n)
    BY <1>4, <2>3 DEF TakesFrame, Readable
  <2>7. 0 + n = n /\ n + 3 # 0 + l + 1 /\ 0 + l - 1 = n + 3 + Len(info)
    <3>1. Len(info) \in Nat /\ Len(info) > 0
      OBVIOUS
    <3> QED BY <2>6, <3>1
  <2>8. /\ Continued(e, more, n) \in HdlcData
        /\ Continued(e, more, n).complete = TRUE /\ Continued(e, more, n).ret = "OK"
    <3>1. e \in HdlcData /\ e.ret = "OK"
      BY <1>4 DEF ReplyInit, HdlcData, ReadCodes
    <3>2. n + 3 \in Nat
      BY <2>6
    <3> QED BY <3>1, <3>2 DEF Continued, HdlcData
  <2>9. PICK c : c = Continued(e, more, n)
    OBVIOUS
  <2>10. d = [c EXCEPT !.frame = frame, !.packetLength = 0 + l - 1,
                       !.position = dlms_checkLLCBytes(conf, s, n + 3)]
    BY <2>6, <2>7, <2>9 DEF Accepted
  <2>11. /\ d.complete = TRUE /\ d.ret = "OK" /\ d.packetLength = 0 + l - 1
         /\ d.position = dlms_checkLLCBytes(conf, s, n + 3)
    BY <2>8, <2>9, <2>10 DEF HdlcData
  <2> QED BY <2>7, <2>11
<1>r. ASSUME ~ (from < 128)  PROVE d.ret = "INVALID_CLIENT_ADDRESS"
  <2>1. PICK p \in Nat : d = Refused(e, p)
    BY <1>4, <1>5, <1>r DEF TakenOrRefused, IsServer
  <2>2. e \in HdlcData
    BY <1>2, <1>4
  <2> QED BY <2>1, <2>2 DEF Refused, Fails, HdlcData
<1> QED BY <1>t, <1>r

(* A prefix of what follows stands there.                                  *)
LEMMA PrefixStands ==
  ASSUME NEW s \in Seq(Byte), NEW t \in Seq(Byte), NEW p \in Nat, p <= Len(s)
  PROVE  IsPrefix(t, SubSeq(s, p + 1, Len(s))) <=> Stands(s, p, t)
<1> DEFINE u == SubSeq(s, p + 1, Len(s))
<1>0. Len(s) \in Nat /\ Len(t) \in Nat
  OBVIOUS
<1>1. u \in Seq(Byte) /\ Len(u) = Len(s) - p /\ \A i \in 1..(Len(s) - p) : u[i] = s[p + i]
  <2>1. p + 1 \in Int /\ Len(s) \in Int /\ \A i \in (p + 1)..Len(s) : s[i] \in Byte
    BY <1>0
  <2>2. /\ u \in Seq(Byte)
        /\ Len(u) = IF p + 1 <= Len(s) THEN Len(s) - (p + 1) + 1 ELSE 0
        /\ \A i \in 1..(Len(s) - (p + 1) + 1) : u[i] = s[p + 1 + i - 1]
    BY <2>1, SubSeqProperties
  <2> HIDE DEF u
  <2>3. Len(s) - (p + 1) + 1 = Len(s) - p /\ \A i \in 1..(Len(s) - p) : p + 1 + i - 1 = p + i
    BY <1>0
  <2>4. Len(u) = Len(s) - p
    BY <1>0, <2>2
  <2> QED BY <2>2, <2>3, <2>4
<1> HIDE DEF u
<1>2. ASSUME Len(t) <= Len(u)
      PROVE  /\ SubSeq(u, 1, Len(t)) \in Seq(Byte) /\ Len(SubSeq(u, 1, Len(t))) = Len(t)
             /\ \A i \in 1..Len(t) : SubSeq(u, 1, Len(t))[i] = u[i]
  <2>1. \A i \in 1..Len(t) : u[i] \in Byte
    BY <1>0, <1>1, <1>2
  <2>2. /\ SubSeq(u, 1, Len(t)) \in Seq(Byte)
        /\ Len(SubSeq(u, 1, Len(t))) = IF 1 <= Len(t) THEN Len(t) - 1 + 1 ELSE 0
        /\ \A i \in 1..(Len(t) - 1 + 1) : SubSeq(u, 1, Len(t))[i] = u[1 + i - 1]
    <3>1. 1 \in Int /\ Len(t) \in Int
      BY <1>0
    <3> QED BY <2>1, <3>1, SubSeqProperties
  <2>3. Len(t) - 1 + 1 = Len(t) /\ \A i \in 1..Len(t) : 1 + i - 1 = i
    BY <1>0
  <2>4. Len(SubSeq(u, 1, Len(t))) = Len(t)
    BY <1>0, <2>2
  <2> QED BY <2>2, <2>3, <2>4
<1>3. SubSeq(t, 1, Len(t)) = t
  BY SubSeqFull
<1>4. ASSUME IsPrefix(t, u)  PROVE Stands(s, p, t)
  <2>1. Len(t) <= Len(u) /\ t = SubSeq(u, 1, Len(t))
    BY <1>3, <1>4 DEF IsPrefix
  <2>2. \A i \in 1..Len(t) : t[i] = u[i]
    BY <1>2, <2>1
  <2>3. p + Len(t) <= Len(s) /\ \A i \in 1..Len(t) : i \in 1..(Len(s) - p)
    BY <1>0, <1>1, <2>1
  <2> QED BY <1>1, <2>2, <2>3 DEF Stands
<1>5. ASSUME Stands(s, p, t)  PROVE IsPrefix(t, u)
  <2>1. p + Len(t) <= Len(s) /\ \A i \in 1..Len(t) : s[p + i] = t[i]
    BY <1>5 DEF Stands
  <2>2. Len(t) <= Len(u) /\ \A i \in 1..Len(t) : i \in 1..(Len(s) - p)
    BY <1>0, <1>1, <2>1
  <2>3. \A i \in 1..Len(t) : SubSeq(u, 1, Len(t))[i] = t[i]
    BY <1>1, <1>2, <2>1, <2>2
  <2>4. SubSeq(u, 1, Len(t)) = t
    BY <1>2, <2>2, <2>3, SeqEqual
  <2> QED BY <1>3, <2>2, <2>4 DEF IsPrefix
<1> QED BY <1>4, <1>5 DEF u

(* The LLC bytes are three bytes.                                          *)
LEMMA LLCBytes ==
  /\ LLC_SEND_BYTES \in Seq(Byte) /\ Len(LLC_SEND_BYTES) = 3
  BY DEF LLC_SEND_BYTES, Byte

(* What SubSeq cuts out.                                                   *)
Cut(s, a, b, r) ==
  /\ r \in Seq(Byte) /\ Len(r) = IF a <= b THEN b - a + 1 ELSE 0
  /\ \A i \in 1..(b - a + 1) : r[i] = s[a + i - 1]

(* The bytes between a and b, where all of them are bytes.                 *)
LEMMA CutBytes ==
  ASSUME NEW s, NEW a \in Int, NEW b \in Int, \A i \in a..b : s[i] \in Byte
  PROVE  Cut(s, a, b, SubSeq(s, a, b))
  BY SubSeqProperties DEF Cut

(* The bytes t are cut out of s behind the first p and q more. *)
RestBack(s, p, q, t) == SubSeq(s, p + q + 1, p + Len(t)) = SubSeq(t, q + 1, Len(t))

(* They are the rest of t if t stands there.                               *)
LEMMA StandsRest ==
  ASSUME NEW s \in Seq(Byte), NEW t \in Seq(Byte), NEW p \in Nat, Stands(s, p, t),
         NEW q \in Nat, q <= Len(t)
  PROVE  RestBack(s, p, q, t)
<1>0. PICK a, b, c, d : a = p + q + 1 /\ b = p + Len(t) /\ c = q + 1 /\ d = Len(t)
  OBVIOUS
<1>1. PICK u, v : u = SubSeq(s, a, b) /\ v = SubSeq(t, c, d)
  OBVIOUS
<1>n. Len(s) \in Nat /\ Len(t) \in Nat /\ d \in Nat /\ d = Len(t) /\ q <= d
  BY <1>0
<1>2. p + d <= Len(s) /\ \A i \in 1..d : s[p + i] = t[i]
  BY <1>n DEF Stands
<1>3. a \in Int /\ b \in Int /\ c \in Int /\ b - a + 1 = d - q /\ d - c + 1 = d - q
  BY <1>0, <1>n
<1>4. \A i \in a..b : s[i] \in Byte
  <2> TAKE i \in a..b
  <2>1. i \in 1..Len(s)
    BY <1>0, <1>n, <1>2
  <2> QED BY <2>1
<1>5. \A i \in c..d : t[i] \in Byte
  <2> TAKE i \in c..d
  <2>1. i \in 1..Len(t)
    BY <1>0, <1>n
  <2> QED BY <2>1
<1>6. Cut(s, a, b, u)
  BY <1>1, <1>3, <1>4, CutBytes
<1>7. Cut(t, c, d, v)
  BY <1>1, <1>3, <1>5, <1>n, CutBytes
<1>8. /\ u \in Seq(Byte) /\ Len(u) = (IF a <= b THEN b - a + 1 ELSE 0)
      /\ \A i \in 1..(b - a + 1) : u[i] = s[a + i - 1]
  BY <1>6 DEF Cut
<1>9. /\ v \in Seq(Byte) /\ Len(v) = (IF c <= d THEN d - c + 1 ELSE 0)
      /\ \A i \in 1..(d - c + 1) : v[i] = t[c + i - 1]
  BY <1>7 DEF Cut
<1>10. Len(u) = d - q /\ Len(v) = d - q
  BY <1>3, <1>8, <1>9, <1>n
<1>11. ASSUME NEW i \in 1..(d - q)  PROVE u[i] = v[i]
  <2>1. u[i] = s[a + i - 1] /\ v[i] = t[c + i - 1]
    BY <1>3, <1>8, <1>9
  <2>2. a + i - 1 = p + (q + i) /\ c + i - 1 = q + i /\ q + i \in 1..d
    BY <1>0, <1>n
  <2>3. s[p + (q + i)] = t[q + i]
    BY <1>2, <2>2
  <2> QED BY <2>1, <2>2, <2>3
<1>12. u = v
  BY <1>8, <1>9, <1>10, <1>11, SeqEqual
<1> QED BY <1>0, <1>1, <1>12 DEF RestBack

(* Who reads is the client. *)
IsClient(conf) == conf.server = FALSE

(* The LLC bytes at the beginning of an answer are read over. *)
LEMMA ReplyLLC ==
  ASSUME NEW conf, IsClient(conf), NEW s \in Seq(Byte), NEW p \in Nat, p <= Len(s)
  PROVE  dlms_checkLLCBytes(conf, s, p) = IF Stands(s, p, LLC_REPLY_BYTES) THEN p + 3 ELSE p
<1>1. LLC_REPLY_BYTES \in Seq(Byte)
  BY DEF LLC_REPLY_BYTES, Byte
<1>2. IsPrefix(LLC_REPLY_BYTES, SubSeq(s, p + 1, Len(s))) <=> Stands(s, p, LLC_REPLY_BYTES)
  BY <1>1, PrefixStands
<1> QED BY <1>2 DEF dlms_checkLLCBytes, IsClient

(* An answer is recognised as what it is: a command the library knows, or  *)
(* information that begins with the LLC bytes or unlike them.              *)
Recognised(frame, info) ==
  IF frame % 4 = 3 THEN frame \in Commands /\ ~ Stands(info, 0, LLC_REPLY_BYTES)
  ELSE \/ info = <<>> \/ Stands(info, 0, LLC_REPLY_BYTES)
       \/ \E i \in 1..3 : i <= Len(info) /\ info[i] # LLC_REPLY_BYTES[i]

(* r is what is kept of info standing in w. *)
Delivered(conf, w, info, r) ==
  /\ r.complete /\ r.ret = "OK"
  /\ SubSeq(w, r.position + 1, r.packetLength) =
       SubSeq(info, dlms_checkLLCBytes(conf, info, 0) + 1, Len(info))

(* What is kept of a readable answer is its information.                   *)
LEMMA AnswerDelivered ==
  ASSUME NEW conf, IsClient(conf), NEW w \in Seq(Byte), NEW b \in Nat, NEW n, NEW l,
         NEW frame \in Byte, NEW more \in BOOLEAN, NEW info \in Seq(Byte),
         Readable(w, b, n, l, frame, more, info), Recognised(frame, info),
         NEW e \in HdlcData, e.ret = "OK"
  PROVE  Delivered(conf, w, info, Accepted(conf, w, Continued(e, more, b + n), b, l, b + n))
<1> DEFINE k == Len(info)
           X == LLC_REPLY_BYTES
           skip == dlms_checkLLCBytes(conf, info, 0)
<1>k. k \in Nat /\ (info = <<>> <=> k = 0) /\ k = Len(info)
  OBVIOUS
<1>1. /\ n \in Nat /\ l = n + (IF info = <<>> THEN 2 ELSE 4 + k) /\ b + l + 2 <= Len(w)
      /\ At(w, b + n) = frame /\ Stands(w, b + n + 3, info)
  BY DEF Readable
<1>2. PICK p \in Nat : p = b + n
  BY <1>1
<1>l. l \in Int
  <2>1. CASE info = <<>>
    BY <1>1, <2>1
  <2>2. CASE info # <<>>
    BY <1>1, <1>k, <2>2
  <2> QED BY <2>1, <2>2
<1>3. PICK m \in Int : m = b + l - 1
  BY <1>l
<1>4. /\ p + 3 = b + l + 1 <=> info = <<>>
      /\ info = <<>> => m = p + 1
      /\ info # <<>> => m = p + 3 + k
  BY <1>1, <1>2, <1>3, <1>k
<1>5. PICK r : r = Accepted(conf, w, Continued(e, more, b + n), b, l, b + n)
  OBVIOUS
<1>6. PICK c \in HdlcData : c = Continued(e, more, p) /\ c.complete = TRUE /\ c.ret = "OK"
  <2>1. p + 3 \in Nat
    OBVIOUS
  <2>2. PICK q \in Nat : q = p + 3
    BY <2>1
  <2>3. Continued(e, more, p) = [e EXCEPT !.complete = TRUE, !.moreData = more, !.position = q]
    BY <2>2 DEF Continued
  <2>4. /\ Continued(e, more, p) \in HdlcData
        /\ Continued(e, more, p).complete = TRUE /\ Continued(e, more, p).ret = "OK"
    BY <2>2, <2>3 DEF HdlcData
  <2> QED BY <2>4
<1>7. Accepted(conf, w, c, b, l, p) = r
  BY <1>2, <1>5, <1>6
<1>x. X \in Seq(Byte) /\ Len(X) = 3
  BY DEF LLC_REPLY_BYTES, Byte
<1>8. skip = IF Stands(info, 0, X) THEN 3 ELSE 0
  BY <1>k, ReplyLLC
<1>9. Stands(w, p + 3, info) /\ p + 3 <= Len(w)
  BY <1>1, <1>2, <1>k DEF Stands
<1> HIDE DEF skip, k, X
<1>10. CASE frame % 4 = 3
  <2>1. frame \in Commands /\ skip = 0
    BY <1>8, <1>10 DEF Recognised, X
  <2>2. frame \notin Spontaneous
    BY <2>1 DEF Commands, Spontaneous
  <2>3. r = [c EXCEPT !.frame = frame, !.packetLength = m,
                      !.position = IF info = <<>> THEN p + 4 ELSE p + 3,
                      !.command = frame, !.ret = "OK"]
    BY <1>1, <1>2, <1>3, <1>4, <1>7, <1>10, <2>1, <2>2 DEF Accepted
  <2>4. /\ r.complete = TRUE /\ r.ret = "OK" /\ r.packetLength = m
        /\ r.position = IF info = <<>> THEN p + 4 ELSE p + 3
    BY <1>6, <2>3 DEF HdlcData
  <2>5. SubSeq(w, r.position + 1, r.packetLength) = SubSeq(info, skip + 1, k)
    <3>1. CASE info = <<>>
      <4>1. r.position + 1 > r.packetLength
        BY <1>4, <2>4, <3>1
      <4>2. SubSeq(w, r.position + 1, r.packetLength) = <<>>
        BY <1>4, <2>4, <3>1, <4>1
      <4>3. SubSeq(info, skip + 1, k) = <<>>
        BY <1>k, <2>1, <3>1
      <4> QED BY <4>2, <4>3
    <3>2. CASE info # <<>>
      <4>1. RestBack(w, p + 3, 0, info)
        BY <1>9, StandsRest
      <4>2. p + 3 + 0 + 1 = r.position + 1 /\ p + 3 + k = r.packetLength /\ 0 + 1 = skip + 1
        BY <1>4, <2>1, <2>4, <3>2
      <4> QED BY <1>k, <4>1, <4>2, Zenon DEF RestBack
    <3> QED BY <3>1, <3>2
  <2> QED BY <1>5, <1>k, <2>4, <2>5, Zenon DEF Delivered, skip
<1>11. CASE frame % 4 # 3 /\ info = <<>>
  <2>1. /\ r.complete = TRUE /\ r.ret = "OK" /\ r.packetLength = m /\ r.position = p + 4
    <3>1. PICK u \in BOOLEAN : u = (c.moreData \/ frame % 2 = 1)
      OBVIOUS
    <3>2. r = [c EXCEPT !.frame = frame, !.packetLength = m, !.position = p + 4, !.moreData = u]
      <4>1. Accepted(conf, w, c, b, l, p) =
              [[c EXCEPT !.frame = frame, !.packetLength = m]
                 EXCEPT !.position = p + 4, !.moreData = @ \/ frame % 2 = 1]
        BY <1>1, <1>2, <1>3, <1>4, <1>11 DEF Accepted
      <4> QED BY <1>7, <3>1, <4>1 DEF HdlcData
    <3> QED BY <1>6, <3>2 DEF HdlcData
  <2>2. skip = 0
    <3>1. ~ Stands(info, 0, X)
      BY <1>11, <1>k, <1>x DEF Stands
    <3> QED BY <1>8, <3>1
  <2>3. SubSeq(w, r.position + 1, r.packetLength) = <<>>
    BY <1>4, <1>11, <2>1
  <2>4. SubSeq(info, skip + 1, k) = <<>>
    BY <1>k, <1>11, <2>2
  <2> QED BY <1>5, <1>k, <2>1, <2>3, <2>4, Zenon DEF Delivered, skip
<1>12. CASE frame % 4 # 3 /\ info # <<>>
  <2>1. PICK j : j = dlms_checkLLCBytes(conf, w, p + 3)
    OBVIOUS
  <2>2. r = [c EXCEPT !.frame = frame, !.packetLength = m, !.position = j]
    BY <1>1, <1>2, <1>3, <1>4, <1>7, <1>12, <2>1 DEF Accepted
  <2>3. r.complete = TRUE /\ r.ret = "OK" /\ r.packetLength = m /\ r.position = j
    BY <1>6, <2>2 DEF HdlcData
  <2>4. j = IF Stands(w, p + 3, X) THEN p + 3 + 3 ELSE p + 3
    <3>1. p + 3 \in Nat
      OBVIOUS
    <3> QED BY <1>9, <2>1, <3>1, ReplyLLC DEF X
  <2>5. Stands(w, p + 3, X) <=> Stands(info, 0, X)
    <3>1. CASE Stands(info, 0, X)
      <4>1. Stands(w, p + 3 + 0, X) /\ p + 3 + 0 = p + 3
        <5>1. p + 3 \in Nat /\ 0 \in Nat
          OBVIOUS
        <5> QED BY <1>9, <1>x, <3>1, <5>1, StandsWithin
      <4> QED BY <3>1, <4>1
    <3>2. CASE ~ Stands(info, 0, X)
      <4>1. PICK i \in 1..3 : i <= k /\ info[i] # X[i]
        BY <1>12, <3>2 DEF Recognised, X, k
      <4>2. w[p + 3 + i] = info[i]
        BY <1>9, <1>k, <4>1 DEF Stands
      <4>3. ~ Stands(w, p + 3, X)
        BY <1>x, <4>1, <4>2 DEF Stands
      <4> QED BY <3>2, <4>3
    <3> QED BY <3>1, <3>2
  <2>6. j = p + 3 + skip /\ skip \in Nat /\ skip <= k
    <3>1. Stands(info, 0, X) => 3 <= k
      BY <1>x, <1>k DEF Stands
    <3> QED BY <1>8, <1>k, <2>4, <2>5, <3>1
  <2>7. SubSeq(w, r.position + 1, r.packetLength) = SubSeq(info, skip + 1, k)
    <3>1. RestBack(w, p + 3, skip, info)
      BY <1>9, <1>k, <2>6, StandsRest
    <3>2. p + 3 + skip + 1 = r.position + 1 /\ p + 3 + k = r.packetLength
      BY <1>4, <1>12, <2>3, <2>6
    <3> QED BY <1>k, <3>1, <3>2, Zenon DEF RestBack
  <2> QED BY <1>5, <1>k, <2>3, <2>7, Zenon DEF Delivered, skip
<1> QED BY <1>10, <1>11, <1>12

-----------------------------------------------------------------------------

(* A position that a search of s may leave behind.                         *)
Near(s, r) == r.position <= Len(s) + 3

(* An address that begins within the bytes ends within them.               *)
LEMMA EndWithin ==
  ASSUME NEW s \in Seq(Byte), NEW p \in Nat, p <= Len(s), NEW check
  PROVE  dlms_getHDLCAddress(s, p, check).position <= Len(s)
<1> DEFINE e == AddressEnd(s, p)
           r == dlms_getHDLCAddress(s, p, check)
<1>0. Len(s) \in Nat
  OBVIOUS
<1>1. r.position = p \/ (e \in {p, p + 1, p + 3} /\ r.position = e + 1)
  BY EndOrStart, Zenon
<1>2. e = Len(s) - 1 \/ e \in p..(Len(s) - 1)
  <2>1. CASE AddressEnds(s, p) = {}
    BY <2>1 DEF AddressEnd
  <2>2. CASE AddressEnds(s, p) # {}
    <3>1. AddressEnds(s, p) \subseteq Nat
      BY DEF AddressEnds
    <3>2. \E i \in AddressEnds(s, p) : \A j \in AddressEnds(s, p) : ~ (j < i)
      BY <2>2, <3>1, LeastNumber
    <3>3. \E i \in AddressEnds(s, p) : \A j \in AddressEnds(s, p) : i <= j
      BY <3>1, <3>2
    <3>4. e \in AddressEnds(s, p)
      BY <3>3 DEF AddressEnd
    <3> QED BY <3>4 DEF AddressEnds
  <2> QED BY <2>1, <2>2
<1> HIDE DEF e, r
<1>3. r.position <= Len(s)
  BY <1>0, <1>1, <1>2
<1> QED BY <1>3 DEF r

(* And two of them do, or the frame that ends at eopPos is left behind.    *)
LEMMA AddressesWithin ==
  ASSUME NEW conf, NEW s \in Seq(Byte), NEW start \in Nat, start <= Len(s),
         NEW eopPos \in Nat, eopPos < Len(s)
  PROVE  dlms_checkHdlcAddress(conf, s, start, eopPos).position <= Len(s)
<1> DEFINE to == dlms_getHDLCAddress(s, start, FALSE)
           from == dlms_getHDLCAddress(s, to.position, conf.server)
           r == dlms_checkHdlcAddress(conf, s, start, eopPos).position
<1>0. Len(s) \in Nat
  OBVIOUS
<1>1. to.position \in Nat /\ to.position <= Len(s)
  BY EndBehind, EndWithin, Zenon
<1>2. from.position <= Len(s)
  BY <1>1, EndWithin, Zenon
<1>3. r \in {start, to.position, eopPos + 1, from.position}
  BY AddressesPosition, Zenon
<1> HIDE DEF to, from, r
<1>4. r <= Len(s)
  BY <1>0, <1>1, <1>2, <1>3
<1> QED BY <1>4 DEF r

(* The LLC bytes are skipped where they stand.                             *)
LEMMA LLCWithin ==
  ASSUME NEW conf, NEW s \in Seq(Byte), NEW p \in Nat, p <= Len(s)
  PROVE  dlms_checkLLCBytes(conf, s, p) <= Len(s)
<1>0. Len(s) \in Nat
  OBVIOUS
<1>1. PICK llc : llc = IF conf.server THEN LLC_SEND_BYTES ELSE LLC_REPLY_BYTES
  OBVIOUS
<1>2. llc \in Seq(Byte) /\ Len(llc) = 3
  <2>1. LLC_REPLY_BYTES \in Seq(Byte) /\ Len(LLC_REPLY_BYTES) = 3
    BY DEF LLC_REPLY_BYTES, Byte
  <2> QED BY <1>1, <2>1, LLCBytes, Zenon
<1>3. CASE IsPrefix(llc, SubSeq(s, p + 1, Len(s)))
  <2>1. Stands(s, p, llc)
    BY <1>2, <1>3, PrefixStands
  <2>2. dlms_checkLLCBytes(conf, s, p) = p + 3
    BY <1>1, <1>3 DEF dlms_checkLLCBytes
  <2> QED BY <1>0, <1>2, <2>1, <2>2 DEF Stands
<1>4. CASE ~ IsPrefix(llc, SubSeq(s, p + 1, Len(s)))
  BY <1>1, <1>4 DEF dlms_checkLLCBytes
<1> QED BY <1>3, <1>4

(* An accepted frame does.                                                 *)
LEMMA AcceptedNear ==
  ASSUME NEW conf, NEW s \in Seq(Byte), NEW d \in HdlcData, NEW start \in Nat,
         NEW frameLen \in Nat, NEW p \in Nat, p + 3 <= Len(s)
  PROVE  Near(s, Accepted(conf, s, d, start, frameLen, p))
<1> DEFINE r == Accepted(conf, s, d, start, frameLen, p)
<1>1. r.position \in {p + 3, p + 4, dlms_checkLLCBytes(conf, s, p + 3)}
  <2> DEFINE frame == At(s, p)
             read == [d EXCEPT !.frame = frame, !.packetLength = start + frameLen - 1]
  <2>1. read \in [position: Nat, complete: BOOLEAN, moreData: BOOLEAN, command: Nat,
                  packetLength: {read.packetLength}, ret: {read.ret}, frame: {frame}]
    BY DEF HdlcData
  <2>2. CASE frame % 4 = 3 /\ frame \notin Spontaneous
    BY <2>1, <2>2 DEF Accepted
  <2>3. CASE (frame % 4 # 3 \/ frame \in Spontaneous) /\ p + 3 = start + frameLen + 1
    BY <2>1, <2>3 DEF Accepted
  <2>4. CASE (frame % 4 # 3 \/ frame \in Spontaneous) /\ p + 3 # start + frameLen + 1
    BY <2>1, <2>4 DEF Accepted
  <2> QED BY <2>2, <2>3, <2>4
<1> HIDE DEF r
<1>2. p + 3 \in Nat /\ p + 4 \in Nat /\ Len(s) \in Nat
  OBVIOUS
<1>3. dlms_checkLLCBytes(conf, s, p + 3) <= Len(s) /\ dlms_checkLLCBytes(conf, s, p + 3) \in Nat
  BY <1>2, LLCWithin, LLCBehind
<1>4. r.position <= Len(s) + 3
  BY <1>1, <1>2, <1>3
<1> QED BY <1>4 DEF Near, r

(* One look leaves a position near the end, or the one it found.           *)
LEMMA LookNear ==
  ASSUME NEW conf, NEW s \in Seq(Byte), NEW d \in HdlcData, Near(s, d)
  PROVE  Near(s, Look(conf, s, d).data)
<1> DEFINE start == NextFlag(s, d.position)
           frameLen == 256 * (At(s, start + 1) % 8) + At(s, start + 2)
           eopPos == start + frameLen + 1
           read == dlms_checkHdlcAddress(conf, s, start + 3, eopPos)
           p == read.position
           begun == [d EXCEPT !.complete = TRUE]
           more == (At(s, start + 1) \div 8) % 2 = 1
           continued == [begun EXCEPT !.moreData = more, !.position = p + 3]
           L == Look(conf, s, d)
           c1 == Len(s) - d.position < Smallest
           c2 == FlagsFrom(s, d.position) \subseteq {Len(s) - 1}
           c3 == At(s, start + 1) \div 16 # 10
           c4 == start + 2 = Len(s)
           c5 == Len(s) <= eopPos
           c6 == At(s, eopPos) # Flag
           refusal == [begun EXCEPT !.position = p]
           cr == read.refused
           c7 == p + 3 > Len(s)
           c8 == ~ HeaderRight(s, start, p)
           c9 == Len(s) - (p + 3) > 8
           c10 == ~ FrameRight(s, start, frameLen, p)
<1>L. L = IF c1 THEN Ends([d EXCEPT !.complete = FALSE])
     ELSE IF c2 THEN Ends([d EXCEPT !.complete = FALSE, !.position = Len(s)])
     ELSE IF c3 THEN Again([begun EXCEPT !.position = start + 1])
     ELSE IF c4 THEN Ends(Fails(begun, "OUTOFMEMORY"))
     ELSE IF c5 THEN Ends([d EXCEPT !.complete = FALSE, !.position = start])
     ELSE IF c6 THEN Again([begun EXCEPT !.position = start + 1])
     ELSE IF cr THEN Ends(Fails(refusal, "INVALID_CLIENT_ADDRESS"))
     ELSE IF c7 THEN Ends(Fails(continued, "OUTOFMEMORY"))
     ELSE IF c8 THEN IF c9 THEN Again(continued) ELSE Ends(Fails(continued, "WRONG_CRC"))
     ELSE IF c10 THEN Ends(Fails(continued, "WRONG_CRC"))
     ELSE Ends(Accepted(conf, s, continued, start, frameLen, p))
  BY Zenon DEF Look, Checked
<1>d. d.position \in Nat /\ Len(s) \in Nat /\ d.position <= Len(s) + 3
  BY DEF HdlcData, Near
<1>n. \A n \in Nat : /\ [d EXCEPT !.complete = FALSE, !.position = n].position = n
                     /\ [begun EXCEPT !.position = n].position = n
  BY DEF HdlcData
<1>e. \A r : Ends(r).data = r /\ Again(r).data = r
  BY DEF Ends, Again
<1>f. \A r \in HdlcData : \A t \in {"OUTOFMEMORY", "WRONG_CRC", "INVALID_CLIENT_ADDRESS"} :
        Fails(r, t).position = r.position
  BY DEF HdlcData, Fails
<1>b. begun \in HdlcData /\ begun.position = d.position
  BY DEF HdlcData
<1>a. \A n \in Nat : \A r : n <= Len(s) + 3 /\ r.position = n => Near(s, r)
  BY DEF Near
<1>1. CASE c1
  <2>1. L.data = [d EXCEPT !.complete = FALSE]
    BY <1>L, <1>1, <1>e, Zenon
  <2>2. [d EXCEPT !.complete = FALSE].position = d.position
    BY DEF HdlcData
  <2> HIDE DEF L
  <2> QED BY <2>1, <2>2, <1>d DEF Near, L
<1>2. CASE ~ c1 /\ c2
  <2>1. L.data = [d EXCEPT !.complete = FALSE, !.position = Len(s)]
    BY <1>L, <1>2, <1>e, Zenon
  <2>2. Len(s) <= Len(s) + 3
    BY <1>d
  <2>3. L.data.position = Len(s)
    BY <1>d, <1>n, <2>1, Zenon
  <2> HIDE DEF L
  <2> QED BY <2>2, <2>3 DEF Near, L
<1>3. ASSUME ~ c1, ~ c2  PROVE Near(s, L.data)
  <2>1. FlagsFrom(s, d.position) # {} /\ d.position < Len(s)
    BY <1>3, <1>d DEF Smallest
  <2>2. start \in d.position..(Len(s) - 1)
    BY <2>1, <1>d, FirstFlag
  <2>3. start < Len(s) - 1
    <3>1. PICK j \in FlagsFrom(s, d.position) : j # Len(s) - 1
      BY <1>3
    <3>2. j \in d.position..(Len(s) - 1)
      BY DEF FlagsFrom
    <3>3. start <= j
      BY <2>1, <1>d, FirstFlag
    <3> HIDE DEF start
    <3> QED BY <2>2, <3>1, <3>2, <3>3, <1>d
  <2>4. start \in Nat /\ start + 1 \in Nat /\ start + 1 < Len(s) /\ start + 1 <= Len(s) + 3
        /\ start <= Len(s) + 3
    <3> HIDE DEF start
    <3> QED BY <2>2, <2>3, <1>d
  <2>5. Near(s, [begun EXCEPT !.position = start + 1])
    <3>1. [begun EXCEPT !.position = start + 1].position = start + 1
      BY <1>n, <2>4, Zenon
    <3> HIDE DEF begun, start
    <3> QED BY <3>1, <2>4, <1>a, Zenon
  <2>6. CASE c3
    <3>1. L.data = [begun EXCEPT !.position = start + 1]
      BY <1>L, <1>3, <2>6, <1>e, Zenon
    <3> QED BY <2>5, <3>1, Zenon
  <2>7. CASE ~ c3 /\ c4
    <3>1. L.data = Fails(begun, "OUTOFMEMORY")
      BY <1>L, <1>3, <2>7, <1>e, Zenon
    <3>2. L.data.position = d.position
      BY <3>1, <1>f, <1>b, Zenon
    <3> HIDE DEF L
    <3> QED BY <3>2, <1>d DEF Near
  <2>8. ASSUME ~ c3, ~ c4  PROVE Near(s, L.data)
    <3>1. At(s, start + 1) \in Byte /\ At(s, start + 2) \in Byte
      <4> HIDE DEF start
      <4> QED BY <2>4, <2>8, BytesAreNumbers
    <3>2. frameLen \in Nat
      <4>1. \A a, b \in Byte : 256 * (a % 8) + b \in Nat
        BY DEF Byte
      <4> QED BY <3>1, <4>1, Zenon
    <3>3. eopPos \in Nat /\ eopPos > start
      <4> HIDE DEF start, frameLen
      <4> QED BY <3>2, <2>4
    <3>4. CASE c5
      <4>1. L.data = [d EXCEPT !.complete = FALSE, !.position = start]
        BY <1>L, <1>3, <2>8, <3>4, <1>e, Zenon
      <4>2. L.data.position = start
        BY <1>n, <2>4, <4>1, Zenon
      <4> HIDE DEF L, start
      <4> QED BY <4>2, <2>4, <1>a, Zenon
    <3>5. CASE ~ c5 /\ c6
      <4>1. L.data = [begun EXCEPT !.position = start + 1]
        <5>1. L = Again([begun EXCEPT !.position = start + 1])
          BY <1>L, <1>3, <2>8, <3>5, Zenon
        <5> HIDE DEF begun, start, L
        <5> QED BY <5>1, <1>e, Zenon
      <4> QED BY <2>5, <4>1, Zenon
    <3>6. ASSUME ~ c5, ~ c6  PROVE Near(s, L.data)
      <4>0. eopPos >= start + 3
        <5>1. PICK x, y, z : x = At(s, start + 1) /\ y = At(s, start + 2) /\ z = start
          OBVIOUS
        <5>2. x \in 0..255 /\ y \in 0..255 /\ z \in Nat /\ x \div 16 = 10
          BY <2>4, <2>8, <3>1, <5>1 DEF Byte
        <5>3. eopPos = z + (256 * (x % 8) + y) + 1 /\ At(s, eopPos) = 126
          BY <3>6, <5>1 DEF Flag
        <5>4. eopPos # z + 1
          <6> SUFFICES ASSUME eopPos = z + 1  PROVE FALSE
            OBVIOUS
          <6>1. At(s, eopPos) = x
            BY <5>1
          <6> QED BY <5>2, <5>3, <6>1
        <5>5. eopPos # z + 2
          <6> SUFFICES ASSUME eopPos = z + 2  PROVE FALSE
            OBVIOUS
          <6>1. At(s, eopPos) = y
            BY <5>1
          <6>2. 256 * (x % 8) + y = 1
            BY <5>2, <5>3
          <6> QED BY <5>2, <5>3, <6>1, <6>2
        <5> HIDE DEF start, frameLen, eopPos
        <5> QED BY <5>1, <5>2, <5>4, <5>5, <3>3
      <4>1. eopPos < Len(s) /\ start + 3 \in Nat /\ start + 3 <= Len(s)
        <5> HIDE DEF start, frameLen, eopPos
        <5> QED BY <4>0, <2>4, <3>3, <3>6, <1>d
      <4>2. p \in Nat /\ p <= Len(s)
        <5> HIDE DEF start, frameLen, eopPos
        <5> QED BY <4>1, <3>3, AddressesBehind, AddressesWithin, Zenon
      <4>3. p + 3 \in Nat /\ p + 3 <= Len(s) + 3
        <5> HIDE DEF p
        <5> QED BY <4>2, <1>d
      <4>4. continued \in HdlcData /\ continued.position = p + 3
        <5>1. more \in BOOLEAN
          OBVIOUS
        <5>2. \A n \in Nat, b \in BOOLEAN :
                /\ [begun EXCEPT !.moreData = b, !.position = n] \in HdlcData
                /\ [begun EXCEPT !.moreData = b, !.position = n].position = n
          BY DEF HdlcData
        <5> HIDE DEF begun, start, frameLen, eopPos, p, more
        <5> QED BY <4>3, <5>1, <5>2, Zenon
      <4>5. Near(s, continued) /\ Near(s, Fails(continued, "OUTOFMEMORY"))
            /\ Near(s, Fails(continued, "WRONG_CRC"))
        <5>1. \A t \in {"OUTOFMEMORY", "WRONG_CRC"} : Fails(continued, t).position = p + 3
          <6> HIDE DEF continued, p
          <6> QED BY <4>4, <1>f
        <5> HIDE DEF continued, p
        <5> QED BY <4>3, <4>4, <5>1, <1>a
      <4>r. CASE cr
        <5>1. L = Ends(Fails(refusal, "INVALID_CLIENT_ADDRESS"))
          BY <1>L, <1>3, <2>8, <3>6, <4>r, Zenon
        <5>2. L.data = Fails(refusal, "INVALID_CLIENT_ADDRESS")
          <6> HIDE DEF L, refusal
          <6> QED BY <5>1, <1>e, Zenon
        <5>3. \A n \in Nat : [begun EXCEPT !.position = n] \in HdlcData
          BY DEF HdlcData
        <5>4. refusal \in HdlcData /\ refusal.position = p
          <6> HIDE DEF begun, p
          <6> QED BY <4>2, <5>3, <1>n, Zenon
        <5> HIDE DEF refusal, L, p
        <5>5. L.data.position = p
          BY <5>2, <5>4, <1>f
        <5>6. p <= Len(s) + 3
          BY <4>2, <1>d
        <5> QED BY <4>2, <5>5, <5>6, <1>a
      <4>6. CASE ~ cr /\ c7
        <5>1. L.data = Fails(continued, "OUTOFMEMORY")
          BY <1>L, <1>3, <2>8, <3>6, <4>6, <1>e, Zenon
        <5> QED BY <5>1, <4>5, Zenon
      <4>7. CASE ~ cr /\ ~ c7 /\ c8
        <5>1. L.data = continued \/ L.data = Fails(continued, "WRONG_CRC")
          <6>1. L = Again(continued) \/ L = Ends(Fails(continued, "WRONG_CRC"))
            BY <1>L, <1>3, <2>8, <3>6, <4>7, Zenon
          <6> HIDE DEF continued, start, frameLen, p, L
          <6> QED BY <6>1, <1>e, Zenon
        <5> QED BY <5>1, <4>5, Zenon
      <4>8. CASE ~ cr /\ ~ c7 /\ ~ c8 /\ c10
        <5>1. L.data = Fails(continued, "WRONG_CRC")
          BY <1>L, <1>3, <2>8, <3>6, <4>8, <1>e, Zenon
        <5> QED BY <5>1, <4>5, Zenon
      <4>9. CASE ~ cr /\ ~ c7 /\ ~ c8 /\ ~ c10
        <5>1. L.data = Accepted(conf, s, continued, start, frameLen, p)
          <6>1. L = Ends(Accepted(conf, s, continued, start, frameLen, p))
            BY <1>L, <1>3, <2>8, <3>6, <4>9, Zenon
          <6> HIDE DEF continued, start, frameLen, p, L
          <6> QED BY <6>1, <1>e, Zenon
        <5>2. p + 3 <= Len(s)
          <6> HIDE DEF p
          <6> QED BY <4>2, <4>9, <1>d
        <5>3. Near(s, Accepted(conf, s, continued, start, frameLen, p))
          <6> HIDE DEF continued, start, frameLen, p
          <6> QED BY <5>2, <4>2, <4>4, <3>2, <2>4, AcceptedNear, Zenon
        <5> HIDE DEF continued, start, frameLen, p, L
        <5> QED BY <5>1, <5>3, Zenon
      <4> QED BY <4>r, <4>6, <4>7, <4>8, <4>9, Zenon
    <3> QED BY <3>4, <3>5, <3>6, Zenon
  <2> QED BY <2>6, <2>7, <2>8, Zenon
<1> QED BY <1>1, <1>2, <1>3, Zenon

(* So does the search.                                                     *)
LEMMA DataNear ==
  ASSUME NEW conf, NEW s \in Seq(Byte), NEW d \in HdlcData, Near(s, d)
  PROVE  Near(s, dlms_getHdlcData(conf, s, d))
<1> DEFINE read(e) == dlms_getHdlcData(conf, s, e)
           S == {e \in HdlcData : Near(s, e)}
           T == {Len(s) + 3 - e.position : e \in {f \in S : ~ Near(s, read(f))}}
<1>0. Len(s) \in Nat /\ \A e \in S : e.position \in Nat /\ e.position <= Len(s) + 3
  BY DEF HdlcData, Near
<1>1. \A e \in S : read(e) = IF Look(conf, s, e).again THEN read(Look(conf, s, e).data)
                             ELSE Look(conf, s, e).data
  BY DataRead
<1>2. \A e \in S : /\ Look(conf, s, e).data \in S
                   /\ Look(conf, s, e).again => e.position < Look(conf, s, e).data.position
  BY LookNear, Looks DEF Looked
<1> HIDE DEF read
<1>3. T = {}
  <2> SUFFICES ASSUME T # {}  PROVE FALSE
    OBVIOUS
  <2>1. T \subseteq Nat
    BY <1>0
  <2>2. PICK k \in T : \A y \in T : ~ (y < k)
    BY <2>1, LeastNumber
  <2>3. PICK e \in S : ~ Near(s, read(e)) /\ k = Len(s) + 3 - e.position
    BY <2>2
  <2>4. PICK f : f = Look(conf, s, e).data
    OBVIOUS
  <2>5. f \in S
    BY <1>2, <2>4
  <2>6. Look(conf, s, e).again /\ read(e) = read(f)
    <3>1. Near(s, f)
      BY <2>5
    <3> QED BY <1>1, <2>3, <2>4, <3>1, Zenon
  <2>7. ~ Near(s, read(f)) /\ e.position < f.position
    BY <1>2, <2>3, <2>4, <2>6
  <2>8. Len(s) + 3 - f.position \in T
    BY <2>5, <2>7
  <2>9. Len(s) + 3 - f.position < k
    BY <1>0, <2>3, <2>5, <2>7
  <2> QED BY <2>2, <2>8, <2>9
<1>4. d \in S
  OBVIOUS
<1>5. Near(s, read(d))
  BY <1>3, <1>4
<1> QED BY <1>5 DEF read
================================================================================
