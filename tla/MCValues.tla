-------------------------------- MODULE MCValues --------------------------------
(***************************************************************************)
(* The conversions of Values on values at their borders. TLC evaluates     *)
(* them in every run of MCSession.                                         *)
(***************************************************************************)
LOCAL INSTANCE Values

LOCAL Tails == {<<>>, <<132>>, <<0, 255, 1>>}
LOCAL Counts == {0, 1, 127, 128, 129, 255, 256, 257, 32768, 65535}
LOCAL LongCounts == {65536, 65537, 131071, 2147483647}
LOCAL Numbers == {0, 1, 9, 10, 99, 100, 255, 256, 65535, 65536, 16777216, 2147483647}

LOCAL Serial(n) == [i \in 1..n |-> 1 + ((7 * i) % 255)]
LOCAL OctetString(b) == <<OCTET_STRING>> \o hlp_setObjectCount(Len(b)) \o b

(* A count of up to 16 bits is read back, and nothing after it.            *)
ASSUME CountsReadBack ==
  \A n \in Counts, t \in Tails :
    LET s == hlp_setObjectCount(n) \o t
    IN hlp_getObjectCount2(s) = n /\ After(s, CountLength(s)) = t

(* Of a longer one only the low 16 bits.                                   *)
ASSUME LongCountsCut ==
  \A n \in LongCounts, t \in Tails :
    hlp_getObjectCount2(hlp_setObjectCount(n) \o t) = n % UInt16Mod

(* A serial number is printed as the meter has it, its first 63 bytes.     *)
ASSUME SerialNumbersPrinted ==
  \A n \in {0, 1, 12, 63, 64, 130}, t \in Tails :
    LET s == OctetString(Serial(n)) \o t
    IN ~ Failed(s) /\ parse_meter_sn(s) = SubSeq(Serial(n), 1, Lower(n, 63))

(* An energy is printed as the number the meter sent.                      *)
ASSUME EnergiesPrinted ==
  \A n \in Numbers, t \in Tails :
    LET s == <<UINT32>> \o Four(n) \o t
    IN /\ ~ Failed(s) /\ Len(parse_energy(s)) = 1
       /\ FoldLeft(LAMBDA value, digit : 10 * value + digit, 0, parse_energy(s)[1]) = n

(* A relay is printed on or off as the meter says, if it says so in one    *)
(* byte that is a Boolean; in a type that is not read it is always off.    *)
ASSUME RelaysPrinted ==
  /\ \A n \in Octets : parse_relay(<<BOOLEAN_, n>>) = {IF n = 0 THEN "off" ELSE "on"}
  /\ \A vt \in Tags \ {BOOLEAN_, UINT32, OCTET_STRING}, n \in {0, 1} :
       vt < BYREF => parse_relay(<<vt, n>>) = {"off"}

(* Conformance bits are read as they were written.                         *)
ASSUME ConformanceReadBack ==
  \A c \in {2^i : i \in 0..23} \cup {0, 6160, 8288029, 16777215} :
    ba_toInteger(ConformanceBytes(c)) = c
================================================================================
