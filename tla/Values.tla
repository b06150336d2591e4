--------------------------------- MODULE Values --------------------------------
(***************************************************************************)
(* From the bytes of an answer to what the command prints: object counts,  *)
(* the values dlms_getData takes out of an answer, the objects they are    *)
(* stored in, their text and what parse_rx makes of the text.              *)
(*                                                                         *)
(* A text is a sequence of words, a word a sequence of digits. The labels  *)
(* around a value ("Index: 2 Value:") are left out. Arrays and structures  *)
(* are, too: the library never gives one elements.                         *)
(***************************************************************************)
EXTENDS Integers, SequencesExt

Octets == 0..255
Tags   == Octets \ {1, 2}  \* DLMS_DATA_TYPE_ARRAY, DLMS_DATA_TYPE_STRUCTURE

NONE         == 0
BOOLEAN_     == 3
UINT32       == 6
OCTET_STRING == 9
STRING_      == 10
DELTA_UINT32 == 33
BYREF        == 128  \* a flag of the type

OutputSize == 64  \* output of parse_rx, its last byte always 0

-----------------------------------------------------------------------------
(* Object counts.                                                          *)

UInt16Mod == 65536

(* The bytes of a 16-bit number, and of a 32-bit number.                   *)
High(n) == n \div 256
Low(n)  == n % 256
Four(n) ==
  <<High(n \div UInt16Mod), Low(n \div UInt16Mod), High(n % UInt16Mod), Low(n % UInt16Mod)>>

hlp_setObjectCount(n) ==
  IF n < 128 THEN <<n>>
  ELSE IF n < 256 THEN <<129, n>>
  ELSE IF n < UInt16Mod THEN <<130, High(n), Low(n)>>
  ELSE <<132>> \o Four(n)

After(s, n) == SubSeq(s, n + 1, Len(s))

(* Where the count ends, 0 if its bytes are missing or it has another form. *)
CountLength(s) ==
  IF s = <<>> THEN 0
  ELSE IF s[1] <= 128 THEN 1
  ELSE IF s[1] = 129 /\ Len(s) >= 2 THEN 2
  ELSE IF s[1] = 130 /\ Len(s) >= 3 THEN 3
  ELSE IF s[1] = 132 /\ Len(s) >= 5 THEN 5
  ELSE 0

(* The count is a uint16_t, whatever its form.                             *)
hlp_getObjectCount2(s) ==
  IF CountLength(s) = 0 THEN 0
  ELSE IF CountLength(s) = 1 THEN s[1]
  ELSE IF CountLength(s) = 2 THEN s[2]
  ELSE 256 * s[CountLength(s) - 1] + s[CountLength(s)]

-----------------------------------------------------------------------------
(* Values.                                                                 *)

(* A dlmsVARIANT: its type, its bytes if it is an octet string (none also  *)
(* if byteArr or strVal is NULL) and its number.                           *)
Variant(vt, bytes, number) == [vt |-> vt, bytes |-> bytes, number |-> number]
Empty(vt) == Variant(vt, <<>>, 0)

(* The result of a call: a code, and a value if the code is OK.             *)
Gives(ret, value) == [ret |-> ret, value |-> value]

(* Fewer than four bytes: not complete, and no error.                      *)
getUInt32(s) ==
  IF Len(s) < 4 THEN 0 ELSE UInt16Mod * (256 * s[1] + s[2]) + (256 * s[3] + s[4])

getOctetString(s, vt) ==
  IF CountLength(s) = 0 THEN Gives("OUTOFMEMORY", Empty(NONE))
  ELSE IF Len(s) < CountLength(s) + hlp_getObjectCount2(s) THEN Gives("OK", Empty(vt))
  ELSE Gives("OK", Variant(vt, SubSeq(s, CountLength(s) + 1,
                                      CountLength(s) + hlp_getObjectCount2(s)), 0))

getBool(s) == IF s = <<>> THEN 0 ELSE IF s[1] = 0 THEN 0 ELSE 1

(* The type is the one the meter names, also if the value is not taken:    *)
(* no other type takes bytes, nor does one of these whose bytes are missing. *)
dlms_getData(s) ==
  IF s[1] % BYREF = OCTET_STRING THEN getOctetString(After(s, 1), s[1])
  ELSE Gives("OK", Variant(s[1], <<>>,
                     IF s[1] % BYREF = UINT32 THEN getUInt32(After(s, 1))
                     ELSE IF s[1] % BYREF = BOOLEAN_ THEN getBool(After(s, 1))
                     ELSE 0))

(* Into a new object. A reference is not copied, and of a number only one  *)
(* whose size var_getSize knows.                                           *)
var_copy(v) ==
  IF v.vt >= BYREF THEN Empty(NONE)
  ELSE IF v.vt = BOOLEAN_ THEN Empty(BOOLEAN_)
  ELSE v

(* The value of a data object or a register after a read.                  *)
cosem_setRegister(s) == var_copy(dlms_getData(s).value)

(* The low byte of the value, which is an address if it has bytes.         *)
cosem_setDisconnectControl(s) ==
  IF dlms_getData(s).value.bytes # <<>> THEN Octets
  ELSE {dlms_getData(s).value.number % 256}

-----------------------------------------------------------------------------
(* Text.                                                                   *)

hlp_bytesToHex(b) == [i \in DOMAIN b |-> <<b[i] \div 16, b[i] % 16>>]

(* How many digits a uint32_t has.                                         *)
Width(n) ==
  CHOOSE k \in 1..10 : n \div 10^(k - 1) < 10 /\ (k = 1 \/ n \div 10^(k - 1) > 0)

hlp_uint64ToString(n) == [i \in 1..Width(n) |-> (n \div 10^(Width(n) - i)) % 10]

(* convert knows two types; a string is text already.                      *)
Convertible(v) == v.vt \in {OCTET_STRING, UINT32, DELTA_UINT32, STRING_}

var_toString(v) ==
  IF v.vt = OCTET_STRING THEN hlp_bytesToHex(v.bytes)
  ELSE IF v.vt = STRING_ THEN <<>>
  ELSE <<hlp_uint64ToString(v.number)>>

-----------------------------------------------------------------------------
(* What parse_rx prints.                                                   *)

(* sscanf reads a word as a hexadecimal number, a char keeps its low byte.  *)
LowByte(w) == IF Len(w) = 1 THEN w[1] ELSE 16 * w[Len(w) - 1] + w[Len(w)]

Lower(m, n) == IF m <= n THEN m ELSE n

Output(text) == [i \in 1..Lower(Len(text), OutputSize - 1) |-> LowByte(text[i])]

(* printf stops at a zero byte.                                            *)
Printed(s) ==
  SubSeq(s, 1, CHOOSE n \in 0..Len(s) :
                 /\ \A i \in 1..n : s[i] # 0
                 /\ n = Len(s) \/ s[n + 1] = 0)

(* com_readValue_new up to parse_rx, by item. An answer that cannot be     *)
(* read or has no text is an error.                                        *)
Failed(s) == dlms_getData(s).ret # "OK" \/ ~ Convertible(cosem_setRegister(s))

parse_meter_sn(s) == Printed(Output(var_toString(cosem_setRegister(s))))

parse_energy(s) == var_toString(cosem_setRegister(s))

parse_relay(s) ==
  {IF n = 1 THEN "on" ELSE IF n = 0 THEN "off" ELSE "unknown" :
     n \in cosem_setDisconnectControl(s)}

-----------------------------------------------------------------------------
(* The conformance block of the initiate request and response: the first   *)
(* bit sent is the lowest.                                                 *)

Bit(n, i) == (n \div 2^i) % 2

hlp_swapBits(v) == MapThenSumSet(LAMBDA i : Bit(v, i) * 2^(7 - i), 0..7)

ConformanceBytes(c) ==
  <<hlp_swapBits(c % 256), hlp_swapBits((c \div 256) % 256), hlp_swapBits(c \div 65536)>>

ba_toInteger(s) ==
  MapThenSumSet(LAMBDA i : Bit(s[(i \div 8) + 1], 7 - (i % 8)) * 2^i, 0..(8 * Len(s) - 1))
================================================================================
