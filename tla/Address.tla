-------------------------------- MODULE Address --------------------------------
(***************************************************************************)
(* HDLC addresses (dlms_getAddress and dlms_getHDLCAddress of dlms.c): a   *)
(* number is cut into groups of seven bits, a group takes the upper seven  *)
(* bits of a byte, and bit 0 is set in the last byte only. One, two and    *)
(* four bytes are legal. Positions count from 0, as in the code.           *)
(***************************************************************************)
EXTENDS Integers, Sequences

Byte == 0..255

(* A number without its last group of seven bits, and the byte for that    *)
(* group, in the middle and at the end of an address.                      *)
Upper(v) == v \div 128
Inner(v) == 2 * (v % 128)
Final(v) == 2 * (v % 128) + 1

(* The numbers below 0x10000000, those of four groups at most.             *)
Numbers == {v \in Nat : Upper(Upper(Upper(v))) < 128}

(* Mutation of dlms_getAddressBytes: three bytes where three groups do. *)
dlms_getAddressBytesTight(v) ==
  IF v < 128 THEN <<Final(v)>>
  ELSE IF v < 16384 THEN <<Inner(Upper(v)), Final(v)>>
  ELSE <<Inner(Upper(Upper(v))), Inner(Upper(v)), Final(v)>>

(* For v \in Numbers; for others dlms_getAddress reports an error.         *)
dlms_getAddressBytes(v) ==
  IF v < 128 THEN <<Final(v)>>
  ELSE IF v < 16384 THEN <<Inner(Upper(v)), Final(v)>>
  ELSE <<Inner(Upper(Upper(Upper(v)))), Inner(Upper(Upper(v))), Inner(Upper(v)), Final(v)>>

-----------------------------------------------------------------------------
(* The byte at position i, and the positions at which an address that      *)
(* begins at position p may end.                                           *)
At(s, i) == s[i + 1]
AddressEnds(s, p) == {i \in p..(Len(s) - 1) : At(s, i) % 2 = 1}

AddressEnd(s, p) ==
  IF AddressEnds(s, p) = {} THEN Len(s) - 1
  ELSE CHOOSE i \in AddressEnds(s, p) : \A j \in AddressEnds(s, p) : i <= j

Bits(s, i) == At(s, i) \div 2
Joined(v, group) == 128 * v + group

AddressValue(s, p) ==
  IF AddressEnd(s, p) = p THEN Bits(s, p)
  ELSE IF AddressEnd(s, p) = p + 1 THEN Joined(Bits(s, p), Bits(s, p + 1))
  ELSE Joined(Joined(Joined(Bits(s, p), Bits(s, p + 1)), Bits(s, p + 2)), Bits(s, p + 3))

(* The address at position p of s and the position after it; an address of *)
(* an illegal length leaves the position where it is. To a server that     *)
(* reads a client's address all but one byte is illegal.                   *)
AddressFails(p, ret) == [ret |-> ret, value |-> 0, position |-> p]

dlms_getHDLCAddress(s, p, checkClientAddress) ==
  IF checkClientAddress /\ AddressEnd(s, p) # p
  THEN AddressFails(p, "INVALID_CLIENT_ADDRESS")
  ELSE IF AddressEnd(s, p) \in {p, p + 1, p + 3}
  THEN [ret |-> "OK", value |-> AddressValue(s, p), position |-> AddressEnd(s, p) + 1]
  ELSE AddressFails(p, "INVALID_PARAMETER")
================================================================================
