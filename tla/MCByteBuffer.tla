----------------------------- MODULE MCByteBuffer ------------------------------
(***************************************************************************)
(* A buffer that holds up to four bytes beside one that holds a copied     *)
(* byte: a string shorter than a growth step, a word as long as one and a  *)
(* long word longer than one, their bytes different.                       *)
(***************************************************************************)
EXTENDS ByteBuffer

CONSTANTS pdu, frame

MCStrings == {<<1>>}
MCWords == {258}           \* 0x0102
MCLongWords == {16908545}  \* 0x01020101
MCMaxSize == [b \in Buffers |-> IF b = pdu THEN 4 ELSE 1]
================================================================================
