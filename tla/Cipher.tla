--------------------------------- MODULE Cipher --------------------------------
(***************************************************************************)
(* The protection of ciphering.c with an ideal block cipher: a tag is the  *)
(* record of everything it was computed from, so two tags are equal when   *)
(* key, title, counter and the blocks fed to GHASH are.  What gets into    *)
(* those blocks is modelled byte by byte, for the code and for GCM.        *)
(*                                                                         *)
(* Bytes are numbers, a key is [block |-> a number, auth |-> its bytes],   *)
(* and the control byte is security + suite: no message is broadcast.      *)
(***************************************************************************)
EXTENDS Naturals, Sequences

AUTHENTICATION == 16             \* DLMS_SECURITY, as in the control byte
AUTHENTICATION_ENCRYPTION == 48
NONE == 0

Smaller(a, b) == IF a < b THEN a ELSE b
Pad(s) == s \o [i \in 1..(16 - Len(s)) |-> 0]
InBlocks(s) == [i \in 1..((Len(s) + 15) \div 16) |->
                  Pad(SubSeq(s, 16 * i - 15, Smaller(16 * i, Len(s))))]

(* GCM: the authenticated bytes, padded, and the enciphered ones, padded.  *)
(* The last block, the two lengths, is in the tag's record itself.         *)
GcmBlocks(security, control, authenticationKey, value) ==
  LET a == <<control>> \o authenticationKey
  IN IF security = AUTHENTICATION THEN InBlocks(a \o value)
     ELSE InBlocks(a) \o InBlocks(value)

(* Mutation of gxgcm_getGHash: the byte that the leftover key byte pushed  *)
(* out of a full last block is not fed.                                    *)
gxgcm_getGHashNoRest(security, control, authenticationKey, value) ==
  GcmBlocks(security, control, authenticationKey,
            IF security = AUTHENTICATION /\ Len(value) = 16 THEN SubSeq(value, 1, 15)
            ELSE value)

(* The blocks the code feeds.  One byte of the key is left for the block   *)
(* the value begins in.  With AUTHENTICATION it stays in front of every    *)
(* later block too, and whatever it pushes out of a block is fed only when *)
(* that block is the last and full.  An empty value is never authenticated *)
(* alone (the byte before it would be read).                               *)
gxgcm_getGHash(security, control, authenticationKey, value) ==
  LET n    == Len(authenticationKey)
      key  == [i \in 1..(n \div 16) |->
                 SubSeq(<<control>> \o authenticationKey, 16 * i - 15, 16 * i)]
      left == authenticationKey[n]
      v    == Len(value)
      after == [i \in 1..((v + 15) \div 16) |->
                  Pad(<<left>> \o SubSeq(value, 16 * i - 15, Smaller(16 * i - 1, v)))]
  IN IF security # AUTHENTICATION
     THEN key \o <<Pad(<<left>>)>> \o InBlocks(value)
     ELSE key \o after \o (IF v % 16 = 0 THEN <<Pad(<<value[v]>>)>> ELSE <<>>)
-----------------------------------------------------------------------------
NoKeys == [block |-> 0, auth |-> <<>>]
NoTag == [control |-> 0, counter |-> 0, title |-> <<>>, key |-> NoKeys,
          length |-> 0, hash |-> <<>>]

Tag(control, counter, title, keys, value, hash) ==
  [control |-> control, counter |-> counter, title |-> title, key |-> keys,
   length |-> Len(value), hash |-> hash]

Security(control) == 16 * ((control \div 16) % 4)
Suite(control) == control % 4

gxgcm_getTag(control, counter, title, keys, value) ==
  Tag(control, counter, title, keys, value,
      gxgcm_getGHash(Security(control), control, keys.auth, value))

(* The tag of a peer that follows the standard. *)
GcmTag(control, counter, title, keys, value) ==
  Tag(control, counter, title, keys, value,
      GcmBlocks(Security(control), control, keys.auth, value))

(* c is settings->cipher. A tag is refused before it is computed when      *)
(* nothing is ciphered or the key has the size of another suite.           *)
cip_encryptAllowed(c, keys) ==
  c.security # NONE /\ Len(keys.auth) = (IF c.suite = 2 THEN 32 ELSE 16)

(* A protected value is taken when it is protected as the settings ask,    *)
(* if they ask for protection at all, and its tag is right.                *)
cip_decrypt(c, keys, title, value, tag) ==
  LET security == Security(tag.control)
  IN IF \/ security = NONE
        \/ c.security # NONE /\ (security # c.security \/ Suite(tag.control) # c.suite)
     THEN "INVALID_DECIPHERING_ERROR"
     ELSE IF security \notin {AUTHENTICATION, AUTHENTICATION_ENCRYPTION} \/ value = <<>>
     THEN "INVALID_PARAMETER"
     ELSE IF tag # gxgcm_getTag(tag.control, tag.counter, title, keys, value)
     THEN "INVALID_TAG" ELSE "OK"
================================================================================
