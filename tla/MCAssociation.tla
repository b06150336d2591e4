----------------------------- MODULE MCAssociation -----------------------------
(***************************************************************************)
(* The two associations of a run with --hls: public to read the counter,   *)
(* then the reading client.  A meter with the client's keys or with        *)
(* another one of either kind, challenges of 8, 15 and 16 bytes.           *)
(***************************************************************************)
EXTENDS Association

MCAttempts == <<[authentication |-> "NONE", security |-> NONE],
                [authentication |-> "HIGH_GMAC", security |-> AUTHENTICATION_ENCRYPTION]>>

AuthKey(n) == [i \in 1..16 |-> n + i]
MCClientKeys == [block |-> 1, auth |-> AuthKey(200)]
MCMeterKeys == {MCClientKeys, [MCClientKeys EXCEPT !.block = 2],
                [MCClientKeys EXCEPT !.auth = AuthKey(220)]}

Bytes(n) == [i \in 1..n |-> 100 + i]
MCChallenges == {Bytes(8), Bytes(15), Bytes(16)}
MCGranted == {[conformance |-> 1, pdu |-> 128], [conformance |-> 3, pdu |-> 2048]}

MCRefusals == [result: {"PERMANENT_REJECTED", "TRANSIENT_REJECTED"},
               diagnostic: {"NO_REASON_GIVEN", "APPLICATION_CONTEXT_NAME_NOT_SUPPORTED",
                            "AUTHENTICATION_FAILURE", "MECHANISM_NOT_RECOGNISED"}]
(* A meter's own context name, logical names not being used.               *)
MCAnyNames == {"LN", "LN ciphered", "SN"}

(* An enciphered value of any length is fed to GHASH as GCM says, with the *)
(* keys of either size.                                                    *)
ASSUME GHashRight ==
  \A key \in {AuthKey(200), AuthKey(200) \o AuthKey(216)}, n \in 1..49 :
    gxgcm_getGHash(AUTHENTICATION_ENCRYPTION, 48, key, Bytes(n))
      = GcmBlocks(AUTHENTICATION_ENCRYPTION, 48, key, Bytes(n))
================================================================================
