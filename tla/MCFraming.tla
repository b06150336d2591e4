------------------------------- MODULE MCFraming -------------------------------
(***************************************************************************)
(* Addresses at the borders of one, two and four bytes, a client's of two  *)
(* among them, which a server refuses; messages that fill one frame        *)
(* exactly, miss it by one byte either way, or take three, and a message   *)
(* of flags only.                                                          *)
(***************************************************************************)
EXTENDS Framing

Body(n) == [i \in 1..n |-> (37 * i) % 256]
Message(body) == LLC_SEND_BYTES \o body

MCServers == {1, 127, 128, 16383, 16384, 268435455}
MCClients == {16, 32, 128}
MCMaxInfoTX == {8, 12}
MCPdus == {Message(Body(n)) : n \in {1, 2, 3, 6, 9, 20}} \cup {Message(<<126, 126, 126>>)}
MCChanges == {1, 94, 128, 255}

ASSUME MessagesArriveWhole == FramesWide /\ LLCInFirstFrame
================================================================================
