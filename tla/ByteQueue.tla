------------------------------- MODULE ByteQueue -------------------------------
(***************************************************************************)
(* What the library's byte buffers promise their callers: each holds a     *)
(* queue of unread bytes. Nothing is said of memory.                       *)
(***************************************************************************)
EXTENDS Naturals, SequencesExt

CONSTANTS
  Buffers,  \* the buffers
  Strings,  \* what callers append, prepend or compare with
  Byte      \* values of a byte

VARIABLES
  unread,  \* the bytes of each buffer that are still to be read
  got      \* the bytes the last call returned

First(b, n) == SubSeq(unread[b], 1, n)
Rest(b, n)  == SubSeq(unread[b], n + 1, Len(unread[b]))

Init == unread = [b \in Buffers |-> <<>>] /\ got = <<>>

Add(b) ==
  \E s \in Strings : unread' = [unread EXCEPT ![b] = @ \o s] /\ got' = <<>>

Prepend(b) ==
  \E s \in Strings : unread' = [unread EXCEPT ![b] = s \o @] /\ got' = <<>>

Take(b) ==
  \E n \in 1..Len(unread[b]) :
    unread' = [unread EXCEPT ![b] = Rest(b, n)] /\ got' = First(b, n)

Skip(b) ==
  \E s \in Strings :
    /\ s = unread[b]
    /\ unread' = [unread EXCEPT ![b] = <<>>] /\ got' = <<>>

Peek(b) ==
  \E n \in DOMAIN unread[b] : got' = <<unread[b][n]>> /\ UNCHANGED unread

Patch(b) ==
  \E n \in DOMAIN unread[b], v \in Byte :
    unread' = [unread EXCEPT ![b][n] = v] /\ got' = <<>>

Clear(b) == unread' = [unread EXCEPT ![b] = <<>>] /\ got' = <<>>

Transfer(b, c) ==
  \E n \in 1..Len(unread[b]) :
    /\ unread' = [unread EXCEPT ![b] = Rest(b, n), ![c] = @ \o First(b, n)]
    /\ got' = <<>>

(* A call that fails or only moves memory around.                          *)
Nothing == got' = <<>> /\ UNCHANGED unread

Next ==
  \/ \E b \in Buffers :
       \/ Add(b) \/ Prepend(b) \/ Take(b) \/ Skip(b) \/ Peek(b) \/ Patch(b)
       \/ Clear(b)
  \/ \E b, c \in Buffers : b # c /\ Transfer(b, c)
  \/ Nothing

Spec == Init /\ [][Next]_<<unread, got>>
================================================================================
