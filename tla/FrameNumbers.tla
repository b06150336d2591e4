----------------------------- MODULE FrameNumbers -----------------------------
(***************************************************************************)
(* What the two control bytes kept in dlmsSettings stand for: the number   *)
(* of the last frame sent, and the two numbers of the last frame taken     *)
(* from the peer. Between resets all three only move one step forward,     *)
(* modulo 8, and never two of them for one frame unless they move          *)
(* together.                                                               *)
(***************************************************************************)
EXTENDS Naturals

VARIABLES
  sentNo,   \* N(S) of the last frame sent
  taken     \* N(S) and N(R) of the last frame taken

vars == <<sentNo, taken>>

After(n) == (n + 1) % 8

Start == [ns |-> 7, nr |-> 0]

Init == sentNo = 7 /\ taken = Start

Reset == sentNo' = 7 /\ taken' = Start

Send == sentNo' = After(sentNo) /\ UNCHANGED taken

(* The answer to the last frame.                                           *)
Take ==
  /\ taken' = [ns |-> After(taken.ns), nr |-> After(taken.nr)]
  /\ UNCHANGED sentNo

(* A further frame of an answer, where the window is not one frame.        *)
TakeNext == taken' = [taken EXCEPT !.ns = After(@)] /\ UNCHANGED sentNo

(* A supervisory frame: only an acknowledgement.                           *)
Acknowledge == taken' = [taken EXCEPT !.nr = After(@)] /\ UNCHANGED sentNo

(* A pre-established link is recognised by these two numbers.              *)
Resync ==
  /\ taken = [ns |-> 7, nr |-> 7]
  /\ taken' \in [ns: 0..7, nr: 0..7]
  /\ UNCHANGED sentNo

Next == Reset \/ Send \/ Take \/ TakeNext \/ Acknowledge \/ Resync

Spec == Init /\ [][Next]_vars
=============================================================================
