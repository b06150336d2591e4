------------------------------- MODULE MCReceiver ------------------------------
(***************************************************************************)
(* A UA with one byte of parameters, a numbered answer of one byte, and    *)
(* what a line may put before an answer.                                   *)
(***************************************************************************)
EXTENDS Receiver

MCExchanges ==
  <<[frame |-> UA, info |-> <<129>>],
    [frame |-> 48, info |-> LLC_REPLY_BYTES \o <<196>>]>>

MCNoise == {<<255, Flag, 0, 0, 0, 0>>}

(* The second answer is lost, cut after each of its fields or changed in   *)
(* one, but neither in its length nor in its closing flag.                 *)
MCCuts  == [k \in DOMAIN Exchanges |-> IF k = 1 THEN {6} ELSE {0, 1, 4, 6, 8, 12, 14}]
MCSpots == [k \in DOMAIN Exchanges |-> IF k = 1 THEN {} ELSE {1, 4, 6, 8, 12}]
MCChanges == {94}

ASSUME AnswersPlain == PlainAnswers /\ RoomEnough
================================================================================
