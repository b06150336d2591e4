------------------------------ MODULE MCSession ------------------------------
(* Values for the constants of Session in the configurations *.cfg.        *)
EXTENDS Session, MCValues

AllLines      == CommandLines
ValidLines    == [security: {"low", "high"}, item: Items, server: {1}]
LowLines      == [security: {"low"}, item: Items, server: {1}]
RelayLines    == [security: {"low", "high"}, item: {"on", "off"}, server: {1}]

(* A mechanism without a challenge, and a challenge nobody asked for in an *)
(* initiate response that is authenticated only.                           *)
OtherNamings ==
  {[mechanism |-> "LOW", protection |-> "asked"],
   [mechanism |-> "HIGH_GMAC", protection |-> "AUTHENTICATION"]}
=============================================================================
