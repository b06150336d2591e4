--------------------------------- MODULE Meter ---------------------------------
(***************************************************************************)
(* The electricity meter at the other end of the serial line.  No code of  *)
(* the repository implements it; this is the peer the client code is       *)
(* written against: an HDLC station with one DLMS server that answers each *)
(* request at most once and refuses a ciphered request whose invocation    *)
(* counter is not above the last one it accepted.                          *)
(***************************************************************************)
EXTENDS Client, Sequences

CONSTANTS
  UaData,         \* information fields of the UA: "params", "empty", "malformed"
  ReadResults,    \* data-access results of a read
  ActionResults,  \* action results of a relay command
  Challenges,     \* "octets": the meter's tag is right, "mismatch": it is not
  Exceptions,     \* may the meter answer with an exception response
  Segmented,      \* may the meter segment a response (HDLC frames or blocks)
  MeterPdu,       \* the PDU size the meter grants
  MeterInfo       \* the HDLC information field length the meter grants

ASSUME MeterAssumption ==
  /\ UaData \subseteq {"params", "empty", "malformed"}
  /\ ReadResults \subseteq {"OK", "READ_WRITE_DENIED", "ERROR"}
  /\ ActionResults \subseteq {"OK", "ERROR"}
  /\ Challenges \subseteq {"octets", "mismatch"}
  /\ Exceptions \in BOOLEAN /\ Segmented \in BOOLEAN
  /\ MeterPdu \in Nat /\ MeterInfo \in Nat

(* link: the client address the HDLC link is open for, 0 when closed;      *)
(* ic: the last invocation counter accepted; received: has the request     *)
(* outstanding on the line been handled, and last: the answer it was given *)
(* (a retransmitted frame is recognised and not executed again).           *)
Meters ==
  [link: Addresses \cup {0}, assoc: {"none", "public", "pending", "client"},
   ic: Counters, relay: {0, 1}, received: BOOLEAN, last: Seq(Answers)]

FreshMeter(ic, relay) ==
  [link |-> 0, assoc |-> "none", ic |-> ic, relay |-> relay,
   received |-> FALSE, last |-> <<>>]

(* A reaction is the meter afterwards, with its answer (or none) in last.  *)
Reacts(m, answers) == [m EXCEPT !.received = TRUE, !.last = answers]

(* What one answer may look like on the wire: whole, or segmented.         *)
Framed(a) == {<<a>>} \cup (IF Segmented THEN {<<[a EXCEPT !.more = TRUE]>>} ELSE {})

Refusal(m) ==
  {Reacts(m, IF Exceptions THEN <<Answer("EXCEPTION", "other")>> ELSE <<>>)}

CounterAccepted(m, q) == \A i \in q.ics : i > m.ic

Highest(S) == CHOOSE i \in S : \A j \in S : j <= i

Accept(m, q) == IF q.ics = {} THEN m ELSE [m EXCEPT !.ic = Highest(q.ics)]

Ciphered(q) == q.ics # {}

OnSnrm(m, q) ==
  { Reacts([m EXCEPT !.link = q.address, !.assoc = "none"],
           <<[Answer("UA", d) EXCEPT !.size = MeterInfo]>>) : d \in UaData }

OnDisc(m) ==
  { Reacts([m EXCEPT !.link = 0, !.assoc = "none"],
           <<Answer(IF m.link = 0 THEN "DM" ELSE "UA", "empty")>>) }

(* The association is opened with the mechanism the AARE names.            *)
Opened(q, n) ==
  LET level == IF n.mechanism = "asked" THEN q.authentication ELSE n.mechanism
  IN IF level = "HIGH_GMAC" THEN "pending"
     ELSE IF q.address = 16 THEN "public" ELSE "client"

Aare(d, n) == [Answer("AARE", d) EXCEPT !.size = MeterPdu, !.naming = n]

Accepting(q, n) == Aare(IF Opened(q, n) = "pending" THEN "authRequired" ELSE "aare", n)

Opens(m, q, n) ==
  { Reacts([m EXCEPT !.assoc = Opened(q, n)], f) : f \in Framed(Accepting(q, n)) }
    \cup { Reacts([m EXCEPT !.assoc = "none"], <<Aare("rejected", n)>>) }

OnAarq(m, q) == UNION { Opens(m, q, n) : n \in Namings \cup {AsAsked} }

OnAuth(m, q) ==
  { Reacts([m EXCEPT !.assoc = IF d = "octets" THEN "client" ELSE "none"],
           <<[Answer("GLO_ACTION", d) EXCEPT !.id = q.id]>>) : d \in Challenges }

(* The invocation counter object holds the last counter accepted.          *)
Attribute(m, object) ==
  [object |-> object, number |-> CASE object = "ic" -> m.ic
                                   [] object = "relay" -> m.relay
                                   [] OTHER -> 1]

OnGet(m, q) ==
  LET answer(r) ==
        [Answer(IF Ciphered(q) THEN "GLO_GET" ELSE "GET", "other")
           EXCEPT !.id = q.id, !.result = r,
                  !.value = IF r = "OK" THEN Attribute(m, q.target) ELSE NoValue]
  IN { Reacts(m, f) : f \in UNION { Framed(answer(r)) : r \in ReadResults } }

OnAction(m, q) ==
  LET answer(r) == [Answer(IF Ciphered(q) THEN "GLO_ACTION" ELSE "ACTION", "empty")
                      EXCEPT !.id = q.id, !.result = r]
      done(r)   == IF r = "OK"
                   THEN [m EXCEPT !.relay = IF q.target = "on" THEN 1 ELSE 0]
                   ELSE m
  IN { Reacts(done(r), <<answer(r)>>) : r \in ActionResults }

OnRlrq(m) ==
  {Reacts([m EXCEPT !.assoc = "none"], <<Answer("RLRE", "other")>>)}

(* A service is served in an established association and may be refused.   *)
Service(m, reactions) ==
  (IF m.assoc \in {"public", "client"} THEN reactions ELSE {})
    \cup (IF Exceptions \/ m.assoc \notin {"public", "client"} THEN Refusal(m) ELSE {})

Reactions(m, q) ==
  CASE q.cmd = "SNRM"       -> OnSnrm(m, q)
    [] q.cmd = "DISC"       -> OnDisc(m)
    [] q.cmd \notin {"SNRM", "DISC"} /\ m.link # q.address ->
         {Reacts(m, <<Answer("DM", "empty")>>)}
    [] OTHER ->
         LET n == Accept(m, q)
         IN IF CounterAccepted(m, q)
            THEN CASE q.cmd = "AARQ"   -> OnAarq(n, q)
                   [] q.cmd = "AUTH"   -> IF m.assoc = "pending" THEN OnAuth(n, q)
                                          ELSE Refusal(n)
                   [] q.cmd = "GET"    -> Service(n, OnGet(n, q))
                   [] q.cmd = "ACTION" -> Service(n, OnAction(n, q))
                   [] OTHER            -> OnRlrq(n)
            ELSE Refusal(m)

(* A copy of a frame already handled: answered again from memory, or not.  *)
Repeats(m) == {m, [m EXCEPT !.last = <<>>]}

(* Power failure: link and association are gone, counter and relay stay.   *)
Restarted(m) ==
  [m EXCEPT !.link = 0, !.assoc = "none", !.received = FALSE, !.last = <<>>]
=============================================================================
