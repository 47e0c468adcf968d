------------------------- MODULE MCOutgoingMessages -------------------------
(* Two group members and two messages; the second is not sent to one of them. *)
EXTENDS OutgoingMessages

CONSTANTS alice, bob, m1, m2

MCContacts == {alice, bob}
MCMessages == {m1, m2}
MCOmits == [m \in MCMessages |-> IF m = m2 THEN {bob} ELSE {}]
=============================================================================
