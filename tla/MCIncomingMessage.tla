------------------------- MODULE MCIncomingMessage -------------------------
(* Model values and the small instances on which IncomingMessage is checked. *)
EXTENDS IncomingMessage

CONSTANTS m1, m1again, m2, m3

(* m1 is sent a second time, with another nonce. *)
MCId == [d \in Deliveries |-> IF d = m1again THEN m1 ELSE d]
=============================================================================
