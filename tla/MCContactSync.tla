--------------------------- MODULE MCContactSync ---------------------------
(* Model values and the small instances on which ContactSync is checked. *)
EXTENDS ContactSync

CONSTANTS d1, d2, u1, u2, u3

MCOwner == [u \in Updates |-> IF u = u2 THEN d2 ELSE d1]
=============================================================================
