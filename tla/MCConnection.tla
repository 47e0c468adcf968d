---------------------------- MODULE MCConnection ----------------------------
(* Model values for the instances on which Connection is checked. *)
EXTENDS Connection

CONSTANTS r1, r2

(* Two reflected messages: the queue can be read in part when a connection ends. *)
MCReflected == {r1, r2}
=============================================================================
