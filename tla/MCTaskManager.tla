--------------------------- MODULE MCTaskManager ---------------------------
(* Model values and the small instances on which TaskManager is checked. *)
EXTENDS TaskManager

CONSTANTS p1, v1

\* A batch of two, and a task that reflects nothing and so reads nothing.
MCEnvelopes == [t \in Tasks |-> IF t = p1 THEN 2 ELSE 0]
NoPoison == {}
FirstIsPoison == {1}
=============================================================================
