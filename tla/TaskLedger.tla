---------------------------- MODULE TaskLedger ----------------------------
(***************************************************************************)
(* What the task manager promises to those who schedule tasks, without any *)
(* connection, queue or message: a ledger of promises.  Tasks are lined up *)
(* in the order they were scheduled in, the first in line is completed     *)
(* once everything it reflects has been delivered, and whenever the        *)
(* connection is lost and set up again the volatile tasks are cancelled    *)
(* together while the persistent ones keep their places.                   *)
(***************************************************************************)
CONSTANTS Tasks, Persistent

VARIABLES
    outcome,    \* what the caller of schedule got so far
    waiting,    \* tasks in line
    before,     \* pairs of tasks in line, the first ahead of the second
    delivered   \* tasks of which every envelope has been delivered

vars == <<outcome, waiting, before, delivered>>

Init ==
    /\ outcome = [t \in Tasks |-> "new"]
    /\ waiting = {} /\ before = {}
    /\ delivered \subseteq Tasks

(* A task joins the line behind everyone else. *)
Join(t) ==
    /\ outcome[t] = "new"
    /\ outcome' = [outcome EXCEPT ![t] = "pending"]
    /\ waiting' = waiting \union {t}
    /\ before' = before \union (waiting \X {t})
    /\ UNCHANGED delivered

(* A task is turned down: a volatile one because there is no connection, *)
(* any task because the connection is being given up.                    *)
TurnDown(t, how) ==
    /\ outcome[t] = "new"
    /\ how = "aborted" => t \notin Persistent
    /\ outcome' = [outcome EXCEPT ![t] = how]
    /\ UNCHANGED <<waiting, before, delivered>>

(* More of what the tasks reflect arrives. *)
Arrive ==
    /\ delivered \subseteq delivered' /\ delivered' \subseteq Tasks
    /\ UNCHANGED <<outcome, waiting, before>>

(* Only the first in line is completed, and only once all is delivered. *)
Complete(t) ==
    /\ t \in waiting \intersect delivered
    /\ \A u \in waiting : <<u, t>> \notin before
    /\ outcome' = [outcome EXCEPT ![t] = "resolved"]
    /\ waiting' = waiting \ {t}
    /\ before' = before \intersect (waiting' \X waiting')
    /\ UNCHANGED delivered

(* Reconnection. *)
CancelVolatile ==
    /\ waiting' = waiting \intersect Persistent
    /\ outcome' = [t \in Tasks |-> IF t \in waiting \ Persistent THEN "aborted" ELSE outcome[t]]
    /\ before' = before \intersect (waiting' \X waiting')
    /\ UNCHANGED delivered

Next ==
    \/ \E t \in Tasks : Join(t) \/ Complete(t)
    \/ \E t \in Tasks, how \in {"aborted", "thrown"} : TurnDown(t, how)
    \/ Arrive \/ CancelVolatile

Spec == Init /\ [][Next]_vars
=============================================================================
