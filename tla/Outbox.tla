-------------------------------- MODULE Outbox --------------------------------
(***************************************************************************)
(* What the alerts table promises: at-least-once delivery.  An alert is    *)
(* filed, may be posted any number of times, is marked delivered only      *)
(* after a post, and may be withdrawn (resolved) only while it is pending. *)
(* Alerts implements it, with several workers and their faults.            *)
(***************************************************************************)
EXTENDS Naturals, Sequences

VARIABLES
    status,  \* the status column of table alerts, row id = position
    posts    \* how often the webhook took each row

Init == status = <<>> /\ posts = <<>>

\* save_alert, when its key is free
File ==
    /\ status' = Append(status, "pending")
    /\ posts' = Append(posts, 0)

Take(i) ==
    /\ posts' = [posts EXCEPT ![i] = @ + 1]
    /\ UNCHANGED status

\* mark_alert_delivered
Deliver(i) ==
    /\ posts[i] > 0
    /\ status' = [status EXCEPT ![i] = "delivered"]
    /\ UNCHANGED posts

\* resolve_alerts, of some rows together
Withdraw(some) ==
    /\ \A i \in some : status[i] = "pending"
    /\ status' = [i \in DOMAIN status |-> IF i \in some THEN "resolved" ELSE status[i]]
    /\ UNCHANGED posts

Next ==
    \/ File
    \/ \E i \in DOMAIN status : Take(i) \/ Deliver(i)
    \/ \E some \in SUBSET DOMAIN status : Withdraw(some)

Spec == Init /\ [][Next]_<<status, posts>>
-----------------------------------------------------------------------------
(* What follows for every implementation. *)

\* A row says delivered only of what the webhook took.
DeliveredWasTaken == \A i \in DOMAIN status : status[i] = "delivered" => posts[i] > 0

\* A delivered row stays delivered, and no row becomes pending again.
StatusMovesForward == [][
    \A i \in DOMAIN status : i \in DOMAIN status'
        /\ (status[i] # status'[i] => status'[i] = "delivered" \/ status[i] = "pending")
  ]_<<status, posts>>
=============================================================================
