----------------------------- MODULE RequestService -----------------------------
(***************************************************************************)
(* What the overlay promises its clients, without packets, manager,        *)
(* routers or caches.  A client asks for what is in its list, in order.    *)
(* Each request is settled at most once, and for good: its content comes,  *)
(* or it is denied, and which of the two depends only on whether some      *)
(* server provides the content.                                            *)
(***************************************************************************)
EXTENDS Naturals

CONSTANTS
  Requests,    \* pairs of a client and a place in its list
  Provided,    \* the requests for contents that some server provides
  Marking,     \* whether caching marks contents, so that clients drop them
  MayLose      \* whether messages can be lost

VARIABLE status

Init == status = [id \in Requests |-> "unsent"]

Earlier(id) == {e \in Requests : e[1] = id[1] /\ e[2] < id[2]}

Becomes(id, new) == status' = [status EXCEPT ![id] = new]

Ask(id) ==
  /\ status[id] = "unsent"
  /\ \A e \in Earlier(id) : status[e] # "unsent"
  /\ Becomes(id, "pending")

Receive(id) ==
  /\ status[id] = "pending"
  /\ id \in Provided
  /\ Becomes(id, "received")

Discard(id) ==
  /\ status[id] = "pending"
  /\ id \in Provided
  /\ Marking
  /\ Becomes(id, "discarded")

Deny(id) ==
  /\ status[id] = "pending"
  /\ id \notin Provided
  /\ Becomes(id, "denied")

Lose(id) ==
  /\ status[id] = "pending"
  /\ MayLose
  /\ Becomes(id, "lost")

Next ==
  \E id \in Requests :
    Ask(id) \/ Receive(id) \/ Discard(id) \/ Deny(id) \/ Lose(id)

Spec == Init /\ [][Next]_status
=============================================================================
