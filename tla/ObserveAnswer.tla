---------------------------- MODULE ObserveAnswer ----------------------------
(***************************************************************************)
(* What Observe of a subresource client promises to external.Observe: it   *)
(* takes a Bucket for up to date only when every backend was found to need *)
(* nothing, or was not asked because it is Unhealthy; it asks for a change *)
(* only if some backend needs that change; and it fails only if looking at *)
(* some backend failed or the deadline has passed.                         *)
(***************************************************************************)
CONSTANTS Backends, Clients

VARIABLES seen,    \* what was found on each backend
          expired, \* the deadline has passed
          outcome  \* "none", "waiting", or what Observe returned

vars == <<seen, expired, outcome>>

Unseen == [b \in Backends |-> "unseen"]
Fine == {"NoAction", "Updated"}
Verdicts == Fine \cup {"NeedsUpdate", "NeedsDeletion", "error"}

Init == seen = Unseen /\ expired = FALSE /\ outcome = "none"

\* A call starts, or a client that has nothing to look at returns at once.
Begin ==
  /\ outcome # "waiting" /\ outcome' \in {"waiting", "Updated"}
  /\ seen' = Unseen /\ expired' = FALSE
  /\ outcome' = "Updated" => "objectlock" \in Clients

Look(b) ==
  /\ seen[b] = "unseen" /\ \E v \in Verdicts : seen' = [seen EXCEPT ![b] = v]
  /\ UNCHANGED <<expired, outcome>>

Expire == expired' = TRUE /\ UNCHANGED <<seen, outcome>>

Settle ==
  /\ outcome = "waiting"
  /\ \/ (\A b \in Backends : seen[b] \in Fine) /\ outcome' = "Updated"
     \/ \E b \in Backends : seen[b] \in {"NeedsUpdate", "NeedsDeletion"} /\ outcome' = seen[b]
     \/ (expired \/ \E b \in Backends : seen[b] = "error") /\ outcome' = "error"
  /\ UNCHANGED <<seen, expired>>

Next == Begin \/ Expire \/ Settle \/ \E b \in Backends : Look(b)

Spec == Init /\ [][Next]_vars
=============================================================================
