-------------------------- MODULE OutboundPromise --------------------------
(***************************************************************************)
(* What an approved outbound transfer promises its member, whatever        *)
(* grants, attempts, crashes and reconciliations it takes: of every place  *)
(* he is told once and for all whether it is on his list, he is told the   *)
(* truth, and as long as the fate of a place is in doubt the transfer does *)
(* neither go on nor end.                                                  *)
(***************************************************************************)
CONSTANT Items

VARIABLES
  phase,        \* "draft", "waiting", "active", "unknown", "stopped" or an end
  cancelling,   \* the member has asked to cancel
  fate,         \* what is known of the transfer of a place
  there         \* the places on the list at the provider

vars == <<phase, cancelling, fate, there>>

Fates == {"open", "doubt", "done", "refused"}

Init ==
  /\ phase = "draft" /\ cancelling = FALSE
  /\ fate = [i \in Items |-> "open"]
  /\ there \in SUBSET Items

(* The list is the member's: places come to it with and without this       *)
(* transfer, and whether or not it knows.                                  *)
Appear ==
  /\ there' \in SUBSET Items /\ there \subseteq there'
  /\ UNCHANGED <<phase, cancelling, fate>>

Approve ==
  /\ phase = "draft"
  /\ fate' = [i \in Items |-> IF i \in there THEN "done" ELSE "open"]
  /\ phase' = IF there = Items THEN "completed" ELSE "waiting"
  /\ UNCHANGED <<cancelling, there>>

Start ==
  /\ phase = "waiting" /\ ~cancelling /\ phase' = "active"
  /\ UNCHANGED <<cancelling, fate, there>>

(* Word of some places comes, or none comes and the connector is given up. *)
(* Only a place that was open or in doubt is told anew.                    *)
Tell ==
  /\ phase \in {"active", "unknown"}
  /\ fate' \in [Items -> Fates]
  /\ \A i \in Items : fate'[i] # fate[i] =>
       /\ fate[i] \in {"open", "doubt"} /\ fate'[i] # "open"
       /\ fate'[i] = "done" => i \in there
  /\ phase' \in {"active", "unknown", "stopped", "completed", "cancelled", "failed"}
  /\ phase' # "unknown" => \A i \in Items : fate'[i] # "doubt"
  /\ phase' = "active" => ~cancelling /\ \A i \in Items : fate'[i] # "refused"
  /\ phase' = "completed" => \A i \in Items : fate'[i] = "done"
  /\ UNCHANGED <<cancelling, there>>

(* While the transfer runs the member only leaves word; what has stopped   *)
(* or not yet started ends at once.                                        *)
Cancel ==
  /\ phase \in {"waiting", "active", "stopped"} /\ ~cancelling
  /\ cancelling' = TRUE
  /\ phase' = IF phase = "active" THEN "active" ELSE "cancelled"
  /\ UNCHANGED <<fate, there>>

(* Who asks for a reconciliation takes his cancellation back.              *)
Reconcile ==
  /\ phase = "unknown" /\ cancelling' = FALSE
  /\ UNCHANGED <<phase, fate, there>>

Next == Appear \/ Approve \/ Start \/ Tell \/ Cancel \/ Reconcile

Spec == Init /\ [][Next]_vars
=============================================================================
