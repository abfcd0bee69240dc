------------------------- MODULE OutboundRefinement -------------------------
(* OutboundExecution keeps OutboundPromise: the phase is read off the      *)
(* operation; a place is in doubt as long as the intent of its write is    *)
(* open without an answer, whatever its row says by then.                  *)
EXTENDS OutboundExecution

PhaseOf(state) ==
  CASE state = "none" -> "draft"
    [] state = "queued" -> "waiting"
    [] state = "running" -> "active"
    [] state = "outcome-unknown" -> "unknown"
    [] state \in {"partial-failure", "action-required"} -> "stopped"
    [] OTHER -> state

InDoubt(i) ==
  \E a \in Attempts : intent[a] \in {"expired", "unknown"} /\ i \in ManifestBatch(a.slot)

FateOf(i) ==
  IF InDoubt(i) THEN "doubt"
  ELSE CASE itemStatus[i] = "pending" -> "open"
         [] itemStatus[i] = "failed" -> "refused"
         [] itemStatus[i] = "outcome-unknown" -> "doubt"
         [] OTHER -> "done"

Promise == INSTANCE OutboundPromise WITH
  phase <- PhaseOf(opState),
  cancelling <- cancelRequested,
  fate <- [i \in Items |-> FateOf(i)],
  there <- present

(* Every behaviour of the backend, the connector, the provider and the     *)
(* member's commands is one the promise allows.                            *)
ImplementsPromise == Promise!Spec

(* Who says that the outcome of an attempt is unknown says of which item.  *)
TellsDoubt(r, batch) ==
  r.outcome = "outcome-unknown" /\ batch # {} => \E i \in batch : r.items[i] = "outcome-unknown"

(* An open intent without an answer has an item of which nothing is known, *)
(* and an item that is no longer pending has an intent that was answered   *)
(* or swept, or was on the list at the start; what the connector is about  *)
(* to report keeps it so.                                                  *)
DoubtIsKnown ==
  /\ \A a \in Attempts : intent[a] \in {"expired", "unknown"} /\ ManifestBatch(a.slot) # {} =>
       \E i \in ManifestBatch(a.slot) : itemStatus[i] = "outcome-unknown"
  /\ \A i \in adds : itemStatus[i] # "pending" =>
       \E a \in Attempts : intent[a] \notin {"none", "prepared"} /\ i \in ManifestBatch(a.slot)
  /\ \A i \in Items \ adds : itemStatus[i] # "pending" => itemStatus[i] = "already-present"
  /\ live.pc \in {"report", "reported", "reconcile", "complete"} =>
       TellsDoubt(live.result, ManifestBatch(live.attempt.slot))
  /\ resume.pc # "idle" => TellsDoubt(resume.result, ManifestBatch(resume.attempt.slot))
=============================================================================
