--------------------------- MODULE ImportPromise ---------------------------
(***************************************************************************)
(* What an approved import promises its member, whatever workers, leases,  *)
(* retries and receipts it takes: each source list is answered once and    *)
(* for all; "completed" means every list was delivered; a cancellation     *)
(* only ever ends in "cancelled".                                          *)
(***************************************************************************)
CONSTANT Lists

VARIABLES
  phase,        \* "draft", "active", "attention" or one of the ends
  cancelling,   \* the member has asked to cancel
  answer        \* what the Library said of a list

vars == <<phase, cancelling, answer>>

Init ==
  /\ phase = "draft" /\ cancelling = FALSE
  /\ answer = [l \in Lists |-> "none"]

Approve ==
  /\ phase = "draft" /\ phase' = "active"
  /\ UNCHANGED <<cancelling, answer>>

(* The Library answers on its own: a call already under way is not undone  *)
(* by the cancellation or the failure of the import.                       *)
Answer(l) ==
  /\ phase \notin {"draft", "completed"} /\ answer[l] = "none"
  /\ \E told \in {"applied", "refused"} : answer' = [answer EXCEPT ![l] = told]
  /\ UNCHANGED <<phase, cancelling>>

(* Only a refusal puts an import before the member.                        *)
NeedAttention ==
  /\ phase = "active" /\ ~cancelling
  /\ \E l \in Lists : answer[l] = "refused"
  /\ phase' = "attention"
  /\ UNCHANGED <<cancelling, answer>>

Resume ==
  /\ phase = "attention" /\ phase' = "active"
  /\ UNCHANGED <<cancelling, answer>>

Cancel ==
  /\ phase \in {"active", "attention"} /\ ~cancelling
  /\ cancelling' = TRUE
  /\ phase' \in {phase, "cancelled"} /\ phase' # "attention"
  /\ UNCHANGED answer

EndCancelled ==
  /\ phase = "active" /\ cancelling /\ phase' = "cancelled"
  /\ UNCHANGED <<cancelling, answer>>

Complete ==
  /\ phase = "active" /\ ~cancelling
  /\ \A l \in Lists : answer[l] = "applied"
  /\ phase' = "completed"
  /\ UNCHANGED <<cancelling, answer>>

Fail ==
  /\ phase = "active" /\ ~cancelling /\ phase' = "failed"
  /\ UNCHANGED <<cancelling, answer>>

Next ==
  \/ Approve \/ NeedAttention \/ Resume \/ Cancel \/ EndCancelled \/ Complete \/ Fail
  \/ \E l \in Lists : Answer(l)

Spec == Init /\ [][Next]_vars
=============================================================================
