-------------------------- MODULE ImportRefinement --------------------------
(* ImportMaterialization keeps ImportPromise: the phase is read off the    *)
(* operation, the answer to a list off its Library receipt.                *)
EXTENDS ImportMaterialization

PhaseOf(state) ==
  CASE state = "none" -> "draft"
    [] state \in Active -> "active"
    [] state = "partial-failure" -> "attention"
    [] OTHER -> state

AnswerOf(code) == IF code \in {"none", "applied"} THEN code ELSE "refused"

Promise == INSTANCE ImportPromise WITH
  phase <- PhaseOf(opState),
  cancelling <- cancelRequested,
  answer <- [l \in Lists |-> AnswerOf(receipt[l].code)]

(* Every behaviour of the workers, the Library and the member's commands   *)
(* is one the promise allows.                                              *)
ImplementsPromise == Promise!Spec
=============================================================================
