----------------------------- MODULE MCOutbound -----------------------------
(* Instances of OutboundExecution, its numbers given in the cfg files.     *)
EXTENDS OutboundRefinement

(* Bound: the member writes to the target list before the plan is approved *)
(* only, in the run with two batches and two tries.                        *)
QuietMember == (\E i \in Items : MemberAdds(i)) => opState = "none"

QuietMemberSpec == Init /\ [][Next /\ QuietMember]_vars
=============================================================================
