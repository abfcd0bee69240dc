---------------------------- MODULE MCWebImport ----------------------------
(* Instances of WebImportAcquisition: one member, whose second or third    *)
(* command meets the limit.                                                *)
EXTENDS WebImportAcquisition, TLC

CONSTANTS member, a1, a2, a3, c1, c2, c3, l1, l2

SharedName == [w \in Workers |-> "worker"]
OneMember == [a \in Acquisitions |-> member]
OneCommand == c1 :> a1 @@ c2 :> a1
ThreeCommands == c1 :> a1 @@ c2 :> a2 @@ c3 :> a3

Mixed == {l1 :> "succeeded" @@ l2 :> "failed",
          l1 :> "duplicate" @@ l2 :> "failed"}

AllSucceed == {[l \in Links |-> "succeeded"]}

(* Workers are alike, and so are commands together with their acquisitions. *)
BatchSymmetry ==
  {p \in Permutations(Acquisitions \cup Calls \cup Workers) :
     /\ {p[w] : w \in Workers} = Workers
     /\ {p[c] : c \in Calls} = Calls
     /\ \A c \in Calls : p[CommandOf[c]] = CommandOf[p[c]]}
=============================================================================
