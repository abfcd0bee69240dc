------------------------------ MODULE MCPlaces ------------------------------
(* Instances of CanonicalPlaces.                                           *)
EXTENDS CanonicalPlaces, TLC

CONSTANTS x1, x2, x3, i1, i2, o1, o2, d1, d2

TwoIdentities == o1 :> i1 @@ o2 :> i2

(* The catalog as one decision left it, with room for two new places, or   *)
(* as three did: from here two more reach every chain of redirects.  Calls *)
(* break off in the smaller one only.                                      *)
Standing(known, links, failed) ==
  /\ status = [p \in Places |-> IF p \in known THEN "active" ELSE "none"]
  /\ linked = [i \in Identities |-> links[i]]
  /\ redirect = [p \in Places |-> None]
  /\ decided = [d \in Decisions |-> "none"]
  /\ profile = [p \in Places |-> <<>>]
  /\ asserted = [c \in Contributions |-> None] /\ changes = {} /\ sequence = 0
  /\ contributor = [c \in Contributions |-> NoCall]
  /\ document = [p \in Places |-> NoDocument]
  /\ rebuild = NoRebuild /\ failures = failed

MCPlacesInit ==
  \/ Standing({x1}, i1 :> x1 @@ i2 :> None, 0)
  \/ Standing({x1, x2, x3}, i1 :> x1 @@ i2 :> x2, MaxFailures)

MCPlacesSpec == MCPlacesInit /\ [][PlacesNext]_placeVars

DecisionSymmetry == Permutations(Decisions)
=============================================================================
