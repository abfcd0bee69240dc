------------------------------ MODULE MCImport ------------------------------
(* Two instances of ImportMaterialization: two lists with new targets, the *)
(* second with a place to create, and two lists with one item each of the  *)
(* same identity that share an existing target.                            *)
EXTENDS ImportRefinement, TLC

CONSTANTS w1, w2, a, b, x, q, c1, c2

SharedName == w1 :> "worker" @@ w2 :> "worker"
OneItemPerList == a :> 1 @@ b :> 2
OneItemInSecond == a :> 2
OneIdentity == a :> x @@ b :> x
IdentityOfOne == a :> x
OwnTargets == <<c1, c2>>
BothNew == <<"new", "new">>
SharedTarget == <<c1, c1>>
BothExisting == <<"existing", "existing">>
Unbound == <<0, 0>>
SecondBound == <<0, 1>>

WorkerSymmetry == Permutations({w1, w2})
=============================================================================
