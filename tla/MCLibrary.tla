----------------------------- MODULE MCLibrary -----------------------------
(* Instances of LibraryCollections.                                        *)
EXTENDS LibraryCollections, TLC

CONSTANTS k1, k2, x1, x2, x3, l1, l2, l3, o1, o2, o3

ClientCommands ==
  {[kind |-> "create", target |-> k1]}
  \cup [kind : {"create", "create v1"}, target : {k2}]
  \cup [kind : {"update"}, collection : {k1}, visibility : {"private", "public"}]
  \cup [kind : {"delete"}, collection : {k1, k2}]
  \cup {[kind |-> "order", collection |-> k1, place |-> m[1], placement |-> m[2],
         anchor |-> m[3]] :
         m \in {<<x1, "last", x2>>, <<x3, "first", x2>>,
                <<x1, "before", x3>>, <<x1, "after", x3>>, <<x3, "after", x1>>}}
  \cup {[kind |-> "file", place |-> x2, included |-> f[1], excluded |-> f[2]] :
         f \in {<<{k1}, {}>>, <<{k2}, {k1}>>}}
  \cup [kind : {"copy"}, link : {l1}, target : {k2}, selection : {All, {x1, x3}}]
  \cup [kind : {"rename v1", "delete v1"}, collection : {k1}]
  \cup [kind : {"publish v1"}, collection : {k1}, visibility : {"unlisted"}]
  \cup [kind : {"add v1"}, collection : {k1}, place : {x2}, position : {2, None}]
  \cup [kind : {"remove v1"}, collection : {k1}, place : {x1}]
  \cup [kind : {"move v1"}, collection : {k1}, place : {x1}, position : {4}]
  \cup [kind : {"copy v1"}, link : {l1}, target : {k2}]

(* The library as earlier commands left it: a public collection with gaps, *)
(* or with all its places.  Either every operation is still to come, or    *)
(* one of them made the collection and imports write in it beside the      *)
(* others.                                                                 *)
Standing(at, makers, imported) ==
  /\ library = [k \in Collections |-> IF k = k1 THEN Row(3, "public", l1, at) ELSE NoRow]
  /\ drawn = {k1} /\ withdrawn = {}
  /\ command = [o \in Operations |->
                  IF o \in makers THEN [kind |-> "create", target |-> k1] ELSE None]
  /\ seen = [o \in Operations |-> [k \in Collections |-> NoRow]]
  /\ receipt = [o \in Operations |-> IF o \in makers THEN "applied" ELSE "none"]
  /\ answers = [o \in Operations |-> IF o \in makers THEN {"applied"} ELSE {}]
  /\ effects = [o \in Operations |-> IF o \in makers THEN 1 ELSE 0]
  /\ imports = imported

Gaps == x1 :> 2 @@ x2 :> Out @@ x3 :> 5
Full == x1 :> 0 @@ x2 :> 1 @@ x3 :> 2

MCLibraryInit ==
  \/ \E at \in {Gaps, Full} : Standing(at, {}, MaxImports)
  \/ \E o \in Operations : Standing(Gaps, {o}, 0)

MCLibrarySpec == MCLibraryInit /\ [][LibraryNext]_libraryVars

OperationSymmetry == Permutations(Operations)
=============================================================================
