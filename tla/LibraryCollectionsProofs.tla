--------------------- MODULE LibraryCollectionsProofs ---------------------
(* What LibraryCollections keeps for every number of collections, places   *)
(* and operations, and every set of commands.                              *)
EXTENDS LibraryCollections, FiniteSetTheorems, WellFoundedInduction, TLAPS

(* The positions of one collection, and that they are an order.            *)
Ats == [Places -> Nat \cup {Out}]
Total(at) == \A p, q \in Members(at) : at[p] = at[q] => p = q

-----------------------------------------------------------------------------
(* Positions.                                                              *)
LEMMA LastIsLast ==
  ASSUME NEW at \in Ats
  PROVE  /\ Last(at) \in Nat \cup {Out}
         /\ \A p \in Places : at[p] <= Last(at)
         /\ \A p \in Places : at[p] # Out => Last(at) \in Nat
<1> DEFINE Above(p) == {q \in Places : at[q] > at[p]}
           T == {Above(p) : p \in Places}
           R == StrictSubsetOrdering(Places)
<1>1. \E n \in {at[p] : p \in Places} \cup {Out} : \A p \in Places : at[p] <= n
  <2>1. CASE Places = {}
    BY <2>1
  <2>2. CASE Places # {}
    <3>1. T # {} /\ T \subseteq FiniteSubsetsOf(Places)
      <4>1. \A p \in Places : Above(p) \in SUBSET Places /\ IsFiniteSet(Above(p))
        BY FS_Subset, LibraryParameters
      <4> QED BY <2>2, <4>1 DEF FiniteSubsetsOf
    <3>2. IsWellFoundedOn(R, FiniteSubsetsOf(Places))
      BY FS_StrictSubsetOrderingWellFounded
    <3>3. PICK B \in T : \A C \in T : <<C, B>> \notin R
      <4> HIDE DEF T, R
      <4> QED BY <3>1, <3>2, WFMin
    <3>4. PICK m \in Places : B = Above(m)
      OBVIOUS
    <3>5. ASSUME NEW p \in Places PROVE at[p] <= at[m]
      <4> SUFFICES ASSUME at[p] > at[m] PROVE FALSE
        BY DEF Ats, Out
      <4>1. /\ Above(p) \subseteq B /\ p \in B /\ p \notin Above(p)
            /\ Above(p) \in SUBSET Places /\ B \in SUBSET Places
        BY <3>4 DEF Ats, Out
      <4>2. <<Above(p), B>> \in R
        BY <4>1 DEF StrictSubsetOrdering
      <4> QED BY <3>3, <4>2
    <3> QED BY <3>5
  <2> QED BY <2>1, <2>2
<1>2. /\ Last(at) \in {at[p] : p \in Places} \cup {Out}
      /\ \A p \in Places : at[p] <= Last(at)
  <2> HIDE DEF T, R, Above
  <2> QED BY <1>1 DEF Last
<1> QED BY <1>2 DEF Ats, Out

LEMMA AppendedIsTotal ==
  ASSUME NEW at \in Ats, Total(at), NEW p \in Places
  PROVE  Appended(at, p) \in Ats /\ Total(Appended(at, p)) /\ NextPosition(at) \in Nat
<1>1. NextPosition(at) \in Nat /\ \A q \in Places : at[q] < NextPosition(at)
  BY LastIsLast DEF NextPosition, Ats, Out
<1> QED BY <1>1 DEF Appended, Total, Members, Ats, Out

LEMMA RemovedIsTotal ==
  ASSUME NEW at \in Ats, Total(at), NEW p \in Places
  PROVE  Removed(at, p) \in Ats /\ Total(Removed(at, p))
BY DEF Removed, Total, Members, Ats, Out

LEMMA InsertedIsTotal ==
  ASSUME NEW at \in Ats, Total(at), NEW p \in Places, NEW n \in Nat
  PROVE  Inserted(at, p, n) \in Ats /\ Total(Inserted(at, p, n))
<1>1. Inserted(at, p, n) \in Ats
  BY DEF Inserted, Ats, Out
<1>2. ASSUME NEW q \in Places, q # p
      PROVE  /\ at[q] \in Int
             /\ Inserted(at, p, n)[q] = IF at[q] >= n THEN at[q] + 1 ELSE at[q]
             /\ Inserted(at, p, n)[p] = n
  BY <1>2 DEF Inserted, Ats, Out
<1> QED BY <1>1, <1>2 DEF Total, Members, Out

LEMMA MovedIsTotal ==
  ASSUME NEW at \in Ats, Total(at), NEW p \in Places, at[p] # Out, NEW n \in Nat
  PROVE  Moved(at, p, n) \in Ats /\ Total(Moved(at, p, n))
<1>0. at[p] \in Nat
  BY DEF Ats, Out
<1>1. Moved(at, p, n) \in Ats
  BY <1>0 DEF Moved, Ats, Out
<1>2. ASSUME NEW q \in Places, q # p
      PROVE  /\ at[q] \in Int /\ (at[q] = Out \/ at[q] # at[p])
             /\ Moved(at, p, n)[q] =
                  IF n <= at[q] /\ at[q] < at[p] THEN at[q] + 1
                  ELSE IF at[p] < at[q] /\ at[q] <= n THEN at[q] - 1 ELSE at[q]
             /\ Moved(at, p, n)[p] = n
  BY <1>2 DEF Moved, Ats, Out, Total, Members
<1>3. ASSUME NEW q \in Places, NEW r \in Places, q # p, r # p,
             Moved(at, p, n)[q] # Out, Moved(at, p, n)[q] = Moved(at, p, n)[r]
      PROVE  at[q] = at[r] /\ at[q] # Out
  BY <1>0, <1>2, <1>3 DEF Out
<1>4. ASSUME NEW q \in Places, q # p PROVE Moved(at, p, n)[q] # n
  BY <1>0, <1>2, <1>4 DEF Out
<1> QED BY <1>1, <1>2, <1>3, <1>4 DEF Total, Members

LEMMA TargetIsPosition ==
  ASSUME NEW at \in Ats, Total(at), NEW c, c.place \in Places, c.anchor \in Places,
         c.place \in Members(at), c.placement \in Placements,
         c.placement \in {"before", "after"} => c.anchor \in Members(at)
  PROVE  Target(at, c) \in Nat
<1>1. at[c.place] \in Nat
  BY DEF Ats, Members
<1>2. CASE c.placement = "last"
  BY <1>2, LastIsLast DEF Members, Target
<1>3. CASE c.placement \in {"before", "after"}
  <2>1. at[c.anchor] \in Nat
    BY <1>3 DEF Ats, Members
  <2> QED BY <1>1, <1>3, <2>1 DEF Target
<1> QED BY <1>2, <1>3 DEF Target, Placements

LEMMA NumberedKeepsOrder ==
  ASSUME NEW at \in Ats, Total(at), NEW S, S \subseteq Members(at)
  PROVE  /\ Numbered(at, S) \in Ats /\ Total(Numbered(at, S))
         /\ Members(Numbered(at, S)) = S
         /\ \A p, q \in S : SameOrder(p, q, at, Numbered(at, S))
<1> DEFINE Before(p) == {q \in S : at[q] < at[p]}
<1>1. S \subseteq Places /\ IsFiniteSet(S)
  BY FS_Subset, LibraryParameters DEF Members
<1>2. ASSUME NEW p \in S
      PROVE  /\ IsFiniteSet(Before(p)) /\ Cardinality(Before(p)) \in Nat
             /\ Numbered(at, S)[p] = Cardinality(Before(p))
  <2>1. Before(p) \in SUBSET S
    OBVIOUS
  <2>2. IsFiniteSet(Before(p))
    BY <1>1, <2>1, FS_Subset
  <2> QED BY <1>1, <2>2, FS_CardinalityType DEF Numbered
<1>3. \A p \in Places \ S : Numbered(at, S)[p] = Out
  BY DEF Numbered
<1>4. Numbered(at, S) \in Ats
  <2>1. \A p \in S : Cardinality({q \in S : at[q] < at[p]}) \in Nat
    BY <1>2
  <2> QED BY <2>1 DEF Numbered, Ats
<1>n. \A p \in S : Numbered(at, S)[p] \in Nat
  <2> HIDE DEF Before
  <2> QED BY <1>2
<1>5. Members(Numbered(at, S)) = S
  BY <1>1, <1>n, <1>3 DEF Members, Out
<1>6. ASSUME NEW p \in S, NEW q \in S, at[p] < at[q]
      PROVE  Numbered(at, S)[p] < Numbered(at, S)[q]
  <2>1. at[p] \in Int /\ at[q] \in Int /\ \A r \in S : at[r] \in Int
    BY <1>1 DEF Ats, Out
  <2>2. Before(p) \in SUBSET Before(q) /\ p \in Before(q) /\ p \notin Before(p)
    BY <1>6, <2>1
  <2>3. Cardinality(Before(p)) <= Cardinality(Before(q)) /\ Cardinality(Before(p)) # Cardinality(Before(q))
    <3>1. IsFiniteSet(Before(q))
      BY <1>2
    <3> HIDE DEF Before
    <3>2. Before(p) \in SUBSET Before(q) /\ Before(p) # Before(q)
      BY <2>2
    <3> QED BY <3>1, <3>2, FS_Subset
  <2>4. /\ Cardinality(Before(p)) \in Nat /\ Cardinality(Before(q)) \in Nat
        /\ Numbered(at, S)[p] = Cardinality(Before(p)) /\ Numbered(at, S)[q] = Cardinality(Before(q))
    BY <1>2
  <2> HIDE DEF Before
  <2> QED BY <2>3, <2>4
<1>7. ASSUME NEW p \in S, NEW q \in S PROVE SameOrder(p, q, at, Numbered(at, S))
  <2>1. at[p] \in Int /\ at[q] \in Int /\ (at[p] = at[q] => p = q)
    BY <1>1 DEF Ats, Out, Total
  <2>2. Numbered(at, S)[p] \in Nat /\ Numbered(at, S)[q] \in Nat
    BY <1>n
  <2>3. CASE at[p] < at[q]
    BY <1>6, <2>3 DEF SameOrder
  <2>4. CASE at[q] < at[p]
    BY <1>6, <2>1, <2>2, <2>4 DEF SameOrder
  <2>5. CASE at[p] = at[q]
    BY <2>1, <2>2, <2>5 DEF SameOrder
  <2> QED BY <2>1, <2>3, <2>4, <2>5
<1>8. Total(Numbered(at, S))
  <2> SUFFICES ASSUME NEW p \in S, NEW q \in S, Numbered(at, S)[p] = Numbered(at, S)[q]
               PROVE  p = q
    BY <1>5 DEF Total
  <2>1. at[p] \in Int /\ at[q] \in Int /\ Numbered(at, S)[p] \in Nat
    BY <1>1, <1>n DEF Ats, Out
  <2>2. ~(at[p] < at[q]) /\ ~(at[q] < at[p])
    BY <1>6, <2>1
  <2> QED BY <1>1, <2>1, <2>2 DEF Total
<1> QED BY <1>4, <1>5, <1>7, <1>8

-----------------------------------------------------------------------------
(* Rows and commands.                                                      *)
Sound(row) ==
  /\ row \in Rows /\ Total(row.at)
  /\ (row.link = None) <=> (row.visibility = "private")
  /\ ~Exists(row) => row = NoRow

(* A row that is written over another one of the same collection.          *)
Follows(new, old) ==
  Sound(new) /\ new.revision > old.revision /\ new.link \in {None, old.link} \cup Fresh

LEMMA RowIsSound ==
  ASSUME NEW n \in Nat \ {0}, NEW v \in Visibilities, NEW l \in Links \cup {None},
         NEW at \in Ats, Total(at), (l = None) <=> (v = "private")
  PROVE  Sound(Row(n, v, l, at)) /\ Exists(Row(n, v, l, at))
BY DEF Sound, Row, Rows, Exists, Ats

LEMMA EmptyIsSound ==
  /\ Empty \in Ats /\ Total(Empty) /\ Sound(NoRow) /\ ~Exists(NoRow) /\ Members(Empty) = {}
BY DEF Empty, Ats, Total, Members, Sound, NoRow, Row, Rows, Exists, Visibilities

LEMMA RowsAreSound ==
  ASSUME LibraryInv, NEW k \in Collections
  PROVE  /\ Sound(library[k]) /\ library[k] \in Rows
         /\ library[k].at \in Ats /\ Total(library[k].at)
         /\ library[k].revision \in Nat /\ library[k].link \in Links \cup {None}
<1>1. library[k] \in Rows
  BY DEF LibraryInv, TypeOK
<1> QED BY <1>1 DEF LibraryInv, OrderIsTotal, LinksAreCapabilities, NothingLeft, Sound,
                    Total, Rows, Ats

LEMMA TouchedFollows ==
  ASSUME LibraryInv, NEW k \in Collections, Exists(library[k]),
         NEW at \in Ats, Total(at)
  PROVE  Follows(Touched(library[k], at), library[k])
<1> DEFINE row == library[k]
<1>1. row.revision \in Nat /\ row.visibility \in Visibilities /\ row.link \in Links \cup {None}
      /\ ((row.link = None) <=> (row.visibility = "private"))
  BY RowsAreSound DEF Rows, Sound
<1>2. Sound(Touched(row, at))
  <2>1. row.revision + 1 \in Nat \ {0}
    BY <1>1
  <2> HIDE DEF row
  <2> QED BY <1>1, <2>1, RowIsSound DEF Touched
<1>3. Touched(row, at).revision = row.revision + 1 /\ Touched(row, at).link = row.link
  BY DEF Touched, Row
<1> QED BY <1>1, <1>2, <1>3 DEF Follows

LEMMA PublishedFollows ==
  ASSUME LibraryInv, NEW k \in Collections, Exists(library[k]),
         NEW v \in Visibilities, NEW l \in Fresh
  PROVE  Follows(Published(library[k], v, l), library[k])
<1> DEFINE row == library[k]
           link == IF v = "private" THEN None
                   ELSE IF row.visibility = "private" THEN l ELSE row.link
<1>1. row.revision \in Nat /\ row.visibility \in Visibilities /\ row.link \in Links \cup {None}
      /\ ((row.link = None) <=> (row.visibility = "private")) /\ row.at \in Ats /\ Total(row.at)
  BY RowsAreSound DEF Rows, Sound
<1>2. l \in Links /\ l # None
  BY LibraryParameters DEF Fresh
<1>3. link \in Links \cup {None} /\ ((link = None) <=> (v = "private"))
  BY <1>1, <1>2
<1>4. Sound(Row(row.revision + 1, v, link, row.at))
  <2>1. row.revision + 1 \in Nat \ {0}
    BY <1>1
  <2> HIDE DEF row, link
  <2> QED BY <1>1, <1>3, <2>1, RowIsSound
<1>5. Published(row, v, l) = Row(row.revision + 1, v, link, row.at)
  BY DEF Published
<1>6. Published(row, v, l).revision = row.revision + 1 /\ Published(row, v, l).link = link
  BY <1>5 DEF Row
<1> QED BY <1>1, <1>4, <1>5, <1>6 DEF Follows

LEMMA FiledFollows ==
  ASSUME LibraryInv, NEW k \in Collections, Exists(library[k]),
         NEW p \in Places, NEW wish \in Wishes
  PROVE  Filed(library[k], p, wish) = library[k] \/ Follows(Filed(library[k], p, wish), library[k])
BY RowsAreSound, TouchedFollows, AppendedIsTotal, RemovedIsTotal DEF Filed

(* The fields of a command, by its kind.                                   *)
LEMMA CommandFields ==
  ASSUME NEW c \in Commands
  PROVE  /\ c.kind \in {"update", "delete", "order", "rename v1", "delete v1", "publish v1",
                         "add v1", "remove v1", "move v1"} => c.collection \in Collections
         /\ c.kind \in Creating => c.target \in Collections
         /\ c.kind \in Copying => c.link \in Links
         /\ c.kind \in {"order", "file", "add v1", "remove v1", "move v1"} => c.place \in Places
         /\ c.kind = "order" =>
              c.placement \in Placements /\ c.anchor \in Places /\ c.anchor # c.place
         /\ c.kind = "update" => c.visibility \in Visibilities \cup {None}
         /\ c.kind = "publish v1" => c.visibility \in Visibilities
         /\ c.kind = "file" => c.included \subseteq Collections /\ c.excluded \subseteq Collections
                                /\ c.included \cap c.excluded = {}
         /\ c.kind = "move v1" => c.position \in Nat
         /\ c.kind = "add v1" => c.position \in Nat \cup {None}
<1>1. c \in V2 \/ c \in V1
  BY LibraryParameters
<1>2. CASE c \in V2
  BY <1>2, LibraryParameters DEF V2, Creating, Copying
<1>3. CASE c \in V1
  BY <1>3, LibraryParameters DEF V1, Creating, Copying
<1> QED BY <1>1, <1>2, <1>3

-----------------------------------------------------------------------------
(* What a step may write: rows that follow, go away, or are made by it, of *)
(* the collections in M.                                                   *)
Made(o) == {k \in Collections : Makes(o, k)}
Written(M, new) ==
  /\ new \in [Collections -> Rows] /\ \A k \in Collections : Sound(new[k])
  /\ \A k \in Collections :
       \/ new[k] = library[k]
       \/ ~Exists(new[k])
       \/ Exists(library[k]) /\ Follows(new[k], library[k])
       \/ k \in M /\ ~Exists(library[k]) /\ new[k].link = None
  /\ \A j, k \in Collections : new[j].link \in Fresh /\ new[k].link \in Fresh => j = k

LEMMA OneRowWritten ==
  ASSUME LibraryInv, NEW M, NEW k \in Collections, NEW row, Sound(row),
         \/ row = library[k]
         \/ ~Exists(row)
         \/ Exists(library[k]) /\ Follows(row, library[k])
         \/ k \in M /\ ~Exists(library[k]) /\ row.link = None
  PROVE  Written(M, [library EXCEPT ![k] = row])
<1> DEFINE new == [library EXCEPT ![k] = row]
<1>1. library \in [Collections -> Rows] /\ row \in Rows
  BY DEF LibraryInv, TypeOK, Sound
<1>2. new \in [Collections -> Rows] /\ new[k] = row
      /\ \A j \in Collections : j # k => new[j] = library[j]
  BY <1>1
<1>3. \A j \in Collections : library[j].link \notin Fresh
  BY DEF Fresh
<1> HIDE DEF new
<1>4. \A j \in Collections : Sound(new[j])
  BY <1>2, RowsAreSound
<1>5. \A i, j \in Collections : new[i].link \in Fresh /\ new[j].link \in Fresh => i = j
  BY <1>2, <1>3
<1> QED BY <1>2, <1>4, <1>5 DEF Written, new

LEMMA VersionsAgree ==
  ASSUME NEW o, NEW K, VersionVerdict(o, K) = "applied"
  PROVE  \A k \in K : Exists(library[k]) /\ library[k].revision = seen[o][k].revision
BY DEF VersionVerdict, Stale

(* Every command that takes effect does so by such a write.                *)
LEMMA PerformWrites ==
  ASSUME LibraryInv, NEW o \in Operations, Perform(o)
  PROVE  /\ command[o] \in Commands /\ command[o] # None /\ receipt[o] = "none"
         /\ Verdict(o) = "applied"
         /\ \E new : Apply(o, new) /\ Written(Made(o), new)
<1> DEFINE c == command[o]
<1>1. c \in Commands /\ c # None /\ receipt[o] = "none" /\ Verdict(o) = "applied"
  BY DEF LibraryInv, TypeOK, Perform, Sent, Create, Update, Delete, Order, File, Copy, CreateV1,
         RenameV1, PublishV1, DeleteV1, AddV1, RemoveV1, MoveV1, CopyV1
<1>2. Sound(Created(Empty)) /\ Created(Empty).link = None
  BY EmptyIsSound, RowIsSound DEF Created, Visibilities, Row
<1>3. CASE Create(o)
  <2>1. c.kind = "create" /\ Write(o, c.target, Created(Empty))
    BY <1>3 DEF Create, Sent
  <2>2. c.target \in Collections /\ Makes(o, c.target) /\ ~Exists(library[c.target])
    BY <1>1, <2>1, CommandFields DEF Makes, Creating, Verdict
  <2> QED BY <1>1, <1>2, <2>1, <2>2, OneRowWritten DEF Write, Made
<1>4. CASE Update(o)
  <2>1. c.kind = "update"
    BY <1>4 DEF Update, Sent
  <2>2. c.collection \in Collections /\ Exists(library[c.collection])
    BY <1>1, <2>1, CommandFields, VersionsAgree DEF Verdict
  <2> DEFINE row == library[c.collection]
             v == IF c.visibility = None THEN row.visibility ELSE c.visibility
  <2>3. PICK link \in Fresh : Write(o, c.collection, Published(row, v, link))
    BY <1>4 DEF Update
  <2>4. v \in Visibilities
    BY <1>1, <2>1, <2>2, CommandFields, RowsAreSound DEF Rows
  <2>5. Follows(Published(row, v, link), row)
    <3> HIDE DEF v
    <3> QED BY <2>2, <2>4, PublishedFollows
  <2> HIDE DEF v
  <2> QED BY <1>1, <2>2, <2>3, <2>5, OneRowWritten DEF Write, Follows
<1>5. CASE Delete(o)
  <2>1. c.kind = "delete" /\ Write(o, c.collection, NoRow)
    BY <1>5 DEF Delete, Sent
  <2> QED BY <1>1, <2>1, CommandFields, EmptyIsSound, OneRowWritten DEF Write
<1>6. CASE Order(o)
  <2>1. c.kind = "order"
    BY <1>6 DEF Order, Sent
  <2> DEFINE row == library[c.collection]
             at == Moved(row.at, c.place, Target(row.at, c))
  <2>2. Write(o, c.collection, Touched(row, at))
    BY <1>6 DEF Order
  <2>3. /\ c.collection \in Collections /\ c.place \in Places /\ c.anchor \in Places
        /\ c.placement \in Placements /\ c.anchor # c.place
    BY <1>1, <2>1, CommandFields
  <2>4. OrderVerdict(o, c) = "applied"
    BY <1>1, <2>1 DEF Verdict
  <2>5. /\ Exists(row) /\ c.place \in Members(row.at)
        /\ c.placement \in {"before", "after"} => c.anchor \in Members(row.at)
    BY <2>4, VersionsAgree DEF OrderVerdict
  <2>6. Target(row.at, c) \in Nat
    BY <2>3, <2>5, RowsAreSound, TargetIsPosition
  <2>7. at \in Ats /\ Total(at)
    BY <2>3, <2>5, <2>6, RowsAreSound, MovedIsTotal DEF Members
  <2> HIDE DEF at
  <2> QED BY <1>1, <2>2, <2>3, <2>5, <2>7, TouchedFollows, OneRowWritten DEF Write, Follows
<1>7. CASE File(o)
  <2>1. c.kind = "file"
    BY <1>7 DEF File, Sent
  <2> DEFINE new == [k \in Collections |->
                 IF k \in c.included THEN Filed(library[k], c.place, "included")
                 ELSE IF k \in c.excluded THEN Filed(library[k], c.place, "excluded")
                 ELSE library[k]]
  <2>2. Apply(o, new)
    BY <1>7 DEF File
  <2>3. c.place \in Places /\ c.included \subseteq Collections /\ c.excluded \subseteq Collections
    BY <1>1, <2>1, CommandFields
  <2>4. \A k \in c.included \cup c.excluded : Exists(library[k])
    BY <1>1, <2>1, VersionsAgree DEF Verdict
  <2>5. ASSUME NEW k \in Collections
        PROVE  new[k] = library[k] \/ (Exists(library[k]) /\ Follows(new[k], library[k])
                                          /\ new[k].link = library[k].link)
    <3>1. \A wish \in Wishes :
            Filed(library[k], c.place, wish) = library[k] \/ Filed(library[k], c.place, wish).link = library[k].link
      BY DEF Filed, Touched, Row
    <3>2. "included" \in Wishes /\ "excluded" \in Wishes
      BY DEF Wishes
    <3> QED BY <2>3, <2>4, <3>1, <3>2, FiledFollows
  <2>6. \A k \in Collections : library[k].link \notin Fresh
    BY DEF Fresh
  <2>7. \A k \in Collections : Sound(new[k])
    <3> HIDE DEF new
    <3> QED BY <2>5, RowsAreSound DEF Follows
  <2>8. new \in [Collections -> Rows]
    <3>1. \A k \in Collections : new[k] \in Rows
      <4> HIDE DEF new
      <4> QED BY <2>7 DEF Sound
    <3> QED BY <3>1
  <2> HIDE DEF new
  <2>9. Written(Made(o), new)
    BY <2>5, <2>6, <2>7, <2>8 DEF Written
  <2> QED BY <1>1, <2>2, <2>9
<1>8. CASE Copy(o)
  <2>1. c.kind = "copy"
    BY <1>8 DEF Copy, Sent
  <2>2. PICK k \in Source(c, {"public"}) :
          Write(o, c.target, Created(Numbered(library[k].at, Selection(library[k].at, c))))
    BY <1>8 DEF Copy
  <2> DEFINE at == Numbered(library[k].at, Selection(library[k].at, c))
  <2>3. CopyVerdict(o, c) = "applied"
    BY <1>1, <2>1 DEF Verdict
  <2>4. /\ ~Exists(library[c.target]) /\ Selection(library[k].at, c) \subseteq Members(library[k].at)
    BY <2>2, <2>3 DEF CopyVerdict
  <2>5. c.target \in Collections /\ Makes(o, c.target) /\ k \in Collections
    BY <1>1, <2>1, <2>2, CommandFields DEF Makes, Creating, Source
  <2>6. at \in Ats /\ Total(at)
    BY <2>4, <2>5, RowsAreSound, NumberedKeepsOrder
  <2> HIDE DEF at
  <2>7. Sound(Created(at)) /\ Created(at).link = None
    BY <2>6, RowIsSound DEF Created, Visibilities, Row
  <2> QED BY <1>1, <2>2, <2>4, <2>5, <2>7, OneRowWritten DEF Write, Made, at
<1>9. CASE CreateV1(o)
  <2>1. c.kind = "create v1" /\ Write(o, c.target, Created(Empty))
    BY <1>9 DEF CreateV1, Sent
  <2>2. c.target \in Collections /\ Makes(o, c.target) /\ ~Exists(library[c.target])
    BY <1>1, <2>1, CommandFields DEF Makes, Creating, Verdict, V1Verdict
  <2> QED BY <1>1, <1>2, <2>1, <2>2, OneRowWritten DEF Write, Made
<1>10. CASE RenameV1(o)
  <2>1. c.kind = "rename v1"
    BY <1>10 DEF RenameV1, Sent
  <2>2. c.collection \in Collections /\ Exists(library[c.collection])
    BY <1>1, <2>1, CommandFields DEF Verdict, V1Verdict
  <2>3. Write(o, c.collection, Touched(library[c.collection], library[c.collection].at))
    BY <1>10 DEF RenameV1
  <2> QED BY <1>1, <2>2, <2>3, RowsAreSound, TouchedFollows, OneRowWritten DEF Write, Follows
<1>11. CASE PublishV1(o)
  <2>1. c.kind = "publish v1"
    BY <1>11 DEF PublishV1, Sent
  <2>2. c.collection \in Collections /\ Exists(library[c.collection]) /\ c.visibility \in Visibilities
    BY <1>1, <2>1, CommandFields, VersionsAgree DEF Verdict, V1Verdict
  <2>3. PICK link \in Fresh :
          Write(o, c.collection, Published(library[c.collection], c.visibility, link))
    BY <1>11 DEF PublishV1
  <2> QED BY <1>1, <2>2, <2>3, PublishedFollows, OneRowWritten DEF Write, Follows
<1>12. CASE DeleteV1(o)
  <2>1. c.kind = "delete v1" /\ Write(o, c.collection, NoRow)
    BY <1>12 DEF DeleteV1, Sent
  <2> QED BY <1>1, <2>1, CommandFields, EmptyIsSound, OneRowWritten DEF Write
<1>13. CASE AddV1(o)
  <2>1. c.kind = "add v1"
    BY <1>13 DEF AddV1, Sent
  <2> DEFINE row == library[c.collection]
             position == IF c.position = None THEN NextPosition(row.at) ELSE c.position
  <2>2. /\ c.collection \in Collections /\ Exists(row) /\ c.place \in Places
        /\ c.position \in Nat \cup {None}
    BY <1>1, <2>1, CommandFields DEF Verdict, V1Verdict
  <2>3. position \in Nat
    BY <2>2, RowsAreSound, AppendedIsTotal
  <2> DEFINE new == IF row.at[c.place] = Out THEN Touched(row, Inserted(row.at, c.place, position))
                    ELSE IF c.position = None THEN row
                    ELSE Touched(row, Moved(row.at, c.place, position))
  <2>4. Write(o, c.collection, new)
    BY <1>13 DEF AddV1
  <2>5. new = row \/ Follows(new, row)
    <3> HIDE DEF position
    <3>1. CASE row.at[c.place] = Out
      BY <2>2, <2>3, <3>1, RowsAreSound, InsertedIsTotal, TouchedFollows
    <3>2. CASE row.at[c.place] # Out
      BY <2>2, <2>3, <3>2, RowsAreSound, MovedIsTotal, TouchedFollows
    <3> QED BY <3>1, <3>2
  <2> HIDE DEF new
  <2> QED BY <1>1, <2>2, <2>4, <2>5, RowsAreSound, OneRowWritten DEF Write, Follows
<1>14. CASE RemoveV1(o)
  <2>1. c.kind = "remove v1"
    BY <1>14 DEF RemoveV1, Sent
  <2>2. c.collection \in Collections /\ Exists(library[c.collection]) /\ c.place \in Places
    BY <1>1, <2>1, CommandFields DEF Verdict, V1Verdict
  <2>3. Write(o, c.collection, Touched(library[c.collection],
                                       Removed(library[c.collection].at, c.place)))
    BY <1>14 DEF RemoveV1
  <2> QED BY <1>1, <2>2, <2>3, RowsAreSound, RemovedIsTotal, TouchedFollows, OneRowWritten
          DEF Write, Follows
<1>15. CASE MoveV1(o)
  <2>1. c.kind = "move v1"
    BY <1>15 DEF MoveV1, Sent
  <2>2. /\ c.collection \in Collections /\ Exists(library[c.collection]) /\ c.place \in Places
        /\ library[c.collection].at[c.place] # Out /\ c.position \in Nat
    BY <1>1, <2>1, CommandFields DEF Verdict, V1Verdict
  <2>3. Write(o, c.collection, Touched(library[c.collection],
                                       Moved(library[c.collection].at, c.place, c.position)))
    BY <1>15 DEF MoveV1
  <2> QED BY <1>1, <2>2, <2>3, RowsAreSound, MovedIsTotal, TouchedFollows, OneRowWritten
          DEF Write, Follows
<1>16. CASE CopyV1(o)
  <2>1. c.kind = "copy v1" /\ ~Exists(library[c.target])
    BY <1>16 DEF CopyV1, Sent
  <2>2. PICK k \in Source(c, {"unlisted", "public"}) :
          Write(o, c.target, Created(library[k].at))
    BY <1>16 DEF CopyV1
  <2>3. c.target \in Collections /\ Makes(o, c.target) /\ k \in Collections
    BY <1>1, <2>1, <2>2, CommandFields DEF Makes, Creating, Source
  <2>4. Sound(Created(library[k].at)) /\ Created(library[k].at).link = None
    BY <2>3, RowsAreSound, RowIsSound DEF Created, Visibilities, Row
  <2> QED BY <1>1, <2>1, <2>2, <2>3, <2>4, OneRowWritten DEF Write, Made
<1> QED BY <1>1, <1>3, <1>4, <1>5, <1>6, <1>7, <1>8, <1>9, <1>10, <1>11, <1>12, <1>13, <1>14,
           <1>15, <1>16 DEF Perform

-----------------------------------------------------------------------------
(* The invariant.                                                          *)
LEMMA LibraryInitInv == LibraryInit => LibraryInv /\ AnswersAgree
<1> SUFFICES ASSUME LibraryInit PROVE LibraryInv /\ AnswersAgree
  OBVIOUS
<1>1. /\ \A k \in Collections : library[k] = NoRow /\ NoRow \in Rows
      /\ NoRow.at = Empty /\ NoRow.link = None /\ NoRow.visibility = "private"
  BY EmptyIsSound DEF LibraryInit, NoRow, Row, Sound
<1>2. \A o \in Operations, k \in Collections : ~Exists(seen[o][k])
  BY EmptyIsSound DEF LibraryInit
<1>3. TypeOK
  BY <1>1, LibraryParameters DEF LibraryInit, TypeOK
<1>4. OrderIsTotal
  BY <1>1, EmptyIsSound DEF OrderIsTotal, Total
<1>5. LinksAreCapabilities
  BY <1>1 DEF LinksAreCapabilities
<1>6. NothingLeft /\ VersionsTell
  BY <1>1, <1>2 DEF LibraryInit, NothingLeft, VersionsTell
<1>7. MadeOnce
  BY <1>1, <1>2, EmptyIsSound DEF LibraryInit, MadeOnce, Makes
<1>8. AnswersAgree
  BY DEF LibraryInit, AnswersAgree, OneStory
<1> QED BY <1>3, <1>4, <1>5, <1>6, <1>7, <1>8 DEF LibraryInv

(* What is written to the rows keeps all that is said of them; what was    *)
(* seen of a row is left behind, if it is not as it was seen.              *)
MovesOn ==
  \A i \in Operations, k \in Collections : Exists(seen[i][k]) =>
    (Behind(i, k) => Behind(i, k)') /\ (library'[k] = library[k] \/ Behind(i, k)')

LEMMA RowsKeep ==
  ASSUME LibraryInv, NEW M, NEW new, Written(M, new), library' = new, UNCHANGED <<command, seen, drawn>>,
         withdrawn' \subseteq withdrawn \cup
           ({library[k].link : k \in Collections} \ {new[k].link : k \in Collections}),
         \A i \in Operations : receipt[i] # "none" => receipt'[i] # "none",
         \A k \in M : /\ k \in drawn /\ \A i \in Operations : ~Exists(seen[i][k])
                     /\ \A i \in Operations : Makes(i, k) => receipt'[i] # "none"
  PROVE  /\ new \in [Collections -> Rows] /\ withdrawn' \subseteq Links \cup {None}
         /\ OrderIsTotal' /\ NothingLeft' /\ LinksAreCapabilities'
         /\ MadeOnce' /\ VersionsTell' /\ MovesOn
<1>1. new \in [Collections -> Rows]
  BY DEF Written
<1>2. withdrawn' \subseteq Links \cup {None}
  <2>1. withdrawn \subseteq Links \cup {None} /\ \A k \in Collections : library[k].link \in Links \cup {None}
    BY RowsAreSound DEF LibraryInv, TypeOK
  <2> QED BY <2>1
<1>3. OrderIsTotal'
  BY DEF OrderIsTotal, Written, Sound, Total
<1>4. NothingLeft'
  BY DEF NothingLeft, Written, Sound
<1>5. LinksAreCapabilities'
  <2>1. \A k \in Collections : (new[k].link = None) <=> (new[k].visibility = "private")
    BY DEF Written, Sound
  <2>2. \A k \in Collections : new[k].link = None \/ new[k].link = library[k].link \/ new[k].link \in Fresh
    BY EmptyIsSound DEF Written, Follows, Sound, NoRow, Row
  <2>3. \A k \in Collections : library[k].link \notin Fresh /\ withdrawn \cap Fresh = {}
    BY DEF Fresh
  <2>4. \A j, k \in Collections : new[j].link = new[k].link /\ new[j].link # None => j = k
    <3>1. \A j, k \in Collections : library[j].link = library[k].link /\ library[j].link # None => j = k
      BY DEF LibraryInv, LinksAreCapabilities
    <3>2. \A j, k \in Collections : new[j].link \in Fresh /\ new[k].link \in Fresh => j = k
      BY DEF Written
    <3> QED BY <2>2, <2>3, <3>1, <3>2
  <2>5. ASSUME NEW k \in Collections, new[k].link \in withdrawn', new[k].link # None PROVE FALSE
    <3>1. new[k].link \in withdrawn
      BY <2>5
    <3>2. library[k].link \in withdrawn => library[k].link = None
      BY DEF LibraryInv, LinksAreCapabilities
    <3> QED BY <2>2, <2>3, <2>5, <3>1, <3>2
  <2> QED BY <2>1, <2>4, <2>5 DEF LinksAreCapabilities
<1>6. \A i \in Operations, k \in Collections : Makes(i, k)' = Makes(i, k)
  BY DEF Makes
<1>7. MadeOnce'
  <2>1. MadeOnce
    BY DEF LibraryInv
  <2>2. ASSUME NEW k \in Collections, Exists(new[k])
        PROVE  k \in drawn /\ \A i \in Operations : Makes(i, k) => receipt'[i] # "none"
    <3>1. Exists(library[k]) \/ k \in M
      BY <2>2 DEF Written
    <3> QED BY <2>1, <3>1 DEF MadeOnce
  <2> QED BY <1>6, <2>1, <2>2 DEF MadeOnce
<1>8. MovesOn
  <2> SUFFICES ASSUME NEW i \in Operations, NEW k \in Collections, Exists(seen[i][k])
               PROVE  (Behind(i, k) => Behind(i, k)') /\ (new[k] = library[k] \/ Behind(i, k)')
    BY DEF MovesOn
  <2>1. /\ library[k].revision \in Nat /\ new[k].revision \in Nat /\ seen[i][k].revision \in Nat
    <3>1. seen[i][k] \in Rows
      BY DEF LibraryInv, TypeOK
    <3> QED BY <3>1, RowsAreSound DEF Written, Sound, Rows
  <2>2. library[k] = seen[i][k] \/ Behind(i, k)
    BY DEF LibraryInv, VersionsTell
  <2>3. new[k] = library[k] \/ ~Exists(new[k]) \/ (Exists(library[k]) /\ new[k].revision > library[k].revision)
    BY DEF Written, Follows
  <2> QED BY <2>1, <2>2, <2>3 DEF Behind, Exists
<1>9. VersionsTell'
  <2>1. VersionsTell
    BY DEF LibraryInv
  <2>2. \A i \in Operations, k \in Collections :
          Exists(seen[i][k]) => new[k] = seen[i][k] \/ Behind(i, k)'
    BY <1>8, <2>1 DEF VersionsTell, MovesOn
  <2>3. ASSUME NEW i \in Operations, command[i] # None, command[i].kind \in Versioned \ Copying
        PROVE  \A k \in Addressed(command[i])' : Exists(seen[i][k])
    <3>1. Addressed(command[i])' = Addressed(command[i])
      BY <2>3 DEF Addressed
    <3> QED BY <2>1, <2>3, <3>1 DEF VersionsTell
  <2> QED BY <2>2, <2>3 DEF VersionsTell
<1> QED BY <1>1, <1>2, <1>3, <1>4, <1>5, <1>7, <1>8, <1>9

(* Answers given stay true when rows move on and nobody else is answered.  *)
LEMMA AnswersStay ==
  ASSUME LibraryInv, AnswersAgree, MovesOn, UNCHANGED <<command, seen>>, NEW i \in Operations,
         answers'[i] = answers[i], receipt'[i] = receipt[i], effects'[i] = effects[i]
  PROVE  OneStory(i)'
<1>1. ASSUME receipt[i] = "none", answers[i] # {}
      PROVE  /\ command[i] # None /\ command[i].kind = "publish v1"
             /\ Exists(seen[i][command[i].collection]) /\ Behind(i, command[i].collection)'
  <2>1. /\ command[i] # None /\ command[i].kind = "publish v1"
        /\ Exists(seen[i][command[i].collection]) /\ Behind(i, command[i].collection)
    BY <1>1 DEF AnswersAgree, OneStory
  <2>2. command[i].collection \in Collections
    BY <2>1, CommandFields DEF LibraryInv, TypeOK
  <2>3. PICK k \in Collections : k = command[i].collection
    BY <2>2
  <2>4. Behind(i, k)'
    BY <2>1, <2>3 DEF MovesOn
  <2> QED BY <2>1, <2>3, <2>4 DEF Behind
<1>2. OneStory(i)
  BY DEF AnswersAgree
<1> QED BY <1>1, <1>2 DEF OneStory

LEMMA PerformKeeps ==
  ASSUME LibraryInv, AnswersAgree, NEW o \in Operations, Perform(o)
  PROVE  LibraryInv' /\ AnswersAgree'
<1>1. /\ command[o] \in Commands /\ command[o] # None /\ receipt[o] = "none"
      /\ Verdict(o) = "applied"
  BY PerformWrites
<1>2. PICK new : Apply(o, new) /\ Written(Made(o), new)
  BY PerformWrites
<1>3. /\ library' = new /\ command' = command /\ seen' = seen /\ drawn' = drawn
      /\ imports' = imports /\ receipt' = [receipt EXCEPT ![o] = "applied"]
      /\ answers' = [answers EXCEPT ![o] = @ \cup {"applied"}]
      /\ effects' = [effects EXCEPT ![o] = @ + 1]
      /\ withdrawn' = withdrawn \cup
           ({library[k].link : k \in Collections} \ {new[k].link : k \in Collections})
  BY <1>2 DEF Apply, Answer
<1>4. TypeOK
  BY DEF LibraryInv
<1>5. receipt'[o] = "applied" /\ \A i \in Operations : receipt[i] # "none" => receipt'[i] # "none"
  BY <1>3, <1>4 DEF TypeOK
<1>6. \A k \in Made(o) : /\ k \in drawn /\ \A i \in Operations : ~Exists(seen[i][k])
                        /\ \A i \in Operations : Makes(i, k) => receipt'[i] # "none"
  BY <1>1, <1>5 DEF LibraryInv, MadeOnce, Made
<1>7. /\ new \in [Collections -> Rows] /\ withdrawn' \subseteq Links \cup {None}
      /\ OrderIsTotal' /\ NothingLeft' /\ LinksAreCapabilities'
      /\ MadeOnce' /\ VersionsTell' /\ MovesOn
  BY <1>2, <1>3, <1>5, <1>6, RowsKeep
<1>8. TypeOK'
  <2>1. /\ receipt' \in [Operations -> Outcomes \cup {"none"}]
        /\ answers' \in [Operations -> SUBSET (Outcomes \cup {"replayed"})]
        /\ effects' \in [Operations -> Nat]
    BY <1>3, <1>4 DEF TypeOK, Outcomes
  <2> QED BY <1>3, <1>4, <1>7, <2>1 DEF TypeOK
<1>9. AnswersAgree'
  <2>1. answers[o] = {}
    <3> SUFFICES ASSUME answers[o] # {} PROVE FALSE
      OBVIOUS
    <3>1. command[o].kind = "publish v1" /\ Behind(o, command[o].collection)
      BY <1>1 DEF AnswersAgree, OneStory
    <3>2. /\ Exists(library[command[o].collection])
          /\ library[command[o].collection].revision = seen[o][command[o].collection].revision
      BY <1>1, <3>1, VersionsAgree DEF Verdict, V1Verdict
    <3>3. command[o].collection \in Collections
      BY <1>1, <3>1, CommandFields
    <3>4. PICK k \in Collections : k = command[o].collection
      BY <3>3
    <3>5. library[k].revision \in Nat
      BY RowsAreSound
    <3>6. Behind(o, k) /\ Exists(library[k]) /\ library[k].revision = seen[o][k].revision
      BY <3>1, <3>2, <3>4
    <3> QED BY <3>5, <3>6 DEF Behind
  <2>2. effects[o] = 0
    BY <1>1 DEF AnswersAgree, OneStory
  <2>3. answers'[o] = {"applied"} /\ receipt'[o] = "applied" /\ effects'[o] = 1
    BY <1>3, <1>4, <2>1, <2>2 DEF TypeOK
  <2>4. ASSUME NEW i \in Operations, i # o
        PROVE  answers'[i] = answers[i] /\ receipt'[i] = receipt[i] /\ effects'[i] = effects[i]
    BY <1>3, <1>4, <2>4 DEF TypeOK
  <2>5. ASSUME NEW i \in Operations
        PROVE  OneStory(i)'
    <3>1. CASE i = o
      BY <1>1, <1>3, <2>3, <3>1 DEF OneStory
    <3>2. CASE i # o
      BY <1>3, <1>7, <2>4, <3>2, AnswersStay
    <3> QED BY <3>1, <3>2
  <2> QED BY <2>5 DEF AnswersAgree
<1> QED BY <1>7, <1>8, <1>9 DEF LibraryInv

LEMMA AddressedAre ==
  ASSUME LibraryInv, NEW c \in Commands
  PROVE  Addressed(c) \subseteq Collections
<1>1. c \in V2 \/ c \in V1
  BY LibraryParameters
<1>2. CASE c.kind \in {"create", "create v1"} \/ c.kind \in Copying \/ c.kind = "file"
  BY <1>2, CommandFields DEF Addressed, Copying
<1>3. CASE ~(c.kind \in {"create", "create v1"} \/ c.kind \in Copying \/ c.kind = "file")
  <2>1. c.kind \in {"update", "delete", "order", "rename v1", "delete v1", "publish v1",
                    "add v1", "remove v1", "move v1"}
    BY <1>1, <1>3 DEF V1, V2, Copying
  <2>2. Addressed(c) = {c.collection}
    BY <1>3 DEF Addressed
  <2> QED BY <2>1, <2>2, CommandFields
<1> QED BY <1>2, <1>3

LEMMA IssueKeeps ==
  ASSUME LibraryInv, AnswersAgree, NEW o \in Operations, NEW c \in Commands, Issue(o, c)
  PROVE  LibraryInv' /\ AnswersAgree'
<1> DEFINE K == Addressed(c)
           read == [k \in Collections |-> IF k \in K THEN library[k] ELSE NoRow]
<1>1. /\ command[o] = None /\ K \subseteq Collections /\ \A k \in K : Exists(library[k])
      /\ c.kind \in Creating => c.target \notin drawn /\ c.target \in Collections
      /\ command' = [command EXCEPT ![o] = c] /\ seen' = [seen EXCEPT ![o] = read]
      /\ drawn' = drawn \cup (IF c.kind \in Creating THEN {c.target} ELSE {})
      /\ library' = library /\ withdrawn' = withdrawn /\ receipt' = receipt
      /\ answers' = answers /\ effects' = effects /\ imports' = imports
  BY AddressedAre, CommandFields DEF Issue
<1>2. TypeOK /\ MadeOnce /\ VersionsTell
  BY DEF LibraryInv
<1>3. read \in [Collections -> Rows] /\ \A k \in Collections : Exists(read[k]) => k \in K
  <2>1. NoRow \in Rows /\ ~Exists(NoRow)
    BY EmptyIsSound DEF Sound
  <2> HIDE DEF K
  <2> QED BY <1>2, <2>1 DEF TypeOK
<1>4. \A k \in K : read[k] = library[k]
  BY <1>1
<1> HIDE DEF K, read
<1>5. /\ command'[o] = c /\ seen'[o] = read
      /\ \A i \in Operations : i # o => command'[i] = command[i] /\ seen'[i] = seen[i]
  BY <1>1, <1>2 DEF TypeOK
<1>6. TypeOK'
  BY <1>1, <1>2, <1>3 DEF TypeOK
<1>7. OrderIsTotal' /\ LinksAreCapabilities' /\ NothingLeft'
  BY <1>1 DEF LibraryInv, OrderIsTotal, LinksAreCapabilities, NothingLeft
<1>8. MadeOnce'
  <2>1. ASSUME NEW i \in Operations, NEW k \in Collections, Makes(i, k)'
        PROVE  /\ k \in drawn'
               /\ i = o => k \notin drawn
               /\ i # o => Makes(i, k)
    BY <1>1, <1>2, <1>5, <2>1 DEF Makes, MadeOnce
  <2>2. \A i, j \in Operations, k \in Collections : Makes(i, k)' /\ Makes(j, k)' => i = j
    BY <1>2, <2>1 DEF MadeOnce
  <2>3. ASSUME NEW k \in Collections, Exists(library[k]) \/ \E i \in Operations : Exists(seen'[i][k])
        PROVE  k \in drawn /\ \A i \in Operations : Makes(i, k)' => receipt[i] # "none"
    <3>1. Exists(library[k]) \/ \E i \in Operations : Exists(seen[i][k])
      BY <1>1, <1>3, <1>5, <2>3
    <3>2. k \in drawn /\ \A i \in Operations : Makes(i, k) => receipt[i] # "none"
      BY <1>2, <3>1 DEF MadeOnce
    <3> QED BY <2>1, <3>2
  <2> QED BY <1>1, <2>1, <2>2, <2>3 DEF MadeOnce
<1>9. VersionsTell'
  <2>1. ASSUME NEW i \in Operations, NEW k \in Collections, Exists(seen'[i][k])
        PROVE  library[k] = seen'[i][k] \/ Behind(i, k)'
    <3>1. CASE i = o
      BY <1>3, <1>4, <1>5, <2>1, <3>1
    <3>2. CASE i # o
      BY <1>1, <1>2, <1>5, <2>1, <3>2 DEF VersionsTell, Behind
    <3> QED BY <3>1, <3>2
  <2>2. ASSUME NEW i \in Operations, command'[i] # None, command'[i].kind \in Versioned \ Copying
        PROVE  \A k \in Addressed(command[i])' : Exists(seen'[i][k])
    <3>1. Addressed(command[i])' = Addressed(command'[i])
      BY <1>1 DEF Addressed
    <3>2. CASE i = o
      BY <1>1, <1>4, <1>5, <3>1, <3>2 DEF K
    <3>3. CASE i # o
      BY <1>2, <1>5, <2>2, <3>1, <3>3 DEF VersionsTell
    <3> QED BY <3>2, <3>3
  <2> QED BY <1>1, <2>1, <2>2 DEF VersionsTell
<1>10. AnswersAgree'
  <2> SUFFICES ASSUME NEW i \in Operations PROVE OneStory(i)'
    BY DEF AnswersAgree
  <2>1. OneStory(i)
    BY DEF AnswersAgree
  <2>2. CASE i = o
    BY <1>1, <2>1, <2>2 DEF OneStory
  <2>3. CASE i # o
    <3>1. command'[i] = command[i] /\ seen'[i] = seen[i]
      BY <1>5, <2>3
    <3> QED BY <1>1, <2>1, <3>1 DEF OneStory, Behind
  <2> QED BY <2>2, <2>3
<1> QED BY <1>6, <1>7, <1>8, <1>9, <1>10 DEF LibraryInv

(* What a refusal can be.                                                  *)
LEMMA RefusalsAre ==
  ASSUME LibraryInv, NEW o \in Operations, command[o] # None, NEW why \in Refusals(o)
  PROVE  why \in Outcomes \ {"applied"} /\ why # "none"
<1>1. Verdict(o) \in Outcomes
  <2>1. \A K : VersionVerdict(o, K) \in Outcomes
    BY DEF VersionVerdict, Outcomes
  <2>2. OrderVerdict(o, command[o]) \in Outcomes
    BY <2>1 DEF OrderVerdict, Outcomes
  <2>3. CopyVerdict(o, command[o]) \in Outcomes
    BY DEF CopyVerdict, Outcomes
  <2>4. V1Verdict(o, command[o]) \in Outcomes
    BY <2>1 DEF V1Verdict, Outcomes
  <2> QED BY <2>1, <2>2, <2>3, <2>4 DEF Verdict, Outcomes
<1>2. why \in ({Verdict(o)} \ {"applied"}) \cup {"not-found"}
  BY DEF Refusals
<1> QED BY <1>1, <1>2 DEF Outcomes

LEMMA RefuseKeeps ==
  ASSUME LibraryInv, AnswersAgree, NEW o \in Operations, Refuse(o)
  PROVE  LibraryInv' /\ AnswersAgree'
<1>1. /\ command[o] # None /\ receipt[o] = "none" /\ command' = command /\ seen' = seen
      /\ drawn' = drawn /\ library' = library /\ withdrawn' = withdrawn
      /\ effects' = effects /\ imports' = imports
  BY DEF Refuse, Answer
<1>2. PICK why \in Refusals(o) : Answer(o, why, Kept(o, why))
  BY DEF Refuse
<1>3. /\ receipt' = [receipt EXCEPT ![o] = Kept(o, why)]
      /\ answers' = [answers EXCEPT ![o] = @ \cup {why}]
  BY <1>2 DEF Answer
<1>4. why \in Outcomes \ {"applied"} /\ why # "none"
  BY <1>1, RefusalsAre
<1>5. TypeOK /\ MadeOnce /\ VersionsTell
  BY DEF LibraryInv
<1>6. /\ receipt'[o] = Kept(o, why) /\ answers'[o] = answers[o] \cup {why}
      /\ \A i \in Operations : i # o => receipt'[i] = receipt[i] /\ answers'[i] = answers[i]
  BY <1>3, <1>5 DEF TypeOK
<1>7. Kept(o, why) \in {"none", why}
  BY DEF Kept
<1>8. TypeOK'
  BY <1>1, <1>3, <1>4, <1>5, <1>7 DEF TypeOK
<1>9. OrderIsTotal' /\ LinksAreCapabilities' /\ NothingLeft' /\ VersionsTell'
  BY <1>1 DEF LibraryInv, OrderIsTotal, LinksAreCapabilities, NothingLeft, VersionsTell, Behind,
              Addressed
<1>10. MadeOnce'
  <2>1. \A i \in Operations : receipt[i] # "none" => receipt'[i] # "none"
    BY <1>1, <1>6
  <2>2. \A i \in Operations, k \in Collections : Makes(i, k)' = Makes(i, k)
    BY <1>1 DEF Makes
  <2> QED BY <1>1, <1>5, <2>1, <2>2 DEF MadeOnce
<1>11. ASSUME receipt'[o] = "none"
       PROVE  /\ command[o].kind = "publish v1"
              /\ Exists(seen[o][command[o].collection]) /\ Behind(o, command[o].collection)'
  <2>1. command[o].kind = "publish v1" /\ why = "version-conflict"
    BY <1>4, <1>6, <1>11 DEF Kept
  <2>2. VersionVerdict(o, {command[o].collection}) = "version-conflict"
    BY <2>1 DEF Refusals, Verdict, V1Verdict
  <2>3. command[o].collection \in Collections
    BY <1>1, <1>5, <2>1, CommandFields DEF TypeOK
  <2>4. Addressed(command[o]) = {command[o].collection}
    BY <2>1 DEF Addressed, Copying
  <2>5. PICK k \in Collections : k = command[o].collection
    BY <2>3
  <2>6. Exists(library[k]) /\ Stale(o, k)
    BY <2>2, <2>5 DEF VersionVerdict
  <2>7. Exists(seen[o][k])
    BY <1>1, <1>5, <2>1, <2>4, <2>5 DEF VersionsTell, Versioned, Copying
  <2>8. Behind(o, k)
    BY <1>5, <2>6, <2>7 DEF VersionsTell, Stale
  <2>9. Behind(o, k)'
    BY <1>1, <2>8 DEF Behind
  <2>10. Behind(o, command[o].collection)'
    BY <1>1, <2>5, <2>9 DEF Behind
  <2> QED BY <2>1, <2>5, <2>7, <2>10
<1>12. AnswersAgree'
  <2>1. MovesOn
    BY <1>1 DEF MovesOn, Behind
  <2>2. "applied" \notin answers[o] /\ "replayed" \notin answers[o] /\ effects[o] = 0
    BY <1>1 DEF AnswersAgree, OneStory
  <2>3. ASSUME NEW i \in Operations
        PROVE  OneStory(i)'
    <3>1. CASE i = o
      <4>1. /\ "applied" \notin answers'[o] /\ receipt'[o] # "applied" /\ effects'[o] = 0
            /\ "replayed" \notin answers'[o]
        BY <1>1, <1>4, <1>6, <1>7, <2>2 DEF Outcomes
      <4>2. answers[o] # {} \/ receipt'[o] = "none" => command[o].kind \in FirstVersion
        BY <1>1, <1>11 DEF AnswersAgree, OneStory, FirstVersion
      <4>3. answers'[o] = {receipt'[o]} \/ command[o].kind \in FirstVersion
        BY <1>6, <1>7, <4>2
      <4> QED BY <1>1, <1>11, <3>1, <4>1, <4>3 DEF OneStory
    <3>2. CASE i # o
      BY <1>1, <1>6, <2>1, <3>2, AnswersStay
    <3> QED BY <3>1, <3>2
  <2> QED BY <2>3 DEF AnswersAgree
<1> QED BY <1>8, <1>9, <1>10, <1>12 DEF LibraryInv

LEMMA ReplayKeeps ==
  ASSUME LibraryInv, AnswersAgree, NEW o \in Operations, Replay(o)
  PROVE  LibraryInv' /\ AnswersAgree'
<1>1. /\ receipt[o] # "none" /\ command' = command /\ seen' = seen
      /\ drawn' = drawn /\ library' = library /\ withdrawn' = withdrawn
      /\ effects' = effects /\ imports' = imports /\ receipt' = receipt
      /\ answers' = [answers EXCEPT ![o] = @ \cup {ReplayedAnswer(o)}]
  BY DEF Replay
<1>2. TypeOK
  BY DEF LibraryInv
<1>3. /\ answers'[o] = answers[o] \cup {ReplayedAnswer(o)}
      /\ \A i \in Operations : i # o => answers'[i] = answers[i]
  BY <1>1, <1>2 DEF TypeOK
<1>4. TypeOK'
  <2>1. ReplayedAnswer(o) \in Outcomes \cup {"replayed"}
    BY <1>1, <1>2 DEF ReplayedAnswer, TypeOK
  <2> QED BY <1>1, <1>2, <2>1 DEF TypeOK
<1>5. OrderIsTotal' /\ LinksAreCapabilities' /\ NothingLeft' /\ VersionsTell' /\ MadeOnce'
  BY <1>1 DEF LibraryInv, OrderIsTotal, LinksAreCapabilities, NothingLeft, VersionsTell, Behind,
              Addressed, MadeOnce, Makes
<1>6. AnswersAgree'
  <2> SUFFICES ASSUME NEW i \in Operations PROVE OneStory(i)'
    BY DEF AnswersAgree
  <2>1. CASE i = o
    <3>1. OneStory(o)
      BY DEF AnswersAgree
    <3>2. CASE command[o].kind \in FirstVersion
      <4>1. answers'[o] = answers[o] \cup {"replayed"}
        BY <1>3, <3>2 DEF ReplayedAnswer
      <4>2. answers'[o] \ {"replayed"} = answers[o] \ {"replayed"}
        BY <4>1
      <4>3. "applied" \in answers'[o] <=> "applied" \in answers[o]
        BY <4>1
      <4> QED BY <1>1, <2>1, <3>1, <3>2, <4>2, <4>3 DEF OneStory
    <3>3. CASE command[o].kind \notin FirstVersion
      <4>1. answers'[o] = answers[o] \cup {receipt[o]}
        BY <1>3, <3>3 DEF ReplayedAnswer
      <4>2. answers'[o] = {receipt[o]}
        BY <3>1, <3>3, <4>1 DEF OneStory
      <4>3. receipt[o] # "replayed"
        BY <1>2 DEF TypeOK, Outcomes
      <4> QED BY <1>1, <2>1, <3>1, <4>2, <4>3 DEF OneStory
    <3> QED BY <3>2, <3>3
  <2>2. CASE i # o
    <3>1. MovesOn
      BY <1>1 DEF MovesOn, Behind
    <3> QED BY <1>1, <1>3, <2>2, <3>1, AnswersStay
  <2> QED BY <2>1, <2>2
<1> QED BY <1>4, <1>5, <1>6 DEF LibraryInv

LEMMA ImportKeeps ==
  ASSUME LibraryInv, AnswersAgree, NEW k \in Collections, NEW row, Import(k, row),
         row = library[k] \/ Follows(row, library[k])
  PROVE  LibraryInv' /\ AnswersAgree'
<1> DEFINE new == [library EXCEPT ![k] = row]
<1>1. /\ Exists(library[k]) /\ imports < MaxImports /\ imports' = imports + 1 /\ library' = new
      /\ UNCHANGED <<drawn, withdrawn, command, seen, receipt, answers, effects>>
  BY DEF Import
<1>2. Written({}, new)
  BY <1>1, RowsAreSound, OneRowWritten DEF Follows
<1> HIDE DEF new
<1>3. /\ new \in [Collections -> Rows] /\ withdrawn' \subseteq Links \cup {None}
      /\ OrderIsTotal' /\ NothingLeft' /\ LinksAreCapabilities'
      /\ MadeOnce' /\ VersionsTell' /\ MovesOn
  <2>1. /\ withdrawn' \subseteq withdrawn \cup
              ({library[j].link : j \in Collections} \ {new[j].link : j \in Collections})
        /\ \A i \in Operations : receipt[i] # "none" => receipt'[i] # "none"
        /\ \A j \in {} : /\ j \in drawn /\ \A i \in Operations : ~Exists(seen[i][j])
                       /\ \A i \in Operations : Makes(i, j) => receipt'[i] # "none"
    BY <1>1
  <2> QED BY <1>1, <1>2, <2>1, RowsKeep
<1>4. TypeOK'
  BY <1>1, <1>3, LibraryParameters DEF LibraryInv, TypeOK
<1>5. AnswersAgree'
  BY <1>1, <1>3, AnswersStay DEF AnswersAgree
<1> QED BY <1>3, <1>4, <1>5 DEF LibraryInv

LEMMA ImportedFollows ==
  ASSUME LibraryInv, AnswersAgree, NEW k \in Collections, NEW p \in Places, NEW n \in Nat,
         Materialize(k, p) \/ SaveImportedPlace(k, p, n)
  PROVE  LibraryInv' /\ AnswersAgree'
<1> DEFINE at == library[k].at
<1>1. at \in Ats /\ Total(at)
  BY RowsAreSound
<1>2. CASE Materialize(k, p)
  <2> DEFINE row == IF at[p] = Out THEN Touched(library[k], Appended(at, p)) ELSE library[k]
  <2>1. Import(k, row)
    BY <1>2 DEF Materialize
  <2>2. row = library[k] \/ Follows(row, library[k])
    BY <1>1, <2>1, AppendedIsTotal, TouchedFollows DEF Import
  <2> HIDE DEF row
  <2> QED BY <2>1, <2>2, ImportKeeps
<1>3. CASE SaveImportedPlace(k, p, n)
  <2> DEFINE position == IF \E q \in Places : at[q] = n THEN NextPosition(at) ELSE n
             taken == IF at[p] # Out THEN at ELSE [at EXCEPT ![p] = position]
  <2>1. Import(k, Touched(library[k], taken))
    BY <1>3 DEF SaveImportedPlace
  <2>2. taken \in Ats /\ Total(taken)
    <3>1. position \in Nat /\ \A q \in Places : at[q] # position
      <4>1. NextPosition(at) \in Nat /\ \A q \in Places : at[q] < NextPosition(at)
        BY <1>1, LastIsLast, AppendedIsTotal DEF NextPosition, Ats, Out
      <4>2. \A q \in Places : at[q] \in Int
        BY <1>1 DEF Ats, Out
      <4> HIDE DEF at
      <4> QED BY <4>1, <4>2
    <3> HIDE DEF at, position
    <3> QED BY <1>1, <3>1 DEF Ats, Total, Members, Out
  <2>3. Follows(Touched(library[k], taken), library[k])
    <3> HIDE DEF taken
    <3> QED BY <2>1, <2>2, TouchedFollows DEF Import
  <2> QED BY <2>1, <2>3, ImportKeeps
<1> QED BY <1>2, <1>3

(* What the rows are and what was answered are kept together: an answer    *)
(* without a receipt is true because versions are never met again.         *)
LEMMA RowsAndAnswers == LibrarySpec => [](LibraryInv /\ AnswersAgree)
<1> DEFINE Inv == LibraryInv /\ AnswersAgree
<1>1. LibraryInit => Inv
  BY LibraryInitInv
<1>2. Inv /\ [LibraryNext]_libraryVars => Inv'
  <2> SUFFICES ASSUME LibraryInv, AnswersAgree, [LibraryNext]_libraryVars
               PROVE  LibraryInv' /\ AnswersAgree'
    OBVIOUS
  <2>1. CASE \E o \in Operations, c \in Commands : Issue(o, c)
    BY <2>1, IssueKeeps
  <2>2. CASE \E o \in Operations : Perform(o)
    BY <2>2, PerformKeeps
  <2>3. CASE \E o \in Operations : Refuse(o)
    BY <2>3, RefuseKeeps
  <2>4. CASE \E o \in Operations : Replay(o)
    BY <2>4, ReplayKeeps
  <2>5. CASE \E k \in Collections, p \in Places : \/ Materialize(k, p)
               \/ \E n \in 0 .. Cardinality(Places) : SaveImportedPlace(k, p, n)
    <3>1. Cardinality(Places) \in Nat
      BY LibraryParameters, FS_CardinalityType
    <3>2. 0 \in Nat /\ 0 .. Cardinality(Places) \subseteq Nat
      BY <3>1
    <3> QED BY <2>5, <3>2, ImportedFollows
  <2>6. CASE UNCHANGED libraryVars
    <3>1. /\ command' = command /\ seen' = seen /\ drawn' = drawn /\ library' = library
          /\ withdrawn' = withdrawn /\ effects' = effects /\ imports' = imports
          /\ receipt' = receipt /\ answers' = answers
      BY <2>6 DEF libraryVars
    <3>2. TypeOK' /\ OrderIsTotal' /\ LinksAreCapabilities' /\ NothingLeft'
      BY <3>1 DEF LibraryInv, TypeOK, OrderIsTotal, LinksAreCapabilities, NothingLeft
    <3>3. VersionsTell'
      BY <3>1 DEF LibraryInv, VersionsTell, Behind, Addressed
    <3>4. MadeOnce'
      BY <3>1 DEF LibraryInv, MadeOnce, Makes
    <3>5. AnswersAgree'
      BY <3>1 DEF AnswersAgree, OneStory, Behind
    <3> QED BY <3>2, <3>3, <3>4, <3>5 DEF LibraryInv
  <2> QED BY <2>1, <2>2, <2>3, <2>4, <2>5, <2>6 DEF LibraryNext
<1> QED BY <1>1, <1>2, PTL DEF LibrarySpec

(* Nothing the library says of its rows depends on how commands, late      *)
(* deliveries and imports follow one another: positions are an order,      *)
(* links are capabilities, and a version tells the row.                    *)
THEOREM LibraryInvariant == LibrarySpec => []LibraryInv
  BY RowsAndAnswers, PTL

(* However often a command is delivered, it takes effect at most once, it  *)
(* is told to be applied exactly when it did, and the second version gives *)
(* one answer; the first may say "replayed" instead, after a refusal too.  *)
THEOREM AnswersAlwaysAgree == LibrarySpec => []AnswersAgree
  BY RowsAndAnswers, PTL

-----------------------------------------------------------------------------
(* Steps.                                                                  *)
LEMMA EffectsArePerformed ==
  ASSUME LibraryInv, [LibraryNext]_libraryVars, NEW o \in Operations, TakesEffect(o)
  PROVE  Perform(o)
<1>1. effects \in [Operations -> Nat]
  BY DEF LibraryInv, TypeOK
<1>2. effects'[o] # effects[o]
  BY <1>1 DEF TakesEffect
<1>3. CASE \E i \in Operations : Perform(i)
  <2>1. PICK i \in Operations : Perform(i)
    BY <1>3
  <2>2. PICK new : Apply(i, new)
    BY <2>1, PerformWrites
  <2>3. effects' = [effects EXCEPT ![i] = @ + 1]
    BY <2>2 DEF Apply
  <2>4. i = o
    BY <1>1, <1>2, <2>3
  <2> QED BY <2>1, <2>4
<1>4. CASE \E i \in Operations : Refuse(i) \/ Replay(i) \/ \E c \in Commands : Issue(i, c)
  BY <1>2, <1>4 DEF Refuse, Replay, Issue
<1>5. CASE \E k \in Collections, p \in Places : \/ Materialize(k, p)
             \/ \E n \in 0 .. Cardinality(Places) : SaveImportedPlace(k, p, n)
  BY <1>2, <1>5 DEF Materialize, SaveImportedPlace, Import
<1>6. CASE UNCHANGED libraryVars
  BY <1>2, <1>6 DEF libraryVars
<1> QED BY <1>3, <1>4, <1>5, <1>6 DEF LibraryNext

(* Equal versions are equal rows.                                          *)
LEMMA VersionsAreRows ==
  ASSUME LibraryInv, NEW o \in Operations, NEW k \in Collections, Exists(library[k]),
         library[k].revision = seen[o][k].revision
  PROVE  library[k] = seen[o][k]
<1>1. library[k].revision \in Nat
  BY RowsAreSound
<1>2. Exists(seen[o][k]) /\ ~Behind(o, k)
  BY <1>1 DEF Exists, Behind
<1> QED BY <1>2 DEF LibraryInv, VersionsTell

LEMMA AppliedIsSeen ==
  ASSUME LibraryInv, NEW o \in Operations, command[o] # None, Verdict(o) = "applied",
         command[o].kind \in Versioned
  PROVE  \A k \in Addressed(command[o]) : library[k] = seen[o][k]
<1> DEFINE c == command[o]
<1>1. c \in Commands /\ Addressed(c) \subseteq Collections
  BY AddressedAre DEF LibraryInv, TypeOK
<1>2. CASE c.kind \in {"update", "delete", "publish v1"}
  <2>1. VersionVerdict(o, {c.collection}) = "applied" /\ Addressed(c) = {c.collection}
    BY <1>2 DEF Verdict, V1Verdict, Addressed, Copying
  <2> QED BY <1>1, <2>1, VersionsAgree, VersionsAreRows
<1>3. CASE c.kind = "order"
  <2>1. VersionVerdict(o, {c.collection}) = "applied" /\ Addressed(c) = {c.collection}
    BY <1>3 DEF Verdict, OrderVerdict, Addressed, Copying
  <2> QED BY <1>1, <2>1, VersionsAgree, VersionsAreRows
<1>4. CASE c.kind = "file"
  <2>1. VersionVerdict(o, Addressed(c)) = "applied"
    BY <1>4 DEF Verdict, Addressed, Copying
  <2> QED BY <1>1, <2>1, VersionsAgree, VersionsAreRows
<1>5. CASE c.kind = "copy"
  <2>1. CopyVerdict(o, c) = "applied" /\ c.link # None
    BY <1>1, <1>5, CommandFields, LibraryParameters DEF Verdict, Copying
  <2>2. Addressed(c) = {k \in Collections : library[k].link = c.link}
    BY <1>5 DEF Addressed, Copying
  <2>3. PICK k \in Source(c, {"public"}) : library[k].revision = seen[o][k].revision
    BY <2>1 DEF CopyVerdict, Stale
  <2>4. /\ k \in Collections /\ library[k].link = c.link
        /\ \A j \in Collections : library[j].link = c.link => j = k
    BY <2>1, <2>3 DEF Source, LibraryInv, LinksAreCapabilities
  <2>5. Exists(library[k])
    BY <2>1, <2>4, RowsAreSound DEF Sound, NoRow, Row
  <2> QED BY <2>2, <2>3, <2>4, <2>5, VersionsAreRows
<1> QED BY <1>2, <1>3, <1>4, <1>5 DEF Versioned

(* Whoever wrote in between, a command with a version takes effect only on *)
(* what its client has read.                                               *)
THEOREM StaleIsRefused == LibrarySpec => StaleRefused
<1>1. LibraryInv /\ [LibraryNext]_libraryVars =>
        [\A o \in Operations : TakesEffect(o) /\ command[o].kind \in Versioned =>
           \A k \in Addressed(command[o]) : library[k] = seen[o][k]]_libraryVars
  <2> SUFFICES ASSUME LibraryInv, [LibraryNext]_libraryVars, NEW o \in Operations,
                      TakesEffect(o), command[o].kind \in Versioned
               PROVE  \A k \in Addressed(command[o]) : library[k] = seen[o][k]
    OBVIOUS
  <2>1. Perform(o)
    BY EffectsArePerformed
  <2> QED BY <2>1, PerformWrites, AppliedIsSeen
<1> QED BY <1>1, LibraryInvariant, PTL DEF LibrarySpec, StaleRefused

-----------------------------------------------------------------------------
(* Orders.                                                                 *)
Keeps(old, new, S) ==
  \A x, y \in (Members(old) \cap Members(new)) \ S : SameOrder(x, y, old, new)

LEMMA OrdersAreKept ==
  ASSUME NEW at \in Ats, NEW p \in Places, NEW n \in Nat
  PROVE  /\ Keeps(at, at, {}) /\ Keeps(at, Empty, {}) /\ Keeps(Empty, at, {})
         /\ Keeps(at, Removed(at, p), {})
         /\ at[p] = Out => Keeps(at, [at EXCEPT ![p] = n], {}) /\ Keeps(at, Inserted(at, p, n), {})
         /\ at[p] # Out /\ Total(at) => Keeps(at, Moved(at, p, n), {p})
<1>1. Keeps(at, at, {}) /\ Keeps(at, Empty, {}) /\ Keeps(Empty, at, {})
  BY EmptyIsSound DEF Keeps, SameOrder
<1>2. Keeps(at, Removed(at, p), {})
  BY DEF Keeps, SameOrder, Removed, Members, Ats
<1>3. ASSUME at[p] = Out PROVE Keeps(at, [at EXCEPT ![p] = n], {})
  BY <1>3 DEF Keeps, SameOrder, Members, Ats
<1>4. ASSUME at[p] = Out PROVE Keeps(at, Inserted(at, p, n), {})
  <2>1. ASSUME NEW q \in Places, q # p
        PROVE  /\ at[q] \in Int
               /\ Inserted(at, p, n)[q] = IF at[q] >= n THEN at[q] + 1 ELSE at[q]
    BY <2>1 DEF Inserted, Ats, Out
  <2> QED BY <1>4, <2>1 DEF Keeps, SameOrder, Members
<1>5. ASSUME at[p] # Out, Total(at) PROVE Keeps(at, Moved(at, p, n), {p})
  <2>1. ASSUME NEW q \in Places, q # p
        PROVE  /\ at[q] \in Int /\ at[p] \in Nat /\ (at[q] = Out \/ at[q] # at[p])
               /\ Moved(at, p, n)[q] =
                    IF n <= at[q] /\ at[q] < at[p] THEN at[q] + 1
                    ELSE IF at[p] < at[q] /\ at[q] <= n THEN at[q] - 1 ELSE at[q]
    BY <1>5, <2>1 DEF Moved, Ats, Out, Total, Members
  <2> QED BY <2>1 DEF Keeps, SameOrder, Members
<1> QED BY <1>1, <1>2, <1>3, <1>4, <1>5

(* A place is moved to where the command wants it.                         *)
LEMMA MovedIsPlaced ==
  ASSUME NEW at \in Ats, Total(at), NEW c, c.place \in Places, c.anchor \in Places,
         c.place \in Members(at), c.placement \in Placements, c.anchor # c.place,
         c.placement \in {"before", "after"} => c.anchor \in Members(at)
  PROVE  Placed(Moved(at, c.place, Target(at, c)), c)
<1> DEFINE p == c.place
           n == Target(at, c)
           new == Moved(at, p, n)
<1> SUFFICES Placed(new, c)
  OBVIOUS
<1>1. n \in Nat
  BY TargetIsPosition
<1>2. at[p] \in Nat
  BY DEF Members, Ats
<1> HIDE DEF n
<1>3. new[p] = n
  BY DEF Moved
<1>4. ASSUME NEW q \in Members(new) \ {p}
      PROVE  /\ q \in Places /\ at[q] \in Nat /\ at[q] # at[p]
             /\ new[q] = IF n <= at[q] /\ at[q] < at[p] THEN at[q] + 1
                         ELSE IF at[p] < at[q] /\ at[q] <= n THEN at[q] - 1 ELSE at[q]
  <2>1. q \in Places /\ q # p /\ new[q] # Out /\ at[q] \in Int
    BY DEF Members, Ats, Out
  <2>2. new[q] = IF n <= at[q] /\ at[q] < at[p] THEN at[q] + 1
                 ELSE IF at[p] < at[q] /\ at[q] <= n THEN at[q] - 1 ELSE at[q]
    BY <2>1 DEF Moved
  <2>3. at[q] # Out
    BY <1>1, <1>2, <2>1, <2>2 DEF Out
  <2>4. at[q] \in Nat
    BY <2>1, <2>3 DEF Ats
  <2> QED BY <2>1, <2>2, <2>3, <2>4 DEF Total, Members
<1> HIDE DEF new
<1>5. CASE c.placement = "first"
  <2>1. n = 0
    BY <1>5 DEF Target, n
  <2> QED BY <1>2, <1>3, <1>4, <1>5, <2>1 DEF Placed
<1>6. CASE c.placement = "last"
  <2>1. n = Last(at) /\ \A q \in Places : at[q] <= n
    BY <1>6, LastIsLast DEF Target, n
  <2> QED BY <1>1, <1>2, <1>3, <1>4, <1>6, <2>1 DEF Placed
<1>7. CASE c.placement \in {"before", "after"}
  <2> DEFINE a == c.anchor
  <2>1. a \in Places /\ at[a] \in Nat /\ at[a] # at[p]
    BY <1>7 DEF Members, Ats, Total
  <2>2. a \in Members(new) \ {p}
    <3>1. new[a] = IF n <= at[a] /\ at[a] < at[p] THEN at[a] + 1
                   ELSE IF at[p] < at[a] /\ at[a] <= n THEN at[a] - 1 ELSE at[a]
      BY <2>1 DEF Moved, new
    <3> QED BY <1>1, <1>2, <2>1, <3>1 DEF Members, Out
  <2>3. ASSUME NEW q \in Members(new) \ {p} PROVE q = a \/ at[q] # at[a]
    BY <1>4, <1>7, <2>1 DEF Total, Members, Out
  <2>4. CASE c.placement = "before"
    <3>1. n = at[a] - (IF at[p] < at[a] THEN 1 ELSE 0)
      BY <2>4 DEF Target, n
    <3>2. n < new[a]
      BY <1>1, <1>2, <1>4, <2>1, <2>2, <3>1
    <3>3. ASSUME NEW q \in Members(new) \ {p} PROVE new[q] < n \/ new[a] <= new[q]
      BY <1>1, <1>2, <1>4, <2>1, <2>2, <2>3, <3>1
    <3> QED BY <1>3, <2>4, <3>2, <3>3 DEF Placed
  <2>5. CASE c.placement = "after"
    <3>1. n = at[a] + (IF at[p] > at[a] THEN 1 ELSE 0)
      BY <2>5 DEF Target, n
    <3>2. new[a] < n
      BY <1>1, <1>2, <1>4, <2>1, <2>2, <3>1
    <3>3. ASSUME NEW q \in Members(new) \ {p} PROVE n < new[q] \/ new[q] <= new[a]
      BY <1>1, <1>2, <1>4, <2>1, <2>2, <2>3, <3>1
    <3> QED BY <1>3, <2>5, <3>2, <3>3 DEF Placed
  <2> QED BY <1>7, <2>4, <2>5
<1> QED BY <1>5, <1>6, <1>7 DEF Placements

Mover(o) ==
  IF command[o].kind \in {"order", "add v1", "move v1"} THEN {command[o].place} ELSE {}

LEMMA OneRowInOrder ==
  ASSUME LibraryInv, NEW k \in Collections, NEW row, NEW S,
         library' = [library EXCEPT ![k] = row], Keeps(library[k].at, row.at, S)
  PROVE  library'[k] = row /\ \A j \in Collections : Keeps(library[j].at, library'[j].at, S)
<1>1. library \in [Collections -> Rows]
  BY DEF LibraryInv, TypeOK
<1>2. library'[k] = row /\ \A j \in Collections : j # k => library'[j] = library[j]
  BY <1>1
<1>3. ASSUME NEW j \in Collections, j # k PROVE Keeps(library[j].at, library'[j].at, S)
  BY <1>2, <1>3 DEF Keeps, SameOrder
<1> QED BY <1>2, <1>3

(* A collection that is made, or goes away, has nobody to keep in order.   *)
LEMMA NobodyToKeep ==
  ASSUME LibraryInv, NEW k \in Collections, NEW at \in Ats, NEW S
  PROVE  /\ ~Exists(library[k]) => Keeps(library[k].at, at, S)
         /\ Keeps(library[k].at, Empty, S) /\ Keeps(library[k].at, library[k].at, S)
<1>1. ~Exists(library[k]) => library[k].at = Empty
  BY RowsAreSound DEF Sound, NoRow, Row
<1> QED BY <1>1, EmptyIsSound DEF Keeps, SameOrder

CopiedFrom(k, c, copy) ==
  /\ library[k].link = c.link /\ library[k].visibility # "private"
  /\ Members(copy) = IF c.kind = "copy v1" THEN Members(library[k].at)
                     ELSE Selection(library[k].at, c)
  /\ \A x, y \in Members(copy) : SameOrder(x, y, library[k].at, copy)

LEMMA PerformsInOrder ==
  ASSUME LibraryInv, NEW o \in Operations, Perform(o)
  PROVE  /\ \A k \in Collections : Keeps(library[k].at, library'[k].at, Mover(o))
         /\ command[o].kind = "order" =>
              Placed(library'[command[o].collection].at, command[o])
         /\ command[o].kind \in Copying =>
              \E k \in Collections :
                CopiedFrom(k, command[o], library'[command[o].target].at)
<1> DEFINE c == command[o]
<1>1. c \in Commands /\ c # None /\ Verdict(o) = "applied"
  BY PerformWrites
<1>2. CASE Create(o) \/ CreateV1(o)
  <2>1. /\ c.kind \in {"create", "create v1"}
        /\ library' = [library EXCEPT ![c.target] = Created(Empty)]
    BY <1>2 DEF Create, CreateV1, Sent, Write, Apply
  <2>2. c.target \in Collections /\ ~Exists(library[c.target]) /\ Mover(o) = {}
        /\ c.kind \notin Copying /\ c.kind # "order" /\ Created(Empty).at = Empty
    BY <1>1, <2>1, CommandFields
       DEF Verdict, V1Verdict, Mover, Creating, Copying, Created, Row
  <2>3. Keeps(library[c.target].at, Created(Empty).at, {})
    BY <2>2, EmptyIsSound, NobodyToKeep
  <2>4. \A k \in Collections : Keeps(library[k].at, library'[k].at, {})
    BY <2>1, <2>2, <2>3, OneRowInOrder
  <2> QED BY <2>2, <2>4
<1>3. CASE Update(o) \/ PublishV1(o)
  <2>1. c.kind \in {"update", "publish v1"}
    BY <1>3 DEF Update, PublishV1, Sent
  <2>2. \E visibility, link :
          library' = [library EXCEPT ![c.collection] =
                        Published(library[c.collection], visibility, link)]
    BY <1>3 DEF Update, PublishV1, Write, Apply
  <2>3. PICK visibility, link :
          library' = [library EXCEPT ![c.collection] =
                        Published(library[c.collection], visibility, link)]
    BY <2>2
  <2> DEFINE row == Published(library[c.collection], visibility, link)
  <2>4. row.at = library[c.collection].at
    BY DEF Published, Row
  <2>5. c.collection \in Collections /\ Mover(o) = {} /\ c.kind \notin Copying /\ c.kind # "order"
    BY <1>1, <2>1, CommandFields DEF Mover, Copying
  <2>6. library' = [library EXCEPT ![c.collection] = row]
    BY <2>3
  <2> HIDE DEF row
  <2>7. Keeps(library[c.collection].at, row.at, {})
    BY <2>4, <2>5, EmptyIsSound, NobodyToKeep
  <2>8. \A k \in Collections : Keeps(library[k].at, library'[k].at, {})
    BY <2>5, <2>6, <2>7, OneRowInOrder
  <2> QED BY <2>5, <2>8
<1>4. CASE Delete(o) \/ DeleteV1(o)
  <2>1. /\ c.kind \in {"delete", "delete v1"}
        /\ library' = [library EXCEPT ![c.collection] = NoRow] /\ NoRow.at = Empty
    BY <1>4 DEF Delete, DeleteV1, Sent, Write, Apply, NoRow, Row
  <2>2. c.collection \in Collections /\ Mover(o) = {} /\ c.kind \notin Copying /\ c.kind # "order"
    BY <1>1, <2>1, CommandFields DEF Mover, Copying
  <2>3. Keeps(library[c.collection].at, NoRow.at, {})
    BY <2>1, <2>2, EmptyIsSound, NobodyToKeep
  <2>4. \A k \in Collections : Keeps(library[k].at, library'[k].at, {})
    BY <2>1, <2>2, <2>3, OneRowInOrder
  <2> QED BY <2>2, <2>4
<1>5. CASE Order(o)
  <2>1. c.kind = "order"
    BY <1>5 DEF Order, Sent
  <2> DEFINE row == library[c.collection]
             at == Moved(row.at, c.place, Target(row.at, c))
  <2>2. library' = [library EXCEPT ![c.collection] = Touched(row, at)] /\ Touched(row, at).at = at
    BY <1>5 DEF Order, Write, Apply, Touched, Row
  <2>3. /\ c.collection \in Collections /\ c.place \in Places /\ c.anchor \in Places
        /\ c.placement \in Placements /\ c.anchor # c.place
        /\ Mover(o) = {c.place} /\ c.kind \notin Copying
    BY <1>1, <2>1, CommandFields DEF Mover, Copying
  <2>4. OrderVerdict(o, c) = "applied"
    BY <1>1, <2>1 DEF Verdict
  <2>5. /\ c.place \in Members(row.at) /\ row.at \in Ats /\ Total(row.at)
        /\ c.placement \in {"before", "after"} => c.anchor \in Members(row.at)
    BY <2>3, <2>4, VersionsAgree, RowsAreSound DEF OrderVerdict
  <2>6. Target(row.at, c) \in Nat
    BY <2>3, <2>5, TargetIsPosition
  <2>7. Keeps(row.at, at, {c.place})
    BY <2>3, <2>5, <2>6, OrdersAreKept DEF Members
  <2>8. Placed(at, c)
    BY <2>3, <2>5, MovedIsPlaced
  <2> DEFINE moved == Touched(row, at)
  <2>15. Keeps(library[c.collection].at, moved.at, Mover(o))
    <3> HIDE DEF at
    <3> QED BY <2>2, <2>3, <2>7
  <2>16. library' = [library EXCEPT ![c.collection] = moved]
    BY <2>2
  <2>9. /\ library'[c.collection] = moved
        /\ \A k \in Collections : Keeps(library[k].at, library'[k].at, Mover(o))
    <3> HIDE DEF moved
    <3> QED BY <2>3, <2>16, <2>15, OneRowInOrder
  <2> HIDE DEF at
  <2> QED BY <2>2, <2>3, <2>8, <2>9
<1>6. CASE File(o)
  <2>1. c.kind = "file"
    BY <1>6 DEF File, Sent
  <2>2. c.place \in Places /\ Mover(o) = {} /\ c.kind \notin Copying /\ c.kind # "order"
    BY <1>1, <2>1, CommandFields DEF Mover, Copying
  <2>3. ASSUME NEW k \in Collections
        PROVE  \/ library'[k] = library[k] \/ library'[k] = Filed(library[k], c.place, "included")
               \/ library'[k] = Filed(library[k], c.place, "excluded")
    BY <1>6 DEF File, Apply
  <2>4. ASSUME NEW k \in Collections, NEW wish \in Wishes
        PROVE  Keeps(library[k].at, Filed(library[k], c.place, wish).at, {})
    <3>1. library[k].at \in Ats /\ NextPosition(library[k].at) \in Nat
      BY <2>2, RowsAreSound, AppendedIsTotal
    <3>2. \A at : Touched(library[k], at).at = at
      BY DEF Touched, Row
    <3> QED BY <2>2, <3>1, <3>2, OrdersAreKept DEF Filed, Appended
  <2> QED BY <2>2, <2>3, <2>4, NobodyToKeep, RowsAreSound DEF Wishes
<1>7. CASE Copy(o)
  <2>1. c.kind = "copy"
    BY <1>7 DEF Copy, Sent
  <2>2. PICK k \in Source(c, {"public"}) : library' = [library EXCEPT
          ![c.target] = Created(Numbered(library[k].at, Selection(library[k].at, c)))]
    BY <1>7 DEF Copy, Write, Apply
  <2> DEFINE at == Numbered(library[k].at, Selection(library[k].at, c))
  <2>3. CopyVerdict(o, c) = "applied"
    BY <1>1, <2>1 DEF Verdict
  <2>4. /\ ~Exists(library[c.target]) /\ Selection(library[k].at, c) \subseteq Members(library[k].at)
    BY <2>2, <2>3 DEF CopyVerdict
  <2>5. /\ c.target \in Collections /\ k \in Collections /\ library[k].link = c.link
        /\ library[k].visibility # "private" /\ Mover(o) = {} /\ c.kind \in Copying
    BY <1>1, <2>1, <2>2, CommandFields DEF Creating, Copying, Source, Mover
  <2>6. /\ at \in Ats /\ Members(at) = Selection(library[k].at, c)
        /\ \A x, y \in Members(at) : SameOrder(x, y, library[k].at, at)
    BY <2>4, <2>5, RowsAreSound, NumberedKeepsOrder
  <2>7. library' = [library EXCEPT ![c.target] = Created(at)]
    BY <2>2
  <2> HIDE DEF at
  <2>8. Created(at).at = at
    BY DEF Created, Row
  <2>9. CopiedFrom(k, c, at)
    BY <2>1, <2>5, <2>6 DEF CopiedFrom
  <2>10. Keeps(library[c.target].at, Created(at).at, {})
    BY <2>4, <2>5, <2>6, <2>8, NobodyToKeep
  <2>11. /\ library'[c.target] = Created(at)
         /\ \A j \in Collections : Keeps(library[j].at, library'[j].at, {})
    BY <2>5, <2>7, <2>10, OneRowInOrder
  <2>12. CopiedFrom(k, c, library'[c.target].at)
    BY <2>8, <2>9, <2>11
  <2> QED BY <2>1, <2>5, <2>11, <2>12
<1>8. CASE RenameV1(o)
  <2>1. c.kind = "rename v1"
    BY <1>8 DEF RenameV1, Sent
  <2> DEFINE row == Touched(library[c.collection], library[c.collection].at)
  <2>2. library' = [library EXCEPT ![c.collection] = row] /\ row.at = library[c.collection].at
    BY <1>8 DEF RenameV1, Write, Apply, Touched, Row
  <2>3. c.collection \in Collections /\ Mover(o) = {} /\ c.kind \notin Copying /\ c.kind # "order"
    BY <1>1, <2>1, CommandFields DEF Mover, Copying
  <2> HIDE DEF row
  <2>4. Keeps(library[c.collection].at, row.at, {})
    BY <2>2, <2>3, EmptyIsSound, NobodyToKeep
  <2>5. \A k \in Collections : Keeps(library[k].at, library'[k].at, {})
    BY <2>2, <2>3, <2>4, OneRowInOrder
  <2> QED BY <2>3, <2>5
<1>9. CASE AddV1(o)
  <2>1. c.kind = "add v1"
    BY <1>9 DEF AddV1, Sent
  <2> DEFINE row == library[c.collection]
             position == IF c.position = None THEN NextPosition(row.at) ELSE c.position
  <2>2. /\ c.collection \in Collections /\ c.place \in Places /\ c.position \in Nat \cup {None}
        /\ Mover(o) = {c.place} /\ c.kind \notin Copying /\ c.kind # "order"
    BY <1>1, <2>1, CommandFields DEF Mover, Copying
  <2>3. row.at \in Ats /\ Total(row.at) /\ position \in Nat
    BY <2>2, RowsAreSound, AppendedIsTotal
  <2> DEFINE new == IF row.at[c.place] = Out THEN Touched(row, Inserted(row.at, c.place, position))
                    ELSE IF c.position = None THEN row
                    ELSE Touched(row, Moved(row.at, c.place, position))
  <2>4. library' = [library EXCEPT ![c.collection] = new]
    BY <1>9 DEF AddV1, Write, Apply
  <2>5. Keeps(row.at, new.at, {c.place})
    <3>1. \A at : Touched(row, at).at = at
      BY DEF Touched, Row
    <3> HIDE DEF position
    <3>2. /\ row.at[c.place] = Out => Keeps(row.at, Inserted(row.at, c.place, position), {})
          /\ row.at[c.place] # Out => Keeps(row.at, Moved(row.at, c.place, position), {c.place})
      BY <2>2, <2>3, OrdersAreKept
    <3>3. \A at : Keeps(row.at, at, {}) => Keeps(row.at, at, {c.place})
      BY DEF Keeps
    <3> QED BY <2>2, <2>3, <3>1, <3>2, <3>3, NobodyToKeep
  <2> HIDE DEF new
  <2>15. Keeps(library[c.collection].at, new.at, Mover(o))
    BY <2>2, <2>5
  <2>6. \A k \in Collections : Keeps(library[k].at, library'[k].at, Mover(o))
    BY <2>2, <2>4, <2>15, OneRowInOrder
  <2> QED BY <2>2, <2>6
<1>10. CASE RemoveV1(o)
  <2>1. c.kind = "remove v1"
    BY <1>10 DEF RemoveV1, Sent
  <2> DEFINE row == Touched(library[c.collection], Removed(library[c.collection].at, c.place))
  <2>2. /\ library' = [library EXCEPT ![c.collection] = row]
        /\ row.at = Removed(library[c.collection].at, c.place)
    BY <1>10 DEF RemoveV1, Write, Apply, Touched, Row
  <2>3. /\ c.collection \in Collections /\ c.place \in Places /\ Mover(o) = {}
        /\ c.kind \notin Copying /\ c.kind # "order"
    BY <1>1, <2>1, CommandFields DEF Mover, Copying
  <2> HIDE DEF row
  <2>4. Keeps(library[c.collection].at, row.at, {})
    BY <2>2, <2>3, RowsAreSound, OrdersAreKept, 0 \in Nat
  <2>5. \A k \in Collections : Keeps(library[k].at, library'[k].at, {})
    BY <2>2, <2>3, <2>4, OneRowInOrder
  <2> QED BY <2>3, <2>5
<1>11. CASE MoveV1(o)
  <2>1. c.kind = "move v1"
    BY <1>11 DEF MoveV1, Sent
  <2> DEFINE row == Touched(library[c.collection],
                            Moved(library[c.collection].at, c.place, c.position))
  <2>2. /\ library' = [library EXCEPT ![c.collection] = row]
        /\ row.at = Moved(library[c.collection].at, c.place, c.position)
    BY <1>11 DEF MoveV1, Write, Apply, Touched, Row
  <2>3. /\ c.collection \in Collections /\ c.place \in Places /\ c.position \in Nat
        /\ library[c.collection].at[c.place] # Out
        /\ Mover(o) = {c.place} /\ c.kind \notin Copying /\ c.kind # "order"
    BY <1>1, <2>1, CommandFields DEF Verdict, V1Verdict, Mover, Copying
  <2> HIDE DEF row
  <2>4. Keeps(library[c.collection].at, row.at, {c.place})
    BY <2>2, <2>3, RowsAreSound, OrdersAreKept
  <2>15. Keeps(library[c.collection].at, row.at, Mover(o))
    BY <2>3, <2>4
  <2>5. \A k \in Collections : Keeps(library[k].at, library'[k].at, Mover(o))
    BY <2>2, <2>3, <2>15, OneRowInOrder
  <2> QED BY <2>3, <2>5
<1>12. CASE CopyV1(o)
  <2>1. c.kind = "copy v1" /\ ~Exists(library[c.target])
    BY <1>12 DEF CopyV1, Sent
  <2>2. PICK k \in Source(c, {"unlisted", "public"}) :
          library' = [library EXCEPT ![c.target] = Created(library[k].at)]
    BY <1>12 DEF CopyV1, Write, Apply
  <2>3. /\ c.target \in Collections /\ k \in Collections /\ library[k].link = c.link
        /\ library[k].visibility # "private" /\ Mover(o) = {} /\ c.kind \in Copying
    BY <1>1, <2>1, <2>2, CommandFields DEF Creating, Copying, Source, Mover
  <2>4. Created(library[k].at).at = library[k].at /\ library[k].at \in Ats
    BY <2>3, RowsAreSound DEF Created, Row
  <2>5. CopiedFrom(k, c, library[k].at)
    BY <2>1, <2>3 DEF CopiedFrom, SameOrder
  <2>6. Keeps(library[c.target].at, Created(library[k].at).at, {})
    BY <2>1, <2>3, <2>4, NobodyToKeep
  <2> DEFINE row == Created(library[k].at)
  <2>7. /\ library'[c.target] = row
        /\ \A j \in Collections : Keeps(library[j].at, library'[j].at, {})
    <3>1. library' = [library EXCEPT ![c.target] = row] /\ Keeps(library[c.target].at, row.at, {})
      BY <2>2, <2>6
    <3> HIDE DEF row
    <3> QED BY <2>3, <3>1, OneRowInOrder
  <2>8. CopiedFrom(k, c, library'[c.target].at)
    BY <2>4, <2>5, <2>7
  <2> QED BY <2>1, <2>3, <2>7, <2>8
<1> QED BY <1>2, <1>3, <1>4, <1>5, <1>6, <1>7, <1>8, <1>9, <1>10, <1>11, <1>12 DEF Perform

(* The places that stay in a collection keep their order, a moved place is *)
(* where the command wants it, and a copy is in the order of its source.   *)
THEOREM OrderIsKept == LibrarySpec => OrderKept
<1> DEFINE Movers == UNION {MovedBy(o) : o \in Operations}
<1>1. ASSUME LibraryInv, [LibraryNext]_libraryVars, NEW o \in Operations, TakesEffect(o)
      PROVE  PlacesWell(o) /\ CopiesInOrder(o)
  BY <1>1, EffectsArePerformed, PerformsInOrder DEF CopiedFrom, PlacesWell, CopiesInOrder
<1>2. ASSUME LibraryInv, [LibraryNext]_libraryVars PROVE PlacesStay
  <2>1. (\A k \in Collections : Keeps(library[k].at, library'[k].at, Movers)) => PlacesStay
    BY DEF Keeps, PlacesStay
  <2> HIDE DEF Movers
  <2>2. \A S : \A k \in Collections : Keeps(library[k].at, library'[k].at, S) /\ S \subseteq Movers =>
          Keeps(library[k].at, library'[k].at, Movers)
    BY DEF Keeps
  <2>3. CASE \E o \in Operations : Perform(o)
    <3>1. PICK o \in Operations : Perform(o)
      BY <2>3
    <3>2. TakesEffect(o)
      <4>1. effects \in [Operations -> Nat]
        BY <1>2 DEF LibraryInv, TypeOK
      <4>2. PICK new : Apply(o, new)
        BY <1>2, <3>1, PerformWrites
      <4> QED BY <4>1, <4>2 DEF Apply, TakesEffect
    <3>3. Mover(o) \subseteq Movers
      BY <3>2 DEF Mover, MovedBy, Movers
    <3>4. \A k \in Collections : Keeps(library[k].at, library'[k].at, Mover(o))
      BY <1>2, <3>1, PerformsInOrder
    <3> QED BY <2>1, <2>2, <3>3, <3>4
  <2>4. CASE \E k \in Collections, p \in Places : \/ Materialize(k, p)
               \/ \E n \in 0 .. Cardinality(Places) : SaveImportedPlace(k, p, n)
    <3>1. PICK k \in Collections, p \in Places : \/ Materialize(k, p)
               \/ \E n \in 0 .. Cardinality(Places) : SaveImportedPlace(k, p, n)
      BY <2>4
    <3>2. library[k].at \in Ats /\ NextPosition(library[k].at) \in Nat
      BY <1>2, RowsAreSound, AppendedIsTotal
    <3>3. Cardinality(Places) \in Nat
      BY LibraryParameters, FS_CardinalityType
    <3>4. PICK row : Import(k, row) /\ Keeps(library[k].at, row.at, {})
      <4>1. \A at : Touched(library[k], at).at = at
        BY DEF Touched, Row
      <4>2. ASSUME NEW n \in Nat, library[k].at[p] = Out
            PROVE  Keeps(library[k].at, Touched(library[k], [library[k].at EXCEPT ![p] = n]).at, {})
        BY <3>2, <4>1, <4>2, OrdersAreKept
      <4>3. Keeps(library[k].at, library[k].at, {})
        BY <3>2, OrdersAreKept, 0 \in Nat
      <4>4. CASE Materialize(k, p)
        <5>1. CASE library[k].at[p] = Out
          <6>1. Import(k, Touched(library[k], Appended(library[k].at, p)))
            BY <4>4, <5>1 DEF Materialize
          <6>2. Keeps(library[k].at, Touched(library[k], Appended(library[k].at, p)).at, {})
            BY <3>2, <4>2, <5>1 DEF Appended
          <6> QED BY <6>1, <6>2
        <5>2. CASE library[k].at[p] # Out
          BY <4>3, <4>4, <5>2 DEF Materialize
        <5> QED BY <5>1, <5>2
      <4>5. ASSUME NEW n \in 0 .. Cardinality(Places), SaveImportedPlace(k, p, n)
            PROVE  \E row : Import(k, row) /\ Keeps(library[k].at, row.at, {})
        <5> DEFINE position == IF \E q \in Places : library[k].at[q] = n
                               THEN NextPosition(library[k].at) ELSE n
        <5>1. Import(k, Touched(library[k], IF library[k].at[p] # Out THEN library[k].at
                                            ELSE [library[k].at EXCEPT ![p] = position]))
          BY <4>5 DEF SaveImportedPlace
        <5>2. position \in Nat
          BY <3>2, <3>3
        <5> HIDE DEF position
        <5>3. CASE library[k].at[p] = Out
          <6>1. Keeps(library[k].at, Touched(library[k], [library[k].at EXCEPT ![p] = position]).at, {})
            BY <4>2, <5>2, <5>3
          <6>2. Import(k, Touched(library[k], [library[k].at EXCEPT ![p] = position]))
            BY <5>1, <5>3
          <6> QED BY <6>1, <6>2
        <5>4. CASE library[k].at[p] # Out
          <6>1. Import(k, Touched(library[k], library[k].at))
            BY <5>1, <5>4
          <6>2. Keeps(library[k].at, Touched(library[k], library[k].at).at, {})
            BY <4>1, <4>3
          <6> QED BY <6>1, <6>2
        <5> QED BY <5>3, <5>4
      <4> QED BY <3>1, <4>4, <4>5
    <3>5. \A j \in Collections : Keeps(library[j].at, library'[j].at, {})
      BY <1>2, <3>4, OneRowInOrder DEF Import
    <3> QED BY <2>1, <2>2, <3>5
  <2>5. CASE \/ UNCHANGED libraryVars
             \/ \E o \in Operations : Refuse(o) \/ Replay(o) \/ \E c \in Commands : Issue(o, c)
    <3>1. library' = library
      BY <2>5 DEF libraryVars, Refuse, Replay, Issue
    <3>2. \A k \in Collections : Keeps(library[k].at, library'[k].at, Movers)
      BY <1>2, <3>1, EmptyIsSound, NobodyToKeep
    <3> QED BY <2>1, <3>2
  <2> QED BY <1>2, <2>3, <2>4, <2>5 DEF LibraryNext
<1>3. LibraryInv /\ [LibraryNext]_libraryVars =>
        [/\ PlacesStay
         /\ \A o \in Operations : TakesEffect(o) => PlacesWell(o) /\ CopiesInOrder(o)
        ]_libraryVars
  BY <1>1, <1>2
<1> QED BY <1>3, LibraryInvariant, PTL DEF LibrarySpec, OrderKept

=============================================================================
