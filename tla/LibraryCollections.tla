------------------------- MODULE LibraryCollections -------------------------
(* A member's collections, their ordered places, and the commands on them  *)
(* (library/adapters/persistence and its collection-first directory;       *)
(* migrations 000007, 000027 and 000035).                                  *)
(* A command is one transaction, behind a lock on its operation id.  It    *)
(* may be delivered late, again, or never; what it answers is kept in a    *)
(* receipt.  Commands of the second version carry the version their client *)
(* has read; those of the first do not, except the one that publishes.     *)
(* Every collection is addressed by its owner.  Names and colours are      *)
(* abstracted; updated_at moves exactly when the revision does.  The       *)
(* placement a filing may carry is left out: the adapter ignores it.       *)
EXTENDS Integers, FiniteSets

CONSTANTS Collections, Places, Operations,
          Commands,        \* the commands clients send
          Links,           \* publication ids, drawn at random
          Copyable,        \* the most places a copy may have, 1000
          MaxImports,      \* writes of imports to a collection
          All, None

VARIABLES
  library,      \* library.collections with their collection_places
  drawn,        \* collection ids clients have drawn
  withdrawn,    \* links that were taken back
  command,      \* what the client of an operation asks for
  seen,         \* the rows it had read when it asked
  receipt,      \* operation_receipts_v2 and command_receipts
  answers,      \* what its calls were answered
  effects,      \* how many of its calls took effect
  imports

libraryVars ==
  <<library, drawn, withdrawn, command, seen, receipt, answers, effects, imports>>

-----------------------------------------------------------------------------
(* at[p] is the position of p, or Out when the collection is without p.    *)
Out == -1
Visibilities == {"private", "unlisted", "public"}
Placements == {"first", "last", "before", "after"}
Wishes == {"included", "excluded"}
Rows == [revision : Nat, visibility : Visibilities, link : Links \cup {None},
         at : [Places -> Nat \cup {Out}]]
Row(revision, visibility, link, at) ==
  [revision |-> revision, visibility |-> visibility, link |-> link, at |-> at]

Empty == [p \in Places |-> Out]
NoRow == Row(0, "private", None, Empty)
Created(at) == Row(1, "private", None, at)
Exists(row) == row.revision > 0
Members(at) == {p \in Places : at[p] # Out}
Touched(row, at) == Row(row.revision + 1, row.visibility, row.link, at)

V2 ==
  [kind : {"create"}, target : Collections]
  \cup [kind : {"update"}, collection : Collections, visibility : Visibilities \cup {None}]
  \cup [kind : {"delete"}, collection : Collections]
  \cup [kind : {"order"}, collection : Collections, place : Places,
        placement : Placements, anchor : Places]
  \cup [kind : {"file"}, place : Places, included : SUBSET Collections,
        excluded : SUBSET Collections]
  \cup [kind : {"copy"}, link : Links, target : Collections,
        selection : (SUBSET Places) \cup {All}]
V1 ==
  [kind : {"create v1"}, target : Collections]
  \cup [kind : {"rename v1", "delete v1"}, collection : Collections]
  \cup [kind : {"publish v1"}, collection : Collections, visibility : Visibilities]
  \cup [kind : {"add v1"}, collection : Collections, place : Places,
        position : Nat \cup {None}]
  \cup [kind : {"remove v1"}, collection : Collections, place : Places]
  \cup [kind : {"move v1"}, collection : Collections, place : Places, position : Nat]
  \cup [kind : {"copy v1"}, link : Links, target : Collections]

ASSUME LibraryParameters ==
  /\ IsFiniteSet(Places) /\ IsFiniteSet(Collections)
  /\ \A c \in Commands : c \in V2 \/ c \in V1
  /\ \A c \in Commands : c.kind = "order" => c.anchor # c.place
  /\ \A c \in Commands : c.kind = "file" => c.included \cap c.excluded = {}
  /\ None \notin Links \cup Nat /\ Copyable \in Nat /\ MaxImports \in Nat

Outcomes == {"applied", "not-found", "version-conflict", "source-membership-missing",
             "anchor-not-found", "publication-changed", "invalid-selection",
             "collection-limit-exceeded", "forbidden"}
FirstVersion == {"create v1", "rename v1", "publish v1", "delete v1",
                 "add v1", "remove v1", "move v1", "copy v1"}
Creating == {"create", "create v1", "copy", "copy v1"}
Copying == {"copy", "copy v1"}
Versioned == {"update", "delete", "order", "file", "copy", "publish v1"}

(* The collections a command reads or writes, but for the one it creates.  *)
Addressed(c) ==
  CASE c.kind \in {"create", "create v1"} -> {}
    [] c.kind \in Copying -> {k \in Collections : library[k].link = c.link}
    [] c.kind = "file" -> c.included \cup c.excluded
    [] OTHER -> {c.collection}

-----------------------------------------------------------------------------
(* Positions.  Removals and positions given by clients leave gaps.         *)
Last(at) == CHOOSE n \in {at[p] : p \in Places} \cup {Out} :
              \A p \in Places : at[p] <= n
NextPosition(at) == Last(at) + 1
Appended(at, p) == [at EXCEPT ![p] = NextPosition(at)]
Removed(at, p) == [at EXCEPT ![p] = Out]

(* Mutant: the places behind are not moved up.                              *)
InsertedOver(at, p, n) == [at EXCEPT ![p] = n]

Inserted(at, p, n) ==
  [q \in Places |-> IF q = p THEN n
                    ELSE IF at[q] >= n THEN at[q] + 1 ELSE at[q]]

Moved(at, p, n) ==
  [q \in Places |-> IF q = p THEN n
                    ELSE IF n <= at[q] /\ at[q] < at[p] THEN at[q] + 1
                    ELSE IF at[p] < at[q] /\ at[q] <= n THEN at[q] - 1
                    ELSE at[q]]

(* Mutant: the gap the moved place leaves is not counted.                   *)
TargetOnAnchor(at, c) ==
  CASE c.placement = "first" -> 0
    [] c.placement = "last" -> Last(at)
    [] OTHER -> at[c.anchor]

Target(at, c) ==
  CASE c.placement = "first" -> 0
    [] c.placement = "last" -> Last(at)
    [] c.placement = "before" ->
         at[c.anchor] - (IF at[c.place] < at[c.anchor] THEN 1 ELSE 0)
    [] c.placement = "after" ->
         at[c.anchor] + (IF at[c.place] > at[c.anchor] THEN 1 ELSE 0)

(* The selected places, numbered from 0 in the order of their source.      *)
Numbered(at, S) ==
  [p \in Places |-> IF p \in S THEN Cardinality({q \in S : at[q] < at[p]}) ELSE Out]

Selection(at, c) == IF c.selection = All THEN Members(at) ELSE c.selection

Published(row, visibility, fresh) ==
  Row(row.revision + 1, visibility,
      IF visibility = "private" THEN None
      ELSE IF row.visibility = "private" THEN fresh ELSE row.link,
      row.at)

(* Mutant: a filing does not count as a change of the collection.           *)
FiledQuietly(row, p, wish) ==
  Row(row.revision, row.visibility, row.link,
      IF wish = "excluded" THEN Removed(row.at, p)
      ELSE IF row.at[p] = Out THEN Appended(row.at, p) ELSE row.at)

Filed(row, p, wish) ==
  IF wish = "included" /\ row.at[p] = Out THEN Touched(row, Appended(row.at, p))
  ELSE IF wish = "excluded" /\ row.at[p] # Out THEN Touched(row, Removed(row.at, p))
  ELSE row

-----------------------------------------------------------------------------
(* A client reads the collections and sends its command.  The id of a new  *)
(* collection is drawn with it.                                            *)
Issue(o, c) ==
  /\ command[o] = None
  /\ \A k \in Addressed(c) : Exists(library[k])
  /\ c.kind \in Copying => Addressed(c) # {}
  /\ c.kind \in Creating => c.target \notin drawn
  /\ command' = [command EXCEPT ![o] = c]
  /\ seen' = [seen EXCEPT ![o] = [k \in Collections |->
                IF k \in Addressed(c) THEN library[k] ELSE NoRow]]
  /\ drawn' = drawn \cup (IF c.kind \in Creating THEN {c.target} ELSE {})
  /\ UNCHANGED <<library, withdrawn, receipt, answers, effects, imports>>

Sent(o, kind) == command[o] # None /\ command[o].kind = kind /\ receipt[o] = "none"

(* A delivery after the one that left a receipt is answered from it: the   *)
(* second version says what the receipt says, the first only that the      *)
(* command was there before, which reads as a success, refused or not.     *)
ReplayedAnswer(o) == IF command[o].kind \in FirstVersion THEN "replayed" ELSE receipt[o]

Replay(o) ==
  /\ receipt[o] # "none"
  /\ answers' = [answers EXCEPT ![o] = @ \cup {ReplayedAnswer(o)}]
  /\ UNCHANGED <<library, drawn, withdrawn, command, seen, receipt, effects, imports>>

Answer(o, outcome, left) ==
  /\ receipt' = [receipt EXCEPT ![o] = left]
  /\ answers' = [answers EXCEPT ![o] = @ \cup {outcome}]
  /\ UNCHANGED <<drawn, command, seen, imports>>

Apply(o, written) ==
  /\ library' = written
  /\ withdrawn' = withdrawn \cup
       ({library[k].link : k \in Collections} \ {written[k].link : k \in Collections})
  /\ effects' = [effects EXCEPT ![o] = @ + 1]
  /\ Answer(o, "applied", "applied")

Write(o, k, row) == Apply(o, [library EXCEPT ![k] = row])

-----------------------------------------------------------------------------
(* What the checks of a command come to, in their order.                   *)
Stale(o, k) == library[k].revision # seen[o][k].revision

VersionVerdict(o, K) ==
  IF \E k \in K : ~Exists(library[k]) THEN "not-found"
  ELSE IF \E k \in K : Stale(o, k) THEN "version-conflict" ELSE "applied"

OrderVerdict(o, c) ==
  LET version == VersionVerdict(o, {c.collection})
      members == Members(library[c.collection].at)
  IN IF version # "applied" THEN version
     ELSE IF c.place \notin members THEN "source-membership-missing"
     ELSE IF c.placement \in {"before", "after"} /\ c.anchor \notin members
     THEN "anchor-not-found" ELSE "applied"

(* The collection a link leads to, when it is as public as it has to be.   *)
Source(c, visible) ==
  {k \in Collections : library[k].link = c.link /\ library[k].visibility \in visible}

CopyVerdict(o, c) ==
  IF Source(c, {"public"}) = {} THEN "not-found"
  ELSE IF \E k \in Source(c, {"public"}) : Stale(o, k) THEN "publication-changed"
  ELSE IF \E k \in Source(c, {"public"}) :
            ~(Selection(library[k].at, c) \subseteq Members(library[k].at))
  THEN "invalid-selection"
  ELSE IF \E k \in Source(c, {"public"}) :
            Cardinality(Selection(library[k].at, c)) > Copyable
  THEN "collection-limit-exceeded"
  ELSE IF Exists(library[c.target]) THEN "not-found" ELSE "applied"

V1Verdict(o, c) ==
  CASE c.kind = "create v1" -> IF Exists(library[c.target]) THEN "forbidden" ELSE "applied"
    [] c.kind = "publish v1" -> VersionVerdict(o, {c.collection})
    [] c.kind = "copy v1" ->
         IF Source(c, {"unlisted", "public"}) = {} THEN "not-found" ELSE "applied"
    [] c.kind \in {"rename v1", "delete v1", "add v1"} ->
         IF Exists(library[c.collection]) THEN "applied" ELSE "not-found"
    [] OTHER ->
         IF Exists(library[c.collection]) /\ library[c.collection].at[c.place] # Out
         THEN "applied" ELSE "not-found"

Verdict(o) ==
  LET c == command[o] IN
  CASE c.kind = "create" -> IF Exists(library[c.target]) THEN "not-found" ELSE "applied"
    [] c.kind \in {"update", "delete"} -> VersionVerdict(o, {c.collection})
    [] c.kind = "order" -> OrderVerdict(o, c)
    [] c.kind = "file" -> VersionVerdict(o, c.included \cup c.excluded)
    [] c.kind = "copy" -> CopyVerdict(o, c)
    [] OTHER -> V1Verdict(o, c)

(* A filing is also refused when its place is not active, and a copy when  *)
(* the profile of the owner is hidden: rows of other modules.              *)
Refusals(o) ==
  ({Verdict(o)} \ {"applied"})
  \cup (IF command[o].kind \in {"file", "copy"} THEN {"not-found"} ELSE {})

(* Mutant: a refusal leaves no receipt.                                    *)
KeptNowhere(o, why) == "none"

(* The conflict of the first version is an exception: it leaves no receipt. *)
Kept(o, why) ==
  IF command[o].kind = "publish v1" /\ why = "version-conflict" THEN "none" ELSE why

Refuse(o) ==
  /\ command[o] # None /\ receipt[o] = "none"
  /\ \E why \in Refusals(o) : Answer(o, why, Kept(o, why))
  /\ UNCHANGED <<library, withdrawn, effects>>

-----------------------------------------------------------------------------
Create(o) ==
  /\ Sent(o, "create") /\ Verdict(o) = "applied"
  /\ Write(o, command[o].target, Created(Empty))

(* gen_random_uuid never returns a link that was in use.                   *)
Fresh == Links \ (withdrawn \cup {library[k].link : k \in Collections})

Update(o) ==
  LET k == command[o].collection
      row == library[k]
      visibility == IF command[o].visibility = None THEN row.visibility
                    ELSE command[o].visibility
  IN /\ Sent(o, "update") /\ Verdict(o) = "applied"
     /\ \E link \in Fresh : Write(o, k, Published(row, visibility, link))

Delete(o) ==
  /\ Sent(o, "delete") /\ Verdict(o) = "applied"
  /\ Write(o, command[o].collection, NoRow)

Order(o) ==
  LET c == command[o]
      row == library[c.collection]
  IN /\ Sent(o, "order") /\ Verdict(o) = "applied"
     /\ Write(o, c.collection, Touched(row, Moved(row.at, c.place, Target(row.at, c))))

(* All the collections of a filing are locked first, in one order.         *)
File(o) ==
  LET c == command[o] IN
  /\ Sent(o, "file") /\ Verdict(o) = "applied"
  /\ Apply(o, [k \in Collections |->
                 IF k \in c.included THEN Filed(library[k], c.place, "included")
                 ELSE IF k \in c.excluded THEN Filed(library[k], c.place, "excluded")
                 ELSE library[k]])

Copy(o) ==
  LET c == command[o] IN
  /\ Sent(o, "copy") /\ Verdict(o) = "applied"
  /\ \E k \in Source(c, {"public"}) :
       Write(o, c.target, Created(Numbered(library[k].at, Selection(library[k].at, c))))

-----------------------------------------------------------------------------
(* Commands of the first version.                                          *)
CreateV1(o) ==
  /\ Sent(o, "create v1") /\ Verdict(o) = "applied"
  /\ Write(o, command[o].target, Created(Empty))

RenameV1(o) ==
  LET row == library[command[o].collection] IN
  /\ Sent(o, "rename v1") /\ Verdict(o) = "applied"
  /\ Write(o, command[o].collection, Touched(row, row.at))

PublishV1(o) ==
  LET row == library[command[o].collection] IN
  /\ Sent(o, "publish v1") /\ Verdict(o) = "applied"
  /\ \E link \in Fresh :
       Write(o, command[o].collection, Published(row, command[o].visibility, link))

DeleteV1(o) ==
  /\ Sent(o, "delete v1") /\ Verdict(o) = "applied"
  /\ Write(o, command[o].collection, NoRow)

AddV1(o) ==
  LET c == command[o]
      row == library[c.collection]
      position == IF c.position = None THEN NextPosition(row.at) ELSE c.position
  IN /\ Sent(o, "add v1") /\ Verdict(o) = "applied"
     /\ Write(o, c.collection,
              IF row.at[c.place] = Out THEN Touched(row, Inserted(row.at, c.place, position))
              ELSE IF c.position = None THEN row
              ELSE Touched(row, Moved(row.at, c.place, position)))

RemoveV1(o) ==
  LET row == library[command[o].collection] IN
  /\ Sent(o, "remove v1") /\ Verdict(o) = "applied"
  /\ Write(o, command[o].collection, Touched(row, Removed(row.at, command[o].place)))

MoveV1(o) ==
  LET c == command[o]
      row == library[c.collection]
  IN /\ Sent(o, "move v1") /\ Verdict(o) = "applied"
     /\ Write(o, c.collection, Touched(row, Moved(row.at, c.place, c.position)))

(* Positions are copied as they are.  A target that exists is an error of  *)
(* the database: nothing is answered.                                      *)
CopyV1(o) ==
  LET c == command[o] IN
  /\ Sent(o, "copy v1") /\ Verdict(o) = "applied" /\ ~Exists(library[c.target])
  /\ \E k \in Source(c, {"unlisted", "public"}) :
       Write(o, c.target, Created(library[k].at))

-----------------------------------------------------------------------------
(* Imports write to a collection without a command of its own: the         *)
(* materializer appends and leaves a collection alone that has the place,  *)
(* the older import takes the position of its source if nobody has it.     *)
Import(k, row) ==
  /\ Exists(library[k]) /\ imports < MaxImports
  /\ imports' = imports + 1
  /\ library' = [library EXCEPT ![k] = row]
  /\ UNCHANGED <<drawn, withdrawn, command, seen, receipt, answers, effects>>

Materialize(k, p) ==
  LET row == library[k] IN
  Import(k, IF row.at[p] = Out THEN Touched(row, Appended(row.at, p)) ELSE row)

SaveImportedPlace(k, p, n) ==
  LET row == library[k]
      position == IF \E q \in Places : row.at[q] = n THEN NextPosition(row.at) ELSE n
  IN Import(k, Touched(row, IF row.at[p] # Out THEN row.at
                            ELSE [row.at EXCEPT ![p] = position]))

-----------------------------------------------------------------------------
LibraryInit ==
  /\ library = [k \in Collections |-> NoRow]
  /\ drawn = {} /\ withdrawn = {}
  /\ command = [o \in Operations |-> None]
  /\ seen = [o \in Operations |-> [k \in Collections |-> NoRow]]
  /\ receipt = [o \in Operations |-> "none"]
  /\ answers = [o \in Operations |-> {}]
  /\ effects = [o \in Operations |-> 0]
  /\ imports = 0

Perform(o) ==
  \/ Create(o) \/ Update(o) \/ Delete(o) \/ Order(o) \/ File(o) \/ Copy(o)
  \/ CreateV1(o) \/ RenameV1(o) \/ PublishV1(o) \/ DeleteV1(o)
  \/ AddV1(o) \/ RemoveV1(o) \/ MoveV1(o) \/ CopyV1(o)

LibraryNext ==
  \/ \E o \in Operations :
       \/ \E c \in Commands : Issue(o, c)
       \/ Perform(o) \/ Refuse(o) \/ Replay(o)
  \/ \E k \in Collections, p \in Places :
       \/ Materialize(k, p)
       \/ \E n \in 0 .. Cardinality(Places) : SaveImportedPlace(k, p, n)

LibrarySpec == LibraryInit /\ [][LibraryNext]_libraryVars
-----------------------------------------------------------------------------
(* Properties.                                                             *)
TypeOK ==
  /\ library \in [Collections -> Rows]
  /\ drawn \subseteq Collections /\ withdrawn \subseteq Links \cup {None}
  /\ command \in [Operations -> Commands \cup {None}]
  /\ seen \in [Operations -> [Collections -> Rows]]
  /\ receipt \in [Operations -> Outcomes \cup {"none"}]
  /\ answers \in [Operations -> SUBSET (Outcomes \cup {"replayed"})]
  /\ effects \in [Operations -> Nat] /\ imports \in 0 .. MaxImports

(* No two places of a collection share a position.                         *)
OrderIsTotal ==
  \A k \in Collections : \A p, q \in Members(library[k].at) :
    library[k].at[p] = library[k].at[q] => p = q

(* A link exists exactly while its collection is not private, leads to one *)
(* collection only, and never leads anywhere again once it was taken back. *)
LinksAreCapabilities ==
  /\ \A k \in Collections :
       (library[k].link = None) <=> (library[k].visibility = "private")
  /\ \A j, k \in Collections :
       library[j].link = library[k].link /\ library[j].link # None => j = k
  /\ \A k \in Collections : library[k].link \in withdrawn => library[k].link = None

(* A collection that does not exist has no places left: a deletion and a   *)
(* new collection leave and find nothing.                                  *)
NothingLeft ==
  \A k \in Collections : ~Exists(library[k]) => library[k] = NoRow

(* A collection has one command that makes it, which is done with once     *)
(* somebody has seen the collection.                                       *)
Makes(o, k) ==
  command[o] # None /\ command[o].kind \in Creating /\ command[o].target = k
MadeOnce ==
  /\ \A o \in Operations, k \in Collections : Makes(o, k) => k \in drawn
  /\ \A i, o \in Operations, k \in Collections : Makes(i, k) /\ Makes(o, k) => i = o
  /\ \A k \in Collections :
       Exists(library[k]) \/ (\E o \in Operations : Exists(seen[o][k])) =>
         k \in drawn /\ \A o \in Operations : Makes(o, k) => receipt[o] # "none"

(* A version says all there is to say about a row: who has read a row that *)
(* is still at its revision knows the row, and a row once left behind is   *)
(* never met again.  A command with a version has seen what it is about.   *)
Behind(o, k) ==
  ~Exists(library[k]) \/ library[k].revision > seen[o][k].revision
VersionsTell ==
  /\ \A o \in Operations, k \in Collections :
       Exists(seen[o][k]) => library[k] = seen[o][k] \/ Behind(o, k)
  /\ \A o \in Operations :
       command[o] # None /\ command[o].kind \in Versioned \ Copying =>
         \A k \in Addressed(command[o]) : Exists(seen[o][k])

(* The library's rows are as its tables and their readers take them to be. *)
LibraryInv ==
  /\ TypeOK /\ OrderIsTotal /\ LinksAreCapabilities /\ NothingLeft
  /\ MadeOnce /\ VersionsTell

(* What the answers to one command have in common: it is told to be        *)
(* applied if and only if it took effect, once; answers of the second      *)
(* version are all the same; one that says no more than "replayed" is of   *)
(* the first version and comes after a receipt; and the one answer without *)
(* a receipt, the conflict of a publication, stays true for ever.          *)
OneStory(o) ==
  /\ "applied" \in answers[o] \/ receipt[o] = "applied" \/ effects[o] # 0 =>
       answers[o] \ {"replayed"} = {"applied"} /\ receipt[o] = "applied" /\ effects[o] = 1
  /\ answers[o] # {} \/ receipt[o] # "none" =>
       /\ command[o] # None
       /\ command[o].kind \in FirstVersion \/ answers[o] = {receipt[o]}
  /\ "replayed" \in answers[o] => receipt[o] # "none"
  /\ receipt[o] = "none" /\ answers[o] # {} =>
       /\ command[o] # None /\ command[o].kind = "publish v1"
       /\ Exists(seen[o][command[o].collection]) /\ Behind(o, command[o].collection)

(* However often and late a command is delivered, it takes effect at most  *)
(* once, it is told so, and a collection it made does not come back once   *)
(* it is deleted.  What the first version promises less: a refusal that is *)
(* delivered again is answered "replayed", and its client cannot tell.     *)
AnswersAgree == \A o \in Operations : OneStory(o)

TakesEffect(o) == effects'[o] > effects[o]

(* A command with a version takes effect on what its client has seen: the  *)
(* places, their order, the visibility and the link it read, whoever wrote *)
(* in between and with whichever command or import.                        *)
StaleRefused ==
  [][\A o \in Operations :
       TakesEffect(o) /\ command[o].kind \in Versioned =>
         \A k \in Addressed(command[o]) : library[k] = seen[o][k]]_libraryVars

(* The places x and y are in the same order in both.                       *)
SameOrder(x, y, old, new) == (old[x] < old[y]) <=> (new[x] < new[y])

(* The moved place is where the command wants it, next to its anchor or at *)
(* an end, whatever gaps the positions have.                               *)
Placed(at, c) ==
  LET others == Members(at) \ {c.place} IN
  CASE c.placement = "first" -> \A q \in others : at[c.place] < at[q]
    [] c.placement = "last" -> \A q \in others : at[q] < at[c.place]
    [] c.placement = "before" ->
         /\ at[c.place] < at[c.anchor]
         /\ \A q \in others : at[q] < at[c.place] \/ at[c.anchor] <= at[q]
    [] c.placement = "after" ->
         /\ at[c.anchor] < at[c.place]
         /\ \A q \in others : at[c.place] < at[q] \/ at[q] <= at[c.anchor]

(* The place a step may move within a collection.                          *)
MovedBy(o) ==
  IF TakesEffect(o) /\ command[o].kind \in {"order", "add v1", "move v1"}
  THEN {command[o].place} ELSE {}

(* Places stay in order, but for those that are moved.                     *)
PlacesStay ==
  \A k \in Collections :
    LET old == library[k].at
        new == library'[k].at
    IN \A x, y \in (Members(old) \cap Members(new))
                      \ UNION {MovedBy(o) : o \in Operations} :
         SameOrder(x, y, old, new)

(* A copy has the selected places of a published collection in its order.  *)
CopiesInOrder(o) ==
  command[o].kind \in Copying =>
    \E k \in Collections :
      LET copy == library'[command[o].target].at IN
      /\ library[k].link = command[o].link
      /\ library[k].visibility # "private"
      /\ Members(copy) = IF command[o].kind = "copy v1" THEN Members(library[k].at)
                         ELSE Selection(library[k].at, command[o])
      /\ \A x, y \in Members(copy) : SameOrder(x, y, library[k].at, copy)

PlacesWell(o) ==
  command[o].kind = "order" => Placed(library'[command[o].collection].at, command[o])

(* Whatever a step does, the places that stay in a collection keep their   *)
(* order, but for the one that is moved, which goes where it should; and a *)
(* copy has the selected places of a published collection in its order.    *)
OrderKept ==
  [][/\ PlacesStay
     /\ \A o \in Operations : TakesEffect(o) => PlacesWell(o) /\ CopiesInOrder(o)
    ]_libraryVars
=============================================================================
