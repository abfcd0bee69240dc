-------------------------- MODULE CanonicalPlaces --------------------------
(* Canonical places, the provider identities that link to them, the        *)
(* minimum profile that imports contribute, and its search projection      *)
(* (places/adapters/persistence, migrations 000006 and 000036,             *)
(* entrypoints/catalog/minimum-place-publication.ts and the projection in  *)
(* search/adapters/persistence).                                           *)
(* A resolution decision is one transaction.  A contribution is one that   *)
(* publishes, two statements that project, and any failure in between.     *)
(* Only the address stands for the facts that may be filled in later.      *)
EXTENDS Naturals, Sequences, FiniteSets

CONSTANTS Places, Identities,
          Decisions,       \* resolution decisions
          Contributions,   \* observations with minimum facts, by import items
          IdentityOf,      \* the provider identity a contribution is about
          Addressed,       \* contributions whose facts have an address
          PageSize,        \* changes a rebuild reads at once
          MaxFailures,     \* contributions and rebuilds that break off
          None

ASSUME PlaceParameters ==
  /\ IdentityOf \in [Contributions -> Identities]
  /\ Addressed \subseteq Contributions
  /\ PageSize \in Nat \ {0} /\ MaxFailures \in Nat
  /\ None \notin Places \cup Contributions /\ IsFiniteSet(Places)

VARIABLES
  status, redirect,   \* canonical_places and their redirects
  linked,             \* the place of a provider identity
  decided,            \* decisions on record
  profile,            \* revisions of a place's profile, the last is current
  asserted,           \* the place for which a contribution's facts are on record
  changes, sequence,  \* the change feed; the last number drawn for it
  contributor,        \* the call that makes a contribution
  document,           \* search.place_documents
  rebuild, failures

identities == <<status, redirect, linked, decided>>
catalog == <<profile, asserted, changes, sequence>>
placeVars == <<identities, catalog, contributor, document, rebuild, failures>>

-----------------------------------------------------------------------------
Statuses == {"none", "active", "redirected", "retired"}
Known(p) == status[p] # "none"

(* What a revision says, and the contributions its evidence cites.         *)
Revisions == [address : Contributions \cup {None}, evidence : SUBSET Contributions]
Changes == [sequence : Nat \ {0}, place : Places, revision : Nat \ {0}]
Calls == [pc : {"idle", "publish", "commit", "names", "write", "done"},
          place : Places \cup {None}, number : Nat, names : SUBSET Contributions]
Documents == [revision : Nat, names : SUBSET Contributions]
Rebuilds ==
  [pc : {"idle", "page", "read", "project", "write"}, after : Nat, last : Nat,
   due : SUBSET Places, found : [Places -> Nat], place : Places \cup {None},
   names : SUBSET Contributions, since : SUBSET Changes]
NoDocument == [revision |-> 0, names |-> {}]
Call(pc, place) == [pc |-> pc, place |-> place, number |-> 0, names |-> {}]
NoCall == Call("idle", None)
Rebuilding(pc, since) ==
  [pc |-> pc, after |-> 0, last |-> 0, due |-> {}, found |-> [p \in Places |-> 0],
   place |-> None, names |-> {}, since |-> since]
NoRebuild == Rebuilding("idle", {})

Current(p) == Len(profile[p])

PlacesInit ==
  /\ status = [p \in Places |-> "none"]
  /\ redirect = [p \in Places |-> None]
  /\ linked = [i \in Identities |-> None]
  /\ decided = [d \in Decisions |-> "none"]
  /\ profile = [p \in Places |-> <<>>]
  /\ asserted = [c \in Contributions |-> None] /\ changes = {} /\ sequence = 0
  /\ contributor = [c \in Contributions |-> NoCall]
  /\ document = [p \in Places |-> NoDocument]
  /\ rebuild = NoRebuild /\ failures = 0

(* A publication holds the row of its place until it commits; a decision   *)
(* about the place waits.                                                  *)
RowLocked(p) == \E c \in Contributions : contributor[c].pc = "commit" /\ contributor[c].place = p

-----------------------------------------------------------------------------
(* Resolution decisions.  The outcome is recorded, an applied one and a    *)
(* refused one alike: a decision that is on record changes nothing.        *)

Decide(d, places, outcome) ==
  /\ decided[d] = "none"
  /\ \A p \in places : ~RowLocked(p)
  /\ decided' = [decided EXCEPT ![d] = outcome]
  /\ UNCHANGED <<catalog, contributor, document, rebuild, failures>>

CreatePlace(d, p, i) ==
  /\ ~Known(p) /\ linked[i] = None
  /\ Decide(d, {p}, "applied")
  /\ status' = [status EXCEPT ![p] = "active"]
  /\ linked' = [linked EXCEPT ![i] = p]
  /\ UNCHANGED redirect

(* Linking an identity to the place that has it already is applied too.    *)
LinkIdentity(d, p, i) ==
  /\ status[p] = "active" /\ linked[i] \in {None, p}
  /\ Decide(d, {p}, "applied")
  /\ linked' = [linked EXCEPT ![i] = p]
  /\ UNCHANGED <<status, redirect>>

(* Mutant: the target may have been merged or retired meanwhile.           *)
MergeableIntoAny(source, target) == status[source] = "active" /\ Known(target)

Mergeable(source, target) == status[source] = "active" /\ status[target] = "active"

(* All identities of the source move to the target.                        *)
MergePlaces(d, source, target) ==
  /\ source # target /\ Mergeable(source, target)
  /\ Decide(d, {source, target}, "applied")
  /\ status' = [status EXCEPT ![source] = "redirected"]
  /\ redirect' = [redirect EXCEPT ![source] = target]
  /\ linked' = [i \in Identities |-> IF linked[i] = source THEN target ELSE linked[i]]

SplitIdentity(d, source, new, i) ==
  /\ status[source] = "active" /\ ~Known(new) /\ linked[i] = source
  /\ Decide(d, {source, new}, "applied")
  /\ status' = [status EXCEPT ![new] = "active"]
  /\ linked' = [linked EXCEPT ![i] = new]
  /\ UNCHANGED redirect

(* The identities of a retired place stay with it.                         *)
RetirePlace(d, p) ==
  /\ status[p] = "active"
  /\ Decide(d, {p}, "applied")
  /\ status' = [status EXCEPT ![p] = "retired"]
  /\ UNCHANGED <<redirect, linked>>

(* About every place some command is refused: to create it when it is      *)
(* known, to change it when it is not or has ended.                        *)
Refuse(d, p) ==
  /\ Decide(d, {p}, "refused")
  /\ UNCHANGED <<status, redirect, linked>>

(* resolve: the place that n redirects lead to from q, or fewer when the   *)
(* chain ends before; no chain is longer than there are places.            *)
End[n \in 0..Cardinality(Places)] ==
  [q \in Places |-> IF n = 0 \/ status[q] # "redirected" THEN q ELSE End[n - 1][redirect[q]]]

Survivor(p) == End[Cardinality(Places)][p]

-----------------------------------------------------------------------------
(* Publication of the minimum profile.                                     *)

(* The import item resolves its identity, and contributes later.           *)
StartContribution(c) ==
  /\ contributor[c].pc = "idle" /\ linked[IdentityOf[c]] # None
  /\ contributor' = [contributor EXCEPT ![c] = Call("publish", linked[IdentityOf[c]])]
  /\ UNCHANGED <<identities, catalog, document, rebuild, failures>>

Belongs(c, p) == linked[IdentityOf[c]] = p
Recorded(c) == asserted[c] # None

(* The fingerprint of the recorded facts names their place.                *)
Publishable(c, p) == status[p] = "active" /\ Belongs(c, p) /\ asserted[c] \in {None, p}

Latest(p) == profile[p][Current(p)]

(* A missing address is filled in, other facts of a current profile stay.  *)
Fills(c, p) == Current(p) > 0 /\ Latest(p).address = None /\ c \in Addressed
NewRevision(c, p) ==
  [address |-> IF c \in Addressed THEN c ELSE None,
   evidence |-> IF Current(p) = 0 THEN {c} ELSE Latest(p).evidence \cup {c}]

Publishes(c, p) == Current(p) = 0 \/ Fills(c, p)

(* Mutant: the evidence taken over from the last revision is not checked.  *)
EligibleNew(c, p) == Belongs(c, p)

(* activate_canonical_place_profile: all evidence is of identities the     *)
(* place has now, the older evidence too.                                  *)
Eligible(c, p) == \A e \in NewRevision(c, p).evidence : Belongs(e, p)

(* The facts are recorded, the current profile stays as it is.             *)
ContributeExisting(c) ==
  LET p == contributor[c].place
  IN /\ contributor[c].pc = "publish" /\ ~RowLocked(p)
     /\ Publishable(c, p) /\ ~Publishes(c, p)
     /\ asserted' = [asserted EXCEPT ![c] = p]
     /\ contributor' = [contributor EXCEPT ![c].pc = "names", ![c].number = Current(p)]
     /\ UNCHANGED <<identities, profile, changes, sequence, document, rebuild, failures>>

(* The revision is activated and its change draws a number: nothing of it  *)
(* is visible before the commit, and another place's may commit first.     *)
ActivateProfile(c) ==
  LET p == contributor[c].place
  IN /\ contributor[c].pc = "publish" /\ ~RowLocked(p)
     /\ Publishable(c, p) /\ Publishes(c, p) /\ Eligible(c, p)
     /\ sequence' = sequence + 1
     /\ contributor' = [contributor EXCEPT ![c].pc = "commit", ![c].number = sequence']
     /\ UNCHANGED <<identities, profile, asserted, changes, document, rebuild, failures>>

CommitProfile(c) ==
  LET p == contributor[c].place
      revision == Current(p) + 1
  IN /\ contributor[c].pc = "commit"
     /\ profile' = [profile EXCEPT ![p] = Append(@, NewRevision(c, p))]
     /\ asserted' = [asserted EXCEPT ![c] = p]
     /\ changes' = changes \cup
          {[sequence |-> contributor[c].number, place |-> p, revision |-> revision]}
     /\ contributor' = [contributor EXCEPT ![c].pc = "names", ![c].number = revision]
     /\ UNCHANGED <<identities, sequence, document, rebuild, failures>>

(* The place or the identity moved on since it was resolved or the facts   *)
(* were recorded, or evidence of the last revision did: the item is tried  *)
(* again from its start.                                                   *)
ContributionFails(c) ==
  LET p == contributor[c].place
  IN /\ contributor[c].pc = "publish" /\ ~RowLocked(p)
     /\ Publishable(c, p) => Publishes(c, p) /\ ~Eligible(c, p)
     /\ contributor' = [contributor EXCEPT ![c] = NoCall]
     /\ UNCHANGED <<identities, catalog, document, rebuild, failures>>

-----------------------------------------------------------------------------
(* Projection: the names are read in one statement, the document is        *)
(* written in the next.                                                    *)

NamesOf(p) == {e \in Contributions : Recorded(e) /\ Belongs(e, p)}

Supersedes(p, revision) == document[p].revision <= revision

Project(p, revision, names) ==
  document' = IF Supersedes(p, revision)
              THEN [document EXCEPT ![p] = [revision |-> revision, names |-> names]]
              ELSE document

ReadNames(c) ==
  /\ contributor[c].pc = "names"
  /\ contributor' = [contributor EXCEPT ![c].pc = "write",
                                         ![c].names = NamesOf(contributor[c].place)]
  /\ UNCHANGED <<identities, catalog, document, rebuild, failures>>

WriteDocument(c) ==
  /\ contributor[c].pc = "write"
  /\ Project(contributor[c].place, contributor[c].number, contributor[c].names)
  /\ contributor' = [contributor EXCEPT ![c] = Call("done", contributor[c].place)]
  /\ UNCHANGED <<identities, catalog, rebuild, failures>>

(* The call breaks off, an open transaction is rolled back, or the answer  *)
(* is lost: the item is tried again.                                       *)
ContributionBreaks(c) ==
  /\ contributor[c].pc # "idle" /\ failures < MaxFailures
  /\ failures' = failures + 1
  /\ contributor' = [contributor EXCEPT ![c] = NoCall]
  /\ UNCHANGED <<identities, catalog, document, rebuild>>

-----------------------------------------------------------------------------
(* rebuild: the feed page by page, the current profiles of each page.      *)

RebuildOnly == UNCHANGED <<identities, catalog, contributor>>

StartRebuild ==
  /\ rebuild.pc = "idle"
  /\ rebuild' = Rebuilding("page", changes)
  /\ RebuildOnly /\ UNCHANGED <<document, failures>>

(* Mutant: a page starts from the last number drawn.                       *)
PageOfLate(after) == {ch \in changes : ch.sequence > after /\ ch.sequence = sequence}

PageOf(after) ==
  LET rest == {ch \in changes : ch.sequence > after}
  IN {ch \in rest : Cardinality({e \in rest : e.sequence < ch.sequence}) < PageSize}

PlacesOn(page) == {ch.place : ch \in page}

ReadPage ==
  LET page == PageOf(rebuild.after)
  IN /\ rebuild.pc = "page" /\ page # {}
     /\ \E last \in page :
          /\ \A ch \in page : ch.sequence <= last.sequence
          /\ rebuild' = [rebuild EXCEPT !.pc = "read", !.last = last.sequence,
                                        !.due = PlacesOn(page)]
     /\ RebuildOnly /\ UNCHANGED <<document, failures>>

(* Only active places have a profile to read.                              *)
ReadProfiles ==
  /\ rebuild.pc = "read"
  /\ rebuild' = [rebuild EXCEPT
       !.pc = "project",
       !.due = {p \in @ : status[p] = "active"},
       !.found = [p \in Places |-> IF p \in rebuild.due /\ status[p] = "active"
                                   THEN Current(p) ELSE 0]]
  /\ RebuildOnly /\ UNCHANGED <<document, failures>>

RebuildNames(p) ==
  /\ rebuild.pc = "project" /\ p \in rebuild.due
  /\ rebuild' = [rebuild EXCEPT !.pc = "write", !.place = p, !.names = NamesOf(p)]
  /\ RebuildOnly /\ UNCHANGED <<document, failures>>

RebuildWrites ==
  LET p == rebuild.place
  IN /\ rebuild.pc = "write"
     /\ Project(p, rebuild.found[p], rebuild.names)
     /\ rebuild' = [rebuild EXCEPT !.pc = "project", !.due = @ \ {p}, !.place = None,
                                   !.names = {}, !.found[p] = 0]
     /\ RebuildOnly /\ UNCHANGED failures

NextPage ==
  /\ rebuild.pc = "project" /\ rebuild.due = {}
  /\ rebuild' = [rebuild EXCEPT !.pc = "page", !.after = rebuild.last]
  /\ RebuildOnly /\ UNCHANGED <<document, failures>>

FinishRebuild ==
  /\ rebuild.pc = "page" /\ PageOf(rebuild.after) = {}
  /\ rebuild' = NoRebuild
  /\ RebuildOnly /\ UNCHANGED <<document, failures>>

RebuildBreaks ==
  /\ rebuild.pc # "idle" /\ failures < MaxFailures
  /\ failures' = failures + 1
  /\ rebuild' = NoRebuild
  /\ RebuildOnly /\ UNCHANGED document

-----------------------------------------------------------------------------
ResolutionStep(d) ==
  \/ \E p \in Places : RetirePlace(d, p) \/ Refuse(d, p)
  \/ \E p, q \in Places : MergePlaces(d, p, q)
  \/ \E p \in Places, i \in Identities : CreatePlace(d, p, i) \/ LinkIdentity(d, p, i)
  \/ \E p, q \in Places, i \in Identities : SplitIdentity(d, p, q, i)

ContributionStep(c) ==
  \/ StartContribution(c) \/ ContributeExisting(c) \/ ActivateProfile(c) \/ CommitProfile(c)
  \/ ContributionFails(c) \/ ReadNames(c) \/ WriteDocument(c) \/ ContributionBreaks(c)

RebuildStep ==
  \/ StartRebuild \/ ReadPage \/ ReadProfiles \/ RebuildWrites \/ NextPage \/ FinishRebuild
  \/ RebuildBreaks
  \/ \E p \in Places : RebuildNames(p)

PlacesNext ==
  \/ \E d \in Decisions : ResolutionStep(d)
  \/ \E c \in Contributions : ContributionStep(c)
  \/ RebuildStep

PlacesSpec == PlacesInit /\ [][PlacesNext]_placeVars

-----------------------------------------------------------------------------
PlacesTypeOK ==
  /\ status \in [Places -> Statuses]
  /\ redirect \in [Places -> Places \cup {None}]
  /\ linked \in [Identities -> Places \cup {None}]
  /\ decided \in [Decisions -> {"none", "applied", "refused"}]
  /\ profile \in [Places -> Seq(Revisions)]
  /\ asserted \in [Contributions -> Places \cup {None}]
  /\ changes \subseteq Changes /\ sequence \in Nat
  /\ contributor \in [Contributions -> Calls]
  /\ document \in [Places -> Documents]
  /\ failures \in Nat
  /\ rebuild \in Rebuilds

(* Whatever was merged, among any redirected places some redirect leads    *)
(* out of them: no chain turns in a circle.  Identities never link to a    *)
(* redirected place.                                                       *)
RedirectsEnd ==
  /\ \A p \in Places : status[p] = "redirected" <=> redirect[p] # None
  /\ \A p \in Places : redirect[p] # None => Known(redirect[p])
  /\ \A S \in (SUBSET {p \in Places : status[p] = "redirected"}) \ {{}} :
       \E p \in S : redirect[p] \notin S
  /\ \A i \in Identities : linked[i] # None => status[linked[i]] \in {"active", "retired"}

(* The feed has every revision of every place once, and those of a place   *)
(* in their order, though numbers are drawn before they are visible.       *)
FeedIsOrdered ==
  /\ \A p \in Places : {ch.revision : ch \in {e \in changes : e.place = p}} = 1..Current(p)
  /\ \A ch, e \in changes :
       /\ ch.sequence = e.sequence => ch = e
       /\ ch.place = e.place /\ ch.revision < e.revision => ch.sequence < e.sequence

(* Search shows nothing that was not published.                            *)
DocumentsArePublished ==
  \A p \in Places :
    document[p].revision <= Current(p) /\ \A e \in document[p].names : Recorded(e)

(* A number that was drawn is nobody else's, and later than all numbers of *)
(* its place: no other call about the place holds one.                     *)
NumbersAreDrawn ==
  /\ \A ch \in changes : ch.sequence <= sequence
  /\ \A c \in Contributions : contributor[c].pc = "commit" =>
       /\ contributor[c].number \in 1..sequence
       /\ \A ch \in changes :
            /\ ch.sequence # contributor[c].number
            /\ ch.place = contributor[c].place => ch.sequence < contributor[c].number
       /\ \A d \in Contributions \ {c} : contributor[d].pc = "commit" =>
            /\ contributor[d].place # contributor[c].place
            /\ contributor[d].number # contributor[c].number

(* What a call or a rebuild is about to project was published.             *)
ProjectionsAreSound ==
  /\ \A c \in Contributions :
       /\ contributor[c].pc # "idle" => contributor[c].place # None
       /\ contributor[c].pc \in {"names", "write"} =>
            contributor[c].number <= Current(contributor[c].place)
       /\ \A e \in contributor[c].names : Recorded(e)
  /\ \A p \in Places : rebuild.found[p] <= Current(p)
  /\ rebuild.pc = "write" => rebuild.place # None
  /\ \A e \in rebuild.names : Recorded(e)

(* What was eligible when it was activated is so when it commits: nobody   *)
(* moves an identity of a place whose row is locked.                       *)
CommitsAreEligible ==
  /\ \A c \in Contributions : contributor[c].pc = "commit" =>
       status[contributor[c].place] = "active" /\ Eligible(c, contributor[c].place)
  /\ \A ch \in changes : Known(ch.place)

(* What a rebuild has to show and how far it is: a place that is still to  *)
(* be shown is due, with a revision that is late enough.                   *)
Shown(ch) == status[ch.place] = "active" => document[ch.place].revision >= ch.revision

RebuildShows ==
  /\ rebuild.since \subseteq changes
  /\ rebuild.pc = "page" =>
       \A ch \in rebuild.since : ch.sequence <= rebuild.after => Shown(ch)
  /\ rebuild.pc \in {"read", "project", "write"} =>
       \A ch \in rebuild.since : ch.sequence <= rebuild.last =>
         \/ Shown(ch)
         \/ /\ ch.place \in rebuild.due
            /\ rebuild.pc # "read" => ch.revision <= rebuild.found[ch.place]
  /\ rebuild.pc = "write" => rebuild.place \in rebuild.due

PlacesInv ==
  /\ PlacesTypeOK /\ RedirectsEnd /\ FeedIsOrdered /\ DocumentsArePublished
  /\ NumbersAreDrawn /\ ProjectionsAreSound /\ CommitsAreEligible
  /\ IsFiniteSet(changes) /\ RebuildShows

(* A reference that was kept elsewhere, however long ago, resolves to a    *)
(* place that is active, or was retired itself.                            *)
ReferencesResolve ==
  \A p \in Places : Known(p) => status[Survivor(p)] \in {"active", "retired"}

(* Profiles only grow, each revision from evidence of the place's own      *)
(* identities; search never falls back to an earlier revision.             *)
ProfilesAdvance ==
  [][\A p \in Places :
       /\ document'[p].revision >= document[p].revision
       /\ profile'[p] # profile[p] =>
            /\ Current(p)' = Current(p) + 1
            /\ SubSeq(profile'[p], 1, Current(p)) = profile[p]
            /\ \A e \in profile'[p][Current(p)'].evidence : Belongs(e, p)]_placeVars

(* A rebuild that comes to its end has shown every change that was         *)
(* published when it started, of the places that are still active.         *)
RebuildCovers ==
  [][rebuild.pc = "page" /\ rebuild'.pc = "idle" /\ failures' = failures =>
       \A ch \in rebuild.since :
         status[ch.place] = "active" => document[ch.place].revision >= ch.revision]_placeVars
=============================================================================
