----------------------- MODULE CanonicalPlacesProofs -----------------------
(* What CanonicalPlaces keeps for every number of places, identities,      *)
(* decisions and contributions.                                            *)
EXTENDS CanonicalPlaces, FiniteSetTheorems, SequenceTheorems, WellFoundedInduction, TLAPS

USE DEF identities, catalog, placeVars

LEMMA RebuildBlank == NoRebuild \in Rebuilds
  BY DEF NoRebuild, Rebuilding, Rebuilds

LEMMA CallBlank == NoCall \in Calls
  BY DEF NoCall, Call, Calls

LEMMA PlacesInitInv == PlacesInit => PlacesInv
<1> SUFFICES ASSUME PlacesInit PROVE PlacesInv
  OBVIOUS
<1>1. PlacesTypeOK
  BY RebuildBlank, CallBlank DEF PlacesInit, PlacesTypeOK, Statuses, NoDocument, Documents
<1>2. RedirectsEnd
  BY DEF PlacesInit, RedirectsEnd
<1>3. FeedIsOrdered
  BY DEF PlacesInit, FeedIsOrdered, Current
<1>4. DocumentsArePublished
  BY DEF PlacesInit, DocumentsArePublished, NoDocument, Current
<1>5. NumbersAreDrawn
  BY DEF PlacesInit, NumbersAreDrawn, NoCall, Call
<1>6. ProjectionsAreSound
  BY DEF PlacesInit, ProjectionsAreSound, NoCall, Call, NoRebuild, Rebuilding, Current
<1>7. CommitsAreEligible
  BY DEF PlacesInit, CommitsAreEligible, NoCall, Call
<1>8. IsFiniteSet(changes) /\ RebuildShows
  BY FS_EmptySet DEF PlacesInit, RebuildShows, NoRebuild, Rebuilding
<1> QED BY <1>1, <1>2, <1>3, <1>4, <1>5, <1>6, <1>7, <1>8 DEF PlacesInv

-----------------------------------------------------------------------------
(* Decisions.  They touch no profile, no call and no document.             *)

(* Identities of a place leave it only while its row is free, and an       *)
(* active place ends only then; one that has ended stays so.               *)
KeepsLocked ==
  /\ \A i \in Identities : linked'[i] = linked[i] \/ linked[i] = None \/ ~RowLocked(linked[i])
  /\ \A p \in Places : status[p] # "none" =>
       \/ status'[p] = status[p]
       \/ status[p] = "active" /\ status'[p] \in {"redirected", "retired"} /\ ~RowLocked(p)

LEMMA EvidenceType ==
  ASSUME PlacesInv, NEW c \in Contributions, NEW p \in Places
  PROVE  /\ NewRevision(c, p) \in Revisions
         /\ Current(p) \in Nat
<1>1. profile[p] \in Seq(Revisions)
  BY DEF PlacesInv, PlacesTypeOK
<1>2. Current(p) \in Nat
  BY <1>1 DEF Current
<1>3. Current(p) # 0 => Latest(p) \in Revisions
  BY <1>1, <1>2 DEF Latest, Current
<1>4. (IF Current(p) = 0 THEN {c} ELSE Latest(p).evidence \cup {c}) \in SUBSET Contributions
  BY <1>3 DEF Revisions
<1> QED BY <1>2, <1>4 DEF NewRevision, Revisions

LEMMA PlaceOfChange ==
  ASSUME PlacesInv, NEW ch \in changes
  PROVE  ch.place \in Places /\ ch.sequence \in Nat /\ ch.revision \in Nat
  BY DEF PlacesInv, PlacesTypeOK, Changes

LEMMA DecideFrame ==
  ASSUME NEW d, NEW S, NEW o, Decide(d, S, o), PlacesInv, KeepsLocked
  PROVE  /\ FeedIsOrdered' /\ DocumentsArePublished' /\ NumbersAreDrawn' /\ ProjectionsAreSound'
         /\ CommitsAreEligible' /\ IsFiniteSet(changes)' /\ RebuildShows'
         /\ profile' \in [Places -> Seq(Revisions)]
         /\ asserted' \in [Contributions -> Places \cup {None}]
         /\ changes' \subseteq Changes /\ sequence' \in Nat
         /\ contributor' \in [Contributions -> Calls]
         /\ document' \in [Places -> Documents]
         /\ failures' \in Nat
         /\ rebuild' \in Rebuilds
<1>1. UNCHANGED <<profile, asserted, changes, sequence, contributor, document, rebuild, failures>>
  BY DEF Decide
<1>2. FeedIsOrdered'
  BY <1>1 DEF PlacesInv, FeedIsOrdered, Current
<1>3. DocumentsArePublished'
  BY <1>1 DEF PlacesInv, DocumentsArePublished, Current, Recorded
<1>4. NumbersAreDrawn'
  BY <1>1 DEF PlacesInv, NumbersAreDrawn
<1>5. ProjectionsAreSound'
  BY <1>1 DEF PlacesInv, ProjectionsAreSound, Current, Recorded
<1>6. CommitsAreEligible'
  <2>5. \A ch \in changes : Known(ch.place)'
    BY PlaceOfChange DEF PlacesInv, CommitsAreEligible, Known, KeepsLocked
  <2>1. SUFFICES ASSUME NEW c \in Contributions, contributor[c].pc = "commit"
                 PROVE  status'[contributor[c].place] = "active" /\ Eligible(c, contributor[c].place)'
    BY <1>1, <2>5 DEF CommitsAreEligible
  <2> DEFINE p == contributor[c].place
  <2>2. p \in Places /\ RowLocked(p)
    BY <2>1 DEF PlacesInv, PlacesTypeOK, ProjectionsAreSound, Calls, RowLocked
  <2>3. \A e \in NewRevision(c, p).evidence : e \in Contributions /\ linked[IdentityOf[e]] = p
    BY <2>1, <2>2, EvidenceType DEF PlacesInv, CommitsAreEligible, Eligible, Belongs, Revisions
  <2>4. \A e \in NewRevision(c, p).evidence : linked'[IdentityOf[e]] = p
    BY <2>2, <2>3, PlaceParameters DEF KeepsLocked
  <2>6. status'[p] = "active"
    BY <2>1, <2>2 DEF PlacesInv, CommitsAreEligible, KeepsLocked
  <2> QED BY <1>1, <2>4, <2>6 DEF Eligible, NewRevision, Latest, Current, Belongs
<1>7. RebuildShows'
  <2>1. ASSUME NEW ch \in changes, Shown(ch) PROVE Shown(ch)'
    <3>1. ch.place \in Places /\ status[ch.place] # "none"
      BY PlaceOfChange DEF PlacesInv, CommitsAreEligible, Known
    <3> QED BY <1>1, <2>1, <3>1 DEF Shown, KeepsLocked
  <2> QED BY <1>1, <2>1 DEF PlacesInv, RebuildShows
<1> QED BY <1>1, <1>2, <1>3, <1>4, <1>5, <1>6, <1>7 DEF PlacesInv, PlacesTypeOK

LEMMA DecideType ==
  ASSUME NEW d \in Decisions, NEW S, NEW o \in {"applied", "refused"}, Decide(d, S, o), PlacesInv,
         KeepsLocked, status' \in [Places -> Statuses], redirect' \in [Places -> Places \cup {None}],
         linked' \in [Identities -> Places \cup {None}], RedirectsEnd'
  PROVE  PlacesInv'
<1>1. decided' \in [Decisions -> {"none", "applied", "refused"}]
  BY DEF Decide, PlacesInv, PlacesTypeOK
<1> QED BY <1>1, DecideFrame DEF PlacesInv, PlacesTypeOK

Redirected == {p \in Places : status[p] = "redirected"}
Left(S) == \E p \in S : redirect[p] \notin S

(* The parts of RedirectsEnd.                                              *)
LEMMA RedirectParts ==
  RedirectsEnd <=>
    /\ \A p \in Places : status[p] = "redirected" <=> redirect[p] # None
    /\ \A p \in Places : redirect[p] # None => status[redirect[p]] # "none"
    /\ \A S \in (SUBSET Redirected) \ {{}} : Left(S)
    /\ \A i \in Identities : linked[i] # None => status[linked[i]] \in {"active", "retired"}
  BY DEF RedirectsEnd, Redirected, Left, Known

(* A step that redirects no place: nothing becomes or ceases to be         *)
(* redirected, nothing known is forgotten.                                 *)
LEMMA NoRedirect ==
  ASSUME PlacesInv, redirect' = redirect,
         \A p \in Places : status[p] = "redirected" <=> status'[p] = "redirected",
         \A p \in Places : status[p] # "none" => status'[p] # "none",
         \A i \in Identities : linked'[i] # None => status'[linked'[i]] \in {"active", "retired"}
  PROVE  RedirectsEnd'
<1>1. RedirectsEnd
  BY DEF PlacesInv
<1>2. Redirected' = Redirected
  BY DEF Redirected
<1>3. \A S \in (SUBSET Redirected) \ {{}} : Left(S)
  BY <1>1, RedirectParts
<1>4. \A S \in (SUBSET Redirected') \ {{}} : Left(S)'
  BY <1>2, <1>3 DEF Left
<1>5. \A p \in Places : redirect[p] # None => redirect[p] \in Places
  BY DEF PlacesInv, PlacesTypeOK
<1>6. \A p \in Places : redirect'[p] # None => status'[redirect'[p]] # "none"
  BY <1>1, <1>5, RedirectParts
<1>7. \A p \in Places : status'[p] = "redirected" <=> redirect'[p] # None
  BY <1>1, RedirectParts
<1> QED BY <1>4, <1>6, <1>7 DEF RedirectsEnd, Redirected, Left, Known

LEMMA CreateInv ==
  ASSUME PlacesInv, NEW d \in Decisions, NEW p \in Places, NEW i \in Identities,
         CreatePlace(d, p, i)
  PROVE  PlacesInv'
<1> USE PlaceParameters DEF CreatePlace, PlacesInv, PlacesTypeOK, Statuses, Known
<1>1. RedirectsEnd'
  BY NoRedirect, RedirectParts
<1>2. /\ status' \in [Places -> Statuses] /\ redirect' \in [Places -> Places \cup {None}]
      /\ linked' \in [Identities -> Places \cup {None}]
  OBVIOUS
<1>3. KeepsLocked
  BY DEF KeepsLocked, Decide
<1> QED BY <1>1, <1>2, <1>3, DecideType

LEMMA LinkInv ==
  ASSUME PlacesInv, NEW d \in Decisions, NEW p \in Places, NEW i \in Identities,
         LinkIdentity(d, p, i)
  PROVE  PlacesInv'
<1> USE PlaceParameters DEF LinkIdentity, PlacesInv, PlacesTypeOK, Statuses
<1>1. RedirectsEnd'
  BY NoRedirect, RedirectParts
<1>2. /\ status' \in [Places -> Statuses] /\ redirect' \in [Places -> Places \cup {None}]
      /\ linked' \in [Identities -> Places \cup {None}]
  OBVIOUS
<1>3. KeepsLocked
  BY DEF KeepsLocked, Decide
<1> QED BY <1>1, <1>2, <1>3, DecideType

(* The source of a merge was active and redirects to an active place: a    *)
(* set of redirected places that has the source is left by its redirect.   *)
LEMMA MergeInv ==
  ASSUME PlacesInv, NEW d \in Decisions, NEW source \in Places, NEW target \in Places,
         MergePlaces(d, source, target)
  PROVE  PlacesInv'
<1> USE PlaceParameters DEF MergePlaces, Mergeable, PlacesInv, PlacesTypeOK, Statuses
<1>0. RedirectsEnd
  OBVIOUS
<1>1. Redirected' = Redirected \cup {source}
  BY DEF Redirected
<1>2. ASSUME NEW S \in (SUBSET (Redirected \cup {source})) \ {{}}
      PROVE  \E p \in S : redirect'[p] \notin S
  <2>1. CASE source \in S
    <3>1. redirect'[source] = target /\ target \notin S
      BY DEF Redirected
    <3> QED BY <2>1, <3>1
  <2>2. CASE source \notin S
    <3>1. S \in (SUBSET Redirected) \ {{}}
      BY <2>2
    <3>2. PICK p \in S : redirect[p] \notin S
      BY <3>1, <1>0, RedirectParts DEF Left
    <3>3. redirect'[p] = redirect[p]
      BY <2>2, <3>1 DEF Redirected
    <3> QED BY <3>2, <3>3
  <2> QED BY <2>1, <2>2
<1>3. \A i \in Identities : linked'[i] # None => status'[linked'[i]] \in {"active", "retired"}
  BY <1>0, RedirectParts
<1>4. \A p \in Places : status'[p] = "redirected" <=> redirect'[p] # None
  BY <1>0, RedirectParts
<1>7. \A p \in Places : redirect'[p] # None => status'[redirect'[p]] # "none"
  BY <1>0, RedirectParts
<1>8. \A S \in (SUBSET Redirected') \ {{}} : Left(S)'
  BY <1>1, <1>2 DEF Left
<1>5. RedirectsEnd'
  BY <1>3, <1>4, <1>7, <1>8 DEF RedirectsEnd, Redirected, Left, Known
<1>6. /\ status' \in [Places -> Statuses] /\ redirect' \in [Places -> Places \cup {None}]
      /\ linked' \in [Identities -> Places \cup {None}]
  OBVIOUS
<1>9. KeepsLocked
  BY DEF KeepsLocked, Decide
<1> QED BY <1>5, <1>6, <1>9, DecideType

LEMMA SplitInv ==
  ASSUME PlacesInv, NEW d \in Decisions, NEW p \in Places, NEW q \in Places,
         NEW i \in Identities, SplitIdentity(d, p, q, i)
  PROVE  PlacesInv'
<1> USE PlaceParameters DEF SplitIdentity, PlacesInv, PlacesTypeOK, Statuses, Known
<1>1. RedirectsEnd'
  BY NoRedirect, RedirectParts
<1>2. /\ status' \in [Places -> Statuses] /\ redirect' \in [Places -> Places \cup {None}]
      /\ linked' \in [Identities -> Places \cup {None}]
  OBVIOUS
<1>3. KeepsLocked
  BY DEF KeepsLocked, Decide
<1> QED BY <1>1, <1>2, <1>3, DecideType

LEMMA RetireInv ==
  ASSUME PlacesInv, NEW d \in Decisions, NEW p \in Places, RetirePlace(d, p)
  PROVE  PlacesInv'
<1> USE PlaceParameters DEF RetirePlace, PlacesInv, PlacesTypeOK, Statuses
<1>1. RedirectsEnd'
  BY NoRedirect, RedirectParts
<1>2. /\ status' \in [Places -> Statuses] /\ redirect' \in [Places -> Places \cup {None}]
      /\ linked' \in [Identities -> Places \cup {None}]
  OBVIOUS
<1>3. KeepsLocked
  BY DEF KeepsLocked, Decide
<1> QED BY <1>1, <1>2, <1>3, DecideType

LEMMA RefuseInv ==
  ASSUME PlacesInv, NEW d \in Decisions, NEW p \in Places, Refuse(d, p)
  PROVE  PlacesInv'
<1> USE DEF Refuse, PlacesInv, PlacesTypeOK
<1>1. RedirectsEnd'
  BY NoRedirect, RedirectParts
<1>2. /\ status' \in [Places -> Statuses] /\ redirect' \in [Places -> Places \cup {None}]
      /\ linked' \in [Identities -> Places \cup {None}]
  OBVIOUS
<1>3. KeepsLocked
  BY DEF KeepsLocked, Decide
<1> QED BY <1>1, <1>2, <1>3, DecideType

LEMMA ResolutionInv ==
  ASSUME PlacesInv, NEW d \in Decisions, ResolutionStep(d) PROVE PlacesInv'
  BY CreateInv, LinkInv, MergeInv, SplitInv, RetireInv, RefuseInv DEF ResolutionStep

-----------------------------------------------------------------------------
(* Contributions and rebuilds.  They move no identity.                     *)

LEMMA IdentitiesStay ==
  ASSUME PlacesInv, UNCHANGED identities
  PROVE  /\ RedirectsEnd'
         /\ status' \in [Places -> Statuses] /\ redirect' \in [Places -> Places \cup {None}]
         /\ linked' \in [Identities -> Places \cup {None}]
         /\ decided' \in [Decisions -> {"none", "applied", "refused"}]
<1>1. RedirectsEnd'
  BY DEF PlacesInv, RedirectsEnd, Known
<1> QED BY <1>1 DEF PlacesInv, PlacesTypeOK

(* A document that says nothing but what was published.                    *)
PublishedDocument(p, doc) == doc.revision <= Current(p) /\ \A e \in doc.names : Recorded(e)

LEMMA ProjectPublished ==
  ASSUME PlacesInv, NEW p \in Places, NEW n \in Nat, NEW names \in SUBSET Contributions,
         n <= Current(p), \A e \in names : Recorded(e), Project(p, n, names)
  PROVE  /\ document' \in [Places -> Documents]
         /\ \A q \in Places : PublishedDocument(q, document'[q])
         /\ \A q \in Places : document[q].revision <= document'[q].revision
         /\ n <= document'[p].revision
<1> DEFINE doc == [revision |-> n, names |-> names]
<1>1. doc \in Documents
  BY DEF Documents
<1>2. document \in [Places -> Documents] /\ \A q \in Places : PublishedDocument(q, document[q])
  BY DEF PlacesInv, PlacesTypeOK, DocumentsArePublished, PublishedDocument
<1>3. PublishedDocument(p, doc)
  BY DEF PublishedDocument
<1>4. document' = document \/ document' = [document EXCEPT ![p] = doc]
  BY DEF Project
<1>6. doc.revision = n /\ \A q \in Places : document[q].revision \in Nat
  BY <1>2 DEF Documents
<1>5. \/ document[p].revision <= n /\ document' = [document EXCEPT ![p] = doc]
      \/ document' = document /\ n < document[p].revision
  BY <1>6 DEF Project, Supersedes
<1> HIDE DEF doc
<1> QED BY <1>1, <1>2, <1>3, <1>4, <1>5, <1>6

(* What one call is about to do rests on what is published.                *)
SoundCall(k) ==
  /\ k.pc # "idle" => k.place # None
  /\ k.pc \in {"names", "write"} => k.number <= Current(k.place)
  /\ \A e \in k.names : Recorded(e)

LEMMA SoundCalls ==
  ASSUME PlacesInv PROVE \A c \in Contributions : contributor[c] \in Calls /\ SoundCall(contributor[c])
  BY DEF PlacesInv, PlacesTypeOK, ProjectionsAreSound, SoundCall

(* A call changes its own record, the facts on record or a document.       *)
LEMMA CallStep ==
  ASSUME PlacesInv, NEW c \in Contributions, NEW k \in Calls,
         contributor' = [contributor EXCEPT ![c] = k],
         k.pc # "commit", SoundCall(k)',
         UNCHANGED <<identities, profile, changes, sequence, rebuild>>, failures' \in Nat,
         asserted' \in [Contributions -> Places \cup {None}],
         \A e \in Contributions : Recorded(e) => Recorded(e)',
         document' \in [Places -> Documents],
         \A q \in Places : PublishedDocument(q, document'[q]),
         \A q \in Places : document[q].revision <= document'[q].revision
  PROVE  PlacesInv'
<1>0. contributor \in [Contributions -> Calls] /\ rebuild \in Rebuilds /\ document \in [Places -> Documents]
  BY DEF PlacesInv, PlacesTypeOK
<1>1. PlacesTypeOK'
  BY <1>0, IdentitiesStay DEF PlacesInv, PlacesTypeOK
<1>2. FeedIsOrdered'
  BY DEF PlacesInv, FeedIsOrdered, Current
<1>3. DocumentsArePublished'
  <2>1. \A q \in Places : document'[q].revision <= Current(q) /\ document'[q].names \subseteq Contributions
    BY DEF PublishedDocument, Documents
  <2>2. \A q \in Places : \A e \in document'[q].names : Recorded(e)'
    BY <2>1 DEF PublishedDocument
  <2> QED BY <2>1, <2>2 DEF DocumentsArePublished, Current
<1>4. NumbersAreDrawn'
  <2>1. \A d \in Contributions : contributor'[d].pc = "commit" => d # c /\ contributor'[d] = contributor[d]
    BY <1>0
  <2> QED BY <2>1 DEF PlacesInv, NumbersAreDrawn
<1>5. ProjectionsAreSound'
  <2>1. ASSUME NEW d \in Contributions PROVE SoundCall(contributor[d])'
    <3>1. CASE d = c
      <4>1. contributor'[d] = k
        BY <1>0, <3>1
      <4> QED BY <4>1 DEF SoundCall
    <3>2. CASE d # c
      <4>1. contributor'[d] = contributor[d]
        BY <1>0, <3>2
      <4>2. contributor[d] \in Calls /\ SoundCall(contributor[d])
        BY SoundCalls
      <4> QED BY <4>1, <4>2 DEF SoundCall, Current, Calls
    <3> QED BY <3>1, <3>2
  <2>2. rebuild.names \subseteq Contributions
    BY <1>0 DEF Rebuilds
  <2>3. \A e \in rebuild.names : Recorded(e)'
    BY <2>2 DEF PlacesInv, ProjectionsAreSound
  <2> QED BY <2>1, <2>3 DEF PlacesInv, ProjectionsAreSound, SoundCall, Current
<1>6. CommitsAreEligible'
  <2>1. \A d \in Contributions : contributor'[d].pc = "commit" => d # c /\ contributor'[d] = contributor[d]
    BY <1>0
  <2>2. \A q : \A d \in Contributions : Eligible(d, q)' <=> Eligible(d, q)
    BY DEF Eligible, NewRevision, Latest, Current, Belongs
  <2> QED BY <2>1, <2>2 DEF PlacesInv, CommitsAreEligible, Known
<1>7. RebuildShows'
  <2>1. ASSUME NEW ch \in changes, Shown(ch) PROVE Shown(ch)'
    <3>1. document[ch.place].revision \in Nat /\ document'[ch.place].revision \in Nat
      BY <1>0, PlaceOfChange DEF Documents
    <3> QED BY <2>1, <3>1, PlaceOfChange DEF Shown
  <2> QED BY <2>1 DEF PlacesInv, RebuildShows
<1> QED BY <1>1, <1>2, <1>3, <1>4, <1>5, <1>6, <1>7, IdentitiesStay DEF PlacesInv

LEMMA PlacesParts ==
  ASSUME PlacesInv
  PROVE  /\ contributor \in [Contributions -> Calls] /\ rebuild \in Rebuilds
         /\ document \in [Places -> Documents] /\ failures \in Nat /\ sequence \in Nat
         /\ asserted \in [Contributions -> Places \cup {None}]
         /\ linked \in [Identities -> Places \cup {None}]
         /\ changes \subseteq Changes /\ profile \in [Places -> Seq(Revisions)]
         /\ \A p \in Places : Current(p) \in Nat
         /\ \A q \in Places : PublishedDocument(q, document[q])
         /\ \A q \in Places : document[q].revision \in Nat
<1>1. profile \in [Places -> Seq(Revisions)]
  BY DEF PlacesInv, PlacesTypeOK
<1>2. \A p \in Places : Current(p) \in Nat
  BY <1>1 DEF Current
<1>3. \A q \in Places : document[q].revision \in Nat
  BY DEF PlacesInv, PlacesTypeOK, Documents
<1> QED BY <1>1, <1>2, <1>3 DEF PlacesInv, PlacesTypeOK, DocumentsArePublished, PublishedDocument

LEMMA DocumentStays ==
  ASSUME PlacesInv, UNCHANGED document
  PROVE  /\ document' \in [Places -> Documents]
         /\ \A q \in Places : PublishedDocument(q, document'[q])
         /\ \A q \in Places : document[q].revision <= document'[q].revision
  BY PlacesParts

LEMMA StartInv ==
  ASSUME PlacesInv, NEW c \in Contributions, StartContribution(c) PROVE PlacesInv'
<1>1. PICK k \in Calls : k = Call("publish", linked[IdentityOf[c]])
  BY PlaceParameters, PlacesParts DEF Call, Calls
<1>2. k.pc = "publish" /\ k.place # None /\ k.names = {}
  BY <1>1 DEF StartContribution, Call
<1>3. SoundCall(k)'
  BY <1>2 DEF SoundCall
<1>4. contributor' = [contributor EXCEPT ![c] = k]
  BY <1>1 DEF StartContribution
<1> QED BY <1>1, <1>2, <1>3, <1>4, PlacesParts, DocumentStays, CallStep
       DEF StartContribution, Recorded

LEMMA ReturnInv ==
  ASSUME PlacesInv, NEW c \in Contributions, ContributionFails(c) \/ ContributionBreaks(c)
  PROVE  PlacesInv'
<1>1. NoCall.pc = "idle" /\ NoCall.names = {}
  BY DEF NoCall, Call
<1>2. SoundCall(NoCall)'
  BY <1>1 DEF SoundCall
<1>3. contributor' = [contributor EXCEPT ![c] = NoCall] /\ failures' \in Nat
  BY PlacesParts DEF ContributionFails, ContributionBreaks
<1> QED BY <1>1, <1>2, <1>3, CallBlank, DocumentStays, PlacesParts, CallStep
       DEF ContributionFails, ContributionBreaks, Recorded

LEMMA ExistingInv ==
  ASSUME PlacesInv, NEW c \in Contributions, ContributeExisting(c) PROVE PlacesInv'
<1>0. contributor[c] \in Calls
  BY PlacesParts
<1>1. PICK p \in Places : p = contributor[c].place
  BY <1>0 DEF PlacesInv, ProjectionsAreSound, ContributeExisting, Calls
<1>7. Current(p) \in Nat
  BY PlacesParts
<1>2. PICK k \in Calls : k = [contributor[c] EXCEPT !.pc = "names", !.number = Current(p)]
  BY <1>0, <1>7 DEF Calls
<1>8. k.pc = "names" /\ k.place = p /\ k.number = Current(p) /\ k.names = contributor[c].names
  BY <1>0, <1>1, <1>2 DEF Calls
<1>3. contributor' = [contributor EXCEPT ![c] = k]
  BY <1>0, <1>1, <1>2, PlacesParts DEF ContributeExisting
<1>4. asserted' \in [Contributions -> Places \cup {None}]
      /\ \A e \in Contributions : Recorded(e) => Recorded(e)'
  BY <1>1, PlaceParameters, PlacesParts DEF ContributeExisting, Recorded
<1>5. \A e \in contributor[c].names : Recorded(e)'
  BY <1>0, <1>4, SoundCalls DEF SoundCall, Calls
<1>6. SoundCall(k)'
  <2>1. p # None /\ Current(p)' = Current(p)
    BY PlaceParameters DEF ContributeExisting, Current
  <2> QED BY <1>7, <1>8, <1>5, <2>1 DEF SoundCall
<1>9. k.pc # "commit"
  BY <1>8
<1> QED BY <1>3, <1>4, <1>6, <1>9, DocumentStays, PlacesParts, CallStep DEF ContributeExisting

LEMMA NamesRecorded ==
  ASSUME NEW p PROVE NamesOf(p) \subseteq Contributions /\ \A e \in NamesOf(p) : Recorded(e)
  BY DEF NamesOf

LEMMA ReadNamesInv ==
  ASSUME PlacesInv, NEW c \in Contributions, ReadNames(c) PROVE PlacesInv'
<1>1. contributor[c] \in Calls /\ SoundCall(contributor[c])
  BY SoundCalls
<1>2. PICK names \in SUBSET Contributions :
        names = NamesOf(contributor[c].place) /\ \A e \in names : Recorded(e)
  BY NamesRecorded
<1>6. PICK k \in Calls : k = [contributor[c] EXCEPT !.pc = "write", !.names = names]
  BY <1>1, <1>2 DEF Calls
<1>3. /\ k.pc = "write" /\ k.place = contributor[c].place
      /\ k.number = contributor[c].number /\ k.names = names
  BY <1>1, <1>6 DEF Calls
<1>4. contributor' = [contributor EXCEPT ![c] = k]
  BY <1>2, <1>6, PlacesParts DEF ReadNames
<1>5. SoundCall(k)'
  BY <1>1, <1>2, <1>3 DEF SoundCall, ReadNames, Recorded, Current
<1> QED BY <1>3, <1>4, <1>5, DocumentStays, PlacesParts, CallStep
       DEF ReadNames, Recorded

LEMMA WriteInv ==
  ASSUME PlacesInv, NEW c \in Contributions, WriteDocument(c) PROVE PlacesInv'
<1>1. contributor[c] \in Calls /\ SoundCall(contributor[c]) /\ contributor[c].place \in Places
  BY SoundCalls DEF SoundCall, WriteDocument, Calls
<1>6. PICK k \in Calls : k = Call("done", contributor[c].place)
  BY <1>1 DEF Call, Calls
<1>2. k.pc = "done" /\ k.place = contributor[c].place /\ k.names = {}
  BY <1>6 DEF Call
<1>3. contributor' = [contributor EXCEPT ![c] = k]
  BY <1>6 DEF WriteDocument
<1>4. SoundCall(k)'
  BY <1>1, <1>2, PlaceParameters DEF SoundCall
<1>5. /\ document' \in [Places -> Documents]
      /\ \A q \in Places : PublishedDocument(q, document'[q])
      /\ \A q \in Places : document[q].revision <= document'[q].revision
  <2>1. /\ contributor[c].number \in Nat /\ contributor[c].names \in SUBSET Contributions
        /\ contributor[c].number <= Current(contributor[c].place)
        /\ \A e \in contributor[c].names : Recorded(e)
    BY <1>1 DEF SoundCall, WriteDocument, Calls
  <2> QED BY <1>1, <2>1, ProjectPublished DEF WriteDocument
<1> QED BY <1>2, <1>3, <1>4, <1>5, PlacesParts, CallStep DEF WriteDocument, Recorded

(* The number is fresh, and the row of the place was free.                 *)
LEMMA ActivateInv ==
  ASSUME PlacesInv, NEW c \in Contributions, ActivateProfile(c) PROVE PlacesInv'
<1>0. contributor[c] \in Calls /\ SoundCall(contributor[c])
  BY SoundCalls
<1>1. PICK p \in Places : p = contributor[c].place
  BY <1>0 DEF ActivateProfile, SoundCall, Calls
<1>2. PICK n \in Nat : n = sequence + 1
  BY PlacesParts
<1>3. PICK k \in Calls : k = [contributor[c] EXCEPT !.pc = "commit", !.number = n]
  BY <1>0 DEF Calls
<1>4. k.pc = "commit" /\ k.place = p /\ k.number = n /\ k.names = contributor[c].names
  BY <1>0, <1>1, <1>3 DEF Calls
<1>5. sequence' = n /\ contributor' = [contributor EXCEPT ![c] = k]
  BY <1>2, <1>3, PlacesParts DEF ActivateProfile
<1>6. contributor'[c] = k /\ \A d \in Contributions \ {c} : contributor'[d] = contributor[d]
  BY <1>5, PlacesParts
<1>7. UNCHANGED <<identities, profile, asserted, changes, document, rebuild, failures>>
  BY DEF ActivateProfile
<1>8. PlacesTypeOK'
  BY <1>5, <1>7, PlacesParts, IdentitiesStay DEF PlacesInv, PlacesTypeOK
<1>9. FeedIsOrdered' /\ DocumentsArePublished'
  BY <1>7 DEF PlacesInv, FeedIsOrdered, DocumentsArePublished, Current, Recorded
<1>10. NumbersAreDrawn'
  <2>1. \A ch \in changes : ch.sequence \in Nat /\ ch.sequence <= sequence /\ ch.sequence < n
    BY <1>2, PlacesParts DEF PlacesInv, NumbersAreDrawn, Changes
  <2>2. \A d \in Contributions \ {c} : contributor[d].pc = "commit" =>
          contributor[d].place # p /\ contributor[d].number \in Nat /\ contributor[d].number < n
    BY <1>1, <1>2, PlacesParts DEF PlacesInv, NumbersAreDrawn, ActivateProfile, RowLocked, Calls
  <2>3. \A d \in Contributions \ {c} : contributor[d].pc = "commit" => contributor[d].number \in 1..n
    BY <1>2, PlacesParts DEF PlacesInv, NumbersAreDrawn
  <2>4. n \in 1..n
    BY <1>2, PlacesParts
  <2> QED BY <1>4, <1>5, <1>6, <1>7, <2>1, <2>2, <2>3, <2>4 DEF PlacesInv, NumbersAreDrawn
<1>11. ProjectionsAreSound'
  <2>1. \A e \in Contributions : Recorded(e)' = Recorded(e)
    BY <1>7 DEF Recorded
  <2>2. \A d \in Contributions : contributor[d].names \subseteq Contributions
    BY PlacesParts DEF Calls
  <2>3. rebuild.names \subseteq Contributions
    BY PlacesParts DEF Rebuilds
  <2> QED BY <1>0, <1>1, <1>4, <1>6, <1>7, <2>1, <2>2, <2>3, PlaceParameters
          DEF PlacesInv, ProjectionsAreSound, Current
<1>12. CommitsAreEligible'
  <2>1. Eligible(c, p) /\ status[p] = "active"
    BY <1>1 DEF ActivateProfile, Publishable
  <2>2. \A d \in Contributions, q \in Places : Eligible(d, q) => Eligible(d, q)'
    BY <1>7 DEF Eligible, NewRevision, Latest, Current, Belongs
  <2>3. \A d \in Contributions : contributor[d].pc = "commit" => contributor[d].place \in Places
    BY SoundCalls DEF SoundCall, Calls
  <2> QED BY <1>4, <1>6, <1>7, <2>1, <2>2, <2>3 DEF PlacesInv, CommitsAreEligible, Known
<1>13. RebuildShows'
  BY <1>7 DEF PlacesInv, RebuildShows, Shown
<1> QED BY <1>8, <1>9, <1>10, <1>11, <1>12, <1>13, IdentitiesStay, <1>7 DEF PlacesInv

(* A revision is appended to the profile of one place.                     *)
LEMMA AppendProfile ==
  ASSUME PlacesInv, NEW p \in Places, NEW r \in Revisions,
         profile' = [profile EXCEPT ![p] = Append(@, r)]
  PROVE  /\ profile' \in [Places -> Seq(Revisions)]
         /\ Current(p)' = Current(p) + 1
         /\ \A q \in Places \ {p} : profile'[q] = profile[q] /\ Current(q)' = Current(q)
         /\ SubSeq(profile'[p], 1, Current(p)) = profile[p]
         /\ profile'[p][Current(p)'] = r
<1>1. profile[p] \in Seq(Revisions) /\ profile'[p] = Append(profile[p], r)
  BY PlacesParts
<1>2. Append(profile[p], r) \in Seq(Revisions)
  BY <1>1
<1> QED BY <1>1, <1>2, PlacesParts DEF Current

LEMMA CommitInv ==
  ASSUME PlacesInv, NEW c \in Contributions, CommitProfile(c) PROVE PlacesInv'
<1>0. contributor[c] \in Calls /\ SoundCall(contributor[c])
  BY SoundCalls
<1>1. PICK p \in Places : p = contributor[c].place
  BY <1>0 DEF CommitProfile, SoundCall, Calls
<1>2. PICK n \in Nat \ {0} : n = contributor[c].number
  BY <1>0 DEF CommitProfile, PlacesInv, NumbersAreDrawn
<1>3. PICK v \in Nat \ {0} : v = Current(p) + 1
  BY PlacesParts
<1>4. PICK r \in Revisions : r = NewRevision(c, p)
  BY EvidenceType
<1>5. PICK k \in Calls : k = [contributor[c] EXCEPT !.pc = "names", !.number = v]
  BY <1>0, <1>3 DEF Calls
<1>6. k.pc = "names" /\ k.place = p /\ k.number = v /\ k.names = contributor[c].names
  BY <1>0, <1>1, <1>5 DEF Calls
<1>7. PICK ch \in Changes : ch = [sequence |-> n, place |-> p, revision |-> v]
  BY DEF Changes
<1>8. /\ profile' = [profile EXCEPT ![p] = Append(@, r)]
      /\ asserted' = [asserted EXCEPT ![c] = p]
      /\ changes' = changes \cup {ch}
      /\ contributor' = [contributor EXCEPT ![c] = k]
      /\ UNCHANGED <<identities, sequence, document, rebuild, failures>>
  BY <1>1, <1>2, <1>3, <1>4, <1>5, <1>7, PlacesParts DEF CommitProfile
<1>9. /\ profile' \in [Places -> Seq(Revisions)]
      /\ Current(p)' = v
      /\ \A q \in Places \ {p} : profile'[q] = profile[q] /\ Current(q)' = Current(q)
  BY <1>3, <1>8, AppendProfile
<1>10. contributor'[c] = k /\ \A d \in Contributions \ {c} : contributor'[d] = contributor[d]
  BY <1>8, PlacesParts
<1>11. \A e \in Contributions : Recorded(e) => Recorded(e)'
  BY <1>8, PlaceParameters, PlacesParts DEF Recorded
<1>12. \A q \in Places : Current(q) \in Nat /\ Current(q)' \in Nat /\ Current(q) <= Current(q)'
  BY <1>3, <1>9, PlacesParts
<1>13. PlacesTypeOK'
  BY <1>8, <1>9, PlacesParts, IdentitiesStay DEF PlacesTypeOK
<1>14. FeedIsOrdered'
  <2>1. \A e \in changes : /\ e.sequence \in Nat /\ e.revision \in Nat /\ e.sequence # n
                           /\ e.place = p => e.sequence < n /\ e.revision < v
    <3>1. \A e \in changes : e.sequence \in Nat /\ e.revision \in Nat
      BY PlacesParts DEF Changes
    <3>2. \A e \in changes : e.sequence # n /\ (e.place = p => e.sequence < n)
      BY <1>1, <1>2 DEF CommitProfile, PlacesInv, NumbersAreDrawn
    <3>3. \A e \in changes : e.place = p => e.revision \in 1..Current(p)
      BY DEF PlacesInv, FeedIsOrdered
    <3> QED BY <1>3, <3>1, <3>2, <3>3, PlacesParts
  <2>2. ch.sequence = n /\ ch.place = p /\ ch.revision = v
    BY <1>7
  <2>3. \A q \in Places : {e.revision : e \in {x \in changes' : x.place = q}} = 1..Current(q)'
    <3>1. SUFFICES ASSUME NEW q \in Places
                   PROVE  {e.revision : e \in {x \in changes' : x.place = q}} = 1..Current(q)'
      OBVIOUS
    <3>2. {e.revision : e \in {x \in changes : x.place = q}} = 1..Current(q)
      BY DEF PlacesInv, FeedIsOrdered
    <3>3. CASE q # p
      <4>1. {x \in changes' : x.place = q} = {x \in changes : x.place = q}
        BY <1>8, <2>2, <3>3
      <4> QED BY <1>9, <3>2, <3>3, <4>1
    <3>4. CASE q = p
      <4>1. {x \in changes' : x.place = q} = {x \in changes : x.place = q} \cup {ch}
        BY <1>8, <2>2, <3>4
      <4>2. {e.revision : e \in {x \in changes' : x.place = q}} = (1..Current(q)) \cup {v}
        BY <2>2, <3>2, <4>1
      <4>3. (1..Current(q)) \cup {v} = 1..v
        BY <1>3, <3>4, PlacesParts
      <4> QED BY <1>9, <3>4, <4>2, <4>3
    <3> QED BY <3>3, <3>4
  <2>4. \A x, e \in changes' :
          /\ x.sequence = e.sequence => x = e
          /\ x.place = e.place /\ x.revision < e.revision => x.sequence < e.sequence
    BY <1>8, <2>1, <2>2 DEF PlacesInv, FeedIsOrdered
  <2> QED BY <2>3, <2>4 DEF FeedIsOrdered
<1>15. DocumentsArePublished'
  <2>1. \A q \in Places : document[q].revision \in Nat /\ document[q].names \subseteq Contributions
    BY PlacesParts DEF Documents
  <2> QED BY <1>8, <1>11, <1>12, <2>1, PlacesParts DEF DocumentsArePublished, PublishedDocument
<1>16. NumbersAreDrawn'
  <2>1. n <= sequence
    BY <1>1, <1>2, PlacesParts DEF CommitProfile, PlacesInv, NumbersAreDrawn
  <2>2. \A d \in Contributions \ {c} : contributor[d].pc = "commit" =>
          contributor[d].place # p /\ contributor[d].number # n
    BY <1>1, <1>2 DEF CommitProfile, PlacesInv, NumbersAreDrawn
  <2>3. \A d \in Contributions : contributor'[d].pc = "commit" =>
          d # c /\ contributor'[d] = contributor[d]
    BY <1>6, <1>10
  <2>4. ch.sequence = n /\ ch.place = p
    BY <1>7
  <2> QED BY <1>8, <2>1, <2>2, <2>3, <2>4 DEF PlacesInv, NumbersAreDrawn
<1>17. ProjectionsAreSound'
  <2>1. ASSUME NEW d \in Contributions PROVE SoundCall(contributor[d])'
    <3>1. contributor[d] \in Calls /\ SoundCall(contributor[d])
      BY SoundCalls
    <3>2. \A e \in contributor[d].names : Recorded(e)'
      BY <1>11, <3>1 DEF SoundCall, Calls
    <3>3. CASE d = c
      BY <1>6, <1>9, <1>10, <3>2, <3>3, PlaceParameters DEF SoundCall
    <3>4. CASE d # c
      <4>1. contributor'[d] = contributor[d]
        BY <1>10, <3>4
      <4>2. contributor[d].place \in Places => contributor[d].place # None
        BY PlaceParameters
      <4> QED BY <1>12, <3>1, <3>2, <4>1 DEF SoundCall, Calls
    <3> QED BY <3>3, <3>4
  <2>2. rebuild.names \subseteq Contributions /\ \A q \in Places : rebuild.found[q] \in Nat
    BY PlacesParts DEF Rebuilds
  <2>3. \A q \in Places : rebuild.found[q] <= Current(q)'
    BY <1>12, <2>2 DEF PlacesInv, ProjectionsAreSound
  <2> QED BY <1>8, <1>11, <2>1, <2>2, <2>3 DEF PlacesInv, ProjectionsAreSound, SoundCall
<1>18. CommitsAreEligible'
  <2>1. ASSUME NEW d \in Contributions, contributor'[d].pc = "commit"
        PROVE  status[contributor[d].place] = "active" /\ Eligible(d, contributor[d].place)'
    <3>1. contributor'[d] = contributor[d] /\ d # c /\ contributor[d].pc = "commit"
      BY <1>6, <1>10, <2>1
    <3>2. contributor[d].place \in Places \ {p}
      BY <1>1, <3>1, SoundCalls DEF CommitProfile, PlacesInv, NumbersAreDrawn, SoundCall, Calls
    <3>3. status[contributor[d].place] = "active" /\ Eligible(d, contributor[d].place)
      BY <3>1 DEF PlacesInv, CommitsAreEligible
    <3>4. profile'[contributor[d].place] = profile[contributor[d].place]
      BY <1>9, <3>2
    <3> QED BY <1>8, <3>1, <3>3, <3>4 DEF Eligible, NewRevision, Latest, Current, Belongs
  <2>2. \A d \in Contributions : contributor'[d].pc = "commit" => contributor'[d] = contributor[d]
    BY <1>6, <1>10
  <2>3. status[p] = "active" /\ ch.place = p
    BY <1>1, <1>7 DEF CommitProfile, PlacesInv, CommitsAreEligible
  <2> QED BY <1>8, <2>1, <2>2, <2>3 DEF PlacesInv, CommitsAreEligible, Known
<1>19. IsFiniteSet(changes') /\ RebuildShows'
  <2>1. IsFiniteSet(changes')
    BY <1>8, FS_AddElement DEF PlacesInv
  <2>2. RebuildShows'
    BY <1>8 DEF PlacesInv, RebuildShows, Shown
  <2> QED BY <2>1, <2>2
<1> QED BY <1>8, <1>13, <1>14, <1>15, <1>16, <1>17, <1>18, <1>19, IdentitiesStay DEF PlacesInv

LEMMA ContributionInv ==
  ASSUME PlacesInv, NEW c \in Contributions, ContributionStep(c) PROVE PlacesInv'
  BY StartInv, ReturnInv, ExistingInv, ReadNamesInv, WriteInv, ActivateInv, CommitInv
     DEF ContributionStep

-----------------------------------------------------------------------------
(* The rebuild.                                                            *)

SoundRebuild(r) ==
  /\ \A p \in Places : r.found[p] <= Current(p)
  /\ r.pc = "write" => r.place # None
  /\ \A e \in r.names : Recorded(e)

LEMMA SoundRebuilds ==
  ASSUME PlacesInv PROVE rebuild \in Rebuilds /\ SoundRebuild(rebuild)
  BY PlacesParts DEF PlacesInv, ProjectionsAreSound, SoundRebuild
LEMMA RebuildFrame ==
  ASSUME PlacesInv, NEW r \in Rebuilds, rebuild' = r, SoundRebuild(r),
         RebuildOnly, failures' \in Nat, RebuildShows',
         document' \in [Places -> Documents], \A q \in Places : PublishedDocument(q, document'[q])
  PROVE  PlacesInv'
<1>1. PlacesTypeOK'
  BY PlacesParts, IdentitiesStay DEF RebuildOnly, PlacesInv, PlacesTypeOK
<1>2. FeedIsOrdered' /\ NumbersAreDrawn'
  BY DEF RebuildOnly, PlacesInv, FeedIsOrdered, NumbersAreDrawn, Current
<1>3. DocumentsArePublished'
  BY DEF RebuildOnly, DocumentsArePublished, PublishedDocument, Current, Recorded
<1>4. ProjectionsAreSound'
  BY DEF RebuildOnly, PlacesInv, ProjectionsAreSound, SoundRebuild, Current, Recorded
<1>5. CommitsAreEligible'
  BY DEF RebuildOnly, PlacesInv, CommitsAreEligible, Eligible, NewRevision, Latest, Current, Belongs,
         Known
<1>6. IsFiniteSet(changes')
  BY DEF RebuildOnly, PlacesInv
<1> QED BY <1>1, <1>2, <1>3, <1>4, <1>5, <1>6, IdentitiesStay DEF RebuildOnly, PlacesInv

(* Steps of the rebuild that write no document.                            *)
LEMMA RebuildReads ==
  ASSUME PlacesInv, rebuild' \in Rebuilds, RebuildOnly, UNCHANGED document, failures' \in Nat,
         SoundRebuild(rebuild'), RebuildShows'
  PROVE  PlacesInv'
<1>1. PICK r \in Rebuilds : r = rebuild'
  OBVIOUS
<1> QED BY <1>1, RebuildFrame, PlacesParts

(* What the documents show of a change they still show when none changes.  *)
LEMMA ShownStays ==
  ASSUME RebuildOnly, UNCHANGED document, NEW ch PROVE Shown(ch)' <=> Shown(ch)
  BY DEF RebuildOnly, Shown

Rest(after) == {ch \in changes : ch.sequence > after}
Below(after, n) == {e \in Rest(after) : e.sequence < n}

LEMMA PageCounts == \A after : PageOf(after) = {ch \in Rest(after) :
                      Cardinality(Below(after, ch.sequence)) < PageSize}
  BY DEF PageOf, Rest, Below

LEMMA BelowCounted ==
  ASSUME PlacesInv, NEW after, NEW n
  PROVE  IsFiniteSet(Below(after, n)) /\ Cardinality(Below(after, n)) \in Nat
<1>1. Below(after, n) \in SUBSET changes
  BY DEF Below, Rest
<1> QED BY <1>1, FS_Subset, FS_CardinalityType DEF PlacesInv

(* A page has every change up to its last one.                             *)
LEMMA PageIsPrefix ==
  ASSUME PlacesInv, NEW after \in Nat, NEW last \in PageOf(after), NEW ch \in changes,
         ch.sequence > after, ch.sequence <= last.sequence
  PROVE  ch \in PageOf(after)
<1>1. last \in Rest(after) /\ Cardinality(Below(after, last.sequence)) < PageSize
  BY PageCounts
<1>2. Below(after, ch.sequence) \in SUBSET Below(after, last.sequence)
  <2>1. ch.sequence \in Nat /\ last.sequence \in Nat
    BY <1>1, PlaceOfChange DEF Rest
  <2>2. \A e \in Rest(after) : e.sequence \in Nat
    BY PlaceOfChange DEF Rest
  <2> QED BY <2>1, <2>2 DEF Below
<1>3. Cardinality(Below(after, ch.sequence)) <= Cardinality(Below(after, last.sequence))
  BY <1>2, BelowCounted, FS_Subset
<1>4. Cardinality(Below(after, ch.sequence)) < PageSize
  BY <1>1, <1>3, BelowCounted, PlaceParameters
<1> QED BY <1>4, PageCounts DEF Rest

(* While changes are left, the first of them is on the page: below it in   *)
(* the feed there is nothing.                                              *)
LEMMA EmptyPageIsEnd ==
  ASSUME PlacesInv, NEW after \in Nat, PageOf(after) = {}
  PROVE  \A ch \in changes : ch.sequence <= after
<1> SUFFICES ASSUME Rest(after) # {} PROVE FALSE
  BY PlaceOfChange DEF Rest
<1> DEFINE S == Rest(after)
           T == {Below(after, ch.sequence) : ch \in S}
           R == StrictSubsetOrdering(S)
<1>1. T \subseteq FiniteSubsetsOf(S) /\ T # {}
  <2>1. ASSUME NEW ch \in S PROVE Below(after, ch.sequence) \in FiniteSubsetsOf(S)
    <3>1. Below(after, ch.sequence) \in SUBSET S
      BY DEF Below
    <3>2. IsFiniteSet(Below(after, ch.sequence))
      BY BelowCounted
    <3> QED BY <3>1, <3>2 DEF FiniteSubsetsOf
  <2> QED BY <2>1
<1>2. IsWellFoundedOn(R, FiniteSubsetsOf(S))
  BY FS_StrictSubsetOrderingWellFounded
<1>3. PICK B \in T : \A C \in T : <<C, B>> \notin R
  <2> HIDE DEF T, R
  <2> QED BY <1>1, <1>2, WFMin
<1>4. PICK ch \in S : B = Below(after, ch.sequence)
  OBVIOUS
<1>5. B # {}
  <2>1. ~(Cardinality(B) < PageSize)
    BY <1>4, PageCounts
  <2> QED BY <2>1, FS_EmptySet, PlaceParameters
<1>6. PICK e \in B : TRUE
  BY <1>5
<1>7. e \in S /\ e.sequence \in Nat /\ ch.sequence \in Nat /\ e.sequence < ch.sequence
  BY <1>4, <1>6, PlaceOfChange DEF Below, Rest
<1>8. /\ Below(after, e.sequence) \subseteq B /\ e \notin Below(after, e.sequence)
      /\ Below(after, e.sequence) \in SUBSET S /\ B \in SUBSET S
  <2>1. \A x \in Rest(after) : x.sequence \in Nat
    BY PlaceOfChange DEF Rest
  <2> QED BY <1>4, <1>7, <2>1 DEF Below
<1>9. <<Below(after, e.sequence), B>> \in R
  BY <1>6, <1>8 DEF StrictSubsetOrdering
<1> QED BY <1>3, <1>7, <1>9

LEMMA StartRebuildInv ==
  ASSUME PlacesInv, StartRebuild PROVE PlacesInv'
<1>1. rebuild' \in Rebuilds /\ SoundRebuild(rebuild')
  BY PlacesParts DEF StartRebuild, Rebuilding, Rebuilds, SoundRebuild
<1>2. RebuildShows'
  <2>1. \A ch \in changes : ~(ch.sequence <= 0)
    BY PlacesParts DEF Changes
  <2> QED BY <2>1 DEF StartRebuild, Rebuilding, RebuildOnly, RebuildShows
<1> QED BY <1>2, <1>1, RebuildReads, PlacesParts DEF StartRebuild

LEMMA EndRebuildInv ==
  ASSUME PlacesInv, FinishRebuild \/ RebuildBreaks PROVE PlacesInv'
<1>1. rebuild' = NoRebuild
  BY DEF FinishRebuild, RebuildBreaks
<1>2. SoundRebuild(rebuild')
  BY <1>1, PlacesParts DEF NoRebuild, Rebuilding, SoundRebuild
<1>3. RebuildShows'
  BY <1>1 DEF NoRebuild, Rebuilding, RebuildShows
<1> QED BY <1>1, <1>2, <1>3, RebuildBlank, RebuildReads, PlacesParts
       DEF FinishRebuild, RebuildBreaks

LEMMA ReadPageStep ==
  ASSUME PlacesInv, ReadPage
  PROVE  \E last \in PageOf(rebuild.after), due \in SUBSET Places :
           /\ due = {ch.place : ch \in PageOf(rebuild.after)} /\ last.sequence \in Nat
           /\ rebuild' = [rebuild EXCEPT !.pc = "read", !.last = last.sequence, !.due = due]
<1>1. PICK last \in PageOf(rebuild.after) :
        rebuild' = [rebuild EXCEPT !.pc = "read", !.last = last.sequence,
                                   !.due = PlacesOn(PageOf(rebuild.after))]
  BY DEF ReadPage
<1>2. PageOf(rebuild.after) \in SUBSET Changes
  BY PlacesParts DEF PageOf
<1>3. last.sequence \in Nat /\ PlacesOn(PageOf(rebuild.after)) \in SUBSET Places
  BY <1>2 DEF PlacesOn, Changes
<1>4. PlacesOn(PageOf(rebuild.after)) = {ch.place : ch \in PageOf(rebuild.after)}
  BY DEF PlacesOn
<1> QED BY <1>1, <1>3, <1>4

LEMMA ReadPageInv ==
  ASSUME PlacesInv, ReadPage PROVE PlacesInv'
<1>0. RebuildOnly /\ UNCHANGED document
  BY DEF ReadPage
<1>1. PICK last \in PageOf(rebuild.after), due \in SUBSET Places :
        /\ due = {ch.place : ch \in PageOf(rebuild.after)} /\ last.sequence \in Nat
        /\ rebuild' = [rebuild EXCEPT !.pc = "read", !.last = last.sequence, !.due = due]
  BY ReadPageStep
<1>3. rebuild' \in Rebuilds /\ SoundRebuild(rebuild')
  BY <1>1, SoundRebuilds DEF Rebuilds, SoundRebuild
<1>4. /\ rebuild'.pc = "read" /\ rebuild'.last = last.sequence /\ rebuild'.since = rebuild.since
      /\ rebuild'.due = due /\ rebuild.after \in Nat
  BY <1>1, SoundRebuilds DEF Rebuilds
<1>5. ASSUME NEW ch \in rebuild.since, ch.sequence <= last.sequence
      PROVE  Shown(ch) \/ ch.place \in rebuild'.due
  <2>1. ch \in changes
    BY DEF PlacesInv, RebuildShows
  <2>2. CASE ch.sequence <= rebuild.after
    BY <2>2 DEF ReadPage, PlacesInv, RebuildShows
  <2>3. CASE ch.sequence > rebuild.after
    BY <1>1, <1>4, <1>5, <2>1, <2>3, PageIsPrefix
  <2> QED BY <1>4, <2>1, <2>2, <2>3, PlaceOfChange
<1>6. RebuildShows'
  BY <1>0, <1>4, <1>5, ShownStays DEF PlacesInv, RebuildShows, RebuildOnly
<1> QED BY <1>3, <1>6, RebuildReads, PlacesParts DEF ReadPage

LEMMA ReadProfilesInv ==
  ASSUME PlacesInv, ReadProfiles PROVE PlacesInv'
<1> DEFINE due == {p \in rebuild.due : status[p] = "active"}
           found == [p \in Places |-> IF p \in rebuild.due /\ status[p] = "active"
                                      THEN Current(p) ELSE 0]
<1>1. rebuild' = [rebuild EXCEPT !.pc = "project", !.due = due, !.found = found]
  BY SoundRebuilds DEF ReadProfiles, Rebuilds
<1>2. due \in SUBSET Places
  BY SoundRebuilds DEF Rebuilds
<1>3. found \in [Places -> Nat] /\ \A p \in Places : found[p] <= Current(p)
  BY PlacesParts
<1>5. \A p \in rebuild.due : status[p] = "active" => p \in due /\ found[p] = Current(p)
  BY SoundRebuilds DEF Rebuilds
<1> HIDE DEF due, found
<1>0. RebuildOnly /\ UNCHANGED document
  BY DEF ReadProfiles
<1>4. rebuild' \in Rebuilds /\ SoundRebuild(rebuild')
  BY <1>1, <1>2, <1>3, SoundRebuilds DEF Rebuilds, SoundRebuild
<1>6. /\ rebuild'.pc = "project" /\ rebuild'.last = rebuild.last /\ rebuild'.since = rebuild.since
      /\ rebuild'.due = due /\ rebuild'.found = found
  BY <1>1, SoundRebuilds DEF Rebuilds
<1>7. ASSUME NEW ch \in rebuild.since, ch.sequence <= rebuild.last
      PROVE  Shown(ch) \/ (ch.place \in due /\ ch.revision <= found[ch.place])
  <2>1. ch \in changes
    BY DEF PlacesInv, RebuildShows
  <2>2. ch.place \in Places /\ ch.revision <= Current(ch.place)
    BY <2>1, PlaceOfChange DEF PlacesInv, FeedIsOrdered
  <2>3. Shown(ch) \/ ch.place \in rebuild.due
    BY <1>7 DEF ReadProfiles, PlacesInv, RebuildShows
  <2> QED BY <1>5, <2>2, <2>3 DEF Shown
<1>8. RebuildShows'
  BY <1>0, <1>6, <1>7, ShownStays DEF PlacesInv, RebuildShows, RebuildOnly
<1> QED BY <1>4, <1>8, RebuildReads, PlacesParts DEF ReadProfiles

LEMMA RebuildNamesInv ==
  ASSUME PlacesInv, NEW p \in Places, RebuildNames(p) PROVE PlacesInv'
<1>1. PICK names \in SUBSET Contributions : names = NamesOf(p) /\ \A e \in names : Recorded(e)
  BY NamesRecorded
<1>2. rebuild' = [rebuild EXCEPT !.pc = "write", !.place = p, !.names = names]
  BY <1>1 DEF RebuildNames
<1>3. rebuild' \in Rebuilds /\ SoundRebuild(rebuild')
  BY <1>1, <1>2, SoundRebuilds, PlaceParameters DEF Rebuilds, SoundRebuild
<1>4. /\ rebuild'.pc = "write" /\ rebuild'.last = rebuild.last /\ rebuild'.since = rebuild.since
      /\ rebuild'.due = rebuild.due /\ rebuild'.found = rebuild.found /\ rebuild'.place = p
  BY <1>2, SoundRebuilds DEF Rebuilds
<1>5. RebuildOnly /\ UNCHANGED document
  BY DEF RebuildNames
<1>6. RebuildShows'
  BY <1>4, <1>5, ShownStays DEF PlacesInv, RebuildShows, RebuildOnly, RebuildNames
<1> QED BY <1>3, <1>6, RebuildReads, PlacesParts DEF RebuildNames

LEMMA RebuildWritesInv ==
  ASSUME PlacesInv, RebuildWrites PROVE PlacesInv'
<1>1. rebuild \in Rebuilds /\ SoundRebuild(rebuild)
  BY SoundRebuilds
<1>2. PICK p \in Places : p = rebuild.place
  BY <1>1 DEF RebuildWrites, SoundRebuild, Rebuilds
<1>3. /\ document' \in [Places -> Documents]
      /\ \A q \in Places : PublishedDocument(q, document'[q])
      /\ \A q \in Places : document[q].revision <= document'[q].revision
      /\ rebuild.found[p] <= document'[p].revision
  <2>1. rebuild.found[p] \in Nat /\ rebuild.names \in SUBSET Contributions
    BY <1>1 DEF Rebuilds
  <2>2. rebuild.found[p] <= Current(p) /\ \A e \in rebuild.names : Recorded(e)
    BY <1>1 DEF SoundRebuild
  <2>3. Project(p, rebuild.found[p], rebuild.names)
    BY <1>2 DEF RebuildWrites
  <2> QED BY <2>1, <2>2, <2>3, ProjectPublished
<1>4. PICK found \in [Places -> Nat] : found = [rebuild.found EXCEPT ![p] = 0]
  BY <1>1 DEF Rebuilds
<1>5. PICK r \in Rebuilds :
        r = [rebuild EXCEPT !.pc = "project", !.due = rebuild.due \ {p}, !.place = None,
                            !.names = {}, !.found = found]
  BY <1>1 DEF Rebuilds
<1>6. rebuild' = r
  BY <1>1, <1>2, <1>4, <1>5 DEF RebuildWrites, Rebuilds
<1>7. SoundRebuild(r)
  <2>1. r.pc = "project" /\ r.names = {} /\ r.found = found
    BY <1>1, <1>5 DEF Rebuilds
  <2>2. \A q \in Places : found[q] <= Current(q)
    BY <1>1, <1>4, PlacesParts DEF SoundRebuild, Rebuilds
  <2> QED BY <2>1, <2>2 DEF SoundRebuild
<1>8. /\ r.pc = "project" /\ r.last = rebuild.last /\ r.since = rebuild.since
      /\ r.due = rebuild.due \ {p} /\ r.found = found
  BY <1>1, <1>5 DEF Rebuilds
<1>9. ASSUME NEW ch \in rebuild.since, ch.sequence <= rebuild.last
      PROVE  Shown(ch)' \/ (ch.place \in r.due /\ ch.revision <= found[ch.place])
  <2>1. ch.place \in Places /\ ch.revision \in Nat /\ status' = status
    BY PlaceOfChange DEF PlacesInv, RebuildShows, RebuildWrites, RebuildOnly
  <2>2. /\ document[ch.place].revision \in Nat /\ document'[ch.place].revision \in Nat
        /\ rebuild.found[ch.place] \in Nat
    BY <1>1, <1>3, <2>1, PlacesParts DEF Documents, Rebuilds
  <2>3. Shown(ch) \/ (ch.place \in rebuild.due /\ ch.revision <= rebuild.found[ch.place])
    BY <1>9 DEF RebuildWrites, PlacesInv, RebuildShows
  <2>4. Shown(ch) => Shown(ch)'
    BY <1>3, <2>1, <2>2 DEF Shown
  <2>5. CASE ch.place \in rebuild.due /\ ch.revision <= rebuild.found[ch.place]
    <3>1. CASE ch.place = p
      BY <1>3, <2>1, <2>2, <2>5, <3>1 DEF Shown
    <3>2. CASE ch.place # p
      BY <1>1, <1>4, <1>8, <2>1, <2>5, <3>2 DEF Rebuilds
    <3> QED BY <3>1, <3>2
  <2> QED BY <2>3, <2>4, <2>5
<1>10. RebuildShows'
  BY <1>6, <1>8, <1>9 DEF PlacesInv, RebuildShows, RebuildWrites, RebuildOnly
<1> QED BY <1>3, <1>6, <1>7, <1>10, RebuildFrame, PlacesParts DEF RebuildWrites

LEMMA NextPageInv ==
  ASSUME PlacesInv, NextPage PROVE PlacesInv'
<1>1. rebuild' \in Rebuilds /\ SoundRebuild(rebuild')
  BY SoundRebuilds DEF NextPage, Rebuilds, SoundRebuild
<1>2. rebuild'.pc = "page" /\ rebuild'.after = rebuild.last /\ rebuild'.since = rebuild.since
  BY SoundRebuilds DEF NextPage, Rebuilds
<1>3. RebuildOnly /\ UNCHANGED document
  BY DEF NextPage
<1>4. RebuildShows'
  BY <1>2, <1>3, ShownStays DEF PlacesInv, RebuildShows, RebuildOnly, NextPage
<1> QED BY <1>1, <1>4, RebuildReads, PlacesParts DEF NextPage

LEMMA RebuildInv ==
  ASSUME PlacesInv, RebuildStep PROVE PlacesInv'
  BY StartRebuildInv, EndRebuildInv, ReadPageInv, ReadProfilesInv, RebuildNamesInv,
     RebuildWritesInv, NextPageInv DEF RebuildStep

LEMMA StutterInv ==
  ASSUME PlacesInv, UNCHANGED placeVars PROVE PlacesInv'
<1>1. SoundRebuild(rebuild) /\ rebuild \in Rebuilds
  BY SoundRebuilds
<1>2. RebuildShows'
  BY DEF PlacesInv, RebuildShows, Shown
<1> QED BY <1>1, <1>2, RebuildReads, PlacesParts DEF RebuildOnly, SoundRebuild, Recorded, Current

(* Every reachable state of the catalog: no redirect turns in a circle,    *)
(* the feed has every revision in order, search shows only what was        *)
(* published, and what a publication activated is still eligible when it   *)
(* commits.                                                                *)
THEOREM PlacesInvariant == PlacesSpec => []PlacesInv
<1>1. PlacesInit => PlacesInv
  BY PlacesInitInv
<1>2. PlacesInv /\ [PlacesNext]_placeVars => PlacesInv'
  BY ResolutionInv, ContributionInv, RebuildInv, StutterInv DEF PlacesNext
<1> QED BY <1>1, <1>2, PTL DEF PlacesSpec

LEMMA DocumentsAdvance ==
  ASSUME PlacesInv, PlacesNext, NEW p \in Places
  PROVE  document'[p].revision >= document[p].revision
<1>1. document[p].revision \in Nat
  BY PlacesParts
<1>2. CASE UNCHANGED document
  BY <1>1, <1>2
<1>3. ASSUME NEW c \in Contributions, WriteDocument(c)
      PROVE  document'[p].revision >= document[p].revision
  <2>1. /\ contributor[c] \in Calls /\ SoundCall(contributor[c])
        /\ contributor[c].place \in Places
    BY <1>3, SoundCalls DEF SoundCall, WriteDocument, Calls
  <2>2. /\ contributor[c].number \in Nat /\ contributor[c].names \in SUBSET Contributions
        /\ contributor[c].number <= Current(contributor[c].place)
        /\ \A e \in contributor[c].names : Recorded(e)
    BY <1>3, <2>1 DEF SoundCall, WriteDocument, Calls
  <2>3. document' \in [Places -> Documents] /\ document[p].revision <= document'[p].revision
    BY <1>3, <2>1, <2>2, ProjectPublished DEF WriteDocument
  <2>4. document'[p].revision \in Nat
    BY <2>3 DEF Documents
  <2> QED BY <1>1, <2>3, <2>4
<1>4. CASE RebuildWrites
  <2>1. rebuild \in Rebuilds /\ SoundRebuild(rebuild) /\ rebuild.place \in Places
    BY <1>4, SoundRebuilds DEF RebuildWrites, SoundRebuild, Rebuilds
  <2>2. /\ rebuild.found[rebuild.place] \in Nat /\ rebuild.names \in SUBSET Contributions
        /\ rebuild.found[rebuild.place] <= Current(rebuild.place)
        /\ \A e \in rebuild.names : Recorded(e)
    BY <2>1 DEF SoundRebuild, Rebuilds
  <2>3. document' \in [Places -> Documents] /\ document[p].revision <= document'[p].revision
    BY <1>4, <2>1, <2>2, ProjectPublished DEF RebuildWrites
  <2>4. document'[p].revision \in Nat
    BY <2>3 DEF Documents
  <2> QED BY <1>1, <2>3, <2>4
<1>5. UNCHANGED document \/ RebuildWrites \/ \E c \in Contributions : WriteDocument(c)
  <2>1. ASSUME NEW d \in Decisions, ResolutionStep(d)
        PROVE  UNCHANGED document
    BY <2>1 DEF ResolutionStep, RetirePlace, Refuse, MergePlaces, CreatePlace, LinkIdentity,
                SplitIdentity, Decide
  <2>2. ASSUME NEW c \in Contributions, ContributionStep(c)
        PROVE  UNCHANGED document \/ WriteDocument(c)
    BY <2>2 DEF ContributionStep, StartContribution, ContributeExisting, ActivateProfile,
                CommitProfile, ContributionFails, ReadNames, ContributionBreaks
  <2>3. CASE RebuildStep
    BY <2>3 DEF RebuildStep, StartRebuild, ReadPage, ReadProfiles, NextPage, FinishRebuild,
                RebuildBreaks, RebuildNames
  <2> QED BY <2>1, <2>2, <2>3 DEF PlacesNext
<1> QED BY <1>2, <1>3, <1>4, <1>5

(* Who writes the profiles, and who writes the rebuild.                    *)
LEMMA DecisionFrame ==
  ASSUME NEW d, ResolutionStep(d) PROVE UNCHANGED <<profile, rebuild>>
<1>1. \A places, outcome : Decide(d, places, outcome) => UNCHANGED <<profile, rebuild>>
  BY DEF Decide, catalog
<1> QED BY <1>1 DEF ResolutionStep, RetirePlace, Refuse, MergePlaces, CreatePlace, LinkIdentity,
                    SplitIdentity

LEMMA ContributionFrame ==
  ASSUME NEW c, ContributionStep(c)
  PROVE  UNCHANGED rebuild /\ (UNCHANGED profile \/ CommitProfile(c))
<1>1. CASE StartContribution(c) \/ ContributionFails(c) \/ ReadNames(c) \/ ContributionBreaks(c)
  BY <1>1 DEF StartContribution, ContributionFails, ReadNames, ContributionBreaks, catalog
<1>2. CASE ContributeExisting(c) \/ ActivateProfile(c)
  BY <1>2 DEF ContributeExisting, ActivateProfile
<1>3. CASE CommitProfile(c)
  BY <1>3 DEF CommitProfile
<1>4. CASE WriteDocument(c)
  BY <1>4 DEF WriteDocument, catalog
<1> QED BY <1>1, <1>2, <1>3, <1>4 DEF ContributionStep

LEMMA RebuildProfiles ==
  ASSUME RebuildStep PROVE UNCHANGED profile
  BY DEF RebuildStep, StartRebuild, ReadPage, ReadProfiles, RebuildWrites, NextPage,
         FinishRebuild, RebuildBreaks, RebuildNames, RebuildOnly, catalog

LEMMA RevisionsAdvance ==
  ASSUME PlacesInv, PlacesNext, NEW p \in Places, profile'[p] # profile[p]
  PROVE  /\ Current(p)' = Current(p) + 1
         /\ SubSeq(profile'[p], 1, Current(p)) = profile[p]
         /\ \A e \in profile'[p][Current(p)'].evidence : Belongs(e, p)
<1>1. PICK c \in Contributions : CommitProfile(c)
  BY DecisionFrame, ContributionFrame, RebuildProfiles DEF PlacesNext
<1>2. PICK q \in Places : q = contributor[c].place
  BY <1>1, SoundCalls DEF CommitProfile, SoundCall, Calls
<1>3. PICK r \in Revisions : r = NewRevision(c, q)
  BY EvidenceType
<1>4. profile' = [profile EXCEPT ![q] = Append(@, r)]
  BY <1>1, <1>2, <1>3 DEF CommitProfile
<1>5. p = q
  BY <1>4, AppendProfile
<1>6. \A e \in r.evidence : Belongs(e, q)
  BY <1>1, <1>2, <1>3 DEF CommitProfile, PlacesInv, CommitsAreEligible, Eligible
<1>7. profile'[p][Current(p)'] = r
  BY <1>4, <1>5, AppendProfile
<1> QED BY <1>4, <1>5, <1>6, <1>7, AppendProfile

(* Profiles only grow, each revision from evidence of the place's own      *)
(* identities, and search never falls back to an earlier one.              *)
THEOREM ProfilesOnlyAdvance == PlacesSpec => ProfilesAdvance
<1>1. PlacesInv /\ [PlacesNext]_placeVars =>
        [\A p \in Places :
           /\ document'[p].revision >= document[p].revision
           /\ profile'[p] # profile[p] =>
                /\ Current(p)' = Current(p) + 1
                /\ SubSeq(profile'[p], 1, Current(p)) = profile[p]
                /\ \A e \in profile'[p][Current(p)'].evidence : Belongs(e, p)]_placeVars
  BY DocumentsAdvance, RevisionsAdvance
<1> QED BY <1>1, PlacesInvariant, PTL DEF PlacesSpec, ProfilesAdvance

(* A rebuild that comes to its end has shown every change that was         *)
(* published when it started.                                              *)
THEOREM RebuildsCover == PlacesSpec => RebuildCovers
<1>1. ASSUME PlacesInv, PlacesNext, rebuild.pc = "page", rebuild'.pc = "idle",
             failures' = failures, NEW ch \in rebuild.since, status[ch.place] = "active"
      PROVE  document[ch.place].revision >= ch.revision
  <2>1. CASE FinishRebuild
    <3>1. ch \in changes /\ rebuild.after \in Nat
      BY <1>1, SoundRebuilds DEF PlacesInv, RebuildShows, Rebuilds
    <3>2. ch.sequence <= rebuild.after
      BY <1>1, <2>1, <3>1, EmptyPageIsEnd DEF FinishRebuild
    <3> QED BY <1>1, <3>2 DEF PlacesInv, RebuildShows, Shown
  <2>2. CASE RebuildBreaks
    BY <1>1, <2>2, PlacesParts DEF RebuildBreaks
  <2>3. CASE ReadPage
    <3>1. PICK n, due : rebuild' = [rebuild EXCEPT !.pc = "read", !.last = n, !.due = due]
      BY <1>1, <2>3, ReadPageStep
    <3>2. rebuild'.pc = "read"
      BY <1>1, <3>1, SoundRebuilds DEF Rebuilds
    <3> QED BY <1>1, <3>2
  <2>4. UNCHANGED rebuild \/ FinishRebuild \/ RebuildBreaks \/ ReadPage
    <3>1. rebuild' = rebuild \/ RebuildStep
      BY <1>1, DecisionFrame, ContributionFrame DEF PlacesNext
    <3>2. ~StartRebuild /\ ~ReadProfiles
      BY <1>1 DEF StartRebuild, ReadProfiles
    <3>3. ~RebuildWrites /\ ~NextPage
      BY <1>1 DEF RebuildWrites, NextPage
    <3>4. ~ \E p \in Places : RebuildNames(p)
      BY <1>1 DEF RebuildNames
    <3> QED BY <3>1, <3>2, <3>3, <3>4 DEF RebuildStep
  <2> QED BY <1>1, <2>1, <2>2, <2>3, <2>4
<1>2. PlacesInv /\ [PlacesNext]_placeVars =>
        [rebuild.pc = "page" /\ rebuild'.pc = "idle" /\ failures' = failures =>
           \A ch \in rebuild.since :
             status[ch.place] = "active" => document[ch.place].revision >= ch.revision]_placeVars
  BY <1>1
<1> QED BY <1>2, PlacesInvariant, PTL DEF PlacesSpec, RebuildCovers


-----------------------------------------------------------------------------
(* Chains of redirects.                                                    *)

LEMMA LeastOf ==
  ASSUME NEW S \in SUBSET Nat, S # {}
  PROVE  \E m \in S : \A k \in S : m <= k
<1> DEFINE T == {1..m : m \in S}
           R == StrictSubsetOrdering(Nat)
<1>1. T # {} /\ T \subseteq FiniteSubsetsOf(Nat)
  <2>1. \A m \in S : 1..m \in SUBSET Nat /\ IsFiniteSet(1..m)
    BY FS_Interval
  <2> QED BY <2>1 DEF FiniteSubsetsOf
<1>2. IsWellFoundedOn(R, FiniteSubsetsOf(Nat))
  BY FS_StrictSubsetOrderingWellFounded
<1>3. PICK B \in T : \A C \in T : <<C, B>> \notin R
  <2> HIDE DEF T, R
  <2> QED BY <1>1, <1>2, WFMin
<1>4. PICK m \in S : B = 1..m
  OBVIOUS
<1>5. ASSUME NEW k \in S, k < m PROVE FALSE
  <2>1. 1..k \subseteq B /\ m \in B /\ m \notin 1..k
    BY <1>4, <1>5
  <2>2. 1..k \in SUBSET Nat /\ B \in SUBSET Nat
    BY <1>4
  <2>3. <<1..k, B>> \in R
    BY <2>1, <2>2 DEF StrictSubsetOrdering
  <2> QED BY <1>3, <2>3
<1> QED BY <1>5

(* End is well defined as long as redirects lead to places.                *)
Row(n, before) ==
  [q \in Places |-> IF n = 0 \/ status[q] # "redirected" THEN q ELSE before[redirect[q]]]

Follows(f, m) == f = [n \in 0..m |-> Row(n, f[n - 1])]

LEMMA RowsExist == \A m \in Nat : \E f : Follows(f, m)
<1> DEFINE S == {m \in Nat : ~ \E f : Follows(f, m)}
<1> SUFFICES ASSUME S # {} PROVE FALSE
  OBVIOUS
<1>1. PICK m \in S : \A k \in S : m <= k
  <2> HIDE DEF S
  <2>1. S \in SUBSET Nat
    BY DEF S
  <2> QED BY <2>1, LeastOf
<1>2. CASE m = 0
  <2> DEFINE f == [n \in 0..0 |-> Row(0, <<>>)]
  <2>1. Follows(f, 0)
    BY DEF Follows, Row
  <2> QED BY <1>1, <1>2, <2>1
<1>3. CASE m # 0
  <2>1. m - 1 \in Nat /\ m - 1 \notin S
    BY <1>1, <1>3
  <2>2. PICK g : Follows(g, m - 1)
    BY <2>1
  <2> DEFINE f == [n \in 0..m |-> IF n = m THEN Row(m, g[m - 1]) ELSE g[n]]
  <2>3. ASSUME NEW n \in 0..m PROVE f[n] = Row(n, f[n - 1])
    <3>1. CASE n = m
      <4>1. f[n - 1] = g[m - 1]
        BY <3>1, <1>3, <2>1
      <4> QED BY <3>1, <4>1
    <3>2. CASE n # m /\ n # 0
      <4>1. n \in 0..m - 1 /\ n - 1 \in 0..m /\ n - 1 # m /\ n # m
        BY <3>2, <2>1
      <4>2. f[n] = g[n] /\ f[n - 1] = g[n - 1]
        BY <4>1
      <4>3. g[n] = Row(n, g[n - 1])
        BY <2>2, <4>1 DEF Follows
      <4> QED BY <4>2, <4>3
    <3>3. CASE n = 0
      <4>1. f[n] = g[0] /\ 0 \in 0..m - 1
        BY <3>3, <1>3, <2>1
      <4>2. g[0] = Row(0, g[0 - 1])
        BY <2>2, <4>1 DEF Follows
      <4>3. Row(0, g[0 - 1]) = Row(0, f[0 - 1])
        BY DEF Row
      <4> QED BY <3>3, <4>1, <4>2, <4>3
    <3> QED BY <3>1, <3>2, <3>3
  <2>4. Follows(f, m)
    <3>1. f = [n \in 0..m |-> f[n]]
      OBVIOUS
    <3> HIDE DEF f
    <3> QED BY <3>1, <2>3 DEF Follows
  <2> QED BY <1>1, <2>4
<1> QED BY <1>2, <1>3

LEMMA EndRows ==
  ASSUME NEW n \in 0..Cardinality(Places), NEW q \in Places
  PROVE  End[n][q] = IF n = 0 \/ status[q] # "redirected" THEN q ELSE End[n - 1][redirect[q]]
<1> DEFINE N == Cardinality(Places)
           Is(f) == f = [k \in 0..N |-> [r \in Places |->
                      IF k = 0 \/ status[r] # "redirected" THEN r ELSE f[k - 1][redirect[r]]]]
<1>1. N \in Nat
  BY PlaceParameters, FS_CardinalityType
<1>2. \E f : Is(f)
  BY <1>1, RowsExist DEF Follows, Row
<1>3. Is(End)
  <2>1. End = CHOOSE f : Is(f)
    BY DEF End
  <2> HIDE DEF Is
  <2> QED BY <1>2, <2>1
<1>4. End[n] = [r \in Places |->
                 IF n = 0 \/ status[r] # "redirected" THEN r ELSE End[n - 1][redirect[r]]]
  <2> HIDE DEF N
  <2> QED BY <1>3 DEF N
<1> QED BY <1>4

(* Redirected places from which n redirects do not lead to an end.  There  *)
(* are fewer with every redirect, for one of them leads out of the rest.   *)
Open(n) == {q \in Places : status[End[n][q]] = "redirected"}

LEMMA OpenShrinks ==
  ASSUME PlacesInv
  PROVE  \A n \in 0..Cardinality(Places) :
           /\ \A q \in Places : End[n][q] \in Places /\ (Known(q) => Known(End[n][q]))
           /\ Cardinality(Open(n)) <= Cardinality(Places) - n
<1> DEFINE N == Cardinality(Places)
           Good(n) == /\ \A q \in Places : End[n][q] \in Places /\ (Known(q) => Known(End[n][q]))
                      /\ Cardinality(Open(n)) <= N - n
                      /\ n # 0 => Open(n) \subseteq Open(n - 1)
           S == {n \in 0..N : ~ Good(n)}
<1> SUFFICES ASSUME S # {} PROVE FALSE
  OBVIOUS
<1>0. N \in Nat
  BY PlaceParameters, FS_CardinalityType
<1>1. PICK n \in S : \A k \in S : n <= k
  <2> HIDE DEF S
  <2>1. S \in SUBSET Nat
    BY DEF S
  <2> QED BY <2>1, LeastOf
<1>2. \A k \in 0..N : Open(k) \subseteq Places /\ IsFiniteSet(Open(k))
        /\ Cardinality(Open(k)) \in Nat /\ Cardinality(Open(k)) <= N
  <2>1. \A k : Open(k) \in SUBSET Places
    BY DEF Open
  <2> QED BY <2>1, PlaceParameters, FS_Subset, FS_CardinalityType
<1>3. n # 0
  <2>1. SUFFICES ASSUME n = 0 PROVE Good(0)
    BY <1>1
  <2>2. \A q \in Places : End[0][q] = q
    BY <1>0, EndRows
  <2> QED BY <1>0, <1>2, <2>2
<1>4. n - 1 \in 0..N /\ Good(n - 1) /\ n \in 0..N
  <2>1. n - 1 \in 0..N /\ n - 1 \notin S
    BY <1>0, <1>1, <1>3
  <2> QED BY <2>1, <1>1
<1>5. RedirectsEnd /\ redirect \in [Places -> Places \cup {None}]
  BY DEF PlacesInv, PlacesTypeOK
<1>6. \A q \in Places : End[n][q] = IF status[q] # "redirected" THEN q ELSE End[n - 1][redirect[q]]
  BY <1>3, <1>4, EndRows
<1>7. \A q \in Places : status[q] = "redirected" => redirect[q] \in Places /\ Known(redirect[q])
  BY <1>5 DEF RedirectsEnd
<1>8. \A q \in Places : End[n][q] \in Places /\ (Known(q) => Known(End[n][q]))
  BY <1>4, <1>6, <1>7
<1>9. \A q \in Places : q \in Open(n) => status[q] = "redirected" /\ redirect[q] \in Open(n - 1)
  BY <1>6, <1>7 DEF Open
<1>10. Open(n) \subseteq Open(n - 1)
  <2> SUFFICES ASSUME NEW q \in Places, q \in Open(n) PROVE q \in Open(n - 1)
    BY <1>2, <1>4
  <2>1. status[q] = "redirected" /\ redirect[q] \in Open(n - 1)
    BY <1>9
  <2>2. CASE n - 1 = 0
    <3>1. End[n - 1][q] = q
      BY <1>4, <2>2, EndRows
    <3> QED BY <2>1, <3>1 DEF Open
  <2>3. CASE n - 1 # 0
    <3>1. redirect[q] \in Open(n - 2)
      <4>1. (n - 1) - 1 = n - 2
        BY <1>0, <1>4
      <4> QED BY <1>4, <2>1, <2>3, <4>1
    <3>2. End[n - 1][q] = End[n - 2][redirect[q]]
      <4>1. (n - 1) - 1 = n - 2
        BY <1>0, <1>4
      <4> QED BY <1>4, <2>1, <2>3, <4>1, EndRows
    <3> QED BY <3>1, <3>2 DEF Open
  <2> QED BY <2>2, <2>3
<1>11. CASE Open(n) = {}
  <2>1. Cardinality(Open(n)) = 0
    BY <1>11, FS_EmptySet
  <2> QED BY <1>0, <1>1, <1>4, <1>8, <1>10, <2>1
<1>12. CASE Open(n) # {}
  <2>1. Open(n) \in (SUBSET Redirected) \ {{}}
    BY <1>2, <1>4, <1>9, <1>12 DEF Redirected
  <2>2. PICK p \in Open(n) : redirect[p] \notin Open(n)
    BY <1>5, <2>1, RedirectParts DEF Left
  <2>3. Open(n) # Open(n - 1)
    BY <1>2, <1>4, <1>9, <2>2
  <2>4. Cardinality(Open(n)) <= Cardinality(Open(n - 1))
        /\ Cardinality(Open(n)) # Cardinality(Open(n - 1))
    BY <1>2, <1>4, <1>10, <2>3, FS_Subset
  <2>5. Cardinality(Open(n)) <= N - n
    BY <1>0, <1>2, <1>4, <2>4
  <2> QED BY <1>1, <1>4, <1>8, <1>10, <2>5
<1> QED BY <1>11, <1>12

(* References that were kept anywhere resolve to a place that is active or *)
(* was retired itself, however many merges have come since.                *)
THEOREM ReferencesAlwaysResolve == PlacesSpec => []ReferencesResolve
<1>1. PlacesInv => ReferencesResolve
  <2> SUFFICES ASSUME PlacesInv, NEW p \in Places, Known(p)
               PROVE  status[Survivor(p)] \in {"active", "retired"}
    BY DEF ReferencesResolve
  <2> DEFINE N == Cardinality(Places)
  <2>1. N \in Nat /\ N \in 0..N
    BY PlaceParameters, FS_CardinalityType
  <2>2. Survivor(p) \in Places /\ Known(Survivor(p)) /\ Cardinality(Open(N)) <= 0
    BY <2>1, OpenShrinks DEF Survivor
  <2>3. IsFiniteSet(Open(N)) /\ Cardinality(Open(N)) \in Nat
    <3>1. Open(N) \in SUBSET Places
      BY DEF Open
    <3> QED BY <3>1, PlaceParameters, FS_Subset, FS_CardinalityType
  <2>4. Open(N) = {}
    <3>1. Cardinality(Open(N)) = 0
      BY <2>2, <2>3
    <3> QED BY <2>3, <3>1, FS_EmptySet
  <2>5. status[Survivor(p)] # "redirected"
    BY <2>4 DEF Open, Survivor
  <2>6. status \in [Places -> Statuses]
    BY DEF PlacesInv, PlacesTypeOK
  <2> QED BY <2>2, <2>5, <2>6 DEF Statuses, Known
<1> QED BY <1>1, PlacesInvariant, PTL
=============================================================================
