----------------------- MODULE ImportMaterialization -----------------------
(***************************************************************************)
(* One approved import plan on its way into the member's Library: the      *)
(* transfer operation and its commands, the leased workers that apply the  *)
(* plan's source lists in source order, the canonical places they create   *)
(* and contribute facts to, and the Library transaction each list ends in. *)
(*                                                                         *)
(* Every database transaction of the code is one action.  A worker's pc    *)
(* stands between two transactions, so what it read in one may be stale in *)
(* the next.                                                               *)
(***************************************************************************)
EXTENDS Integers, FiniteSets

CONSTANTS
  Workers,          \* worker processes
  WorkerName,       \* the workerId each is configured with; replicas may share one
  NumLists,         \* source lists of the plan, numbered in source order
  Items,            \* the plan's policy-create items
  ItemList,         \* the source list of an item
  Identities,       \* provider place identities
  ItemIdentity,     \* the provider identity of an item
  Listed,           \* items with facts for the shared catalog
  OtherPlaces,      \* canonical places the plan does not propose itself
  Collections,      \* target collections
  Target,           \* target collection of a list
  TargetKind,       \* "new" or "existing"
  PriorBinding,     \* binding revision a list had when the plan was drafted, 0 for none
  Elsewhere,        \* a collection outside the plan
  NoWorker, NoItem, NoPlace,
  MaxFaults,        \* bound: crashes, transient errors and stalls past a lease
  MaxResumes,       \* bound: resume commands
  MaxInterference,  \* bound: the member's own Library writes
  MaxReviews,       \* bound: canonical decisions taken elsewhere
  MaxClaims         \* bound: claims after which no back-off ends any more

Lists == 1..NumLists

(* The place an item proposes has a deterministic id of its own: the item. *)
Places == Items \cup OtherPlaces

ItemsOf(l) == {i \in Items : ItemList[i] = l}

ASSUME ParameterTypes ==
  /\ WorkerName \in [Workers -> STRING]
  /\ NumLists \in Nat \ {0}
  /\ ItemList \in [Items -> Lists]
  /\ ItemIdentity \in [Items -> Identities]
  /\ Listed \subseteq Items
  /\ Target \in [Lists -> Collections]
  /\ TargetKind \in [Lists -> {"new", "existing"}]
  /\ PriorBinding \in [Lists -> Nat]
  /\ Items \cap OtherPlaces = {}

ASSUME NullsAreFresh ==
  /\ \A w \in Workers : WorkerName[w] # NoWorker
  /\ NoItem \notin Items
  /\ NoPlace \notin Places
  /\ Elsewhere \notin Collections

(* A plan draft binds a list to one collection: a new target is shared by  *)
(* no other list and has never been bound.                                 *)
ASSUME DraftsAreValid ==
  \A l \in Lists : TargetKind[l] = "new" =>
    /\ PriorBinding[l] = 0
    /\ \A m \in Lists : Target[m] = Target[l] => m = l

ASSUME BoundsAreNatural ==
  {MaxFaults, MaxResumes, MaxInterference, MaxReviews, MaxClaims} \subseteq Nat

VARIABLES
  opState,          \* operations.state; "none" before the plan is approved
  cancelRequested,  \* operations.cancel_requested
  lastError,        \* operations.last_error_retryable: "none", "retryable", "final"
  leaseOwner, leaseGeneration,
  leaseExpired,     \* lease_expires_at <= now
  attemptDue,       \* next_attempt_at <= now
  planState,        \* import_plans.state
  mapping,          \* import_plan_mappings: state and recorded collection version
  checkpoint,       \* operation_items.canonical_place_id of the policy-create items
  decision,         \* applied_resolution_decisions outcome of an item's create-place
  identityPlace,    \* provider_place_identities
  placeStatus,      \* canonical_places.status, "absent" before creation
  survivor,         \* where canonical_place_redirects lead from a place in the end
  splits,           \* the splits in canonical_place_lineage_events: identity, source
  asserted,         \* the place for which the facts of an item are on record
  revision,         \* library.collections.revision, 0 when there is no such collection
  members,          \* library.collection_places
  binding,          \* library.import_source_list_bindings
  receipt,          \* library.operation_receipts_v2 of a list's materialization operation
  pc, gen, known, versions, at, todo, item, place, request, outcome,
                    \* the locals of a worker's runOnce
  fresh, seen,      \* whether the member's view has the current revision, and what it shows
  faults, resumes, interference, reviews

operation == <<opState, cancelRequested, lastError>>
lease == <<leaseOwner, leaseGeneration, leaseExpired, attemptDue>>
plan == <<planState, mapping, checkpoint>>
identities == <<decision, identityPlace, placeStatus, survivor, splits>>
canonical == <<identities, asserted>>
library == <<revision, members, binding, receipt>>
locals == <<gen, known, versions, at, todo, item, place, request, outcome>>
member == <<fresh, seen>>
bounds == <<faults, resumes, interference, reviews>>
vars == <<operation, lease, plan, canonical, library, pc, locals, member, bounds>>

-----------------------------------------------------------------------------
Active == {"queued", "running", "retry-scheduled"}
Final == {"completed", "cancelled", "failed"}
OpStates == {"none", "partial-failure"} \cup Active \cup Final
PlanStates == {"draft", "applying", "blocked", "completed", "cancelled"}
MappingStates == {"pending", "applied", "rejected"}
Rejections == {"not-found", "version-conflict", "binding-version-conflict",
               "operation-id-reused"}

(* Where a worker has an item in hand.                                     *)
Placed == {"survivor", "contribute", "checkpoint"}
Resolving == {"lookup"} \cup Placed
PCs == {"idle", "load", "next", "acknowledge", "resolve", "place", "items", "library",
        "record", "block", "failing", "inactive", "violated"} \cup Resolving

MappingRows == [state : MappingStates, version : Nat]
NoBinding == [collection |-> Elsewhere, revision |-> 0]
Bindings == [collection : Collections \cup {Elsewhere}, revision : Nat]

(* What the Library's fingerprint of a materialization covers beyond the   *)
(* mapping's constants: the expected version and the place of each item.   *)
Request(version, places) == [expected |-> version, places |-> places]
NoRequest == Request(0, [i \in Items |-> NoPlace])
Requests == [expected : Nat, places : [Items -> Places \cup {NoPlace}]]
NoReceipt == [code |-> "none", request |-> NoRequest, version |-> 0]
Receipts == [code : {"none", "applied"} \cup Rejections, request : Requests, version : Nat]
NoOutcome == [code |-> "none", version |-> 0]
Outcomes == [code : {"none", "applied"} \cup Rejections, version : Nat]

NothingKnown == [l \in Lists |-> [state |-> "pending", version |-> 0]]
NoVersions == [c \in Collections |-> 0]

(* What lock() and state() look for: the row still runs under this claim.  *)
Holds(w) ==
  opState = "running" /\ leaseOwner = WorkerName[w] /\ leaseGeneration = gen[w]

(* Mutant: a worker is not told of a cancellation.                         *)
NeverCancelled == FALSE

(* What lock() returns.                                                    *)
LockSaysCancelled == cancelRequested

(* Mutant: any failure may be retried.                                     *)
AllowedActionsAnyFailure(state, cancelling, error) ==
  IF cancelling THEN {}
  ELSE IF state \in Active THEN {"cancel"}
  ELSE IF state = "partial-failure" THEN {"resume", "cancel"}
  ELSE IF state = "failed" THEN {"retry"}
  ELSE {}
AllowedActions(state, cancelling, error) ==
  IF cancelling THEN {}
  ELSE IF state \in Active THEN {"cancel"}
  ELSE IF state = "partial-failure" THEN {"resume", "cancel"}
  ELSE IF state = "failed" /\ error = "retryable" THEN {"retry"}
  ELSE {}

-----------------------------------------------------------------------------
Init ==
  /\ opState = "none" /\ cancelRequested = FALSE /\ lastError = "none"
  /\ leaseOwner = NoWorker /\ leaseGeneration = 0
  /\ leaseExpired = FALSE /\ attemptDue = FALSE
  /\ planState = "draft"
  /\ mapping = NothingKnown
  /\ checkpoint = [i \in Items |-> NoPlace]
  /\ decision = [i \in Items |-> "none"]
  /\ identityPlace = [x \in Identities |-> NoPlace]
  /\ placeStatus \in [Places -> {"absent", "active"}]
  /\ \A i \in Items : placeStatus[i] = "absent"
  /\ survivor = [p \in Places |-> p]
  /\ splits = {}
  /\ asserted = [i \in Items |-> NoPlace]
  /\ revision = [c \in Collections |->
                   IF \E l \in Lists : Target[l] = c /\ TargetKind[l] = "existing"
                   THEN 1 ELSE 0]
  /\ members = [c \in Collections |-> {}]
  /\ binding = [l \in Lists |-> IF PriorBinding[l] = 0 THEN NoBinding
                                ELSE [collection |-> Target[l], revision |-> PriorBinding[l]]]
  /\ receipt = [l \in Lists |-> NoReceipt]
  /\ pc = [w \in Workers |-> "idle"]
  /\ gen = [w \in Workers |-> 0]
  /\ known = [w \in Workers |-> NothingKnown]
  /\ versions = [w \in Workers |-> NoVersions]
  /\ at = [w \in Workers |-> 1]
  /\ todo = [w \in Workers |-> {}]
  /\ item = [w \in Workers |-> NoItem]
  /\ place = [w \in Workers |-> NoPlace]
  /\ request = [w \in Workers |-> NoRequest]
  /\ outcome = [w \in Workers |-> NoOutcome]
  /\ fresh = FALSE /\ seen = [state |-> "none", cancelling |-> FALSE, error |-> "none"]
  /\ faults = 0 /\ resumes = 0 /\ interference = 0 /\ reviews = 0

-----------------------------------------------------------------------------
(* The member: approval, reading the operation, and its commands.          *)

(* Mutant: a write leaves the revision as it was.                          *)
RevisionKept == UNCHANGED member

(* Every write of the operation but a heartbeat moves its revision.        *)
NewRevision == fresh' = FALSE /\ UNCHANGED seen

(* ImportPlanApproval.approve inserts the queued operation and its items;  *)
(* the operation's id follows from the plan's and is a primary key.        *)
Approve ==
  /\ planState = "draft" /\ opState = "none"
  /\ planState' = "applying"
  /\ opState' = "queued"
  /\ NewRevision
  /\ UNCHANGED <<cancelRequested, lastError, lease, mapping, checkpoint, canonical, library,
                 pc, locals, bounds>>

(* GET of the operation: its revision and the actions it offers.           *)
ReadOperation ==
  /\ opState # "none" /\ ~fresh
  /\ fresh' = TRUE
  /\ seen' = [state |-> opState, cancelling |-> cancelRequested, error |-> lastError]
  /\ UNCHANGED <<operation, lease, plan, canonical, library, pc, locals, bounds>>

(* A command names the revision it saw; a stale one is a revision-conflict *)
(* and changes nothing.                                                    *)
Commanded(action) ==
  /\ fresh
  /\ action \in AllowedActions(opState, cancelRequested, lastError)
  /\ NewRevision
  /\ lastError' = "none" /\ attemptDue' = FALSE

Cancel ==
  /\ Commanded("cancel")
  /\ cancelRequested' = TRUE
  /\ IF opState = "running"
       THEN UNCHANGED <<opState, planState>>     \* deferred to the worker that runs it
       ELSE opState' = "cancelled" /\ planState' = "cancelled"
  /\ UNCHANGED <<leaseOwner, leaseGeneration, leaseExpired, mapping, checkpoint, canonical,
                 library, pc, locals, bounds>>

Requeue ==
  /\ \E action \in {"resume", "retry"} : Commanded(action)
  /\ resumes < MaxResumes
  /\ resumes' = resumes + 1
  /\ cancelRequested' = FALSE
  /\ opState' = "queued" /\ planState' = "applying"
  /\ UNCHANGED <<leaseOwner, leaseGeneration, leaseExpired, mapping, checkpoint, canonical,
                 library, pc, locals, faults, interference, reviews>>

-----------------------------------------------------------------------------
(* The worker.  Forget(w) drops what run() held; Idle(w) also its claim:   *)
(* runOnce returned, or the process went down and came back.               *)

Forget(w) ==
  /\ known' = [known EXCEPT ![w] = NothingKnown]
  /\ versions' = [versions EXCEPT ![w] = NoVersions]
  /\ at' = [at EXCEPT ![w] = 1]
  /\ todo' = [todo EXCEPT ![w] = {}]
  /\ item' = [item EXCEPT ![w] = NoItem]
  /\ place' = [place EXCEPT ![w] = NoPlace]
  /\ request' = [request EXCEPT ![w] = NoRequest]
  /\ outcome' = [outcome EXCEPT ![w] = NoOutcome]

Goto(w, label) == pc' = [pc EXCEPT ![w] = label]

Idle(w) == Goto(w, "idle") /\ gen' = [gen EXCEPT ![w] = 0] /\ Forget(w)

ReleaseLease ==
  /\ leaseOwner' = NoWorker /\ leaseExpired' = FALSE
  /\ UNCHANGED <<leaseGeneration, attemptDue>>

FinishCancellation ==
  /\ opState' = "cancelled" /\ planState' = "cancelled"
  /\ ReleaseLease /\ NewRevision
  /\ UNCHANGED <<cancelRequested, lastError>>

Claimable ==
  \/ opState = "queued"
  \/ opState = "retry-scheduled" /\ attemptDue
  \/ opState = "running" /\ leaseExpired

(* An expired run whose member asked to cancel ends in the claim.          *)
ClaimCancelled(w) ==
  /\ pc[w] = "idle" /\ Claimable /\ cancelRequested
  /\ FinishCancellation
  /\ UNCHANGED <<mapping, checkpoint, canonical, library, pc, locals, bounds>>

(* Mutant: a decision once given stands for good.                          *)
NeverReopened(row) == row
Reopened(row) ==
  IF row.state = "rejected" THEN [state |-> "pending", version |-> row.version] ELSE row

Claim(w) ==
  /\ pc[w] = "idle" /\ Claimable /\ ~cancelRequested
  /\ opState' = "running"
  /\ lastError' = "none"
  /\ leaseOwner' = WorkerName[w]
  /\ leaseGeneration' = leaseGeneration + 1
  /\ leaseExpired' = FALSE /\ attemptDue' = FALSE
  /\ mapping' = [l \in Lists |-> Reopened(mapping[l])]
  /\ gen' = [gen EXCEPT ![w] = leaseGeneration + 1]
  /\ NewRevision
  /\ Goto(w, "load")
  /\ UNCHANGED <<cancelRequested, planState, checkpoint, canonical, library, known, versions,
                 at, todo, item, place, request, outcome, bounds>>

(* run() reads every mapping once, before the first list.                  *)
LoadMappings(w) ==
  /\ pc[w] = "load"
  /\ known' = [known EXCEPT ![w] = mapping]
  /\ Goto(w, "next")
  /\ UNCHANGED <<operation, lease, plan, canonical, library, gen, versions, at, todo, item,
                 place, request, outcome, member, bounds>>

(* The head of the loop over lists: PostgresImportLease.state, then what   *)
(* the snapshot of the mappings says about this list.                      *)
CheckLease(w) ==
  /\ pc[w] = "next" /\ at[w] \in Lists
  /\ IF ~Holds(w) THEN Idle(w)
     ELSE /\ IF cancelRequested
               THEN Goto(w, "acknowledge") /\ UNCHANGED <<versions, at>>
             ELSE IF known[w][at[w]].state = "applied"
               THEN /\ versions' = [versions EXCEPT ![w][Target[at[w]]] =
                                      known[w][at[w]].version]
                    /\ at' = [at EXCEPT ![w] = at[w] + 1]
                    /\ UNCHANGED pc
             ELSE Goto(w, "resolve") /\ UNCHANGED <<versions, at>>
          /\ UNCHANGED <<gen, known, todo, item, place, request, outcome>>
  /\ UNCHANGED <<operation, lease, plan, canonical, library, member, bounds>>

AcknowledgeCancel(w) ==
  /\ pc[w] = "acknowledge"
  /\ Idle(w)
  /\ IF Holds(w) THEN FinishCancellation
                 ELSE UNCHANGED <<operation, lease, planState, member>>
  /\ UNCHANGED <<mapping, checkpoint, canonical, library, bounds>>

(* Mutant: what has a decision is taken for resolved.                      *)
UndecidedItems(l) == {i \in ItemsOf(l) : decision[i] = "none"}
(* policyCreateRows: the items of the list that have no checkpoint yet.    *)
OpenItems(l) == {i \in ItemsOf(l) : checkpoint[i] = NoPlace}

ReadPolicyRows(w) ==
  /\ pc[w] = "resolve"
  /\ todo' = [todo EXCEPT ![w] = OpenItems(at[w])]
  /\ Goto(w, IF OpenItems(at[w]) = {} THEN "items" ELSE "place")
  /\ UNCHANGED <<operation, lease, plan, canonical, library, gen, known, versions, at, item,
                 place, request, outcome, member, bounds>>

(* Mutant: a created place is not linked to its identity.                  *)
CreateUnlinked(i) ==
  IF decision[i] # "none" THEN UNCHANGED canonical
  ELSE /\ decision' = [decision EXCEPT ![i] = "applied"]
       /\ identityPlace' = [identityPlace EXCEPT ![ItemIdentity[i]] = i]
       /\ placeStatus' = [placeStatus EXCEPT ![i] = "active"]
       /\ UNCHANGED <<survivor, splits, asserted>>
(* create-place, once per decision id: a prior decision is a replay, a     *)
(* linked identity is left as it is.                                       *)
ApplyCreatePlace(i) ==
  IF decision[i] # "none" THEN UNCHANGED canonical
  ELSE IF identityPlace[ItemIdentity[i]] # NoPlace
    THEN /\ decision' = [decision EXCEPT ![i] = "identity-already-linked"]
         /\ UNCHANGED <<identityPlace, placeStatus, survivor, splits, asserted>>
    ELSE /\ decision' = [decision EXCEPT ![i] = "applied"]
         /\ identityPlace' = [identityPlace EXCEPT ![ItemIdentity[i]] = i]
         /\ placeStatus' = [placeStatus EXCEPT ![i] = "active"]
         /\ UNCHANGED <<survivor, splits, asserted>>

CreatePlace(w) ==
  /\ pc[w] = "place"
  /\ \E i \in todo[w] :
       /\ item' = [item EXCEPT ![w] = i]
       /\ ApplyCreatePlace(i)
  /\ Goto(w, "lookup")
  /\ UNCHANGED <<operation, lease, plan, library, gen, known, versions, at, todo, place,
                 request, outcome, member, bounds>>

(* resolveProviderIdentity: the place of the identity at this moment; none *)
(* is a final error.                                                       *)
LookUpIdentity(w) ==
  /\ pc[w] = "lookup"
  /\ LET p == identityPlace[ItemIdentity[item[w]]] IN
       /\ place' = [place EXCEPT ![w] = p]
       /\ Goto(w, IF p = NoPlace THEN "inactive" ELSE "survivor")
  /\ UNCHANGED <<operation, lease, plan, canonical, library, gen, known, versions, at, todo,
                 item, request, outcome, member, bounds>>

(* resolve, a query of its own: the redirects are followed from the place  *)
(* that was read; a retired end is a final error.                          *)
ResolvePlace(w) ==
  /\ pc[w] = "survivor"
  /\ LET p == survivor[place[w]] IN
       IF placeStatus[p] = "active"
         THEN /\ place' = [place EXCEPT ![w] = p]
              /\ Goto(w, IF item[w] \in Listed THEN "contribute" ELSE "checkpoint")
         ELSE Goto(w, "inactive") /\ UNCHANGED place
  /\ UNCHANGED <<operation, lease, plan, canonical, library, gen, known, versions, at, todo,
                 item, request, outcome, member, bounds>>

(* publishMinimumProfile takes facts for an active place of the identity;  *)
(* the fingerprint of facts on record names their place.                   *)
Publishable(i, p) ==
  /\ placeStatus[p] = "active" /\ identityPlace[ItemIdentity[i]] = p
  /\ asserted[i] \in {NoPlace, p}

(* A new profile carries older evidence over, which is no longer eligible  *)
(* if it is of an identity that was split away.                            *)
EvidenceMayHaveLeft(p) == \E x \in Identities : <<x, p>> \in splits

(* The search document that is written after it is in CanonicalPlaces.     *)
ContributeFacts(w) ==
  /\ pc[w] = "contribute" /\ Publishable(item[w], place[w])
  /\ asserted' = [asserted EXCEPT ![item[w]] = place[w]]
  /\ Goto(w, "checkpoint")
  /\ UNCHANGED <<operation, lease, plan, identities, library, locals, member, bounds>>

(* A plain error: the worker takes it for one that a retry may get over.   *)
ContributionFails(w) ==
  /\ pc[w] = "contribute"
  /\ ~Publishable(item[w], place[w]) \/ EvidenceMayHaveLeft(place[w])
  /\ Goto(w, "failing") /\ UNCHANGED gen /\ Forget(w)
  /\ UNCHANGED <<operation, lease, plan, canonical, library, member, bounds>>

Checkpointed(w) == [checkpoint EXCEPT ![item[w]] = place[w]]

(* checkpoint: the item's place is kept even when the operation ends here. *)
WriteCheckpoint(w) ==
  /\ pc[w] = "checkpoint"
  /\ IF ~Holds(w)
       THEN Idle(w) /\ UNCHANGED <<operation, lease, planState, checkpoint, member>>
     ELSE IF \/ mapping[at[w]].state = "applied"
             \/ checkpoint[item[w]] \notin {NoPlace, place[w]}
       THEN /\ Goto(w, "violated")
            /\ UNCHANGED <<operation, lease, planState, checkpoint, locals, member>>
     ELSE /\ checkpoint' = Checkpointed(w)
          /\ IF LockSaysCancelled THEN FinishCancellation /\ Idle(w)
             ELSE /\ todo' = [todo EXCEPT ![w] = @ \ {item[w]}]
                  /\ item' = [item EXCEPT ![w] = NoItem]
                  /\ place' = [place EXCEPT ![w] = NoPlace]
                  /\ Goto(w, IF todo[w] = {item[w]} THEN "items" ELSE "place")
                  /\ UNCHANGED <<operation, lease, planState, gen, known, versions, at,
                                 request, outcome, member>>
  /\ UNCHANGED <<mapping, canonical, library, bounds>>

(* Mutant: the revision found now is expected, not the planned one.        *)
ExpectedAsFound(w) == revision[Target[at[w]]]
(* The version an existing target is expected at: what the previous list   *)
(* of this run left there, or what the member approved.                    *)
ExpectedVersion(w) ==
  IF TargetKind[at[w]] = "new" THEN 0
  ELSE IF versions[w][Target[at[w]]] # 0 THEN versions[w][Target[at[w]]] ELSE 1

ReadItems(w) ==
  /\ pc[w] = "items"
  /\ IF \E i \in ItemsOf(at[w]) : checkpoint[i] = NoPlace
       THEN Goto(w, "violated") /\ UNCHANGED request
       ELSE /\ request' = [request EXCEPT ![w] = Request(ExpectedVersion(w),
                 [i \in Items |-> IF i \in ItemsOf(at[w]) THEN checkpoint[i] ELSE NoPlace])]
            /\ Goto(w, "library")
  /\ UNCHANGED <<operation, lease, plan, canonical, library, gen, known, versions, at, todo,
                 item, place, outcome, member, bounds>>

-----------------------------------------------------------------------------
(* The Library transaction.  It holds no row of the operation: a worker    *)
(* whose lease is gone can still commit it.                                *)

Verdict(l, r) ==
  LET c == Target[l] IN
  IF \/ binding[l] # NoBinding /\ binding[l].collection # c
     \/ PriorBinding[l] # 0 /\ binding[l].revision # PriorBinding[l]
    THEN "binding-version-conflict"
  ELSE IF TargetKind[l] = "new" /\ binding[l] = NoBinding
    THEN IF revision[c] # 0 THEN "not-found" ELSE "applied"
  ELSE IF revision[c] = 0 THEN "not-found"
  ELSE IF TargetKind[l] = "existing" /\ r.expected # revision[c] THEN "version-conflict"
  ELSE "applied"

(* The collection's revision after the list is applied: 1 when it is       *)
(* created, one more when a membership is added, unchanged otherwise.      *)
AppliedRevision(l, delivered) ==
  IF revision[Target[l]] = 0 THEN 1
  ELSE IF delivered \subseteq members[Target[l]] THEN revision[Target[l]]
  ELSE revision[Target[l]] + 1

Deliver(l, r) ==
  LET c == Target[l]
      delivered == {r.places[i] : i \in ItemsOf(l)}
  IN /\ revision' = [revision EXCEPT ![c] = AppliedRevision(l, delivered)]
     /\ members' = [members EXCEPT ![c] = @ \cup delivered]
     /\ binding' = [binding EXCEPT ![l] = [collection |-> c, revision |-> @.revision + 1]]
     /\ receipt' = [receipt EXCEPT ![l] = [code |-> "applied", request |-> r,
                      version |-> AppliedRevision(l, delivered)]]

Answer(w, code, version) ==
  /\ outcome' = [outcome EXCEPT ![w] = [code |-> code, version |-> version]]
  /\ Goto(w, IF code = "applied" THEN "record" ELSE "block")

(* Mutant: the Library forgets the answer it gave.                         *)
NeverAnswered(l) == FALSE
Answered(l) == receipt[l].code # "none"

MaterializeList(w) ==
  /\ pc[w] = "library"
  /\ LET l == at[w]
         r == request[w]
         verdict == Verdict(l, r)
     IN IF Answered(l)
          THEN /\ UNCHANGED library
               /\ IF receipt[l].request # r THEN Answer(w, "operation-id-reused", 0)
                  ELSE Answer(w, receipt[l].code, receipt[l].version)
        ELSE IF verdict = "applied"
          THEN /\ Deliver(l, r)
               /\ Answer(w, "applied", AppliedRevision(l, {r.places[i] : i \in ItemsOf(l)}))
        ELSE /\ receipt' = [receipt EXCEPT ![l] =
                              [code |-> verdict, request |-> r, version |-> 0]]
             /\ UNCHANGED <<revision, members, binding>>
             /\ Answer(w, verdict, 0)
  /\ UNCHANGED <<operation, lease, plan, canonical, gen, known, versions, at, todo, item,
                 place, request, member, bounds>>

-----------------------------------------------------------------------------
(* Recording what the Library answered, and the end of a run.              *)

RecordApplied(w) ==
  /\ pc[w] = "record"
  /\ IF ~Holds(w)
       THEN Idle(w) /\ UNCHANGED <<operation, lease, planState, mapping, member>>
     ELSE /\ mapping' = IF mapping[at[w]].state = "pending"
                        THEN [mapping EXCEPT ![at[w]] =
                                [state |-> "applied", version |-> outcome[w].version]]
                        ELSE mapping
          /\ IF LockSaysCancelled THEN FinishCancellation /\ Idle(w)
             ELSE /\ versions' = [versions EXCEPT ![w][Target[at[w]]] = outcome[w].version]
                  /\ at' = [at EXCEPT ![w] = at[w] + 1]
                  /\ request' = [request EXCEPT ![w] = NoRequest]
                  /\ outcome' = [outcome EXCEPT ![w] = NoOutcome]
                  /\ Goto(w, "next")
                  /\ NewRevision
                  /\ UNCHANGED <<operation, lease, planState, gen, known, todo, item, place>>
  /\ UNCHANGED <<checkpoint, canonical, library, bounds>>

Block(w) ==
  /\ pc[w] = "block"
  /\ Idle(w)
  /\ IF ~Holds(w) THEN UNCHANGED <<operation, lease, planState, mapping, member>>
     ELSE IF LockSaysCancelled THEN FinishCancellation /\ UNCHANGED mapping
     ELSE /\ mapping' = [mapping EXCEPT ![at[w]] =
                          [state |-> "rejected", version |-> @.version]]
          /\ planState' = "blocked"
          /\ opState' = "partial-failure" /\ lastError' = "retryable"
          /\ ReleaseLease /\ NewRevision
          /\ UNCHANGED cancelRequested
  /\ UNCHANGED <<checkpoint, canonical, library, bounds>>

(* Mutant: the import ends one list early.                                 *)
OneListLeft(w) == at[w] = NumLists
NoListLeft(w) == at[w] = NumLists + 1

Complete(w) ==
  /\ pc[w] = "next" /\ NoListLeft(w)
  /\ Idle(w)
  /\ IF ~Holds(w) THEN UNCHANGED <<operation, lease, planState, member>>
     ELSE IF LockSaysCancelled THEN FinishCancellation
     ELSE /\ planState' = "completed" /\ opState' = "completed"
          /\ ReleaseLease /\ NewRevision
          /\ UNCHANGED <<cancelRequested, lastError>>
  /\ UNCHANGED <<mapping, checkpoint, canonical, library, bounds>>

(* recordFailure.  A lost lease makes it throw: the process exits.         *)
RecordFailure(w) ==
  /\ pc[w] \in {"failing", "violated", "inactive"}
  /\ Idle(w)
  /\ IF ~Holds(w) THEN UNCHANGED <<operation, lease, planState, member>>
     ELSE IF LockSaysCancelled THEN FinishCancellation
     ELSE /\ IF pc[w] = "failing"
               THEN /\ opState' = "retry-scheduled" /\ lastError' = "retryable"
                    /\ UNCHANGED planState
               ELSE opState' = "failed" /\ lastError' = "final" /\ planState' = "blocked"
          /\ ReleaseLease /\ NewRevision
          /\ UNCHANGED cancelRequested
  /\ UNCHANGED <<mapping, checkpoint, canonical, library, bounds>>

WorkerStep(w) ==
  \/ ClaimCancelled(w) \/ Claim(w) \/ LoadMappings(w) \/ CheckLease(w)
  \/ AcknowledgeCancel(w) \/ ReadPolicyRows(w) \/ CreatePlace(w) \/ LookUpIdentity(w)
  \/ ResolvePlace(w) \/ ContributeFacts(w) \/ ContributionFails(w) \/ WriteCheckpoint(w)
  \/ ReadItems(w) \/ MaterializeList(w) \/ RecordApplied(w) \/ Block(w)
  \/ Complete(w) \/ RecordFailure(w)

(* The lease is extended only while a call runs under withHeartbeat.       *)
Heartbeat(w) ==
  /\ pc[w] \in {"place", "lookup", "survivor", "contribute", "library"}
  /\ Holds(w) /\ leaseExpired
  /\ leaseExpired' = FALSE
  /\ UNCHANGED <<operation, leaseOwner, leaseGeneration, attemptDue, plan, canonical, library,
                 pc, locals, member, bounds>>

-----------------------------------------------------------------------------
(* Time and failures.                                                      *)

Fault == faults < MaxFaults /\ faults' = faults + 1
              /\ UNCHANGED <<resumes, interference, reviews>>

Crash(w) ==
  /\ pc[w] # "idle" /\ Fault
  /\ Idle(w)
  /\ UNCHANGED <<operation, lease, plan, canonical, library, member>>

(* Any other error of a database call: retryable.                          *)
TransientError(w) ==
  /\ pc[w] \notin {"idle", "failing", "violated", "inactive"} /\ Fault
  /\ Goto(w, "failing") /\ UNCHANGED gen /\ Forget(w)
  /\ UNCHANGED <<operation, lease, plan, canonical, library, member>>

(* A dead worker's lease runs out by itself; a live one's only in a stall. *)
LeaseExpires ==
  /\ opState = "running" /\ ~leaseExpired
  /\ IF \E w \in Workers : pc[w] # "idle" /\ Holds(w) THEN Fault ELSE UNCHANGED bounds
  /\ leaseExpired' = TRUE
  /\ UNCHANGED <<operation, leaseOwner, leaseGeneration, attemptDue, plan, canonical, library,
                 pc, locals, member>>

(* The bound leaves an import unsettled that would try for ever, never one *)
(* settled that would not.                                                 *)
BackoffEnds ==
  /\ opState = "retry-scheduled" /\ ~attemptDue /\ leaseGeneration < MaxClaims
  /\ attemptDue' = TRUE
  /\ UNCHANGED <<operation, leaseOwner, leaseGeneration, leaseExpired, plan, canonical,
                 library, pc, locals, member, bounds>>

-----------------------------------------------------------------------------
(* What others do to the same data meanwhile.                              *)

Interfere == interference < MaxInterference /\ interference' = interference + 1
                  /\ UNCHANGED <<faults, resumes, reviews>>

EditCollection(c) ==
  /\ Interfere /\ revision[c] # 0
  /\ revision' = [revision EXCEPT ![c] = @ + 1]
  /\ UNCHANGED <<operation, lease, plan, canonical, members, binding, receipt, pc, locals, member>>

(* Deleting a collection takes its places and, by cascade, its bindings.   *)
DeleteCollection(c) ==
  /\ Interfere /\ revision[c] # 0
  /\ revision' = [revision EXCEPT ![c] = 0]
  /\ members' = [members EXCEPT ![c] = {}]
  /\ binding' = [l \in Lists |-> IF binding[l].collection = c THEN NoBinding ELSE binding[l]]
  /\ UNCHANGED <<operation, lease, plan, canonical, receipt, pc, locals, member>>

(* Another plan for the same source list reaches the Library first.        *)
OtherImport(l) ==
  /\ Interfere
  /\ binding' = [binding EXCEPT ![l] = [collection |-> @.collection, revision |-> @.revision + 1]]
  /\ UNCHANGED <<operation, lease, plan, canonical, revision, members, receipt, pc, locals, member>>

Review == reviews < MaxReviews /\ reviews' = reviews + 1
               /\ UNCHANGED <<faults, resumes, interference>>

LinkIdentity(x, q) ==
  /\ Review /\ identityPlace[x] = NoPlace /\ placeStatus[q] = "active"
  /\ identityPlace' = [identityPlace EXCEPT ![x] = q]
  /\ UNCHANGED <<operation, lease, plan, decision, placeStatus, survivor, splits, asserted,
                 library, pc, locals, member>>

(* The identities of p move to q, and what led to p leads to q.            *)
MergePlaces(p, q) ==
  /\ Review /\ p # q /\ placeStatus[p] = "active" /\ placeStatus[q] = "active"
  /\ placeStatus' = [placeStatus EXCEPT ![p] = "redirected"]
  /\ survivor' = [r \in Places |-> IF survivor[r] = p THEN q ELSE survivor[r]]
  /\ identityPlace' = [x \in Identities |-> IF identityPlace[x] = p THEN q
                                            ELSE identityPlace[x]]
  /\ UNCHANGED <<operation, lease, plan, decision, splits, asserted, library, pc, locals,
                 member>>

(* One identity moves to a new place; the place it leaves stays active.    *)
SplitIdentity(x, q) ==
  /\ Review /\ placeStatus[q] = "absent"
  /\ identityPlace[x] # NoPlace /\ placeStatus[identityPlace[x]] = "active"
  /\ placeStatus' = [placeStatus EXCEPT ![q] = "active"]
  /\ identityPlace' = [identityPlace EXCEPT ![x] = q]
  /\ splits' = splits \cup {<<x, identityPlace[x]>>}
  /\ UNCHANGED <<operation, lease, plan, decision, survivor, asserted, library, pc, locals,
                 member>>

RetirePlace(p) ==
  /\ Review /\ placeStatus[p] = "active"
  /\ placeStatus' = [placeStatus EXCEPT ![p] = "retired"]
  /\ UNCHANGED <<operation, lease, plan, decision, identityPlace, survivor, splits, asserted,
                 library, pc, locals, member>>

-----------------------------------------------------------------------------
MemberStep == Approve \/ ReadOperation \/ Cancel \/ Requeue

FaultStep == \E w \in Workers : Crash(w) \/ TransientError(w)

OtherStep ==
  \/ \E c \in Collections : EditCollection(c) \/ DeleteCollection(c)
  \/ \E l \in Lists : OtherImport(l)
  \/ \E x \in Identities, q \in OtherPlaces : LinkIdentity(x, q) \/ SplitIdentity(x, q)
  \/ \E p, q \in Places : MergePlaces(p, q)
  \/ \E p \in Places : RetirePlace(p)

Next ==
  \/ \E w \in Workers : WorkerStep(w) \/ Heartbeat(w)
  \/ MemberStep \/ FaultStep \/ OtherStep
  \/ LeaseExpires \/ BackoffEnds

Spec == Init /\ [][Next]_vars

(* The runtime loops over runOnce, and clocks advance; nothing makes a     *)
(* member act.                                                             *)
FairSpec ==
  /\ Spec
  /\ \A w \in Workers : WF_vars(WorkerStep(w))
  /\ WF_vars(LeaseExpires) /\ WF_vars(BackoffEnds)

-----------------------------------------------------------------------------
(* Properties.                                                             *)

OperationType ==
  /\ opState \in OpStates /\ cancelRequested \in BOOLEAN
  /\ lastError \in {"none", "retryable", "final"}
  /\ leaseOwner \in STRING \cup {NoWorker} /\ leaseGeneration \in Nat
  /\ leaseOwner # NoWorker <=> opState = "running"
  /\ leaseExpired \in BOOLEAN /\ attemptDue \in BOOLEAN

PlanType ==
  /\ planState \in PlanStates
  /\ mapping \in [Lists -> MappingRows]
  /\ checkpoint \in [Items -> Places \cup {NoPlace}]

CanonicalType ==
  /\ decision \in [Items -> {"none", "applied", "identity-already-linked"}]
  /\ identityPlace \in [Identities -> Places \cup {NoPlace}]
  /\ placeStatus \in [Places -> {"absent", "active", "redirected", "retired"}]
  /\ survivor \in [Places -> Places]
  /\ splits \subseteq Identities \X Places
  /\ asserted \in [Items -> Places \cup {NoPlace}]

LibraryType ==
  /\ revision \in [Collections -> Nat]
  /\ members \in [Collections -> SUBSET (Places \cup {NoPlace})]
  /\ binding \in [Lists -> Bindings]
  /\ receipt \in [Lists -> Receipts]

WorkerType ==
  /\ pc \in [Workers -> PCs]
  /\ gen \in [Workers -> Nat]
  /\ known \in [Workers -> [Lists -> MappingRows]]
  /\ versions \in [Workers -> [Collections -> Nat]]
  /\ at \in [Workers -> 1..(NumLists + 1)]
  /\ todo \in [Workers -> SUBSET Items]
  /\ item \in [Workers -> Items \cup {NoItem}]
  /\ place \in [Workers -> Places \cup {NoPlace}]
  /\ request \in [Workers -> Requests]
  /\ outcome \in [Workers -> Outcomes]

MemberType ==
  /\ fresh \in BOOLEAN
  /\ seen \in [state : OpStates, cancelling : BOOLEAN, error : {"none", "retryable", "final"}]
  /\ faults \in Nat /\ resumes \in Nat /\ interference \in Nat /\ reviews \in Nat

(* Every variable keeps its shape, and a row is leased exactly while its   *)
(* operation runs.                                                         *)
TypeOK ==
  /\ OperationType /\ PlanType /\ CanonicalType
  /\ LibraryType /\ WorkerType /\ MemberType

(* The plan and its operation are two rows written by different handlers   *)
(* (approve, command, claim, block, complete, recordFailure): they never   *)
(* tell the member two stories.                                            *)
PlanFollowsOperation ==
  planState = CASE opState = "none" -> "draft"
                [] opState \in Active -> "applying"
                [] opState \in {"partial-failure", "failed"} -> "blocked"
                [] OTHER -> opState

(* A cancellation the member was promised is never overtaken: after it the *)
(* operation runs or is cancelled, whatever a worker, a retry or a resume  *)
(* does.                                                                   *)
CancelHonoured == cancelRequested => opState \in {"running", "cancelled"}

(* run() reads the mappings once and trusts them to the end: while a       *)
(* worker holds the lease, what it read of the lists still ahead is what   *)
(* the table says, and every list behind it is applied.                    *)
SnapshotStillTrue ==
  \A w \in Workers : Holds(w) /\ pc[w] \notin {"idle", "load", "failing"} =>
    \A l \in Lists :
      /\ l >= at[w] => mapping[l] = known[w][l]
      /\ l < at[w] => mapping[l].state = "applied"

(* A list the transfer calls applied is one the Library has a receipt of,  *)
(* at the version the receipt names: the two schemas are written in two    *)
(* transactions.                                                           *)
AppliedHasReceipt ==
  \A l \in Lists : mapping[l].state = "applied" =>
    receipt[l].code = "applied" /\ receipt[l].version = mapping[l].version

(* "completed" is said only of an import whose every list reached the      *)
(* Library; a list the Library once refused is never part of one.          *)
CompletedMeansApplied ==
  opState = "completed" => \A l \in Lists :
    mapping[l].state = "applied" /\ receipt[l].code = "applied"

(* A retry, a resume or a stale worker asks the Library for a list with    *)
(* the very request it first made, so a replay is never refused as an id   *)
(* reused, and no checkpoint is contradicted: "import-invariant-violated"  *)
(* is never thrown.                                                        *)
ReplaysAgree ==
  \A w \in Workers : outcome[w].code # "operation-id-reused" /\ pc[w] # "violated"

(* Crashes, takeovers and stale workers never make the import conflict     *)
(* with its own writes: the Library refuses a list only after somebody     *)
(* else wrote there.                                                       *)
NoSelfConflict ==
  interference = 0 => \A l \in Lists : receipt[l].code \in {"none", "applied"}

(* Two items of one provider identity never create two places.             *)
OnePlacePerIdentity ==
  \A i, j \in Items :
    decision[i] = "applied" /\ decision[j] = "applied" /\ ItemIdentity[i] = ItemIdentity[j]
      => i = j

(* Every change of an operation moves its revision, so an action sent with *)
(* the current one is an action the member was offered.                    *)
ViewHonest ==
  fresh => AllowedActions(seen.state, seen.cancelling, seen.error) =
           AllowedActions(opState, cancelRequested, lastError)

(* A finished operation is never reopened.                                 *)
FinalIsFinal ==
  [][(opState \in Final) => (opState' = opState /\ planState' = planState)]_vars

(* The Library is written for a list at most once: whatever changes a      *)
(* collection or a binding is the member's own doing or comes with the     *)
(* first receipt of a list; a receipt is never rewritten.                  *)
LibraryWrittenOnce ==
  [][ /\ \A l \in Lists : receipt[l].code # "none" => receipt'[l] = receipt[l]
      /\ <<revision, members, binding>>' # <<revision, members, binding>> =>
           \/ interference' # interference
           \/ \E l \in Lists : receipt[l].code = "none" /\ receipt'[l].code = "applied"
    ]_vars

(* The identity x stands for p, or did when it was split away: from p, or  *)
(* from a place that redirects lead to, as they lead from p.               *)
StandsFor(x, p) ==
  \/ identityPlace[x] = survivor[p]
  \/ \E s \in Places : <<x, s>> \in splits /\ survivor[s] = survivor[p]

(* The place on record for an item leads to the place of its identity, or  *)
(* to one a reviewer split it away from: lookups that were overtaken,      *)
(* retries and other items of the identity never leave another one there.  *)
CheckpointFollowsIdentity ==
  \A i \in Items : checkpoint[i] # NoPlace => StandsFor(ItemIdentity[i], checkpoint[i])

(* What a list finds in the Library is what it was answered before: the    *)
(* same request under the same receipt, never a conflict with itself.      *)
LibraryAgrees == ReplaysAgree /\ NoSelfConflict

(* One place per identity, and the checkpoints lead where it has been.     *)
IdentitiesAgree == OnePlacePerIdentity /\ CheckpointFollowsIdentity

(* Why the invariants above hold.  A claim numbers its worker as no other, *)
(* shared names or not;                                                    *)
ClaimsAreDistinct ==
  \A w \in Workers :
    /\ pc[w] # "idle" => gen[w] \in 1..leaseGeneration
    /\ \A v \in Workers : pc[w] # "idle" /\ pc[v] # "idle" /\ gen[w] = gen[v] => v = w

(* a worker inside the loop is at a list of the plan, at an item of it     *)
(* while it resolves one, and at a place once the identity is looked up;   *)
InsideTheLoop ==
  \A w \in Workers :
    /\ pc[w] \in {"acknowledge", "resolve", "place", "items", "library", "record", "block"}
                  \cup Resolving => at[w] \in Lists
    /\ pc[w] \in Resolving => item[w] \in Items
    /\ pc[w] \in Placed => place[w] # NoPlace
    /\ pc[w] \in {"idle", "load"} => at[w] = 1

(* and it records as applied only what the receipt says.                   *)
RecordIsBacked ==
  \A w \in Workers : pc[w] = "record" =>
    /\ receipt[at[w]].code = "applied"
    /\ receipt[at[w]].version = outcome[w].version

(* A run starts with every refused list reopened and ends at a refusal.    *)
RunsHaveNoRefusal ==
  opState = "running" => \A l \in Lists : mapping[l].state # "rejected"

(* The inductive invariant of ImportMaterializationProofs.                 *)
IInv ==
  /\ TypeOK /\ PlanFollowsOperation /\ CancelHonoured
  /\ ClaimsAreDistinct /\ InsideTheLoop /\ RecordIsBacked /\ RunsHaveNoRefusal
  /\ SnapshotStillTrue /\ AppliedHasReceipt /\ CompletedMeansApplied

(* Why the Library never contradicts the import.  Nobody works before the  *)
(* approval, a failure is for good, and a worker under its lease gives up  *)
(* for a cancellation only;                                                *)
RunsAreApproved ==
  /\ opState = "none" => \A w \in Workers : pc[w] = "idle"
  /\ opState = "failed" => lastError = "final"
  /\ \A w \in Workers : pc[w] = "acknowledge" /\ Holds(w) => cancelRequested

(* the member's view is the row, as long as no revision has passed;        *)
ViewIsTheRow ==
  fresh => seen = [state |-> opState, cancelling |-> cancelRequested, error |-> lastError]

(* the version that a list is expected to find follows from the receipts   *)
(* of the lists before it, so every run expects the same;                  *)
LastBefore(l, c, m) ==
  /\ m < l /\ Target[m] = c
  /\ \A n \in Lists : m < n /\ n < l => Target[n] # c

ExpectedAt(l, version) ==
  IF TargetKind[l] = "new" THEN version = 0
  ELSE \/ version = 1 /\ \A m \in Lists : m < l => Target[m] # Target[l]
       \/ \E m \in Lists : LastBefore(l, Target[l], m) /\ version = receipt[m].version

VersionsFollowReceipts ==
  \A w \in Workers :
    /\ \A l \in Lists : known[w][l].state = "applied" =>
         receipt[l].code = "applied" /\ receipt[l].version = known[w][l].version
    /\ \A l \in Lists : l < at[w] => receipt[l].code = "applied"
    /\ \A c \in Collections :
         \/ versions[w][c] = 0 /\ \A m \in Lists : m < at[w] => Target[m] # c
         \/ \E m \in Lists : LastBefore(at[w], c, m) /\ versions[w][c] = receipt[m].version

(* the places of a list are on record before it is delivered, and stay:    *)
(* a run comes to the delivery with no item left open,                     *)
PlacesOf(l) == [i \in Items |-> IF i \in ItemsOf(l) THEN checkpoint[i] ELSE NoPlace]
AllResolved(l) == \A i \in ItemsOf(l) : checkpoint[i] # NoPlace

ItemsAreResolved ==
  \A w \in Workers :
    /\ pc[w] \in {"resolve", "place"} \cup Resolving => known[w][at[w]].state # "applied"
    /\ pc[w] \in {"place"} \cup Resolving =>
         /\ \A i \in ItemsOf(at[w]) \ todo[w] : checkpoint[i] # NoPlace
         /\ Holds(w) => \A i \in todo[w] : checkpoint[i] = NoPlace
    /\ pc[w] \in Resolving => item[w] \in todo[w]
    /\ pc[w] = "items" => AllResolved(at[w])

(* so a request says what any other run would say, and so do receipts,     *)
(* which come in the order of the lists.                                   *)
RequestsAgree ==
  \A w \in Workers : pc[w] = "library" =>
    /\ AllResolved(at[w]) /\ request[w].places = PlacesOf(at[w])
    /\ ExpectedAt(at[w], request[w].expected)

ReceiptsAgree ==
  \A l \in Lists : receipt[l].code # "none" =>
    /\ AllResolved(l) /\ receipt[l].request.places = PlacesOf(l)
    /\ ExpectedAt(l, receipt[l].request.expected)
    /\ \A m \in Lists : m < l => receipt[m].code = "applied"
    /\ receipt[l].code = "applied" => receipt[l].version # 0

RefusalIsBacked ==
  /\ \A l \in Lists : receipt[l].code # "operation-id-reused"
  /\ \A w \in Workers :
       /\ outcome[w].code # "operation-id-reused"
       /\ pc[w] = "block" => receipt[at[w]].code \notin {"none", "applied"}

(* What a list will find as long as nobody else writes.                    *)
FoundAt(l, version) ==
  IF TargetKind[l] = "new" THEN version = 0
  ELSE \/ version = 1 /\ \A m \in Lists : m < l /\ Target[m] = Target[l] => receipt[m].code = "none"
       \/ \E m \in Lists :
            /\ m < l /\ Target[m] = Target[l]
            /\ receipt[m].code = "applied" /\ version = receipt[m].version
            /\ \A n \in Lists : m < n /\ n < l /\ Target[n] = Target[l] => receipt[n].code = "none"

UntouchedLibrary ==
  interference = 0 => \A l \in Lists :
    /\ receipt[l].code \in {"none", "applied"}
    /\ receipt[l].code = "none" =>
         /\ FoundAt(l, revision[Target[l]])
         /\ binding[l] = IF PriorBinding[l] = 0 THEN NoBinding
                         ELSE [collection |-> Target[l], revision |-> PriorBinding[l]]

(* A decision leaves its identity linked to a place that is active or      *)
(* retired; redirects lead from a place that is gone to one that is not;   *)
(* an identity is only split from places that were there.                  *)
IdentitiesAreLinked ==
  /\ \A i \in Items : decision[i] # "none" => identityPlace[ItemIdentity[i]] # NoPlace
  /\ \A i \in Items : decision[i] # "applied" => placeStatus[i] = "absent"
  /\ \A x \in Identities : identityPlace[x] # NoPlace =>
       placeStatus[identityPlace[x]] \in {"active", "retired"}
  /\ \A p \in Places : placeStatus[p] # "redirected" => survivor[p] = p
  /\ \A p \in Places : placeStatus[survivor[p]] # "redirected"

(* A worker has a place in hand that stands for its item, and meets no     *)
(* contradiction.                                                          *)
PlacesAreLinked ==
  \A w \in Workers :
    /\ pc[w] # "violated"
    /\ pc[w] \in Resolving => decision[item[w]] # "none"
    /\ pc[w] \in Placed => StandsFor(ItemIdentity[item[w]], place[w])

(* The inductive invariant of ImportRefinementProofs, beside IInv.         *)
AgreementInv ==
  /\ RunsAreApproved /\ ViewIsTheRow /\ VersionsFollowReceipts /\ ItemsAreResolved
  /\ RequestsAgree /\ ReceiptsAgree /\ RefusalIsBacked /\ UntouchedLibrary
  /\ IdentitiesAreLinked /\ PlacesAreLinked /\ IdentitiesAgree

(* The facts of an item cannot be published, however often it is retried:  *)
(* they are on record for a place its identity has left, or the evidence   *)
(* they would join may have left the place.                                *)
Unpublishable(i) ==
  LET p == identityPlace[ItemIdentity[i]] IN
  /\ i \in Listed /\ checkpoint[i] = NoPlace
  /\ asserted[i] \notin {NoPlace, p} \/ EvidenceMayHaveLeft(p)

(* A queued, running or retrying import comes to rest, unless it has come  *)
(* to an item that cannot be published: that one it retries for ever.      *)
ActiveSettles ==
  opState \in Active ~> opState \notin Active \/ \E i \in Items : Unpublishable(i)

(* A requested cancellation ends in "cancelled".                           *)
CancelEnds == cancelRequested ~> opState = "cancelled"

(* With fair workers and clocks every import comes to rest, but for the    *)
(* one exception named, and every requested cancellation ends.             *)
ImportSettles == ActiveSettles /\ CancelEnds
=============================================================================
