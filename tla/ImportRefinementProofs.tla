----------------------- MODULE ImportRefinementProofs -----------------------
(* ImportMaterialization keeps ImportPromise, and the Library, the places  *)
(* and the member's view agree with it, for every number of workers,       *)
(* lists, items and reviewers.                                             *)
EXTENDS ImportMaterializationProofs

USE DEF operation, lease, plan, identities, canonical, library, locals, member, bounds, vars

-----------------------------------------------------------------------------
(* Who writes what.                                                        *)

LEMMA ActsOrRests ==
  ASSUME TypeOK, [Next]_vars, NEW v \in Workers
  PROVE  LocalsKept(v) \/ WorkerAct(v)
  BY NextCases, OthersUntouched, BackgroundKeepsWorkers DEF TypeOK, LocalsKept

LEMMA ReceiptWriters ==
  ASSUME [Next]_vars
  PROVE  receipt' = receipt \/ \E w \in Workers : MaterializeList(w)
<1>1. CASE BackgroundStep
  BY <1>1 DEF BackgroundStep, MemberStep, Approve, ReadOperation, Cancel, Requeue,
     OtherStep, EditCollection, DeleteCollection, OtherImport, LinkIdentity, MergePlaces,
     SplitIdentity, RetirePlace, LeaseExpires, BackoffEnds
<1>2. ASSUME NEW w \in Workers, WorkerAct(w), ~MaterializeList(w) PROVE receipt' = receipt
  BY <1>2 DEF WorkerAct, WorkerStep, ClaimCancelled, Claim, LoadMappings, CheckLease,
     AcknowledgeCancel, ReadPolicyRows, CreatePlace, LookUpIdentity, ResolvePlace,
     ContributeFacts, ContributionFails, WriteCheckpoint, ReadItems, RecordApplied, Block,
     Complete, RecordFailure, Heartbeat, Crash, TransientError
<1> QED BY <1>1, <1>2, NextCases

LEMMA CheckpointWriters ==
  ASSUME [Next]_vars
  PROVE  \/ checkpoint' = checkpoint
         \/ \E w \in Workers :
              /\ WriteCheckpoint(w) /\ Holds(w) /\ checkpoint' = Checkpointed(w)
              /\ checkpoint[item[w]] \in {NoPlace, place[w]}
<1>1. CASE BackgroundStep
  BY <1>1 DEF BackgroundStep, MemberStep, Approve, ReadOperation, Cancel, Requeue,
     OtherStep, EditCollection, DeleteCollection, OtherImport, LinkIdentity, MergePlaces,
     SplitIdentity, RetirePlace, LeaseExpires, BackoffEnds
<1>2. ASSUME NEW w \in Workers, WriteCheckpoint(w), checkpoint' # checkpoint
      PROVE  /\ Holds(w) /\ checkpoint' = Checkpointed(w)
             /\ checkpoint[item[w]] \in {NoPlace, place[w]}
  BY <1>2 DEF WriteCheckpoint
<1>3. ASSUME NEW w \in Workers, WorkerAct(w), ~WriteCheckpoint(w) PROVE checkpoint' = checkpoint
  BY <1>3 DEF WorkerAct, WorkerStep, ClaimCancelled, Claim, LoadMappings, CheckLease,
     AcknowledgeCancel, ReadPolicyRows, CreatePlace, LookUpIdentity, ResolvePlace,
     ContributeFacts, ContributionFails, MaterializeList, ReadItems, RecordApplied, Block,
     Complete, RecordFailure, Heartbeat, Crash, TransientError
<1> QED BY <1>1, <1>2, <1>3, NextCases

LEMMA CheckpointsStay ==
  ASSUME TypeOK, [Next]_vars
  PROVE  \A i \in Items : checkpoint[i] # NoPlace => checkpoint'[i] = checkpoint[i]
  BY CheckpointWriters DEF Checkpointed, TypeOK, PlanType

(* A change of the operation is a revision that the member has not seen.   *)
LEMMA OperationWriters ==
  ASSUME [Next]_vars
  PROVE  UNCHANGED operation \/ fresh' = FALSE
<1>1. CASE BackgroundStep
  BY <1>1 DEF BackgroundStep, MemberStep, Approve, ReadOperation, Cancel, Requeue,
     Commanded, NewRevision, OtherStep, EditCollection, DeleteCollection, OtherImport,
     LinkIdentity, MergePlaces, SplitIdentity, RetirePlace, LeaseExpires, BackoffEnds
<1>2. ASSUME NEW w \in Workers, WorkerAct(w) PROVE UNCHANGED operation \/ fresh' = FALSE
  BY <1>2 DEF WorkerAct, WorkerStep, ClaimCancelled, Claim, LoadMappings, CheckLease,
     AcknowledgeCancel, ReadPolicyRows, CreatePlace, LookUpIdentity, ResolvePlace,
     ContributeFacts, ContributionFails, WriteCheckpoint, ReadItems, MaterializeList,
     RecordApplied, Block, Complete, RecordFailure, Heartbeat, Crash, TransientError,
     FinishCancellation, NewRevision
<1> QED BY <1>1, <1>2, NextCases

LEMMA ViewKept ==
  ASSUME ViewIsTheRow, [Next]_vars PROVE ViewIsTheRow'
<1>1. CASE ReadOperation
  BY <1>1 DEF ReadOperation, ViewIsTheRow
<1>2. ASSUME BackgroundStep, ~ReadOperation PROVE (fresh' = FALSE) \/ UNCHANGED member
  BY <1>2 DEF BackgroundStep, MemberStep, Approve, Cancel, Requeue, Commanded, NewRevision,
     OtherStep, EditCollection, DeleteCollection, OtherImport, LinkIdentity, MergePlaces,
     SplitIdentity, RetirePlace, LeaseExpires, BackoffEnds
<1>3. ASSUME NEW w \in Workers, WorkerAct(w) PROVE fresh' = FALSE \/ UNCHANGED member
  BY <1>3 DEF WorkerAct, WorkerStep, ClaimCancelled, Claim, LoadMappings, CheckLease,
     AcknowledgeCancel, ReadPolicyRows, CreatePlace, LookUpIdentity, ResolvePlace,
     ContributeFacts, ContributionFails, WriteCheckpoint, ReadItems, MaterializeList,
     RecordApplied, Block, Complete, RecordFailure, Heartbeat, Crash, TransientError,
     FinishCancellation, NewRevision
<1>4. CASE fresh' = FALSE
  BY <1>4 DEF ViewIsTheRow
<1>5. CASE UNCHANGED member
  BY <1>5, <1>4, OperationWriters DEF ViewIsTheRow
<1> QED BY <1>1, <1>2, <1>3, <1>4, <1>5, NextCases

-----------------------------------------------------------------------------
(* Runs.                                                                   *)

LEMMA QuietKept ==
  ASSUME TypeOK, RunsAreApproved, [Next]_vars, opState' = "none"
  PROVE  \A v \in Workers : pc'[v] = "idle"
<1>1. CASE BackgroundStep
  <2>1. opState = "none"
    BY <1>1 DEF BackgroundStep, MemberStep, Approve, ReadOperation, Cancel, Commanded,
       Requeue, AllowedActions, Active, OtherStep, EditCollection, DeleteCollection,
       OtherImport, LinkIdentity, MergePlaces, SplitIdentity, RetirePlace, LeaseExpires,
       BackoffEnds
  <2> QED BY <1>1, <2>1, BackgroundKeepsWorkers DEF RunsAreApproved
<1>2. ASSUME NEW w \in Workers, WorkerAct(w) PROVE FALSE
  <2>1. opState = "none"
    BY <1>2 DEF WorkerAct, WorkerStep, ClaimCancelled, Claim, LoadMappings, CheckLease,
       AcknowledgeCancel, ReadPolicyRows, CreatePlace, LookUpIdentity, ResolvePlace,
       ContributeFacts, ContributionFails, WriteCheckpoint, ReadItems, MaterializeList,
       RecordApplied, Block, Complete, RecordFailure, Heartbeat, Crash, TransientError,
       FinishCancellation
  <2>2. pc[w] = "idle" /\ ~Claimable
    BY <2>1 DEF RunsAreApproved, Claimable
  <2> QED BY <1>2, <2>2
      DEF WorkerAct, WorkerStep, ClaimCancelled, Claim, LoadMappings, CheckLease,
          AcknowledgeCancel, ReadPolicyRows, CreatePlace, LookUpIdentity, ResolvePlace,
          ContributeFacts, ContributionFails, WriteCheckpoint, ReadItems, MaterializeList,
          RecordApplied, Block, Complete, RecordFailure, Heartbeat, Crash, TransientError
<1> QED BY <1>1, <1>2, NextCases

LEMMA FailureKept ==
  ASSUME TypeOK, RunsAreApproved, [Next]_vars, opState' = "failed"
  PROVE  lastError' = "final"
<1>1. CASE BackgroundStep
  BY <1>1 DEF BackgroundStep, MemberStep, Approve, ReadOperation, Cancel, Commanded,
     Requeue, AllowedActions, Active, OtherStep, EditCollection, DeleteCollection,
     OtherImport, LinkIdentity, MergePlaces, SplitIdentity, RetirePlace, LeaseExpires,
     BackoffEnds, RunsAreApproved
<1>2. ASSUME NEW w \in Workers, WorkerAct(w) PROVE lastError' = "final"
  BY <1>2 DEF WorkerAct, WorkerStep, ClaimCancelled, Claim, LoadMappings, CheckLease,
     AcknowledgeCancel, ReadPolicyRows, CreatePlace, LookUpIdentity, ResolvePlace,
     ContributeFacts, ContributionFails, WriteCheckpoint, ReadItems, MaterializeList,
     RecordApplied, Block, Complete, RecordFailure, Heartbeat, Crash, TransientError,
     FinishCancellation, RunsAreApproved
<1> QED BY <1>1, <1>2, NextCases

(* A running operation keeps its cancellation.                             *)
LEMMA CancelStays ==
  ASSUME [Next]_vars, opState = "running", cancelRequested, cancelRequested \in BOOLEAN
  PROVE  cancelRequested'
<1>1. CASE BackgroundStep
  BY <1>1, RequeueGuard DEF BackgroundStep, MemberStep, Approve, ReadOperation, Cancel,
     OtherStep, EditCollection, DeleteCollection, OtherImport, LinkIdentity, MergePlaces,
     SplitIdentity, RetirePlace, LeaseExpires, BackoffEnds
<1>2. ASSUME NEW w \in Workers, WorkerAct(w) PROVE cancelRequested' = cancelRequested
  BY <1>2 DEF WorkerAct, WorkerStep, ClaimCancelled, Claim, LoadMappings, CheckLease,
     AcknowledgeCancel, ReadPolicyRows, CreatePlace, LookUpIdentity, ResolvePlace,
     ContributeFacts, ContributionFails, WriteCheckpoint, ReadItems, MaterializeList,
     RecordApplied, Block, Complete, RecordFailure, Heartbeat, Crash, TransientError,
     FinishCancellation
<1> QED BY <1>1, <1>2, NextCases

LEMMA AcknowledgesKept ==
  ASSUME IInv, RunsAreApproved, [Next]_vars, NEW v \in Workers, pc'[v] = "acknowledge", Holds(v)'
  PROVE  cancelRequested'
<1> USE DEF IInv, TypeOK
<1>1. CASE LocalsKept(v)
  <2>1. pc[v] = "acknowledge" /\ Holds(v)
    BY <1>1, HeldBefore DEF LocalsKept
  <2>2. cancelRequested /\ opState = "running" /\ cancelRequested \in BOOLEAN
    BY <2>1 DEF RunsAreApproved, Holds, OperationType
  <2> QED BY <2>2, CancelStays
<1>2. CASE WorkerAct(v) /\ ~LocalsKept(v)
  <2>1. ~Idle(v) /\ ~MaterializeList(v)
    BY IdleKeepsOthers, AnswerKeepsOthers DEF Rest
  <2>2. CheckLease(v)
    BY <1>2, <2>1
    DEF WorkerAct, WorkerStep, ClaimCancelled, Claim, LoadMappings, AcknowledgeCancel,
        ReadPolicyRows, CreatePlace, LookUpIdentity, ResolvePlace, ContributeFacts,
        ContributionFails, WriteCheckpoint, ReadItems, RecordApplied, Block, Complete,
        RecordFailure, Heartbeat, Crash, TransientError, Goto, WorkerType, LocalsKept
  <2> QED BY <2>1, <2>2 DEF CheckLease, Goto, WorkerType
<1> QED BY <1>1, <1>2, ActsOrRests

LEMMA RunsKept ==
  ASSUME IInv, RunsAreApproved, [Next]_vars PROVE RunsAreApproved'
<1>1. \A v \in Workers : pc'[v] = "acknowledge" /\ Holds(v)' => cancelRequested'
  BY AcknowledgesKept
<1> QED BY <1>1, QuietKept, FailureKept DEF RunsAreApproved, Holds, IInv

-----------------------------------------------------------------------------
(* Versions.                                                               *)

(* A worker that stops or fails forgets what it knew.                      *)
Forgotten(w) ==
  /\ known'[w] = NothingKnown /\ versions'[w] = NoVersions /\ at'[w] = 1
  /\ outcome'[w] = NoOutcome /\ pc'[w] \in {"idle", "failing"}

LEMMA ForgetsAll ==
  ASSUME TypeOK, NEW w \in Workers, Forget(w), pc'[w] \in {"idle", "failing"}
  PROVE  Forgotten(w)
  BY DEF Forget, Forgotten, TypeOK, WorkerType

(* The parts of VersionsFollowReceipts that are about one worker.          *)
KnownIsApplied(w) ==
  \A l \in Lists : known[w][l].state = "applied" =>
    receipt[l].code = "applied" /\ receipt[l].version = known[w][l].version
VersionsFollow(w) ==
  /\ \A l \in Lists : l < at[w] => receipt[l].code = "applied"
  /\ \A c \in Collections :
       \/ versions[w][c] = 0 /\ \A m \in Lists : m < at[w] => Target[m] # c
       \/ \E m \in Lists : LastBefore(at[w], c, m) /\ versions[w][c] = receipt[m].version

LEMMA VersionsByWorker ==
  VersionsFollowReceipts <=> \A w \in Workers : KnownIsApplied(w) /\ VersionsFollow(w)
  BY DEF VersionsFollowReceipts, KnownIsApplied, VersionsFollow

LEMMA VersionsStay ==
  ASSUME TypeOK, InsideTheLoop, [Next]_vars, NEW w \in Workers, VersionsFollow(w),
         at'[w] = at[w], versions'[w] = versions[w]
  PROVE  VersionsFollow(w)'
<1>1. \A l \in Lists : receipt[l].code # "none" => receipt'[l] = receipt[l]
  BY ReceiptsStay
<1>2. \A l \in Lists : l < at'[w] => receipt'[l].code = "applied"
  BY <1>1 DEF VersionsFollow
<1>3. ASSUME NEW c \in Collections
      PROVE  \/ versions'[w][c] = 0 /\ \A m \in Lists : m < at'[w] => Target[m] # c
             \/ \E m \in Lists : LastBefore(at'[w], c, m) /\ versions'[w][c] = receipt'[m].version
  <2>1. CASE versions[w][c] = 0 /\ \A m \in Lists : m < at[w] => Target[m] # c
    BY <2>1
  <2>2. CASE \E m \in Lists : LastBefore(at[w], c, m) /\ versions[w][c] = receipt[m].version
    <3>1. PICK m \in Lists : LastBefore(at[w], c, m) /\ versions[w][c] = receipt[m].version
      BY <2>2
    <3>2. receipt'[m] = receipt[m]
      BY <1>1, <3>1 DEF LastBefore, VersionsFollow
    <3> QED BY <3>1, <3>2
  <2> QED BY <2>1, <2>2 DEF VersionsFollow
<1> QED BY <1>2, <1>3 DEF VersionsFollow

LEMMA KnownStays ==
  ASSUME TypeOK, InsideTheLoop, [Next]_vars, NEW w \in Workers, KnownIsApplied(w),
         known'[w] = known[w]
  PROVE  KnownIsApplied(w)'
  BY ReceiptsStay DEF KnownIsApplied

LEMMA ForgottenFollows ==
  ASSUME NEW w \in Workers, Forgotten(w)
  PROVE  KnownIsApplied(w)' /\ VersionsFollow(w)'
  BY ParameterTypes DEF Forgotten, KnownIsApplied, VersionsFollow, NothingKnown, NoVersions,
     Lists

(* A list is left behind with the version of its receipt.                  *)
LEMMA VersionsAdvance ==
  ASSUME TypeOK, NEW w \in Workers, VersionsFollow(w), at[w] \in Lists, receipt' = receipt,
         NEW v, receipt[at[w]].code = "applied", receipt[at[w]].version = v,
         versions' = [versions EXCEPT ![w][Target[at[w]]] = v],
         at' = [at EXCEPT ![w] = at[w] + 1]
  PROVE  VersionsFollow(w)'
<1> DEFINE l == at[w]
<1>1. at'[w] = l + 1 /\ \A m \in Lists : m < l + 1 <=> m < l \/ m = l
  BY ParameterTypes DEF TypeOK, WorkerType, Lists
<1>2. \A m \in Lists : m < at'[w] => receipt'[m].code = "applied"
  BY <1>1 DEF VersionsFollow
<1>3. \A c \in Collections : versions'[w][c] = IF c = Target[l] THEN v ELSE versions[w][c]
  BY ParameterTypes DEF TypeOK, WorkerType
<1>4. ASSUME NEW c \in Collections
      PROVE  \/ versions'[w][c] = 0 /\ \A m \in Lists : m < at'[w] => Target[m] # c
             \/ \E m \in Lists : LastBefore(at'[w], c, m) /\ versions'[w][c] = receipt'[m].version
  <2>1. CASE c = Target[l]
    <3>1. LastBefore(at'[w], c, l)
      BY <1>1, <2>1, ParameterTypes DEF LastBefore, Lists
    <3> QED BY <1>3, <2>1, <3>1
  <2>2. CASE c # Target[l] /\ versions[w][c] = 0 /\ \A m \in Lists : m < l => Target[m] # c
    BY <1>1, <1>3, <2>2
  <2>3. CASE c # Target[l] /\ \E m \in Lists : LastBefore(l, c, m) /\ versions[w][c] = receipt[m].version
    <3>1. PICK m \in Lists : LastBefore(l, c, m) /\ versions[w][c] = receipt[m].version
      BY <2>3
    <3>2. LastBefore(at'[w], c, m)
      BY <1>1, <2>3, <3>1 DEF LastBefore
    <3> QED BY <1>3, <2>3, <3>1, <3>2
  <2> QED BY <2>1, <2>2, <2>3 DEF VersionsFollow
<1> QED BY <1>2, <1>4 DEF VersionsFollow

LEMMA ActorVersions ==
  ASSUME IInv, VersionsFollowReceipts, NEW w \in Workers, WorkerAct(w)
  PROVE  KnownIsApplied(w)' /\ VersionsFollow(w)'
<1> USE DEF IInv
<1>0. [Next]_vars /\ KnownIsApplied(w) /\ VersionsFollow(w)
  BY NextCases, VersionsByWorker
<1>1. CASE Forgotten(w)
  BY <1>1, ForgottenFollows
<1>2. CASE known'[w] = known[w] /\ at'[w] = at[w] /\ versions'[w] = versions[w]
  BY <1>0, <1>2, KnownStays, VersionsStay
<1>3. CASE LoadMappings(w)
  <2>1. known'[w] = mapping /\ receipt' = receipt /\ at'[w] = at[w] /\ versions'[w] = versions[w]
    BY <1>3 DEF LoadMappings, TypeOK, WorkerType
  <2> QED BY <1>0, <2>1, VersionsStay DEF KnownIsApplied, AppliedHasReceipt
<1>4. CASE CheckLease(w) /\ at' # at /\ Holds(w)
  <2>1. /\ known[w][at[w]].state = "applied" /\ at[w] \in Lists
        /\ receipt' = receipt /\ known' = known
        /\ versions' = [versions EXCEPT ![w][Target[at[w]]] = known[w][at[w]].version]
        /\ at' = [at EXCEPT ![w] = at[w] + 1]
    BY <1>4 DEF CheckLease
  <2>2. /\ receipt[at[w]].code = "applied"
        /\ receipt[at[w]].version = known[w][at[w]].version
    BY <1>0, <2>1 DEF KnownIsApplied
  <2> QED BY <1>0, <2>1, <2>2, VersionsAdvance, KnownStays
<1>5. CASE RecordApplied(w) /\ Holds(w) /\ ~cancelRequested
  <2>1. /\ receipt' = receipt /\ known' = known /\ at[w] \in Lists
        /\ versions' = [versions EXCEPT ![w][Target[at[w]]] = outcome[w].version]
        /\ at' = [at EXCEPT ![w] = at[w] + 1]
    BY <1>5 DEF RecordApplied, LockSaysCancelled, InsideTheLoop
  <2>2. receipt[at[w]].code = "applied" /\ receipt[at[w]].version = outcome[w].version
    BY <1>5 DEF RecordApplied, RecordIsBacked
  <2> QED BY <1>0, <2>1, <2>2, VersionsAdvance, KnownStays
<1>6. CASE Idle(w) \/ TransientError(w) \/ ContributionFails(w)
  <2>1. Forget(w) /\ pc'[w] \in {"idle", "failing"}
    BY <1>6 DEF Idle, TransientError, ContributionFails, Goto, TypeOK, WorkerType
  <2> QED BY <1>1, <2>1, ForgetsAll
<1>7. CASE MaterializeList(w) \/ CreatePlace(w)
  BY <1>2, <1>7, AnswerKeepsOthers DEF MaterializeList, CreatePlace, TypeOK
<1>8. CASE ~Idle(w) /\ WriteCheckpoint(w)
  BY <1>2, <1>8 DEF WriteCheckpoint
<1>9. CASE CheckLease(w) /\ at' = at /\ Holds(w)
  <2>1. at'[w] # at[w] + 1 /\ at \in [Workers -> 1..(NumLists + 1)]
    BY <1>9, ParameterTypes DEF TypeOK, WorkerType
  <2>2. known[w][at[w]].state # "applied" \/ cancelRequested
    BY <1>9, <2>1 DEF CheckLease
  <2> QED BY <1>2, <1>9, <2>2 DEF CheckLease
<1>10. CASE \/ ClaimCancelled(w) \/ Claim(w) \/ ReadPolicyRows(w) \/ LookUpIdentity(w)
            \/ ResolvePlace(w) \/ ContributeFacts(w) \/ ReadItems(w) \/ Heartbeat(w)
  BY <1>2, <1>10 DEF ClaimCancelled, Claim, ReadPolicyRows, LookUpIdentity, ResolvePlace,
     ContributeFacts, ReadItems, Heartbeat
<1>11. CASE AcknowledgeCancel(w) \/ Block(w) \/ Complete(w) \/ RecordFailure(w) \/ Crash(w)
  BY <1>6, <1>11 DEF AcknowledgeCancel, Block, Complete, RecordFailure, Crash
<1>12. CASE CheckLease(w) /\ ~Holds(w)
  BY <1>6, <1>12 DEF CheckLease
<1>13. CASE RecordApplied(w) /\ ~(Holds(w) /\ ~cancelRequested)
  BY <1>6, <1>13 DEF RecordApplied, LockSaysCancelled
<1>14. CASE WriteCheckpoint(w)
  BY <1>6, <1>8, <1>14
<1> QED BY <1>3, <1>4, <1>5, <1>6, <1>7, <1>9, <1>10, <1>11, <1>12, <1>13, <1>14
        DEF WorkerAct, WorkerStep

LEMMA VersionsKept ==
  ASSUME IInv, VersionsFollowReceipts, [Next]_vars PROVE VersionsFollowReceipts'
<1> USE DEF IInv
<1> SUFFICES ASSUME NEW v \in Workers PROVE KnownIsApplied(v)' /\ VersionsFollow(v)'
  BY DEF VersionsFollowReceipts, KnownIsApplied, VersionsFollow
<1>1. CASE WorkerAct(v)
  BY <1>1, ActorVersions
<1>2. CASE LocalsKept(v)
  BY <1>2, VersionsByWorker, KnownStays, VersionsStay DEF LocalsKept
<1> QED BY <1>1, <1>2, ActsOrRests

-----------------------------------------------------------------------------
(* Places of items.                                                        *)

LEMMA CanonicalWriters ==
  ASSUME [Next]_vars
  PROVE  \/ UNCHANGED identities
         \/ \E w \in Workers : CreatePlace(w)
         \/ \E x \in Identities, q \in OtherPlaces : LinkIdentity(x, q)
         \/ \E p, q \in Places : MergePlaces(p, q)
         \/ \E x \in Identities, q \in OtherPlaces : SplitIdentity(x, q)
         \/ \E p \in Places : RetirePlace(p)
<1>1. ASSUME BackgroundStep, ~OtherStep PROVE UNCHANGED identities
  BY <1>1 DEF BackgroundStep, MemberStep, Approve, ReadOperation, Cancel, Requeue,
     LeaseExpires, BackoffEnds
<1>2. ASSUME NEW w \in Workers, WorkerAct(w), ~CreatePlace(w) PROVE UNCHANGED identities
  BY <1>2 DEF WorkerAct, WorkerStep, ClaimCancelled, Claim, LoadMappings, CheckLease,
     AcknowledgeCancel, ReadPolicyRows, MaterializeList, LookUpIdentity, ResolvePlace,
     ContributeFacts, ContributionFails, WriteCheckpoint, ReadItems, RecordApplied, Block,
     Complete, RecordFailure, Heartbeat, Crash, TransientError
<1>3. ASSUME NEW c \in Collections, EditCollection(c) \/ DeleteCollection(c)
      PROVE  UNCHANGED identities
  BY <1>3 DEF EditCollection, DeleteCollection
<1>4. ASSUME NEW l \in Lists, OtherImport(l) PROVE UNCHANGED identities
  BY <1>4 DEF OtherImport
<1> QED BY <1>1, <1>2, <1>3, <1>4, NextCases DEF OtherStep

(* What a step may do to decisions, links and places: a decision stays, an *)
(* identity stays linked, and a place that stood for it goes on doing so.  *)
CanonicalMoves ==
  /\ \A i \in Items : decision[i] # "none" => decision'[i] = decision[i]
  /\ \A x \in Identities : identityPlace[x] # NoPlace => identityPlace'[x] # NoPlace
  /\ \A x \in Identities, p \in Places : StandsFor(x, p) => StandsFor(x, p)'

(* StandsFor of the next state, about the names of this one.               *)
StandsNext(x, p) ==
  \/ identityPlace'[x] = survivor'[p]
  \/ \E s \in Places : <<x, s>> \in splits' /\ survivor'[s] = survivor'[p]

LEMMA StandsOn ==
  ASSUME CanonicalMoves, NEW x \in Identities, NEW p \in Places, StandsFor(x, p)
  PROVE  StandsNext(x, p)
  BY DEF CanonicalMoves, StandsFor, StandsNext

(* create-place for an item that has no decision yet.                      *)
Creates(i) ==
  /\ i \in Items /\ decision[i] = "none" /\ identityPlace[ItemIdentity[i]] = NoPlace
  /\ decision' = [decision EXCEPT ![i] = "applied"]
  /\ identityPlace' = [identityPlace EXCEPT ![ItemIdentity[i]] = i]
  /\ placeStatus' = [placeStatus EXCEPT ![i] = "active"]
  /\ UNCHANGED <<survivor, splits>>
LeavesLinked(i) ==
  /\ i \in Items /\ decision[i] = "none" /\ identityPlace[ItemIdentity[i]] # NoPlace
  /\ decision' = [decision EXCEPT ![i] = "identity-already-linked"]
  /\ UNCHANGED <<identityPlace, placeStatus, survivor, splits>>

LEMMA CreatePlaceCases ==
  ASSUME TypeOK, NEW w \in Workers, CreatePlace(w)
  PROVE  \E i \in todo[w] :
           /\ i \in Items /\ item' = [item EXCEPT ![w] = i]
           /\ Creates(i) \/ LeavesLinked(i) \/ (UNCHANGED identities /\ decision[i] # "none")
<1>1. PICK i \in todo[w] : item' = [item EXCEPT ![w] = i] /\ ApplyCreatePlace(i)
  BY DEF CreatePlace
<1>2. i \in Items
  BY DEF TypeOK, WorkerType
<1>3. Creates(i) \/ LeavesLinked(i) \/ (UNCHANGED identities /\ decision[i] # "none")
  BY <1>1, <1>2 DEF ApplyCreatePlace, Creates, LeavesLinked
<1> QED BY <1>1, <1>2, <1>3

(* Links and survivors, place by place.                                    *)
LEMMA CreatesKeepsLinks ==
  ASSUME TypeOK, IdentitiesAreLinked, OnePlacePerIdentity, NEW i, Creates(i)
  PROVE  CanonicalMoves /\ IdentitiesAreLinked' /\ OnePlacePerIdentity'
<1> USE DEF TypeOK, CanonicalType
<1>0. NoPlace \notin Places /\ Items \subseteq Places
      /\ ItemIdentity \in [Items -> Identities]
  BY NullsAreFresh, ParameterTypes DEF Places
<1>1. i \in Items /\ placeStatus[i] = "absent" /\ placeStatus'[i] = "active"
  BY <1>0 DEF Creates, IdentitiesAreLinked
<1>2. CanonicalMoves
  <2>1. ASSUME NEW x \in Identities, NEW p \in Places, StandsFor(x, p) PROVE StandsFor(x, p)'
    <3>1. survivor[p] \in Places /\ UNCHANGED <<survivor, splits>>
      BY DEF Creates
    <3>2. identityPlace[x] # NoPlace => identityPlace'[x] = identityPlace[x]
      BY DEF Creates
    <3>3. CASE identityPlace[x] = survivor[p]
      BY <1>0, <3>1, <3>2, <3>3 DEF StandsFor
    <3>4. CASE \E s \in Places : <<x, s>> \in splits /\ survivor[s] = survivor[p]
      BY <3>1, <3>4 DEF StandsFor
    <3> QED BY <2>1, <3>3, <3>4 DEF StandsFor
  <2> QED BY <1>0, <1>1, <2>1 DEF Creates, CanonicalMoves
<1>3. IdentitiesAreLinked'
  <2>1. \A j \in Items : decision'[j] # "none" => identityPlace'[ItemIdentity[j]] # NoPlace
    BY <1>0 DEF Creates, IdentitiesAreLinked
  <2>2. \A j \in Items : decision'[j] # "applied" => placeStatus'[j] = "absent"
    BY <1>0 DEF Creates, IdentitiesAreLinked
  <2>3. ASSUME NEW x \in Identities, identityPlace'[x] # NoPlace
        PROVE  placeStatus'[identityPlace'[x]] \in {"active", "retired"}
    <3>1. CASE x = ItemIdentity[i]
      BY <1>0, <1>1, <3>1 DEF Creates
    <3>2. CASE x # ItemIdentity[i]
      <4>1. identityPlace'[x] = identityPlace[x] /\ identityPlace[x] \in Places
        BY <1>0, <2>3, <3>2 DEF Creates
      <4>2. placeStatus[identityPlace[x]] \in {"active", "retired"}
        BY <2>3, <4>1 DEF IdentitiesAreLinked
      <4> QED BY <1>0, <1>1, <4>1, <4>2 DEF Creates
    <3> QED BY <3>1, <3>2
  <2>4. \A p \in Places : placeStatus'[p] # "redirected" => survivor'[p] = p
    BY <1>0, <1>1 DEF Creates, IdentitiesAreLinked
  <2>5. \A p \in Places : placeStatus'[survivor'[p]] # "redirected"
    BY <1>0, <1>1 DEF Creates, IdentitiesAreLinked
  <2> QED BY <2>1, <2>2, <2>3, <2>4, <2>5 DEF IdentitiesAreLinked
<1>4. OnePlacePerIdentity'
  BY <1>0 DEF Creates, OnePlacePerIdentity, IdentitiesAreLinked
<1> QED BY <1>2, <1>3, <1>4

LEMMA MergeKeepsLinks ==
  ASSUME TypeOK, IdentitiesAreLinked, OnePlacePerIdentity, NEW p \in Places, NEW q \in Places,
         MergePlaces(p, q)
  PROVE  CanonicalMoves /\ IdentitiesAreLinked' /\ OnePlacePerIdentity'
<1> USE DEF TypeOK, CanonicalType
<1>0. NoPlace \notin Places /\ Items \subseteq Places
      /\ ItemIdentity \in [Items -> Identities]
  BY NullsAreFresh, ParameterTypes DEF Places
<1>1. /\ p # q /\ placeStatus[p] = "active" /\ placeStatus[q] = "active"
      /\ placeStatus' = [placeStatus EXCEPT ![p] = "redirected"]
      /\ \A r \in Places : survivor'[r] = IF survivor[r] = p THEN q ELSE survivor[r]
      /\ \A x \in Identities :
           identityPlace'[x] = IF identityPlace[x] = p THEN q ELSE identityPlace[x]
      /\ UNCHANGED <<decision, splits>>
  BY DEF MergePlaces
<1>2. CanonicalMoves
  <2>1. ASSUME NEW x \in Identities, NEW r \in Places, StandsFor(x, r) PROVE StandsFor(x, r)'
    <3>1. CASE identityPlace[x] = survivor[r]
      BY <1>1, <3>1 DEF StandsFor
    <3>2. CASE \E s \in Places : <<x, s>> \in splits /\ survivor[s] = survivor[r]
      BY <1>1, <3>2 DEF StandsFor
    <3> QED BY <2>1, <3>1, <3>2 DEF StandsFor
  <2> QED BY <1>0, <1>1, <2>1 DEF CanonicalMoves
<1>3. IdentitiesAreLinked'
  <2>1. /\ \A i \in Items : decision'[i] # "none" => identityPlace'[ItemIdentity[i]] # NoPlace
        /\ \A i \in Items : decision'[i] # "applied" => placeStatus'[i] = "absent"
    BY <1>0, <1>1 DEF IdentitiesAreLinked
  <2>2. \A x \in Identities : identityPlace'[x] # NoPlace =>
          placeStatus'[identityPlace'[x]] \in {"active", "retired"}
    BY <1>0, <1>1 DEF IdentitiesAreLinked
  <2>3. \A r \in Places : placeStatus'[r] # "redirected" => survivor'[r] = r
    BY <1>1 DEF IdentitiesAreLinked
  <2>4. \A r \in Places : placeStatus'[survivor'[r]] # "redirected"
    BY <1>1 DEF IdentitiesAreLinked
  <2> QED BY <2>1, <2>2, <2>3, <2>4 DEF IdentitiesAreLinked
<1> QED BY <1>1, <1>2, <1>3 DEF OnePlacePerIdentity

LEMMA SplitKeepsLinks ==
  ASSUME TypeOK, IdentitiesAreLinked, OnePlacePerIdentity, NEW x \in Identities,
         NEW q \in OtherPlaces, SplitIdentity(x, q)
  PROVE  CanonicalMoves /\ IdentitiesAreLinked' /\ OnePlacePerIdentity'
<1> USE DEF TypeOK, CanonicalType
<1>0. NoPlace \notin Places /\ Items \subseteq Places /\ q \in Places /\ q \notin Items
      /\ ItemIdentity \in [Items -> Identities]
  BY NullsAreFresh, ParameterTypes DEF Places
<1> DEFINE s == identityPlace[x]
<1>1. /\ placeStatus[q] = "absent" /\ s \in Places /\ placeStatus[s] = "active"
      /\ placeStatus' = [placeStatus EXCEPT ![q] = "active"]
      /\ identityPlace' = [identityPlace EXCEPT ![x] = q]
      /\ splits' = splits \cup {<<x, s>>}
      /\ UNCHANGED <<decision, survivor>>
  BY DEF SplitIdentity
<1>2. survivor[s] = s
  BY <1>1 DEF IdentitiesAreLinked
<1>3. CanonicalMoves
  <2>1. ASSUME NEW y \in Identities, NEW r \in Places, StandsFor(y, r) PROVE StandsFor(y, r)'
    <3>1. CASE identityPlace[y] = survivor[r] /\ y # x
      BY <1>1, <3>1 DEF StandsFor
    <3>2. CASE identityPlace[y] = survivor[r] /\ y = x
      BY <1>1, <1>2, <3>2 DEF StandsFor
    <3>3. CASE \E t \in Places : <<y, t>> \in splits /\ survivor[t] = survivor[r]
      BY <1>1, <3>3 DEF StandsFor
    <3> QED BY <2>1, <3>1, <3>2, <3>3 DEF StandsFor
  <2> QED BY <1>0, <1>1, <2>1 DEF CanonicalMoves
<1>4. IdentitiesAreLinked'
  <2>1. /\ \A i \in Items : decision'[i] # "none" => identityPlace'[ItemIdentity[i]] # NoPlace
        /\ \A i \in Items : decision'[i] # "applied" => placeStatus'[i] = "absent"
    BY <1>0, <1>1 DEF IdentitiesAreLinked
  <2>2. \A y \in Identities : identityPlace'[y] # NoPlace =>
          placeStatus'[identityPlace'[y]] \in {"active", "retired"}
    BY <1>0, <1>1 DEF IdentitiesAreLinked
  <2>3. /\ \A r \in Places : placeStatus'[r] # "redirected" => survivor'[r] = r
        /\ \A r \in Places : placeStatus'[survivor'[r]] # "redirected"
    BY <1>0, <1>1 DEF IdentitiesAreLinked
  <2> QED BY <2>1, <2>2, <2>3 DEF IdentitiesAreLinked
<1> QED BY <1>1, <1>3, <1>4 DEF OnePlacePerIdentity

LEMMA LinksKept ==
  ASSUME TypeOK, IdentitiesAreLinked, OnePlacePerIdentity, [Next]_vars
  PROVE  CanonicalMoves /\ IdentitiesAreLinked' /\ OnePlacePerIdentity'
<1> USE DEF TypeOK, CanonicalType
<1>0. NoPlace \notin Places /\ Items \subseteq Places /\ OtherPlaces \subseteq Places
      /\ ItemIdentity \in [Items -> Identities] /\ Items \cap OtherPlaces = {}
  BY NullsAreFresh, ParameterTypes DEF Places
<1>1. CASE UNCHANGED identities
  BY <1>1 DEF CanonicalMoves, StandsFor, IdentitiesAreLinked, OnePlacePerIdentity
<1>2. ASSUME NEW i, LeavesLinked(i)
      PROVE  CanonicalMoves /\ IdentitiesAreLinked' /\ OnePlacePerIdentity'
  <2>1. \A y \in Identities, p \in Places : StandsFor(y, p) => StandsFor(y, p)'
    BY <1>2 DEF LeavesLinked, StandsFor
  <2> QED BY <1>0, <1>2, <2>1 DEF LeavesLinked, CanonicalMoves, IdentitiesAreLinked,
             OnePlacePerIdentity
<1>3. ASSUME NEW w \in Workers, CreatePlace(w)
      PROVE  CanonicalMoves /\ IdentitiesAreLinked' /\ OnePlacePerIdentity'
  BY <1>1, <1>2, <1>3, CreatePlaceCases, CreatesKeepsLinks
<1>4. ASSUME NEW x \in Identities, NEW q \in OtherPlaces, LinkIdentity(x, q)
      PROVE  CanonicalMoves /\ IdentitiesAreLinked' /\ OnePlacePerIdentity'
  <2>1. /\ identityPlace[x] = NoPlace /\ identityPlace' = [identityPlace EXCEPT ![x] = q]
        /\ q \in Places /\ placeStatus[q] = "active"
        /\ UNCHANGED <<decision, placeStatus, survivor, splits>>
    BY <1>0, <1>4 DEF LinkIdentity
  <2>2. \A y \in Identities, p \in Places : StandsFor(y, p) => StandsFor(y, p)'
    BY <1>0, <2>1 DEF StandsFor
  <2> QED BY <1>0, <2>1, <2>2 DEF CanonicalMoves, IdentitiesAreLinked, OnePlacePerIdentity
<1>5. ASSUME NEW p \in Places, RetirePlace(p)
      PROVE  CanonicalMoves /\ IdentitiesAreLinked' /\ OnePlacePerIdentity'
  <2>1. \A y \in Identities, r \in Places : StandsFor(y, r) => StandsFor(y, r)'
    BY <1>5 DEF RetirePlace, StandsFor
  <2> QED BY <1>0, <1>5, <2>1 DEF RetirePlace, CanonicalMoves, IdentitiesAreLinked,
             OnePlacePerIdentity
<1> QED BY <1>1, <1>3, <1>4, <1>5, MergeKeepsLinks, SplitKeepsLinks, CanonicalWriters

(* What ItemsAreResolved says of one worker.                               *)
Resolves(w) ==
  /\ pc[w] \in {"resolve", "place"} \cup Resolving => known[w][at[w]].state # "applied"
  /\ pc[w] \in {"place"} \cup Resolving =>
       /\ \A i \in ItemsOf(at[w]) \ todo[w] : checkpoint[i] # NoPlace
       /\ Holds(w) => \A i \in todo[w] : checkpoint[i] = NoPlace
  /\ pc[w] \in Resolving => item[w] \in todo[w]
  /\ pc[w] = "items" => AllResolved(at[w])

LEMMA ResolvingLabels ==
  /\ Resolving = {"lookup", "survivor", "contribute", "checkpoint"}
  /\ Placed = {"survivor", "contribute", "checkpoint"}
  BY DEF Resolving, Placed

LEMMA ResolvesByWorker == ItemsAreResolved <=> \A w \in Workers : Resolves(w)
  BY DEF ItemsAreResolved, Resolves

LEMMA ResolvedStays ==
  ASSUME TypeOK, [Next]_vars, NEW l, AllResolved(l)
  PROVE  AllResolved(l)'
  BY CheckpointsStay DEF AllResolved, ItemsOf

LEMMA BystanderResolves ==
  ASSUME IInv, ItemsAreResolved, [Next]_vars, NEW v \in Workers, LocalsKept(v), ~WorkerAct(v)
  PROVE  Resolves(v)'
<1> USE DEF IInv
<1>1. Resolves(v)
  BY ResolvesByWorker
<1>2. \A i \in ItemsOf(at[v]) : checkpoint[i] # NoPlace => checkpoint'[i] = checkpoint[i]
  BY CheckpointsStay DEF ItemsOf
<1>3. ASSUME pc[v] # "idle", Holds(v)' PROVE Holds(v) /\ checkpoint' = checkpoint
  <2>1. Holds(v)
    BY <1>3, HeldBefore DEF LocalsKept
  <2>2. ASSUME NEW w \in Workers, WriteCheckpoint(w), Holds(w) PROVE FALSE
    <3>1. w # v /\ pc[w] # "idle" /\ gen[w] = gen[v]
      BY <2>1, <2>2 DEF WorkerAct, WorkerStep, WriteCheckpoint, Holds
    <3> QED BY <1>3, <3>1 DEF ClaimsAreDistinct
  <2> QED BY <2>1, <2>2, CheckpointWriters
<1>4. pc[v] = "items" => AllResolved(at[v])'
  BY <1>1, <1>2 DEF Resolves, AllResolved, ItemsOf, LocalsKept
<1>5. pc[v] \in {"place"} \cup Resolving => pc[v] # "idle"
  BY ResolvingLabels
<1> QED BY <1>1, <1>2, <1>3, <1>4, <1>5 DEF Resolves, LocalsKept, AllResolved, ItemsOf

LEMMA ActorResolves ==
  ASSUME IInv, ItemsAreResolved, PlacesAreLinked, NEW w \in Workers, WorkerAct(w)
  PROVE  Resolves(w)'
<1> USE DEF IInv, TypeOK
<1>0. [Next]_vars /\ Resolves(w)
  BY NextCases, ResolvesByWorker
<1>a. /\ Resolving = {"lookup", "survivor", "contribute", "checkpoint"}
      /\ Placed = {"survivor", "contribute", "checkpoint"}
  BY ResolvingLabels
<1>1. CASE pc'[w] \notin {"resolve", "place", "items"} \cup Resolving
  BY <1>1 DEF Resolves
<1>2. CASE UNCHANGED <<pc, locals, plan, operation, leaseOwner, leaseGeneration>>
  BY <1>0, <1>2 DEF Resolves, Holds, AllResolved
<1>3. CASE CheckLease(w)
  <2>1. CASE Holds(w) /\ pc'[w] = "resolve"
    BY <1>a, <1>3, <2>1 DEF CheckLease, Goto, WorkerType, Resolves
  <2>2. CASE ~Holds(w)
    BY <1>a, <1>1, <1>3, <2>2, IdleKeepsOthers DEF CheckLease, Rest
  <2>3. CASE Holds(w) /\ pc'[w] # "resolve"
    BY <1>a, <1>1, <1>3, <2>3 DEF CheckLease, Goto, WorkerType
  <2> QED BY <2>1, <2>2, <2>3
<1>4. CASE ReadPolicyRows(w)
  <2>1. /\ pc[w] = "resolve" /\ todo'[w] = OpenItems(at[w]) /\ UNCHANGED <<known, at, checkpoint>>
        /\ pc'[w] = IF OpenItems(at[w]) = {} THEN "items" ELSE "place"
    BY <1>4 DEF ReadPolicyRows, Goto, WorkerType
  <2> QED BY <1>a, <1>0, <2>1 DEF Resolves, OpenItems, AllResolved
<1>5. CASE CreatePlace(w)
  <2>1. PICK i \in todo[w] : item' = [item EXCEPT ![w] = i]
    BY <1>5, CreatePlaceCases
  <2>2. /\ pc[w] = "place" /\ pc'[w] = "lookup" /\ item'[w] = i
        /\ UNCHANGED <<operation, lease, known, at, gen, todo, checkpoint>>
    BY <1>5, <2>1 DEF CreatePlace, Goto, WorkerType
  <2> QED BY <1>a, <1>0, <2>2 DEF Resolves, Holds
<1>6. CASE LookUpIdentity(w) \/ ResolvePlace(w) \/ ContributeFacts(w)
  <2>1. /\ pc[w] \in Resolving /\ pc'[w] \in Placed \cup {"inactive"}
        /\ UNCHANGED <<operation, lease, known, at, gen, item, todo, checkpoint>>
    BY <1>a, <1>6 DEF LookUpIdentity, ResolvePlace, ContributeFacts, Goto, WorkerType
  <2> QED BY <1>a, <1>0, <2>1 DEF Resolves, Holds
<1>7. CASE WriteCheckpoint(w) /\ pc'[w] \in {"place", "items"}
  <2>1. /\ Holds(w) /\ pc[w] = "checkpoint" /\ checkpoint' = Checkpointed(w)
        /\ UNCHANGED <<operation, lease, gen, known, at>>
        /\ todo' = [todo EXCEPT ![w] = @ \ {item[w]}]
        /\ Goto(w, IF todo[w] = {item[w]} THEN "items" ELSE "place")
    <3>1. ~Idle(w)
      BY <1>7, IdleKeepsOthers DEF Rest
    <3>2. ~Goto(w, "violated")
      BY <1>7 DEF Goto, WorkerType
    <3> QED BY <1>7, <3>1, <3>2 DEF WriteCheckpoint
  <2>2. place[w] # NoPlace /\ item[w] \in todo[w] /\ item[w] \in Items
    BY <1>a, <1>0, <2>1 DEF Resolves, InsideTheLoop
  <2>3. checkpoint'[item[w]] # NoPlace /\ \A i \in Items \ {item[w]} : checkpoint'[i] = checkpoint[i]
    BY <2>1, <2>2 DEF Checkpointed, PlanType
  <2>4. /\ todo'[w] = todo[w] \ {item[w]} /\ todo[w] \subseteq Items
        /\ pc'[w] = IF todo[w] = {item[w]} THEN "items" ELSE "place"
    BY <2>1 DEF Goto, WorkerType
  <2>5. /\ known[w][at[w]].state # "applied"
        /\ \A i \in ItemsOf(at[w]) \ todo[w] : checkpoint[i] # NoPlace
        /\ \A i \in todo[w] : checkpoint[i] = NoPlace
    BY <1>a, <1>0, <2>1 DEF Resolves
  <2>6. \A i \in ItemsOf(at[w]) \ todo'[w] : checkpoint'[i] # NoPlace
    BY <2>3, <2>4, <2>5 DEF ItemsOf
  <2>7. \A i \in todo'[w] : checkpoint'[i] = NoPlace
    BY <2>3, <2>4, <2>5
  <2>8. pc'[w] = "items" => AllResolved(at[w])'
    BY <2>1, <2>4, <2>6 DEF AllResolved
  <2> QED BY <1>a, <2>1, <2>4, <2>5, <2>6, <2>7, <2>8 DEF Resolves
<1>8. CASE Idle(w)
  BY <1>a, <1>1, <1>8, IdleKeepsOthers DEF Rest
<1>9. CASE \/ Claim(w) \/ LoadMappings(w) \/ ReadItems(w) \/ TransientError(w)
           \/ ContributionFails(w) \/ (RecordApplied(w) /\ ~Idle(w))
  BY <1>a, <1>1, <1>9 DEF Claim, LoadMappings, ReadItems, TransientError, ContributionFails,
     RecordApplied, Goto, WorkerType
<1>10. CASE MaterializeList(w)
  BY <1>a, <1>1, <1>10, AnswerKeepsOthers
<1>11. CASE Heartbeat(w) \/ ClaimCancelled(w)
  <2>1. CASE Heartbeat(w)
    BY <1>2, <2>1 DEF Heartbeat
  <2>2. CASE ClaimCancelled(w)
    BY <1>a, <1>1, <2>2 DEF ClaimCancelled
  <2> QED BY <1>11, <2>1, <2>2
<1>12. CASE AcknowledgeCancel(w) \/ Block(w) \/ Complete(w) \/ RecordFailure(w) \/ Crash(w)
  BY <1>8, <1>12 DEF AcknowledgeCancel, Block, Complete, RecordFailure, Crash
<1>13. CASE RecordApplied(w) \/ WriteCheckpoint(w)
  BY <1>a, <1>1, <1>7, <1>8, <1>9, <1>13 DEF WriteCheckpoint, Goto, WorkerType
<1>14. CASE WorkerStep(w)
  <2>1. CASE ClaimCancelled(w) \/ Claim(w) \/ LoadMappings(w) \/ CheckLease(w)
    BY <1>3, <1>9, <1>11, <2>1
  <2>2. CASE ReadPolicyRows(w) \/ CreatePlace(w) \/ ContributionFails(w)
    BY <1>4, <1>5, <1>9, <2>2
  <2>3. CASE LookUpIdentity(w) \/ ResolvePlace(w) \/ ContributeFacts(w)
    BY <1>6, <2>3
  <2>4. CASE \/ ReadItems(w) \/ MaterializeList(w) \/ RecordApplied(w) \/ WriteCheckpoint(w)
    BY <1>9, <1>10, <1>13, <2>4
  <2>5. CASE AcknowledgeCancel(w) \/ Block(w) \/ Complete(w) \/ RecordFailure(w)
    BY <1>12, <2>5
  <2> QED BY <1>14, <2>1, <2>2, <2>3, <2>4, <2>5 DEF WorkerStep
<1> QED BY <1>9, <1>11, <1>12, <1>14 DEF WorkerAct

LEMMA ResolvedKept ==
  ASSUME IInv, ItemsAreResolved, PlacesAreLinked, [Next]_vars PROVE ItemsAreResolved'
<1> SUFFICES ASSUME NEW v \in Workers PROVE Resolves(v)'
  BY DEF ItemsAreResolved, Resolves, Holds
<1> QED BY ActsOrRests, ActorResolves, BystanderResolves DEF IInv

(* What PlacesAreLinked says of one worker.                                *)
IsLinked(w) ==
  /\ pc[w] # "violated"
  /\ pc[w] \in Resolving => decision[item[w]] # "none"
  /\ pc[w] \in Placed => StandsFor(ItemIdentity[item[w]], place[w])

LEMMA LinkedByWorker == PlacesAreLinked <=> \A w \in Workers : IsLinked(w)
  BY DEF PlacesAreLinked, IsLinked

LEMMA BystanderLinked ==
  ASSUME IInv, PlacesAreLinked, CanonicalMoves, NEW v \in Workers, LocalsKept(v)
  PROVE  IsLinked(v)'
<1> USE DEF IInv, TypeOK, WorkerType
<1>1. IsLinked(v) /\ ItemIdentity \in [Items -> Identities]
  BY ParameterTypes, LinkedByWorker
<1>2. pc[v] \in Resolving => item[v] \in Items
  BY DEF InsideTheLoop
<1>3. ASSUME pc[v] \in Placed PROVE StandsFor(ItemIdentity[item[v]], place[v])'
  <2>1. item[v] \in Items /\ place[v] \in Places /\ StandsFor(ItemIdentity[item[v]], place[v])
    BY <1>1, <1>2, <1>3 DEF Resolving, InsideTheLoop, IsLinked
  <2>2. StandsNext(ItemIdentity[item[v]], place[v])
    BY <1>1, <2>1, StandsOn
  <2> QED BY <2>2 DEF LocalsKept, StandsFor, StandsNext
<1> QED BY <1>1, <1>2, <1>3 DEF IsLinked, CanonicalMoves, LocalsKept

LEMMA ActorLinked ==
  ASSUME IInv, ItemsAreResolved, PlacesAreLinked, IdentitiesAreLinked, CanonicalMoves,
         NEW w \in Workers, WorkerAct(w)
  PROVE  IsLinked(w)'
<1> USE DEF IInv, TypeOK
<1>0. [Next]_vars /\ Resolves(w) /\ IsLinked(w) /\ ItemIdentity \in [Items -> Identities]
  BY NextCases, ResolvesByWorker, LinkedByWorker, ParameterTypes
<1>a. /\ Resolving = {"lookup", "survivor", "contribute", "checkpoint"}
      /\ Placed = {"survivor", "contribute", "checkpoint"}
  BY ResolvingLabels
<1>1. CASE pc'[w] \notin {"violated"} \cup Resolving
  BY <1>a, <1>1 DEF IsLinked
<1>2. CASE LocalsKept(w)
  BY <1>2, BystanderLinked
<1>3. CASE CreatePlace(w)
  <2>1. PICK i \in todo[w] :
           /\ i \in Items /\ item' = [item EXCEPT ![w] = i]
           /\ Creates(i) \/ LeavesLinked(i) \/ (UNCHANGED identities /\ decision[i] # "none")
    BY <1>3, CreatePlaceCases
  <2>2. pc'[w] = "lookup" /\ item'[w] = i
    BY <1>3, <2>1 DEF CreatePlace, Goto, WorkerType
  <2>3. decision'[i] # "none"
    BY <2>1 DEF Creates, LeavesLinked, CanonicalType
  <2> QED BY <1>a, <2>1, <2>2, <2>3 DEF IsLinked
<1>4. CASE LookUpIdentity(w)
  <2> DEFINE x == ItemIdentity[item[w]]
             p == identityPlace[x]
  <2>1. pc[w] = "lookup" /\ item' = item /\ UNCHANGED canonical
        /\ place' = [place EXCEPT ![w] = p]
    BY <1>4 DEF LookUpIdentity
  <2>2. item[w] \in Items /\ decision[item[w]] # "none"
    BY <1>a, <1>0, <2>1 DEF IsLinked, InsideTheLoop
  <2>3. p # NoPlace /\ x \in Identities
    BY <1>0, <2>2 DEF IdentitiesAreLinked
  <2>4. p \in Places /\ survivor[p] = p
    BY <2>3 DEF IdentitiesAreLinked, CanonicalType
  <2>5. pc'[w] = "survivor" /\ place'[w] = p
    BY <1>4, <2>1, <2>3 DEF LookUpIdentity, Goto, WorkerType
  <2>6. StandsNext(x, p)
    BY <2>1, <2>4 DEF StandsNext
  <2> QED BY <1>a, <2>1, <2>2, <2>5, <2>6 DEF IsLinked, StandsFor, StandsNext
<1>5. CASE ResolvePlace(w)
  <2> DEFINE x == ItemIdentity[item[w]]
             p == survivor[place[w]]
  <2>1. pc[w] = "survivor" /\ item' = item /\ UNCHANGED canonical
    BY <1>5 DEF ResolvePlace
  <2>2. item[w] \in Items /\ decision[item[w]] # "none" /\ place[w] \in Places
        /\ StandsFor(x, place[w])
    BY <1>a, <1>0, <2>1 DEF IsLinked, InsideTheLoop, WorkerType
  <2>3. p \in Places /\ survivor[p] = p
    BY <2>2 DEF IdentitiesAreLinked, CanonicalType
  <2>4. StandsNext(x, p)
    BY <2>1, <2>2, <2>3 DEF StandsFor, StandsNext
  <2>5. pc'[w] = "inactive" \/ (place'[w] = p /\ pc'[w] \in Placed)
    BY <1>a, <1>5 DEF ResolvePlace, Goto, WorkerType
  <2> QED BY <1>a, <2>1, <2>2, <2>4, <2>5 DEF IsLinked, StandsFor, StandsNext
<1>6. CASE ContributeFacts(w)
  <2>1. /\ pc[w] = "contribute" /\ pc'[w] = "checkpoint"
        /\ UNCHANGED <<item, place, identities>>
    BY <1>6 DEF ContributeFacts, Goto, WorkerType
  <2>2. decision[item[w]] # "none" /\ StandsFor(ItemIdentity[item[w]], place[w])
    BY <1>a, <1>0, <2>1 DEF IsLinked
  <2> QED BY <1>a, <2>1, <2>2 DEF IsLinked, StandsFor
<1>7. CASE WriteCheckpoint(w)
  <2>1. ASSUME Holds(w) PROVE mapping[at[w]].state # "applied" /\ checkpoint[item[w]] = NoPlace
    <3>1. pc[w] = "checkpoint" /\ at[w] \in Lists /\ at[w] >= at[w]
      BY <1>a, <1>7, ParameterTypes DEF WriteCheckpoint, InsideTheLoop, Lists
    <3>2. mapping[at[w]] = known[w][at[w]]
      BY <2>1, <3>1 DEF SnapshotStillTrue
    <3> QED BY <1>a, <1>0, <2>1, <3>1, <3>2 DEF Resolves
  <2>2. CASE Idle(w)
    BY <1>a, <1>1, <2>2, IdleKeepsOthers DEF Rest
  <2>3. CASE ~Idle(w)
    BY <1>a, <1>1, <1>7, <2>1, <2>3 DEF WriteCheckpoint, Goto, WorkerType
  <2> QED BY <2>2, <2>3
<1>8. CASE ReadItems(w)
  <2>1. AllResolved(at[w]) /\ pc'[w] = "library"
    BY <1>0, <1>8 DEF ReadItems, Resolves, AllResolved, Goto, WorkerType
  <2> QED BY <1>a, <1>1, <2>1
<1>9. CASE Idle(w)
  BY <1>a, <1>1, <1>9, IdleKeepsOthers DEF Rest
<1>10. CASE MaterializeList(w)
  BY <1>a, <1>1, <1>10, AnswerKeepsOthers
<1>11. CASE \/ Claim(w) \/ LoadMappings(w) \/ TransientError(w) \/ ReadPolicyRows(w)
            \/ ContributionFails(w) \/ (~Idle(w) /\ (RecordApplied(w) \/ CheckLease(w)))
  BY <1>a, <1>1, <1>11 DEF Claim, LoadMappings, TransientError, ReadPolicyRows,
     ContributionFails, RecordApplied, CheckLease, Goto, WorkerType
<1>12. CASE Heartbeat(w) \/ ClaimCancelled(w)
  BY <1>2, <1>12 DEF Heartbeat, ClaimCancelled, LocalsKept
<1>13. CASE AcknowledgeCancel(w) \/ Block(w) \/ Complete(w) \/ RecordFailure(w) \/ Crash(w)
  BY <1>9, <1>13 DEF AcknowledgeCancel, Block, Complete, RecordFailure, Crash
<1>14. CASE WorkerStep(w)
  <2>1. CASE ClaimCancelled(w) \/ Claim(w) \/ LoadMappings(w) \/ CheckLease(w)
    BY <1>9, <1>11, <1>12, <2>1
  <2>2. CASE ReadPolicyRows(w) \/ CreatePlace(w) \/ ContributionFails(w)
    BY <1>3, <1>11, <2>2
  <2>3. CASE LookUpIdentity(w) \/ ResolvePlace(w) \/ ContributeFacts(w)
    BY <1>4, <1>5, <1>6, <2>3
  <2>4. CASE \/ ReadItems(w) \/ MaterializeList(w) \/ RecordApplied(w) \/ WriteCheckpoint(w)
    BY <1>7, <1>8, <1>9, <1>10, <1>11, <2>4
  <2>5. CASE AcknowledgeCancel(w) \/ Block(w) \/ Complete(w) \/ RecordFailure(w)
    BY <1>13, <2>5
  <2> QED BY <1>14, <2>1, <2>2, <2>3, <2>4, <2>5 DEF WorkerStep
<1> QED BY <1>11, <1>12, <1>13, <1>14 DEF WorkerAct

LEMMA PlacesKept ==
  ASSUME IInv, ItemsAreResolved, PlacesAreLinked, IdentitiesAreLinked, CanonicalMoves,
         [Next]_vars
  PROVE  PlacesAreLinked'
<1> SUFFICES ASSUME NEW v \in Workers PROVE IsLinked(v)'
  BY DEF PlacesAreLinked, IsLinked
<1> QED BY ActsOrRests, ActorLinked, BystanderLinked DEF IInv

LEMMA CheckpointsFollow ==
  ASSUME IInv, PlacesAreLinked, CheckpointFollowsIdentity, CanonicalMoves, [Next]_vars
  PROVE  CheckpointFollowsIdentity'
<1> USE DEF IInv, TypeOK, PlanType, WorkerType
<1>0. ItemIdentity \in [Items -> Identities]
  BY ParameterTypes
<1> SUFFICES ASSUME NEW i \in Items, checkpoint'[i] # NoPlace
             PROVE  StandsFor(ItemIdentity[i], checkpoint[i])'
  BY DEF CheckpointFollowsIdentity, StandsFor
<1>1. CASE checkpoint'[i] = checkpoint[i]
  <2>1. StandsFor(ItemIdentity[i], checkpoint[i]) /\ checkpoint[i] \in Places
    BY <1>1 DEF CheckpointFollowsIdentity
  <2>2. StandsNext(ItemIdentity[i], checkpoint[i])
    BY <1>0, <2>1, StandsOn
  <2> QED BY <1>1, <2>2 DEF StandsFor, StandsNext
<1>2. CASE checkpoint'[i] # checkpoint[i]
  <2>1. PICK w \in Workers : WriteCheckpoint(w) /\ checkpoint' = Checkpointed(w)
    BY <1>2, CheckpointWriters
  <2>2. i = item[w] /\ checkpoint'[i] = place[w] /\ UNCHANGED canonical /\ pc[w] = "checkpoint"
    BY <1>2, <2>1 DEF Checkpointed, WriteCheckpoint
  <2>3. StandsFor(ItemIdentity[i], place[w])
    BY <2>2 DEF PlacesAreLinked, Placed
  <2> QED BY <2>2, <2>3 DEF StandsFor
<1> QED BY <1>1, <1>2

-----------------------------------------------------------------------------
(* Requests and receipts.                                                  *)

LEMMA ExpectedStays ==
  ASSUME TypeOK, InsideTheLoop, [Next]_vars, NEW l, NEW version, ExpectedAt(l, version),
         \A m \in Lists : m < l => receipt[m].code = "applied"
  PROVE  ExpectedAt(l, version)'
<1>1. \A m \in Lists : m < l => receipt'[m] = receipt[m]
  BY ReceiptsStay
<1> QED BY <1>1 DEF ExpectedAt, LastBefore

LEMMA PlacesStay ==
  ASSUME TypeOK, [Next]_vars, NEW l, AllResolved(l)
  PROVE  AllResolved(l)' /\ PlacesOf(l)' = PlacesOf(l)
<1>1. \A i \in ItemsOf(l) : checkpoint'[i] = checkpoint[i]
  BY CheckpointsStay DEF AllResolved, ItemsOf
<1> QED BY <1>1 DEF PlacesOf, AllResolved

LEMMA ExpectedIsOne ==
  ASSUME NEW l \in Lists, NEW a, NEW b, ExpectedAt(l, a), ExpectedAt(l, b)
  PROVE  a = b
<1>1. ASSUME NEW m \in Lists, NEW n \in Lists, LastBefore(l, Target[l], m), LastBefore(l, Target[l], n)
      PROVE  m = n
  BY <1>1, ParameterTypes DEF LastBefore, Lists
<1>2. CASE TargetKind[l] = "new"
  BY <1>2 DEF ExpectedAt
<1>3. CASE TargetKind[l] # "new" /\ \E m \in Lists : m < l /\ Target[m] = Target[l]
  BY <1>1, <1>3 DEF ExpectedAt
<1>4. CASE TargetKind[l] # "new" /\ \A m \in Lists : m < l => Target[m] # Target[l]
  BY <1>4 DEF ExpectedAt, LastBefore
<1> QED BY <1>2, <1>3, <1>4

(* What RequestsAgree says of one worker.                                  *)
Asks(w) == pc[w] = "library" =>
  /\ AllResolved(at[w]) /\ request[w].places = PlacesOf(at[w])
  /\ ExpectedAt(at[w], request[w].expected)

LEMMA ActorAsks ==
  ASSUME IInv, ItemsAreResolved, VersionsFollowReceipts, ReceiptsAgree,
         NEW w \in Workers, ReadItems(w)
  PROVE  Asks(w)'
<1> USE DEF IInv, TypeOK
<1> DEFINE l == at[w]
           c == Target[l]
<1>1. pc[w] = "items" /\ AllResolved(l) /\ l \in Lists /\ c \in Collections
  BY ResolvesByWorker, ParameterTypes DEF ReadItems, Resolves, InsideTheLoop
<1>2. /\ request' = [request EXCEPT ![w] = Request(ExpectedVersion(w), PlacesOf(l))]
      /\ UNCHANGED <<at, receipt, checkpoint>>
  BY <1>1 DEF ReadItems, AllResolved, PlacesOf
<1>3. request'[w].expected = ExpectedVersion(w) /\ request'[w].places = PlacesOf(l)
  BY <1>2 DEF Request, WorkerType
<1>4. ExpectedAt(l, ExpectedVersion(w))
  <2>1. CASE TargetKind[l] = "new"
    BY <2>1 DEF ExpectedAt, ExpectedVersion
  <2>2. CASE TargetKind[l] # "new"
    <3>1. CASE versions[w][c] = 0 /\ \A m \in Lists : m < l => Target[m] # c
      BY <2>2, <3>1 DEF ExpectedAt, ExpectedVersion
    <3>2. CASE \E m \in Lists : LastBefore(l, c, m) /\ versions[w][c] = receipt[m].version
      <4>1. PICK m \in Lists : LastBefore(l, c, m) /\ versions[w][c] = receipt[m].version
        BY <3>2
      <4>2. receipt[m].version # 0
        BY <4>1 DEF VersionsFollowReceipts, ReceiptsAgree, LastBefore
      <4> QED BY <2>2, <4>1, <4>2 DEF ExpectedAt, ExpectedVersion
    <3> QED BY <1>1, <3>1, <3>2 DEF VersionsFollowReceipts
  <2> QED BY <2>1, <2>2
<1> QED BY <1>1, <1>2, <1>3, <1>4 DEF Asks, AllResolved, PlacesOf, ExpectedAt

LEMMA LibraryEntrance ==
  ASSUME TypeOK, NEW w \in Workers, WorkerAct(w), pc'[w] = "library"
  PROVE  ReadItems(w) \/ LocalsKept(w)
<1> USE DEF TypeOK
<1>1. ~Idle(w) /\ ~MaterializeList(w)
  BY IdleKeepsOthers, AnswerKeepsOthers DEF Rest
<1> QED BY <1>1
  DEF WorkerAct, WorkerStep, ClaimCancelled, Claim, LoadMappings, CheckLease,
      AcknowledgeCancel, ReadPolicyRows, CreatePlace, LookUpIdentity, ResolvePlace,
      ContributeFacts, ContributionFails, WriteCheckpoint, RecordApplied, Block, Complete,
      RecordFailure, Heartbeat, Crash, TransientError, Goto, WorkerType, LocalsKept

LEMMA RequestsKept ==
  ASSUME IInv, ItemsAreResolved, VersionsFollowReceipts, ReceiptsAgree, RequestsAgree,
         [Next]_vars
  PROVE  RequestsAgree'
<1> USE DEF IInv
<1> SUFFICES ASSUME NEW v \in Workers, pc'[v] = "library" PROVE Asks(v)'
  BY DEF RequestsAgree, Asks
<1>1. CASE LocalsKept(v)
  <2> DEFINE l == at[v]
  <2>1. pc[v] = "library" /\ at'[v] = l /\ request'[v] = request[v]
    BY <1>1 DEF LocalsKept
  <2>2. AllResolved(l) /\ request[v].places = PlacesOf(l) /\ ExpectedAt(l, request[v].expected)
    BY <2>1 DEF RequestsAgree
  <2>3. \A m \in Lists : m < l => receipt[m].code = "applied"
    BY DEF VersionsFollowReceipts
  <2>4. ASSUME NEW k, k = l, NEW e, e = request[v].expected
        PROVE  AllResolved(k)' /\ PlacesOf(k)' = PlacesOf(k) /\ ExpectedAt(k, e)'
    BY <2>2, <2>3, <2>4, PlacesStay, ExpectedStays
  <2>5. AllResolved(at[v])' /\ PlacesOf(at[v])' = PlacesOf(l) /\ ExpectedAt(at[v], request[v].expected)'
    BY <2>1, <2>4 DEF AllResolved, PlacesOf, ExpectedAt, LastBefore
  <2> QED BY <2>1, <2>2, <2>5 DEF Asks
<1>2. CASE WorkerAct(v) /\ ~LocalsKept(v)
  BY <1>2, LibraryEntrance, ActorAsks
<1> QED BY <1>1, <1>2, ActsOrRests

(* The three ends of the Library transaction.                              *)
Replays(w) ==
  /\ receipt[at[w]].code # "none" /\ UNCHANGED library
  /\ IF receipt[at[w]].request # request[w] THEN Answer(w, "operation-id-reused", 0)
     ELSE Answer(w, receipt[at[w]].code, receipt[at[w]].version)
Delivers(w) ==
  LET l == at[w]
      version == AppliedRevision(l, {request[w].places[i] : i \in ItemsOf(l)})
  IN /\ receipt[l].code = "none" /\ Verdict(l, request[w]) = "applied"
     /\ Answer(w, "applied", version)
     /\ version \in Nat \ {0}
     /\ revision' = [revision EXCEPT ![Target[l]] = version]
     /\ binding' = [binding EXCEPT ![l] = [collection |-> Target[l], revision |-> @.revision + 1]]
     /\ receipt' = [receipt EXCEPT ![l] = [code |-> "applied", request |-> request[w],
                                           version |-> version]]
Refuses(w) ==
  LET l == at[w] IN
  /\ receipt[l].code = "none" /\ Verdict(l, request[w]) # "applied"
  /\ Answer(w, Verdict(l, request[w]), 0)
  /\ UNCHANGED <<revision, members, binding>>
  /\ receipt' = [receipt EXCEPT ![l] = [code |-> Verdict(l, request[w]), request |-> request[w],
                                        version |-> 0]]

LEMMA MaterializeCases ==
  ASSUME TypeOK, InsideTheLoop, NEW w \in Workers, MaterializeList(w)
  PROVE  /\ at[w] \in Lists /\ at' = at /\ pc[w] = "library" /\ interference' = interference
         /\ Replays(w) \/ Delivers(w) \/ Refuses(w)
<1> USE DEF TypeOK
<1> DEFINE l == at[w]
           delivered == {request[w].places[i] : i \in ItemsOf(l)}
<1>1. /\ l \in Lists /\ at' = at /\ pc[w] = "library" /\ Target[l] \in Collections
      /\ interference' = interference
  BY ParameterTypes DEF MaterializeList, InsideTheLoop
<1>2. CASE Answered(l)
  BY <1>1, <1>2 DEF MaterializeList, Answered, Replays
<1>3. CASE ~Answered(l) /\ Verdict(l, request[w]) = "applied"
  <2>1. AppliedRevision(l, delivered) \in Nat \ {0}
    BY <1>1 DEF AppliedRevision, LibraryType
  <2> QED BY <1>1, <1>3, <2>1 DEF MaterializeList, Answered, Delivers, Deliver
<1>4. CASE ~Answered(l) /\ Verdict(l, request[w]) # "applied"
  BY <1>1, <1>4 DEF MaterializeList, Answered, Refuses
<1> QED BY <1>1, <1>2, <1>3, <1>4

(* What ReceiptsAgree says of one list.                                    *)
ReceiptAgrees(l) ==
  receipt[l].code # "none" =>
    /\ AllResolved(l) /\ receipt[l].request.places = PlacesOf(l)
    /\ ExpectedAt(l, receipt[l].request.expected)
    /\ \A m \in Lists : m < l => receipt[m].code = "applied"
    /\ receipt[l].code = "applied" => receipt[l].version # 0

LEMMA ReceiptsKept ==
  ASSUME IInv, VersionsFollowReceipts, ReceiptsAgree, RequestsAgree, [Next]_vars
  PROVE  ReceiptsAgree'
<1> USE DEF IInv, TypeOK
<1> SUFFICES ASSUME NEW l \in Lists, receipt'[l].code # "none" PROVE ReceiptAgrees(l)'
  BY DEF ReceiptsAgree, ReceiptAgrees
<1>1. ASSUME NEW e, AllResolved(l), ExpectedAt(l, e),
             \A m \in Lists : m < l => receipt[m].code = "applied"
      PROVE  /\ AllResolved(l)' /\ PlacesOf(l)' = PlacesOf(l) /\ ExpectedAt(l, e)'
             /\ \A m \in Lists : m < l => receipt'[m].code = "applied"
  BY <1>1, PlacesStay, ExpectedStays, ReceiptsStay
<1>2. CASE receipt[l].code # "none"
  <2>1. receipt'[l] = receipt[l] /\ ReceiptAgrees(l)
    BY <1>2, ReceiptsStay DEF ReceiptsAgree, ReceiptAgrees
  <2>2. ASSUME NEW e, e = receipt[l].request.expected PROVE ExpectedAt(l, e)'
    BY <1>1, <1>2, <2>1, <2>2 DEF ReceiptAgrees
  <2>3. ExpectedAt(l, receipt[l].request.expected)'
    BY <2>1, <2>2 DEF ExpectedAt
  <2> QED BY <1>1, <1>2, <2>1, <2>3 DEF ReceiptAgrees
<1>3. CASE receipt[l].code = "none"
  <2>1. PICK w \in Workers : MaterializeList(w)
    BY <1>3, ReceiptWriters
  <2>2. Delivers(w) \/ Refuses(w)
    BY <1>3, <2>1, MaterializeCases DEF Replays
  <2>3. /\ l = at[w] /\ receipt'[l].request = request[w]
        /\ receipt'[l].code = "applied" => receipt'[l].version # 0
    <3>1. CASE Delivers(w)
      BY <1>3, <2>1, <3>1, MaterializeCases DEF Delivers, LibraryType
    <3>2. CASE Refuses(w)
      BY <1>3, <2>1, <3>2, MaterializeCases DEF Refuses, LibraryType
    <3> QED BY <2>2, <3>1, <3>2
  <2>4. AllResolved(l) /\ request[w].places = PlacesOf(l) /\ ExpectedAt(l, request[w].expected)
    BY <2>1, <2>3, MaterializeCases DEF RequestsAgree
  <2>5. \A m \in Lists : m < l => receipt[m].code = "applied"
    BY <2>3 DEF VersionsFollowReceipts
  <2>6. ASSUME NEW e, e = request[w].expected PROVE ExpectedAt(l, e)'
    BY <1>1, <2>4, <2>5, <2>6
  <2>7. ExpectedAt(l, receipt[l].request.expected)'
    BY <2>3, <2>6 DEF ExpectedAt
  <2> QED BY <1>1, <2>3, <2>4, <2>5, <2>7 DEF ReceiptAgrees
<1> QED BY <1>2, <1>3

LEMMA AnswersBack ==
  ASSUME TypeOK, InsideTheLoop, NEW w \in Workers, NEW code, NEW version, Answer(w, code, version)
  PROVE  /\ outcome'[w].code = code
         /\ pc'[w] = "block" => code # "applied"
  BY DEF Answer, Goto, TypeOK, WorkerType

LEMMA RefusalsKept ==
  ASSUME IInv, ReceiptsAgree, RequestsAgree, RefusalIsBacked, [Next]_vars
  PROVE  RefusalIsBacked'
<1> USE DEF IInv
<1>1. ASSUME NEW w \in Workers, MaterializeList(w)
      PROVE  /\ \A l \in Lists : receipt'[l].code # "operation-id-reused"
             /\ outcome'[w].code # "operation-id-reused"
             /\ pc'[w] = "block" => receipt'[at'[w]].code \notin {"none", "applied"}
  <2> DEFINE l == at[w]
  <2>1. l \in Lists /\ at' = at /\ pc[w] = "library"
    BY <1>1, MaterializeCases
  <2>2. CASE Replays(w)
    <3>1. ExpectedAt(l, receipt[l].request.expected) /\ receipt[l].request.places = PlacesOf(l)
      BY <2>1, <2>2 DEF Replays, ReceiptsAgree
    <3>2. ExpectedAt(l, request[w].expected) /\ request[w].places = PlacesOf(l)
      BY <2>1 DEF RequestsAgree
    <3>3. receipt[l].request.expected = request[w].expected
      BY <2>1, <3>1, <3>2, ExpectedIsOne
    <3>4. receipt[l].request \in Requests /\ request[w] \in Requests
      BY <2>1 DEF TypeOK, LibraryType, WorkerType, Receipts
    <3>5. receipt[l].request = request[w]
      BY <3>1, <3>2, <3>3, <3>4 DEF Requests
    <3>6. Answer(w, receipt[l].code, receipt[l].version) /\ receipt' = receipt
      BY <2>2, <3>5 DEF Replays
    <3> QED BY <2>1, <2>2, <3>6, AnswersBack DEF Replays, RefusalIsBacked
  <2>3. CASE Delivers(w)
    <3>1. outcome'[w].code = "applied" /\ pc'[w] # "block"
      BY <2>3, AnswersBack DEF Delivers
    <3>2. \A k \in Lists : receipt'[k].code \in {receipt[k].code, "applied"}
      BY <2>3 DEF Delivers, TypeOK, LibraryType
    <3> QED BY <3>1, <3>2 DEF RefusalIsBacked
  <2>4. CASE Refuses(w)
    <3>1. Verdict(l, request[w]) \in {"binding-version-conflict", "not-found", "version-conflict"}
      BY <2>4 DEF Refuses, Verdict
    <3>2. outcome'[w].code = Verdict(l, request[w])
      BY <2>4, AnswersBack DEF Refuses
    <3>3. receipt'[l].code = Verdict(l, request[w])
          /\ \A k \in Lists : k # l => receipt'[k] = receipt[k]
      BY <2>1, <2>4 DEF Refuses, TypeOK, LibraryType
    <3> QED BY <2>1, <3>1, <3>2, <3>3 DEF RefusalIsBacked
  <2> QED BY <1>1, <2>2, <2>3, <2>4, MaterializeCases
<1>2. ASSUME NEW v \in Workers, LocalsKept(v)
      PROVE  /\ outcome'[v].code # "operation-id-reused"
             /\ pc'[v] = "block" => receipt'[at'[v]].code \notin {"none", "applied"}
  <2>1. pc[v] = "block" => at[v] \in Lists /\ receipt[at[v]].code \notin {"none", "applied"}
    BY DEF InsideTheLoop, RefusalIsBacked
  <2>2. pc[v] = "block" => receipt'[at[v]] = receipt[at[v]]
    BY <2>1, ReceiptsStay
  <2> QED BY <1>2, <2>1, <2>2 DEF LocalsKept, RefusalIsBacked
<1>3. ASSUME NEW w \in Workers, WorkerAct(w), ~MaterializeList(w), ~LocalsKept(w)
      PROVE  outcome'[w].code # "operation-id-reused" /\ pc'[w] # "block"
  <2> USE DEF TypeOK, WorkerType
  <2>1. CASE Idle(w) \/ TransientError(w) \/ ContributionFails(w)
    <3>1. Forget(w) /\ pc'[w] \in {"idle", "failing"}
      BY <2>1 DEF Idle, TransientError, ContributionFails, Goto
    <3> QED BY <3>1, ForgetsAll DEF Forgotten, NoOutcome
  <2>2. CASE RecordApplied(w) /\ ~Idle(w)
    BY <2>2 DEF RecordApplied, Goto, NoOutcome
  <2>3. CASE ~Idle(w) /\ ~TransientError(w) /\ ~ContributionFails(w) /\ ~RecordApplied(w)
    <3>1. outcome' = outcome /\ pc'[w] # "block"
      BY <1>3, <2>3 DEF WorkerAct, WorkerStep, ClaimCancelled, Claim, LoadMappings,
         CheckLease, AcknowledgeCancel, ReadPolicyRows, CreatePlace, LookUpIdentity,
         ResolvePlace, ContributeFacts, ContributionFails, WriteCheckpoint, ReadItems,
         Block, Complete, RecordFailure, Heartbeat, Crash, Goto, LocalsKept
    <3> QED BY <3>1 DEF RefusalIsBacked
  <2> QED BY <2>1, <2>2, <2>3
<1>4. \A l \in Lists : receipt'[l].code # "operation-id-reused"
  BY <1>1, ReceiptWriters DEF RefusalIsBacked
<1>5. \A v \in Workers :
        /\ outcome'[v].code # "operation-id-reused"
        /\ pc'[v] = "block" => receipt'[at'[v]].code \notin {"none", "applied"}
  BY <1>1, <1>2, <1>3, ActsOrRests
<1> QED BY <1>4, <1>5 DEF RefusalIsBacked

-----------------------------------------------------------------------------
(* A Library that nobody else writes to.                                   *)

LEMMA LibraryWriters ==
  ASSUME TypeOK, InsideTheLoop, [Next]_vars
  PROVE  \/ UNCHANGED library /\ interference' \in {interference, interference + 1}
         \/ interference' = interference + 1
         \/ \E w \in Workers : MaterializeList(w) /\ interference' = interference
<1>1. CASE BackgroundStep
  BY <1>1 DEF BackgroundStep, MemberStep, Approve, ReadOperation, Cancel, Requeue,
     OtherStep, Interfere, EditCollection, DeleteCollection, OtherImport, Review,
     LinkIdentity, MergePlaces, SplitIdentity, RetirePlace, Fault, LeaseExpires, BackoffEnds
<1>2. ASSUME NEW w \in Workers, WorkerAct(w), ~MaterializeList(w)
      PROVE  UNCHANGED library /\ interference' = interference
  BY <1>2 DEF WorkerAct, WorkerStep, ClaimCancelled, Claim, LoadMappings, CheckLease,
     AcknowledgeCancel, ReadPolicyRows, CreatePlace, LookUpIdentity, ResolvePlace,
     ContributeFacts, ContributionFails, WriteCheckpoint, ReadItems, RecordApplied, Block,
     Complete, RecordFailure, Heartbeat, Fault, Crash, TransientError
<1> QED BY <1>1, <1>2, MaterializeCases, NextCases

(* What UntouchedLibrary says of a list not yet answered.                  *)
Untouched(l) ==
  /\ FoundAt(l, revision[Target[l]])
  /\ binding[l] = IF PriorBinding[l] = 0 THEN NoBinding
                  ELSE [collection |-> Target[l], revision |-> PriorBinding[l]]

(* A list asked for what the receipts before it say is never refused.      *)
LEMMA NoRefusal ==
  ASSUME TypeOK, ReceiptsAgree, NEW l \in Lists, NEW r, Untouched(l), ExpectedAt(l, r.expected),
         \A m \in Lists : m < l => receipt[m].code = "applied"
  PROVE  Verdict(l, r) = "applied"
<1> DEFINE c == Target[l]
<1>1. /\ ~(binding[l] # NoBinding /\ binding[l].collection # c)
      /\ ~(PriorBinding[l] # 0 /\ binding[l].revision # PriorBinding[l])
  BY DEF Untouched
<1>2. CASE TargetKind[l] = "new"
  <2>1. binding[l] = NoBinding /\ revision[c] = 0
    BY <1>2, DraftsAreValid DEF Untouched, FoundAt
  <2> QED BY <1>1, <1>2, <2>1 DEF Verdict
<1>3. CASE TargetKind[l] # "new"
  <2>1. TargetKind[l] = "existing"
    BY <1>3, ParameterTypes
  <2>2. revision[c] = r.expected /\ revision[c] # 0
    <3>1. CASE /\ revision[c] = 1
               /\ \A m \in Lists : m < l /\ Target[m] = c => receipt[m].code = "none"
      <4>1. \A m \in Lists : m < l => Target[m] # c
        BY <3>1
      <4> QED BY <1>3, <3>1, <4>1 DEF ExpectedAt, LastBefore
    <3>2. CASE \E m \in Lists :
                 /\ m < l /\ Target[m] = c
                 /\ receipt[m].code = "applied" /\ revision[c] = receipt[m].version
                 /\ \A n \in Lists : m < n /\ n < l /\ Target[n] = c => receipt[n].code = "none"
      <4>1. PICK m \in Lists :
                 /\ m < l /\ Target[m] = c
                 /\ receipt[m].code = "applied" /\ revision[c] = receipt[m].version
                 /\ \A n \in Lists : m < n /\ n < l /\ Target[n] = c => receipt[n].code = "none"
        BY <3>2
      <4>2. LastBefore(l, c, m)
        BY <4>1 DEF LastBefore
      <4>3. ExpectedAt(l, receipt[m].version)
        BY <1>3, <4>2 DEF ExpectedAt
      <4>4. receipt[m].version = r.expected
        BY <4>3, ExpectedIsOne
      <4>5. receipt[m].version # 0
        BY <4>1 DEF ReceiptsAgree
      <4> QED BY <4>1, <4>4, <4>5
    <3> QED BY <1>3, <3>1, <3>2 DEF Untouched, FoundAt
  <2> QED BY <1>1, <1>3, <2>1, <2>2 DEF Verdict
<1> QED BY <1>2, <1>3

(* A delivery leaves what the lists after it have to find.                 *)
LEMMA DeliveryLeaves ==
  ASSUME TypeOK, ReceiptsAgree, NEW w \in Workers, Delivers(w), NEW l \in Lists, l = at[w],
         \A m \in Lists : m < l => receipt[m].code = "applied",
         NEW k \in Lists, receipt'[k].code = "none", Untouched(k)
  PROVE  Untouched(k)'
<1> USE DEF TypeOK, LibraryType
<1> DEFINE version == receipt'[l].version
<1>1. /\ receipt[l].code = "none" /\ receipt'[l].code = "applied"
      /\ \A n \in Lists : n # l => receipt'[n] = receipt[n] /\ binding'[n] = binding[n]
      /\ revision'[Target[l]] = version
      /\ \A c \in Collections : c # Target[l] => revision'[c] = revision[c]
  BY ParameterTypes DEF Delivers
<1>2. k # l /\ receipt[k].code = "none" /\ binding'[k] = binding[k] /\ l < k
  BY <1>1, ParameterTypes DEF Lists
<1>3. FoundAt(k, revision[Target[k]]) /\ Target[k] \in Collections
  BY ParameterTypes DEF Untouched
<1>4. FoundAt(k, revision[Target[k]])'
  <2>1. CASE TargetKind[k] = "new"
    <3>1. Target[k] # Target[l]
      BY <1>2, <2>1, DraftsAreValid
    <3> QED BY <1>1, <1>3, <2>1, <3>1 DEF FoundAt
  <2>2. CASE TargetKind[k] # "new" /\ Target[k] = Target[l]
    <3>1. \A n \in Lists : l < n => receipt'[n].code = "none"
      BY <1>1, ParameterTypes DEF ReceiptsAgree, Lists
    <3> QED BY <1>1, <1>2, <2>2, <3>1 DEF FoundAt
  <2>3. CASE TargetKind[k] # "new" /\ Target[k] # Target[l]
    <3>1. \A n \in Lists : Target[n] = Target[k] => receipt'[n] = receipt[n]
      BY <1>1, <2>3
    <3>2. revision'[Target[k]] = revision[Target[k]]
      BY <1>1, <1>3, <2>3
    <3> QED BY <1>3, <2>3, <3>1, <3>2 DEF FoundAt
  <2> QED BY <2>1, <2>2, <2>3
<1> QED BY <1>2, <1>4 DEF Untouched

LEMMA UntouchedKept ==
  ASSUME IInv, VersionsFollowReceipts, ReceiptsAgree, RequestsAgree, UntouchedLibrary,
         [Next]_vars
  PROVE  UntouchedLibrary'
<1> USE DEF IInv
<1> SUFFICES ASSUME interference' = 0, NEW k \in Lists
             PROVE  /\ receipt'[k].code \in {"none", "applied"}
                    /\ receipt'[k].code = "none" => Untouched(k)'
  BY DEF UntouchedLibrary, Untouched
<1>0. interference \in Nat
  BY DEF TypeOK, MemberType
<1>1. interference = 0 /\ (UNCHANGED library \/ \E w \in Workers : MaterializeList(w))
  BY <1>0, LibraryWriters
<1>2. /\ receipt[k].code \in {"none", "applied"}
      /\ receipt[k].code = "none" => Untouched(k)
  BY <1>1 DEF UntouchedLibrary, Untouched
<1>3. CASE UNCHANGED library
  BY <1>2, <1>3 DEF Untouched, FoundAt
<1>4. ASSUME NEW w \in Workers, MaterializeList(w)
      PROVE  /\ receipt'[k].code \in {"none", "applied"}
             /\ receipt'[k].code = "none" => Untouched(k)'
  <2> DEFINE l == at[w]
  <2>1. l \in Lists /\ pc[w] = "library" /\ \A m \in Lists : m < l => receipt[m].code = "applied"
    BY <1>4, MaterializeCases DEF VersionsFollowReceipts
  <2>2. CASE Replays(w)
    BY <1>3, <2>2 DEF Replays
  <2>3. CASE Delivers(w)
    <3>1. receipt'[k].code \in {"applied", receipt[k].code}
      BY <2>1, <2>3 DEF Delivers, TypeOK, LibraryType
    <3>2. ASSUME receipt'[k].code = "none" PROVE Untouched(k)'
      <4>1. receipt[k].code = "none"
        BY <2>1, <2>3, <3>2 DEF Delivers, TypeOK, LibraryType
      <4> QED BY <1>2, <2>1, <2>3, <3>2, <4>1, DeliveryLeaves
    <3> QED BY <1>2, <3>1, <3>2
  <2>4. CASE Refuses(w)
    <3>1. ExpectedAt(l, request[w].expected)
      BY <2>1 DEF RequestsAgree
    <3>2. Untouched(l)
      BY <1>1, <2>1, <2>4 DEF Refuses, UntouchedLibrary, Untouched
    <3> QED BY <2>1, <2>4, <3>1, <3>2, NoRefusal DEF Refuses
  <2> QED BY <1>4, <2>2, <2>3, <2>4, MaterializeCases
<1> QED BY <1>1, <1>3, <1>4

-----------------------------------------------------------------------------
(* The invariant, and what follows from it.                                *)

LEMMA InitAgreement == Init => AgreementInv
<1> SUFFICES ASSUME Init PROVE AgreementInv
  OBVIOUS
<1>1. RunsAreApproved /\ ViewIsTheRow /\ ItemsAreResolved /\ RequestsAgree /\ ReceiptsAgree
  BY DEF Init, RunsAreApproved, ViewIsTheRow, ItemsAreResolved, RequestsAgree,
     ReceiptsAgree, NoReceipt, Resolving, Placed
<1>2. VersionsFollowReceipts
  BY ParameterTypes DEF Init, VersionsFollowReceipts, NothingKnown, NoVersions, Lists
<1>3. RefusalIsBacked
  BY DEF Init, RefusalIsBacked, NoOutcome, NoReceipt
<1>4. UntouchedLibrary
  <2>1. ASSUME NEW l \in Lists PROVE FoundAt(l, revision[Target[l]])
    <3>1. Target[l] \in Collections /\ TargetKind[l] \in {"new", "existing"}
      BY ParameterTypes
    <3>2. \A m \in Lists : receipt[m].code = "none"
      BY DEF Init, NoReceipt
    <3>3. CASE TargetKind[l] = "new"
      <4>1. ~\E m \in Lists : Target[m] = Target[l] /\ TargetKind[m] = "existing"
        BY <3>3, DraftsAreValid
      <4> QED BY <3>1, <3>3, <4>1 DEF Init, FoundAt
    <3>4. CASE TargetKind[l] = "existing"
      BY <3>1, <3>2, <3>4 DEF Init, FoundAt
    <3> QED BY <3>1, <3>3, <3>4
  <2> QED BY <2>1 DEF Init, UntouchedLibrary, NoReceipt
<1>5. IdentitiesAreLinked /\ PlacesAreLinked /\ IdentitiesAgree
  BY ParameterTypes DEF Init, IdentitiesAreLinked, PlacesAreLinked, IdentitiesAgree,
     OnePlacePerIdentity, CheckpointFollowsIdentity, Places, Resolving, Placed
<1> QED BY <1>1, <1>2, <1>3, <1>4, <1>5 DEF AgreementInv

LEMMA NextAgreement == IInv /\ AgreementInv /\ [Next]_vars => AgreementInv'
<1> SUFFICES ASSUME IInv, AgreementInv, [Next]_vars PROVE AgreementInv'
  OBVIOUS
<1> USE DEF AgreementInv, IdentitiesAgree
<1>1. RunsAreApproved' /\ ViewIsTheRow' /\ VersionsFollowReceipts'
  BY RunsKept, ViewKept, VersionsKept DEF IInv
<1>2. CanonicalMoves /\ IdentitiesAreLinked' /\ OnePlacePerIdentity'
  BY LinksKept DEF IInv
<1>3. ItemsAreResolved' /\ PlacesAreLinked' /\ CheckpointFollowsIdentity'
  BY <1>2, ResolvedKept, PlacesKept, CheckpointsFollow
<1>4. RequestsAgree' /\ ReceiptsAgree' /\ RefusalIsBacked' /\ UntouchedLibrary'
  BY RequestsKept, ReceiptsKept, RefusalsKept, UntouchedKept
<1> QED BY <1>1, <1>2, <1>3, <1>4

(* What the Library and the canonical places were told agrees with what    *)
(* the import would tell them again, whichever worker comes next.          *)
THEOREM Agreement == Spec => []AgreementInv
<1>1. Init => IInv /\ AgreementInv
  BY InitIInv, InitAgreement
<1>2. (IInv /\ AgreementInv) /\ [Next]_vars => (IInv /\ AgreementInv)'
  BY NextIInv, NextAgreement
<1> QED BY <1>1, <1>2, PTL DEF Spec

(* A list is asked for with the request it was first asked for with, and   *)
(* never refused unless somebody else wrote to the Library.                *)
THEOREM LibraryAlwaysAgrees == Spec => []LibraryAgrees
<1>1. AgreementInv => LibraryAgrees
  <2> SUFFICES ASSUME AgreementInv PROVE LibraryAgrees
    OBVIOUS
  <2>1. \A w \in Workers : pc[w] = "violated" => item[w] \in Items
    BY DEF AgreementInv, PlacesAreLinked
  <2>2. ReplaysAgree
    BY <2>1, NullsAreFresh DEF AgreementInv, RefusalIsBacked, PlacesAreLinked, ReplaysAgree
  <2>3. NoSelfConflict
    BY DEF AgreementInv, UntouchedLibrary, NoSelfConflict
  <2> QED BY <2>2, <2>3 DEF LibraryAgrees
<1> QED BY <1>1, Agreement, PTL

(* A provider identity stands for one place of the plan, and the place on  *)
(* record for an item is the one its identity stands for.                  *)
THEOREM IdentitiesAlwaysAgree == Spec => []IdentitiesAgree
<1>1. AgreementInv => IdentitiesAgree
  BY DEF AgreementInv
<1> QED BY <1>1, Agreement, PTL

(* A command sent with the current revision is one the member was offered. *)
THEOREM ViewIsHonest == Spec => []ViewHonest
<1>1. AgreementInv => ViewHonest
  BY DEF AgreementInv, ViewIsTheRow, ViewHonest
<1> QED BY <1>1, Agreement, PTL

-----------------------------------------------------------------------------
(* Once and for all.                                                       *)

LEMMA FinalStaysFinal ==
  ASSUME IInv, RunsAreApproved, [Next]_vars, opState \in Final
  PROVE  opState' = opState
<1>1. opState = "failed" => lastError = "final"
  BY DEF RunsAreApproved
<1>2. CASE BackgroundStep
  BY <1>1, <1>2 DEF BackgroundStep, MemberStep, Approve, ReadOperation, Cancel, Commanded,
     Requeue, AllowedActions, Active, Final, OtherStep, EditCollection, DeleteCollection,
     OtherImport, LinkIdentity, MergePlaces, SplitIdentity, RetirePlace, LeaseExpires,
     BackoffEnds
<1>3. ASSUME NEW w \in Workers, WorkerAct(w) PROVE opState' = opState
  <2>1. ~Holds(w) /\ ~Claimable
    BY DEF Holds, Claimable, Final
  <2> QED BY <1>3, <2>1 DEF WorkerAct, WorkerStep, ClaimCancelled, Claim, LoadMappings,
          CheckLease, AcknowledgeCancel, ReadPolicyRows, CreatePlace, LookUpIdentity,
          ResolvePlace, ContributeFacts, ContributionFails, WriteCheckpoint, ReadItems,
          MaterializeList, RecordApplied, Block, Complete, RecordFailure, Heartbeat, Crash,
          TransientError
<1> QED BY <1>2, <1>3, NextCases

(* A finished import is never reopened, nor its plan.                      *)
THEOREM FinishedForGood == Spec => FinalIsFinal
<1>1. IInv /\ IInv' /\ AgreementInv /\ [Next]_vars =>
        [(opState \in Final => opState' = opState /\ planState' = planState)]_vars
  <2> SUFFICES ASSUME IInv, IInv', AgreementInv, [Next]_vars, opState \in Final
               PROVE  opState' = opState /\ planState' = planState
    OBVIOUS
  <2>1. opState' = opState
    BY FinalStaysFinal DEF AgreementInv
  <2>2. PlanFollowsOperation /\ PlanFollowsOperation'
    BY DEF IInv
  <2> QED BY <2>1, <2>2 DEF PlanFollowsOperation, Active
<1> QED BY <1>1, Invariant, Agreement, PTL DEF Spec, FinalIsFinal

(* The Library is written for a list once, with its receipt, and a receipt *)
(* is never rewritten.                                                     *)
THEOREM DeliveredOnce == Spec => LibraryWrittenOnce
<1>1. IInv /\ [Next]_vars =>
        [ /\ \A l \in Lists : receipt[l].code # "none" => receipt'[l] = receipt[l]
          /\ <<revision, members, binding>>' # <<revision, members, binding>> =>
               \/ interference' # interference
               \/ \E l \in Lists : receipt[l].code = "none" /\ receipt'[l].code = "applied" ]_vars
  <2> SUFFICES ASSUME IInv, [Next]_vars
               PROVE  /\ \A l \in Lists : receipt[l].code # "none" => receipt'[l] = receipt[l]
                      /\ <<revision, members, binding>>' # <<revision, members, binding>> =>
                           \/ interference' # interference
                           \/ \E l \in Lists : receipt[l].code = "none" /\ receipt'[l].code = "applied"
    OBVIOUS
  <2>1. \A l \in Lists : receipt[l].code # "none" => receipt'[l] = receipt[l]
    BY ReceiptsStay DEF IInv
  <2>2. ASSUME NEW w \in Workers, MaterializeList(w),
               <<revision, members, binding>>' # <<revision, members, binding>>
        PROVE  \E l \in Lists : receipt[l].code = "none" /\ receipt'[l].code = "applied"
    <3>1. at[w] \in Lists /\ (Replays(w) \/ Delivers(w) \/ Refuses(w))
      BY <2>2, MaterializeCases DEF IInv
    <3>2. ~Replays(w) /\ ~Refuses(w)
      BY <2>2 DEF Replays, Refuses
    <3>3. receipt[at[w]].code = "none" /\ receipt'[at[w]].code = "applied"
      BY <3>1, <3>2 DEF Delivers, IInv, TypeOK, LibraryType
    <3> QED BY <3>1, <3>3
  <2>3. interference' = interference + 1 => interference' # interference
    BY DEF IInv, TypeOK, MemberType
  <2> QED BY <2>1, <2>2, <2>3, LibraryWriters DEF IInv
<1> QED BY <1>1, Invariant, PTL DEF Spec, LibraryWrittenOnce

-----------------------------------------------------------------------------
(* The refinement.                                                         *)

LEMMA PhaseTable ==
  /\ PhaseOf("none") = "draft" /\ PhaseOf("partial-failure") = "attention"
  /\ \A state \in Active : PhaseOf(state) = "active"
  /\ \A state \in Final : PhaseOf(state) = state
  BY DEF PhaseOf, Active, Final

LEMMA InitPromise == Init => Promise!Init
  BY PhaseTable DEF Init, Promise!Init, AnswerOf, NoReceipt

(* The member's commands and the ends of a run, as the promise sees them.  *)
Unseen == UNCHANGED <<PhaseOf(opState), cancelRequested, receipt>>

LEMMA UnseenStutters == Unseen => UNCHANGED Promise!vars
  BY DEF Unseen, Promise!vars

LEMMA MemberPromise ==
  ASSUME TypeOK, RunsAreApproved, MemberStep
  PROVE  Promise!Next \/ Unseen
<1>1. CASE Approve
  <2>1. opState = "none" /\ opState' = "queued" /\ UNCHANGED <<cancelRequested, receipt>>
    BY <1>1 DEF Approve
  <2> QED BY <2>1, PhaseTable DEF Active, Promise!Next, Promise!Approve
<1>2. CASE ReadOperation
  BY <1>2 DEF ReadOperation, Unseen
<1>3. CASE Cancel
  <2>1. /\ opState \in Active \cup {"partial-failure"} /\ ~cancelRequested
        /\ cancelRequested' = TRUE /\ receipt' = receipt
        /\ opState' = IF opState = "running" THEN opState ELSE "cancelled"
    BY <1>3, CancelGuard DEF Cancel
  <2>2. PhaseOf(opState') \in {PhaseOf(opState), "cancelled"} /\ PhaseOf(opState') # "attention"
        /\ PhaseOf(opState) \in {"active", "attention"}
    BY <2>1, PhaseTable DEF Active, Final
  <2> QED BY <2>1, <2>2 DEF Promise!Next, Promise!Cancel
<1>4. CASE Requeue
  <2>1. opState = "partial-failure" /\ opState' = "queued" /\ receipt' = receipt
        /\ cancelRequested' = FALSE /\ ~cancelRequested /\ cancelRequested \in BOOLEAN
    BY <1>4, RequeueGuard DEF Requeue, Commanded, AllowedActions, RunsAreApproved, Active,
       TypeOK, OperationType
  <2> QED BY <2>1, PhaseTable DEF Active, Promise!Next, Promise!Resume
<1> QED BY <1>1, <1>2, <1>3, <1>4 DEF MemberStep

LEMMA CancellationPromise ==
  ASSUME opState \in Active, cancelRequested, FinishCancellation, receipt' = receipt
  PROVE  Promise!Next
<1>1. opState' = "cancelled" /\ cancelRequested' = cancelRequested
  BY DEF FinishCancellation
<1> QED BY <1>1, PhaseTable DEF Final, Promise!Next, Promise!EndCancelled

LEMMA EndPromise ==
  ASSUME IInv, IInv', AgreementInv, NEW w \in Workers,
         AcknowledgeCancel(w) \/ Block(w) \/ Complete(w) \/ RecordFailure(w)
  PROVE  Promise!Next \/ Unseen
<1>1. receipt' = receipt
  BY DEF AcknowledgeCancel, Block, Complete, RecordFailure
<1>2. CASE ~Holds(w)
  BY <1>1, <1>2 DEF AcknowledgeCancel, Block, Complete, RecordFailure, Unseen
<1>3. CASE Holds(w) /\ FinishCancellation
  <2>1. cancelRequested \/ ~FinishCancellation
    BY <1>3 DEF AcknowledgeCancel, Block, Complete, RecordFailure, LockSaysCancelled,
       FinishCancellation, AgreementInv, RunsAreApproved
  <2> QED BY <1>1, <1>3, <2>1, CancellationPromise DEF Holds, Active
<1>4. CASE Holds(w) /\ ~FinishCancellation
  <2>0. opState = "running" /\ ~cancelRequested /\ cancelRequested' = cancelRequested
    BY <1>4 DEF AcknowledgeCancel, Block, Complete, RecordFailure, LockSaysCancelled, Holds
  <2>1. CASE Block(w)
    <3>1. opState' = "partial-failure" /\ pc[w] = "block"
      BY <1>4, <2>1 DEF Block, LockSaysCancelled
    <3>2. at[w] \in Lists /\ receipt[at[w]].code \notin {"none", "applied"}
      BY <3>1 DEF IInv, InsideTheLoop, AgreementInv, RefusalIsBacked
    <3> QED BY <1>1, <2>0, <3>1, <3>2, PhaseTable
        DEF Active, AnswerOf, Promise!Next, Promise!NeedAttention
  <2>2. CASE Complete(w)
    <3>1. opState' = "completed"
      BY <1>4, <2>2 DEF Complete, LockSaysCancelled
    <3>2. \A l \in Lists : receipt[l].code = "applied"
      BY <1>1, <3>1 DEF IInv, CompletedMeansApplied
    <3> QED BY <1>1, <2>0, <3>1, <3>2, PhaseTable
        DEF Active, Final, AnswerOf, Promise!Next, Promise!Complete
  <2>3. CASE RecordFailure(w)
    <3>1. opState' \in {"retry-scheduled", "failed"}
      BY <1>4, <2>3 DEF RecordFailure, LockSaysCancelled
    <3> QED BY <1>1, <2>0, <3>1, PhaseTable DEF Active, Final, Unseen, Promise!Next,
            Promise!Fail
  <2> QED BY <1>4, <2>1, <2>2, <2>3 DEF AcknowledgeCancel
<1> QED BY <1>2, <1>3, <1>4

LEMMA AnswerPromise ==
  ASSUME IInv, AgreementInv, NEW w \in Workers, MaterializeList(w)
  PROVE  Promise!Next \/ Unseen
<1> USE DEF IInv
<1> DEFINE l == at[w]
<1>1. l \in Lists /\ UNCHANGED operation /\ pc[w] = "library"
  BY MaterializeCases DEF MaterializeList
<1>2. CASE Replays(w)
  BY <1>1, <1>2 DEF Replays, Unseen
<1>3. CASE Delivers(w) \/ Refuses(w)
  <2>1. receipt[l].code = "none"
    BY <1>3 DEF Delivers, Refuses
  <2>2. opState \in OpStates /\ opState # "none" /\ opState # "completed"
    BY <1>1, <2>1 DEF TypeOK, OperationType, AgreementInv, RunsAreApproved,
       CompletedMeansApplied
  <2>3. PhaseOf(opState) \notin {"draft", "completed"}
    BY <2>2, PhaseTable DEF OpStates, Final, Active
  <2>4. AnswerOf(receipt[l].code) = "none"
    BY <2>1 DEF AnswerOf
  <2>5. /\ receipt'[l].code # "none"
        /\ \A k \in Lists : k # l => receipt'[k] = receipt[k]
    <3>1. Verdict(l, request[w]) # "none"
      BY DEF Verdict
    <3>2. CASE Delivers(w)
      BY <1>1, <3>2 DEF Delivers, TypeOK, LibraryType
    <3>3. CASE Refuses(w)
      BY <1>1, <3>1, <3>3 DEF Refuses, TypeOK, LibraryType
    <3> QED BY <1>3, <3>2, <3>3
  <2> DEFINE told == AnswerOf(receipt'[l].code)
  <2>6. told \in {"applied", "refused"}
    BY <2>5 DEF AnswerOf
  <2>7. [k \in Lists |-> AnswerOf(receipt'[k].code)] =
          [[k \in Lists |-> AnswerOf(receipt[k].code)] EXCEPT ![l] = told]
    BY <1>1, <2>5
  <2>8. Promise!Answer(l)
    BY <1>1, <2>3, <2>4, <2>6, <2>7 DEF Promise!Answer
  <2> QED BY <1>1, <2>8 DEF Promise!Next
<1> QED BY <1>2, <1>3, MaterializeCases

LEMMA StepPromise ==
  ASSUME IInv, IInv', AgreementInv, [Next]_vars
  PROVE  [Promise!Next]_(Promise!vars)
<1>1. CASE MemberStep
  BY <1>1, MemberPromise, UnseenStutters DEF IInv, AgreementInv
<1>2. CASE BackgroundStep /\ ~MemberStep
  <2>1. Unseen
    BY <1>2 DEF BackgroundStep, OtherStep, EditCollection, DeleteCollection, OtherImport,
       LinkIdentity, MergePlaces, SplitIdentity, RetirePlace, LeaseExpires, BackoffEnds,
       Unseen
  <2> QED BY <2>1, UnseenStutters
<1>3. ASSUME NEW w \in Workers, WorkerAct(w) PROVE Promise!Next \/ Unseen
  <2>1. CASE AcknowledgeCancel(w) \/ Block(w) \/ Complete(w) \/ RecordFailure(w)
    BY <2>1, EndPromise
  <2>2. CASE MaterializeList(w)
    BY <2>2, AnswerPromise
  <2>3. CASE ClaimCancelled(w)
    BY <2>3, CancellationPromise DEF ClaimCancelled, Claimable, Active
  <2>4. CASE Claim(w)
    BY <2>4, PhaseTable DEF Claim, Claimable, Active, Unseen
  <2>5. CASE WriteCheckpoint(w) \/ RecordApplied(w)
    <3>1. receipt' = receipt
      BY <2>5 DEF WriteCheckpoint, RecordApplied
    <3>2. CASE FinishCancellation /\ Holds(w) /\ cancelRequested
      BY <3>1, <3>2, CancellationPromise DEF Holds, Active
    <3>3. CASE UNCHANGED operation
      BY <3>1, <3>3 DEF Unseen
    <3> QED BY <2>5, <3>2, <3>3 DEF WriteCheckpoint, RecordApplied, LockSaysCancelled
  <2>6. CASE \/ LoadMappings(w) \/ CheckLease(w) \/ ReadPolicyRows(w) \/ CreatePlace(w)
             \/ LookUpIdentity(w) \/ ResolvePlace(w) \/ ContributeFacts(w)
             \/ ContributionFails(w) \/ ReadItems(w) \/ Heartbeat(w) \/ Crash(w)
             \/ TransientError(w)
    BY <2>6 DEF LoadMappings, CheckLease, ReadPolicyRows, CreatePlace, LookUpIdentity,
       ResolvePlace, ContributeFacts, ContributionFails, ReadItems, Heartbeat, Crash,
       TransientError, Unseen
  <2> QED BY <1>3, <2>1, <2>2, <2>3, <2>4, <2>5, <2>6 DEF WorkerAct, WorkerStep
<1> QED BY <1>1, <1>2, <1>3, UnseenStutters, NextCases

(* Workers, leases, retries and receipts together do only what the promise *)
(* allows: each list is answered once, completion means delivery, and only *)
(* a refusal puts the import before its member.                            *)
THEOREM Refinement == Spec => ImplementsPromise
<1>1. Init => Promise!Init
  BY InitPromise
<1>2. IInv /\ IInv' /\ AgreementInv /\ [Next]_vars => [Promise!Next]_(Promise!vars)
  BY StepPromise
<1> QED BY <1>1, <1>2, Invariant, Agreement, PTL DEF Spec, ImplementsPromise, Promise!Spec
=============================================================================
