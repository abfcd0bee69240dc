--------------------- MODULE ImportMaterializationProofs ---------------------
(* What ImportMaterialization keeps for every number of workers, lists,    *)
(* items and reviewers.                                                    *)
EXTENDS ImportRefinement, TLAPS

USE DEF operation, lease, plan, identities, canonical, library, locals, member, bounds, vars

(* The parts of a record set, without its records. *)
LEMMA EmptyValues ==
  /\ NothingKnown \in [Lists -> MappingRows]
  /\ NoBinding \in Bindings
  /\ NoRequest \in Requests
  /\ NoReceipt \in Receipts
  /\ NoOutcome \in Outcomes
  /\ NoVersions \in [Collections -> Nat]
<1>1. NothingKnown \in [Lists -> MappingRows]
  BY DEF NothingKnown, MappingRows, MappingStates
<1>2. NoBinding \in Bindings
  BY DEF NoBinding, Bindings
<1>3. NoRequest \in Requests
  BY DEF NoRequest, Request, Requests
<1>4. NoReceipt \in Receipts
  BY <1>3 DEF NoReceipt, Receipts
<1>5. NoOutcome \in Outcomes
  BY DEF NoOutcome, Outcomes
<1>6. NoVersions \in [Collections -> Nat]
  BY DEF NoVersions
<1> QED BY <1>1, <1>2, <1>3, <1>4, <1>5, <1>6

LEMMA InitTypeOK == Init => TypeOK
<1> SUFFICES ASSUME Init PROVE TypeOK
  OBVIOUS
<1>1. OperationType
  BY NullsAreFresh DEF Init, OperationType, OpStates
<1>2. PlanType
  BY EmptyValues DEF Init, PlanType, PlanStates
<1>3. CanonicalType
  BY DEF Init, CanonicalType
<1>4. LibraryType
  <2>1. \A l \in Lists : [collection |-> Target[l], revision |-> PriorBinding[l]] \in Bindings
    BY ParameterTypes DEF Bindings
  <2>2. binding \in [Lists -> Bindings]
    BY <2>1, EmptyValues DEF Init
  <2>3. revision \in [Collections -> Nat]
    BY DEF Init
  <2>4. receipt \in [Lists -> Receipts]
    BY EmptyValues DEF Init
  <2>5. members \in [Collections -> SUBSET (Places \cup {NoPlace})]
    BY DEF Init
  <2> QED BY <2>2, <2>3, <2>4, <2>5 DEF LibraryType
<1>5. WorkerType
  <2>1. 1 \in 1..(NumLists + 1)
    BY ParameterTypes
  <2> QED BY <2>1, EmptyValues DEF Init, WorkerType, PCs
<1>6. MemberType
  BY DEF Init, MemberType, OpStates
<1> QED BY <1>1, <1>2, <1>3, <1>4, <1>5, <1>6 DEF TypeOK

-----------------------------------------------------------------------------
(* Type correctness.                                                       *)

LEMMA GotoType ==
  ASSUME NEW w \in Workers, NEW label \in PCs, pc \in [Workers -> PCs], Goto(w, label)
  PROVE  pc' \in [Workers -> PCs]
  BY DEF Goto

LEMMA IdleType ==
  ASSUME WorkerType, NEW w \in Workers, Idle(w)
  PROVE  WorkerType'
<1>1. 1 \in 1..(NumLists + 1)
  BY ParameterTypes
<1>2. "idle" \in PCs
  BY DEF PCs
<1> QED BY <1>1, <1>2, EmptyValues DEF Idle, Forget, Goto, WorkerType

LEMMA ReleaseType ==
  ASSUME OperationType, ReleaseLease, opState' \in OpStates \ {"running"},
         lastError' \in {"none", "retryable", "final"}, cancelRequested' \in BOOLEAN
  PROVE  OperationType'
  BY DEF OperationType, ReleaseLease

LEMMA FinishCancellationType ==
  ASSUME OperationType, MemberType, FinishCancellation, UNCHANGED bounds
  PROVE  OperationType' /\ planState' \in PlanStates /\ MemberType'
<1>1. OperationType'
  BY ReleaseType DEF FinishCancellation, OperationType, OpStates, Final
<1>2. planState' \in PlanStates
  BY DEF FinishCancellation, PlanStates
<1>3. MemberType'
  BY DEF MemberType, FinishCancellation, NewRevision
<1> QED BY <1>1, <1>2, <1>3

LEMMA ReopenedType ==
  ASSUME NEW row \in MappingRows PROVE Reopened(row) \in MappingRows
  BY DEF Reopened, MappingRows, MappingStates

LEMMA RequeueGuard ==
  Requeue => opState \in {"partial-failure", "failed"} /\ ~cancelRequested
  BY DEF Requeue, Commanded, AllowedActions, Active

LEMMA CancelGuard ==
  Cancel => opState \in Active \cup {"partial-failure"} /\ ~cancelRequested
  BY DEF Cancel, Commanded, AllowedActions, Active

LEMMA MemberStepTypeOK == TypeOK /\ MemberStep => TypeOK'
<1> SUFFICES ASSUME TypeOK, MemberStep PROVE TypeOK'
  OBVIOUS
<1> USE DEF TypeOK
<1>1. CASE Approve
  <2>1. OperationType'
    BY <1>1 DEF Approve, OperationType, OpStates, Active
  <2>2. PlanType'
    BY <1>1 DEF Approve, PlanType, PlanStates
  <2>3. CanonicalType' /\ LibraryType' /\ WorkerType'
    BY <1>1 DEF Approve, CanonicalType, LibraryType, WorkerType
  <2>4. MemberType'
    BY <1>1 DEF Approve, MemberType, NewRevision
  <2> QED BY <2>1, <2>2, <2>3, <2>4
<1>2. CASE ReadOperation
  <2>1. OperationType' /\ PlanType'
    BY <1>2 DEF ReadOperation, OperationType, PlanType
  <2>2. CanonicalType' /\ LibraryType' /\ WorkerType'
    BY <1>2 DEF ReadOperation, CanonicalType, LibraryType, WorkerType
  <2>3. MemberType'
    BY <1>2 DEF ReadOperation, MemberType, OperationType
  <2> QED BY <2>1, <2>2, <2>3
<1>3. CASE Cancel
  <2>1. OperationType'
    BY <1>3, CancelGuard DEF Cancel, Commanded, OperationType, OpStates, Active, Final
  <2>2. PlanType'
    BY <1>3 DEF Cancel, PlanType, PlanStates
  <2>3. CanonicalType' /\ LibraryType' /\ WorkerType'
    BY <1>3 DEF Cancel, CanonicalType, LibraryType, WorkerType
  <2>4. MemberType'
    BY <1>3 DEF Cancel, Commanded, NewRevision, MemberType
  <2> QED BY <2>1, <2>2, <2>3, <2>4
<1>4. CASE Requeue
  <2>1. /\ opState' = "queued" /\ planState' = "applying" /\ cancelRequested' = FALSE
        /\ lastError' = "none" /\ attemptDue' = FALSE /\ fresh' = FALSE
        /\ resumes' = resumes + 1
        /\ UNCHANGED <<leaseOwner, leaseGeneration, leaseExpired, mapping, checkpoint, canonical,
                       library, pc, locals, seen, faults, interference, reviews>>
    BY <1>4 DEF Requeue, Commanded, NewRevision
  <2>2. OperationType'
    BY <1>4, <2>1, RequeueGuard DEF OperationType, OpStates, Active
  <2>3. PlanType'
    BY <2>1 DEF PlanType, PlanStates
  <2>5. MemberType'
    <3>1. seen' = seen /\ fresh' = FALSE /\ resumes' = resumes + 1 /\ faults' = faults
          /\ interference' = interference /\ reviews' = reviews
      BY <2>1
    <3>2. fresh' \in BOOLEAN
      BY <3>1
    <3>3. resumes' \in Nat
      BY <3>1 DEF MemberType
    <3> QED BY <3>1, <3>2, <3>3 DEF MemberType
  <2>4. CanonicalType' /\ LibraryType' /\ WorkerType'
    BY <2>1 DEF CanonicalType, LibraryType, WorkerType
  <2> QED BY <2>2, <2>3, <2>4, <2>5
<1> QED BY <1>1, <1>2, <1>3, <1>4 DEF MemberStep

LEMMA ClaimTypeOK ==
  ASSUME TypeOK, NEW w \in Workers, Claim(w) PROVE TypeOK'
<1> USE DEF TypeOK
<1>1. OperationType'
  <2>1. WorkerName[w] \in STRING /\ WorkerName[w] # NoWorker
    BY ParameterTypes, NullsAreFresh
  <2>2. opState' = "running" /\ leaseOwner' = WorkerName[w] /\ leaseGeneration' \in Nat
    BY DEF Claim, OperationType
  <2>3. opState' \in OpStates
    BY <2>2 DEF OpStates, Active
  <2> QED BY <2>1, <2>2, <2>3 DEF Claim, OperationType
<1>2. PlanType'
  BY ReopenedType DEF Claim, PlanType
<1>3. pc' \in [Workers -> PCs]
  BY GotoType DEF Claim, WorkerType, PCs
<1>4. gen' \in [Workers -> Nat]
  BY DEF Claim, WorkerType, OperationType
<1> QED BY <1>1, <1>2, <1>3, <1>4
        DEF Claim, CanonicalType, LibraryType, MemberType, NewRevision, WorkerType

LEMMA CheckLeaseTypeOK ==
  ASSUME TypeOK, NEW w \in Workers, CheckLease(w) PROVE TypeOK'
<1>1. WorkerType'
  <2>1. CASE ~Holds(w)
    BY <2>1, IdleType DEF CheckLease, TypeOK
  <2>2. CASE Holds(w) /\ cancelRequested
    BY <2>2 DEF CheckLease, TypeOK, WorkerType, Goto, PCs
  <2>3. CASE Holds(w) /\ ~cancelRequested /\ known[w][at[w]].state = "applied"
    <3>1. known[w][at[w]].version \in Nat
      BY DEF TypeOK, WorkerType, MappingRows, CheckLease
    <3>2. at[w] + 1 \in 1..(NumLists + 1)
      BY ParameterTypes DEF CheckLease, Lists
    <3>3. versions' \in [Workers -> [Collections -> Nat]]
      <4>1. [versions[w] EXCEPT ![Target[at[w]]] = known[w][at[w]].version]
              \in [Collections -> Nat]
        BY <3>1 DEF TypeOK, WorkerType
      <4>2. versions' = [versions EXCEPT ![w] =
                [versions[w] EXCEPT ![Target[at[w]]] = known[w][at[w]].version]]
        BY <2>3 DEF CheckLease
      <4> QED BY <4>1, <4>2 DEF TypeOK, WorkerType
    <3>4. at' \in [Workers -> 1..(NumLists + 1)]
      BY <2>3, <3>2 DEF CheckLease, TypeOK, WorkerType
    <3> QED BY <2>3, <3>3, <3>4 DEF CheckLease, TypeOK, WorkerType
  <2>4. CASE Holds(w) /\ ~cancelRequested /\ known[w][at[w]].state # "applied"
    BY <2>4 DEF CheckLease, TypeOK, WorkerType, Goto, PCs
  <2> QED BY <2>1, <2>2, <2>3, <2>4
<1> QED BY <1>1 DEF TypeOK, CheckLease, OperationType, PlanType, CanonicalType, LibraryType,
        MemberType

LEMMA ReadingStepsTypeOK ==
  ASSUME TypeOK, InsideTheLoop, NEW w \in Workers,
         LoadMappings(w) \/ ReadPolicyRows(w) \/ ReadItems(w)
  PROVE  TypeOK'
<1>1. WorkerType'
  <2>1. CASE LoadMappings(w)
    BY <2>1 DEF LoadMappings, TypeOK, WorkerType, PlanType, Goto, PCs
  <2>2. CASE ReadPolicyRows(w)
    <3>1. OpenItems(at[w]) \in SUBSET Items
      BY DEF OpenItems, ItemsOf
    <3> QED BY <2>2, <3>1 DEF ReadPolicyRows, TypeOK, WorkerType, Goto, PCs
  <2>3. CASE ReadItems(w)
    <3> DEFINE places == [i \in Items |-> IF i \in ItemsOf(at[w]) THEN checkpoint[i] ELSE NoPlace]
    <3>1. places \in [Items -> Places \cup {NoPlace}]
      BY DEF TypeOK, PlanType
    <3>2. CASE ReadItems(w) /\ UNCHANGED request
      BY <2>3, <3>2 DEF ReadItems, TypeOK, WorkerType, Goto, PCs
    <3>3. CASE request' = [request EXCEPT ![w] = Request(ExpectedVersion(w), places)]
      <4>1. ExpectedVersion(w) \in Nat
        <5>1. Target[at[w]] \in Collections
          BY <2>3, ParameterTypes DEF ReadItems, InsideTheLoop
        <5> QED BY <5>1 DEF ExpectedVersion, TypeOK, WorkerType
      <4>2. Request(ExpectedVersion(w), places) \in Requests
        BY <3>1, <4>1 DEF Request, Requests
      <4> QED BY <2>3, <3>3, <4>2 DEF ReadItems, TypeOK, WorkerType, Goto, PCs
    <3> QED BY <2>3, <3>2, <3>3 DEF ReadItems
  <2> QED BY <2>1, <2>2, <2>3
<1> QED BY <1>1 DEF TypeOK, LoadMappings, ReadPolicyRows, ReadItems, OperationType,
        PlanType, CanonicalType, LibraryType, MemberType

LEMMA ForgetType ==
  ASSUME WorkerType, NEW w \in Workers, Goto(w, "failing"), UNCHANGED gen, Forget(w)
  PROVE  WorkerType'
<1>1. 1 \in 1..(NumLists + 1)
  BY ParameterTypes
<1> QED BY <1>1, EmptyValues DEF Forget, Goto, PCs, WorkerType

LEMMA PlaceStepsTypeOK ==
  ASSUME TypeOK, InsideTheLoop, NEW w \in Workers,
         \/ CreatePlace(w) \/ LookUpIdentity(w) \/ ResolvePlace(w)
         \/ ContributeFacts(w) \/ ContributionFails(w)
  PROVE  TypeOK'
<1>1. CASE CreatePlace(w)
  <2>1. PICK i \in todo[w] : item' = [item EXCEPT ![w] = i] /\ ApplyCreatePlace(i)
    BY <1>1 DEF CreatePlace
  <2>2. i \in Items /\ i \in Places
    BY DEF TypeOK, WorkerType, Places
  <2>3. CanonicalType'
    BY <2>1, <2>2 DEF ApplyCreatePlace, TypeOK, CanonicalType
  <2>4. WorkerType'
    BY <1>1, <2>1, <2>2 DEF CreatePlace, TypeOK, WorkerType, Goto, PCs, Resolving, Placed
  <2> QED BY <1>1, <2>3, <2>4 DEF CreatePlace, TypeOK, OperationType, PlanType, LibraryType,
             MemberType
<1>2. CASE LookUpIdentity(w)
  <2>1. identityPlace[ItemIdentity[item[w]]] \in Places \cup {NoPlace}
    BY <1>2, ParameterTypes
    DEF LookUpIdentity, InsideTheLoop, Resolving, TypeOK, CanonicalType
  <2>2. WorkerType'
    BY <1>2, <2>1 DEF LookUpIdentity, TypeOK, WorkerType, Goto, PCs, Resolving, Placed
  <2> QED BY <1>2, <2>2 DEF LookUpIdentity, TypeOK, OperationType, PlanType, CanonicalType,
             LibraryType, MemberType
<1>3. CASE ResolvePlace(w)
  <2>1. survivor[place[w]] \in Places
    BY <1>3 DEF ResolvePlace, InsideTheLoop, Placed, TypeOK, CanonicalType, WorkerType
  <2>2. place' \in [Workers -> Places \cup {NoPlace}]
    BY <1>3, <2>1 DEF ResolvePlace, TypeOK, WorkerType
  <2>3. pc' \in [Workers -> PCs]
    BY <1>3 DEF ResolvePlace, TypeOK, WorkerType, Goto, PCs, Resolving, Placed
  <2> QED BY <1>3, <2>2, <2>3 DEF ResolvePlace, TypeOK, OperationType, PlanType,
          CanonicalType, LibraryType, MemberType, WorkerType
<1>4. CASE ContributeFacts(w)
  <2>1. asserted' \in [Items -> Places \cup {NoPlace}]
    BY <1>4 DEF ContributeFacts, TypeOK, CanonicalType, WorkerType
  <2>2. pc' \in [Workers -> PCs]
    BY <1>4 DEF ContributeFacts, TypeOK, WorkerType, Goto, PCs, Resolving, Placed
  <2> QED BY <1>4, <2>1, <2>2 DEF ContributeFacts, TypeOK, OperationType, PlanType,
             CanonicalType, LibraryType, MemberType, WorkerType
<1>5. CASE ContributionFails(w)
  BY <1>5, ForgetType DEF ContributionFails, TypeOK, OperationType, PlanType, CanonicalType,
     LibraryType, MemberType
<1> QED BY <1>1, <1>2, <1>3, <1>4, <1>5

LEMMA EndingStepsTypeOK ==
  ASSUME TypeOK, NEW w \in Workers, UNCHANGED <<mapping, checkpoint, canonical, library, bounds>>,
         Idle(w),
         \/ UNCHANGED <<operation, lease, planState, member>>
         \/ FinishCancellation
         \/ /\ opState' \in OpStates \ {"running"} /\ planState' \in PlanStates
            /\ lastError' \in {"none", "retryable", "final"} /\ UNCHANGED cancelRequested
            /\ ReleaseLease /\ NewRevision
  PROVE  TypeOK'
<1>1. OperationType' /\ planState' \in PlanStates /\ MemberType'
  <2>1. CASE UNCHANGED <<operation, lease, planState, member>>
    BY <2>1 DEF TypeOK, OperationType, PlanType, MemberType
  <2>2. CASE FinishCancellation
    BY <2>2, FinishCancellationType DEF TypeOK
  <2>3. CASE /\ opState' \in OpStates \ {"running"} /\ planState' \in PlanStates
             /\ lastError' \in {"none", "retryable", "final"} /\ UNCHANGED cancelRequested
             /\ ReleaseLease /\ NewRevision
    <3>1. OperationType'
      <4>1. cancelRequested' \in BOOLEAN
        BY <2>3 DEF TypeOK, OperationType
      <4> QED BY <2>3, <4>1, ReleaseType DEF TypeOK
    <3>2. MemberType'
      BY <2>3 DEF NewRevision, TypeOK, MemberType
    <3> QED BY <2>3, <3>1, <3>2
  <2> QED BY <2>1, <2>2, <2>3
<1> QED BY <1>1, IdleType DEF TypeOK, PlanType, CanonicalType, LibraryType

LEMMA RunEndsTypeOK ==
  ASSUME TypeOK, NEW w \in Workers,
         ClaimCancelled(w) \/ AcknowledgeCancel(w) \/ Block(w) \/ Complete(w) \/ RecordFailure(w)
  PROVE  TypeOK'
<1>1. CASE ClaimCancelled(w)
  BY <1>1, FinishCancellationType
  DEF ClaimCancelled, TypeOK, PlanType, CanonicalType, LibraryType, WorkerType
<1>2. CASE AcknowledgeCancel(w)
  BY <1>2, EndingStepsTypeOK DEF AcknowledgeCancel
<1>3. CASE Complete(w)
  <2>1. CASE Holds(w) /\ ~LockSaysCancelled
    <3>1. /\ opState' \in OpStates \ {"running"} /\ planState' \in PlanStates
          /\ UNCHANGED <<lastError, cancelRequested>>
      BY <1>3, <2>1 DEF Complete, OpStates, Final, PlanStates
    <3>2. lastError' \in {"none", "retryable", "final"}
      BY <3>1 DEF TypeOK, OperationType
    <3> QED BY <1>3, <2>1, <3>1, <3>2, EndingStepsTypeOK DEF Complete
  <2> QED BY <1>3, <2>1, EndingStepsTypeOK DEF Complete
<1>4. CASE RecordFailure(w)
  <2>1. CASE Holds(w) /\ ~LockSaysCancelled
    <3>1. /\ opState' \in OpStates \ {"running"} /\ planState' \in PlanStates
          /\ lastError' \in {"none", "retryable", "final"} /\ UNCHANGED cancelRequested
      BY <1>4, <2>1 DEF RecordFailure, OpStates, Active, Final, PlanStates, TypeOK, PlanType
    <3> QED BY <1>4, <2>1, <3>1, EndingStepsTypeOK DEF RecordFailure
  <2> QED BY <1>4, <2>1, EndingStepsTypeOK DEF RecordFailure
<1>5. CASE Block(w)
  <2>1. CASE Holds(w) /\ ~LockSaysCancelled
    <3>1. mapping' \in [Lists -> MappingRows]
      <4>1. at[w] \in Lists => [state |-> "rejected", version |-> mapping[at[w]].version] \in MappingRows
        BY DEF TypeOK, PlanType, MappingRows, MappingStates
      <4> QED BY <1>5, <2>1, <4>1 DEF Block, TypeOK, PlanType
    <3>2. /\ opState' \in OpStates \ {"running"} /\ planState' \in PlanStates
          /\ lastError' \in {"none", "retryable", "final"} /\ cancelRequested' \in BOOLEAN
      BY <1>5, <2>1 DEF Block, OpStates, PlanStates, TypeOK, OperationType
    <3>3. OperationType'
      BY <1>5, <2>1, <3>2, ReleaseType DEF Block, TypeOK
    <3>4. MemberType'
      BY <1>5, <2>1 DEF Block, NewRevision, TypeOK, MemberType
    <3>5. WorkerType'
      BY <1>5, IdleType DEF Block, TypeOK
    <3> QED BY <1>5, <3>1, <3>2, <3>3, <3>4, <3>5
            DEF Block, TypeOK, PlanType, CanonicalType, LibraryType
  <2> QED BY <1>5, <2>1, EndingStepsTypeOK DEF Block
<1> QED BY <1>1, <1>2, <1>3, <1>4, <1>5

LEMMA WriteCheckpointTypeOK ==
  ASSUME TypeOK, NEW w \in Workers, WriteCheckpoint(w) PROVE TypeOK'
<1>1. Checkpointed(w) \in [Items -> Places \cup {NoPlace}]
  BY DEF Checkpointed, TypeOK, PlanType, WorkerType
<1>2. CASE ~Holds(w)
  BY <1>2, EndingStepsTypeOK DEF WriteCheckpoint
<1>3. CASE Goto(w, "violated") /\ UNCHANGED <<operation, lease, planState, checkpoint, locals, member>>
  BY <1>3 DEF WriteCheckpoint, TypeOK, OperationType, PlanType, CanonicalType, LibraryType,
     WorkerType, MemberType, Goto, PCs
<1>4. CASE checkpoint' = Checkpointed(w) /\ FinishCancellation /\ Idle(w)
  BY <1>1, <1>4, FinishCancellationType, IdleType
  DEF WriteCheckpoint, TypeOK, PlanType, CanonicalType, LibraryType
<1>5. CASE /\ checkpoint' = Checkpointed(w)
           /\ todo' = [todo EXCEPT ![w] = @ \ {item[w]}]
           /\ item' = [item EXCEPT ![w] = NoItem]
           /\ place' = [place EXCEPT ![w] = NoPlace]
           /\ Goto(w, IF todo[w] = {item[w]} THEN "items" ELSE "place")
           /\ UNCHANGED <<operation, lease, planState, gen, known, versions, at,
                          request, outcome, member>>
  <2>1. WorkerType'
    BY <1>5 DEF TypeOK, WorkerType, Goto, PCs
  <2> QED BY <1>1, <1>5, <2>1 DEF WriteCheckpoint, TypeOK, OperationType, PlanType,
          CanonicalType, LibraryType, MemberType
<1> QED BY <1>2, <1>3, <1>4, <1>5 DEF WriteCheckpoint

LEMMA RecordAppliedTypeOK ==
  ASSUME TypeOK, InsideTheLoop, NEW w \in Workers, RecordApplied(w) PROVE TypeOK'
<1>1. at[w] \in Lists /\ outcome[w].version \in Nat
  BY DEF RecordApplied, InsideTheLoop, TypeOK, WorkerType, Outcomes
<1>2. CASE ~Holds(w)
  BY <1>2, EndingStepsTypeOK DEF RecordApplied
<1>3. ASSUME Holds(w) PROVE mapping' \in [Lists -> MappingRows]
  <2>1. [state |-> "applied", version |-> outcome[w].version] \in MappingRows
    BY <1>1 DEF MappingRows, MappingStates
  <2> QED BY <1>3, <2>1 DEF RecordApplied, TypeOK, PlanType
<1>4. CASE Holds(w) /\ LockSaysCancelled
  BY <1>3, <1>4, FinishCancellationType, IdleType
  DEF RecordApplied, TypeOK, PlanType, CanonicalType, LibraryType
<1>5. CASE Holds(w) /\ ~LockSaysCancelled
  <2>1. versions' \in [Workers -> [Collections -> Nat]]
    <3>1. [versions[w] EXCEPT ![Target[at[w]]] = outcome[w].version] \in [Collections -> Nat]
      BY <1>1 DEF TypeOK, WorkerType
    <3>2. versions' = [versions EXCEPT ![w] =
              [versions[w] EXCEPT ![Target[at[w]]] = outcome[w].version]]
      BY <1>5 DEF RecordApplied
    <3>3. versions \in [Workers -> [Collections -> Nat]]
      BY DEF TypeOK, WorkerType
    <3> QED BY <3>1, <3>2, <3>3
  <2>2. at' \in [Workers -> 1..(NumLists + 1)]
    <3>1. at[w] + 1 \in 1..(NumLists + 1)
      BY <1>1, ParameterTypes DEF Lists
    <3>2. at' = [at EXCEPT ![w] = at[w] + 1] /\ at \in [Workers -> 1..(NumLists + 1)]
      BY <1>5 DEF RecordApplied, TypeOK, WorkerType
    <3> QED BY <3>1, <3>2
  <2>3. WorkerType'
    <3>1. /\ request' = [request EXCEPT ![w] = NoRequest]
          /\ outcome' = [outcome EXCEPT ![w] = NoOutcome]
          /\ pc' = [pc EXCEPT ![w] = "next"]
          /\ UNCHANGED <<gen, known, todo, item, place>>
      BY <1>5 DEF RecordApplied, Goto
    <3> QED BY <2>1, <2>2, <3>1, EmptyValues DEF TypeOK, WorkerType, PCs
  <2> QED BY <1>3, <1>5, <2>3 DEF RecordApplied, TypeOK, OperationType, PlanType,
          CanonicalType, LibraryType, MemberType, NewRevision
<1> QED BY <1>2, <1>4, <1>5

LEMMA AppliedRevisionType ==
  ASSUME TypeOK, NEW l \in Lists, NEW delivered PROVE AppliedRevision(l, delivered) \in Nat
  BY ParameterTypes DEF AppliedRevision, TypeOK, LibraryType

LEMMA VerdictType ==
  ASSUME NEW l, NEW r PROVE Verdict(l, r) \in {"applied"} \cup Rejections
  BY DEF Verdict, Rejections

LEMMA MaterializeListTypeOK ==
  ASSUME TypeOK, InsideTheLoop, NEW w \in Workers, MaterializeList(w) PROVE TypeOK'
<1> DEFINE l == at[w]
           r == request[w]
           delivered == {r.places[i] : i \in ItemsOf(l)}
<1>1. l \in Lists /\ r \in Requests /\ Target[l] \in Collections
  BY ParameterTypes DEF MaterializeList, InsideTheLoop, TypeOK, WorkerType
<1>2. AppliedRevision(l, delivered) \in Nat
  BY <1>1, AppliedRevisionType
<1>3. receipt[l] \in Receipts
  BY <1>1 DEF TypeOK, LibraryType
<1>4. ASSUME NEW code \in {"none", "applied"} \cup Rejections, NEW version \in Nat, Answer(w, code, version)
      PROVE  outcome' \in [Workers -> Outcomes] /\ pc' \in [Workers -> PCs]
  <2>1. [code |-> code, version |-> version] \in Outcomes
    BY DEF Outcomes
  <2> QED BY <1>4, <2>1 DEF Answer, Goto, PCs, TypeOK, WorkerType
<1>5. LibraryType' /\ outcome' \in [Workers -> Outcomes] /\ pc' \in [Workers -> PCs]
  <2>1. CASE UNCHANGED library /\ Answer(w, "operation-id-reused", 0)
    BY <1>4, <2>1 DEF TypeOK, LibraryType, Rejections
  <2>2. CASE UNCHANGED library /\ Answer(w, receipt[l].code, receipt[l].version)
    BY <1>3, <1>4, <2>2 DEF TypeOK, LibraryType, Receipts
  <2>3. CASE Deliver(l, r) /\ Answer(w, "applied", AppliedRevision(l, delivered))
    <3>1. [code |-> "applied", request |-> r, version |-> AppliedRevision(l, delivered)] \in Receipts
      BY <1>1, <1>2 DEF Receipts
    <3>2. delivered \in SUBSET (Places \cup {NoPlace})
      BY <1>1, ParameterTypes DEF Requests, ItemsOf
    <3>3. [collection |-> Target[l], revision |-> binding[l].revision + 1] \in Bindings
      BY <1>1 DEF Bindings, TypeOK, LibraryType
    <3>4. revision' \in [Collections -> Nat]
      BY <1>1, <1>2, <2>3 DEF Deliver, TypeOK, LibraryType
    <3>5. members' \in [Collections -> SUBSET (Places \cup {NoPlace})]
      BY <1>1, <2>3, <3>2 DEF Deliver, TypeOK, LibraryType
    <3>6. binding' \in [Lists -> Bindings] /\ receipt' \in [Lists -> Receipts]
      BY <1>1, <2>3, <3>1, <3>3 DEF Deliver, TypeOK, LibraryType
    <3> QED BY <1>2, <1>4, <2>3, <3>4, <3>5, <3>6 DEF LibraryType
  <2>4. CASE /\ receipt' = [receipt EXCEPT ![l] = [code |-> Verdict(l, r), request |-> r, version |-> 0]]
             /\ UNCHANGED <<revision, members, binding>>
             /\ Answer(w, Verdict(l, r), 0)
    <3>1. [code |-> Verdict(l, r), request |-> r, version |-> 0] \in Receipts
      BY <1>1, VerdictType DEF Receipts
    <3> QED BY <1>4, <2>4, <3>1, VerdictType DEF TypeOK, LibraryType
  <2> QED BY <2>1, <2>2, <2>3, <2>4 DEF MaterializeList
<1> QED BY <1>5 DEF MaterializeList, TypeOK, OperationType, PlanType, CanonicalType,
        MemberType, WorkerType

LEMMA BoundsType ==
  ASSUME MemberType, UNCHANGED member, Fault \/ Interfere \/ Review \/ UNCHANGED bounds
  PROVE  MemberType'
<1>1. faults' \in Nat /\ interference' \in Nat /\ reviews' \in Nat /\ resumes' \in Nat
  BY DEF Fault, Interfere, Review, MemberType
<1>2. fresh' = fresh /\ seen' = seen
  OBVIOUS
<1> QED BY <1>1, <1>2 DEF MemberType

LEMMA FaultStepsTypeOK ==
  ASSUME TypeOK, NEW w \in Workers, Crash(w) \/ TransientError(w) \/ Heartbeat(w) PROVE TypeOK'
<1>1. CASE Crash(w)
  BY <1>1, IdleType, BoundsType DEF Crash, TypeOK, OperationType, PlanType, CanonicalType,
     LibraryType
<1>2. CASE TransientError(w)
  BY <1>2, ForgetType, BoundsType DEF TransientError, TypeOK, OperationType, PlanType,
     CanonicalType, LibraryType
<1>3. CASE Heartbeat(w)
  BY <1>3 DEF Heartbeat, Holds, TypeOK, OperationType, PlanType, CanonicalType, LibraryType,
     WorkerType, MemberType
<1> QED BY <1>1, <1>2, <1>3

LEMMA ClockTypeOK ==
  ASSUME TypeOK, LeaseExpires \/ BackoffEnds PROVE TypeOK'
<1>1. MemberType'
  BY BoundsType DEF LeaseExpires, BackoffEnds, TypeOK
<1>2. OperationType'
  BY DEF LeaseExpires, BackoffEnds, TypeOK, OperationType
<1> QED BY <1>1, <1>2 DEF LeaseExpires, BackoffEnds, TypeOK, PlanType, CanonicalType,
        LibraryType, WorkerType

LEMMA OtherStepTypeOK ==
  ASSUME TypeOK, OtherStep PROVE TypeOK'
<1>1. MemberType'
  BY BoundsType DEF OtherStep, EditCollection, DeleteCollection, OtherImport, LinkIdentity,
     MergePlaces, SplitIdentity, RetirePlace, TypeOK
<1>2. UNCHANGED <<operation, lease, plan, pc, locals>>
  BY DEF OtherStep, EditCollection, DeleteCollection, OtherImport, LinkIdentity,
     MergePlaces, SplitIdentity, RetirePlace
<1>3. LibraryType'
  <2>1. CASE \E c \in Collections : EditCollection(c)
    BY <2>1 DEF EditCollection, TypeOK, LibraryType
  <2>2. CASE \E c \in Collections : DeleteCollection(c)
    BY <2>2, EmptyValues DEF DeleteCollection, TypeOK, LibraryType
  <2>3. CASE \E l \in Lists : OtherImport(l)
    <3>1. PICK l \in Lists : OtherImport(l)
      BY <2>3
    <3>2. [collection |-> binding[l].collection, revision |-> binding[l].revision + 1] \in Bindings
      BY DEF TypeOK, LibraryType, Bindings
    <3> QED BY <3>1, <3>2 DEF OtherImport, TypeOK, LibraryType
  <2>4. CASE UNCHANGED library
    BY <2>4 DEF TypeOK, LibraryType
  <2> QED BY <2>1, <2>2, <2>3, <2>4 DEF OtherStep, LinkIdentity, MergePlaces, SplitIdentity,
          RetirePlace
<1>4. CanonicalType'
  <2>1. CASE UNCHANGED canonical
    BY <2>1 DEF TypeOK, CanonicalType
  <2>2. CASE \E x \in Identities, q \in OtherPlaces : LinkIdentity(x, q)
    BY <2>2 DEF LinkIdentity, Places, TypeOK, CanonicalType
  <2>3. CASE \E p, q \in Places : MergePlaces(p, q)
    <3>1. PICK p \in Places, q \in Places : MergePlaces(p, q)
      BY <2>3
    <3> QED BY <3>1 DEF MergePlaces, TypeOK, CanonicalType
  <2>4. CASE \E x \in Identities, q \in OtherPlaces : SplitIdentity(x, q)
    <3>1. PICK x \in Identities, q \in OtherPlaces : SplitIdentity(x, q)
      BY <2>4
    <3>2. <<x, identityPlace[x]>> \in Identities \X Places
      BY <3>1 DEF SplitIdentity, TypeOK, CanonicalType
    <3> QED BY <3>1, <3>2 DEF SplitIdentity, Places, TypeOK, CanonicalType
  <2>5. CASE \E p \in Places : RetirePlace(p)
    BY <2>5 DEF RetirePlace, TypeOK, CanonicalType
  <2> QED BY <2>1, <2>2, <2>3, <2>4, <2>5 DEF OtherStep, EditCollection, DeleteCollection,
          OtherImport
<1> QED BY <1>1, <1>2, <1>3, <1>4 DEF TypeOK, OperationType, PlanType, WorkerType

-----------------------------------------------------------------------------
(* A worker changes no other worker's locals.                              *)

WorkerAct(w) == WorkerStep(w) \/ Heartbeat(w) \/ Crash(w) \/ TransientError(w)

LocalsKept(v) ==
  /\ pc'[v] = pc[v] /\ gen'[v] = gen[v] /\ known'[v] = known[v] /\ at'[v] = at[v]
  /\ item'[v] = item[v] /\ outcome'[v] = outcome[v] /\ versions'[v] = versions[v]
  /\ todo'[v] = todo[v] /\ place'[v] = place[v] /\ request'[v] = request[v]

Rest(w) == pc'[w] = "idle" /\ gen'[w] = 0 /\ at'[w] = 1

LEMMA IdleKeepsOthers ==
  ASSUME WorkerType, NEW w \in Workers, Idle(w)
  PROVE  Rest(w) /\ \A v \in Workers \ {w} : LocalsKept(v)
  BY DEF Idle, Forget, Goto, WorkerType, LocalsKept, Rest

LEMMA AnswerKeepsOthers ==
  ASSUME WorkerType, NEW w \in Workers, MaterializeList(w)
  PROVE  /\ \A v \in Workers \ {w} : LocalsKept(v)
         /\ pc'[w] \in {"record", "block"}
         /\ UNCHANGED <<gen, known, at, item>>
<1>1. \E code, version : Answer(w, code, version)
  BY DEF MaterializeList
<1> QED BY <1>1 DEF MaterializeList, Answer, Goto, WorkerType, LocalsKept

LEMMA OthersUntouched ==
  ASSUME WorkerType, NEW w \in Workers, WorkerAct(w)
  PROVE  \A v \in Workers \ {w} : LocalsKept(v)
<1>1. CASE ClaimCancelled(w) \/ Heartbeat(w)
  BY <1>1 DEF ClaimCancelled, Heartbeat, LocalsKept
<1>2. CASE \/ Claim(w) \/ LoadMappings(w) \/ ReadPolicyRows(w) \/ ReadItems(w)
           \/ LookUpIdentity(w) \/ ResolvePlace(w) \/ ContributeFacts(w)
  BY <1>2 DEF Claim, LoadMappings, ReadPolicyRows, ReadItems, LookUpIdentity, ResolvePlace,
     ContributeFacts, Goto, WorkerType, LocalsKept
<1>3. CASE CreatePlace(w) \/ TransientError(w) \/ ContributionFails(w)
  BY <1>3 DEF CreatePlace, TransientError, ContributionFails, Forget, Goto, WorkerType,
     LocalsKept
<1>4. CASE CheckLease(w)
  <2>1. CASE Idle(w)
    BY <2>1, IdleKeepsOthers
  <2>2. CASE ~Idle(w)
    BY <1>4, <2>2 DEF CheckLease, Goto, WorkerType, LocalsKept
  <2> QED BY <2>1, <2>2
<1>5. CASE AcknowledgeCancel(w) \/ Block(w) \/ Complete(w) \/ RecordFailure(w) \/ Crash(w)
  BY <1>5, IdleKeepsOthers DEF AcknowledgeCancel, Block, Complete, RecordFailure, Crash
<1>6. CASE WriteCheckpoint(w)
  <2>1. CASE Idle(w)
    BY <2>1, IdleKeepsOthers
  <2>2. CASE ~Idle(w)
    BY <1>6, <2>2 DEF WriteCheckpoint, Goto, WorkerType, LocalsKept
  <2> QED BY <2>1, <2>2
<1>7. CASE RecordApplied(w)
  <2>1. CASE Idle(w)
    BY <2>1, IdleKeepsOthers
  <2>2. CASE ~Idle(w)
    BY <1>7, <2>2 DEF RecordApplied, Goto, WorkerType, LocalsKept
  <2> QED BY <2>1, <2>2
<1>8. CASE MaterializeList(w)
  BY <1>8, AnswerKeepsOthers
<1> QED BY <1>1, <1>2, <1>3, <1>4, <1>5, <1>6, <1>7, <1>8 DEF WorkerAct, WorkerStep

(* What moves no worker leaves all their locals.                           *)
BackgroundStep == MemberStep \/ OtherStep \/ LeaseExpires \/ BackoffEnds \/ UNCHANGED vars

LEMMA BackgroundKeepsWorkers ==
  ASSUME BackgroundStep PROVE UNCHANGED <<pc, locals>>
<1>1. CASE MemberStep
  BY <1>1 DEF MemberStep, Approve, ReadOperation, Cancel, Requeue
<1>2. CASE OtherStep
  BY <1>2 DEF OtherStep, EditCollection, DeleteCollection, OtherImport, LinkIdentity,
     MergePlaces, SplitIdentity, RetirePlace
<1>3. CASE LeaseExpires \/ BackoffEnds
  BY <1>3 DEF LeaseExpires, BackoffEnds
<1> QED BY <1>1, <1>2, <1>3 DEF BackgroundStep

LEMMA NextCases ==
  [Next]_vars <=> BackgroundStep \/ \E w \in Workers : WorkerAct(w)
  BY DEF Next, BackgroundStep, FaultStep, WorkerAct

-----------------------------------------------------------------------------
(* Where a worker stands.                                                  *)

LEMMA InsideKept ==
  ASSUME TypeOK, InsideTheLoop, NEW w \in Workers, WorkerAct(w),
         pc'[w] \in {"acknowledge", "resolve", "place", "items", "library", "record", "block"}
                       \cup Resolving => at'[w] \in Lists,
         pc'[w] \in Resolving => item'[w] \in Items,
         pc'[w] \in Placed => place'[w] # NoPlace,
         pc'[w] \in {"idle", "load"} => at'[w] = 1
  PROVE  InsideTheLoop'
  BY OthersUntouched DEF TypeOK, InsideTheLoop, LocalsKept

LEMMA InsideTheLoopKept ==
  ASSUME TypeOK, InsideTheLoop, [Next]_vars PROVE InsideTheLoop'
<1>1. CASE BackgroundStep
  BY <1>1, BackgroundKeepsWorkers DEF InsideTheLoop
<1>2. ASSUME NEW w \in Workers, WorkerAct(w) PROVE InsideTheLoop'
  <2> USE DEF TypeOK
  <2>0. Resolving = {"lookup", "survivor", "contribute", "checkpoint"}
        /\ Placed = {"survivor", "contribute", "checkpoint"}
    BY DEF Resolving, Placed
  <2>1. CASE \/ pc'[w] \in {"next", "failing", "inactive", "violated"}
             \/ pc'[w] \in {"idle", "load"} /\ at'[w] = 1
    BY <1>2, <2>0, <2>1, InsideKept
  <2>2. CASE pc'[w] = pc[w] /\ at'[w] = at[w] /\ item'[w] = item[w] /\ place'[w] = place[w]
    BY <1>2, <2>2, InsideKept DEF InsideTheLoop
  <2>3. CASE CheckLease(w)
    <3>1. CASE ~Holds(w)
      BY <2>1, <2>3, <3>1, IdleKeepsOthers DEF CheckLease, Rest
    <3>2. CASE Holds(w)
      <4>1. at[w] \in Lists /\ (at'[w] = at[w] \/ pc'[w] = "next")
        BY <2>3, <3>2 DEF CheckLease
      <4>2. pc'[w] \in {"next", "acknowledge", "resolve"}
        BY <2>3, <3>2 DEF CheckLease, Goto, WorkerType
      <4> QED BY <1>2, <4>1, <4>2, <2>0, InsideKept
    <3> QED BY <3>1, <3>2
  <2>4. CASE CreatePlace(w)
    <3>1. PICK i \in todo[w] : item' = [item EXCEPT ![w] = i]
      BY <2>4 DEF CreatePlace
    <3>2. item'[w] \in Items /\ at'[w] = at[w] /\ pc[w] = "place" /\ pc'[w] = "lookup"
      BY <2>4, <3>1 DEF CreatePlace, Goto, WorkerType
    <3> QED BY <1>2, <3>2, <2>0, InsideKept DEF InsideTheLoop
  <2>5. CASE \/ LoadMappings(w) \/ Claim(w) \/ TransientError(w)
             \/ ContributionFails(w)
    BY <2>1, <2>5 DEF LoadMappings, Claim, TransientError, ContributionFails,
       Goto, WorkerType, InsideTheLoop
  <2>6. CASE ClaimCancelled(w) \/ Heartbeat(w)
    BY <2>2, <2>6 DEF ClaimCancelled, Heartbeat
  <2>7. CASE Idle(w)
    BY <2>1, <2>7, IdleKeepsOthers DEF Rest
  <2>8. CASE ReadPolicyRows(w) \/ ReadItems(w)
    <3>1. pc[w] \in {"resolve", "items"} /\ at'[w] = at[w]
      BY <2>8 DEF ReadPolicyRows, ReadItems
    <3>2. pc'[w] \in {"place", "items", "library", "violated"}
      BY <2>8 DEF ReadPolicyRows, ReadItems, Goto, WorkerType
    <3> QED BY <1>2, <3>1, <3>2, <2>0, InsideKept DEF InsideTheLoop
  <2>9. CASE LookUpIdentity(w) \/ ResolvePlace(w) \/ ContributeFacts(w)
    <3>1. pc[w] \in Resolving /\ at'[w] = at[w] /\ item'[w] = item[w]
      BY <2>0, <2>9 DEF LookUpIdentity, ResolvePlace, ContributeFacts
    <3>2. pc'[w] \in Placed \cup {"inactive"}
      BY <2>0, <2>9 DEF LookUpIdentity, ResolvePlace, ContributeFacts, Goto, WorkerType
    <3>3. pc'[w] \in Placed => place'[w] # NoPlace
      <4>1. CASE LookUpIdentity(w)
        BY <2>0, <4>1 DEF LookUpIdentity, Goto, WorkerType
      <4>2. CASE ResolvePlace(w)
        <5>1. place[w] \in Places /\ survivor[place[w]] \in Places
          BY <2>0, <4>2 DEF ResolvePlace, InsideTheLoop, WorkerType, CanonicalType
        <5> QED BY <4>2, <5>1, NullsAreFresh DEF ResolvePlace, WorkerType
      <4>3. CASE ContributeFacts(w)
        BY <2>0, <4>3 DEF ContributeFacts, InsideTheLoop
      <4> QED BY <2>9, <4>1, <4>2, <4>3
    <3> QED BY <1>2, <2>0, <3>1, <3>2, <3>3, InsideKept DEF InsideTheLoop
  <2>10. CASE WriteCheckpoint(w) /\ ~Idle(w)
    <3>1. pc[w] = "checkpoint" /\ at'[w] = at[w]
      BY <2>10 DEF WriteCheckpoint
    <3>2. pc'[w] \in {"place", "items", "violated"}
      BY <2>10 DEF WriteCheckpoint, Goto, WorkerType
    <3> QED BY <1>2, <3>1, <3>2, <2>0, InsideKept DEF InsideTheLoop
  <2>11. CASE MaterializeList(w)
    BY <1>2, <2>0, <2>11, InsideKept, AnswerKeepsOthers DEF InsideTheLoop, MaterializeList
  <2>12. CASE RecordApplied(w) /\ ~Idle(w)
    <3>1. pc'[w] = "next"
      BY <2>12 DEF RecordApplied, Goto, WorkerType
    <3> QED BY <2>1, <3>1
  <2> QED BY <1>2, <2>3, <2>4, <2>5, <2>6, <2>7, <2>8, <2>9, <2>10, <2>11, <2>12
          DEF WorkerAct, WorkerStep, AcknowledgeCancel, Block, Complete, RecordFailure,
              Crash
<1> QED BY <1>1, <1>2, NextCases

LEMMA NextTypeOK ==
  ASSUME TypeOK, InsideTheLoop, [Next]_vars PROVE TypeOK'
<1>1. CASE BackgroundStep
  <2>1. CASE UNCHANGED vars
    BY <2>1 DEF TypeOK, OperationType, PlanType, CanonicalType, LibraryType, WorkerType,
       MemberType
  <2> QED BY <1>1, <2>1, MemberStepTypeOK, OtherStepTypeOK, ClockTypeOK DEF BackgroundStep
<1>2. ASSUME NEW w \in Workers, WorkerAct(w) PROVE TypeOK'
  BY <1>2, ClaimTypeOK, CheckLeaseTypeOK, ReadingStepsTypeOK, PlaceStepsTypeOK, RunEndsTypeOK,
     WriteCheckpointTypeOK, RecordAppliedTypeOK, MaterializeListTypeOK, FaultStepsTypeOK
  DEF WorkerAct, WorkerStep
<1> QED BY <1>1, <1>2, NextCases

LEMMA InitInside == Init => InsideTheLoop
  BY DEF Init, InsideTheLoop, Resolving, Placed

(* Every reachable state has the shape TypeOK gives it.                    *)
THEOREM TypeCorrect == Spec => []TypeOK
<1>1. Init => TypeOK /\ InsideTheLoop
  BY InitTypeOK, InitInside
<1>2. TypeOK /\ InsideTheLoop /\ [Next]_vars => TypeOK' /\ InsideTheLoop'
  BY NextTypeOK, InsideTheLoopKept
<1> QED BY <1>1, <1>2, PTL DEF Spec

-----------------------------------------------------------------------------
(* Claims.                                                                 *)

LEMMA ClaimsKept ==
  ASSUME TypeOK, ClaimsAreDistinct, [Next]_vars PROVE ClaimsAreDistinct'
<1> USE DEF TypeOK
<1>1. CASE BackgroundStep
  <2>1. UNCHANGED leaseGeneration
    BY <1>1 DEF BackgroundStep, MemberStep, Approve, ReadOperation, Cancel, Commanded,
       Requeue, OtherStep, EditCollection, DeleteCollection, OtherImport, LinkIdentity,
       MergePlaces, SplitIdentity, RetirePlace, LeaseExpires, BackoffEnds
  <2> QED BY <1>1, <2>1, BackgroundKeepsWorkers DEF ClaimsAreDistinct
<1>2. ASSUME NEW w \in Workers, WorkerAct(w) PROVE ClaimsAreDistinct'
  <2>1. leaseGeneration \in Nat
    BY DEF OperationType
  <2>2. CASE Claim(w)
    <3>1. leaseGeneration' = leaseGeneration + 1 /\ gen'[w] = leaseGeneration + 1
      BY <2>2 DEF Claim, WorkerType
    <3>2. \A v \in Workers \ {w} : pc'[v] = pc[v] /\ gen'[v] = gen[v]
      BY <1>2, OthersUntouched DEF LocalsKept
    <3>3. ASSUME NEW v \in Workers \ {w}, pc'[v] # "idle"
          PROVE  gen'[v] \in 1..leaseGeneration /\ gen'[v] # gen'[w]
      BY <2>1, <3>1, <3>2, <3>3 DEF ClaimsAreDistinct
    <3>4. \A v \in Workers : pc'[v] # "idle" => gen'[v] \in 1..leaseGeneration'
      BY <2>1, <3>1, <3>3
    <3>5. \A v, u \in Workers :
            pc'[v] # "idle" /\ pc'[u] # "idle" /\ gen'[v] = gen'[u] => u = v
      BY <3>2, <3>3 DEF ClaimsAreDistinct
    <3> QED BY <3>4, <3>5 DEF ClaimsAreDistinct
  <2>3. CASE ~Claim(w)
    <3>1. UNCHANGED leaseGeneration
      BY <1>2, <2>3 DEF WorkerAct, WorkerStep, ClaimCancelled, LoadMappings, CheckLease,
         AcknowledgeCancel, ReadPolicyRows, CreatePlace, LookUpIdentity, ResolvePlace,
         ContributeFacts, ContributionFails, WriteCheckpoint, ReadItems, MaterializeList,
         RecordApplied, Block, Complete, RecordFailure, Heartbeat, Crash, TransientError,
         FinishCancellation, ReleaseLease
    <3>2. pc'[w] = "idle" \/ (gen'[w] = gen[w] /\ pc[w] # "idle")
      BY <1>2, <2>3, IdleKeepsOthers, AnswerKeepsOthers
      DEF WorkerAct, WorkerStep, ClaimCancelled, LoadMappings, CheckLease,
          AcknowledgeCancel, ReadPolicyRows, CreatePlace, LookUpIdentity, ResolvePlace,
          ContributeFacts, ContributionFails, WriteCheckpoint, ReadItems, MaterializeList,
          RecordApplied, Block, Complete, RecordFailure, Heartbeat, Crash, TransientError,
          Rest
    <3> QED BY <1>2, <3>1, <3>2, OthersUntouched DEF ClaimsAreDistinct, LocalsKept
  <2> QED BY <2>2, <2>3
<1> QED BY <1>1, <1>2, NextCases

-----------------------------------------------------------------------------
(* The plan and its operation.                                             *)

LEMMA EndKeepsStory ==
  ASSUME FinishCancellation PROVE PlanFollowsOperation' /\ CancelHonoured'
  BY DEF FinishCancellation, PlanFollowsOperation, CancelHonoured, Active

LEMMA RowsKeepStory ==
  ASSUME PlanFollowsOperation, CancelHonoured, UNCHANGED <<operation, planState>>
  PROVE  PlanFollowsOperation' /\ CancelHonoured'
  BY DEF PlanFollowsOperation, CancelHonoured

LEMMA StoryKept ==
  ASSUME TypeOK, PlanFollowsOperation, CancelHonoured, [Next]_vars
  PROVE  PlanFollowsOperation' /\ CancelHonoured'
<1> USE DEF PlanFollowsOperation, CancelHonoured, Active
<1>1. CASE BackgroundStep
  <2>1. CASE Approve
    BY <2>1 DEF Approve
  <2>2. CASE Cancel
    BY <2>2, CancelGuard DEF Cancel
  <2>3. CASE Requeue
    BY <2>3, RequeueGuard DEF Requeue
  <2>4. CASE ReadOperation \/ OtherStep \/ LeaseExpires \/ BackoffEnds \/ UNCHANGED vars
    BY <2>4, RowsKeepStory DEF ReadOperation, OtherStep, EditCollection, DeleteCollection,
       OtherImport, LinkIdentity, MergePlaces, SplitIdentity, RetirePlace, LeaseExpires,
       BackoffEnds
  <2> QED BY <1>1, <2>1, <2>2, <2>3, <2>4 DEF BackgroundStep, MemberStep
<1>2. ASSUME NEW w \in Workers, WorkerAct(w) PROVE PlanFollowsOperation' /\ CancelHonoured'
  <2>1. CASE FinishCancellation
    BY <2>1, EndKeepsStory
  <2>2. CASE UNCHANGED <<operation, planState>>
    BY <2>2, RowsKeepStory
  <2>3. CASE Claim(w)
    BY <2>3 DEF Claim, Claimable
  <2>4. CASE Block(w) \/ Complete(w) \/ RecordFailure(w)
    BY <2>1, <2>2, <2>4 DEF Block, Complete, RecordFailure, Holds, LockSaysCancelled
  <2> QED BY <1>2, <2>1, <2>2, <2>3, <2>4
          DEF WorkerAct, WorkerStep, ClaimCancelled, LoadMappings, CheckLease,
              AcknowledgeCancel, ReadPolicyRows, CreatePlace, LookUpIdentity, ResolvePlace,
              ContributeFacts, ContributionFails, WriteCheckpoint, ReadItems,
              MaterializeList, RecordApplied, Heartbeat, Crash, TransientError
<1> QED BY <1>1, <1>2, NextCases

-----------------------------------------------------------------------------
(* Receipts.                                                               *)

LEMMA ReceiptsStay ==
  ASSUME TypeOK, InsideTheLoop, [Next]_vars
  PROVE  \A l \in Lists : receipt[l].code # "none" => receipt'[l] = receipt[l]
<1>1. CASE BackgroundStep
  BY <1>1 DEF BackgroundStep, MemberStep, Approve, ReadOperation, Cancel, Requeue,
     OtherStep, EditCollection, DeleteCollection, OtherImport, LinkIdentity, MergePlaces,
     SplitIdentity, RetirePlace, LeaseExpires, BackoffEnds
<1>2. ASSUME NEW w \in Workers, MaterializeList(w), NEW l \in Lists, receipt[l].code # "none"
      PROVE  receipt'[l] = receipt[l]
  BY <1>2 DEF MaterializeList, Answered, Deliver, TypeOK, LibraryType
<1>3. ASSUME NEW w \in Workers, WorkerAct(w), ~MaterializeList(w) PROVE UNCHANGED receipt
  BY <1>3 DEF WorkerAct, WorkerStep, ClaimCancelled, Claim, LoadMappings, CheckLease,
     AcknowledgeCancel, ReadPolicyRows, CreatePlace, LookUpIdentity, ResolvePlace,
     ContributeFacts, ContributionFails, WriteCheckpoint, ReadItems, RecordApplied, Block,
     Complete, RecordFailure, Heartbeat, Crash, TransientError
<1> QED BY <1>1, <1>2, <1>3, NextCases

LEMMA RecordBackedKept ==
  ASSUME TypeOK, InsideTheLoop, RecordIsBacked, [Next]_vars PROVE RecordIsBacked'
<1> USE DEF TypeOK
<1>0. \A v \in Workers : pc[v] = "record" => at[v] \in Lists
  BY DEF InsideTheLoop
<1>1. ASSUME NEW v \in Workers, LocalsKept(v), pc'[v] = "record"
      PROVE  receipt'[at'[v]].code = "applied" /\ receipt'[at'[v]].version = outcome'[v].version
  <2>1. pc[v] = "record" /\ at'[v] = at[v] /\ outcome'[v] = outcome[v]
    BY <1>1 DEF LocalsKept
  <2>2. receipt[at[v]].code = "applied" /\ receipt[at[v]].version = outcome[v].version
    BY <2>1 DEF RecordIsBacked
  <2>3. receipt'[at[v]] = receipt[at[v]]
    BY <1>0, <2>1, <2>2, ReceiptsStay
  <2> QED BY <2>1, <2>2, <2>3
<1>2. CASE BackgroundStep
  <2>1. \A v \in Workers : LocalsKept(v)
    BY <1>2, BackgroundKeepsWorkers DEF LocalsKept
  <2> QED BY <1>1, <2>1 DEF RecordIsBacked
<1>3. ASSUME NEW w \in Workers, WorkerAct(w) PROVE RecordIsBacked'
  <2>1. CASE pc'[w] # "record"
    BY <1>1, <1>3, <2>1, OthersUntouched DEF RecordIsBacked
  <2>2. CASE LocalsKept(w)
    BY <1>1, <1>3, <2>2, OthersUntouched DEF RecordIsBacked
  <2>3. CASE MaterializeList(w)
    <3> DEFINE l == at[w]
    <3>1. l \in Lists /\ at'[w] = l
      BY <2>3 DEF MaterializeList, InsideTheLoop
    <3>2. ASSUME NEW code, NEW version, Answer(w, code, version), pc'[w] = "record"
          PROVE  code = "applied" /\ outcome'[w].version = version
      BY <3>2 DEF Answer, Goto, WorkerType
    <3>3. ASSUME pc'[w] = "record"
          PROVE  receipt'[l].code = "applied" /\ receipt'[l].version = outcome'[w].version
      <4>1. CASE Answered(l)
        BY <2>3, <3>2, <3>3, <4>1 DEF MaterializeList
      <4>2. CASE ~Answered(l) /\ Verdict(l, request[w]) = "applied"
        <5> DEFINE delivered == {request[w].places[i] : i \in ItemsOf(l)}
        <5>1. /\ Deliver(l, request[w])
              /\ Answer(w, "applied", AppliedRevision(l, delivered))
          BY <2>3, <4>2 DEF MaterializeList
        <5>2. receipt'[l] = [code |-> "applied", request |-> request[w],
                             version |-> AppliedRevision(l, delivered)]
          BY <3>1, <5>1 DEF Deliver, LibraryType
        <5> QED BY <3>2, <3>3, <5>1, <5>2
      <4>3. CASE ~Answered(l) /\ Verdict(l, request[w]) # "applied"
        BY <2>3, <3>2, <3>3, <4>3 DEF MaterializeList
      <4> QED BY <4>1, <4>2, <4>3
    <3> QED BY <1>1, <1>3, <3>1, <3>3, OthersUntouched DEF RecordIsBacked
  <2>4. CASE Idle(w)
    BY <2>1, <2>4, IdleKeepsOthers DEF Rest
  <2>5. CASE ~Idle(w) /\ ~MaterializeList(w) /\ ~ClaimCancelled(w) /\ ~Heartbeat(w)
    <3>1. pc'[w] # "record"
      BY <1>3, <2>5
      DEF WorkerAct, WorkerStep, Claim, LoadMappings, CheckLease, AcknowledgeCancel,
          ReadPolicyRows, CreatePlace, LookUpIdentity, ResolvePlace, ContributeFacts,
          ContributionFails, WriteCheckpoint, ReadItems, RecordApplied, Block, Complete,
          RecordFailure, Crash, TransientError, Goto, WorkerType
    <3> QED BY <2>1, <3>1
  <2>6. CASE ClaimCancelled(w) \/ Heartbeat(w)
    BY <2>2, <2>6 DEF ClaimCancelled, Heartbeat, LocalsKept
  <2> QED BY <2>3, <2>4, <2>5, <2>6
<1> QED BY <1>2, <1>3, NextCases

-----------------------------------------------------------------------------
(* What a lease protects.                                                  *)

(* The mappings are written by a claim and under a lease only. *)
LEMMA MappingWriters ==
  ASSUME TypeOK, [Next]_vars
  PROVE  \/ mapping' = mapping
         \/ \E w \in Workers :
              \/ Claim(w)
              \/ RecordApplied(w) /\ Holds(w)
              \/ Block(w) /\ Holds(w) /\ opState' # "running"
<1>1. CASE BackgroundStep
  BY <1>1 DEF BackgroundStep, MemberStep, Approve, ReadOperation, Cancel, Requeue,
     OtherStep, EditCollection, DeleteCollection, OtherImport, LinkIdentity, MergePlaces,
     SplitIdentity, RetirePlace, LeaseExpires, BackoffEnds
<1>2. ASSUME NEW w \in Workers, Block(w)
      PROVE  mapping' = mapping \/ (Holds(w) /\ opState' # "running")
  BY <1>2 DEF Block
<1>3. ASSUME NEW w \in Workers, RecordApplied(w) PROVE mapping' = mapping \/ Holds(w)
  BY <1>3 DEF RecordApplied
<1>4. ASSUME NEW w \in Workers, WorkerAct(w), ~Claim(w), ~Block(w), ~RecordApplied(w)
      PROVE  mapping' = mapping
  BY <1>4 DEF WorkerAct, WorkerStep, ClaimCancelled, LoadMappings, CheckLease,
     AcknowledgeCancel, ReadPolicyRows, CreatePlace, LookUpIdentity, ResolvePlace,
     ContributeFacts, ContributionFails, WriteCheckpoint, ReadItems, MaterializeList,
     Complete, RecordFailure, Heartbeat, Crash, TransientError
<1>5. ASSUME NEW w \in Workers, WorkerAct(w)
      PROVE  \/ mapping' = mapping
             \/ Claim(w)
             \/ RecordApplied(w) /\ Holds(w)
             \/ Block(w) /\ Holds(w) /\ opState' # "running"
  BY <1>2, <1>3, <1>4, <1>5
<1>6. CASE \E w \in Workers : WorkerAct(w)
  <2>1. PICK w \in Workers : WorkerAct(w)
    BY <1>6
  <2> QED BY <1>5, <2>1
<1> QED BY <1>1, <1>6, NextCases

(* Nothing but a claim starts an operation running. *)
LEMMA RunningKept ==
  ASSUME [Next]_vars, opState' = "running", \A w \in Workers : ~Claim(w)
  PROVE  opState = "running" /\ UNCHANGED <<leaseOwner, leaseGeneration>>
<1>1. CASE BackgroundStep
  BY <1>1 DEF BackgroundStep, MemberStep, Approve, ReadOperation, Cancel, Commanded,
     Requeue, OtherStep, EditCollection, DeleteCollection, OtherImport, LinkIdentity,
     MergePlaces, SplitIdentity, RetirePlace, LeaseExpires, BackoffEnds
<1>2. ASSUME NEW w \in Workers, WorkerAct(w)
      PROVE  opState = "running" /\ UNCHANGED <<leaseOwner, leaseGeneration>>
  BY <1>2 DEF WorkerAct, WorkerStep, ClaimCancelled, LoadMappings, CheckLease,
     AcknowledgeCancel, ReadPolicyRows, CreatePlace, LookUpIdentity, ResolvePlace,
     ContributeFacts, ContributionFails, WriteCheckpoint, ReadItems, MaterializeList,
     RecordApplied, Block, Complete, RecordFailure, Heartbeat, Crash, TransientError,
     FinishCancellation
<1> QED BY <1>1, <1>2, NextCases

(* A worker that holds the lease after a step, its own claim apart, held   *)
(* it before.                                                              *)
LEMMA HeldBefore ==
  ASSUME TypeOK, ClaimsAreDistinct, [Next]_vars, NEW v \in Workers,
         pc[v] # "idle", gen'[v] = gen[v], Holds(v)'
  PROVE  Holds(v) /\ \A w \in Workers : ~Claim(w)
<1>1. \A w \in Workers : ~Claim(w)
  <2>1. ASSUME NEW w \in Workers, Claim(w) PROVE leaseGeneration' = leaseGeneration + 1
    BY <2>1 DEF Claim
  <2>2. gen[v] <= leaseGeneration /\ leaseGeneration \in Nat /\ leaseGeneration' = gen[v]
    BY DEF ClaimsAreDistinct, Holds, TypeOK, OperationType
  <2> QED BY <2>1, <2>2
<1> QED BY <1>1, RunningKept DEF Holds

LEMMA RefusalKept ==
  ASSUME TypeOK, InsideTheLoop, RunsHaveNoRefusal, [Next]_vars PROVE RunsHaveNoRefusal'
<1> SUFFICES ASSUME opState' = "running", NEW l \in Lists PROVE mapping'[l].state # "rejected"
  BY DEF RunsHaveNoRefusal
<1>1. ASSUME NEW w \in Workers, Claim(w) PROVE mapping'[l].state # "rejected"
  BY <1>1 DEF Claim, Reopened
<1>2. CASE \A w \in Workers : ~Claim(w)
  <2>1. opState = "running" /\ mapping[l].state # "rejected"
    BY <1>2, RunningKept DEF RunsHaveNoRefusal
  <2>2. ASSUME NEW w \in Workers, RecordApplied(w), Holds(w) PROVE mapping'[l].state # "rejected"
    BY <2>1, <2>2 DEF RecordApplied, TypeOK, PlanType
  <2> QED BY <1>2, <2>1, <2>2, MappingWriters
<1> QED BY <1>1, <1>2

(* What SnapshotStillTrue says of one worker. *)
Relying(w) == Holds(w) /\ pc[w] \notin {"idle", "load", "failing"}
ReadRight(w) ==
  \A l \in Lists :
    /\ l >= at[w] => mapping[l] = known[w][l]
    /\ l < at[w] => mapping[l].state = "applied"

LEMMA BystanderReadsRight ==
  ASSUME TypeOK, ClaimsAreDistinct, InsideTheLoop, SnapshotStillTrue, [Next]_vars,
         NEW v \in Workers, LocalsKept(v), \A w \in Workers : WorkerAct(w) => w # v,
         Relying(v)'
  PROVE  ReadRight(v)'
<1>1. pc[v] \notin {"idle", "load", "failing"} /\ gen'[v] = gen[v] /\ Holds(v)'
  BY DEF Relying, LocalsKept
<1>2. Holds(v) /\ (\A w \in Workers : ~Claim(w)) /\ opState' = "running"
  BY <1>1, HeldBefore DEF Holds
<1>3. ReadRight(v)
  BY <1>1, <1>2 DEF SnapshotStillTrue, ReadRight
<1>4. mapping' = mapping
  <2>1. ASSUME NEW w \in Workers, RecordApplied(w), Holds(w) PROVE FALSE
    <3>1. w # v
      BY <2>1 DEF WorkerAct, WorkerStep
    <3>2. gen[w] = gen[v] /\ pc[w] # "idle"
      BY <1>2, <2>1 DEF Holds, RecordApplied
    <3> QED BY <1>1, <3>1, <3>2 DEF ClaimsAreDistinct
  <2> QED BY <1>2, <2>1, MappingWriters
<1> QED BY <1>3, <1>4 DEF ReadRight, LocalsKept

LEMMA ActorReadsRight ==
  ASSUME TypeOK, ClaimsAreDistinct, InsideTheLoop, RunsHaveNoRefusal, SnapshotStillTrue,
         NEW w \in Workers, WorkerAct(w), Relying(w)'
  PROVE  ReadRight(w)'
<1> USE DEF TypeOK
<1>0. [Next]_vars /\ pc'[w] \notin {"idle", "load", "failing"} /\ opState' = "running"
  BY NextCases DEF Relying, Holds
<1>1. ~Claim(w) /\ ~Idle(w) /\ ~TransientError(w) /\ ~Crash(w) /\ ~ContributionFails(w)
  BY <1>0, IdleKeepsOthers
  DEF Claim, TransientError, Crash, ContributionFails, Goto, WorkerType, Rest
<1>2. pc[w] \notin {"idle", "failing"} /\ gen'[w] = gen[w]
  BY <1>0, <1>1, AnswerKeepsOthers
  DEF WorkerAct, WorkerStep, ClaimCancelled, LoadMappings, CheckLease, AcknowledgeCancel,
      ReadPolicyRows, CreatePlace, LookUpIdentity, ResolvePlace, ContributeFacts,
      ContributionFails, WriteCheckpoint, ReadItems, MaterializeList, RecordApplied, Block,
      Complete, RecordFailure, Heartbeat
<1>3. Holds(w)
  BY <1>0, <1>2, HeldBefore DEF Relying
<1>4. CASE LoadMappings(w)
  BY <1>4, ParameterTypes DEF LoadMappings, InsideTheLoop, WorkerType, PlanType, ReadRight,
     Lists
<1>5. ASSUME ~LoadMappings(w) PROVE ReadRight(w) /\ known'[w] = known[w]
  <2>1. pc[w] # "load" /\ known'[w] = known[w]
    BY <1>0, <1>1, <1>2, <1>5, AnswerKeepsOthers
    DEF WorkerAct, WorkerStep, ClaimCancelled, Claim, CheckLease, AcknowledgeCancel,
        ReadPolicyRows, CreatePlace, LookUpIdentity, ResolvePlace, ContributeFacts,
        ContributionFails, WriteCheckpoint, ReadItems, MaterializeList, RecordApplied,
        Block, Complete, RecordFailure, Heartbeat
  <2> QED BY <1>2, <1>3, <2>1 DEF SnapshotStillTrue, ReadRight
<1>6. CASE CheckLease(w)
  <2>1. mapping' = mapping /\ pc[w] # "load" /\ at[w] \in Lists
    BY <1>6 DEF CheckLease
  <2>2. ReadRight(w) /\ known'[w] = known[w]
    BY <1>5, <1>6 DEF CheckLease, LoadMappings
  <2>3. CASE at'[w] = at[w]
    BY <2>1, <2>2, <2>3 DEF ReadRight
  <2>4. CASE at'[w] # at[w]
    <3>1. at'[w] = at[w] + 1 /\ known[w][at[w]].state = "applied"
      <4>1. at' # at
        BY <2>4
      <4>2. at' = [at EXCEPT ![w] = at[w] + 1] /\ known[w][at[w]].state = "applied"
        BY <1>1, <1>3, <1>6, <4>1 DEF CheckLease, Goto
      <4>3. at \in [Workers -> 1..(NumLists + 1)]
        BY DEF WorkerType
      <4> QED BY <4>2, <4>3
    <3>2. at[w] >= at[w] /\ mapping[at[w]] = known[w][at[w]]
      <4>1. at[w] >= at[w]
        BY <2>1, ParameterTypes DEF Lists
      <4> QED BY <2>1, <2>2, <4>1 DEF ReadRight
    <3>3. ASSUME NEW l \in Lists
          PROVE  /\ l >= at'[w] => mapping'[l] = known'[w][l]
                 /\ l < at'[w] => mapping'[l].state = "applied"
      <4>1. /\ l >= at'[w] => l >= at[w]
            /\ l < at'[w] => l < at[w] \/ l = at[w]
        BY <2>1, <3>1, ParameterTypes DEF Lists
      <4> QED BY <2>1, <2>2, <3>1, <3>2, <4>1 DEF ReadRight
    <3> QED BY <3>3 DEF ReadRight
  <2> QED BY <2>3, <2>4
<1>7. CASE RecordApplied(w)
  <2>1. at[w] \in Lists /\ pc[w] # "load"
    BY <1>7 DEF RecordApplied, InsideTheLoop
  <2>2. ReadRight(w) /\ known'[w] = known[w]
    BY <1>5, <1>7 DEF RecordApplied, LoadMappings
  <2>3. at'[w] = at[w] + 1
    BY <1>1, <1>3, <1>7 DEF RecordApplied, WorkerType
  <2>4. mapping'[at[w]].state = "applied"
    <3>1. mapping[at[w]].state \in {"pending", "applied"}
      BY <1>3, <2>1 DEF RunsHaveNoRefusal, Holds, PlanType, MappingRows, MappingStates
    <3> QED BY <1>3, <1>7, <2>1, <3>1 DEF RecordApplied, PlanType
  <2>5. \A l \in Lists : l # at[w] => mapping'[l] = mapping[l]
    BY <1>3, <1>7 DEF RecordApplied, PlanType
  <2>6. ASSUME NEW l \in Lists
        PROVE  /\ l >= at'[w] => mapping'[l] = known'[w][l]
               /\ l < at'[w] => mapping'[l].state = "applied"
    <3>1. /\ l >= at'[w] => l >= at[w] /\ l # at[w]
          /\ l < at'[w] => l < at[w] \/ l = at[w]
      BY <2>1, <2>3, ParameterTypes DEF Lists
    <3> QED BY <2>2, <2>4, <2>5, <3>1 DEF ReadRight
  <2> QED BY <2>6 DEF ReadRight
<1>8. CASE ~LoadMappings(w) /\ ~CheckLease(w) /\ ~RecordApplied(w)
  <2>1. mapping' = mapping /\ at'[w] = at[w]
    BY <1>0, <1>1, <1>2, <1>8, AnswerKeepsOthers
    DEF WorkerAct, WorkerStep, ClaimCancelled, AcknowledgeCancel, ReadPolicyRows,
        CreatePlace, LookUpIdentity, ResolvePlace, ContributeFacts, ContributionFails,
        WriteCheckpoint, ReadItems, MaterializeList, Block, Complete, RecordFailure,
        Heartbeat
  <2> QED BY <1>5, <1>8, <2>1 DEF ReadRight
<1> QED BY <1>4, <1>6, <1>7, <1>8

LEMMA SnapshotKept ==
  ASSUME TypeOK, ClaimsAreDistinct, InsideTheLoop, RunsHaveNoRefusal, SnapshotStillTrue,
         [Next]_vars
  PROVE  SnapshotStillTrue'
<1> SUFFICES ASSUME NEW v \in Workers, Relying(v)' PROVE ReadRight(v)'
  BY DEF SnapshotStillTrue, Relying, ReadRight, Holds
<1>1. CASE WorkerAct(v)
  BY <1>1, ActorReadsRight
<1>2. CASE ~WorkerAct(v)
  <2>1. LocalsKept(v)
    BY <1>2, NextCases, OthersUntouched, BackgroundKeepsWorkers DEF TypeOK, LocalsKept
  <2> QED BY <1>2, <2>1, BystanderReadsRight
<1> QED BY <1>1, <1>2

LEMMA AppliedKept ==
  ASSUME TypeOK, InsideTheLoop, RecordIsBacked, AppliedHasReceipt, [Next]_vars
  PROVE  AppliedHasReceipt'
<1> SUFFICES ASSUME NEW l \in Lists, mapping'[l].state = "applied"
             PROVE  receipt'[l].code = "applied" /\ receipt'[l].version = mapping'[l].version
  BY DEF AppliedHasReceipt
<1>1. CASE mapping'[l] = mapping[l]
  BY <1>1, ReceiptsStay DEF AppliedHasReceipt
<1>2. ASSUME NEW w \in Workers, Claim(w) PROVE mapping'[l] = mapping[l]
  BY <1>2 DEF Claim, Reopened
<1>3. ASSUME NEW w \in Workers, RecordApplied(w), Holds(w), mapping'[l] # mapping[l]
      PROVE  receipt'[l].code = "applied" /\ receipt'[l].version = mapping'[l].version
  <2>1. l = at[w] /\ mapping'[l].version = outcome[w].version /\ pc[w] = "record"
    BY <1>3 DEF RecordApplied, TypeOK, PlanType
  <2>2. receipt[l].code = "applied" /\ receipt[l].version = outcome[w].version
    BY <2>1 DEF RecordIsBacked
  <2> QED BY <2>1, <2>2, ReceiptsStay
<1>4. ASSUME NEW w \in Workers, Block(w), Holds(w) PROVE mapping'[l] = mapping[l]
  <2>1. CASE mapping' = mapping
    BY <2>1
  <2>2. CASE mapping' # mapping
    BY <1>4, <2>2 DEF Block, TypeOK, PlanType
  <2> QED BY <2>1, <2>2
<1> QED BY <1>1, <1>2, <1>3, <1>4, MappingWriters

LEMMA CompletedStays ==
  ASSUME TypeOK, [Next]_vars, opState = "completed"
  PROVE  opState' = "completed" /\ mapping' = mapping
<1>1. ~Cancel /\ ~Requeue /\ ~Approve
  BY CancelGuard, RequeueGuard DEF Active, Approve
<1>2. \A w \in Workers : ~Claim(w) /\ ~ClaimCancelled(w) /\ ~Holds(w)
  BY DEF Claim, ClaimCancelled, Claimable, Holds
<1>3. mapping' = mapping
  BY <1>2, MappingWriters
<1>4. CASE BackgroundStep
  BY <1>1, <1>4 DEF BackgroundStep, MemberStep, ReadOperation, OtherStep, EditCollection,
     DeleteCollection, OtherImport, LinkIdentity, MergePlaces, SplitIdentity, RetirePlace,
     LeaseExpires, BackoffEnds
<1>5. ASSUME NEW w \in Workers, WorkerAct(w) PROVE opState' = opState
  BY <1>2, <1>5 DEF WorkerAct, WorkerStep, LoadMappings, CheckLease, AcknowledgeCancel,
     ReadPolicyRows, CreatePlace, LookUpIdentity, ResolvePlace, ContributeFacts,
     ContributionFails, WriteCheckpoint, ReadItems, MaterializeList, RecordApplied, Block,
     Complete, RecordFailure, Heartbeat, Crash, TransientError
<1> QED BY <1>3, <1>4, <1>5, NextCases

LEMMA CompletedKept ==
  ASSUME TypeOK, InsideTheLoop, SnapshotStillTrue, AppliedHasReceipt, CompletedMeansApplied,
         AppliedHasReceipt', [Next]_vars
  PROVE  CompletedMeansApplied'
<1> SUFFICES ASSUME opState' = "completed", NEW l \in Lists PROVE mapping'[l].state = "applied"
  BY DEF CompletedMeansApplied, AppliedHasReceipt
<1>1. CASE opState = "completed"
  BY <1>1, CompletedStays DEF CompletedMeansApplied
<1>2. ASSUME NEW w \in Workers, Complete(w), Holds(w) PROVE mapping'[l].state = "applied"
  <2>1. at[w] = NumLists + 1 /\ pc[w] = "next" /\ mapping' = mapping
    BY <1>2 DEF Complete, NoListLeft
  <2>2. l < at[w]
    BY <2>1, ParameterTypes DEF Lists
  <2> QED BY <1>2, <2>1, <2>2 DEF SnapshotStillTrue
<1>3. CASE BackgroundStep
  BY <1>1, <1>3, CancelGuard DEF BackgroundStep, MemberStep, Approve, ReadOperation, Cancel,
     Requeue, OtherStep, EditCollection, DeleteCollection, OtherImport, LinkIdentity,
     MergePlaces, SplitIdentity, RetirePlace, LeaseExpires, BackoffEnds
<1>4. ASSUME NEW w \in Workers, WorkerAct(w), ~(Complete(w) /\ Holds(w)) PROVE opState = "completed"
  BY <1>4 DEF WorkerAct, WorkerStep, Claim, ClaimCancelled, LoadMappings, CheckLease,
     AcknowledgeCancel, ReadPolicyRows, CreatePlace, LookUpIdentity, ResolvePlace,
     ContributeFacts, ContributionFails, WriteCheckpoint, ReadItems, MaterializeList,
     RecordApplied, Block, Complete, RecordFailure, Heartbeat, Crash, TransientError,
     FinishCancellation
<1> QED BY <1>1, <1>2, <1>3, <1>4, NextCases

-----------------------------------------------------------------------------
(* The inductive invariant and what follows from it.                       *)

LEMMA InitIInv == Init => IInv
<1> SUFFICES ASSUME Init PROVE IInv
  OBVIOUS
<1>1. ClaimsAreDistinct /\ RecordIsBacked /\ SnapshotStillTrue /\ RunsHaveNoRefusal
  BY DEF Init, ClaimsAreDistinct, RecordIsBacked, SnapshotStillTrue, RunsHaveNoRefusal
<1>2. CancelHonoured /\ CompletedMeansApplied
  BY DEF Init, CancelHonoured, CompletedMeansApplied
<1>4. PlanFollowsOperation
  BY DEF Init, PlanFollowsOperation, Active
<1>3. AppliedHasReceipt
  BY DEF Init, AppliedHasReceipt, NothingKnown
<1> QED BY <1>1, <1>2, <1>3, <1>4, InitTypeOK, InitInside DEF IInv

LEMMA NextIInv == IInv /\ [Next]_vars => IInv'
<1> SUFFICES ASSUME IInv, [Next]_vars PROVE IInv'
  OBVIOUS
<1> USE DEF IInv
<1>1. TypeOK' /\ InsideTheLoop'
  BY NextTypeOK, InsideTheLoopKept
<1>2. PlanFollowsOperation' /\ CancelHonoured' /\ ClaimsAreDistinct'
  BY StoryKept, ClaimsKept
<1>3. RecordIsBacked' /\ RunsHaveNoRefusal' /\ SnapshotStillTrue' /\ AppliedHasReceipt'
  BY RecordBackedKept, RefusalKept, SnapshotKept, AppliedKept
<1>4. CompletedMeansApplied'
  BY <1>3, CompletedKept
<1> QED BY <1>1, <1>2, <1>3, <1>4

(* Leases, rows and receipts stay in step in every reachable state: the    *)
(* invariant the theorems below are read from.                             *)
THEOREM Invariant == Spec => []IInv
  BY InitIInv, NextIInv, PTL DEF Spec

(* The plan row and the operation row never tell two stories, whichever    *)
(* handler wrote last.                                                     *)
THEOREM PlanFollows == Spec => []PlanFollowsOperation
<1>1. IInv => PlanFollowsOperation
  BY DEF IInv
<1> QED BY <1>1, Invariant, PTL

(* After the member's cancel the operation only ever runs on or is         *)
(* cancelled.                                                              *)
THEOREM CancelIsHonoured == Spec => []CancelHonoured
<1>1. IInv => CancelHonoured
  BY DEF IInv
<1> QED BY <1>1, Invariant, PTL

(* What run() read of the mappings before its first list stays true for as *)
(* long as the worker's claim is the lease's.                              *)
THEOREM SnapshotHolds == Spec => []SnapshotStillTrue
<1>1. IInv => SnapshotStillTrue
  BY DEF IInv
<1> QED BY <1>1, Invariant, PTL

(* A mapping the transfer recorded as applied has the Library's receipt of *)
(* the same version behind it.                                             *)
THEOREM AppliedIsBacked == Spec => []AppliedHasReceipt
<1>1. IInv => AppliedHasReceipt
  BY DEF IInv
<1> QED BY <1>1, Invariant, PTL

(* A completed import delivered every list.                                *)
THEOREM CompletedIsComplete == Spec => []CompletedMeansApplied
<1>1. IInv => CompletedMeansApplied
  BY DEF IInv
<1> QED BY <1>1, Invariant, PTL
=============================================================================
