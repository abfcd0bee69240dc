--------------------- MODULE WebImportAcquisitionProofs ---------------------
(* What WebImportAcquisition keeps for every number of acquisitions, links, *)
(* workers and calls.                                                      *)
EXTENDS WebImportAcquisition, FiniteSetTheorems, TLAPS

USE DEF database, vars

(* A number of links is a natural number.                                  *)
LEMMA LinksCounted ==
  ASSUME NEW S, S \subseteq Links PROVE Cardinality(S) \in Nat
  BY ParameterTypes, FS_Subset, FS_CardinalityType

LEMMA CountType ==
  ASSUME NEW outcome, NEW results PROVE Count(outcome, results) \in Nat
  BY LinksCounted DEF Count

LEMMA ItemsForType ==
  ASSUME NEW r \in Inspections PROVE ItemsFor(r) \in [Links -> ItemStates]
  BY ParameterTypes DEF ItemsFor, ItemStates

LEMMA LeasedJob ==
  ASSUME NEW x \in Jobs, NEW w \in Workers
  PROVE  [x EXCEPT !.state = "leased", !.owner = WorkerName[w],
                   !.generation = @ + 1, !.expired = FALSE] \in Jobs
<1>1. "leased" \in {"none"} \cup Unfinished \cup Finished
  BY DEF Unfinished
<1>2. WorkerName[w] \in {WorkerName[v] : v \in Workers} \cup {None}
  OBVIOUS
<1>3. x.generation + 1 \in Nat
  BY DEF Jobs
<1> DEFINE owners == {WorkerName[v] : v \in Workers} \cup {None}
           states == {"none"} \cup Unfinished \cup Finished
<1>4. Jobs = [state : states, owner : owners, generation : Nat, expired : BOOLEAN,
              deleted : BOOLEAN, results : Inspections \cup {None}]
  BY DEF Jobs
<1> HIDE DEF owners, states
<1>5. "leased" \in states /\ WorkerName[w] \in owners
  BY <1>1, <1>2 DEF owners, states
<1> QED BY <1>3, <1>4, <1>5

LEMMA InitTypeOK == Init => TypeOK
<1> SUFFICES ASSUME Init PROVE TypeOK
  OBVIOUS
<1>1. RowType
  BY ParameterTypes DEF Init, RowType, NoJob, NoAcquisition, Jobs, Unfinished, Finished,
     AcquisitionStates, ItemStates
<1>2. WorkerType
  BY ParameterTypes DEF Init, WorkerType, IdleWorker, Passes, PCs, Holding
<1>3. CallType
  BY DEF Init, CallType, NoView, Views, AcquisitionStates
<1> QED BY <1>1, <1>2, <1>3 DEF Init, TypeOK

-----------------------------------------------------------------------------
(* The rows.                                                               *)

(* The shape of one job beside its acquisition.                            *)
JobShape(j, state) ==
  /\ j \in Jobs
  /\ j.owner # None <=> j.state = "leased"
  /\ j.expired => j.state = "leased"
  /\ j.results # None => j.state = "leased"
  /\ j.deleted => j.state \in Finished
  /\ state = "processing" <=> j.state \in Unfinished
  /\ state = "none" <=> j.state = "none"

LEMMA RowShapes ==
  RowType <=>
    /\ DOMAIN job = Acquisitions /\ job = [a \in Acquisitions |-> job[a]]
    /\ \A a \in Acquisitions : JobShape(job[a], acquisition[a].state)
    /\ acquisition \in [Acquisitions -> [state : AcquisitionStates, ready : Nat, failed : Nat]]
    /\ items \in [Acquisitions -> [Links -> ItemStates]]
    /\ snapshot \in [Acquisitions -> Inspections \cup {None}]
  BY DEF RowType, JobShape

Rows == [state : AcquisitionStates, ready : Nat, failed : Nat]

(* A step writes one job and its acquisition.                              *)
LEMMA OneRowType ==
  ASSUME RowType, NEW a \in Acquisitions, NEW j, NEW q \in Rows, JobShape(j, q.state),
         job' = [job EXCEPT ![a] = j], acquisition' = [acquisition EXCEPT ![a] = q],
         items' \in [Acquisitions -> [Links -> ItemStates]],
         snapshot' \in [Acquisitions -> Inspections \cup {None}]
  PROVE  RowType'
<1>1. acquisition' \in [Acquisitions -> Rows]
  BY DEF RowType, Rows
<1>2. job' \in [Acquisitions -> Jobs]
  BY DEF RowType, JobShape
<1>3. \A b \in Acquisitions : JobShape(job'[b], acquisition'[b].state)
  <2>1. \A b \in Acquisitions : JobShape(job[b], acquisition[b].state)
    BY RowShapes
  <2>2. \A b \in Acquisitions \ {a} : job'[b] = job[b] /\ acquisition'[b].state = acquisition[b].state
    BY DEF RowType
  <2>3. job'[a] = j /\ acquisition'[a].state = q.state
    BY DEF RowType
  <2> QED BY <2>1, <2>2, <2>3
<1> QED BY <1>1, <1>2, <1>3 DEF RowType, JobShape, Rows

(* A step writes one job.                                                  *)
LEMMA OneJobType ==
  ASSUME RowType, NEW a \in Acquisitions, NEW j, JobShape(j, acquisition[a].state),
         job' = [job EXCEPT ![a] = j], acquisition' = acquisition,
         items' \in [Acquisitions -> [Links -> ItemStates]],
         snapshot' \in [Acquisitions -> Inspections \cup {None}]
  PROVE  RowType'
<1>1. acquisition[a] \in Rows
  BY DEF RowType, Rows
<1>2. acquisition' = [acquisition EXCEPT ![a] = acquisition[a]]
  BY DEF RowType
<1> QED BY <1>1, <1>2, OneRowType

LEMMA MarkType ==
  ASSUME RowType, NEW a \in Acquisitions, job' = MarkDeleted(a),
         UNCHANGED <<acquisition, items, snapshot>>
  PROVE  RowType'
<1> DEFINE j == [job[a] EXCEPT !.deleted = @ \/ job[a].state \in Finished]
<1>1. job' = [job EXCEPT ![a] = j]
  BY DEF RowType, MarkDeleted
<1>2. j \in Jobs
  <2>1. job[a] \in Jobs
    BY DEF RowType
  <2> QED BY <2>1 DEF Jobs
<1>3. JobShape(j, acquisition[a].state)
  BY <1>2 DEF RowType, JobShape, Jobs
<1> HIDE DEF j
<1> QED BY <1>1, <1>3, OneJobType DEF RowType

(* A finished job beside an acquisition that has ended.                    *)
LEMMA FinishedShape ==
  ASSUME RowType, NEW a \in Acquisitions, job[a].state = "leased", job' = FinishedJob(a),
         NEW state \in AcquisitionStates \ {"none", "processing"}
  PROVE  \E j : job' = [job EXCEPT ![a] = j] /\ JobShape(j, state)
<1> DEFINE j == [job[a] EXCEPT !.state = "completed", !.owner = None, !.expired = FALSE,
                               !.results = None]
<1>1. job' = [job EXCEPT ![a] = j]
  BY DEF RowType, FinishedJob
<1>2. j \in Jobs
  <2>1. job[a] \in Jobs
    BY DEF RowType
  <2> QED BY <2>1 DEF Jobs, Finished
<1>3. JobShape(j, state)
  BY <1>2 DEF RowType, JobShape, Jobs, Finished, Unfinished
<1> HIDE DEF j
<1> QED BY <1>1, <1>3

LEMMA StartRowType ==
  ASSUME TypeOK, NEW c \in Calls, StartStep(c) \/ CallFails(c)
  PROVE  RowType'
<1> USE DEF TypeOK
<1> DEFINE a == CommandOf[c]
<1>0. a \in Acquisitions
  BY ParameterTypes
<1> HIDE DEF a
<1>1. CASE Reserve(c)
  <2> DEFINE j == [job[a] EXCEPT !.state = "preparing"]
             q == [acquisition[a] EXCEPT !.state = "processing"]
  <2>1. /\ job[a].state = "none"
        /\ job' = [job EXCEPT ![a] = j] /\ acquisition' = [acquisition EXCEPT ![a] = q]
        /\ items' \in [Acquisitions -> [Links -> ItemStates]] /\ snapshot' = snapshot
    BY <1>0, <1>1 DEF a, Reserve, RowType, ItemStates
  <2>2. q \in Rows /\ q.state = "processing"
    BY <1>0 DEF RowType, Rows, AcquisitionStates
  <2>3. j \in Jobs
    <3>1. job[a] \in Jobs
      BY <1>0 DEF RowType
    <3> QED BY <3>1 DEF Jobs, Unfinished
  <2>4. JobShape(j, q.state)
    BY <1>0, <2>1, <2>2, <2>3 DEF RowType, JobShape, Jobs, Unfinished, Finished
  <2> HIDE DEF j, q
  <2> QED BY <1>0, <2>1, <2>2, <2>4, OneRowType DEF RowType
<1>2. CASE Activate(c)
  <2> DEFINE j == [job[a] EXCEPT !.state = IF @ = "preparing" THEN "queued" ELSE @,
                                 !.deleted = @ /\ job[a].state \notin Finished]
  <2>1. /\ job' = [job EXCEPT ![a] = j] /\ acquisition' = acquisition
        /\ UNCHANGED <<items, snapshot>>
    BY <1>0, <1>2 DEF a, Activate, RowType
  <2>2. j \in Jobs
    <3>1. job[a] \in Jobs
      BY <1>0 DEF RowType
    <3> QED BY <3>1 DEF Jobs, Unfinished
  <2>3. JobShape(j, acquisition[a].state)
    BY <1>0, <2>2 DEF RowType, JobShape, Jobs, Unfinished, Finished
  <2> HIDE DEF j
  <2> QED BY <1>0, <2>1, <2>3, OneJobType DEF RowType
<1>3. CASE CallMarks(c)
  BY <1>0, <1>3, MarkType DEF a, CallMarks
<1>4. CASE UNCHANGED database
  BY <1>4 DEF RowType
<1> QED BY <1>1, <1>2, <1>3, <1>4
    DEF StartStep, CallFails, ReserveAgain, RefuseReserve, CheckPut, Publish, CallDiscards

LEMMA CancelRowType ==
  ASSUME TypeOK, NEW a \in Acquisitions, CancelStep(a) \/ CancelFails(a)
  PROVE  RowType'
<1> USE DEF TypeOK
<1>1. CASE Cancel(a)
  <2> DEFINE j == [job[a] EXCEPT !.state = "cancelled"]
             q == [acquisition[a] EXCEPT !.state = "cancelled"]
  <2>1. /\ job[a].state = "queued"
        /\ job' = [job EXCEPT ![a] = j] /\ acquisition' = [acquisition EXCEPT ![a] = q]
        /\ UNCHANGED <<items, snapshot>>
    BY <1>1 DEF Cancel, RowType
  <2>2. q \in Rows /\ q.state = "cancelled"
    BY DEF RowType, Rows, AcquisitionStates
  <2>3. j \in Jobs
    <3>1. job[a] \in Jobs
      BY DEF RowType
    <3> QED BY <3>1 DEF Jobs, Finished
  <2>4. JobShape(j, q.state)
    BY <2>1, <2>2, <2>3 DEF RowType, JobShape, Jobs, Unfinished, Finished
  <2> HIDE DEF j, q
  <2> QED BY <2>1, <2>2, <2>4, OneRowType DEF RowType
<1>2. CASE CancelMarks(a)
  BY <1>2, MarkType DEF CancelMarks
<1>3. CASE UNCHANGED database
  BY <1>3 DEF RowType
<1> QED BY <1>1, <1>2, <1>3 DEF CancelStep, CancelFails, CancelAgain, CancelDiscards

LEMMA WorkerRowType ==
  ASSUME IInv, NEW w \in Workers,
         \/ WorkerStep(w) \/ DeadlinePasses(w) \/ SweepSkips(w)
         \/ ArtifactUnusable(w) \/ WorkerDies(w)
  PROVE  RowType'
<1> USE DEF IInv, TypeOK
<1> DEFINE a == worker[w].acq
<1>0. worker[w].pc \in Holding \cup {"marking"} => a \in Acquisitions
  BY DEF WorkerType
<1> HIDE DEF a
<1>1. CASE SweepMarks(w)
  BY <1>0, <1>1, MarkType DEF a, SweepMarks
<1>2. CASE Claim(w)
  <2> DEFINE j == [job[a] EXCEPT !.state = "leased", !.owner = WorkerName[w],
                                 !.generation = @ + 1, !.expired = FALSE]
  <2>0. a \in Acquisitions /\ job[a].state \in Unfinished
    BY <1>0, <1>2 DEF Claim, Holding, LocksHold, a
  <2>1. job' = [job EXCEPT ![a] = j] /\ acquisition' = acquisition /\ snapshot' = snapshot
    BY <2>0, <1>2 DEF a, Claim, RowType
  <2>2. items' \in [Acquisitions -> [Links -> ItemStates]]
    BY <2>0, <1>2 DEF a, Claim, RowType, ItemStates
  <2>3. j \in Jobs
    <3>1. job[a] \in Jobs
      BY <2>0 DEF RowType
    <3> QED BY <3>1, LeasedJob
  <2>4. JobShape(j, acquisition[a].state)
    BY <2>0, <2>3, ParameterTypes DEF RowType, JobShape, Jobs, Unfinished, Finished
  <2> HIDE DEF j
  <2> QED BY <2>0, <2>1, <2>2, <2>4, OneJobType DEF RowType
<1>3. CASE Record(w)
  <2> DEFINE j == [job[a] EXCEPT !.results = worker[w].results]
  <2>0. a \in Acquisitions /\ job[a].state = "leased" /\ worker[w].results \in Inspections
    BY <1>0, <1>3 DEF Record, Recordable, LeaseHeld, SameClaim, Holding, WorkerType, a
  <2>1. job' = [job EXCEPT ![a] = j] /\ acquisition' = acquisition /\ items' = items
    BY <2>0, <1>3 DEF a, Record, RowType
  <2>2. snapshot' \in [Acquisitions -> Inspections \cup {None}]
    BY <2>0, <1>3 DEF a, Record, RowType
  <2>3. j \in Jobs
    <3>1. job[a] \in Jobs
      BY <2>0 DEF RowType
    <3> QED BY <3>1, <2>0 DEF Jobs
  <2>4. JobShape(j, acquisition[a].state)
    BY <2>0, <2>3 DEF RowType, JobShape, Jobs
  <2> HIDE DEF j
  <2> QED BY <2>0, <2>1, <2>2, <2>4, OneJobType DEF RowType
<1>4. CASE Complete(w)
  <2> DEFINE r == worker[w].results
  <2>0. /\ a \in Acquisitions /\ job[a].state = "leased" /\ r \in Inspections
        /\ acquisition[a].state = "processing"
    BY <1>0, <1>4 DEF Complete, LeaseHeld, SameClaim, Holding, WorkerType, RowType, Unfinished, a
  <2> DEFINE ready == Count("succeeded", r)
             failed == Count("failed", r)
             q == [state |-> IF ready = 0 THEN "failed" ELSE IF failed = 0 THEN "ready" ELSE "partial",
                   ready |-> ready, failed |-> failed]
  <2>1. /\ job' = FinishedJob(a) /\ snapshot' = snapshot
        /\ items' = [items EXCEPT ![a] = ItemsFor(r)]
        /\ acquisition' = [acquisition EXCEPT ![a] = q]
    BY <2>0, <1>4 DEF a, Complete, RowType
  <2>2. items' \in [Acquisitions -> [Links -> ItemStates]]
    BY <2>0, <2>1, ItemsForType DEF RowType
  <2>3. ready \in Nat /\ failed \in Nat
    BY CountType
  <2> HIDE DEF ready, failed, r
  <2>4. q \in Rows /\ q.state \in AcquisitionStates \ {"none", "processing"}
    BY <2>3 DEF Rows, AcquisitionStates
  <2> HIDE DEF q
  <2>5. PICK j : job' = [job EXCEPT ![a] = j] /\ JobShape(j, q.state)
    BY <2>0, <2>1, <2>4, FinishedShape
  <2> QED BY <2>0, <2>1, <2>2, <2>4, <2>5, OneRowType DEF RowType
<1>5. CASE Expire(w) /\ SameClaim(w)
  <2> DEFINE left == [l \in Links |-> IF items[a][l] \in {"pending", "fetching"}
                                      THEN "failed" ELSE items[a][l]]
             n == Cardinality({l \in Links : left[l] = "failed"})
             q == [acquisition[a] EXCEPT !.state = "expired", !.failed = n]
  <2>0. a \in Acquisitions /\ job[a].state = "leased" /\ acquisition[a].state = "processing"
    BY <1>0, <1>5 DEF Expire, SameClaim, Holding, RowType, Unfinished, a
  <2>1. /\ job' = FinishedJob(a) /\ snapshot' = snapshot
        /\ items' = [items EXCEPT ![a] = left]
        /\ acquisition' = [acquisition EXCEPT ![a] = q]
    BY <2>0, <1>5 DEF a, Expire, RowType
  <2>2. left \in [Links -> ItemStates]
    BY <2>0 DEF RowType, ItemStates
  <2>3. n \in Nat
    BY LinksCounted
  <2> HIDE DEF left, n
  <2>4. q \in Rows /\ q.state = "expired"
    BY <2>0, <2>3 DEF RowType, Rows, AcquisitionStates
  <2> HIDE DEF q
  <2>5. PICK j : job' = [job EXCEPT ![a] = j] /\ JobShape(j, q.state)
    BY <2>0, <2>1, <2>4, FinishedShape DEF AcquisitionStates
  <2> QED BY <2>0, <2>1, <2>2, <2>4, <2>5, OneRowType DEF RowType
<1>6. CASE UNCHANGED database
  BY <1>6 DEF RowType
<1> QED BY <1>1, <1>2, <1>3, <1>4, <1>5, <1>6
    DEF WorkerStep, DeadlinePasses, SweepSkips, ArtifactUnusable, WorkerDies, ListFinished,
        SweepDiscards, Pick, PickNothing, ClaimNothing, DiscardLate, ReadArtifact, Inspect,
        InspectThrows, RecordRefused, Caught, CompleteRefused, Expire

LEMMA ClockRowType ==
  ASSUME TypeOK, NEW a \in Acquisitions, LeaseExpires(a) \/ LeaseOutrun(a)
  PROVE  RowType'
<1> USE DEF TypeOK
<1> DEFINE j == [job[a] EXCEPT !.expired = TRUE]
<1>1. /\ job[a].state = "leased"
      /\ job' = [job EXCEPT ![a] = j] /\ acquisition' = acquisition
      /\ UNCHANGED <<items, snapshot>>
  BY DEF LeaseExpires, LeaseOutrun, RowType
<1>2. job[a] \in Jobs
  BY DEF RowType
<1>3. j \in Jobs
  BY <1>2 DEF Jobs
<1>4. JobShape(j, acquisition[a].state)
  BY <1>1, <1>2, <1>3 DEF RowType, JobShape, Jobs
<1> HIDE DEF j
<1> QED BY <1>1, <1>4, OneJobType DEF RowType

(* Every transaction leaves the rows as the tables demand.                 *)
LEMMA RowTypeKept ==
  ASSUME IInv, [Next]_vars PROVE RowType'
<1>1. CASE UNCHANGED database
  BY <1>1 DEF IInv, TypeOK, RowType
<1>2. ASSUME NEW a \in Acquisitions, RetentionEnds(a) \/ ReadHeader(a) PROVE UNCHANGED database
  BY <1>2 DEF RetentionEnds, ReadHeader
<1>3. ReadItems => UNCHANGED database
  BY DEF ReadItems
<1> QED BY <1>1, <1>2, <1>3, StartRowType, CancelRowType, WorkerRowType, ClockRowType DEF Next, IInv

-----------------------------------------------------------------------------
(* The passes of the workers.                                              *)

PassShape(x) ==
  /\ x \in Passes
  /\ x.pc \in Holding \cup {"marking"} => x.acq \in Acquisitions
  /\ x.pc \in {"inspected", "recorded"} => x.results \in Inspections
  /\ x.checkpointed => x.results \in Inspections

LEMMA PassShapes ==
  WorkerType <=> worker \in [Workers -> Passes] /\ \A w \in Workers : PassShape(worker[w])
  BY DEF WorkerType, PassShape

LEMMA OnePassType ==
  ASSUME WorkerType, NEW w \in Workers, NEW x, PassShape(x), worker' = [worker EXCEPT ![w] = x]
  PROVE  WorkerType'
<1>1. worker' \in [Workers -> Passes]
  BY DEF WorkerType, PassShape
<1>2. worker'[w] = x /\ \A v \in Workers \ {w} : worker'[v] = worker[v]
  BY DEF WorkerType
<1>3. \A v \in Workers : PassShape(worker[v])
  BY PassShapes
<1>4. \A v \in Workers : PassShape(worker'[v])
  BY <1>2, <1>3
<1> QED BY <1>1, <1>4 DEF WorkerType, PassShape

LEMMA RestType ==
  ASSUME WorkerType, NEW w \in Workers, Rest(w) PROVE WorkerType'
<1>1. PassShape(IdleWorker)
  BY DEF PassShape, IdleWorker, Passes, PCs, Holding
<1> QED BY <1>1, OnePassType DEF Rest

LEMMA SweepingType ==
  ASSUME WorkerType, NEW w \in Workers, NEW todo \in SUBSET Acquisitions, Sweeping(w, todo)
  PROVE  WorkerType'
<1> DEFINE x == [IdleWorker EXCEPT !.pc = IF todo = {} THEN "ready" ELSE "sweeping", !.todo = todo]
<1>1. PassShape(x)
  BY DEF PassShape, IdleWorker, Passes, PCs, Holding
<1>2. worker' = [worker EXCEPT ![w] = x]
  BY DEF Sweeping
<1> HIDE DEF x
<1> QED BY <1>1, <1>2, OnePassType

LEMMA BecomeType ==
  ASSUME WorkerType, NEW w \in Workers, NEW pc \in PCs, Become(w, pc),
         pc \in Holding \cup {"marking"} => worker[w].acq \in Acquisitions,
         pc \in {"inspected", "recorded"} => worker[w].results \in Inspections
  PROVE  WorkerType'
<1> DEFINE x == [worker[w] EXCEPT !.pc = pc]
<1>0. worker[w] \in Passes
  BY DEF WorkerType
<1>1. x \in Passes
  BY <1>0 DEF Passes
<1>2. PassShape(x)
  BY <1>0, <1>1 DEF WorkerType, PassShape, Passes
<1>3. worker' = [worker EXCEPT ![w] = x]
  BY DEF Become, WorkerType
<1> HIDE DEF x
<1> QED BY <1>2, <1>3, OnePassType

LEMMA WorkerTypeKept ==
  ASSUME IInv, NEW w \in Workers,
         \/ WorkerStep(w) \/ DeadlinePasses(w) \/ SweepSkips(w)
         \/ ArtifactUnusable(w) \/ WorkerDies(w)
  PROVE  WorkerType'
<1> USE DEF IInv, TypeOK
<1>0. /\ worker[w] \in Passes /\ worker[w].todo \subseteq Acquisitions
      /\ worker[w].pc \in Holding => worker[w].acq \in Acquisitions
      /\ Unmarked \subseteq Acquisitions
  BY DEF WorkerType, Passes, Unmarked
<1>1. ASSUME NEW pc \in PCs, pc \in Holding => worker[w].pc \in Holding,
             pc # "marking", pc \in {"inspected", "recorded"} => worker[w].results \in Inspections,
             Become(w, pc)
      PROVE  WorkerType'
  BY <1>0, <1>1, BecomeType
<1>2. CASE ListFinished(w) \/ SweepSkips(w) \/ SweepMarks(w)
  BY <1>0, <1>2, SweepingType DEF ListFinished, SweepSkips, SweepMarks
<1>3. CASE SweepDiscards(w)
  <2>1. PICK a \in worker[w].todo : worker' = [worker EXCEPT ![w].pc = "marking", ![w].acq = a]
    BY <1>3 DEF SweepDiscards
  <2> DEFINE x == [worker[w] EXCEPT !.pc = "marking", !.acq = a]
  <2>2. worker' = [worker EXCEPT ![w] = x]
    BY <2>1 DEF WorkerType
  <2>3. a \in Acquisitions
    BY <1>0
  <2>4. x \in Passes
    BY <1>0, <2>3 DEF Passes, PCs
  <2>5. PassShape(x)
    BY <1>0, <2>3, <2>4 DEF PassShape, Passes, WorkerType
  <2> HIDE DEF x
  <2> QED BY <2>2, <2>5, OnePassType
<1>4. CASE Pick(w)
  <2>1. PICK a \in Acquisitions :
          worker' = [worker EXCEPT ![w].pc = "picked", ![w].acq = a, ![w].deadline = past[a]]
    BY <1>4 DEF Pick
  <2> DEFINE x == [worker[w] EXCEPT !.pc = "picked", !.acq = a, !.deadline = past[a]]
  <2>2. worker' = [worker EXCEPT ![w] = x]
    BY <2>1 DEF WorkerType
  <2>3. past[a] \in BOOLEAN
    OBVIOUS
  <2>4. x \in Passes
    BY <1>0, <2>3 DEF Passes, PCs
  <2>5. PassShape(x)
    BY <1>0, <2>4 DEF PassShape, Passes, WorkerType
  <2> HIDE DEF x
  <2> QED BY <2>2, <2>5, OnePassType
<1>5. CASE Claim(w)
  <2> DEFINE a == worker[w].acq
             pc == IF worker[w].deadline THEN "late"
                   ELSE IF job[a].results = None THEN "claimed" ELSE "inspected"
             kept == job[a].results # None
             x == [worker[w] EXCEPT !.pc = pc, !.generation = job[a].generation + 1,
                                    !.results = job[a].results, !.checkpointed = kept]
  <2>1. a \in Acquisitions /\ worker' = [worker EXCEPT ![w] = x]
    BY <1>0, <1>5 DEF Claim, Holding, WorkerType
  <2>2. /\ job[a].results \in Inspections \cup {None} /\ job[a].generation + 1 \in Nat
        /\ kept \in BOOLEAN /\ pc \in PCs
        /\ pc = "inspected" \/ kept => job[a].results \in Inspections
        /\ pc \in {"late", "claimed", "inspected"}
    BY <2>1 DEF RowType, Jobs, PCs
  <2> HIDE DEF pc, kept
  <2>3. x \in Passes
    BY <1>0, <2>2 DEF Passes
  <2>4. PassShape(x)
    BY <1>0, <2>1, <2>2, <2>3 DEF PassShape, Passes
  <2> HIDE DEF x
  <2> QED BY <2>1, <2>4, OnePassType
<1>6. CASE DeadlinePasses(w)
  <2> DEFINE x == [worker[w] EXCEPT !.deadline = TRUE]
  <2>1. worker' = [worker EXCEPT ![w] = x]
    BY <1>6 DEF DeadlinePasses, WorkerType
  <2>2. x \in Passes
    BY <1>0 DEF Passes
  <2>3. PassShape(x)
    BY <1>0, <2>2 DEF PassShape, WorkerType, Passes
  <2> HIDE DEF x
  <2> QED BY <2>1, <2>3, OnePassType
<1>7. CASE Inspect(w)
  <2>1. PICK r \in Inspections :
          worker' = [worker EXCEPT ![w].results = r,
                       ![w].pc = IF worker[w].deadline THEN "expiring" ELSE "inspected"]
    BY <1>7 DEF Inspect
  <2> DEFINE pc == IF worker[w].deadline THEN "expiring" ELSE "inspected"
             x == [worker[w] EXCEPT !.results = r, !.pc = pc]
  <2>2. worker' = [worker EXCEPT ![w] = x]
    BY <2>1 DEF WorkerType
  <2>3. pc \in PCs
    BY DEF PCs
  <2> HIDE DEF pc
  <2>4. x \in Passes
    BY <1>0, <2>3 DEF Passes
  <2>5. PassShape(x)
    BY <1>0, <1>7, <2>4 DEF PassShape, Passes, Inspect, Holding
  <2> HIDE DEF x
  <2> QED BY <2>2, <2>5, OnePassType
<1>8. CASE Record(w)
  <2>0. worker[w].results \in Inspections /\ worker[w].acq \in Acquisitions
    BY <1>0, <1>8 DEF Record, WorkerType, Holding
  <2>1. CASE Become(w, "failing")
    BY <1>0, <1>1, <1>8, <2>1 DEF Record, PCs, Holding
  <2>2. CASE worker' = [worker EXCEPT ![w].pc = "recorded", ![w].checkpointed = TRUE]
    <3> DEFINE x == [worker[w] EXCEPT !.pc = "recorded", !.checkpointed = TRUE]
    <3>1. worker' = [worker EXCEPT ![w] = x]
      BY <2>2 DEF WorkerType
    <3>2. x \in Passes
      BY <1>0 DEF Passes, PCs
    <3>3. PassShape(x)
      BY <1>0, <2>0, <3>2 DEF PassShape, Passes
    <3> HIDE DEF x
    <3> QED BY <3>1, <3>3, OnePassType
  <2> QED BY <1>8, <2>1, <2>2 DEF Record
<1>9. CASE \/ PickNothing(w) \/ DiscardLate(w) \/ ReadArtifact(w) \/ ArtifactUnusable(w)
           \/ InspectThrows(w) \/ RecordRefused(w) \/ (Caught(w) /\ ~Rest(w)) \/ CompleteRefused(w)
  <2>1. worker[w].checkpointed => worker[w].results \in Inspections
    BY DEF WorkerType
  <2> QED BY <1>1, <1>9, <2>1
    DEF PickNothing, DiscardLate, ReadArtifact, ArtifactUnusable, InspectThrows, RecordRefused,
        Caught, CompleteRefused, PCs, Holding
<1>10. CASE Rest(w)
  BY <1>10, RestType
<1> QED BY <1>2, <1>3, <1>4, <1>5, <1>6, <1>7, <1>8, <1>9, <1>10
    DEF WorkerStep, ClaimNothing, Complete, Expire, WorkerDies

-----------------------------------------------------------------------------
(* What a step of another part leaves alone.                               *)
LEMMA WorkersFrame ==
  ASSUME NEW w \in Workers,
         \/ WorkerStep(w) \/ DeadlinePasses(w) \/ SweepSkips(w)
         \/ ArtifactUnusable(w) \/ WorkerDies(w)
  PROVE  UNCHANGED <<past, call, canceller, view, abandoned>> /\ (faults' = faults \/ Fault)
BY DEF WorkerStep, ListFinished, SweepDiscards, SweepMarks, Pick, PickNothing, Claim,
     ClaimNothing, DiscardLate, ReadArtifact, Inspect, InspectThrows, Record, RecordRefused,
     Caught, Complete, CompleteRefused, Expire, DeadlinePasses, SweepSkips, ArtifactUnusable,
     WorkerDies

LEMMA CallsFrame ==
  ASSUME NEW c \in Calls, StartStep(c) \/ CallFails(c)
  PROVE  UNCHANGED <<past, canceller, worker, view>>
BY DEF StartStep, Reserve, ReserveAgain, RefuseReserve, CheckPut, Publish, Activate,
     CallDiscards, CallMarks, CallFails

LEMMA CancelFrame ==
  ASSUME NEW a \in Acquisitions, CancelStep(a) \/ CancelFails(a)
  PROVE  UNCHANGED <<past, call, worker, view, abandoned>>
BY DEF CancelStep, Cancel, CancelAgain, CancelDiscards, CancelMarks, CancelFails

LEMMA ClockFrame ==
  ASSUME NEW a \in Acquisitions, LeaseExpires(a) \/ LeaseOutrun(a) \/ RetentionEnds(a)
  PROVE  UNCHANGED <<stored, call, canceller, worker, view, abandoned>>
BY DEF LeaseExpires, LeaseOutrun, RetentionEnds

LEMMA ViewFrame ==
  ASSUME NEW a, ReadHeader(a) \/ ReadItems
  PROVE  UNCHANGED <<database, stored, past, call, canceller, worker, abandoned, faults>>
BY DEF ReadHeader, ReadItems

LEMMA CallTypeKept ==
  ASSUME IInv, [Next]_vars PROVE CallType'
<1> USE DEF IInv, TypeOK
<1> DEFINE CallStates == {"idle", "reserved", "publishing", "stored", "discard", "mark", "done"}
           CancelStates == {"idle", "discard", "mark", "done"}
<1>1. ASSUME NEW c \in Calls, StartStep(c) \/ CallFails(c) PROVE CallType'
  <2>1. call' \in [Calls -> CallStates]
    BY <1>1 DEF CallType, StartStep, Reserve, ReserveAgain, RefuseReserve, CheckPut, Publish,
         Activate, CallDiscards, CallMarks, CallFails
  <2> QED BY <1>1, <2>1, CallsFrame DEF CallType
<1>2. ASSUME NEW a \in Acquisitions, CancelStep(a) \/ CancelFails(a) PROVE CallType'
  <2>1. canceller' \in [Acquisitions -> CancelStates]
    BY <1>2 DEF CallType, CancelStep, Cancel, CancelAgain, CancelDiscards, CancelMarks, CancelFails
  <2> QED BY <1>2, <2>1, CancelFrame DEF CallType
<1>3. ASSUME NEW a \in Acquisitions PROVE ReadNow(a) \in Views /\ Processed(a) \in Nat
  <2>1. Processed(a) \in Nat
    BY LinksCounted DEF Processed
  <2>2. acquisition[a] \in Rows
    BY DEF RowType, Rows
  <2>3. (acquisition[a].state \in {"ready", "partial"}) \in BOOLEAN
    OBVIOUS
  <2> QED BY <2>1, <2>2, <2>3 DEF ReadNow, Views, Rows
<1>4. ASSUME NEW a \in Acquisitions, ReadHeader(a) PROVE CallType'
  <2>1. view' = ReadNow(a)
    BY <1>4 DEF ReadHeader
  <2>2. view' \in Views /\ view'.acq = a
    BY <1>3, <2>1 DEF ReadNow
  <2> QED BY <1>4, <2>2, ViewFrame DEF CallType
<1>5. CASE ReadItems
  <2>0. view \in Views /\ view.acq \in Acquisitions
    BY <1>5 DEF ReadItems, CallType
  <2> DEFINE n == Processed(view.acq)
  <2>1. view' = [view EXCEPT !.phase = "shown", !.processed = n]
    BY <1>5 DEF ReadItems, Project, ReadNow
  <2>2. n \in Nat
    BY <1>3, <2>0
  <2> HIDE DEF n
  <2>3. view' \in Views /\ view'.acq = view.acq
    BY <2>0, <2>1, <2>2 DEF Views
  <2> QED BY <1>5, <2>0, <2>3, ViewFrame DEF CallType
<1>6. CASE UNCHANGED <<call, canceller, view>>
  BY <1>6 DEF CallType
<1> QED BY <1>1, <1>2, <1>4, <1>5, <1>6, WorkersFrame, ClockFrame DEF Next

LEMMA StoreTypeKept ==
  ASSUME TypeOK, [Next]_vars
  PROVE  /\ stored' \in [Acquisitions -> BOOLEAN] /\ past' \in [Acquisitions -> BOOLEAN]
         /\ abandoned' \in [Acquisitions -> BOOLEAN] /\ faults' \in Nat
<1> USE DEF TypeOK, Fault
<1>1. stored' \in [Acquisitions -> BOOLEAN] /\ faults' \in Nat
  <2>1. ASSUME NEW c \in Calls, StartStep(c) \/ CallFails(c)
        PROVE  stored' \in [Acquisitions -> BOOLEAN] /\ faults' \in Nat
    <3>1. faults' = faults \/ faults' = faults + 1
      BY <2>1 DEF StartStep, Reserve, ReserveAgain, RefuseReserve, CheckPut, Publish, Activate,
         CallDiscards, CallMarks, CallFails
    <3>2. \/ stored' = stored \/ stored' = [stored EXCEPT ![CommandOf[c]] = TRUE]
          \/ stored' = [stored EXCEPT ![CommandOf[c]] = FALSE]
      BY <2>1 DEF StartStep, Reserve, ReserveAgain, RefuseReserve, CheckPut, Publish, Activate,
         CallDiscards, CallMarks, CallFails
    <3>3. stored \in [Acquisitions -> BOOLEAN] /\ faults \in Nat
      OBVIOUS
    <3>4. stored' \in [Acquisitions -> BOOLEAN]
      BY <3>2, <3>3
    <3>5. faults' \in Nat
      BY <3>1, <3>3
    <3> QED BY <3>4, <3>5
  <2>2. ASSUME NEW a \in Acquisitions, CancelStep(a) \/ CancelFails(a)
        PROVE  stored' \in [Acquisitions -> BOOLEAN] /\ faults' \in Nat
    <3>1. faults' = faults \/ faults' = faults + 1
      BY <2>2 DEF CancelStep, Cancel, CancelAgain, CancelDiscards, CancelMarks, CancelFails
    <3>2. stored' = stored \/ stored' = [stored EXCEPT ![a] = FALSE]
      BY <2>2 DEF CancelStep, Cancel, CancelAgain, CancelDiscards, CancelMarks, CancelFails
    <3>3. stored \in [Acquisitions -> BOOLEAN] /\ faults \in Nat
      OBVIOUS
    <3>4. stored' \in [Acquisitions -> BOOLEAN]
      BY <3>2, <3>3
    <3>5. faults' \in Nat
      BY <3>1, <3>3
    <3> QED BY <3>4, <3>5
  <2>3. ASSUME NEW w \in Workers,
               \/ WorkerStep(w) \/ DeadlinePasses(w) \/ SweepSkips(w)
               \/ ArtifactUnusable(w) \/ WorkerDies(w)
        PROVE  stored' \in [Acquisitions -> BOOLEAN] /\ faults' \in Nat
    <3>1. stored' \in [Acquisitions -> BOOLEAN]
      BY <2>3 DEF WorkerStep, ListFinished, SweepDiscards, SweepMarks, Pick, PickNothing, Claim,
         ClaimNothing, DiscardLate, ReadArtifact, Inspect, InspectThrows, Record, RecordRefused,
         Caught, Complete, CompleteRefused, Expire, DeadlinePasses, SweepSkips,
         ArtifactUnusable, WorkerDies
    <3> QED BY <2>3, <3>1, WorkersFrame
  <2>4. ASSUME NEW a \in Acquisitions, LeaseExpires(a) \/ LeaseOutrun(a) \/ RetentionEnds(a)
        PROVE  stored' \in [Acquisitions -> BOOLEAN] /\ faults' \in Nat
    BY <2>4 DEF LeaseExpires, LeaseOutrun, RetentionEnds
  <2> QED BY <2>1, <2>2, <2>3, <2>4, ViewFrame DEF Next
<1>2. past' \in [Acquisitions -> BOOLEAN]
  <2>1. ASSUME NEW a \in Acquisitions, RetentionEnds(a) PROVE past' \in [Acquisitions -> BOOLEAN]
    BY <2>1 DEF RetentionEnds
  <2>2. ASSUME NEW a \in Acquisitions, LeaseExpires(a) \/ LeaseOutrun(a) PROVE past' = past
    BY <2>2 DEF LeaseExpires, LeaseOutrun
  <2> QED BY <2>1, <2>2, CallsFrame, CancelFrame, WorkersFrame, ViewFrame DEF Next
<1>3. abandoned' \in [Acquisitions -> BOOLEAN]
  <2>1. ASSUME NEW c \in Calls, StartStep(c) \/ CallFails(c)
        PROVE  abandoned' \in [Acquisitions -> BOOLEAN]
    BY <2>1 DEF StartStep, Reserve, ReserveAgain, RefuseReserve, CheckPut, Publish, Activate,
         CallDiscards, CallMarks, CallFails
  <2> QED BY <2>1, CancelFrame, WorkersFrame, ClockFrame, ViewFrame DEF Next
<1> QED BY <1>1, <1>2, <1>3

LEMMA TypeKept ==
  ASSUME IInv, [Next]_vars PROVE TypeOK'
<1>1. WorkerType'
  <2>1. worker' = worker => WorkerType'
    BY DEF IInv, TypeOK, WorkerType
  <2> QED BY <2>1, WorkerTypeKept, CallsFrame, CancelFrame, ClockFrame, ViewFrame DEF Next
<1> QED BY <1>1, RowTypeKept, CallTypeKept, StoreTypeKept DEF TypeOK, IInv

-----------------------------------------------------------------------------
(* How a row may change in one step.                                       *)

SameCounts(b) ==
  acquisition'[b].ready = acquisition[b].ready /\ acquisition'[b].failed = acquisition[b].failed
SameResult(b) ==
  /\ acquisition'[b] = acquisition[b] /\ items'[b] = items[b] /\ snapshot'[b] = snapshot[b]
SameLease(b) ==
  /\ job'[b].owner = job[b].owner /\ job'[b].generation = job[b].generation
  /\ job'[b].results = job[b].results /\ (job[b].expired => job'[b].expired)

Kept(b) ==
  job'[b].state = job[b].state /\ SameLease(b) /\ SameResult(b)
Begins(b) ==
  /\ job[b].state = "none" /\ job'[b].state = "preparing" /\ SameLease(b)
  /\ acquisition'[b].state = "processing" /\ snapshot'[b] = snapshot[b] /\ SameCounts(b)
Queues(b) ==
  /\ \E c \in Calls : Activate(c) /\ CommandOf[c] = b
  /\ job[b].state = "preparing" /\ job'[b].state = "queued" /\ SameLease(b) /\ SameResult(b)
Cancels(b) ==
  /\ job[b].state = "queued" /\ job'[b].state = "cancelled" /\ SameLease(b) /\ ~Locked(b)
  /\ acquisition[b].state = "processing" /\ acquisition'[b].state = "cancelled"
  /\ snapshot'[b] = snapshot[b] /\ SameCounts(b)
Claims(w, b) ==
  /\ Claim(w) /\ worker[w].acq = b
  /\ job'[b].state = "leased" /\ job'[b].owner = WorkerName[w]
  /\ job'[b].generation = job[b].generation + 1 /\ job'[b].results = job[b].results
  /\ acquisition'[b] = acquisition[b] /\ snapshot'[b] = snapshot[b]
Records(w, b) ==
  /\ Record(w) /\ worker[w].acq = b
  /\ job'[b].state = "leased" /\ job'[b].owner = job[b].owner
  /\ job'[b].generation = job[b].generation
  /\ job[b].expired => job'[b].expired
  /\ job'[b].results = worker[w].results
  /\ snapshot'[b] = IF HasLists(worker[w].results) THEN worker[w].results ELSE snapshot[b]
  /\ acquisition'[b] = acquisition[b] /\ items'[b] = items[b]
Ended(w, b) ==
  /\ worker[w].acq = b /\ SameClaim(w) /\ acquisition[b].state = "processing" /\ ~Locked(b)
  /\ job'[b].state = "completed" /\ job'[b].results = None
  /\ job'[b].generation = job[b].generation /\ snapshot'[b] = snapshot[b]
Completes(w, b) ==
  /\ worker[w].pc = "recorded" /\ Ended(w, b)
  /\ items'[b] = ItemsFor(worker[w].results)
  /\ acquisition'[b].state \in {"ready", "partial", "failed"}
  /\ (acquisition'[b].state = "failed") <=> ~HasLists(worker[w].results)
  /\ acquisition'[b].ready = Count("succeeded", worker[w].results)
  /\ acquisition'[b].failed = Count("failed", worker[w].results)
Expires(w, b) ==
  /\ Ended(w, b) /\ acquisition'[b].state = "expired"
  /\ acquisition'[b].ready = acquisition[b].ready
  /\ \E S \in SUBSET Links : acquisition'[b].failed = Cardinality(S)
  /\ \A l \in Links : items'[b][l] \notin {"pending", "fetching"}

RowStep(b) ==
  \/ Kept(b) \/ Begins(b) \/ Queues(b) \/ Cancels(b)
  \/ \E w \in Workers : Claims(w, b) \/ Records(w, b) \/ Completes(w, b) \/ Expires(w, b)

LEMMA RowsKept ==
  ASSUME UNCHANGED database, NEW b PROVE Kept(b)
BY DEF Kept, SameLease, SameResult

(* One job written, all that matters of it left as it was.                 *)
LEMMA OneRowKept ==
  ASSUME TypeOK, NEW a \in Acquisitions, UNCHANGED <<acquisition, items, snapshot>>,
         \/ job' = [job EXCEPT ![a].expired = TRUE]
         \/ job' = MarkDeleted(a),
         NEW b \in Acquisitions
  PROVE  Kept(b)
<1> USE DEF TypeOK, RowType
<1>0. job[a] \in Jobs /\ job \in [Acquisitions -> Jobs]
  OBVIOUS
<1> DEFINE d == job[a].deleted \/ job[a].state \in Finished
<1>1. CASE job' = [job EXCEPT ![a].expired = TRUE]
  BY <1>0, <1>1 DEF Kept, SameLease, SameResult, Jobs
<1>2. CASE job' = MarkDeleted(a)
  <2>1. job' = [job EXCEPT ![a].deleted = d]
    BY <1>0, <1>2 DEF MarkDeleted
  <2> HIDE DEF d
  <2> QED BY <1>0, <2>1 DEF Kept, SameLease, SameResult, Jobs
<1> QED BY <1>1, <1>2

LEMMA StartRowStep ==
  ASSUME TypeOK, NEW c \in Calls, StartStep(c) \/ CallFails(c), NEW b \in Acquisitions
  PROVE  RowStep(b)
<1> USE DEF TypeOK
<1> DEFINE a == CommandOf[c]
<1>0. a \in Acquisitions /\ job \in [Acquisitions -> Jobs] /\ job[a] \in Jobs
  BY ParameterTypes DEF RowType
<1> HIDE DEF a
<1>1. CASE Reserve(c)
  <2>1. CASE b = a
    BY <1>0, <1>1, <2>1 DEF a, Reserve, RowStep, Begins, SameLease, SameCounts, RowType, Jobs
  <2>2. CASE b # a
    BY <1>0, <1>1, <2>2 DEF a, Reserve, RowStep, Kept, SameLease, SameResult, RowType
  <2> QED BY <2>1, <2>2
<1>2. CASE Activate(c)
  <2> DEFINE d == job[a].deleted /\ job[a].state \notin Finished
  <2>1. job' = [job EXCEPT ![a].state = IF @ = "preparing" THEN "queued" ELSE @, ![a].deleted = d]
    BY <1>0, <1>2 DEF a, Activate
  <2>2. UNCHANGED <<acquisition, items, snapshot>>
    BY <1>2 DEF Activate
  <2> HIDE DEF d
  <2>3. CASE b = a /\ job[a].state = "preparing"
    <3>1. job'[b].state = "queued" /\ SameLease(b) /\ SameResult(b)
      BY <1>0, <2>1, <2>2, <2>3 DEF SameLease, SameResult, Jobs
    <3> QED BY <1>2, <2>3, <3>1 DEF a, RowStep, Queues
  <2>4. CASE b # a \/ job[a].state # "preparing"
    BY <1>0, <2>1, <2>2, <2>4 DEF RowStep, Kept, SameLease, SameResult, Jobs
  <2> QED BY <2>3, <2>4
<1>3. CASE CallMarks(c)
  BY <1>0, <1>3, OneRowKept DEF a, CallMarks, RowStep
<1>4. CASE UNCHANGED database
  BY <1>4, RowsKept DEF RowStep
<1> QED BY <1>1, <1>2, <1>3, <1>4
    DEF StartStep, CallFails, ReserveAgain, RefuseReserve, CheckPut, Publish, CallDiscards

LEMMA CancelRowStep ==
  ASSUME TypeOK, NEW a \in Acquisitions, CancelStep(a) \/ CancelFails(a), NEW b \in Acquisitions
  PROVE  RowStep(b)
<1>1. CASE Cancel(a)
  <2>1. CASE b = a
    BY <1>1, <2>1 DEF Cancel, RowStep, Cancels, SameLease, SameCounts, TypeOK, RowType, Jobs
  <2>2. CASE b # a
    BY <1>1, <2>2 DEF Cancel, RowStep, Kept, SameLease, SameResult, TypeOK, RowType
  <2> QED BY <2>1, <2>2
<1>2. CASE CancelMarks(a)
  BY <1>2, OneRowKept DEF CancelMarks, RowStep
<1>3. CASE UNCHANGED database
  BY <1>3, RowsKept DEF RowStep
<1> QED BY <1>1, <1>2, <1>3 DEF CancelStep, CancelFails, CancelAgain, CancelDiscards

LEMMA EndedShape ==
  ASSUME TypeOK, NEW w \in Workers, SameClaim(w), worker[w].acq \in Acquisitions,
         ~Locked(worker[w].acq), job' = FinishedJob(worker[w].acq), snapshot' = snapshot
  PROVE  /\ Ended(w, worker[w].acq)
         /\ \A b \in Acquisitions \ {worker[w].acq} : job'[b] = job[b]
<1> DEFINE a == worker[w].acq
<1>1. job[a] \in Jobs /\ job \in [Acquisitions -> Jobs]
  BY DEF TypeOK, RowType
<1>2. /\ job'[a].state = "completed" /\ job'[a].results = None
      /\ job'[a].generation = job[a].generation
  BY <1>1 DEF FinishedJob, Jobs
<1>3. acquisition[a].state = "processing"
  BY DEF SameClaim, TypeOK, RowType, Unfinished
<1>4. \A b \in Acquisitions \ {a} : job'[b] = job[b]
  BY <1>1 DEF FinishedJob
<1> QED BY <1>2, <1>3, <1>4 DEF Ended

(* What a claim writes on the job's row, and that it writes no other.      *)
LEMMA ClaimedRow ==
  ASSUME job \in [Acquisitions -> Jobs], NEW w \in Workers, worker[w].acq \in Acquisitions, Claim(w)
  PROVE  /\ job'[worker[w].acq].state = "leased"
         /\ job'[worker[w].acq].owner = WorkerName[w]
         /\ job'[worker[w].acq].generation = job[worker[w].acq].generation + 1
         /\ job'[worker[w].acq].results = job[worker[w].acq].results
         /\ job'[worker[w].acq].deleted = job[worker[w].acq].deleted
         /\ \A b \in Acquisitions \ {worker[w].acq} : job'[b] = job[b]
<1> DEFINE a == worker[w].acq
           j == [job[a] EXCEPT !.state = "leased", !.owner = WorkerName[w],
                               !.generation = @ + 1, !.expired = FALSE]
<1>1. job[a] \in Jobs
  OBVIOUS
<1>2. job' = [job EXCEPT ![a] = j]
  BY DEF Claim
<1>3. /\ j.state = "leased" /\ j.owner = WorkerName[w]
      /\ j.generation = job[a].generation + 1
      /\ j.results = job[a].results
  BY <1>1 DEF Jobs
<1>4. j.deleted = job[a].deleted
  BY <1>1 DEF Jobs
<1> HIDE DEF j
<1> QED BY <1>2, <1>3, <1>4

LEMMA WorkerRowStep ==
  ASSUME IInv, NEW w \in Workers,
         \/ WorkerStep(w) \/ DeadlinePasses(w) \/ SweepSkips(w)
         \/ ArtifactUnusable(w) \/ WorkerDies(w),
         NEW b \in Acquisitions
  PROVE  RowStep(b)
<1> USE DEF IInv
<1> DEFINE a == worker[w].acq
<1>0. /\ worker[w].pc \in Holding \cup {"marking"} => a \in Acquisitions
      /\ job \in [Acquisitions -> Jobs] /\ acquisition \in [Acquisitions -> Rows]
      /\ DOMAIN items = Acquisitions /\ DOMAIN snapshot = Acquisitions
  BY DEF TypeOK, WorkerType, RowType, Rows
<1> HIDE DEF a
<1>1. CASE SweepMarks(w)
  BY <1>0, <1>1, OneRowKept DEF a, SweepMarks, RowStep
<1>2. CASE Claim(w)
  <2>0. a \in Acquisitions
    BY <1>0, <1>2 DEF Claim, Holding
  <2>1. CASE b = a
    <3>1. /\ job'[b].state = "leased" /\ job'[b].owner = WorkerName[w]
          /\ job'[b].generation = job[b].generation + 1 /\ job'[b].results = job[b].results
      BY <1>0, <1>2, <2>0, <2>1, ClaimedRow DEF a
    <3>2. acquisition'[b] = acquisition[b] /\ snapshot'[b] = snapshot[b]
      BY <1>2 DEF Claim
    <3> QED BY <1>2, <2>1, <3>1, <3>2 DEF a, Claims, RowStep
  <2>2. CASE b # a
    BY <1>0, <1>2, <2>0, <2>2 DEF a, Claim, RowStep, Kept, SameLease, SameResult
  <2> QED BY <2>1, <2>2
<1>3. CASE Record(w)
  <2>0. a \in Acquisitions /\ job[a].state = "leased"
    BY <1>0, <1>3 DEF Record, Recordable, LeaseHeld, SameClaim, Holding, a
  <2>1. CASE b = a
    <3>1. /\ job'[b].state = "leased" /\ job'[b].owner = job[b].owner
          /\ job'[b].generation = job[b].generation
          /\ (job[b].expired => job'[b].expired) /\ job'[b].results = worker[w].results
      BY <1>0, <1>3, <2>0, <2>1 DEF a, Record, Jobs
    <3>2. /\ snapshot'[b] = IF HasLists(worker[w].results) THEN worker[w].results ELSE snapshot[b]
          /\ acquisition'[b] = acquisition[b] /\ items'[b] = items[b]
      BY <1>0, <1>3, <2>0, <2>1 DEF a, Record
    <3> QED BY <1>3, <2>1, <3>1, <3>2 DEF a, Records, RowStep
  <2>2. CASE b # a
    BY <1>0, <1>3, <2>0, <2>2 DEF a, Record, RowStep, Kept, SameLease, SameResult
  <2> QED BY <2>1, <2>2
<1>4. CASE Complete(w)
  <2> DEFINE r == worker[w].results
             ready == Count("succeeded", r)
             failed == Count("failed", r)
             state == IF ready = 0 THEN "failed" ELSE IF failed = 0 THEN "ready" ELSE "partial"
  <2>0. /\ a \in Acquisitions /\ SameClaim(w) /\ ~Locked(a) /\ worker[w].pc = "recorded"
        /\ job' = FinishedJob(a) /\ snapshot' = snapshot
        /\ items' = [items EXCEPT ![a] = ItemsFor(r)]
    BY <1>0, <1>4 DEF Complete, LeaseHeld, Holding, a
  <2>1. /\ Ended(w, a) /\ \A x \in Acquisitions \ {a} : job'[x] = job[x]
    BY <2>0, EndedShape DEF a
  <2>2. acquisition' = [acquisition EXCEPT ![a] = [state |-> state, ready |-> ready, failed |-> failed]]
    BY <1>0, <1>4, <2>0, <2>1 DEF a, Complete, Ended
  <2>3. HasLists(r) <=> ready # 0
    BY CountType DEF HasLists
  <2>4. state \in {"ready", "partial", "failed"} /\ (state = "failed" <=> ready = 0)
    OBVIOUS
  <2> HIDE DEF state, ready, failed
  <2>5. CASE b = a
    <3>1. /\ acquisition'[a].state = state /\ items'[a] = ItemsFor(r)
          /\ acquisition'[a].ready = ready /\ acquisition'[a].failed = failed
      BY <1>0, <2>0, <2>2
    <3>2. ready = Count("succeeded", worker[w].results) /\ failed = Count("failed", worker[w].results)
      BY DEF ready, failed
    <3> QED BY <2>0, <2>1, <2>3, <2>4, <2>5, <3>1, <3>2 DEF Completes, RowStep
  <2>6. CASE b # a
    BY <1>0, <2>0, <2>1, <2>2, <2>6 DEF RowStep, Kept, SameLease, SameResult
  <2> QED BY <2>5, <2>6
<1>5. CASE Expire(w) /\ SameClaim(w)
  <2>0. /\ a \in Acquisitions /\ ~Locked(a) /\ job' = FinishedJob(a) /\ snapshot' = snapshot
    BY <1>0, <1>5 DEF Expire, Holding, a
  <2>1. /\ Ended(w, a) /\ \A x \in Acquisitions \ {a} : job'[x] = job[x]
    BY <1>5, <2>0, EndedShape DEF a
  <2>2. /\ acquisition'[a].state = "expired" /\ acquisition'[a].ready = acquisition[a].ready
        /\ \E S \in SUBSET Links : acquisition'[a].failed = Cardinality(S)
        /\ \A l \in Links : items'[a][l] \notin {"pending", "fetching"}
        /\ \A x \in Acquisitions \ {a} : acquisition'[x] = acquisition[x] /\ items'[x] = items[x]
    <3> DEFINE left == [l \in Links |-> IF items[a][l] \in {"pending", "fetching"}
                                        THEN "failed" ELSE items[a][l]]
               n == Cardinality({l \in Links : left[l] = "failed"})
               q == [acquisition[a] EXCEPT !.state = "expired", !.failed = n]
    <3>1. items' = [items EXCEPT ![a] = left] /\ acquisition' = [acquisition EXCEPT ![a] = q]
      BY <1>0, <1>5, <2>0, <2>1 DEF a, Expire, Ended
    <3>2. acquisition[a] \in Rows
      BY <1>0, <2>0
    <3>3. \E S \in SUBSET Links : n = Cardinality(S)
      OBVIOUS
    <3>4. \A l \in Links : left[l] \notin {"pending", "fetching"}
      OBVIOUS
    <3> HIDE DEF left, n
    <3>5. q.state = "expired" /\ q.ready = acquisition[a].ready /\ q.failed = n
      BY <3>2 DEF Rows
    <3> HIDE DEF q
    <3>6. items'[a] = left /\ acquisition'[a] = q
      BY <1>0, <2>0, <3>1
    <3> QED BY <1>0, <2>0, <3>1, <3>3, <3>4, <3>5, <3>6
  <2>3. CASE b = a
    BY <2>1, <2>2, <2>3 DEF Expires, RowStep
  <2>4. CASE b # a
    BY <2>0, <2>1, <2>2, <2>4 DEF RowStep, Kept, SameLease, SameResult
  <2> QED BY <2>3, <2>4
<1>6. CASE UNCHANGED database
  BY <1>6, RowsKept DEF RowStep
<1> QED BY <1>1, <1>2, <1>3, <1>4, <1>5, <1>6
    DEF WorkerStep, DeadlinePasses, SweepSkips, ArtifactUnusable, WorkerDies, ListFinished,
        SweepDiscards, Pick, PickNothing, ClaimNothing, DiscardLate, ReadArtifact, Inspect,
        InspectThrows, RecordRefused, Caught, CompleteRefused, Expire

LEMMA EveryRowStep ==
  ASSUME IInv, [Next]_vars, NEW b \in Acquisitions PROVE RowStep(b)
<1>1. ASSUME NEW a \in Acquisitions, LeaseExpires(a) \/ LeaseOutrun(a) PROVE RowStep(b)
  BY <1>1, OneRowKept DEF LeaseExpires, LeaseOutrun, RowStep, IInv
<1>2. UNCHANGED database => RowStep(b)
  BY RowsKept DEF RowStep
<1>3. \A a \in Acquisitions : RetentionEnds(a) => UNCHANGED database
  BY DEF RetentionEnds
<1> QED BY <1>1, <1>2, <1>3, StartRowStep, CancelRowStep, WorkerRowStep, ViewFrame DEF Next, IInv

-----------------------------------------------------------------------------
(* How a pass may go on in one step.                                       *)

Lets(w) ==
  \/ worker'[w].pc \in {"idle", "sweeping", "ready"}
  \/ SweepDiscards(w) /\ worker'[w].pc = "marking"
Picks(w) ==
  /\ job' = job /\ past' = past
  /\ worker'[w].pc = "picked" /\ worker'[w].acq \in Acquisitions
  /\ Candidate(worker'[w].acq)
  /\ worker'[w].deadline = past[worker'[w].acq]
Takes(w) ==
  /\ Claim(w)
  /\ worker'[w].acq = worker[w].acq /\ worker'[w].deadline = worker[w].deadline
  /\ worker'[w].generation = job[worker[w].acq].generation + 1
  /\ worker'[w].pc \in {"late", "claimed", "inspected"}
  /\ worker'[w].pc = "late" => worker[w].deadline
GoesOn(w) ==
  /\ Passing(w) /\ worker'[w].pc \in Holding \ {"picked", "late"}
  /\ worker'[w].acq = worker[w].acq /\ worker'[w].generation = worker[w].generation
  /\ worker'[w].deadline => worker[w].deadline \/ past[worker[w].acq]
  /\ worker'[w].pc = "recorded" =>
       worker'[w].results = worker[w].results /\ (Record(w) \/ worker[w].pc = "recorded")
PassStep(w) == Lets(w) \/ Picks(w) \/ Takes(w) \/ GoesOn(w)

LEMMA OnePassStep ==
  ASSUME TypeOK, NEW w \in Workers,
         \/ WorkerStep(w) \/ DeadlinePasses(w) \/ SweepSkips(w)
         \/ ArtifactUnusable(w) \/ WorkerDies(w)
  PROVE  /\ PassStep(w)
         /\ \A v \in Workers \ {w} : worker'[v] = worker[v]
<1>0. worker[w] \in Passes /\ DOMAIN worker = Workers
  BY DEF TypeOK, WorkerType
<1>1. \A v \in Workers \ {w} : worker'[v] = worker[v]
  <2>2. ASSUME NEW pc, Become(w, pc) PROVE \A v \in Workers \ {w} : worker'[v] = worker[v]
    BY <1>0, <2>2 DEF Become
  <2>3. ASSUME NEW todo, Sweeping(w, todo) PROVE \A v \in Workers \ {w} : worker'[v] = worker[v]
    BY <1>0, <2>3 DEF Sweeping
  <2>4. CASE SweepDiscards(w)
    BY <1>0, <2>4 DEF SweepDiscards
  <2>5. CASE Pick(w)
    BY <1>0, <2>5 DEF Pick
  <2>6. CASE Claim(w)
    BY <1>0, <2>6 DEF Claim
  <2>7. CASE DeadlinePasses(w)
    BY <1>0, <2>7 DEF DeadlinePasses
  <2>8. CASE Inspect(w)
    BY <1>0, <2>8 DEF Inspect
  <2>9. CASE Record(w)
    BY <1>0, <2>2, <2>9 DEF Record
  <2>10. CASE Rest(w)
    BY <1>0, <2>10 DEF Rest
  <2> QED BY <2>2, <2>3, <2>4, <2>5, <2>6, <2>7, <2>8, <2>9, <2>10
    DEF WorkerStep, ListFinished, SweepMarks, PickNothing, ClaimNothing, DiscardLate, ReadArtifact,
        InspectThrows, RecordRefused, Caught, Complete, CompleteRefused, Expire, SweepSkips,
        ArtifactUnusable, WorkerDies
<1> SUFFICES PassStep(w)
  BY <1>1
<1>2. ASSUME NEW todo, Sweeping(w, todo) PROVE Lets(w)
  BY <1>0, <1>2 DEF Sweeping, Lets, IdleWorker, Holding
<1>3. CASE Rest(w)
  BY <1>0, <1>3 DEF Rest, Lets, IdleWorker, Holding, PassStep
<1>4. CASE ListFinished(w) \/ SweepMarks(w) \/ SweepSkips(w)
  <2>1. Lets(w)
    BY <1>2, <1>4 DEF ListFinished, SweepMarks, SweepSkips
  <2> QED BY <2>1 DEF PassStep
<1>5. CASE SweepDiscards(w) \/ PickNothing(w)
  BY <1>0, <1>5 DEF SweepDiscards, PickNothing, Become, PassStep, Lets, Holding, Passes
<1>6. CASE Pick(w)
  <2>1. PICK a \in Acquisitions :
          Candidate(a) /\ worker' = [worker EXCEPT ![w].pc = "picked", ![w].acq = a, ![w].deadline = past[a]]
    BY <1>6 DEF Pick
  <2>2. worker'[w] = [worker[w] EXCEPT !.pc = "picked", !.acq = a, !.deadline = past[a]]
    BY <1>0, <2>1
  <2>3. worker'[w].pc = "picked" /\ worker'[w].acq = a
    BY <1>0, <2>2 DEF Passes
  <2>4. worker'[w].deadline = past[a]
    BY <1>0, <2>2 DEF Passes
  <2>5. Picks(w)
    BY <1>6, <2>1, <2>3, <2>4 DEF Pick, Picks
  <2> QED BY <2>5 DEF PassStep
<1>7. CASE Claim(w)
  <2>1. /\ worker'[w].acq = worker[w].acq /\ worker'[w].deadline = worker[w].deadline
        /\ worker'[w].generation = job[worker[w].acq].generation + 1
        /\ worker'[w].pc = IF worker[w].deadline THEN "late"
                           ELSE IF job[worker[w].acq].results = None THEN "claimed" ELSE "inspected"
    <3> DEFINE a == worker[w].acq
               pc == IF worker[w].deadline THEN "late"
                     ELSE IF job[a].results = None THEN "claimed" ELSE "inspected"
               kept == job[a].results # None
    <3>1. worker'[w] = [worker[w] EXCEPT !.pc = pc, !.generation = job[a].generation + 1,
                          !.results = job[a].results, !.checkpointed = kept]
      BY <1>0, <1>7 DEF Claim
    <3> HIDE DEF pc, kept
    <3>2. /\ worker'[w].acq = a /\ worker'[w].deadline = worker[w].deadline
          /\ worker'[w].generation = job[a].generation + 1 /\ worker'[w].pc = pc
      BY <1>0, <3>1 DEF Passes
    <3> QED BY <3>2 DEF pc
  <2>2. Takes(w)
    BY <1>7, <2>1 DEF Takes
  <2> QED BY <2>2 DEF PassStep
<1>8. ASSUME NEW pc \in Holding \ {"picked", "late"}, Passing(w), Become(w, pc),
             pc = "recorded" => Record(w) \/ worker[w].pc = "recorded"
      PROVE  GoesOn(w)
  BY <1>0, <1>8 DEF Become, GoesOn, Passes
<1>9. CASE DeadlinePasses(w)
  <2>1. Passing(w) /\ past[worker[w].acq] /\ worker' = [worker EXCEPT ![w].deadline = TRUE]
        /\ worker[w].pc \in Holding \ {"picked", "late"}
    BY <1>9 DEF DeadlinePasses, Passing, Holding
  <2>2. worker'[w] = [worker[w] EXCEPT !.deadline = TRUE]
    BY <1>0, <2>1
  <2>3. /\ worker'[w].pc = worker[w].pc /\ worker'[w].acq = worker[w].acq
        /\ worker'[w].generation = worker[w].generation /\ worker'[w].results = worker[w].results
    BY <1>0, <2>2 DEF Passes
  <2> QED BY <2>1, <2>3 DEF GoesOn, PassStep
<1>10. CASE Inspect(w)
  <2>1. PICK r \in Inspections :
          worker' = [worker EXCEPT ![w].results = r,
                       ![w].pc = IF worker[w].deadline THEN "expiring" ELSE "inspected"]
    BY <1>10 DEF Inspect
  <2>2. Passing(w)
    BY <1>10 DEF Inspect, Passing, Holding
  <2>3. /\ worker'[w].pc = IF worker[w].deadline THEN "expiring" ELSE "inspected"
        /\ worker'[w].acq = worker[w].acq /\ worker'[w].generation = worker[w].generation
        /\ worker'[w].deadline = worker[w].deadline
    <3> DEFINE pc == IF worker[w].deadline THEN "expiring" ELSE "inspected"
    <3>1. worker'[w] = [worker[w] EXCEPT !.results = r, !.pc = pc]
      BY <1>0, <2>1
    <3> HIDE DEF pc
    <3>2. /\ worker'[w].pc = pc
          /\ worker'[w].acq = worker[w].acq /\ worker'[w].generation = worker[w].generation
          /\ worker'[w].deadline = worker[w].deadline
      BY <1>0, <3>1 DEF Passes
    <3> QED BY <3>2 DEF pc
  <2>4. GoesOn(w)
    BY <2>2, <2>3 DEF GoesOn, Holding
  <2> QED BY <2>4 DEF PassStep
<1>11. CASE Record(w)
  <2>1. Passing(w)
    BY <1>11 DEF Record, Passing, Holding
  <2>2. CASE Become(w, "failing")
    <3>1. GoesOn(w)
      BY <1>8, <2>1, <2>2 DEF Holding
    <3> QED BY <3>1 DEF PassStep
  <2>3. CASE worker' = [worker EXCEPT ![w].pc = "recorded", ![w].checkpointed = TRUE]
    <3>1. /\ worker'[w].pc = "recorded" /\ worker'[w].acq = worker[w].acq
          /\ worker'[w].generation = worker[w].generation
          /\ worker'[w].deadline = worker[w].deadline /\ worker'[w].results = worker[w].results
      <4>1. worker'[w] = [worker[w] EXCEPT !.pc = "recorded", !.checkpointed = TRUE]
        BY <1>0, <2>3
      <4> QED BY <1>0, <4>1 DEF Passes
    <3>2. GoesOn(w)
      BY <1>11, <2>1, <3>1 DEF GoesOn, Holding
    <3> QED BY <3>2 DEF PassStep
  <2> QED BY <1>11, <2>2, <2>3 DEF Record
<1>12. CASE \/ DiscardLate(w) \/ ReadArtifact(w) \/ ArtifactUnusable(w)
            \/ InspectThrows(w) \/ RecordRefused(w) \/ (Caught(w) /\ ~Rest(w)) \/ CompleteRefused(w)
  <2>1. Passing(w)
    BY <1>12 DEF DiscardLate, ReadArtifact, ArtifactUnusable, InspectThrows, RecordRefused, Caught,
       CompleteRefused, Passing, Holding
  <2>2. \/ Become(w, "expiring") \/ Become(w, "inspected") \/ Become(w, "inspecting")
        \/ Become(w, "failing")
    BY <1>12 DEF DiscardLate, ReadArtifact, ArtifactUnusable, InspectThrows, RecordRefused, Caught,
       CompleteRefused
  <2>3. GoesOn(w)
    BY <1>8, <2>1, <2>2 DEF Holding
  <2> QED BY <2>3 DEF PassStep
<1> QED BY <1>3, <1>4, <1>5, <1>6, <1>7, <1>9, <1>10, <1>11, <1>12
    DEF WorkerStep, ClaimNothing, Complete, Expire, WorkerDies

LEMMA EveryPassStep ==
  ASSUME TypeOK, [Next]_vars
  PROVE  \/ worker' = worker
         \/ \E w \in Workers : PassStep(w) /\ \A v \in Workers \ {w} : worker'[v] = worker[v]
BY OnePassStep, CallsFrame, CancelFrame, ClockFrame, ViewFrame DEF Next

-----------------------------------------------------------------------------
(* The parts of the invariant, one by one.                                 *)

LEMMA PastStays ==
  ASSUME TypeOK, [Next]_vars, NEW b \in Acquisitions, past[b] PROVE past'[b]
<1>1. ASSUME NEW a \in Acquisitions, LeaseExpires(a) \/ LeaseOutrun(a) \/ RetentionEnds(a)
      PROVE  past'[b]
  BY <1>1 DEF LeaseExpires, LeaseOutrun, RetentionEnds, TypeOK
<1> QED BY <1>1, CallsFrame, CancelFrame, WorkersFrame, ViewFrame DEF Next

(* What no step undoes.                                                    *)
LEMMA RowsGoOn ==
  ASSUME IInv, [Next]_vars, NEW b \in Acquisitions
  PROVE  /\ job[b].state # "none" => job'[b].state # "none"
         /\ job[b].state \in Finished => job'[b].state \in Finished
         /\ job[b].generation <= job'[b].generation
         /\ Locked(b) /\ job[b].state \in Unfinished => job'[b].state \in Unfinished
         /\ job'[b].state = "preparing" => job[b].state \in {"none", "preparing"}
<1>1. RowStep(b)
  BY EveryRowStep
<1>2. job[b].generation \in Nat
  BY DEF IInv, TypeOK, RowType, Jobs
<1>3. ASSUME NEW w \in Workers, Ended(w, b) PROVE job[b].state = "leased" /\ ~Locked(b)
  BY <1>3 DEF Ended, SameClaim
<1>4. ASSUME NEW w \in Workers, Records(w, b) PROVE job[b].state = "leased"
  BY <1>4 DEF Records, Record, Recordable, LeaseHeld, SameClaim
<1>5. ASSUME NEW w \in Workers, Claims(w, b) PROVE job[b].state \in Unfinished
  BY <1>5 DEF Claims, Claim, IInv, LocksHold
<1>6. CASE Kept(b) \/ Begins(b) \/ Queues(b) \/ Cancels(b)
  BY <1>2, <1>6 DEF Kept, Begins, Queues, Cancels, SameLease, Finished, Unfinished
<1>7. ASSUME NEW w \in Workers, Claims(w, b) \/ Records(w, b) \/ Completes(w, b) \/ Expires(w, b)
      PROVE  /\ job[b].state \in Unfinished /\ job'[b].state \in {"leased", "completed"}
             /\ job[b].generation <= job'[b].generation
             /\ Locked(b) => job'[b].state \in Unfinished
  BY <1>2, <1>3, <1>4, <1>5, <1>7 DEF Claims, Records, Completes, Expires, Ended, Unfinished
<1> QED BY <1>1, <1>6, <1>7 DEF RowStep, Finished, Unfinished

LEMMA LocksHoldKept ==
  ASSUME IInv, [Next]_vars PROVE LocksHold'
<1> USE DEF IInv
<1>1. ASSUME NEW v \in Workers, worker'[v] = worker[v], worker'[v].pc = "picked"
      PROVE  /\ job'[worker'[v].acq].state \in Unfinished
             /\ job'[worker'[v].acq].state = "preparing" => past'[worker'[v].acq]
  <2> DEFINE a == worker[v].acq
  <2>1. a \in Acquisitions /\ Locked(a) /\ job[a].state \in Unfinished
    BY <1>1 DEF LocksHold, TypeOK, WorkerType, Holding, Locked
  <2>2. job[a].state = "preparing" => past[a]
    BY <1>1 DEF LocksHold
  <2> HIDE DEF a
  <2>3. job'[a].state \in Unfinished /\ (job'[a].state = "preparing" => past'[a])
    BY <2>1, <2>2, RowsGoOn, PastStays DEF Unfinished
  <2> QED BY <1>1, <2>3 DEF a
<1>2. ASSUME NEW w \in Workers, Picks(w)
      PROVE  /\ job'[worker'[w].acq].state \in Unfinished
             /\ job'[worker'[w].acq].state = "preparing" => past'[worker'[w].acq]
             /\ ~Locked(worker'[w].acq)
  BY <1>2 DEF Picks, Candidate, Unfinished
<1>3. CASE worker' = worker
  BY <1>1, <1>3 DEF LocksHold
<1>4. ASSUME NEW w \in Workers, PassStep(w), \A v \in Workers \ {w} : worker'[v] = worker[v]
      PROVE  LocksHold'
  <2>1. worker'[w].pc = "picked" => Picks(w)
    BY <1>4 DEF PassStep, Lets, Takes, GoesOn, Holding
  <2>2. \A v \in Workers : worker'[v].pc = "picked" =>
          /\ job'[worker'[v].acq].state \in Unfinished
          /\ job'[worker'[v].acq].state = "preparing" => past'[worker'[v].acq]
    BY <1>1, <1>2, <1>4, <2>1
  <2>3. ASSUME NEW v \in Workers, NEW u \in Workers, worker'[v].pc = "picked",
               worker'[u].pc = "picked", worker'[u].acq = worker'[v].acq, u # v
        PROVE  FALSE
    <3>1. CASE u # w /\ v # w
      BY <1>4, <2>3, <3>1 DEF LocksHold
    <3>2. CASE u = w
      BY <1>2, <1>4, <2>1, <2>3, <3>2 DEF Locked
    <3>3. CASE v = w
      BY <1>2, <1>4, <2>1, <2>3, <3>3 DEF Locked
    <3> QED BY <3>1, <3>2, <3>3
  <2> QED BY <2>2, <2>3 DEF LocksHold
<1> QED BY <1>3, <1>4, EveryPassStep

LEMMA DeadlineKept ==
  ASSUME IInv, [Next]_vars PROVE DeadlineIsPast'
<1> USE DEF IInv
<1>1. ASSUME NEW v \in Workers, worker'[v] = worker[v],
             worker'[v].pc = "late" \/ (worker'[v].pc \in Holding /\ worker'[v].deadline)
      PROVE  past'[worker'[v].acq]
  BY <1>1, PastStays DEF DeadlineIsPast, TypeOK, WorkerType, Holding
<1>2. ASSUME NEW w \in Workers, PassStep(w),
             worker'[w].pc = "late" \/ (worker'[w].pc \in Holding /\ worker'[w].deadline)
      PROVE  past'[worker'[w].acq]
  <2>1. CASE Picks(w)
    BY <1>2, <2>1 DEF Picks, Holding
  <2>2. CASE Takes(w)
    <3>1. worker[w].pc = "picked" /\ worker[w].deadline
      BY <1>2, <2>2 DEF Takes, Claim
    <3>2. worker[w].acq \in Acquisitions /\ past[worker[w].acq]
      BY <3>1 DEF DeadlineIsPast, Holding, TypeOK, WorkerType
    <3> QED BY <2>2, <3>2, PastStays DEF Takes
  <2>3. CASE GoesOn(w)
    <3>1. worker'[w].deadline /\ worker[w].acq \in Acquisitions /\ worker[w].pc \in Holding
      BY <1>2, <2>3 DEF GoesOn, Passing, Holding, TypeOK, WorkerType
    <3>2. past[worker[w].acq]
      BY <2>3, <3>1 DEF GoesOn, DeadlineIsPast
    <3> QED BY <2>3, <3>1, <3>2, PastStays DEF GoesOn
  <2> QED BY <1>2, <2>1, <2>2, <2>3 DEF PassStep, Lets, Holding
<1>3. worker' = worker => DeadlineIsPast'
  BY <1>1 DEF DeadlineIsPast
<1>4. ASSUME NEW w \in Workers, PassStep(w), \A v \in Workers \ {w} : worker'[v] = worker[v]
      PROVE  DeadlineIsPast'
  BY <1>1, <1>2, <1>4 DEF DeadlineIsPast
<1> QED BY <1>3, <1>4, EveryPassStep

LEMMA ClaimsKept ==
  ASSUME IInv, [Next]_vars PROVE ClaimsAreDistinct'
<1> USE DEF IInv
<1>0. \A v \in Workers : worker[v].pc \in Holding =>
        worker[v].acq \in Acquisitions /\ worker[v].generation \in Nat
  BY DEF TypeOK, WorkerType, Passes
<1>1. \A a \in Acquisitions : job[a].generation \in Nat /\ job'[a].generation \in Nat
        /\ job[a].generation <= job'[a].generation
  BY RowsGoOn, TypeKept DEF TypeOK, RowType, Jobs
<1>2. ASSUME NEW v \in Workers, Passing(v)
      PROVE  /\ worker[v].acq \in Acquisitions /\ worker[v].generation \in Nat
             /\ worker[v].generation <= job[worker[v].acq].generation
             /\ worker[v].generation <= job'[worker[v].acq].generation
  BY <1>0, <1>1, <1>2 DEF ClaimsAreDistinct, Passing, Holding
<1>3. CASE worker' = worker
  BY <1>2, <1>3 DEF ClaimsAreDistinct, Passing
<1>4. ASSUME NEW w \in Workers, Takes(w), \A v \in Workers \ {w} : worker'[v] = worker[v]
      PROVE  ClaimsAreDistinct'
  <2> DEFINE a == worker[w].acq
  <2>1. a \in Acquisitions /\ job'[a].generation = job[a].generation + 1
    <3>1. a \in Acquisitions
      BY <1>0, <1>4 DEF Takes, Claim, Holding
    <3>2. job \in [Acquisitions -> Jobs] /\ job[a] \in Jobs
      BY <3>1 DEF TypeOK, RowType
    <3>3. Claim(w)
      BY <1>4 DEF Takes
    <3> QED BY <3>1, <3>2, <3>3 DEF Claim, Jobs
  <2>2. worker'[w].acq = a /\ worker'[w].generation = job[a].generation + 1
    BY <1>4 DEF Takes
  <2>3. ASSUME NEW v \in Workers \ {w}, Passing(v)'
        PROVE  Passing(v) /\ worker'[v] = worker[v]
    BY <1>4, <2>3 DEF Passing
  <2> HIDE DEF a
  <2> QED BY <1>1, <1>2, <2>1, <2>2, <2>3 DEF ClaimsAreDistinct
<1>5. ASSUME NEW w \in Workers, ~Takes(w), PassStep(w), \A v \in Workers \ {w} : worker'[v] = worker[v]
      PROVE  ClaimsAreDistinct'
  <2>1. ASSUME NEW v \in Workers, Passing(v)'
        PROVE  /\ Passing(v) /\ worker'[v].acq = worker[v].acq
               /\ worker'[v].generation = worker[v].generation
    BY <1>5, <2>1 DEF Passing, PassStep, Lets, Picks, GoesOn, Holding
  <2> QED BY <1>2, <2>1 DEF ClaimsAreDistinct
<1> QED BY <1>3, <1>4, <1>5, EveryPassStep DEF PassStep, IInv

LEMMA RecordedKept ==
  ASSUME IInv, [Next]_vars PROVE RecordedIsCheckpoint'
<1> USE DEF IInv
<1> SUFFICES ASSUME NEW v \in Workers, worker'[v].pc = "recorded", SameClaim(v)'
             PROVE  job'[worker'[v].acq].results = worker'[v].results
  BY DEF RecordedIsCheckpoint
<1> DEFINE a == worker[v].acq
<1>0. /\ worker[v].pc \in Holding \ {"picked"} => a \in Acquisitions
      /\ worker[v].pc \in Holding => a \in Acquisitions
  BY DEF TypeOK, WorkerType
<1>1. /\ Passing(v) /\ worker'[v].acq = a /\ worker'[v].generation = worker[v].generation
      /\ worker'[v].results = worker[v].results
      /\ worker[v].pc = "recorded" \/ Record(v)
  BY EveryPassStep DEF PassStep, Lets, Picks, Takes, GoesOn, Passing, Holding
<1>2. a \in Acquisitions /\ RowStep(a)
  BY <1>0, <1>1, EveryRowStep DEF Passing
<1>3. /\ worker[v].generation \in Nat /\ worker[v].generation <= job[a].generation
      /\ job[a].generation \in Nat
  BY <1>1, <1>2 DEF ClaimsAreDistinct, TypeOK, RowType, Jobs, WorkerType, Passes
<1>4. job'[a].state = "leased" /\ job'[a].generation = worker[v].generation
  BY <1>1 DEF SameClaim
<1> HIDE DEF a
<1>5. ~\E w \in Workers : Claims(w, a)
  BY <1>3, <1>4 DEF Claims
<1>6. CASE Record(v)
  <2>1. job \in [Acquisitions -> Jobs] /\ job[a] \in Jobs
    BY <1>2 DEF TypeOK, RowType
  <2>2. job'[a].results = worker[v].results
    BY <1>2, <1>6, <2>1 DEF Record, Jobs, a
  <2> QED BY <1>1, <2>2
<1>7. CASE Kept(a) /\ ~Record(v)
  <2>1. SameClaim(v)
    BY <1>1, <1>4, <1>7 DEF Kept, SameLease, SameClaim, a
  <2> QED BY <1>1, <1>7, <2>1 DEF Kept, SameLease, RecordedIsCheckpoint, a
<1>8. ASSUME NEW w \in Workers, Records(w, a), ~Record(v) PROVE FALSE
  <2>1. Passing(w) /\ worker[w].acq = a /\ worker[w].pc = "inspected"
        /\ worker[w].generation = job[a].generation
    BY <1>8 DEF Records, Record, Recordable, LeaseHeld, SameClaim, Passing, Holding
  <2>2. worker[v].generation = job[a].generation
    BY <1>4, <1>8 DEF Records
  <2>3. v = w
    BY <1>1, <2>1, <2>2 DEF ClaimsAreDistinct, a
  <2> QED BY <1>1, <1>8, <2>1, <2>3
<1>9. Kept(a) \/ \E w \in Workers : Records(w, a)
  BY <1>2, <1>4, <1>5 DEF RowStep, Begins, Queues, Cancels, Completes, Expires, Ended
<1> QED BY <1>6, <1>7, <1>8, <1>9

(* A member has no live lease but one that was claimed.                    *)
LEMMA LeaseKept ==
  ASSUME IInv, [Next]_vars PROVE OneLeasePerMember'
<1> USE DEF IInv
<1> DEFINE Live(b) == job[b].state = "leased" /\ ~job[b].expired
           LiveNext(b) == job'[b].state = "leased" /\ ~job'[b].expired
<1>1. ASSUME NEW b \in Acquisitions, LiveNext(b) PROVE Live(b) \/ \E w \in Workers : Claims(w, b)
  <2>1. RowStep(b)
    BY EveryRowStep
  <2>2. ASSUME NEW w \in Workers, Records(w, b) PROVE Live(b)
    BY <1>1, <2>2 DEF Records, Record, Recordable, LeaseHeld, SameClaim
  <2> QED BY <1>1, <2>1, <2>2
    DEF RowStep, Kept, Begins, Queues, Cancels, Completes, Expires, Ended, SameLease
<1>2. \A a, b \in Acquisitions : OwnerOf[a] = OwnerOf[b] /\ Live(a) /\ Live(b) => a = b
  BY DEF OneLeasePerMember
<1>3. ASSUME NEW w \in Workers, NEW a \in Acquisitions, Claims(w, a)
      PROVE  \A b \in Acquisitions \ {a} :
               ~(OwnerOf[b] = OwnerOf[a] /\ LiveNext(b))
  <2>1. \A b \in Acquisitions \ {a} : job'[b] = job[b]
    BY <1>3 DEF Claims, Claim, TypeOK, RowType
  <2>2. ~OwnerLeased(OwnerOf[a], {a})
    BY <1>3 DEF Claims, Claim, StillFree
  <2> QED BY <2>1, <2>2 DEF OwnerLeased
<1> HIDE DEF Live
<1>4. ASSUME NEW a \in Acquisitions, NEW b \in Acquisitions, OwnerOf[a] = OwnerOf[b],
             LiveNext(a), LiveNext(b)
      PROVE  a = b
  <2> HIDE DEF LiveNext
  <2> QED BY <1>1, <1>2, <1>3, <1>4
<1> QED BY <1>4 DEF OneLeasePerMember

LEMMA CheckpointKept ==
  ASSUME IInv, [Next]_vars PROVE SnapshotIsCheckpoint' /\ SnapshotIsDelivered'
<1> USE DEF IInv
<1> SUFFICES ASSUME NEW b \in Acquisitions
    PROVE  /\ job'[b].state \in Unfinished \cup {"none"} =>
                snapshot'[b] = IF job'[b].results # None /\ HasLists(job'[b].results)
                               THEN job'[b].results ELSE None
           /\ acquisition'[b].state \in {"ready", "partial"} =>
                snapshot'[b] # None /\ items'[b] = ItemsFor(snapshot'[b])
           /\ snapshot'[b] # None => acquisition'[b].state \notin {"failed", "cancelled"}
           /\ job'[b].results # None /\ HasLists(job'[b].results) => snapshot'[b] = job'[b].results
  BY DEF SnapshotIsCheckpoint, SnapshotIsDelivered
<1>0. /\ job[b].state \in Unfinished \cup {"none"} =>
            snapshot[b] = IF job[b].results # None /\ HasLists(job[b].results)
                          THEN job[b].results ELSE None
      /\ acquisition[b].state \in {"ready", "partial"} =>
            snapshot[b] # None /\ items[b] = ItemsFor(snapshot[b])
      /\ snapshot[b] # None => acquisition[b].state \notin {"failed", "cancelled"}
      /\ job[b].results # None /\ HasLists(job[b].results) => snapshot[b] = job[b].results
  BY DEF SnapshotIsCheckpoint, SnapshotIsDelivered
<1>1. /\ job[b].results # None => job[b].state = "leased"
      /\ acquisition[b].state = "processing" <=> job[b].state \in Unfinished
  BY DEF TypeOK, RowType
<1>2. /\ acquisition'[b].state = "processing" <=> job'[b].state \in Unfinished
      /\ job'[b].results # None => job'[b].state = "leased"
  BY TypeKept DEF TypeOK, RowType
<1>3. CASE Kept(b)
  BY <1>0, <1>3 DEF Kept, SameLease, SameResult
<1>4. CASE Begins(b) \/ Queues(b)
  BY <1>0, <1>1, <1>4 DEF Begins, Queues, SameLease, SameResult, Unfinished
<1>5. CASE Cancels(b)
  BY <1>0, <1>1, <1>5 DEF Cancels, SameLease, Unfinished
<1>6. ASSUME NEW w \in Workers, Claims(w, b) PROVE job[b].state \in Unfinished
  BY <1>6 DEF Claims, Claim, LocksHold
<1>7. CASE \E w \in Workers : Claims(w, b)
  BY <1>0, <1>1, <1>6, <1>7 DEF Claims, Unfinished
<1>8. ASSUME NEW w \in Workers, Records(w, b)
      PROVE  /\ worker[w].results # None /\ job[b].state = "leased"
             /\ job[b].results \in {None, worker[w].results}
  BY <1>8, ParameterTypes DEF Records, Record, Recordable, LeaseHeld, SameClaim, TypeOK, WorkerType
<1>9. CASE \E w \in Workers : Records(w, b)
  BY <1>0, <1>1, <1>8, <1>9 DEF Records, Unfinished
<1>10. ASSUME NEW w \in Workers, Completes(w, b)
       PROVE  /\ job[b].state = "leased" /\ job[b].results = worker[w].results
              /\ worker[w].results # None
  BY <1>10, ParameterTypes
     DEF Completes, Ended, SameClaim, RecordedIsCheckpoint, TypeOK, WorkerType
<1>11. CASE \E w \in Workers : Completes(w, b)
  BY <1>0, <1>10, <1>11 DEF Completes, Ended, Unfinished
<1>12. CASE \E w \in Workers : Expires(w, b)
  BY <1>12 DEF Expires, Ended, Unfinished
<1> QED BY <1>3, <1>4, <1>5, <1>7, <1>9, <1>11, <1>12, EveryRowStep DEF RowStep

-----------------------------------------------------------------------------
(* The artifact store.                                                     *)

LEMMA CleanedKept ==
  ASSUME IInv, [Next]_vars PROVE OnlyFinishedIsCleaned'
<1> USE DEF IInv
<1>0. \A c \in Calls : CommandOf[c] \in Acquisitions
  BY ParameterTypes
<1>1. ASSUME NEW b \in Acquisitions
      PROVE  /\ job[b].state # "none" => job'[b].state # "none"
             /\ job[b].state \in Finished => job'[b].state \in Finished
  BY RowsGoOn
<1>2. ASSUME NEW c \in Calls
      PROVE  /\ call'[c] \notin {"idle", "done"} => job'[CommandOf[c]].state # "none"
             /\ call'[c] \in {"discard", "mark"} => job'[CommandOf[c]].state \in Finished
  <2> DEFINE a == CommandOf[c]
  <2>0. /\ call[c] \notin {"idle", "done"} => job'[a].state # "none"
        /\ call[c] \in {"discard", "mark"} => job'[a].state \in Finished
        /\ a \in Acquisitions /\ DOMAIN call = Calls
    BY <1>0, <1>1 DEF OnlyFinishedIsCleaned, TypeOK, CallType
  <2>1. ASSUME NEW d \in Calls, StartStep(d) \/ CallFails(d)
        PROVE  /\ call'[c] \notin {"idle", "done"} => job'[a].state # "none"
               /\ call'[c] \in {"discard", "mark"} => job'[a].state \in Finished
    <3>1. CASE d # c
      <4>1. call'[c] = call[c]
        BY <2>0, <2>1, <3>1 DEF StartStep, Reserve, ReserveAgain, RefuseReserve, CheckPut, Publish,
           Activate, CallDiscards, CallMarks, CallFails
      <4> QED BY <2>0, <4>1
    <3>2. CASE d = c /\ Reserve(c)
      <4>1. call'[c] = "reserved" /\ job'[a].state = "preparing"
        BY <2>0, <3>2 DEF Reserve, TypeOK, RowType, Jobs
      <4> QED BY <4>1
    <3>3. CASE d = c /\ ReserveAgain(c)
      <4>1. call'[c] \in {"reserved", "done"} /\ job[a].state # "none"
        BY <2>0, <3>3 DEF ReserveAgain
      <4> QED BY <1>1, <2>0, <4>1
    <3>4. CASE d = c /\ Activate(c)
      <4>1. /\ call[c] = "stored"
            /\ call'[c] = "done" \/ (call'[c] = "discard" /\ job[a].state \in Finished)
        BY <2>0, <3>4 DEF Activate, ArtifactRequired
      <4> QED BY <1>1, <2>0, <4>1 DEF Finished
    <3>5. CASE d = c /\ ~Reserve(c) /\ ~ReserveAgain(c) /\ ~Activate(c)
      <4>1. \/ call'[c] = "done"
            \/ call[c] \in {"reserved", "publishing"} /\ call'[c] \in {"publishing", "stored"}
            \/ call[c] = "discard" /\ call'[c] = "mark"
        BY <2>0, <2>1, <3>5 DEF StartStep, RefuseReserve, CheckPut, Publish, CallDiscards,
           CallMarks, CallFails
      <4> QED BY <2>0, <4>1
    <3> QED BY <2>1, <3>1, <3>2, <3>3, <3>4, <3>5
  <2>2. call' = call =>
               /\ call'[c] \notin {"idle", "done"} => job'[a].state # "none"
               /\ call'[c] \in {"discard", "mark"} => job'[a].state \in Finished
    BY <2>0
  <2> QED BY <2>1, <2>2, CancelFrame, WorkersFrame, ClockFrame, ViewFrame DEF Next
<1>3. ASSUME NEW a \in Acquisitions, canceller'[a] # "idle" PROVE job'[a].state \in Finished
  <2>0. canceller[a] # "idle" => job'[a].state \in Finished
    BY <1>1 DEF OnlyFinishedIsCleaned
  <2>1. ASSUME NEW b \in Acquisitions, CancelStep(b) \/ CancelFails(b), canceller[a] = "idle"
        PROVE  job'[a].state \in Finished
    <3>1. b = a /\ Cancel(a)
      BY <1>3, <2>1 DEF CancelStep, CancelFails, Cancel, CancelAgain, CancelDiscards, CancelMarks,
         TypeOK, CallType
    <3>2. job'[a].state = "cancelled"
      BY <3>1 DEF Cancel, TypeOK, RowType, Jobs
    <3> QED BY <3>2 DEF Finished
  <2>2. canceller' = canceller => job'[a].state \in Finished
    BY <1>3, <2>0
  <2> QED BY <2>0, <2>1, <2>2, CallsFrame, WorkersFrame, ClockFrame, ViewFrame DEF Next
<1>4. ASSUME NEW v \in Workers
      PROVE  /\ \A a \in worker'[v].todo : job'[a].state \in Finished
             /\ worker'[v].pc = "marking" => job'[worker'[v].acq].state \in Finished
  <2> DEFINE Clean == /\ \A a \in worker'[v].todo : job'[a].state \in Finished
                      /\ worker'[v].pc = "marking" => job'[worker'[v].acq].state \in Finished
  <2>0. /\ worker[v] \in Passes /\ DOMAIN worker = Workers
        /\ \A a \in worker[v].todo : a \in Acquisitions /\ job'[a].state \in Finished
        /\ worker[v].pc = "marking" => job'[worker[v].acq].state \in Finished
    BY <1>1 DEF OnlyFinishedIsCleaned, TypeOK, WorkerType, Passes
  <2>1. worker'[v] = worker[v] => Clean
    BY <2>0
  <2>2. ASSUME NEW todo, Sweeping(v, todo), \A a \in todo : job'[a].state \in Finished PROVE Clean
    BY <2>0, <2>2 DEF Sweeping, IdleWorker
  <2>3. ASSUME worker'[v].pc # "marking", worker'[v].todo \subseteq worker[v].todo PROVE Clean
    BY <2>0, <2>3
  <2>4. ASSUME WorkerStep(v) \/ DeadlinePasses(v) \/ SweepSkips(v)
               \/ ArtifactUnusable(v) \/ WorkerDies(v)
        PROVE  Clean
    <3> HIDE DEF Clean
    <3>1. CASE ListFinished(v)
      BY <1>1, <2>2, <3>1 DEF ListFinished, Unmarked
    <3>2. CASE SweepMarks(v) \/ SweepSkips(v)
      BY <2>0, <2>2, <3>2 DEF SweepMarks, SweepSkips
    <3>3. CASE SweepDiscards(v)
      <4>1. PICK a \in worker[v].todo : worker' = [worker EXCEPT ![v].pc = "marking", ![v].acq = a]
        BY <3>3 DEF SweepDiscards
      <4>2. worker'[v].acq = a /\ worker'[v].todo = worker[v].todo
        BY <2>0, <4>1 DEF Passes
      <4> QED BY <2>0, <4>2 DEF Clean
    <3>4. CASE Rest(v)
      BY <2>0, <2>3, <3>4 DEF Rest, IdleWorker
    <3>5. ASSUME NEW pc, pc # "marking", Become(v, pc) PROVE Clean
      BY <2>0, <2>3, <3>5 DEF Become, Passes
    <3>6. CASE Pick(v)
      <4>1. PICK a \in Acquisitions :
              worker' = [worker EXCEPT ![v].pc = "picked", ![v].acq = a, ![v].deadline = past[a]]
        BY <3>6 DEF Pick
      <4> QED BY <2>0, <2>3, <4>1 DEF Passes
    <3>7. CASE Claim(v)
      BY <2>0, <2>3, <3>7 DEF Claim, Passes
    <3>8. CASE DeadlinePasses(v)
      BY <2>0, <2>3, <3>8 DEF DeadlinePasses, Passes
    <3>9. CASE Inspect(v)
      BY <2>0, <2>3, <3>9 DEF Inspect, Passes
    <3>10. CASE Record(v)
      <4>1. CASE worker' = [worker EXCEPT ![v].pc = "recorded", ![v].checkpointed = TRUE]
        BY <2>0, <2>3, <4>1 DEF Passes
      <4> QED BY <3>5, <3>10, <4>1 DEF Record
    <3>11. CASE \/ PickNothing(v) \/ DiscardLate(v) \/ ReadArtifact(v) \/ ArtifactUnusable(v)
                \/ InspectThrows(v) \/ RecordRefused(v) \/ Caught(v) \/ CompleteRefused(v)
      BY <3>4, <3>5, <3>11 DEF PickNothing, DiscardLate, ReadArtifact, ArtifactUnusable,
         InspectThrows, RecordRefused, Caught, CompleteRefused
    <3> QED BY <2>4, <3>1, <3>2, <3>3, <3>4, <3>6, <3>7, <3>8, <3>9, <3>10, <3>11
        DEF WorkerStep, ClaimNothing, Complete, Expire, WorkerDies
  <2>5. ASSUME NEW w \in Workers,
               \/ WorkerStep(w) \/ DeadlinePasses(w) \/ SweepSkips(w)
               \/ ArtifactUnusable(w) \/ WorkerDies(w)
        PROVE  Clean
    <3>1. CASE w = v
      BY <2>4, <2>5, <3>1
    <3>2. CASE w # v
      BY <2>1, <2>5, <3>2, OnePassStep
    <3> QED BY <3>1, <3>2
  <2> HIDE DEF Clean
  <2>6. Clean
    BY <2>1, <2>5, CallsFrame, CancelFrame, ClockFrame, ViewFrame DEF Next
  <2> QED BY <2>6 DEF Clean
<1> QED BY <1>2, <1>3, <1>4 DEF OnlyFinishedIsCleaned

(* An artifact goes only when its job has finished or its deadline passed. *)
LEMMA DiscardIsDue ==
  ASSUME IInv, [Next]_vars, NEW b \in Acquisitions, stored[b],
         job[b].state \notin Finished, ~past[b]
  PROVE  stored'[b]
<1> USE DEF IInv
<1>0. stored \in [Acquisitions -> BOOLEAN]
  BY DEF TypeOK
<1>1. ASSUME NEW c \in Calls, StartStep(c) \/ CallFails(c) PROVE stored'[b]
  <2>1. CASE CallDiscards(c)
    <3>1. CommandOf[c] # b
      BY <2>1 DEF CallDiscards, OnlyFinishedIsCleaned
    <3> QED BY <1>0, <2>1, <3>1 DEF CallDiscards
  <2>2. CASE Publish(c)
    BY <1>0, <2>2 DEF Publish
  <2> QED BY <1>1, <2>1, <2>2 DEF StartStep, Reserve, ReserveAgain, RefuseReserve, CheckPut,
      Activate, CallMarks, CallFails
<1>2. ASSUME NEW a \in Acquisitions, CancelStep(a) \/ CancelFails(a) PROVE stored'[b]
  <2>1. CASE CancelDiscards(a)
    <3>1. a # b
      BY <2>1 DEF CancelDiscards, OnlyFinishedIsCleaned
    <3> QED BY <1>0, <2>1, <3>1 DEF CancelDiscards
  <2> QED BY <1>2, <2>1 DEF CancelStep, CancelFails, Cancel, CancelAgain, CancelMarks
<1>3. ASSUME NEW w \in Workers,
             \/ WorkerStep(w) \/ DeadlinePasses(w) \/ SweepSkips(w)
             \/ ArtifactUnusable(w) \/ WorkerDies(w)
      PROVE  stored'[b]
  <2>1. CASE SweepDiscards(w)
    <3>1. PICK a \in worker[w].todo : stored' = [stored EXCEPT ![a] = FALSE]
      BY <2>1 DEF SweepDiscards
    <3>2. a # b
      BY DEF OnlyFinishedIsCleaned
    <3> QED BY <1>0, <3>1, <3>2
  <2>2. CASE DiscardLate(w)
    <3>1. past[worker[w].acq]
      BY <2>2 DEF DiscardLate, DeadlineIsPast
    <3>2. worker[w].acq # b
      BY <3>1
    <3> QED BY <1>0, <2>2, <3>2 DEF DiscardLate
  <2>3. CASE DeadlinePasses(w)
    <3>1. worker[w].acq # b
      BY <2>3 DEF DeadlinePasses
    <3> QED BY <1>0, <2>3, <3>1 DEF DeadlinePasses
  <2> QED BY <1>3, <2>1, <2>2, <2>3
    DEF WorkerStep, ListFinished, SweepMarks, Pick, PickNothing, Claim, ClaimNothing, ReadArtifact,
        Inspect, InspectThrows, Record, RecordRefused, Caught, Complete, CompleteRefused, Expire,
        SweepSkips, ArtifactUnusable, WorkerDies
<1> QED BY <1>1, <1>2, <1>3, ClockFrame, ViewFrame DEF Next

LEMMA PutKept ==
  ASSUME IInv, [Next]_vars PROVE PutIsKept'
<1> USE DEF IInv
<1> SUFFICES ASSUME NEW c \in Calls, call'[c] = "stored",
                    ~past'[CommandOf[c]], job'[CommandOf[c]].state \notin Finished
             PROVE  stored'[CommandOf[c]]
  BY DEF PutIsKept
<1> DEFINE a == CommandOf[c]
<1>0. a \in Acquisitions
  BY ParameterTypes
<1>1. ~past[a] /\ job[a].state \notin Finished
  BY <1>0, PastStays, RowsGoOn
<1>2. CASE call[c] = "stored"
  <2>1. stored[a]
    BY <1>1, <1>2 DEF PutIsKept
  <2> QED BY <1>0, <1>1, <2>1, DiscardIsDue
<1>3. CASE call[c] # "stored"
  <2>1. ASSUME NEW d \in Calls, StartStep(d) \/ CallFails(d) PROVE Publish(c)
    BY <1>3, <2>1 DEF StartStep, Reserve, ReserveAgain, RefuseReserve, CheckPut, Publish,
       Activate, CallDiscards, CallMarks, CallFails, TypeOK, CallType
  <2>2. Publish(c)
    BY <1>3, <2>1, CancelFrame, WorkersFrame, ClockFrame, ViewFrame DEF Next
  <2>3. call'[c] # "done"
    OBVIOUS
  <2>4. ~(stored[a] /\ past[a])
    BY <1>1
  <2>5. stored' = [stored EXCEPT ![a] = TRUE]
    BY <2>2, <2>4 DEF Publish
  <2> QED BY <1>0, <2>5 DEF TypeOK
<1> QED BY <1>2, <1>3

LEMMA InputKept ==
  ASSUME IInv, [Next]_vars PROVE InputIsKept'
<1> USE DEF IInv
<1> SUFFICES ASSUME NEW b \in Acquisitions, job'[b].state \in {"queued", "leased"},
                    job'[b].results = None, ~past'[b]
             PROVE  stored'[b]
  BY DEF InputIsKept
<1>0. ~past[b]
  BY PastStays
<1>1. CASE job[b].state \in {"queued", "leased"} /\ job[b].results = None
  <2>1. stored[b]
    BY <1>0, <1>1 DEF InputIsKept
  <2> QED BY <1>0, <1>1, <2>1, DiscardIsDue DEF Finished
<1>2. CASE job[b].state = "preparing"
  <2>1. ~\E w \in Workers : Claims(w, b)
    <3>1. ASSUME NEW w \in Workers, Claims(w, b) PROVE FALSE
      <4>1. worker[w].pc = "picked" /\ worker[w].acq = b
        BY <3>1 DEF Claims, Claim
      <4> QED BY <1>0, <1>2, <4>1 DEF LocksHold
    <3> QED BY <3>1
  <2>2. ~\E w \in Workers : Records(w, b)
    BY <1>2 DEF Records, Record, Recordable, LeaseHeld, SameClaim
  <2>3. Queues(b)
    BY <1>2, <2>1, <2>2, EveryRowStep
       DEF RowStep, Kept, Begins, Cancels, Completes, Expires, Ended
  <2>4. PICK c \in Calls : CommandOf[c] = b /\ call[c] = "stored" /\ stored' = stored
    BY <2>3 DEF Queues, Activate
  <2> QED BY <1>0, <1>2, <2>4 DEF PutIsKept, Finished
<1>3. (job[b].state \in {"queued", "leased"} /\ job[b].results = None) \/ job[b].state = "preparing"
  <2>1. RowStep(b)
    BY EveryRowStep
  <2>2. ASSUME NEW w \in Workers, Records(w, b) PROVE FALSE
    BY <2>2, ParameterTypes DEF Records, Record, TypeOK, WorkerType
  <2>3. ASSUME NEW w \in Workers, Claims(w, b)
        PROVE  job[b].state \in Unfinished /\ job[b].results = None
    BY <2>3 DEF Claims, Claim, LocksHold
  <2> QED BY <2>1, <2>2, <2>3
    DEF RowStep, Kept, Begins, Queues, Cancels, Completes, Expires, Ended, SameLease, Unfinished
<1> QED BY <1>1, <1>2, <1>3

(* An artifact that is stored beside a finished job stays tracked, and one *)
(* that is published is.                                                   *)
LEMMA TrackStays ==
  ASSUME IInv, [Next]_vars, NEW b \in Acquisitions, stored'[b], job'[b].state \in Finished,
         stored[b] => Tracked(b)
  PROVE  Tracked(b)'
<1> USE DEF IInv
<1>0. /\ DOMAIN call = Calls /\ abandoned \in [Acquisitions -> BOOLEAN]
      /\ stored \in [Acquisitions -> BOOLEAN]
      /\ \A c \in Calls : CommandOf[c] \in Acquisitions
  BY ParameterTypes DEF TypeOK, CallType
<1>1. CASE ~stored[b]
  <2>1. ASSUME NEW c \in Calls, StartStep(c) \/ CallFails(c) PROVE Tracked(b)'
    <3>1. Publish(c) /\ stored' # stored
      BY <1>0, <1>1, <2>1 DEF StartStep, Reserve, ReserveAgain, RefuseReserve, CheckPut, Publish,
         Activate, CallDiscards, CallMarks, CallFails
    <3>2. CommandOf[c] = b /\ call'[c] = "stored"
      BY <1>0, <1>1, <3>1 DEF Publish
    <3> QED BY <3>2 DEF Tracked
  <2>2. ASSUME NEW a \in Acquisitions, CancelStep(a) \/ CancelFails(a) PROVE FALSE
    BY <1>0, <1>1, <2>2 DEF CancelStep, CancelFails, Cancel, CancelAgain, CancelDiscards, CancelMarks
  <2>3. ASSUME NEW w \in Workers,
               \/ WorkerStep(w) \/ DeadlinePasses(w) \/ SweepSkips(w)
               \/ ArtifactUnusable(w) \/ WorkerDies(w)
        PROVE  FALSE
    <3>1. stored' = stored \/ \E a : stored' = [stored EXCEPT ![a] = FALSE]
      BY <2>3 DEF WorkerStep, ListFinished, SweepDiscards, SweepMarks, Pick, PickNothing, Claim,
         ClaimNothing, DiscardLate, ReadArtifact, Inspect, InspectThrows, Record, RecordRefused,
         Caught, Complete, CompleteRefused, Expire, DeadlinePasses, SweepSkips, ArtifactUnusable,
         WorkerDies
    <3> QED BY <1>0, <1>1, <3>1
  <2> QED BY <1>1, <2>1, <2>2, <2>3, ClockFrame, ViewFrame DEF Next
<1>2. CASE stored[b] /\ abandoned[b]
  <2>1. ASSUME NEW c \in Calls, StartStep(c) \/ CallFails(c) PROVE abandoned'[b]
    <3>1. CASE CallFails(c)
      BY <1>0, <1>2, <3>1 DEF CallFails
    <3> QED BY <1>2, <2>1, <3>1 DEF StartStep, Reserve, ReserveAgain, RefuseReserve, CheckPut,
        Publish, Activate, CallDiscards, CallMarks
  <2>2. abandoned'[b]
    BY <1>2, <2>1, CancelFrame, WorkersFrame, ClockFrame, ViewFrame DEF Next
  <2> QED BY <2>2 DEF Tracked
<1>3. CASE stored[b] /\ ~abandoned[b]
  <2>1. PICK c \in Calls : CommandOf[c] = b /\ call[c] \in {"stored", "discard"}
    BY <1>3 DEF Tracked
  <2>2. ASSUME NEW d \in Calls, StartStep(d) \/ CallFails(d) PROVE Tracked(b)'
    <3>1. CASE d # c
      <4>1. call'[c] = call[c]
        BY <1>0, <2>2, <3>1 DEF StartStep, Reserve, ReserveAgain, RefuseReserve, CheckPut, Publish,
           Activate, CallDiscards, CallMarks, CallFails
      <4> QED BY <2>1, <4>1 DEF Tracked
    <3>2. CASE d = c /\ Activate(c)
      <4>1. job[b].state \in Finished
        <5> SUFFICES ASSUME job[b].state \notin Finished PROVE FALSE
          OBVIOUS
        <5>1. job'[b].state \in {job[b].state, "queued"}
          BY <2>1, <3>2 DEF Activate, TypeOK, RowType, Jobs
        <5> QED BY <5>1 DEF Finished
      <4>2. call'[c] = "discard"
        BY <1>0, <2>1, <3>2, <4>1 DEF Activate, ArtifactRequired
      <4> QED BY <2>1, <4>2 DEF Tracked
    <3>3. CASE d = c /\ CallDiscards(c)
      <4>1. ~stored'[b]
        BY <1>0, <2>1, <3>3 DEF CallDiscards
      <4> QED BY <4>1
    <3>4. CASE d = c /\ CallFails(c)
      <4>1. abandoned'[b]
        BY <1>0, <2>1, <3>4 DEF CallFails
      <4> QED BY <4>1 DEF Tracked
    <3> QED BY <2>1, <2>2, <3>1, <3>2, <3>3, <3>4
      DEF StartStep, Reserve, ReserveAgain, RefuseReserve, CheckPut, Publish, CallMarks
  <2>3. call' = call => Tracked(b)'
    BY <2>1 DEF Tracked
  <2> QED BY <2>2, <2>3, CancelFrame, WorkersFrame, ClockFrame, ViewFrame DEF Next
<1> QED BY <1>1, <1>2, <1>3

LEMMA MarkKept ==
  ASSUME IInv, [Next]_vars PROVE MarkIsTracked'
<1> USE DEF IInv
<1>0. /\ DOMAIN call = Calls /\ DOMAIN canceller = Acquisitions /\ DOMAIN stored = Acquisitions
      /\ \A c \in Calls : CommandOf[c] \in Acquisitions
      /\ \A w \in Workers : worker[w] \in Passes /\ worker[w].todo \subseteq Acquisitions
      /\ DOMAIN worker = Workers
      /\ OnlyFinishedIsCleaned'
  BY ParameterTypes, CleanedKept DEF TypeOK, CallType, WorkerType, Passes
<1>1. ASSUME NEW c \in Calls, call'[c] = "mark", stored'[CommandOf[c]]
      PROVE  Tracked(CommandOf[c])'
  <2>1. job'[CommandOf[c]].state \in Finished
    BY <1>0, <1>1 DEF OnlyFinishedIsCleaned
  <2>2. CASE call[c] = "mark"
    BY <1>0, <1>1, <2>1, <2>2, TrackStays DEF MarkIsTracked
  <2>3. CASE call[c] # "mark"
    <3>1. ASSUME NEW d \in Calls, StartStep(d) \/ CallFails(d) PROVE CallDiscards(c)
      BY <1>0, <1>1, <2>3, <3>1 DEF StartStep, Reserve, ReserveAgain, RefuseReserve, CheckPut,
         Publish, Activate, CallDiscards, CallMarks, CallFails
    <3>2. CallDiscards(c)
      BY <1>1, <2>3, <3>1, CancelFrame, WorkersFrame, ClockFrame, ViewFrame DEF Next
    <3>3. ~stored'[CommandOf[c]]
      BY <1>0, <3>2 DEF CallDiscards
    <3> QED BY <1>1, <3>3
  <2> QED BY <2>2, <2>3
<1>2. ASSUME NEW a \in Acquisitions, canceller'[a] = "mark", stored'[a]
      PROVE  Tracked(a)'
  <2>1. job'[a].state \in Finished
    BY <1>0, <1>2 DEF OnlyFinishedIsCleaned
  <2>2. CASE canceller[a] = "mark"
    BY <1>2, <2>1, <2>2, TrackStays DEF MarkIsTracked
  <2>3. CASE canceller[a] # "mark"
    <3>1. ASSUME NEW b \in Acquisitions, CancelStep(b) \/ CancelFails(b) PROVE CancelDiscards(a)
      BY <1>0, <1>2, <2>3, <3>1 DEF CancelStep, CancelFails, Cancel, CancelAgain, CancelDiscards,
         CancelMarks
    <3>2. CancelDiscards(a)
      BY <1>2, <2>3, <3>1, CallsFrame, WorkersFrame, ClockFrame, ViewFrame DEF Next
    <3>3. ~stored'[a]
      BY <1>0, <3>2 DEF CancelDiscards
    <3> QED BY <1>2, <3>3
  <2> QED BY <2>2, <2>3
<1>3. ASSUME NEW v \in Workers, worker'[v].pc = "marking", stored'[worker'[v].acq]
      PROVE  Tracked(worker[v].acq)'
  <2>1. worker'[v].acq \in Acquisitions /\ job'[worker'[v].acq].state \in Finished
    BY <1>0, <1>3, TypeKept DEF OnlyFinishedIsCleaned, TypeOK, WorkerType
  <2>2. CASE worker'[v] = worker[v]
    <3>1. worker[v].acq \in Acquisitions /\ (stored[worker[v].acq] => Tracked(worker[v].acq))
      BY <1>3, <2>1, <2>2 DEF MarkIsTracked
    <3> DEFINE a == worker[v].acq
    <3>2. stored'[a] /\ job'[a].state \in Finished /\ worker'[v].acq = a
      BY <1>3, <2>1, <2>2
    <3> HIDE DEF a
    <3>3. \A b \in Acquisitions : stored'[b] /\ job'[b].state \in Finished /\ (stored[b] => Tracked(b))
            => abandoned'[b] \/ \E c \in Calls : CommandOf[c] = b /\ call'[c] \in {"stored", "discard"}
      BY TrackStays DEF Tracked
    <3>4. abandoned'[a] \/ \E c \in Calls : CommandOf[c] = a /\ call'[c] \in {"stored", "discard"}
      BY <3>1, <3>2, <3>3 DEF a
    <3> QED BY <3>2, <3>4 DEF Tracked
  <2>3. CASE worker'[v] # worker[v]
    <3>1. ASSUME NEW w \in Workers,
                 \/ WorkerStep(w) \/ DeadlinePasses(w) \/ SweepSkips(w)
                 \/ ArtifactUnusable(w) \/ WorkerDies(w)
          PROVE  ~stored'[worker'[v].acq]
      <4>1. w = v
        BY <2>3, <3>1, OnePassStep
      <4>2. SweepDiscards(v)
        <5>1. PassStep(v)
          BY <3>1, <4>1, OnePassStep
        <5> QED BY <1>3, <5>1 DEF PassStep, Lets, Picks, Takes, GoesOn, Holding
      <4>3. PICK a \in worker[v].todo :
              /\ stored' = [stored EXCEPT ![a] = FALSE]
              /\ worker' = [worker EXCEPT ![v].pc = "marking", ![v].acq = a]
        BY <4>2 DEF SweepDiscards
      <4>4. worker'[v].acq = a /\ a \in Acquisitions
        BY <1>0, <4>3 DEF Passes
      <4> QED BY <1>0, <4>3, <4>4
    <3>2. ~stored'[worker'[v].acq]
      BY <2>3, <3>1, CallsFrame, CancelFrame, ClockFrame, ViewFrame DEF Next
    <3> QED BY <1>3, <3>2
  <2> QED BY <2>2, <2>3
<1> QED BY <1>1, <1>2, <1>3 DEF MarkIsTracked

LEMMA StoredKept ==
  ASSUME IInv, [Next]_vars PROVE StoredIsTracked'
<1> USE DEF IInv
<1> SUFFICES ASSUME NEW b \in Acquisitions, stored'[b], job'[b].deleted PROVE Tracked(b)'
  BY DEF StoredIsTracked, Tracked
<1>1. job'[b].state \in Finished
  BY TypeKept DEF TypeOK, RowType
<1>2. CASE job[b].deleted
  BY <1>1, <1>2, TrackStays DEF StoredIsTracked
<1>3. CASE ~job[b].deleted
  <2>1. stored[b] => Tracked(b)
    <3>0. job \in [Acquisitions -> Jobs]
      BY DEF TypeOK, RowType
    <3>1. ASSUME NEW a \in Acquisitions, job' = MarkDeleted(a) PROVE a = b
      BY <1>3, <3>0, <3>1 DEF MarkDeleted
    <3>2. ASSUME NEW c \in Calls, StartStep(c) \/ CallFails(c) PROVE stored[b] => Tracked(b)
      <4>1. CASE CallMarks(c)
        <5>1. CommandOf[c] = b
          BY <3>1, <4>1, ParameterTypes DEF CallMarks
        <5> QED BY <4>1, <5>1 DEF CallMarks, MarkIsTracked
      <4>2. CASE Reserve(c)
        <5>1. ~job'[b].deleted
          BY <1>3, <3>0, <4>2, ParameterTypes DEF Reserve, Jobs
        <5> QED BY <5>1
      <4>3. CASE Activate(c)
        <5> DEFINE d == job[CommandOf[c]].deleted /\ job[CommandOf[c]].state \notin Finished
        <5>1. job' = [job EXCEPT ![CommandOf[c]].state = IF @ = "preparing" THEN "queued" ELSE @,
                                 ![CommandOf[c]].deleted = d]
          BY <3>0, <4>3, ParameterTypes DEF Activate
        <5>2. d => job[CommandOf[c]].deleted
          OBVIOUS
        <5> HIDE DEF d
        <5>3. ~job'[b].deleted
          BY <1>3, <3>0, <5>1, <5>2, ParameterTypes DEF Jobs
        <5> QED BY <5>3
      <4> QED BY <1>3, <3>2, <4>1, <4>2, <4>3
        DEF StartStep, ReserveAgain, RefuseReserve, CheckPut, Publish, CallDiscards, CallFails
    <3>3. ASSUME NEW a \in Acquisitions, CancelStep(a) \/ CancelFails(a)
          PROVE  stored[b] => Tracked(b)
      <4>1. CASE CancelMarks(a)
        <5>1. a = b
          BY <3>1, <4>1 DEF CancelMarks
        <5> QED BY <4>1, <5>1 DEF CancelMarks, MarkIsTracked
      <4>2. CASE Cancel(a)
        <5>1. ~job'[b].deleted
          BY <1>3, <3>0, <4>2 DEF Cancel, Jobs
        <5> QED BY <5>1
      <4> QED BY <1>3, <3>3, <4>1, <4>2 DEF CancelStep, CancelFails, CancelAgain, CancelDiscards
    <3>4. ASSUME NEW w \in Workers,
                 \/ WorkerStep(w) \/ DeadlinePasses(w) \/ SweepSkips(w)
                 \/ ArtifactUnusable(w) \/ WorkerDies(w)
          PROVE  stored[b] => Tracked(b)
      <4>1. CASE SweepMarks(w)
        <5>1. worker[w].acq = b
          BY <3>1, <4>1 DEF SweepMarks, TypeOK, WorkerType
        <5> QED BY <4>1, <5>1 DEF SweepMarks, MarkIsTracked
      <4>2. CASE Claim(w)
        <5>1. worker[w].acq \in Acquisitions
          BY <4>2 DEF Claim, TypeOK, WorkerType, Holding
        <5>2. job'[b].deleted = job[b].deleted
          BY <3>0, <4>2, <5>1, ClaimedRow
        <5> QED BY <1>3, <5>2
      <4>3. CASE Record(w) \/ job' = FinishedJob(worker[w].acq)
        <5>1. ~job'[b].deleted
          <6>1. CASE Record(w)
            <7>1. job' = [job EXCEPT ![worker[w].acq].results = worker[w].results]
              BY <6>1 DEF Record
            <7>2. job[b] \in Jobs
              BY <3>0
            <7>3. job'[b] = job[b] \/ job'[b] = [job[b] EXCEPT !.results = worker[w].results]
              BY <3>0, <7>1
            <7>4. [job[b] EXCEPT !.results = worker[w].results].deleted = job[b].deleted
              BY <7>2 DEF Jobs
            <7> QED BY <1>3, <7>3, <7>4
          <6>2. CASE job' = FinishedJob(worker[w].acq)
            <7> DEFINE j == [job[b] EXCEPT !.state = "completed", !.owner = None,
                                           !.expired = FALSE, !.results = None]
            <7>1. job[b] \in Jobs
              BY <3>0
            <7>2. job'[b] = job[b] \/ job'[b] = j
              BY <3>0, <6>2 DEF FinishedJob
            <7>3. j.deleted = job[b].deleted
              BY <7>1 DEF Jobs
            <7> HIDE DEF j
            <7> QED BY <1>3, <7>2, <7>3
          <6> QED BY <4>3, <6>1, <6>2
        <5> QED BY <5>1
      <4> QED BY <1>3, <3>4, <4>1, <4>2, <4>3
        DEF WorkerStep, DeadlinePasses, SweepSkips, ArtifactUnusable, WorkerDies, ListFinished,
            SweepDiscards, Pick, PickNothing, ClaimNothing, DiscardLate, ReadArtifact, Inspect,
            InspectThrows, RecordRefused, Caught, Complete, CompleteRefused, Expire
    <3>5. ASSUME NEW a \in Acquisitions, LeaseExpires(a) \/ LeaseOutrun(a) PROVE FALSE
      BY <1>3, <3>0, <3>5 DEF LeaseExpires, LeaseOutrun, Jobs
    <3>6. job' = job => FALSE
      BY <1>3
    <3>7. \A a \in Acquisitions : RetentionEnds(a) => job' = job
      BY DEF RetentionEnds
    <3> QED BY <3>2, <3>3, <3>4, <3>5, <3>6, <3>7, ViewFrame DEF Next
  <2> QED BY <1>1, <2>1, TrackStays
<1> QED BY <1>2, <1>3

-----------------------------------------------------------------------------
LEMMA InitIInv == Init => IInv
<1> SUFFICES ASSUME Init PROVE IInv
  OBVIOUS
<1>1. TypeOK
  BY InitTypeOK
<1>2. LocksHold /\ DeadlineIsPast /\ ClaimsAreDistinct /\ RecordedIsCheckpoint
  BY DEF Init, IdleWorker, LocksHold, DeadlineIsPast, ClaimsAreDistinct, RecordedIsCheckpoint,
     Passing, Holding
<1>3. SnapshotIsCheckpoint /\ SnapshotIsDelivered /\ OneLeasePerMember
  BY DEF Init, NoJob, NoAcquisition, SnapshotIsCheckpoint, SnapshotIsDelivered, OneLeasePerMember
<1>4. PutIsKept /\ MarkIsTracked /\ InputIsKept /\ StoredIsTracked
  BY ParameterTypes DEF Init, NoJob, IdleWorker, PutIsKept, MarkIsTracked, InputIsKept,
     StoredIsTracked
<1>5. OnlyFinishedIsCleaned
  BY ParameterTypes DEF Init, NoJob, IdleWorker, OnlyFinishedIsCleaned, Finished
<1> QED BY <1>1, <1>2, <1>3, <1>4, <1>5 DEF IInv

LEMMA NextIInv == IInv /\ [Next]_vars => IInv'
BY TypeKept, LocksHoldKept, DeadlineKept, ClaimsKept, RecordedKept, CheckpointKept, CleanedKept,
   PutKept, MarkKept, LeaseKept, InputKept, StoredKept DEF IInv

(* The claiming, delivering and cleaning up of web imports keep IInv,      *)
(* however many processes and calls take part.                             *)
THEOREM Invariant == Spec => []IInv
BY InitIInv, NextIInv, PTL DEF Spec

(* The tables keep their constraints: exactly a leased job has an owner    *)
(* and a lease, only a finished one is marked as cleaned, and the state of *)
(* an acquisition follows its job's.                                       *)
THEOREM TypeCorrect == Spec => []TypeOK
<1>1. IInv => TypeOK
  BY DEF IInv
<1> QED BY <1>1, Invariant, PTL

(* A member's batches are worked on one at a time: the lease is checked    *)
(* again under the lock of the member (queue.ts, claim).                   *)
THEOREM OneLease == Spec => []OneLeasePerMember
<1>1. IInv => OneLeasePerMember
  BY DEF IInv
<1> QED BY <1>1, Invariant, PTL

(* What a member imports from is what the items of the acquisition show,   *)
(* whichever workers inspected, recorded and completed (queue.ts).         *)
THEOREM Delivered == Spec => []SnapshotIsDelivered
<1>1. IInv => SnapshotIsDelivered
  BY DEF IInv
<1> QED BY <1>1, Invariant, PTL

(* No call of start, no cancel and no sweep takes the links away that a    *)
(* worker still needs (start.ts, activate; the sweep of the worker).       *)
THEOREM InputStays == Spec => []InputIsKept
<1>1. IInv => InputIsKept
  BY DEF IInv
<1> QED BY <1>1, Invariant, PTL

(* Links that outlive the mark of their deletion belong to a start call    *)
(* that will discard them, or that died before it could.                   *)
THEOREM LeftoversAreTracked == Spec => []StoredIsTracked
<1>1. IInv => StoredIsTracked
  BY DEF IInv
<1> QED BY <1>1, Invariant, PTL

(* No step writes a row that has ended.                                    *)
LEMMA EndedRowStays ==
  ASSUME IInv, [Next]_vars, NEW a \in Acquisitions,
         acquisition[a].state \notin {"none", "processing"}
  PROVE  acquisition'[a] = acquisition[a] /\ items'[a] = items[a]
<1>1. job[a].state \notin Unfinished \cup {"none"}
  BY DEF IInv, TypeOK, RowType
<1>2. ASSUME NEW w \in Workers, Claims(w, a) PROVE FALSE
  BY <1>1, <1>2 DEF Claims, Claim, IInv, LocksHold
<1>3. ASSUME NEW w \in Workers, Records(w, a) PROVE FALSE
  BY <1>1, <1>3 DEF Records, Record, Recordable, LeaseHeld, SameClaim, Unfinished
<1>4. Kept(a)
  BY <1>1, <1>2, <1>3, EveryRowStep
     DEF RowStep, Begins, Queues, Cancels, Completes, Expires, Ended, Unfinished
<1> QED BY <1>4 DEF Kept, SameResult

(* What a member was told of a finished acquisition is never changed, not  *)
(* by a worker that lost its lease nor by a late cancel.                   *)
THEOREM FinalStays == Spec => FinalIsFinal
<1> DEFINE Final == \A a \in Acquisitions :
                      acquisition[a].state \notin {"none", "processing"} =>
                        UNCHANGED <<acquisition[a], items[a]>>
<1>1. IInv /\ [Next]_vars => [Final]_vars
  BY EndedRowStays
<1> QED BY <1>1, Invariant, PTL DEF Spec, FinalIsFinal

-----------------------------------------------------------------------------
(* What the member is shown.                                               *)

(* The counters of a header fit its state.                                 *)
Settled == {"ready", "partial", "failed", "expired"}
Header(q) ==
  /\ q.state \notin Settled => q.ready = 0 /\ q.failed = 0
  /\ q.state \in {"ready", "partial"} => q.ready > 0
  /\ q.ready + q.failed <= Cardinality(Links)

HeadersFit ==
  \A a \in Acquisitions :
    /\ Header(acquisition[a])
    /\ acquisition[a].state \in Settled =>
         \A l \in Links : items[a][l] \notin {"pending", "fetching"}

(* What a read has seen of an ended acquisition is so still, whether or    *)
(* not the items have been read as well.                                   *)
ViewFits ==
  view.phase # "idle" =>
    /\ Header(view) /\ (view.snapshot => view.state \in {"ready", "partial"})
    /\ view.state \in Settled => acquisition[view.acq].state = view.state
    /\ view.phase = "shown" /\ view.state \in Settled => view.processed = Cardinality(Links)

LEMMA CountsFit ==
  ASSUME NEW r
  PROVE  /\ Count("succeeded", r) \in Nat /\ Count("failed", r) \in Nat
         /\ Count("succeeded", r) + Count("failed", r) <= Cardinality(Links)
<1> DEFINE S == {l \in Links : r[l] = "succeeded"}
           F == {l \in Links : r[l] = "failed"}
<1>1. S \in SUBSET Links /\ F \in SUBSET Links /\ S \cup F \in SUBSET Links /\ S \cap F = {}
  OBVIOUS
<1> HIDE DEF S, F
<1>2. IsFiniteSet(S) /\ IsFiniteSet(F) /\ Cardinality(S \cup F) <= Cardinality(Links)
  BY <1>1, ParameterTypes, FS_Subset
<1>3. Cardinality(S \cup F) = Cardinality(S) + Cardinality(F) - 0
  BY <1>1, <1>2, FS_Union, FS_EmptySet
<1>4. Cardinality(S) \in Nat /\ Cardinality(F) \in Nat
  BY <1>2, FS_CardinalityType
<1>5. Cardinality(S) + Cardinality(F) <= Cardinality(Links)
  BY <1>2, <1>3, <1>4
<1> QED BY <1>4, <1>5 DEF Count, S, F

LEMMA HeadersKept ==
  ASSUME IInv, HeadersFit, [Next]_vars PROVE HeadersFit'
<1> SUFFICES ASSUME NEW b \in Acquisitions
             PROVE  /\ Header(acquisition'[b])
                    /\ acquisition'[b].state \in Settled =>
                         \A l \in Links : items'[b][l] \notin {"pending", "fetching"}
  BY DEF HeadersFit, Header
<1>0. /\ acquisition[b] \in Rows /\ Header(acquisition[b])
      /\ acquisition[b].state \in Settled =>
           \A l \in Links : items[b][l] \notin {"pending", "fetching"}
      /\ acquisition[b].state = "processing" <=> job[b].state \in Unfinished
      /\ acquisition[b].state = "none" <=> job[b].state = "none"
      /\ Cardinality(Links) \in Nat
  BY LinksCounted DEF HeadersFit, IInv, TypeOK, RowType, Rows
<1>1. CASE Kept(b) \/ Queues(b) \/ \E w \in Workers : Records(w, b)
  BY <1>0, <1>1 DEF Kept, Queues, Records, SameResult
<1>2. CASE Begins(b) \/ Cancels(b)
  <2>1. acquisition[b].ready = 0 /\ acquisition[b].failed = 0
    BY <1>0, <1>2 DEF Begins, Cancels, Header, Settled
  <2> QED BY <1>0, <1>2, <2>1 DEF Begins, Cancels, SameCounts, Header, Settled
<1>3. ASSUME NEW w \in Workers, Claims(w, b)
      PROVE  acquisition'[b] = acquisition[b] /\ acquisition[b].state \notin Settled
  <2>1. job[b].state \in Unfinished
    BY <1>3 DEF Claims, Claim, IInv, LocksHold
  <2> QED BY <1>0, <1>3, <2>1 DEF Claims, Settled
<1>4. ASSUME NEW w \in Workers, Completes(w, b)
      PROVE  /\ Header(acquisition'[b])
             /\ \A l \in Links : items'[b][l] \notin {"pending", "fetching"}
  <2> DEFINE r == worker[w].results
  <2>1. r \in Inspections
    BY <1>4 DEF Completes, IInv, TypeOK, WorkerType
  <2>2. \A l \in Links : ItemsFor(r)[l] \notin {"pending", "fetching"}
    BY <2>1, ParameterTypes DEF ItemsFor
  <2>3. acquisition'[b].state # "failed" => acquisition'[b].ready > 0
    BY <1>4 DEF Completes, HasLists
  <2> QED BY <1>4, <2>2, <2>3, CountsFit DEF Completes, Header, Settled
<1>5. ASSUME NEW w \in Workers, Expires(w, b)
      PROVE  /\ Header(acquisition'[b])
             /\ \A l \in Links : items'[b][l] \notin {"pending", "fetching"}
  <2>1. acquisition[b].ready = 0
    BY <1>0, <1>5 DEF Expires, Ended, Header, Settled
  <2>2. acquisition'[b].failed \in Nat /\ acquisition'[b].failed <= Cardinality(Links)
    BY <1>5, ParameterTypes, LinksCounted, FS_Subset DEF Expires
  <2> QED BY <1>0, <1>5, <2>1, <2>2 DEF Expires, Header, Settled
<1> QED BY <1>0, <1>1, <1>2, <1>3, <1>4, <1>5, EveryRowStep DEF RowStep

LEMMA ViewsKept ==
  ASSUME IInv, HeadersFit, ViewFits, [Next]_vars PROVE ViewFits'
<1> USE DEF IInv
<1>0. /\ view \in Views /\ (view.phase # "idle" => view.acq \in Acquisitions)
      /\ acquisition \in [Acquisitions -> Rows] /\ Cardinality(Links) \in Nat
  BY LinksCounted DEF TypeOK, RowType, CallType, Rows
<1>1. ASSUME NEW a \in Acquisitions, view.state \in Settled, acquisition[a].state = view.state
      PROVE  acquisition'[a].state = view.state
  BY <1>1, EndedRowStays DEF Settled
<1>2. CASE view' = view
  BY <1>0, <1>1, <1>2 DEF ViewFits, Header
<1>3. ASSUME NEW a \in Acquisitions, ReadHeader(a) PROVE ViewFits'
  <2>1. view' = ReadNow(a) /\ acquisition' = acquisition
    BY <1>3 DEF ReadHeader
  <2>2. /\ view'.phase = "header" /\ view'.acq = a /\ view'.state = acquisition[a].state
        /\ view'.ready = acquisition[a].ready /\ view'.failed = acquisition[a].failed
        /\ view'.snapshot = (acquisition[a].state \in {"ready", "partial"})
    BY <2>1 DEF ReadNow
  <2>3. Header(acquisition[a])
    BY DEF HeadersFit
  <2> QED BY <2>1, <2>2, <2>3 DEF ViewFits, Header
<1>4. CASE ReadItems
  <2> DEFINE a == view.acq
             n == Processed(a)
  <2>1. /\ view.phase = "header" /\ a \in Acquisitions
        /\ acquisition' = acquisition /\ items' = items
    BY <1>0, <1>4 DEF ReadItems
  <2>2. view' = [view EXCEPT !.phase = "shown", !.processed = n]
    BY <1>4 DEF ReadItems, Project, ReadNow
  <2>3. acquisition[a].state \in Settled => n = Cardinality(Links)
    <3>1. SUFFICES ASSUME acquisition[a].state \in Settled PROVE n = Cardinality(Links)
      OBVIOUS
    <3>2. {l \in Links : items[a][l] \notin {"pending", "fetching"}} = Links
      BY <2>1, <3>1 DEF HeadersFit
    <3> QED BY <3>2 DEF Processed
  <2> HIDE DEF n
  <2>4. /\ view'.phase = "shown" /\ view'.acq = a /\ view'.state = view.state
        /\ view'.ready = view.ready /\ view'.failed = view.failed
        /\ view'.snapshot = view.snapshot /\ view'.processed = n
    BY <1>0, <2>2 DEF Views
  <2> QED BY <2>1, <2>3, <2>4 DEF ViewFits, Header
<1> QED BY <1>2, <1>3, <1>4, CallsFrame, CancelFrame, WorkersFrame, ClockFrame DEF Next

LEMMA ViewIsWellFormed ==
  ASSUME IInv, HeadersFit, ViewFits PROVE ViewWellFormed
<1> SUFFICES ASSUME view.phase = "shown"
             PROVE  /\ view.ready + view.failed <= view.processed
                    /\ view.snapshot => view.ready > 0 /\ snapshot[view.acq] # None
                    /\ view.state \in Settled => view.processed = Cardinality(Links)
  BY DEF ViewWellFormed, Settled
<1>1. view \in Views /\ view.acq \in Acquisitions
  BY DEF IInv, TypeOK, CallType
<1>2. /\ Header(view) /\ (view.snapshot => view.state \in {"ready", "partial"})
      /\ view.state \in Settled => acquisition[view.acq].state = view.state
      /\ view.state \in Settled => view.processed = Cardinality(Links)
  BY DEF ViewFits
<1>3. view.snapshot => snapshot[view.acq] # None
  BY <1>1, <1>2 DEF IInv, SnapshotIsDelivered, Settled
<1>4. view.ready + view.failed <= view.processed
  BY <1>1, <1>2 DEF Header, Views
<1> QED BY <1>2, <1>3, <1>4 DEF Header

(* A member who reads an acquisition in two queries while workers complete *)
(* or expire it is never shown more entries counted than processed, nor a  *)
(* snapshot that is not there (contracts, importAcquisitionV1Schema).      *)
THEOREM ViewsAreWellFormed == Spec => []ViewWellFormed
<1> DEFINE Inv == IInv /\ HeadersFit /\ ViewFits
<1>1. Init => Inv
  <2> SUFFICES ASSUME Init PROVE HeadersFit /\ ViewFits
    BY InitIInv
  <2>1. Cardinality(Links) \in Nat
    BY LinksCounted
  <2> QED BY <2>1 DEF Init, NoAcquisition, NoView, HeadersFit, ViewFits, Header, Settled
<1>2. Inv /\ [Next]_vars => Inv'
  BY NextIInv, HeadersKept, ViewsKept
<1>3. Inv => ViewWellFormed
  BY ViewIsWellFormed
<1> QED BY <1>1, <1>2, <1>3, PTL DEF Spec
=============================================================================
