------------------------ MODULE WebImportAcquisition ------------------------
(***************************************************************************)
(* Web imports of shared lists.  A start call reserves an acquisition and  *)
(* its job, puts the links into the encrypted artifact store and activates *)
(* the job.  A worker claims the job under a lease, reads the links,       *)
(* inspects them at the provider, checkpoints the result together with the *)
(* snapshot, completes, and sweeps the artifacts of finished jobs.         *)
(*                                                                         *)
(* The database and the artifact store are two stores without a common     *)
(* transaction: a transaction is one action, a call of the store another.  *)
(* A claim is two actions, its candidate is chosen before the lock of the  *)
(* member is taken.                                                        *)
(***************************************************************************)
EXTENDS Naturals, FiniteSets

CONSTANTS
  Acquisitions,   \* acquisition ids, each the target of one start command
  OwnerOf,        \* the member of every acquisition
  Links,          \* entries of a batch
  Inspections,    \* what the provider may answer: an outcome for every link
  Workers,        \* worker processes
  WorkerName,     \* the workerId each is configured with; replicas may share one
  Calls,          \* calls of start, several for one acquisition when retried
  CommandOf,      \* the acquisition a call starts
  ActiveLimit,    \* unfinished jobs a member may have
  Watched,        \* bound: the acquisitions a member reads
  MaxFaults,      \* bound: crashes, failed calls and leases outrun
  None

ASSUME ParameterTypes ==
  /\ IsFiniteSet(Links)
  /\ Inspections \subseteq [Links -> {"succeeded", "duplicate", "failed"}]
  /\ CommandOf \in [Calls -> Acquisitions]
  /\ DOMAIN OwnerOf = Acquisitions /\ DOMAIN WorkerName = Workers
  /\ Watched \subseteq Acquisitions
  /\ {ActiveLimit, MaxFaults} \subseteq Nat
  /\ None \notin Acquisitions \cup Inspections
  /\ \A w \in Workers : WorkerName[w] # None

VARIABLES
  job,          \* web_import_acquisition_jobs
  acquisition,  \* web_import_acquisitions
  items,        \* web_import_acquisition_items.state
  snapshot,     \* the inspection a source snapshot was recorded from
  stored,       \* whether the artifact is in the store
  past,         \* artifact_retained_until <= now
  call,         \* how far a call of start is
  canceller,    \* how far the cancel command is
  worker,       \* the worker processes
  view,         \* one read of an acquisition by its member
  abandoned,    \* a start call that had put the artifact died
  faults

database == <<job, acquisition, items, snapshot>>
vars == <<database, stored, past, call, canceller, worker, view, abandoned, faults>>

-----------------------------------------------------------------------------
Unfinished == {"preparing", "queued", "leased"}
Finished == {"completed", "cancelled"}
AcquisitionStates == {"none", "processing", "ready", "partial", "failed",
                      "cancelled", "expired"}
ItemStates == {"none", "pending", "fetching", "ready", "duplicate", "failed"}

NoJob == [state |-> "none", owner |-> None, generation |-> 0, expired |-> FALSE,
          deleted |-> FALSE, results |-> None]
NoAcquisition == [state |-> "none", ready |-> 0, failed |-> 0]
IdleWorker == [pc |-> "idle", acq |-> None, generation |-> 0, results |-> None,
               deadline |-> FALSE, checkpointed |-> FALSE, todo |-> {}]
NoView == [phase |-> "idle", acq |-> None, state |-> "none", ready |-> 0,
           failed |-> 0, snapshot |-> FALSE, processed |-> 0]

Count(outcome, results) == Cardinality({l \in Links : results[l] = outcome})
HasLists(results) == Count("succeeded", results) > 0
ItemsFor(results) ==
  [l \in Links |-> IF results[l] = "succeeded" THEN "ready" ELSE results[l]]

Fault == faults < MaxFaults /\ faults' = faults + 1

(* A worker that has chosen a candidate holds the lock of the job's row.   *)
Locked(a) == \E w \in Workers : worker[w].pc = "picked" /\ worker[w].acq = a

Init ==
  /\ job = [a \in Acquisitions |-> NoJob]
  /\ acquisition = [a \in Acquisitions |-> NoAcquisition]
  /\ items = [a \in Acquisitions |-> [l \in Links |-> "none"]]
  /\ snapshot = [a \in Acquisitions |-> None]
  /\ stored = [a \in Acquisitions |-> FALSE]
  /\ past = [a \in Acquisitions |-> FALSE]
  /\ call = [c \in Calls |-> "idle"]
  /\ canceller = [a \in Acquisitions |-> "idle"]
  /\ worker = [w \in Workers |-> IdleWorker]
  /\ view = NoView
  /\ abandoned = [a \in Acquisitions |-> FALSE]
  /\ faults = 0

-----------------------------------------------------------------------------
(* Calls of start.                                                         *)

ActiveJobs(owner) ==
  {a \in Acquisitions : OwnerOf[a] = owner /\ job[a].state \in Unfinished}

Reserve(c) ==
  LET a == CommandOf[c] IN
  /\ call[c] = "idle"
  /\ job[a].state = "none"
  /\ Cardinality(ActiveJobs(OwnerOf[a])) < ActiveLimit
  /\ job' = [job EXCEPT ![a].state = "preparing"]
  /\ acquisition' = [acquisition EXCEPT ![a].state = "processing"]
  /\ items' = [items EXCEPT ![a] = [l \in Links |-> "pending"]]
  /\ call' = [call EXCEPT ![c] = "reserved"]
  /\ UNCHANGED <<snapshot, stored, past, canceller, worker, view, abandoned, faults>>

(* A repeated command continues a reservation that is still preparing.     *)
ReserveAgain(c) ==
  LET a == CommandOf[c] IN
  /\ call[c] = "idle"
  /\ job[a].state # "none"
  /\ call' = [call EXCEPT ![c] = IF job[a].state = "preparing" THEN "reserved" ELSE "done"]
  /\ UNCHANGED <<database, stored, past, canceller, worker, view, abandoned, faults>>

RefuseReserve(c) ==
  LET a == CommandOf[c] IN
  /\ call[c] = "idle"
  /\ job[a].state = "none"
  /\ Cardinality(ActiveJobs(OwnerOf[a])) >= ActiveLimit
  /\ call' = [call EXCEPT ![c] = "done"]
  /\ UNCHANGED <<database, stored, past, canceller, worker, view, abandoned, faults>>

(* put looks at the deadline and at a prior artifact, then publishes.      *)
CheckPut(c) ==
  /\ call[c] = "reserved"
  /\ call' = [call EXCEPT ![c] = IF past[CommandOf[c]] THEN "done" ELSE "publishing"]
  /\ UNCHANGED <<database, stored, past, canceller, worker, view, abandoned, faults>>

Publish(c) ==
  LET a == CommandOf[c] IN
  /\ call[c] = "publishing"
  /\ IF stored[a] /\ past[a]
     THEN /\ call' = [call EXCEPT ![c] = "done"]
          /\ UNCHANGED stored
     ELSE /\ call' = [call EXCEPT ![c] = "stored"]
          /\ stored' = [stored EXCEPT ![a] = TRUE]
  /\ UNCHANGED <<database, past, canceller, worker, view, abandoned, faults>>

(* Mutant: a completed job is not recognised as finished.                  *)
ArtifactRequiredLong(a) == job[a].state # "cancelled"

ArtifactRequired(a) == job[a].state \notin Finished

(* A finished job forgets that its artifact was deleted before the call    *)
(* discards what it has just put: whatever fails after, a sweep finds it.  *)
Activate(c) ==
  LET a == CommandOf[c] IN
  /\ call[c] = "stored"
  /\ ~Locked(a)
  /\ job' = [job EXCEPT ![a].state = IF @ = "preparing" THEN "queued" ELSE @,
                        ![a].deleted = @ /\ job[a].state \notin Finished]
  /\ call' = [call EXCEPT ![c] = IF ArtifactRequired(a) THEN "done" ELSE "discard"]
  /\ UNCHANGED <<acquisition, items, snapshot, stored, past, canceller, worker, view,
                 abandoned, faults>>

CallDiscards(c) ==
  /\ call[c] = "discard"
  /\ stored' = [stored EXCEPT ![CommandOf[c]] = FALSE]
  /\ call' = [call EXCEPT ![c] = "mark"]
  /\ UNCHANGED <<database, past, canceller, worker, view, abandoned, faults>>

MarkDeleted(a) ==
  [job EXCEPT ![a].deleted = @ \/ job[a].state \in Finished]

CallMarks(c) ==
  /\ call[c] = "mark"
  /\ job' = MarkDeleted(CommandOf[c])
  /\ call' = [call EXCEPT ![c] = "done"]
  /\ UNCHANGED <<acquisition, items, snapshot, stored, past, canceller, worker, view,
                 abandoned, faults>>

(* The process dies, or a call of a store throws.                          *)
CallFails(c) ==
  /\ call[c] \notin {"idle", "done"}
  /\ Fault
  /\ call' = [call EXCEPT ![c] = "done"]
  /\ abandoned' = [abandoned EXCEPT ![CommandOf[c]] =
                     @ \/ call[c] \in {"stored", "discard"}]
  /\ UNCHANGED <<database, stored, past, canceller, worker, view>>

-----------------------------------------------------------------------------
(* The cancel command.                                                     *)

Cancel(a) ==
  /\ canceller[a] = "idle"
  /\ ~Locked(a)
  /\ job[a].state = "queued"
  /\ acquisition[a].state = "processing"
  /\ job' = [job EXCEPT ![a].state = "cancelled"]
  /\ acquisition' = [acquisition EXCEPT ![a].state = "cancelled"]
  /\ canceller' = [canceller EXCEPT ![a] = "discard"]
  /\ UNCHANGED <<items, snapshot, stored, past, call, worker, view, abandoned, faults>>

(* A repeated command cleans up again unless the artifact is marked.       *)
CancelAgain(a) ==
  /\ canceller[a] = "done"
  /\ ~job[a].deleted
  /\ canceller' = [canceller EXCEPT ![a] = "discard"]
  /\ UNCHANGED <<database, stored, past, call, worker, view, abandoned, faults>>

CancelDiscards(a) ==
  /\ canceller[a] = "discard"
  /\ stored' = [stored EXCEPT ![a] = FALSE]
  /\ canceller' = [canceller EXCEPT ![a] = "mark"]
  /\ UNCHANGED <<database, past, call, worker, view, abandoned, faults>>

CancelMarks(a) ==
  /\ canceller[a] = "mark"
  /\ job' = MarkDeleted(a)
  /\ canceller' = [canceller EXCEPT ![a] = "done"]
  /\ UNCHANGED <<acquisition, items, snapshot, stored, past, call, worker, view,
                 abandoned, faults>>

CancelFails(a) ==
  /\ canceller[a] \in {"discard", "mark"}
  /\ Fault
  /\ canceller' = [canceller EXCEPT ![a] = "done"]
  /\ UNCHANGED <<database, stored, past, call, worker, view, abandoned>>

-----------------------------------------------------------------------------
(* The worker: the sweep of finished jobs at the start of every pass.      *)

Become(w, pc) == worker' = [worker EXCEPT ![w].pc = pc]
Rest(w) == worker' = [worker EXCEPT ![w] = IdleWorker]

Unmarked == {a \in Acquisitions : job[a].state \in Finished /\ ~job[a].deleted}

Sweeping(w, todo) ==
  worker' = [worker EXCEPT ![w] = [IdleWorker EXCEPT
               !.pc = IF todo = {} THEN "ready" ELSE "sweeping", !.todo = todo]]

ListFinished(w) ==
  /\ worker[w].pc = "idle"
  /\ Sweeping(w, Unmarked)
  /\ UNCHANGED <<database, stored, past, call, canceller, view, abandoned, faults>>

SweepDiscards(w) ==
  /\ worker[w].pc = "sweeping"
  /\ \E a \in worker[w].todo :
       /\ stored' = [stored EXCEPT ![a] = FALSE]
       /\ worker' = [worker EXCEPT ![w].pc = "marking", ![w].acq = a]
  /\ UNCHANGED <<database, past, call, canceller, view, abandoned, faults>>

(* The store throws: the job stays unmarked and is met on the next pass.   *)
SweepSkips(w) ==
  /\ worker[w].pc = "sweeping"
  /\ Fault
  /\ \E a \in worker[w].todo : Sweeping(w, worker[w].todo \ {a})
  /\ UNCHANGED <<database, stored, past, call, canceller, view, abandoned>>

SweepMarks(w) ==
  /\ worker[w].pc = "marking"
  /\ job' = MarkDeleted(worker[w].acq)
  /\ Sweeping(w, worker[w].todo \ {worker[w].acq})
  /\ UNCHANGED <<acquisition, items, snapshot, stored, past, call, canceller, view,
                 abandoned, faults>>

-----------------------------------------------------------------------------
(* The worker: claiming.                                                   *)

OwnerLeased(owner, besides) ==
  \E a \in Acquisitions \ besides :
    OwnerOf[a] = owner /\ job[a].state = "leased" /\ ~job[a].expired

(* Mutant: a job whose worker died is not a candidate.                     *)
CandidateNeverReclaimed(a) ==
  /\ \/ job[a].state = "queued"
     \/ job[a].state = "preparing" /\ past[a]
  /\ ~OwnerLeased(OwnerOf[a], {})
  /\ ~Locked(a)

Candidate(a) ==
  /\ \/ job[a].state = "queued"
     \/ job[a].state = "leased" /\ job[a].expired
     \/ job[a].state = "preparing" /\ past[a]
  /\ ~OwnerLeased(OwnerOf[a], {})
  /\ ~Locked(a)

Pick(w) ==
  /\ worker[w].pc = "ready"
  /\ \E a \in Acquisitions :
       /\ Candidate(a)
       /\ worker' = [worker EXCEPT ![w].pc = "picked", ![w].acq = a, ![w].deadline = past[a]]
  /\ UNCHANGED <<database, stored, past, call, canceller, view, abandoned, faults>>

PickNothing(w) ==
  /\ worker[w].pc = "ready"
  /\ \A a \in Acquisitions : ~Candidate(a)
  /\ Become(w, "idle")
  /\ UNCHANGED <<database, stored, past, call, canceller, view, abandoned, faults>>

(* Mutant: the leases of the member are not looked at again.               *)
StillFreeUnchecked(a) == TRUE

(* Under the lock of the member: the check that chose the candidate saw an *)
(* older state of the member's other jobs.                                 *)
StillFree(a) == ~OwnerLeased(OwnerOf[a], {a})

Claim(w) ==
  LET a == worker[w].acq IN
  /\ worker[w].pc = "picked"
  /\ StillFree(a)
  /\ job' = [job EXCEPT ![a].state = "leased", ![a].owner = WorkerName[w],
                        ![a].generation = @ + 1, ![a].expired = FALSE]
  /\ items' = [items EXCEPT ![a] = [l \in Links |-> IF @[l] = "pending" THEN "fetching" ELSE @[l]]]
  /\ worker' = [worker EXCEPT
       ![w].pc = IF worker[w].deadline THEN "late"
                 ELSE IF job[a].results = None THEN "claimed" ELSE "inspected",
       ![w].generation = job[a].generation + 1,
       ![w].results = job[a].results,
       ![w].checkpointed = job[a].results # None]
  /\ UNCHANGED <<acquisition, snapshot, stored, past, call, canceller, view, abandoned, faults>>

ClaimNothing(w) ==
  /\ worker[w].pc = "picked"
  /\ ~StillFree(worker[w].acq)
  /\ Rest(w)
  /\ UNCHANGED <<database, stored, past, call, canceller, view, abandoned, faults>>

-----------------------------------------------------------------------------
(* The worker: the pass over a claimed job.                                *)

SameClaim(w) ==
  LET a == worker[w].acq IN
  job[a].state = "leased" /\ job[a].owner = WorkerName[w] /\ job[a].generation = worker[w].generation

(* Mutant: a write is not fenced by the lease.                             *)
LeaseUnchecked(w) == TRUE

LeaseHeld(w) == SameClaim(w) /\ ~job[worker[w].acq].expired

(* Claimed after the deadline: the artifact goes first, a failure to       *)
(* delete it is left to the sweep.                                         *)
DiscardLate(w) ==
  LET a == worker[w].acq IN
  /\ worker[w].pc = "late"
  /\ \/ stored' = [stored EXCEPT ![a] = FALSE] /\ UNCHANGED faults
     \/ Fault /\ UNCHANGED stored
  /\ Become(w, IF worker[w].checkpointed THEN "inspected" ELSE "expiring")
  /\ UNCHANGED <<database, past, call, canceller, view, abandoned>>

(* The timer of the process fires while the pass is under way.             *)
DeadlinePasses(w) ==
  LET a == worker[w].acq IN
  /\ worker[w].pc \in {"claimed", "inspecting", "inspected", "failing", "recorded", "expiring"}
  /\ past[a] /\ ~worker[w].deadline
  /\ \/ stored' = [stored EXCEPT ![a] = FALSE] /\ UNCHANGED faults
     \/ Fault /\ UNCHANGED stored
  /\ worker' = [worker EXCEPT ![w].deadline = TRUE]
  /\ UNCHANGED <<database, past, call, canceller, view, abandoned>>

ReadArtifact(w) ==
  LET a == worker[w].acq IN
  /\ worker[w].pc = "claimed"
  /\ Become(w, IF stored[a] /\ ~past[a] THEN "inspecting" ELSE "expiring")
  /\ UNCHANGED <<database, stored, past, call, canceller, view, abandoned, faults>>

(* The artifact cannot be read, decrypted or parsed.                       *)
ArtifactUnusable(w) ==
  /\ worker[w].pc = "claimed"
  /\ Fault
  /\ Become(w, "expiring")
  /\ UNCHANGED <<database, stored, past, call, canceller, view, abandoned>>

Inspect(w) ==
  /\ worker[w].pc = "inspecting"
  /\ \E r \in Inspections :
       worker' = [worker EXCEPT ![w].results = r,
                    ![w].pc = IF worker[w].deadline THEN "expiring" ELSE "inspected"]
  /\ UNCHANGED <<database, stored, past, call, canceller, view, abandoned, faults>>

(* The deadline aborts the inspection, or it throws.                       *)
InspectThrows(w) ==
  /\ worker[w].pc = "inspecting"
  /\ IF worker[w].deadline THEN UNCHANGED faults ELSE Fault
  /\ Become(w, "failing")
  /\ UNCHANGED <<database, stored, past, call, canceller, view, abandoned>>

Recordable(w) ==
  LET a == worker[w].acq IN
  /\ LeaseHeld(w)
  /\ job[a].results \in {None, worker[w].results}
  /\ HasLists(worker[w].results) => snapshot[a] \in {None, worker[w].results}

(* recordInspectionSnapshot: the checkpoint and the snapshot together.  A  *)
(* commit whose reply is lost is an exception to the worker.               *)
Record(w) ==
  LET a == worker[w].acq IN
  /\ worker[w].pc = "inspected"
  /\ ~Locked(a)
  /\ Recordable(w)
  /\ job' = [job EXCEPT ![a].results = worker[w].results]
  /\ snapshot' = [snapshot EXCEPT ![a] =
                    IF HasLists(worker[w].results) THEN worker[w].results ELSE @]
  /\ \/ /\ worker' = [worker EXCEPT ![w].pc = "recorded", ![w].checkpointed = TRUE]
        /\ UNCHANGED faults
     \/ Fault /\ Become(w, "failing")
  /\ UNCHANGED <<acquisition, items, stored, past, call, canceller, view, abandoned>>

RecordRefused(w) ==
  /\ worker[w].pc = "inspected"
  /\ ~Locked(worker[w].acq)
  /\ ~Recordable(w)
  /\ Become(w, "failing")
  /\ UNCHANGED <<database, stored, past, call, canceller, view, abandoned, faults>>

Caught(w) ==
  /\ worker[w].pc = "failing"
  /\ IF worker[w].deadline /\ ~worker[w].checkpointed THEN Become(w, "expiring") ELSE Rest(w)
  /\ UNCHANGED <<database, stored, past, call, canceller, view, abandoned, faults>>

FinishedJob(a) ==
  [job EXCEPT ![a].state = "completed", ![a].owner = None, ![a].expired = FALSE,
              ![a].results = None]

Complete(w) ==
  LET a == worker[w].acq
      r == worker[w].results
      ready == Count("succeeded", r)
      failed == Count("failed", r)
  IN
  /\ worker[w].pc = "recorded"
  /\ ~Locked(a)
  /\ LeaseHeld(w)
  /\ items' = [items EXCEPT ![a] = ItemsFor(r)]
  /\ acquisition' = [acquisition EXCEPT ![a] =
       IF @.state # "processing" THEN @
       ELSE [state |-> IF ready = 0 THEN "failed" ELSE IF failed = 0 THEN "ready" ELSE "partial",
             ready |-> ready, failed |-> failed]]
  /\ job' = FinishedJob(a)
  /\ Rest(w)
  /\ UNCHANGED <<snapshot, stored, past, call, canceller, view, abandoned, faults>>

CompleteRefused(w) ==
  /\ worker[w].pc = "recorded"
  /\ ~Locked(worker[w].acq)
  /\ ~LeaseHeld(w)
  /\ Become(w, "failing")
  /\ UNCHANGED <<database, stored, past, call, canceller, view, abandoned, faults>>

(* expire looks at the claim, not at the expiry of its lease.  Without the *)
(* claim it throws, which ends the process.                                *)
Expire(w) ==
  LET a == worker[w].acq
      left == [l \in Links |-> IF items[a][l] \in {"pending", "fetching"}
                               THEN "failed" ELSE items[a][l]]
  IN
  /\ worker[w].pc = "expiring"
  /\ ~Locked(a)
  /\ IF SameClaim(w)
     THEN /\ items' = [items EXCEPT ![a] = left]
          /\ acquisition' = [acquisition EXCEPT ![a] =
               IF @.state # "processing" THEN @
               ELSE [@ EXCEPT !.state = "expired",
                              !.failed = Cardinality({l \in Links : left[l] = "failed"})]]
          /\ job' = FinishedJob(a)
     ELSE UNCHANGED <<items, acquisition, job>>
  /\ Rest(w)
  /\ UNCHANGED <<snapshot, stored, past, call, canceller, view, abandoned, faults>>

(* The process dies, or a transaction fails and the pass is deferred.      *)
WorkerDies(w) ==
  /\ worker[w].pc # "idle"
  /\ Fault
  /\ Rest(w)
  /\ UNCHANGED <<database, stored, past, call, canceller, view, abandoned>>

-----------------------------------------------------------------------------
(* Time, and the member's read of an acquisition.                          *)

Working(a) ==
  \E w \in Workers : worker[w].acq = a /\ worker[w].generation = job[a].generation /\ worker[w].generation > 0

(* A lease nobody works under expires; one that is worked under expires    *)
(* when the worker is slower than its lease.                               *)
LeaseExpires(a) ==
  /\ job[a].state = "leased" /\ ~job[a].expired
  /\ ~Working(a)
  /\ job' = [job EXCEPT ![a].expired = TRUE]
  /\ UNCHANGED <<acquisition, items, snapshot, stored, past, call, canceller, worker, view,
                 abandoned, faults>>

LeaseOutrun(a) ==
  /\ job[a].state = "leased" /\ ~job[a].expired
  /\ Working(a)
  /\ Fault
  /\ job' = [job EXCEPT ![a].expired = TRUE]
  /\ UNCHANGED <<acquisition, items, snapshot, stored, past, call, canceller, worker, view,
                 abandoned>>

RetentionEnds(a) ==
  /\ job[a].state # "none" /\ ~past[a]
  /\ past' = [past EXCEPT ![a] = TRUE]
  /\ UNCHANGED <<database, stored, call, canceller, worker, view, abandoned, faults>>

Processed(a) == Cardinality({l \in Links : items[a][l] \notin {"pending", "fetching"}})
ReadNow(a) == [phase |-> "header", acq |-> a, state |-> acquisition[a].state,
               ready |-> acquisition[a].ready, failed |-> acquisition[a].failed,
               snapshot |-> acquisition[a].state \in {"ready", "partial"},
               processed |-> Processed(a)]

(* Mutant: the items are read before the header.                           *)
ProjectItemsFirst(first, second) ==
  [second EXCEPT !.phase = "shown", !.processed = first.processed]

(* The header comes from the first query, the items from the second.       *)
Project(first, second) == [first EXCEPT !.phase = "shown", !.processed = second.processed]

ReadHeader(a) ==
  /\ a \in Watched
  /\ acquisition[a].state # "none"
  /\ view.phase # "header"
  /\ view' = ReadNow(a)
  /\ UNCHANGED <<database, stored, past, call, canceller, worker, abandoned, faults>>

ReadItems ==
  /\ view.phase = "header"
  /\ view' = Project(view, ReadNow(view.acq))
  /\ UNCHANGED <<database, stored, past, call, canceller, worker, abandoned, faults>>

-----------------------------------------------------------------------------
StartStep(c) ==
  \/ Reserve(c) \/ ReserveAgain(c) \/ RefuseReserve(c)
  \/ CheckPut(c) \/ Publish(c) \/ Activate(c) \/ CallDiscards(c) \/ CallMarks(c)
CancelStep(a) ==
  Cancel(a) \/ CancelAgain(a) \/ CancelDiscards(a) \/ CancelMarks(a)
WorkerStep(w) ==
  \/ ListFinished(w) \/ SweepDiscards(w) \/ SweepMarks(w)
  \/ Pick(w) \/ PickNothing(w) \/ Claim(w) \/ ClaimNothing(w)
  \/ DiscardLate(w) \/ ReadArtifact(w) \/ Inspect(w) \/ InspectThrows(w)
  \/ Record(w) \/ RecordRefused(w) \/ Caught(w)
  \/ Complete(w) \/ CompleteRefused(w) \/ Expire(w)

Next ==
  \/ \E c \in Calls : StartStep(c) \/ CallFails(c)
  \/ \E a \in Acquisitions :
       \/ CancelStep(a) \/ CancelFails(a)
       \/ LeaseExpires(a) \/ LeaseOutrun(a) \/ RetentionEnds(a) \/ ReadHeader(a)
  \/ \E w \in Workers :
       WorkerStep(w) \/ DeadlinePasses(w) \/ SweepSkips(w) \/ ArtifactUnusable(w) \/ WorkerDies(w)
  \/ ReadItems

Spec == Init /\ [][Next]_vars

(* The workers are restarted and loop, a call that is under way goes on    *)
(* unless it dies, and time goes on.                                       *)
Fairness ==
  /\ \A c \in Calls : WF_vars(call[c] # "idle" /\ StartStep(c))
  /\ \A w \in Workers : WF_vars(WorkerStep(w))
  /\ \A a \in Acquisitions : WF_vars(LeaseExpires(a)) /\ WF_vars(RetentionEnds(a))

FairSpec == Spec /\ Fairness

-----------------------------------------------------------------------------
PCs == {"idle", "sweeping", "marking", "ready", "picked", "late", "claimed",
        "inspecting", "inspected", "recorded", "failing", "expiring"}
Holding == {"picked", "late", "claimed", "inspecting", "inspected", "recorded",
            "failing", "expiring"}

Jobs == [state : {"none"} \cup Unfinished \cup Finished,
         owner : {WorkerName[w] : w \in Workers} \cup {None},
         generation : Nat, expired : BOOLEAN, deleted : BOOLEAN,
         results : Inspections \cup {None}]
Passes == [pc : PCs, acq : Acquisitions \cup {None}, generation : Nat,
           results : Inspections \cup {None}, deadline : BOOLEAN,
           checkpointed : BOOLEAN, todo : SUBSET Acquisitions]
Views == [phase : {"idle", "header", "shown"}, acq : Acquisitions \cup {None},
          state : AcquisitionStates, ready : Nat, failed : Nat, snapshot : BOOLEAN,
          processed : Nat]

(* The rows have the shape the tables demand of them.                      *)
RowType ==
  /\ job \in [Acquisitions -> Jobs]
  /\ \A a \in Acquisitions :
       /\ job[a].owner # None <=> job[a].state = "leased"
       /\ job[a].expired => job[a].state = "leased"
       /\ job[a].results # None => job[a].state = "leased"
       /\ job[a].deleted => job[a].state \in Finished
       /\ acquisition[a].state = "processing" <=> job[a].state \in Unfinished
       /\ acquisition[a].state = "none" <=> job[a].state = "none"
  /\ acquisition \in [Acquisitions -> [state : AcquisitionStates, ready : Nat, failed : Nat]]
  /\ items \in [Acquisitions -> [Links -> ItemStates]]
  /\ snapshot \in [Acquisitions -> Inspections \cup {None}]

WorkerType ==
  /\ worker \in [Workers -> Passes]
  /\ \A w \in Workers :
       /\ worker[w].pc \in Holding \cup {"marking"} => worker[w].acq \in Acquisitions
       /\ worker[w].pc \in {"inspected", "recorded"} => worker[w].results \in Inspections
       /\ worker[w].checkpointed => worker[w].results \in Inspections

CallType ==
  /\ call \in [Calls -> {"idle", "reserved", "publishing", "stored", "discard", "mark", "done"}]
  /\ canceller \in [Acquisitions -> {"idle", "discard", "mark", "done"}]
  /\ view \in Views
  /\ view.phase # "idle" => view.acq \in Acquisitions

(* The types, and what the tables demand: exactly a leased job has an      *)
(* owner, only a finished one is marked, an unfinished one is processing.  *)
TypeOK ==
  /\ RowType /\ WorkerType /\ CallType
  /\ stored \in [Acquisitions -> BOOLEAN]
  /\ past \in [Acquisitions -> BOOLEAN]
  /\ abandoned \in [Acquisitions -> BOOLEAN]
  /\ faults \in Nat

(* A member's batches are worked on one at a time, however many workers    *)
(* choose their candidates at the same moment (queue.ts, claim).           *)
OneLeasePerMember ==
  \A a, b \in Acquisitions :
    /\ OwnerOf[a] = OwnerOf[b]
    /\ job[a].state = "leased" /\ ~job[a].expired
    /\ job[b].state = "leased" /\ ~job[b].expired
    => a = b

(* The snapshot a member imports from is the inspection the items of the   *)
(* acquisition show, whichever workers inspected, recorded and completed   *)
(* (queue.ts, recordInspectionSnapshot and complete).                      *)
SnapshotIsDelivered ==
  \A a \in Acquisitions :
    /\ acquisition[a].state \in {"ready", "partial"} =>
         snapshot[a] # None /\ items[a] = ItemsFor(snapshot[a])
    /\ snapshot[a] # None => acquisition[a].state \notin {"failed", "cancelled"}
    /\ job[a].results # None /\ HasLists(job[a].results) => snapshot[a] = job[a].results

(* What a member was told of a finished acquisition stays so: no worker    *)
(* that lost its lease and no late cancel changes it (queue.ts, sameClaim).*)
FinalIsFinal ==
  [][\A a \in Acquisitions :
       acquisition[a].state \notin {"none", "processing"} =>
         UNCHANGED <<acquisition[a], items[a]>>]_vars

(* The links of a job that still has to be inspected are not discarded     *)
(* before their deadline, whatever other calls of the same command do      *)
(* (start.ts, activate: artifactRequired).                                 *)
InputIsKept ==
  \A a \in Acquisitions :
    job[a].state \in {"queued", "leased"} /\ job[a].results = None /\ ~past[a] => stored[a]

(* A start call is about to discard the artifact, or died before it could. *)
Tracked(a) ==
  abandoned[a] \/ \E c \in Calls : CommandOf[c] = a /\ call[c] \in {"stored", "discard"}

(* An artifact whose job says it was deleted has a start call that is      *)
(* about to discard it, or is the leftover of one that died               *)
(* (web-import-acquisitions.ts, start against the worker's cleanup).       *)
StoredIsTracked ==
  \A a \in Acquisitions :
    stored[a] /\ job[a].deleted => Tracked(a)

(* A view read in two queries still satisfies the contract: no more ready  *)
(* and failed entries than processed ones, and a snapshot that exists      *)
(* (contracts, importAcquisitionV1Schema).                                 *)
ViewWellFormed ==
  view.phase = "shown" =>
    /\ view.ready + view.failed <= view.processed
    /\ view.snapshot => view.ready > 0 /\ snapshot[view.acq] # None
    /\ view.state \in {"ready", "partial", "failed", "expired"} =>
         view.processed = Cardinality(Links)

-----------------------------------------------------------------------------
(* The strengthening the safety properties need.                           *)

(* A row's lock has one holder, which finds the row as it chose it.        *)
LocksHold ==
  \A w \in Workers : worker[w].pc = "picked" =>
    /\ job[worker[w].acq].state \in Unfinished
    /\ job[worker[w].acq].state = "preparing" => past[worker[w].acq]
    /\ \A v \in Workers :
         worker[v].pc = "picked" /\ worker[v].acq = worker[w].acq => v = w

(* A pass knows of no deadline that has not passed.                        *)
DeadlineIsPast ==
  \A w \in Workers :
    \/ worker[w].pc \in Holding /\ worker[w].deadline
    \/ worker[w].pc = "late"
    => past[worker[w].acq]

(* No two passes have the same claim, not even under one name.             *)
Passing(w) == worker[w].pc \in Holding \ {"picked"}
ClaimsAreDistinct ==
  \A w \in Workers : Passing(w) =>
    /\ worker[w].generation <= job[worker[w].acq].generation
    /\ \A v \in Workers :
         /\ Passing(v) /\ worker[v].acq = worker[w].acq
         /\ worker[v].generation = worker[w].generation
         => v = w

(* What a worker is about to complete is what it recorded.                 *)
RecordedIsCheckpoint ==
  \A w \in Workers :
    worker[w].pc = "recorded" /\ SameClaim(w) =>
      job[worker[w].acq].results = worker[w].results

(* Before an acquisition ends its snapshot is what its checkpoint holds.   *)
SnapshotIsCheckpoint ==
  \A a \in Acquisitions : job[a].state \in Unfinished \cup {"none"} =>
    snapshot[a] = IF job[a].results # None /\ HasLists(job[a].results)
                  THEN job[a].results ELSE None

(* Whoever discards an artifact does so for a finished job.                *)
OnlyFinishedIsCleaned ==
  /\ \A c \in Calls :
       /\ call[c] \notin {"idle", "done"} => job[CommandOf[c]].state # "none"
       /\ call[c] \in {"discard", "mark"} => job[CommandOf[c]].state \in Finished
  /\ \A a \in Acquisitions : canceller[a] # "idle" => job[a].state \in Finished
  /\ \A w \in Workers :
       /\ \A a \in worker[w].todo : job[a].state \in Finished
       /\ worker[w].pc = "marking" => job[worker[w].acq].state \in Finished

(* A call that has put the links finds them when it activates.             *)
PutIsKept ==
  \A c \in Calls :
    call[c] = "stored" =>
      \/ stored[CommandOf[c]]
      \/ past[CommandOf[c]]
      \/ job[CommandOf[c]].state \in Finished

(* An artifact that appears between a discard and its mark is tracked.     *)
MarkIsTracked ==
  /\ \A c \in Calls : call[c] = "mark" /\ stored[CommandOf[c]] => Tracked(CommandOf[c])
  /\ \A a \in Acquisitions : canceller[a] = "mark" /\ stored[a] => Tracked(a)
  /\ \A w \in Workers :
       worker[w].pc = "marking" /\ stored[worker[w].acq] => Tracked(worker[w].acq)

(* The inductive invariant of claiming, delivering and cleaning up.        *)
IInv ==
  /\ TypeOK /\ LocksHold /\ DeadlineIsPast /\ ClaimsAreDistinct
  /\ RecordedIsCheckpoint /\ SnapshotIsCheckpoint
  /\ OnlyFinishedIsCleaned /\ PutIsKept /\ MarkIsTracked
  /\ OneLeasePerMember /\ SnapshotIsDelivered /\ InputIsKept /\ StoredIsTracked

-----------------------------------------------------------------------------
(* Every acquisition ends: deaths of the start call, of workers and lost   *)
(* leases delay it only.                                                   *)
AcquisitionEnds ==
  \A a \in Acquisitions :
    acquisition[a].state = "processing" ~> acquisition[a].state # "processing"

(* The links a member submitted leave the store again, but for the         *)
(* leftover StoredIsTracked allows.                                        *)
ArtifactGoes ==
  \A a \in Acquisitions : stored[a] ~> ~stored[a] \/ (abandoned[a] /\ job[a].deleted)

(* Every acquisition ends and takes the links it was given with it.        *)
AcquisitionSettles == AcquisitionEnds /\ ArtifactGoes
=============================================================================
