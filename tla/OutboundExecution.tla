------------------------- MODULE OutboundExecution -------------------------
(***************************************************************************)
(* One approved outbound transfer: the places of a Collection that are     *)
(* written to a list of the member's account at a provider.                *)
(*                                                                         *)
(* The backend keeps the operation, the execution grants, the intent of    *)
(* every provider write and what became of it.  The connector writes ahead *)
(* in its local spool, asks the backend to prepare the attempt, calls the  *)
(* provider once, and reports.  A write whose answer is lost is reconciled *)
(* and never repeated.                                                     *)
(*                                                                         *)
(* A database transaction, a storage write of the connector and a call of  *)
(* the provider are one action each.  Two calls of the connector's runtime *)
(* are under way at most: one that writes or reconciles (live), and the    *)
(* restart handshake (resume).                                             *)
(***************************************************************************)
EXTENDS Integers, FiniteSets

CONSTANTS
  NumItems,    \* places of the Collection, numbered by source position
  BatchSize,   \* the connector's batch size, fixed when the grant is consumed
  NewList,     \* whether the plan creates its target list
  MaxTries,    \* bound: attempt ids used for one provider write
  MaxGrants,   \* bound: grants issued
  MaxTokens    \* bound: times a grant is consumed

ASSUME ParameterTypes ==
  /\ {NumItems, BatchSize, MaxTries, MaxGrants, MaxTokens} \subseteq Nat \ {0}
  /\ NewList \in BOOLEAN

Items == 1..NumItems
Generations == 1..MaxGrants
Tokens == 0..MaxTokens
NoToken == 0

(* The provider writes of a plan: slot 0 creates the target list, slot b   *)
(* adds the batch with sequence b - 1.                                     *)
CreateSlot == 0
Slots == 0..NumItems
Attempts == [slot : Slots, try : 1..MaxTries]
NoAttempt == [slot |-> 0, try |-> 0]

VARIABLES
  opState,           \* operations.state; "none" before the plan is approved
  cancelRequested,   \* operations.cancel_requested
  transferState,     \* outbound_transfers.state
  adds,              \* items the preview found missing at the target
  itemStatus,        \* operation_items.status
  grant,             \* outbound_execution_grants.status by generation
  token,             \* the receipt token the consumed grant knows; 0 before
  writeExpired,      \* receipt_expires_at <= now
  reconcileExpired,  \* reconciliation_expires_at <= now
  intent,            \* outbound_execution_attempt_intents.state
  report,            \* outbound_execution_attempts: the recorded result
  reconciliation,    \* the latest outbound_reconciliations outcome
  spool,             \* the connector's write-ahead entries
  vault,             \* the receipt token in its vault
  session,           \* the receipt token its callers hold in memory
  live, resume,      \* the two calls under way
  present,           \* items that are on the target list at the provider
  listed,            \* whether the target list exists at the provider
  inflight,          \* writes the provider has not concluded
  writes             \* how often each attempt was sent to the provider

operation == <<opState, cancelRequested, transferState, adds, itemStatus>>
authority == <<grant, token, writeExpired, reconcileExpired>>
ledger == <<intent, report, reconciliation>>
connector == <<spool, vault, session>>
provider == <<present, listed, inflight, writes>>
vars == <<operation, authority, ledger, connector, live, resume, provider>>

-----------------------------------------------------------------------------
Final == {"completed", "cancelled", "failed"}
OpStates == {"none", "queued", "running", "outcome-unknown", "action-required",
             "partial-failure"} \cup Final
TransferStates == {"draft", "approved"} \cup Final
Settled == {"applied", "already-present", "failed"}
Statuses == {"pending", "outcome-unknown"} \cup Settled
Problems == {"none", "retryable", "final", "action-required", "cancelled"}
Outcomes == {"completed", "partial", "outcome-unknown"}
Open == {"prepared", "expired", "unknown"}
Confirmed == {"completed", "reconciled-completed"}
IntentStates == {"none", "partial", "reconciled-partial"} \cup Open \cup Confirmed

(* A result says "none" of the items its attempt does not add.             *)
Results == [outcome : Outcomes \cup {"none"}, problem : Problems,
            items : [Items -> Settled \cup {"outcome-unknown", "none"}]]
Result(outcome, problem, items) ==
  [outcome |-> outcome, problem |-> problem, items |-> items]
Nothing == [i \in Items |-> "none"]
NoResult == Result("none", "none", Nothing)

LivePCs == {"idle", "authorized", "prepare", "acknowledge", "provider", "report",
            "reported", "reconcile", "complete"}
ResumePCs == {"idle", "prepare", "acknowledge", "report", "reported"}
Calls(pcs) == [pc : pcs, attempt : Attempts \cup {NoAttempt}, token : Tokens,
               result : Results]
Call(pc, a, t, r) == [pc |-> pc, attempt |-> a, token |-> t, result |-> r]
Idle == Call("idle", NoAttempt, NoToken, NoResult)

-----------------------------------------------------------------------------
(* Batches.  Both sides cut a list of items, in source order, at multiples *)
(* of the batch size: the connector the manifest's additions, the backend  *)
(* the operation items that are not already present.                       *)

Slice(S, b) ==
  {i \in S : Cardinality({j \in S : j < i}) \in (b - 1) * BatchSize .. b * BatchSize - 1}

BatchCount == (Cardinality(adds) + BatchSize - 1) \div BatchSize

ManifestBatch(slot) == IF slot = CreateSlot THEN {} ELSE Slice(adds, slot)

ExpectedBatch(slot) == Slice({i \in Items : itemStatus[i] # "already-present"}, slot)

IsFinal(slot) == slot \in {CreateSlot, BatchCount}

PlannedSlots == (IF NewList THEN {CreateSlot} ELSE {}) \cup 1..BatchCount

-----------------------------------------------------------------------------
(* What the backend demands of a call.                                     *)

Authorized(t, purpose) ==
  /\ \E g \in Generations : grant[g] = "consumed"
  /\ t = token
  /\ opState # "cancelled"
  /\ IF purpose = "attempt" THEN ~writeExpired ELSE ~reconcileExpired

ConfirmedSlot(slot) == \E a \in Attempts : a.slot = slot /\ intent[a] \in Confirmed

(* Mutant: an intent does not wait for the batches before it.              *)
ValidIntentAnyOrder(a) ==
  \/ a.slot = CreateSlot /\ NewList
  \/ /\ a.slot \in 1..BatchCount
     /\ NewList => ConfirmedSlot(CreateSlot)
     /\ ManifestBatch(a.slot) = ExpectedBatch(a.slot)

ValidIntent(a) ==
  \/ a.slot = CreateSlot /\ NewList
  \/ /\ a.slot \in 1..BatchCount
     /\ NewList => ConfirmedSlot(CreateSlot)
     /\ \A s \in 1..(a.slot - 1) : ConfirmedSlot(s)
     /\ ManifestBatch(a.slot) = ExpectedBatch(a.slot)

(* Mutant: a second attempt id may prepare the same provider write.        *)
AnySlot(slot) == slot \in Slots

(* UNIQUE (operation_id, phase, sequence)                                  *)
SlotFree(slot) == \A a \in Attempts : a.slot = slot => intent[a] = "none"

(* An attempt id the backend knows is answered from its row.               *)
PrepareAttempt(a, t) ==
  /\ Authorized(t, "attempt")
  /\ \/ intent[a] # "none" /\ UNCHANGED intent
     \/ /\ opState = "running"
        /\ ~cancelRequested
        /\ SlotFree(a.slot)
        /\ ValidIntent(a)
        /\ intent' = [intent EXCEPT ![a] = "prepared"]

(* Mutant: the word the member left while it ran is forgotten.             *)
OnwardAnyway == "running"

(* A cancellation of a running operation takes effect with its next result.*)
Onward == IF cancelRequested THEN "cancelled" ELSE "running"

(* The operation's state after a report or a reconciliation.               *)
Refreshed(final, outcome, problem, status) ==
  LET failed == \E i \in Items : status[i] = "failed"
      processed == \A i \in Items : status[i] # "pending"
      unknown == \E i \in Items : status[i] = "outcome-unknown"
  IN IF outcome = "outcome-unknown" \/ unknown THEN "outcome-unknown"
     ELSE IF final /\ processed /\ ~failed THEN "completed"
     ELSE CASE problem = "cancelled"       -> "cancelled"
            [] problem = "action-required" -> "action-required"
            [] problem = "final"           -> "failed"
            [] problem = "retryable"       -> "partial-failure"
            [] problem = "none"            -> IF failed THEN "partial-failure" ELSE Onward

EndTransfer(state) ==
  transferState' = IF state \in Final THEN state ELSE transferState

RefreshOperation(slot, outcome, problem, status) ==
  LET state == Refreshed(IsFinal(slot), outcome, problem, status)
  IN /\ opState' = state
     /\ EndTransfer(state)
     /\ itemStatus' = status

ResultStatus(r) == [i \in Items |-> IF r.items[i] = "none" THEN itemStatus[i] ELSE r.items[i]]

Recorded(a) == report[a] # NoResult

IntentAfter(outcome) ==
  CASE outcome = "completed" -> "completed"
    [] outcome = "partial"   -> "partial"
    [] OTHER                 -> "unknown"

(* States in which a result may still be recorded.                         *)
MayRecord(outcome) ==
  opState = "running" \/ (opState = "outcome-unknown" /\ outcome = "outcome-unknown")

RecordAttempt(a, t, r) ==
  /\ Authorized(t, IF r.outcome = "outcome-unknown" THEN "reconciliation" ELSE "attempt")
  /\ \/ Recorded(a) /\ report[a] = r /\ UNCHANGED <<operation, ledger>>
     \/ /\ ~Recorded(a)
        /\ MayRecord(r.outcome)
        /\ intent[a] \in {"prepared", "expired"}
        /\ report' = [report EXCEPT ![a] = r]
        /\ intent' = [intent EXCEPT ![a] = IntentAfter(r.outcome)]
        /\ RefreshOperation(a.slot, r.outcome, r.problem, ResultStatus(r))
        /\ UNCHANGED <<cancelRequested, adds, reconciliation>>

(* Mutant: every item of the attempt, whatever is recorded of it.          *)
WholeBatch(a) == ManifestBatch(a.slot)

(* A reconciliation must cover exactly the items of the attempt that have  *)
(* no result yet; the connector's covers the whole batch it sealed.        *)
Unresolved(a) ==
  {i \in ManifestBatch(a.slot) : Recorded(a) => report[a].items[i] = "outcome-unknown"}

ReconciledIntent(outcome) ==
  CASE outcome = "completed" -> "reconciled-completed"
    [] outcome = "partial"   -> "reconciled-partial"
    [] OTHER                 -> "unknown"

(* Mutant: whatever the operation is waiting for.                          *)
ReconcilableAnytime(a) ==
  /\ intent[a] # "none"
  /\ reconciliation[a] \in {"none", "outcome-unknown"}

(* The operation must be waiting for it; the intent may be in any state.   *)
Reconcilable(a) ==
  /\ opState = "outcome-unknown"
  /\ intent[a] # "none"
  /\ reconciliation[a] \in {"none", "outcome-unknown"}

RecordReconciliation(a, t, r) ==
  /\ Authorized(t, "reconciliation")
  /\ Reconcilable(a)
  /\ Unresolved(a) = ManifestBatch(a.slot)
  /\ reconciliation' = [reconciliation EXCEPT ![a] = r.outcome]
  /\ intent' = [intent EXCEPT ![a] = ReconciledIntent(r.outcome)]
  /\ RefreshOperation(a.slot, r.outcome, "none", ResultStatus(r))
  /\ UNCHANGED <<cancelRequested, adds, report>>

-----------------------------------------------------------------------------
(* The member's plan, commands and grants.                                 *)

Init ==
  /\ opState = "none" /\ cancelRequested = FALSE /\ transferState = "draft"
  /\ adds = {} /\ itemStatus = [i \in Items |-> "pending"]
  /\ grant = [g \in Generations |-> "none"] /\ token = NoToken
  /\ writeExpired = FALSE /\ reconcileExpired = FALSE
  /\ intent = [a \in Attempts |-> "none"] /\ report = [a \in Attempts |-> NoResult]
  /\ reconciliation = [a \in Attempts |-> "none"]
  /\ spool = [a \in Attempts |-> "none"] /\ vault = NoToken /\ session = NoToken
  /\ live = Idle /\ resume = Idle
  /\ present \in (IF NewList THEN {{}} ELSE SUBSET Items)
  /\ listed = ~NewList
  /\ inflight = {} /\ writes = [a \in Attempts |-> 0]

(* The preview took the items of the observed target for already present;  *)
(* without an addition the operation is over at once.                      *)
Approve ==
  /\ opState = "none"
  /\ adds' = Items \ present
  /\ itemStatus' = [i \in Items |-> IF i \in present THEN "already-present" ELSE "pending"]
  /\ opState' = IF present = Items THEN "completed" ELSE "queued"
  /\ transferState' = IF present = Items THEN "completed" ELSE "approved"
  /\ UNCHANGED <<cancelRequested, authority, ledger, connector, live, resume, provider>>

(* Mutant: a new grant leaves the old one usable.                          *)
NotRevoked == grant

Revoked == [g \in Generations |-> IF grant[g] = "issued" THEN "revoked" ELSE grant[g]]

IssueGrant(g) ==
  /\ transferState = "approved" /\ opState = "queued" /\ ~cancelRequested
  /\ grant[g] = "none"
  /\ \A h \in 1..(g - 1) : grant[h] # "none"
  /\ grant' = [Revoked EXCEPT ![g] = "issued"]
  /\ UNCHANGED <<operation, token, writeExpired, reconcileExpired, ledger, connector,
                 live, resume, provider>>

(* Each consumption answers with a fresh receipt token that replaces the   *)
(* one before it.  The state of the operation is not asked for.            *)
Consume(g) ==
  /\ live.pc = "idle"
  /\ ~cancelRequested /\ opState # "cancelled"
  /\ token < MaxTokens
  /\ token' = token + 1
  /\ \/ /\ grant[g] = "issued"
        /\ grant' = [grant EXCEPT ![g] = "consumed"]
        /\ opState' = "running"
     \/ grant[g] = "consumed" /\ UNCHANGED <<grant, opState>>
  /\ live' = Call("authorized", NoAttempt, token', NoResult)
  /\ UNCHANGED <<cancelRequested, transferState, adds, itemStatus, writeExpired,
                 reconcileExpired, ledger, connector, resume, provider>>

AllowedActions ==
  IF opState = "outcome-unknown" THEN {"reconcile"}
  ELSE IF ~cancelRequested
            /\ opState \in {"queued", "running", "action-required", "partial-failure"}
       THEN {"cancel"}
  ELSE {}

(* Cancelling a running operation only leaves word for the connector.      *)
Cancel ==
  /\ "cancel" \in AllowedActions
  /\ cancelRequested' = TRUE
  /\ grant' = Revoked
  /\ \/ opState = "running" /\ UNCHANGED <<opState, transferState>>
     \/ opState # "running" /\ opState' = "cancelled" /\ transferState' = "cancelled"
  /\ UNCHANGED <<adds, itemStatus, token, writeExpired, reconcileExpired, ledger, connector,
                 live, resume, provider>>

(* The command asks for a reconciliation and takes a cancellation back.    *)
RequestReconciliation ==
  /\ "reconcile" \in AllowedActions
  /\ cancelRequested' = FALSE
  /\ UNCHANGED <<opState, transferState, adds, itemStatus, authority, ledger, connector,
                 live, resume, provider>>

-----------------------------------------------------------------------------
(* Time, and the worker that sweeps receipts.                              *)

WriteExpires ==
  /\ token # NoToken /\ ~writeExpired
  /\ writeExpired' = TRUE
  /\ UNCHANGED <<operation, grant, token, reconcileExpired, ledger, connector, live, resume,
                 provider>>

ReconcileExpires ==
  /\ writeExpired /\ ~reconcileExpired
  /\ reconcileExpired' = TRUE
  /\ UNCHANGED <<operation, grant, token, writeExpired, ledger, connector, live, resume,
                 provider>>

NotStarted == \A a \in Attempts : intent[a] # "prepared"

(* Mutant: an execution that wrote nothing is left to its connector.       *)
SweepNothing == FALSE /\ UNCHANGED <<opState, transferState, itemStatus, intent>>

SweepUnstarted ==
  /\ NotStarted
  /\ opState' = IF cancelRequested THEN "cancelled" ELSE "partial-failure"
  /\ EndTransfer(opState')
  /\ UNCHANGED <<itemStatus, intent>>

SweepPrepared(a) ==
  /\ intent[a] = "prepared"
  /\ intent' = [intent EXCEPT ![a] = "expired"]
  /\ itemStatus' = [i \in Items |->
       IF i \in ManifestBatch(a.slot) /\ itemStatus[i] = "pending"
       THEN "outcome-unknown" ELSE itemStatus[i]]
  /\ opState' = "outcome-unknown"
  /\ UNCHANGED transferState

Sweep ==
  /\ \E g \in Generations : grant[g] = "consumed"
  /\ writeExpired /\ opState = "running"
  /\ SweepUnstarted \/ \E a \in Attempts : SweepPrepared(a)
  /\ UNCHANGED <<cancelRequested, adds, authority, report, reconciliation, connector, live,
                 resume, provider>>

-----------------------------------------------------------------------------
(* The connector: authority.                                               *)

(* A vault that holds another token of this receipt refuses the new one.   *)
SealAuthorization ==
  /\ live.pc = "authorized"
  /\ ~writeExpired
  /\ vault = NoToken
  /\ vault' = live.token /\ session' = live.token
  /\ live' = Idle
  /\ UNCHANGED <<operation, authority, ledger, spool, resume, provider>>

Rehydrate ==
  /\ session = NoToken /\ vault # NoToken
  /\ ~reconcileExpired
  /\ session' = vault
  /\ UNCHANGED <<operation, authority, ledger, spool, vault, live, resume, provider>>

(* Mutant: a write that was sealed before is sealed again.                 *)
SealedAgain(a) == a.slot \in PlannedSlots

(* Fresh attempt ids are interchangeable, so they are used in order.       *)
Fresh(a) ==
  /\ a.slot \in PlannedSlots
  /\ spool[a] = "none"
  /\ \A b \in Attempts : b.slot = a.slot /\ b.try < a.try => spool[b] # "none"

(* createTargetListCommand, addItemsCommand: the local seal comes first.   *)
BeginWrite(a) ==
  /\ live.pc = "idle" /\ session # NoToken
  /\ ~writeExpired
  /\ a.slot # CreateSlot => listed
  /\ Fresh(a)
  /\ spool' = [spool EXCEPT ![a] = "sealed"]
  /\ live' = Call("prepare", a, session, NoResult)
  /\ UNCHANGED <<operation, authority, ledger, vault, session, resume, provider>>

PrepareWrite ==
  /\ live.pc = "prepare"
  /\ PrepareAttempt(live.attempt, live.token)
  /\ live' = [live EXCEPT !.pc = "acknowledge"]
  /\ UNCHANGED <<operation, authority, report, reconciliation, connector, resume, provider>>

(* Nothing is awaited between the acknowledgement and the provider call.   *)
AcknowledgeAndWrite ==
  LET a == live.attempt IN
  /\ live.pc = "acknowledge"
  /\ spool[a] = "sealed"
  /\ spool' = [spool EXCEPT ![a] = "prepared"]
  /\ inflight' = inflight \cup {a}
  /\ writes' = [writes EXCEPT ![a] = @ + 1]
  /\ live' = [live EXCEPT !.pc = "provider"]
  /\ UNCHANGED <<operation, authority, ledger, vault, session, resume, present, listed>>

-----------------------------------------------------------------------------
(* The provider, and what the connector makes of its answer.               *)

Answered(r) ==
  /\ live' = [live EXCEPT !.pc = "report", !.result = r]
  /\ UNCHANGED <<operation, authority, ledger, connector, resume, writes>>

ItemResults(batch, added, silent) == [i \in Items |->
  CASE i \notin batch -> "none"
    [] i \in batch /\ i \in silent -> "outcome-unknown"
    [] i \in batch \ silent /\ i \in present -> "already-present"
    [] i \in batch \ silent /\ i \in added -> "applied"
    [] OTHER -> "failed"]

(* Mutant: what was not refused is taken for done.                         *)
AssumedResult(a) == Result("completed", "none", [i \in Items |->
  IF i \in ManifestBatch(a.slot) THEN "applied" ELSE "none"])

UnknownResult(a) == Result("outcome-unknown", "none",
  ItemResults(ManifestBatch(a.slot), {}, ManifestBatch(a.slot)))

(* The list was created, or the items were added one by one.               *)
ProviderAnswers ==
  LET a == live.attempt
      batch == ManifestBatch(a.slot)
  IN /\ live.pc = "provider"
     /\ inflight' = inflight \ {a}
     /\ listed' = TRUE
     /\ \E added \in SUBSET (batch \ present), silent \in SUBSET batch :
          LET items == ItemResults(batch, added, silent)
              failed == \E i \in Items : items[i] = "failed"
          IN /\ present' = present \cup added
             /\ \E problem \in {"none", "final", "retryable"} :
                  /\ silent # {} => problem = "none"
                  /\ silent = {} /\ failed => problem # "none"
                  /\ ~failed => problem # "retryable"
                  /\ a.slot = CreateSlot => problem = "none"
                  /\ Answered(Result(IF silent # {} THEN "outcome-unknown"
                                     ELSE IF problem = "none" THEN "completed" ELSE "partial",
                                     problem, items))

(* A boundary of the provider: it refused before it wrote anything.        *)
ProviderRefuses ==
  LET a == live.attempt IN
  /\ live.pc = "provider"
  /\ inflight' = inflight \ {a}
  /\ \E problem \in Problems \ {"none"} :
       Answered(Result("partial", problem, [i \in Items |->
         IF i \in ManifestBatch(a.slot) THEN "failed" ELSE "none"]))
  /\ UNCHANGED <<present, listed>>

(* The connector stops waiting; the write may yet take effect.             *)
AnswerLost ==
  /\ live.pc = "provider"
  /\ Answered(UnknownResult(live.attempt))
  /\ UNCHANGED <<present, listed, inflight>>

LateEffect(a) ==
  /\ a \in inflight
  /\ ~(live.pc = "provider" /\ live.attempt = a)
  /\ inflight' = inflight \ {a}
  /\ \E added \in SUBSET (ManifestBatch(a.slot) \ present) : present' = present \cup added
  /\ listed' \in {listed, a.slot = CreateSlot \/ listed}
  /\ UNCHANGED <<operation, authority, ledger, connector, live, resume, writes>>

(* The member saves a place to the target list without this system.        *)
MemberAdds(i) ==
  /\ listed /\ i \notin present
  /\ present' = present \cup {i}
  /\ UNCHANGED <<operation, authority, ledger, connector, live, resume, listed, inflight,
                 writes>>

-----------------------------------------------------------------------------
(* The connector: reports, reconciliations, and its restart.               *)

ReportAttempt ==
  /\ live.pc = "report"
  /\ spool[live.attempt] \in {"prepared", "reported"}
  /\ RecordAttempt(live.attempt, live.token, live.result)
  /\ live' = [live EXCEPT !.pc = "reported"]
  /\ UNCHANGED <<authority, connector, resume, provider>>

AcknowledgeReported ==
  LET a == live.attempt IN
  /\ live.pc = "reported"
  /\ spool[a] = "prepared"
  /\ spool' = [spool EXCEPT ![a] = "reported"]
  /\ live' = IF live.result.outcome = "outcome-unknown" THEN Idle
             ELSE [live EXCEPT !.pc = "complete"]
  /\ UNCHANGED <<operation, authority, ledger, vault, session, resume, provider>>

CompleteEntry ==
  /\ live.pc = "complete"
  /\ spool[live.attempt] = "reported"
  /\ spool' = [spool EXCEPT ![live.attempt] = "completed"]
  /\ live' = Idle
  /\ UNCHANGED <<operation, authority, ledger, vault, session, resume, provider>>

(* The provider's list is read, and says of some items nothing certain;    *)
(* that a list was not created it never says.                              *)
Observation(a, silent) ==
  LET batch == ManifestBatch(a.slot)
      items == [i \in Items |-> CASE i \notin batch -> "none"
                                  [] i \in batch /\ i \in silent -> "outcome-unknown"
                                  [] i \in batch \ silent /\ i \in present -> "applied"
                                  [] OTHER -> "failed"]
  IN Result(CASE silent # {} -> "outcome-unknown"
              [] silent = {} /\ batch \subseteq present -> "completed"
              [] OTHER -> "partial", "none", items)

BeginReconcile(a) ==
  /\ live.pc = "idle" /\ session # NoToken
  /\ ~reconcileExpired
  /\ spool[a] = "reported"
  /\ \/ \E silent \in SUBSET ManifestBatch(a.slot) :
          /\ a.slot = CreateSlot => listed
          /\ live' = Call("reconcile", a, session, Observation(a, silent))
     \/ live' = Call("reconcile", a, session, UnknownResult(a))
  /\ UNCHANGED <<operation, authority, ledger, connector, resume, provider>>

ReportReconciliation ==
  /\ live.pc = "reconcile"
  /\ RecordReconciliation(live.attempt, live.token, live.result)
  /\ live' = IF live.result.outcome = "outcome-unknown" THEN Idle
             ELSE [live EXCEPT !.pc = "complete"]
  /\ UNCHANGED <<authority, connector, resume, provider>>

(* A call ends with an exception when a request is refused or lost, or its *)
(* answer is: what the backend has done by then stays done.                *)
Abandon ==
  /\ live.pc # "idle"
  /\ live' = Idle
  /\ UNCHANGED <<operation, authority, ledger, connector, resume, provider>>

Crash ==
  /\ session # NoToken
  /\ session' = NoToken /\ live' = Idle /\ resume' = Idle
  /\ UNCHANGED <<operation, authority, ledger, spool, vault, provider>>

(* resumePendingAttempts, entry by entry: a sealed write is prepared, and  *)
(* then reported as unknown, whether or not the provider was ever called.  *)
ResumeEntry(a) ==
  /\ resume.pc = "idle"
  /\ vault # NoToken /\ ~reconcileExpired
  /\ spool[a] \in {"sealed", "prepared"}
  /\ resume' = Call(IF spool[a] = "sealed" THEN "prepare" ELSE "report",
                    a, vault, UnknownResult(a))
  /\ UNCHANGED <<operation, authority, ledger, connector, live, provider>>

ResumePrepare ==
  /\ resume.pc = "prepare"
  /\ PrepareAttempt(resume.attempt, resume.token)
  /\ resume' = [resume EXCEPT !.pc = "acknowledge"]
  /\ UNCHANGED <<operation, authority, report, reconciliation, connector, live, provider>>

ResumeAcknowledge ==
  LET a == resume.attempt IN
  /\ resume.pc = "acknowledge"
  /\ spool[a] = "sealed"
  /\ spool' = [spool EXCEPT ![a] = "prepared"]
  /\ resume' = [resume EXCEPT !.pc = "report"]
  /\ UNCHANGED <<operation, authority, ledger, vault, session, live, provider>>

ResumeReport ==
  /\ resume.pc = "report"
  /\ RecordAttempt(resume.attempt, resume.token, resume.result)
  /\ resume' = [resume EXCEPT !.pc = "reported"]
  /\ UNCHANGED <<authority, connector, live, provider>>

ResumeReported ==
  LET a == resume.attempt IN
  /\ resume.pc = "reported"
  /\ spool[a] = "prepared"
  /\ spool' = [spool EXCEPT ![a] = "reported"]
  /\ resume' = Idle
  /\ UNCHANGED <<operation, authority, ledger, vault, session, live, provider>>

ResumeAbandon ==
  /\ resume.pc # "idle"
  /\ resume' = Idle
  /\ UNCHANGED <<operation, authority, ledger, connector, live, provider>>

-----------------------------------------------------------------------------
Backend ==
  \/ Approve \/ Cancel \/ RequestReconciliation
  \/ \E g \in Generations : IssueGrant(g) \/ Consume(g)
  \/ WriteExpires \/ ReconcileExpires \/ Sweep

Live ==
  \/ SealAuthorization \/ Rehydrate
  \/ \E a \in Attempts : BeginWrite(a) \/ BeginReconcile(a)
  \/ PrepareWrite \/ AcknowledgeAndWrite
  \/ ReportAttempt \/ AcknowledgeReported \/ CompleteEntry \/ ReportReconciliation
  \/ Abandon \/ Crash

Resume ==
  \/ \E a \in Attempts : ResumeEntry(a)
  \/ ResumePrepare \/ ResumeAcknowledge \/ ResumeReport \/ ResumeReported \/ ResumeAbandon

Provider ==
  \/ ProviderAnswers \/ ProviderRefuses \/ AnswerLost
  \/ \E a \in Attempts : LateEffect(a)
  \/ \E i \in Items : MemberAdds(i)

Next == Backend \/ Live \/ Resume \/ Provider

Spec == Init /\ [][Next]_vars

(* The transfer worker's loop sweeps before every claim, and time passes.  *)
FairSpec == Spec /\ WF_vars(Sweep) /\ WF_vars(WriteExpires)

-----------------------------------------------------------------------------
(* Properties.                                                             *)

(* Every variable keeps its shape.                                         *)
TypeOK ==
  /\ opState \in OpStates /\ cancelRequested \in BOOLEAN
  /\ transferState \in TransferStates
  /\ adds \in SUBSET Items /\ itemStatus \in [Items -> Statuses]
  /\ grant \in [Generations -> {"none", "issued", "consumed", "revoked"}]
  /\ token \in Tokens /\ writeExpired \in BOOLEAN /\ reconcileExpired \in BOOLEAN
  /\ intent \in [Attempts -> IntentStates] /\ report \in [Attempts -> Results]
  /\ reconciliation \in [Attempts -> Outcomes \cup {"none"}]
  /\ spool \in [Attempts -> {"none", "sealed", "prepared", "reported", "completed"}]
  /\ vault \in Tokens /\ session \in Tokens
  /\ live \in Calls(LivePCs) /\ resume \in Calls(ResumePCs)
  /\ present \in SUBSET Items /\ listed \in BOOLEAN
  /\ inflight \in SUBSET Attempts /\ writes \in [Attempts -> Nat]

(* A provider write of the plan is sent once, under one attempt id, by     *)
(* whatever mixture of retries, crashes and restarts.                      *)
WrittenOnce ==
  \A a, b \in Attempts :
    writes[a] > 0 /\ writes[b] > 0 /\ a.slot = b.slot => a = b /\ writes[a] = 1

(* The backend knows of a write before the provider does, so no write is   *)
(* forgotten when the connector never comes back; a write without a        *)
(* recorded result is open.                                                *)
WriteAhead ==
  \A a \in Attempts : writes[a] > 0 =>
    /\ spool[a] \notin {"none", "sealed"}
    /\ intent[a] # "none"
    /\ ~Recorded(a) /\ reconciliation[a] = "none" => intent[a] \in Open

(* What the operation counts as applied is at the provider: late answers,  *)
(* stale reports and restarts never make a place up.                       *)
AppliedIsPresent ==
  \A i \in Items : itemStatus[i] \in {"applied", "already-present"} =>
    opState = "none" \/ i \in present

(* "completed" is said only when every place of the plan is on the list.   *)
CompletedIsPresent == opState = "completed" => listed /\ present = Items

(* The sweeper settles one prepared intent of an operation: there is never *)
(* a second one.                                                           *)
OneOpenIntent ==
  \A a, b \in Attempts :
    intent[a] \in {"prepared", "expired"} /\ intent[b] \in {"prepared", "expired"} => a = b

(* The operation and its transfer are written by different handlers; they  *)
(* end together.                                                           *)
TransferFollowsOperation ==
  transferState = CASE opState = "none" -> "draft"
                    [] opState \in Final -> opState
                    [] OTHER -> "approved"

(* However many grants are issued, one of them is ever spent.              *)
OneConsumedGrant ==
  \A g, h \in Generations : grant[g] = "consumed" /\ grant[h] = "consumed" => g = h

(* "outcome-unknown" always has something to reconcile, and an item whose  *)
(* fate is unknown keeps the operation there.                              *)
UnknownHasEvidence ==
  /\ opState = "outcome-unknown" => \E a \in Attempts : intent[a] \in {"unknown", "expired"}
  /\ (\E i \in Items : itemStatus[i] = "outcome-unknown") => opState = "outcome-unknown"

(* The ledger tells one story to all of its writers: well typed rows, no   *)
(* write ahead of its intent, one intent open, one end for operation and   *)
(* transfer.                                                               *)
LedgerAgrees == TypeOK /\ WriteAhead /\ OneOpenIntent /\ TransferFollowsOperation

(* What the member is told of his list is what is at the provider, or that *)
(* nobody knows.                                                           *)
OutcomesAgree == AppliedIsPresent /\ CompletedIsPresent /\ UnknownHasEvidence

(* Nothing happens to a transfer before its grant is consumed.             *)
QuietBeforeConsumption ==
  opState \in {"none", "queued"} =>
    /\ \A g \in Generations : grant[g] # "consumed"
    /\ \A a \in Attempts : intent[a] = "none"
    /\ vault = NoToken /\ session = NoToken /\ live = Idle /\ resume = Idle

(* A grant may be issued before anything runs; the one that was consumed   *)
(* leaves none that still could be.                                        *)
OneUsableGrant ==
  /\ \A g, h \in Generations :
       grant[g] \in {"issued", "consumed"} /\ grant[h] \in {"issued", "consumed"} => g = h
  /\ \A g \in Generations : grant[g] = "issued" => opState = "queued"

(* One attempt has the intent of a provider write, which is of the plan,   *)
(* and no write has one before all writes that come first.                 *)
IntentsInOrder ==
  /\ \A a \in Attempts : intent[a] # "none" /\ a.slot = CreateSlot => NewList
  /\ \A a, b \in Attempts :
       intent[a] # "none" /\ intent[b] # "none" /\ a.slot = b.slot => a = b
  /\ \A a \in Attempts, s \in Slots :
       intent[a] # "none" /\ s < a.slot /\ (s = CreateSlot => NewList) =>
         \E b \in Attempts : b.slot = s /\ intent[b] # "none"

(* A result of an attempt is about the items of its batch, and claims no   *)
(* place that is not at the provider.                                      *)
Truthful(r, batch, there) ==
  /\ r.outcome \in Outcomes
  /\ \A i \in Items : r.items[i] = "none" <=> i \notin batch
  /\ \A i \in Items : r.items[i] = "outcome-unknown" => r.outcome = "outcome-unknown"
  /\ \A i \in Items : r.items[i] \in {"applied", "already-present"} => i \in there

ResultsAreTruthful ==
  /\ \A a \in Attempts : Recorded(a) => Truthful(report[a], ManifestBatch(a.slot), present)
  /\ live.pc \in {"report", "reported", "reconcile", "complete"} =>
       Truthful(live.result, ManifestBatch(live.attempt.slot), present)
  /\ resume.pc # "idle" =>
       Truthful(resume.result, ManifestBatch(resume.attempt.slot), present)

(* Calls are about attempts, the write of one that the backend knows.      *)
CallsAreKnown ==
  /\ live.pc \notin {"idle", "authorized"} => live.attempt \in Attempts
  /\ resume.pc # "idle" => resume.attempt \in Attempts
  /\ live.pc \in {"acknowledge", "provider"} => intent[live.attempt] # "none"

(* The state of an intent repeats the result or the reconciliation that    *)
(* gave it.                                                                *)
IntentsTell ==
  \A a \in Attempts :
    /\ Recorded(a) => intent[a] # "none"
    /\ intent[a] \in {"completed", "partial"} => Recorded(a) /\ report[a].outcome = intent[a]
    /\ intent[a] = "reconciled-completed" => reconciliation[a] = "completed"
    /\ intent[a] = "reconciled-partial" => reconciliation[a] = "partial"

(* Places are written only to a list that exists.                          *)
WrittenToList ==
  /\ present # {} => listed
  /\ \A a \in inflight : a.slot # CreateSlot => listed
  /\ live.pc \in {"prepare", "acknowledge", "provider"} /\ live.attempt.slot # CreateSlot =>
       listed

(* An item of which nothing is known belongs to an attempt of which        *)
(* nothing is known.                                                       *)
UnknownIsOpen ==
  \A i \in Items : itemStatus[i] = "outcome-unknown" =>
    \E a \in Attempts : intent[a] \in {"unknown", "expired"} /\ i \in ManifestBatch(a.slot)

(* The whole of it, as the proofs need it: what backend, connector and     *)
(* provider know of one transfer fits together between any two of their    *)
(* steps.                                                                  *)
OutboundInv ==
  /\ LedgerAgrees /\ OutcomesAgree /\ WrittenOnce /\ OneConsumedGrant
  /\ QuietBeforeConsumption /\ OneUsableGrant /\ IntentsInOrder /\ ResultsAreTruthful
  /\ CallsAreKnown /\ IntentsTell /\ WrittenToList /\ UnknownIsOpen

(* A finished operation is never reopened, nor its transfer.               *)
FinalIsFinal ==
  [][(opState \in Final) => (opState' = opState /\ transferState' = transferState)]_vars

(* An attempt that has its result, or a reconciliation that left nothing   *)
(* open, has settled its items for good: no late report, restart or second *)
(* reconciliation rewrites them.                                           *)
SettledItemsStay ==
  [][\A a \in Attempts : intent[a] \in Confirmed \cup {"partial", "reconciled-partial"} =>
       \A i \in ManifestBatch(a.slot) : itemStatus'[i] = itemStatus[i]]_vars

(* A running execution comes to rest, with or without its connector.       *)
RunningSettles == opState = "running" ~> opState # "running"

(* The transfers README says the approved plan is frozen as a manifest of  *)
(* a fixed target and order: the batch the backend expects next is the     *)
(* batch the manifest holds.                                               *)
FrozenManifest ==
  opState = "running" =>
    \A slot \in 1..BatchCount : SlotFree(slot) => ManifestBatch(slot) = ExpectedBatch(slot)

(* The transfers README says an unknown outcome advances by reconciliation *)
(* observations: one the connector can send is one the backend takes.      *)
UnknownCanAdvance ==
  \A a \in Attempts :
    intent[a] = "unknown" /\ Reconcilable(a) => Unresolved(a) = ManifestBatch(a.slot)
=============================================================================
