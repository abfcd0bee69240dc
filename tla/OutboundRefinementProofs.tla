---------------------- MODULE OutboundRefinementProofs ----------------------
(* OutboundExecution keeps OutboundPromise for every number of items,      *)
(* batches, tries, grants and receipt tokens.                              *)
EXTENDS OutboundRefinement, OutboundExecutionProofs

-----------------------------------------------------------------------------
(* What one step does to the operation, to the intents and to the list.    *)

(* The backend takes a result of an attempt, by a report or a              *)
(* reconciliation.                                                         *)
Takes(a, r, problem, x) ==
  /\ opState \in {"running", "outcome-unknown"}
  /\ intent[a] # "none" /\ (ManifestBatch(a.slot) # {} => intent[a] \in Open)
  /\ RefreshOperation(a.slot, r.outcome, problem, ResultStatus(r))
  /\ intent' = [intent EXCEPT ![a] = x]
  /\ x \in {"completed", "partial", "reconciled-completed", "reconciled-partial", "unknown"}
  /\ x = "unknown" <=> r.outcome = "outcome-unknown"
  /\ UNCHANGED <<cancelRequested, adds, present>>

TakesResult ==
  \E a \in Attempts, r \in Results, problem \in Problems, x \in IntentStates :
    /\ Truthful(r, ManifestBatch(a.slot), present) /\ TellsDoubt(r, ManifestBatch(a.slot))
    /\ Takes(a, r, problem, x)

(* Nothing of the operation moves; the list grows at most, or an intent is *)
(* prepared.                                                               *)
Rests ==
  /\ UNCHANGED operation
  /\ \/ intent' = intent /\ present \subseteq present' /\ present' \subseteq Items
     \/ /\ UNCHANGED present
        /\ \E a \in Attempts : intent[a] = "none" /\ intent' = [intent EXCEPT ![a] = "prepared"]

LEMMA PreparingRests ==
  ASSUME TypeOK, NEW a \in Attempts, NEW t, PrepareAttempt(a, t), UNCHANGED <<operation, present>>
  PROVE  Rests
<1>1. CASE UNCHANGED intent
  BY <1>1 DEF Rests, TypeOK
<1>2. CASE SlotFree(a.slot) /\ intent' = [intent EXCEPT ![a] = "prepared"]
  BY <1>2 DEF Rests, SlotFree
<1> QED BY <1>1, <1>2 DEF PrepareAttempt

LEMMA ReportTakes ==
  ASSUME OutboundInv, NEW a \in Attempts, NEW r \in Results, NEW t, RecordAttempt(a, t, r),
         Truthful(r, ManifestBatch(a.slot), present), TellsDoubt(r, ManifestBatch(a.slot)),
         UNCHANGED present
  PROVE  Rests \/ TakesResult
<1>0. TypeOK
  BY DEF OutboundInv, LedgerAgrees
<1>1. CASE UNCHANGED <<operation, ledger>>
  BY <1>0, <1>1 DEF Rests, ledger, TypeOK
<1>2. CASE /\ MayRecord(r.outcome) /\ intent[a] \in {"prepared", "expired"}
           /\ intent' = [intent EXCEPT ![a] = IntentAfter(r.outcome)]
           /\ RefreshOperation(a.slot, r.outcome, r.problem, ResultStatus(r))
           /\ UNCHANGED <<cancelRequested, adds, reconciliation>>
  <2> DEFINE x == IntentAfter(r.outcome)
  <2>1. r.problem \in Problems /\ r.outcome \in Outcomes
    BY DEF Results, Truthful
  <2>2. /\ x \in {"completed", "partial", "unknown"}
        /\ x = "unknown" <=> r.outcome = "outcome-unknown"
    BY <2>1 DEF IntentAfter, Outcomes
  <2> HIDE DEF x
  <2>3. Takes(a, r, r.problem, x)
    BY <1>2, <2>2 DEF Takes, MayRecord, Open, x
  <2>4. x \in IntentStates
    BY <2>2 DEF IntentStates, Open, Confirmed
  <2> QED BY <2>1, <2>3, <2>4 DEF TakesResult
<1> QED BY <1>1, <1>2 DEF RecordAttempt

LEMMA ReconciliationTakes ==
  ASSUME OutboundInv, NEW a \in Attempts, NEW r \in Results, NEW t, RecordReconciliation(a, t, r),
         Truthful(r, ManifestBatch(a.slot), present), TellsDoubt(r, ManifestBatch(a.slot)),
         UNCHANGED present
  PROVE  TakesResult
<1> DEFINE x == ReconciledIntent(r.outcome)
<1>1. /\ intent[a] # "none" /\ reconciliation[a] \in {"none", "outcome-unknown"}
      /\ opState = "outcome-unknown" /\ Unresolved(a) = ManifestBatch(a.slot)
      /\ intent' = [intent EXCEPT ![a] = x]
      /\ RefreshOperation(a.slot, r.outcome, "none", ResultStatus(r))
      /\ UNCHANGED <<cancelRequested, adds, report>>
  BY DEF RecordReconciliation, Reconcilable
<1>2. r.outcome \in Outcomes
  BY DEF Truthful
<1>3. /\ x \in {"reconciled-completed", "reconciled-partial", "unknown"}
      /\ x = "unknown" <=> r.outcome = "outcome-unknown"
  BY <1>2 DEF ReconciledIntent, Outcomes
<1>4. ManifestBatch(a.slot) # {} => intent[a] \in Open
  <2> SUFFICES ASSUME NEW i \in ManifestBatch(a.slot), intent[a] \notin Open PROVE FALSE
    OBVIOUS
  <2>0. TypeOK
    BY DEF OutboundInv, LedgerAgrees
  <2>1. intent[a] \in {"completed", "partial"}
    BY <1>1, <2>0 DEF OutboundInv, IntentsTell, TypeOK, IntentStates, Confirmed
  <2>2. Recorded(a) /\ report[a].outcome # "outcome-unknown"
    BY <2>1 DEF OutboundInv, IntentsTell
  <2>3. report[a].items[i] = "outcome-unknown" /\ i \in Items
    BY <1>1, <2>0, <2>2, BatchesAreItems DEF Unresolved, ManifestBatch, TypeOK
  <2> QED BY <2>2, <2>3 DEF OutboundInv, ResultsAreTruthful, Truthful
<1> HIDE DEF x
<1>5. Takes(a, r, "none", x) /\ x \in IntentStates
  BY <1>1, <1>3, <1>4 DEF Takes, IntentStates, Open, Confirmed
<1> QED BY <1>5 DEF TakesResult, Problems

(* What a step may be, seen from the member's side.                        *)
LEMMA StepCases ==
  ASSUME OutboundInv, DoubtIsKnown, [Next]_vars
  PROVE  \/ Rests \/ TakesResult \/ Approve \/ Cancel \/ RequestReconciliation \/ Sweep
         \/ \E g \in Generations : Consume(g)
<1>1. TypeOK /\ LiveKnown /\ ResumeKnown
  BY CallsKnown DEF OutboundInv, LedgerAgrees
<1>2. live.result \in Results /\ resume.result \in Results /\ present \subseteq Items
  BY <1>1 DEF TypeOK, Calls
<1>3. ASSUME UNCHANGED <<operation, ledger, present>> PROVE Rests
  BY <1>1, <1>3 DEF Rests, ledger, TypeOK
<1>4. CASE Backend
  BY <1>3, <1>4 DEF Backend, IssueGrant, WriteExpires, ReconcileExpires, provider
<1>5. CASE Live
  <2>1. CASE PrepareWrite
    BY <1>1, <2>1, PreparingRests DEF PrepareWrite, LiveKnown, provider
  <2>2. CASE ReportAttempt
    BY <1>1, <1>2, <2>2, ReportTakes DEF ReportAttempt, LiveKnown, DoubtIsKnown, provider
  <2>3. CASE ReportReconciliation
    BY <1>1, <1>2, <2>3, ReconciliationTakes
       DEF ReportReconciliation, LiveKnown, DoubtIsKnown, provider
  <2> QED BY <1>3, <1>5, <2>1, <2>2, <2>3 DEF Live, SealAuthorization, Rehydrate, BeginWrite,
     BeginReconcile, AcknowledgeAndWrite, AcknowledgeReported, CompleteEntry, Abandon, Crash,
     provider
<1>6. CASE Resume
  <2>1. CASE ResumePrepare
    BY <1>1, <2>1, PreparingRests DEF ResumePrepare, ResumeKnown, provider
  <2>2. CASE ResumeReport
    BY <1>1, <1>2, <2>2, ReportTakes DEF ResumeReport, ResumeKnown, DoubtIsKnown, provider
  <2> QED BY <1>3, <1>6, <2>1, <2>2 DEF Resume, ResumeEntry, ResumeAcknowledge, ResumeReported,
     ResumeAbandon, provider
<1>7. CASE Provider
  <2>1. TypeOK'
    BY StepKeeps DEF OutboundInv, LedgerAgrees
  <2>2. UNCHANGED <<operation, intent>> /\ present \subseteq present'
    BY <1>7 DEF Provider, ProviderAnswers, ProviderRefuses, AnswerLost, Answered, LateEffect,
       MemberAdds, ledger
  <2> QED BY <2>1, <2>2 DEF Rests, TypeOK
<1>8. CASE UNCHANGED vars
  BY <1>3, <1>8 DEF vars, provider
<1> QED BY <1>4, <1>5, <1>6, <1>7, <1>8 DEF Next

-----------------------------------------------------------------------------
(* What is in doubt, and who knows of it.                                  *)

(* The part of DoubtIsKnown that is about the backend's rows.              *)
RowsKnown ==
  /\ \A a \in Attempts : intent[a] \in {"expired", "unknown"} /\ ManifestBatch(a.slot) # {} =>
       \E i \in ManifestBatch(a.slot) : itemStatus[i] = "outcome-unknown"
  /\ \A i \in adds : itemStatus[i] # "pending" =>
       \E a \in Attempts : intent[a] \notin {"none", "prepared"} /\ i \in ManifestBatch(a.slot)
  /\ \A i \in Items \ adds : itemStatus[i] # "pending" => itemStatus[i] = "already-present"

(* The items of an intent that was prepared only are pending.              *)
LEMMA PreparedIsPending ==
  ASSUME OutboundInv, RowsKnown, NEW a \in Attempts, intent[a] = "prepared",
         NEW i \in ManifestBatch(a.slot)
  PROVE  i \in Items /\ itemStatus[i] = "pending"
<1>1. i \in adds /\ i \in Items
  BY BatchesAreItems DEF ManifestBatch, OutboundInv, LedgerAgrees, TypeOK
<1> QED BY <1>1, OthersAreElsewhere DEF RowsKnown

LEMMA RowsStay ==
  ASSUME OutboundInv, RowsKnown, UNCHANGED <<adds, itemStatus>>,
         \/ intent' = intent
         \/ \E a \in Attempts : intent[a] = "none" /\ intent' = [intent EXCEPT ![a] = "prepared"]
  PROVE  RowsKnown'
<1>1. intent \in [Attempts -> IntentStates]
  BY DEF OutboundInv, LedgerAgrees, TypeOK
<1>2. \A b \in Attempts : intent'[b] \notin {"none", "prepared"} \/ intent[b] \notin {"none", "prepared"} =>
                            intent'[b] = intent[b]
  BY <1>1
<1>3. \A slot : ManifestBatch(slot)' = ManifestBatch(slot)
  BY BatchesStay
<1> QED BY <1>2, <1>3 DEF RowsKnown

LEMMA ApproveKnown ==
  ASSUME OutboundInv, Approve
  PROVE  RowsKnown'
<1>1. \A a \in Attempts : intent'[a] = "none"
  BY DEF Approve, OutboundInv, QuietBeforeConsumption, ledger
<1>2. adds' = Items \ present /\ \A i \in Items : 
        itemStatus'[i] = IF i \in present THEN "already-present" ELSE "pending"
  BY DEF Approve
<1> QED BY <1>1, <1>2 DEF RowsKnown

(* The sweeper finds nothing but pending items in the batch it gives up.   *)
LEMMA SweepKnown ==
  ASSUME OutboundInv, RowsKnown, Sweep
  PROVE  RowsKnown'
<1>1. CASE SweepUnstarted
  BY <1>1, RowsStay DEF Sweep, SweepUnstarted
<1>2. ASSUME NEW a \in Attempts, SweepPrepared(a)
      PROVE  RowsKnown'
  <2> DEFINE batch == ManifestBatch(a.slot)
  <2>1. /\ intent[a] = "prepared" /\ intent' = [intent EXCEPT ![a] = "expired"] /\ adds' = adds
        /\ itemStatus' = [i \in Items |->
             IF i \in batch /\ itemStatus[i] = "pending" THEN "outcome-unknown" ELSE itemStatus[i]]
        /\ intent \in [Attempts -> IntentStates]
    BY <1>2 DEF Sweep, SweepPrepared, OutboundInv, LedgerAgrees, TypeOK
  <2>2. intent'[a] = "expired" /\ \A b \in Attempts : b # a => intent'[b] = intent[b]
    BY <2>1
  <2>3. \A slot : ManifestBatch(slot)' = ManifestBatch(slot)
    BY <2>1, BatchesStay
  <2>4. \A i \in batch : i \in Items /\ i \in adds /\ itemStatus'[i] = "outcome-unknown"
    BY <2>1, PreparedIsPending, BatchesAreItems
       DEF ManifestBatch, OutboundInv, LedgerAgrees, TypeOK
  <2>5. \A i \in Items : i \notin batch => itemStatus'[i] = itemStatus[i]
    BY <2>1
  <2>6. \A b \in Attempts : \A i \in ManifestBatch(b.slot) :
          b # a /\ intent[b] # "none" => i \notin batch /\ i \in Items
    <3>1. \A b \in Attempts : ManifestBatch(b.slot) \subseteq Items
      BY BatchesAreItems DEF ManifestBatch, OutboundInv, LedgerAgrees, TypeOK
    <3> QED BY <2>1, <3>1, OthersAreElsewhere
  <2> HIDE DEF batch
  <2>7. \A b \in Attempts : intent'[b] \in {"expired", "unknown"} /\ ManifestBatch(b.slot) # {} =>
          \E i \in ManifestBatch(b.slot) : itemStatus'[i] = "outcome-unknown"
    <3> SUFFICES ASSUME NEW b \in Attempts, intent'[b] \in {"expired", "unknown"},
                        ManifestBatch(b.slot) # {}
                 PROVE  \E i \in ManifestBatch(b.slot) : itemStatus'[i] = "outcome-unknown"
      OBVIOUS
    <3>1. CASE b = a
      BY <2>4, <3>1 DEF batch
    <3>2. CASE b # a
      <4>1. PICK i \in ManifestBatch(b.slot) : itemStatus[i] = "outcome-unknown"
        BY <2>2, <3>2 DEF RowsKnown
      <4> QED BY <2>2, <2>5, <2>6, <3>2, <4>1
    <3> QED BY <3>1, <3>2
  <2>8. \A i \in adds : itemStatus'[i] # "pending" =>
          \E b \in Attempts : intent'[b] \notin {"none", "prepared"} /\ i \in ManifestBatch(b.slot)
    <3> SUFFICES ASSUME NEW i \in adds, itemStatus'[i] # "pending"
                 PROVE  \E b \in Attempts : /\ intent'[b] \notin {"none", "prepared"}
                                            /\ i \in ManifestBatch(b.slot)
      OBVIOUS
    <3>1. CASE i \in batch
      BY <2>2, <3>1 DEF batch
    <3>2. CASE i \notin batch
      <4>1. itemStatus[i] # "pending"
        BY <2>5, <3>2 DEF OutboundInv, LedgerAgrees, TypeOK
      <4>2. PICK b \in Attempts : intent[b] \notin {"none", "prepared"} /\ i \in ManifestBatch(b.slot)
        BY <4>1 DEF RowsKnown
      <4> QED BY <2>1, <2>2, <4>2
    <3> QED BY <3>1, <3>2
  <2>9. \A i \in Items \ adds : itemStatus'[i] # "pending" => itemStatus'[i] = "already-present"
    BY <2>4, <2>5 DEF RowsKnown
  <2> QED BY <2>1, <2>3, <2>7, <2>8, <2>9 DEF RowsKnown
<1> QED BY <1>1, <1>2 DEF Sweep

(* What a result changes: the rows of its batch and its own intent.        *)
LEMMA TakesRows ==
  ASSUME OutboundInv, NEW a \in Attempts, NEW r \in Results, NEW problem, NEW x,
         Truthful(r, ManifestBatch(a.slot), present), Takes(a, r, problem, x)
  PROVE  /\ \A slot : ManifestBatch(slot)' = ManifestBatch(slot)
         /\ intent'[a] = x /\ \A b \in Attempts : b # a => intent'[b] = intent[b]
         /\ itemStatus' \in [Items -> Statuses] /\ ManifestBatch(a.slot) \subseteq adds
         /\ \A i \in Items : i \notin ManifestBatch(a.slot) => itemStatus'[i] = itemStatus[i]
         /\ \A i \in ManifestBatch(a.slot) :
              i \in Items /\ itemStatus'[i] = r.items[i] /\ itemStatus'[i] # "pending"
<1>1. TypeOK
  BY DEF OutboundInv, LedgerAgrees
<1>2. /\ itemStatus' = ResultStatus(r) /\ adds' = adds
      /\ intent' = [intent EXCEPT ![a] = x] /\ intent \in [Attempts -> IntentStates]
  BY <1>1 DEF Takes, RefreshOperation, TypeOK
<1>3. \A slot : ManifestBatch(slot)' = ManifestBatch(slot)
  BY <1>2, BatchesStay
<1>4. intent'[a] = x /\ \A b \in Attempts : b # a => intent'[b] = intent[b]
  BY <1>2
<1>5. ManifestBatch(a.slot) \subseteq adds /\ ManifestBatch(a.slot) \subseteq Items
  BY <1>1, BatchesAreItems DEF ManifestBatch, TypeOK
<1>6. /\ itemStatus' \in [Items -> Statuses]
      /\ \A i \in Items : i \notin ManifestBatch(a.slot) => itemStatus'[i] = itemStatus[i]
      /\ \A i \in Items : i \in ManifestBatch(a.slot) =>
           itemStatus'[i] = r.items[i] /\ r.items[i] # "none"
  BY <1>1, <1>2, StatusAfterResult
<1>7. \A i \in Items : r.items[i] # "pending"
  BY DEF Results, Settled
<1> QED BY <1>3, <1>4, <1>5, <1>6, <1>7

LEMMA TakesKnown ==
  ASSUME OutboundInv, RowsKnown, TakesResult
  PROVE  RowsKnown'
<1>1. PICK a \in Attempts, r \in Results, problem \in Problems, x \in IntentStates :
        /\ Truthful(r, ManifestBatch(a.slot), present) /\ TellsDoubt(r, ManifestBatch(a.slot))
        /\ Takes(a, r, problem, x)
  BY DEF TakesResult
<1> DEFINE batch == ManifestBatch(a.slot)
<1>2. /\ \A slot : ManifestBatch(slot)' = ManifestBatch(slot)
      /\ intent'[a] = x /\ \A b \in Attempts : b # a => intent'[b] = intent[b]
      /\ batch \subseteq adds
      /\ \A i \in Items : i \notin batch => itemStatus'[i] = itemStatus[i]
      /\ \A i \in batch : i \in Items /\ itemStatus'[i] = r.items[i] /\ itemStatus'[i] # "pending"
  BY <1>1, TakesRows
<1>3. /\ x \notin {"none", "prepared", "expired"} /\ intent[a] # "none" /\ adds' = adds
      /\ x = "unknown" => r.outcome = "outcome-unknown"
  BY <1>1 DEF Takes
<1>4. \A b \in Attempts : \A i \in ManifestBatch(b.slot) :
        b # a /\ intent[b] # "none" => i \notin batch /\ i \in Items
  <2>1. \A b \in Attempts : ManifestBatch(b.slot) \subseteq Items
    BY BatchesAreItems DEF ManifestBatch, OutboundInv, LedgerAgrees, TypeOK
  <2> QED BY <1>3, <2>1, OthersAreElsewhere
<1>5. \A b \in Attempts : intent'[b] \in {"expired", "unknown"} /\ ManifestBatch(b.slot) # {} =>
        \E i \in ManifestBatch(b.slot) : itemStatus'[i] = "outcome-unknown"
  <2> SUFFICES ASSUME NEW b \in Attempts, intent'[b] \in {"expired", "unknown"},
                      ManifestBatch(b.slot) # {}
               PROVE  \E i \in ManifestBatch(b.slot) : itemStatus'[i] = "outcome-unknown"
    OBVIOUS
  <2>1. CASE b = a
    BY <1>1, <1>2, <1>3, <2>1 DEF TellsDoubt
  <2>2. CASE b # a
    <3>1. PICK i \in ManifestBatch(b.slot) : itemStatus[i] = "outcome-unknown"
      BY <1>2, <2>2 DEF RowsKnown
    <3> HIDE DEF batch
    <3> QED BY <1>2, <1>4, <2>2, <3>1
  <2> QED BY <2>1, <2>2
<1>6. \A i \in adds : itemStatus'[i] # "pending" =>
        \E b \in Attempts : intent'[b] \notin {"none", "prepared"} /\ i \in ManifestBatch(b.slot)
  <2> SUFFICES ASSUME NEW i \in adds, itemStatus'[i] # "pending"
               PROVE  \E b \in Attempts : /\ intent'[b] \notin {"none", "prepared"}
                                          /\ i \in ManifestBatch(b.slot)
    OBVIOUS
  <2>1. CASE i \in batch
    BY <1>2, <1>3, <2>1
  <2>2. CASE i \notin batch
    <3>1. itemStatus[i] # "pending"
      BY <1>2, <2>2 DEF OutboundInv, LedgerAgrees, TypeOK
    <3>2. PICK b \in Attempts : intent[b] \notin {"none", "prepared"} /\ i \in ManifestBatch(b.slot)
      BY <3>1 DEF RowsKnown
    <3> QED BY <1>2, <1>3, <3>2
  <2> QED BY <2>1, <2>2
<1>7. \A i \in Items \ adds : itemStatus'[i] # "pending" => itemStatus'[i] = "already-present"
  <2> HIDE DEF batch
  <2> QED BY <1>2 DEF RowsKnown
<1> HIDE DEF batch
<1> QED BY <1>2, <1>3, <1>5, <1>6, <1>7 DEF RowsKnown

(* What the two calls under way are about to report.                       *)
LiveTells ==
  live.pc \in {"report", "reported", "reconcile", "complete"} =>
    TellsDoubt(live.result, ManifestBatch(live.attempt.slot))

ResumeTells ==
  resume.pc # "idle" => TellsDoubt(resume.result, ManifestBatch(resume.attempt.slot))

LEMMA KnownParts == DoubtIsKnown <=> RowsKnown /\ LiveTells /\ ResumeTells
BY DEF DoubtIsKnown, RowsKnown, LiveTells, ResumeTells

LEMMA UnknownTells ==
  ASSUME NEW a \in Attempts, adds \subseteq Items
  PROVE  TellsDoubt(UnknownResult(a), ManifestBatch(a.slot))
<1>1. ManifestBatch(a.slot) \subseteq Items
  BY BatchesAreItems DEF ManifestBatch
<1>2. \A i \in ManifestBatch(a.slot) : UnknownResult(a).items[i] = "outcome-unknown"
  BY <1>1 DEF UnknownResult, Result, ItemResults
<1> QED BY <1>2 DEF TellsDoubt

LEMMA ObservationTells ==
  ASSUME NEW a \in Attempts, adds \subseteq Items, NEW silent \in SUBSET ManifestBatch(a.slot)
  PROVE  TellsDoubt(Observation(a, silent), ManifestBatch(a.slot))
<1>1. ManifestBatch(a.slot) \subseteq Items
  BY BatchesAreItems DEF ManifestBatch
<1>2. Observation(a, silent).outcome = "outcome-unknown" => silent # {}
  BY DEF Observation, Result
<1>3. \A i \in silent : Observation(a, silent).items[i] = "outcome-unknown"
  <2> SUFFICES ASSUME NEW i \in silent
               PROVE  Observation(a, silent).items[i] = "outcome-unknown"
    OBVIOUS
  <2>1. i \in Items /\ i \in ManifestBatch(a.slot)
    BY <1>1
  <2> DEFINE batch == ManifestBatch(a.slot)
             items == [j \in Items |-> CASE j \notin batch -> "none"
                                         [] j \in batch /\ j \in silent -> "outcome-unknown"
                                         [] j \in batch \ silent /\ j \in present -> "applied"
                                         [] OTHER -> "failed"]
  <2>2. Observation(a, silent).items = items
    BY DEF Observation, Result
  <2>3. i \in batch
    BY <2>1
  <2>4. items[i] = "outcome-unknown"
    <3> HIDE DEF batch
    <3> QED BY <2>1, <2>3
  <2> QED BY <2>2, <2>4
<1> QED BY <1>2, <1>3 DEF TellsDoubt

LEMMA AnswerTells ==
  ASSUME OutboundInv, ProviderAnswers
  PROVE  TellsDoubt(live'.result, ManifestBatch(live'.attempt.slot))
<1> DEFINE a == live.attempt
           batch == ManifestBatch(a.slot)
<1>1. live \in Calls(LivePCs) /\ a \in Attempts /\ batch \subseteq Items
  BY CallsKnown, BatchesAreItems
     DEF ProviderAnswers, LiveKnown, ManifestBatch, OutboundInv, LedgerAgrees, TypeOK
<1>2. PICK added \in SUBSET (batch \ present), silent \in SUBSET batch,
           problem \in {"none", "final", "retryable"} :
        Answered(Result(IF silent # {} THEN "outcome-unknown"
                        ELSE IF problem = "none" THEN "completed" ELSE "partial",
                        problem, ItemResults(batch, added, silent)))
  BY DEF ProviderAnswers
<1> DEFINE items == ItemResults(batch, added, silent)
<1>3. \A i \in silent : items[i] = "outcome-unknown"
  <2> HIDE DEF batch
  <2> QED BY <1>1, <1>2 DEF ItemResults
<1> HIDE DEF items, batch
<1>4. /\ live'.attempt = a /\ live'.result.items = items
      /\ live'.result.outcome = "outcome-unknown" => silent # {}
  BY <1>1, <1>2 DEF Answered, Calls, Result, items
<1> QED BY <1>2, <1>3, <1>4 DEF TellsDoubt, batch

LEMMA LiveTellsOn ==
  ASSUME OutboundInv, LiveTells, [Next]_vars
  PROVE  LiveTells'
<1>1. TypeOK /\ LiveKnown /\ live \in Calls(LivePCs) /\ adds \subseteq Items
  BY CallsKnown DEF OutboundInv, LedgerAgrees, TypeOK
<1>2. CASE UNCHANGED <<live, adds>>
  BY <1>2 DEF LiveTells, ManifestBatch
<1>3. ASSUME live'.pc \in {"idle", "authorized", "prepare", "acknowledge", "provider"}
      PROVE  LiveTells'
  BY <1>3 DEF LiveTells
<1>4. CASE Approve
  BY <1>3, <1>4 DEF Approve, OutboundInv, QuietBeforeConsumption, Idle, Call
<1>5. ASSUME UNCHANGED adds,
             live.pc \in {"report", "reported", "reconcile"},
             \/ live' = Idle
             \/ \E pc \in LivePCs : live' = [live EXCEPT !.pc = pc]
      PROVE  LiveTells'
  <2>1. CASE live' = Idle
    BY <1>3, <2>1 DEF Idle, Call
  <2>2. CASE \E pc \in LivePCs : live' = [live EXCEPT !.pc = pc]
    <3>1. live'.attempt = live.attempt /\ live'.result = live.result
      BY <1>1, <2>2 DEF Calls
    <3> QED BY <1>5, <3>1 DEF LiveTells, ManifestBatch
  <2> QED BY <1>5, <2>1, <2>2
<1>6. CASE ReportAttempt \/ AcknowledgeReported \/ ReportReconciliation
  <2>1. UNCHANGED adds
    BY <1>6 DEF ReportAttempt, RecordAttempt, AcknowledgeReported, ReportReconciliation,
                RecordReconciliation, operation
  <2>2. {"reported", "complete"} \subseteq LivePCs
    BY DEF LivePCs
  <2> QED BY <1>5, <1>6, <2>1, <2>2 DEF ReportAttempt, AcknowledgeReported, ReportReconciliation
<1>7. CASE PrepareWrite \/ AcknowledgeAndWrite
  <2>1. live'.pc \in {"acknowledge", "provider"}
    BY <1>1, <1>7 DEF PrepareWrite, AcknowledgeAndWrite, Calls
  <2> QED BY <1>3, <2>1
<1>8. ASSUME NEW a \in Attempts, BeginReconcile(a)
      PROVE  LiveTells'
  <2>1. PICK r : /\ live' = Call("reconcile", a, session, r)
                 /\ TellsDoubt(r, ManifestBatch(a.slot))
    BY <1>1, <1>8, ObservationTells, UnknownTells DEF BeginReconcile
  <2> QED BY <1>8, <2>1 DEF BeginReconcile, LiveTells, Call, ManifestBatch, operation
<1>9. CASE ProviderAnswers
  BY <1>9, AnswerTells DEF LiveTells, ProviderAnswers, Answered, ManifestBatch, operation
<1>10. CASE ProviderRefuses
  <2>1. live'.result.outcome = "partial" /\ UNCHANGED adds
    BY <1>1, <1>10 DEF ProviderRefuses, Answered, Result, Calls, operation
  <2> QED BY <2>1 DEF LiveTells, TellsDoubt
<1>11. CASE AnswerLost
  <2>1. /\ live'.result = UnknownResult(live.attempt) /\ live'.attempt = live.attempt
        /\ UNCHANGED adds /\ live.attempt \in Attempts
    BY <1>1, <1>11 DEF AnswerLost, Answered, Calls, LiveKnown, operation
  <2> QED BY <1>1, <2>1, UnknownTells DEF LiveTells, ManifestBatch
<1>12. CASE Backend
  BY <1>2, <1>3, <1>4, <1>12 DEF Backend, Cancel, RequestReconciliation, IssueGrant, Consume,
     WriteExpires, ReconcileExpires, Sweep, Call, operation
<1>13. CASE Live
  BY <1>2, <1>3, <1>6, <1>7, <1>8, <1>13 DEF Live, SealAuthorization, Rehydrate, BeginWrite,
     CompleteEntry, Abandon, Crash, Call, Idle, operation
<1>14. CASE Resume
  BY <1>2, <1>14 DEF Resume, ResumeEntry, ResumePrepare, ResumeAcknowledge, ResumeReport,
     RecordAttempt, ResumeReported, ResumeAbandon, operation
<1>15. CASE Provider
  BY <1>2, <1>9, <1>10, <1>11, <1>15 DEF Provider, LateEffect, MemberAdds, operation
<1>16. CASE UNCHANGED vars
  BY <1>2, <1>16 DEF vars, operation
<1> QED BY <1>12, <1>13, <1>14, <1>15, <1>16 DEF Next

LEMMA ResumeTellsOn ==
  ASSUME OutboundInv, ResumeTells, [Next]_vars
  PROVE  ResumeTells'
<1>1. TypeOK /\ resume \in Calls(ResumePCs) /\ adds \subseteq Items
  BY DEF OutboundInv, LedgerAgrees, TypeOK
<1>2. CASE UNCHANGED <<resume, adds>>
  BY <1>2 DEF ResumeTells, ManifestBatch
<1>3. CASE resume' = Idle
  BY <1>3 DEF ResumeTells, Idle, Call
<1>4. CASE Approve
  BY <1>3, <1>4 DEF Approve, OutboundInv, QuietBeforeConsumption
<1>5. CASE ResumePrepare \/ ResumeAcknowledge \/ ResumeReport
  <2>1. UNCHANGED adds /\ resume.pc # "idle"
    BY <1>5 DEF ResumePrepare, ResumeAcknowledge, ResumeReport, RecordAttempt, operation
  <2>2. resume'.attempt = resume.attempt /\ resume'.result = resume.result
    BY <1>1, <1>5 DEF ResumePrepare, ResumeAcknowledge, ResumeReport, Calls
  <2> QED BY <2>1, <2>2 DEF ResumeTells, ManifestBatch
<1>6. ASSUME NEW a \in Attempts, ResumeEntry(a)
      PROVE  ResumeTells'
  BY <1>1, <1>6, UnknownTells DEF ResumeEntry, ResumeTells, Call, ManifestBatch, operation
<1>7. CASE Backend
  BY <1>2, <1>4, <1>7 DEF Backend, Cancel, RequestReconciliation, IssueGrant, Consume,
     WriteExpires, ReconcileExpires, Sweep, operation
<1>8. CASE Live
  BY <1>2, <1>3, <1>8 DEF Live, SealAuthorization, Rehydrate, BeginWrite, BeginReconcile,
     PrepareWrite, AcknowledgeAndWrite, ReportAttempt, RecordAttempt, AcknowledgeReported,
     CompleteEntry, ReportReconciliation, RecordReconciliation, Abandon, Crash, operation
<1>9. CASE Resume
  BY <1>3, <1>5, <1>6, <1>9 DEF Resume, ResumeReported, ResumeAbandon
<1>10. CASE Provider
  BY <1>2, <1>10 DEF Provider, ProviderAnswers, ProviderRefuses, AnswerLost, Answered,
     LateEffect, MemberAdds, operation
<1>11. CASE UNCHANGED vars
  BY <1>2, <1>11 DEF vars, operation
<1> QED BY <1>7, <1>8, <1>9, <1>10, <1>11 DEF Next

LEMMA DoubtStarts == Init => DoubtIsKnown
BY DEF Init, DoubtIsKnown, Idle, Call

LEMMA DoubtKeeps == OutboundInv /\ DoubtIsKnown /\ [Next]_vars => DoubtIsKnown'
<1> SUFFICES ASSUME OutboundInv, DoubtIsKnown, [Next]_vars PROVE DoubtIsKnown'
  OBVIOUS
<1>1. RowsKnown /\ LiveTells' /\ ResumeTells'
  BY KnownParts, LiveTellsOn, ResumeTellsOn
<1>2. ASSUME Rests \/ Cancel \/ RequestReconciliation \/ \E g \in Generations : Consume(g)
      PROVE  RowsKnown'
  <2>1. UNCHANGED <<adds, itemStatus>>
    BY <1>2 DEF Rests, Cancel, RequestReconciliation, Consume, operation
  <2>2. \/ intent' = intent
        \/ \E a \in Attempts : intent[a] = "none" /\ intent' = [intent EXCEPT ![a] = "prepared"]
    BY <1>2 DEF Rests, Cancel, RequestReconciliation, Consume, ledger
  <2> QED BY <1>1, <2>1, <2>2, RowsStay
<1>3. RowsKnown'
  BY <1>1, <1>2, StepCases, ApproveKnown, SweepKnown, TakesKnown
<1> QED BY <1>1, <1>3 DEF DoubtIsKnown, RowsKnown, LiveTells, ResumeTells

(* As long as a write is without an answer, the member is told so of one   *)
(* of its places at least.                                                 *)
THEOREM DoubtIsAlwaysKnown == Spec => []DoubtIsKnown
<1>1. Init => OutboundInv /\ DoubtIsKnown
  BY StartsWell, DoubtStarts
<1>2. OutboundInv /\ DoubtIsKnown /\ [Next]_vars => DoubtIsKnown'
  BY DoubtKeeps
<1> QED BY <1>1, <1>2, OutboundInvariant, PTL DEF Spec

-----------------------------------------------------------------------------
(* Phases and fates.                                                       *)
LEMMA PhaseTable ==
  /\ PhaseOf("none") = "draft" /\ PhaseOf("queued") = "waiting"
  /\ PhaseOf("running") = "active" /\ PhaseOf("outcome-unknown") = "unknown"
  /\ PhaseOf("partial-failure") = "stopped" /\ PhaseOf("action-required") = "stopped"
  /\ PhaseOf("completed") = "completed" /\ PhaseOf("cancelled") = "cancelled"
  /\ PhaseOf("failed") = "failed"
BY DEF PhaseOf

(* A fate is the word of the row as long as no write of it is unanswered,  *)
(* and one that is keeps the operation waiting.                            *)
FatesFit ==
  /\ \A i \in Items : FateOf(i) \in {"open", "doubt", "done", "refused"}
  /\ \A i \in Items : FateOf(i) = "doubt" => InDoubt(i) /\ opState = "outcome-unknown"
  /\ \A i \in Items : FateOf(i) = "open" => itemStatus[i] = "pending"
  /\ \A i \in Items : FateOf(i) = "refused" => itemStatus[i] = "failed"
  /\ \A i \in Items : FateOf(i) = "done" => itemStatus[i] \in {"applied", "already-present"}

LEMMA FatesAreFit == OutboundInv /\ DoubtIsKnown => FatesFit
<1> SUFFICES ASSUME OutboundInv, DoubtIsKnown PROVE FatesFit
  OBVIOUS
<1>1. \A i \in Items : itemStatus[i] \in Statuses
  BY DEF OutboundInv, LedgerAgrees, TypeOK
<1>2. \A i \in Items : itemStatus[i] = "outcome-unknown" => InDoubt(i)
  BY DEF OutboundInv, UnknownIsOpen, InDoubt
<1>3. \A i \in Items : InDoubt(i) => opState = "outcome-unknown"
  <2> SUFFICES ASSUME NEW i \in Items, InDoubt(i) PROVE opState = "outcome-unknown"
    OBVIOUS
  <2>1. PICK a \in Attempts : intent[a] \in {"expired", "unknown"} /\ i \in ManifestBatch(a.slot)
    BY DEF InDoubt
  <2>2. PICK j \in ManifestBatch(a.slot) : itemStatus[j] = "outcome-unknown"
    BY <2>1 DEF DoubtIsKnown
  <2>3. j \in Items
    BY BatchesAreItems DEF ManifestBatch, OutboundInv, LedgerAgrees, TypeOK
  <2> QED BY <2>2, <2>3 DEF OutboundInv, OutcomesAgree, UnknownHasEvidence
<1>4. \A i \in Items : ~InDoubt(i) =>
        \/ itemStatus[i] = "pending" /\ FateOf(i) = "open"
        \/ itemStatus[i] = "failed" /\ FateOf(i) = "refused"
        \/ itemStatus[i] \in {"applied", "already-present"} /\ FateOf(i) = "done"
  BY <1>1, <1>2 DEF FateOf, Statuses, Settled
<1>5. \A i \in Items : InDoubt(i) => FateOf(i) = "doubt"
  BY DEF FateOf
<1> QED BY <1>3, <1>4, <1>5 DEF FatesFit

LEMMA FatesFitNext == OutboundInv' /\ DoubtIsKnown' => FatesFit'
BY FatesAreFit, PTL

LEMMA FatesStay ==
  ASSUME OutboundInv, UNCHANGED <<adds, itemStatus>>,
         \/ intent' = intent
         \/ \E a \in Attempts : intent[a] = "none" /\ intent' = [intent EXCEPT ![a] = "prepared"]
  PROVE  \A i \in Items : FateOf(i)' = FateOf(i)
<1>1. intent \in [Attempts -> IntentStates]
  BY DEF OutboundInv, LedgerAgrees, TypeOK
<1>2. \A b \in Attempts :
        intent'[b] \in {"expired", "unknown"} <=> intent[b] \in {"expired", "unknown"}
  BY <1>1
<1>3. \A slot : ManifestBatch(slot)' = ManifestBatch(slot)
  BY BatchesStay
<1>4. \A i \in Items : InDoubt(i)' <=> InDoubt(i)
  BY <1>2, <1>3 DEF InDoubt
<1> QED BY <1>4 DEF FateOf

-----------------------------------------------------------------------------
(* The steps of the promise.                                               *)
Stays == UNCHANGED <<PhaseOf(opState), cancelRequested, [i \in Items |-> FateOf(i)], present>>

LEMMA StaysStutters == Stays => [Promise!Next]_(Promise!vars)
BY DEF Stays, Promise!vars

LEMMA RestsPromise ==
  ASSUME OutboundInv, Rests
  PROVE  Promise!Next \/ Stays
<1>1. \A i \in Items : FateOf(i)' = FateOf(i)
  BY FatesStay DEF Rests, operation
<1>2. UNCHANGED <<opState, cancelRequested>>
  BY DEF Rests, operation
<1>3. CASE present' = present
  BY <1>1, <1>2, <1>3 DEF Stays
<1>4. CASE present \subseteq present' /\ present' \subseteq Items
  BY <1>1, <1>2, <1>4 DEF Promise!Next, Promise!Appear
<1> QED BY <1>3, <1>4 DEF Rests

LEMMA ApprovePromise ==
  ASSUME OutboundInv, Approve
  PROVE  Promise!Next
<1>1. \A a \in Attempts : intent[a] = "none" /\ intent'[a] = "none"
  BY DEF Approve, OutboundInv, QuietBeforeConsumption, ledger
<1>2. \A i \in Items : ~InDoubt(i)'
  BY <1>1 DEF InDoubt
<1>3. \A i \in Items : FateOf(i)' = IF i \in present THEN "done" ELSE "open"
  BY <1>2 DEF FateOf, Approve
<1>4. /\ opState = "none" /\ opState' = IF present = Items THEN "completed" ELSE "queued"
      /\ UNCHANGED <<cancelRequested, present>>
  BY DEF Approve, provider
<1>5. PhaseOf(opState)' = IF present = Items THEN "completed" ELSE "waiting"
  BY <1>4, PhaseTable
<1> QED BY <1>3, <1>4, <1>5, PhaseTable DEF Promise!Next, Promise!Approve

LEMMA CommandPromise ==
  ASSUME OutboundInv,
         Cancel \/ RequestReconciliation \/ \E g \in Generations : Consume(g)
  PROVE  Promise!Next \/ Stays
<1>1. \A i \in Items : FateOf(i)' = FateOf(i)
  BY FatesStay DEF Cancel, RequestReconciliation, Consume, ledger
<1>2. present' = present /\ cancelRequested \in BOOLEAN
  BY DEF Cancel, RequestReconciliation, Consume, provider, OutboundInv, LedgerAgrees, TypeOK
<1>3. CASE Cancel
  <2>1. /\ ~cancelRequested /\ cancelRequested' = TRUE
        /\ opState \in {"queued", "running", "action-required", "partial-failure"}
        /\ opState' = IF opState = "running" THEN "running" ELSE "cancelled"
    BY <1>3 DEF Cancel, AllowedActions
  <2>2. /\ PhaseOf(opState) \in {"waiting", "active", "stopped"}
        /\ PhaseOf(opState)' = IF PhaseOf(opState) = "active" THEN "active" ELSE "cancelled"
    BY <2>1, PhaseTable
  <2> QED BY <1>1, <1>2, <2>1, <2>2 DEF Promise!Next, Promise!Cancel
<1>4. CASE RequestReconciliation
  <2>1. /\ opState = "outcome-unknown" /\ opState' = opState /\ cancelRequested' = FALSE
    BY <1>4 DEF RequestReconciliation, AllowedActions
  <2> QED BY <1>1, <1>2, <2>1, PhaseTable DEF Promise!Next, Promise!Reconcile
<1>5. ASSUME NEW g \in Generations, Consume(g)
      PROVE  Promise!Next \/ Stays
  <2>1. ~cancelRequested /\ cancelRequested' = cancelRequested
    BY <1>5 DEF Consume
  <2>2. CASE grant[g] = "issued" /\ opState' = "running"
    <3>1. opState = "queued"
      BY <2>2 DEF OutboundInv, OneUsableGrant
    <3> QED BY <1>1, <1>2, <2>1, <2>2, <3>1, PhaseTable DEF Promise!Next, Promise!Start
  <2>3. CASE UNCHANGED opState
    BY <1>1, <1>2, <2>1, <2>3 DEF Stays
  <2> QED BY <1>5, <2>2, <2>3 DEF Consume
<1> QED BY <1>3, <1>4, <1>5

(* What makes a step of the operation a word that the promise allows.      *)
LEMMA TellPromise ==
  ASSUME FatesFit, FatesFit', AppliedIsPresent',
         opState \in {"running", "outcome-unknown"}, opState' \in OpStates \ {"none", "queued"},
         UNCHANGED <<cancelRequested, present>>,
         \A i \in Items : FateOf(i)' # FateOf(i) =>
           FateOf(i) \in {"open", "doubt"} /\ FateOf(i)' # "open",
         opState' = "running" => ~cancelRequested /\ \A i \in Items : itemStatus'[i] # "failed",
         opState' = "completed" =>
           \A i \in Items : itemStatus'[i] \in {"applied", "already-present"}
  PROVE  Promise!Next
<1> DEFINE fates == [i \in Items |-> FateOf(i)]
<1>1. fates' \in [Items -> Promise!Fates]
  BY DEF FatesFit, Promise!Fates
<1>2. \A i \in Items : fates[i] = FateOf(i) /\ fates'[i] = FateOf(i)'
  OBVIOUS
<1>3. \A i \in Items : FateOf(i)' = "done" => i \in present
  BY DEF FatesFit, AppliedIsPresent
<1>4. PhaseOf(opState) \in {"active", "unknown"}
  BY PhaseTable
<1>5. /\ PhaseOf(opState)' \in {"active", "unknown", "stopped", "completed", "cancelled", "failed"}
      /\ PhaseOf(opState)' # "unknown" => opState' # "outcome-unknown"
      /\ PhaseOf(opState)' = "active" => opState' = "running"
      /\ PhaseOf(opState)' = "completed" => opState' = "completed"
  BY PhaseTable DEF OpStates, Final
<1>6. PhaseOf(opState)' # "unknown" => \A i \in Items : FateOf(i)' # "doubt"
  BY <1>5 DEF FatesFit
<1>7. PhaseOf(opState)' = "active" =>
        ~cancelRequested /\ \A i \in Items : FateOf(i)' # "refused"
  BY <1>5 DEF FatesFit
<1>8. PhaseOf(opState)' = "completed" => \A i \in Items : FateOf(i)' = "done"
  BY <1>5 DEF FatesFit
<1> HIDE DEF fates
<1>9. Promise!Tell
  BY <1>1, <1>2, <1>3, <1>4, <1>5, <1>6, <1>7, <1>8 DEF Promise!Tell, fates
<1> QED BY <1>9 DEF Promise!Next

LEMMA SweepPromise ==
  ASSUME OutboundInv, OutboundInv', DoubtIsKnown, DoubtIsKnown', Sweep
  PROVE  Promise!Next
<1>1. FatesFit /\ FatesFit' /\ AppliedIsPresent'
  BY FatesAreFit, FatesFitNext DEF OutboundInv, OutcomesAgree
<1>2. opState = "running" /\ UNCHANGED <<cancelRequested, adds, present>>
  BY DEF Sweep, provider
<1>3. CASE SweepUnstarted
  <2>1. \A i \in Items : FateOf(i)' = FateOf(i)
    BY <1>2, <1>3, FatesStay DEF SweepUnstarted
  <2>2. opState' \in {"cancelled", "partial-failure"}
    BY <1>3 DEF SweepUnstarted
  <2> QED BY <1>1, <1>2, <2>1, <2>2, TellPromise DEF OpStates, Final
<1>4. ASSUME NEW a \in Attempts, SweepPrepared(a)
      PROVE  Promise!Next
  <2> DEFINE batch == ManifestBatch(a.slot)
  <2>1. /\ intent[a] = "prepared" /\ intent' = [intent EXCEPT ![a] = "expired"]
        /\ opState' = "outcome-unknown" /\ intent \in [Attempts -> IntentStates]
        /\ \A i \in Items : i \notin batch => itemStatus'[i] = itemStatus[i]
    BY <1>4 DEF SweepPrepared, OutboundInv, LedgerAgrees, TypeOK
  <2>2. intent'[a] = "expired" /\ \A b \in Attempts : b # a => intent'[b] = intent[b]
    BY <2>1
  <2>3. \A slot : ManifestBatch(slot)' = ManifestBatch(slot)
    BY <1>2, BatchesStay
  <2>4. RowsKnown
    BY KnownParts
  <2>5. \A i \in Items : i \in batch => FateOf(i) = "open" /\ FateOf(i)' = "doubt"
    <3> SUFFICES ASSUME NEW i \in Items, i \in batch
                 PROVE  FateOf(i) = "open" /\ FateOf(i)' = "doubt"
      OBVIOUS
    <3>1. itemStatus[i] = "pending"
      BY <2>1, <2>4, PreparedIsPending
    <3>2. FateOf(i) = "open"
      BY <1>1, <1>2, <3>1 DEF FatesFit
    <3>3. InDoubt(i)'
      BY <2>2, <2>3 DEF InDoubt
    <3> QED BY <3>2, <3>3 DEF FateOf
  <2>6. \A i \in Items : i \notin batch => FateOf(i)' = FateOf(i)
    <3> SUFFICES ASSUME NEW i \in Items, i \notin batch PROVE FateOf(i)' = FateOf(i)
      OBVIOUS
    <3>1. InDoubt(i)' <=> InDoubt(i)
      BY <2>2, <2>3 DEF InDoubt
    <3>2. itemStatus'[i] = itemStatus[i]
      BY <2>1
    <3> QED BY <3>1, <3>2 DEF FateOf
  <2> HIDE DEF batch
  <2> QED BY <1>1, <1>2, <2>1, <2>5, <2>6, TellPromise DEF OpStates
<1> QED BY <1>3, <1>4 DEF Sweep

(* The end of an operation, as the rows have it.                           *)
LEMMA RefreshedGoesOn ==
  ASSUME NEW final, NEW outcome, NEW problem \in Problems, NEW status,
         Refreshed(final, outcome, problem, status) = "running"
  PROVE  ~cancelRequested /\ \A i \in Items : status[i] # "failed"
<1> DEFINE failed == \E i \in Items : status[i] = "failed"
<1>1. ~failed /\ ~cancelRequested
  <2> HIDE DEF failed
  <2> QED BY DEF Refreshed, Onward, Problems, failed
<1> QED BY <1>1

LEMMA TakesPromise ==
  ASSUME OutboundInv, OutboundInv', DoubtIsKnown, DoubtIsKnown', TakesResult
  PROVE  Promise!Next
<1>1. PICK a \in Attempts, r \in Results, problem \in Problems, x \in IntentStates :
        /\ Truthful(r, ManifestBatch(a.slot), present) /\ TellsDoubt(r, ManifestBatch(a.slot))
        /\ Takes(a, r, problem, x)
  BY DEF TakesResult
<1> DEFINE batch == ManifestBatch(a.slot)
<1>2. FatesFit /\ FatesFit' /\ AppliedIsPresent' /\ RowsKnown
  BY FatesAreFit, FatesFitNext, KnownParts DEF OutboundInv, OutcomesAgree
<1>3. /\ \A slot : ManifestBatch(slot)' = ManifestBatch(slot)
      /\ intent'[a] = x /\ \A b \in Attempts : b # a => intent'[b] = intent[b]
      /\ itemStatus' \in [Items -> Statuses]
      /\ \A i \in Items : i \notin batch => itemStatus'[i] = itemStatus[i]
      /\ \A i \in batch : itemStatus'[i] # "pending"
  BY <1>1, TakesRows
<1>4. /\ opState \in {"running", "outcome-unknown"} /\ UNCHANGED <<cancelRequested, present>>
      /\ batch # {} => intent[a] \in Open
      /\ RefreshOperation(a.slot, r.outcome, problem, ResultStatus(r))
  BY <1>1 DEF Takes
<1>5. /\ opState' = Refreshed(IsFinal(a.slot), r.outcome, problem, itemStatus')
      /\ r.outcome \in Outcomes /\ IsFinal(a.slot) \in BOOLEAN
  BY <1>1, <1>4 DEF RefreshOperation, Truthful, IsFinal
<1>6. /\ opState' \in OpStates \ {"none", "queued"}
      /\ opState' = "completed" =>
           \A i \in Items : itemStatus'[i] \in {"applied", "already-present"}
  BY <1>3, <1>5, RefreshedStates
<1>7. opState' = "running" => ~cancelRequested /\ \A i \in Items : itemStatus'[i] # "failed"
  BY <1>5, RefreshedGoesOn
<1>8. ASSUME NEW i \in Items, i \in batch
      PROVE  FateOf(i) \in {"open", "doubt"} /\ FateOf(i)' # "open"
  <2>1. FateOf(i)' # "open"
    BY <1>2, <1>3, <1>8 DEF FatesFit
  <2>2. CASE intent[a] \in {"expired", "unknown"}
    <3>1. InDoubt(i)
      BY <1>8, <2>2 DEF InDoubt
    <3>2. FateOf(i) = "doubt"
      BY <3>1 DEF FateOf
    <3> QED BY <2>1, <3>2
  <2>3. CASE intent[a] = "prepared"
    <3>1. itemStatus[i] = "pending"
      BY <1>2, <1>8, <2>3, PreparedIsPending
    <3> QED BY <2>1, <3>1 DEF FateOf
  <2> QED BY <1>4, <1>8, <2>1, <2>2, <2>3 DEF Open
<1>9. \A i \in Items : i \notin batch => FateOf(i)' = FateOf(i)
  <2> SUFFICES ASSUME NEW i \in Items, i \notin batch PROVE FateOf(i)' = FateOf(i)
    OBVIOUS
  <2>1. InDoubt(i)' <=> InDoubt(i)
    BY <1>3 DEF InDoubt
  <2>2. itemStatus'[i] = itemStatus[i]
    BY <1>3
  <2> QED BY <2>1, <2>2 DEF FateOf
<1> HIDE DEF batch
<1> QED BY <1>2, <1>4, <1>6, <1>7, <1>8, <1>9, TellPromise

LEMMA StepPromise ==
  ASSUME OutboundInv, OutboundInv', DoubtIsKnown, DoubtIsKnown', [Next]_vars
  PROVE  [Promise!Next]_(Promise!vars)
BY StepCases, StaysStutters, RestsPromise, ApprovePromise, CommandPromise, SweepPromise,
   TakesPromise

LEMMA InitPromise == Init => Promise!Init
<1> SUFFICES ASSUME Init PROVE Promise!Init
  OBVIOUS
<1>1. \A i \in Items : FateOf(i) = "open"
  BY DEF Init, FateOf, InDoubt
<1>2. present \in SUBSET Items
  BY DEF Init
<1> QED BY <1>1, <1>2, PhaseTable DEF Promise!Init, Init

(* Backend, connector, provider and sweeper together do only what the      *)
(* promise allows: of each place the member is told once and the truth,    *)
(* and a place in doubt keeps the transfer from going on or ending.        *)
THEOREM Refinement == Spec => ImplementsPromise
<1>1. Init => Promise!Init
  BY InitPromise
<1>2. OutboundInv /\ OutboundInv' /\ DoubtIsKnown /\ DoubtIsKnown' /\ [Next]_vars =>
        [Promise!Next]_(Promise!vars)
  BY StepPromise
<1> QED BY <1>1, <1>2, OutboundInvariant, DoubtIsAlwaysKnown, PTL
    DEF Spec, ImplementsPromise, Promise!Spec
=============================================================================
