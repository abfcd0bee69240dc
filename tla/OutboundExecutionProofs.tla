---------------------- MODULE OutboundExecutionProofs ----------------------
(* What OutboundExecution keeps for every number of items, batches, tries, *)
(* grants and receipt tokens, and whatever connector and provider do.      *)
EXTENDS OutboundExecution, FiniteSetTheorems, TLAPS

-----------------------------------------------------------------------------
(* Batches and results.                                                    *)
LEMMA BatchesAreItems ==
  ASSUME NEW S \in SUBSET Items, NEW b
  PROVE  Slice(S, b) \subseteq S /\ Slice(S, b) \subseteq Items
BY DEF Slice

LEMMA Multiples ==
  ASSUME NEW n \in Nat, NEW s \in Int, NEW t \in Int, s <= t
  PROVE  s * n <= t * n
<1>1. (t - s) * n >= 0
  OBVIOUS
<1> QED BY <1>1

(* An item has one place in the order of a list, and so one batch.         *)
LEMMA BatchesAreDisjoint ==
  ASSUME NEW S \in SUBSET Items, NEW s \in Nat, NEW t \in Nat, s # t
  PROVE  Slice(S, s) \cap Slice(S, t) = {}
<1>1. BatchSize \in Nat /\ NumItems \in Nat
  BY ParameterTypes
<1>2. IsFiniteSet(Items)
  BY <1>1, FS_Interval DEF Items
<1>3. ASSUME NEW i \in S, NEW u \in Nat, NEW v \in Nat, u < v,
             i \in Slice(S, u), i \in Slice(S, v)
      PROVE  FALSE
  <2> DEFINE n == Cardinality({j \in S : j < i})
  <2>1. n \in Nat
    <3>1. {j \in S : j < i} \subseteq Items
      OBVIOUS
    <3> QED BY <1>2, <3>1, FS_Subset, FS_CardinalityType
  <2>2. n <= u * BatchSize - 1 /\ (v - 1) * BatchSize <= n
    <3>1. n \in (u - 1) * BatchSize .. u * BatchSize - 1
      BY <1>3 DEF Slice
    <3>2. n \in (v - 1) * BatchSize .. v * BatchSize - 1
      BY <1>3 DEF Slice
    <3> HIDE DEF n
    <3> QED BY <1>1, <2>1, <3>1, <3>2
  <2>3. u * BatchSize <= (v - 1) * BatchSize
    BY <1>1, <1>3, Multiples
  <2> HIDE DEF n
  <2> DEFINE p == u * BatchSize
             q == (v - 1) * BatchSize
  <2>4. p \in Int /\ q \in Int
    BY <1>1
  <2>5. n <= p - 1 /\ q <= n /\ p <= q
    BY <2>2, <2>3
  <2> HIDE DEF p, q
  <2> QED BY <2>1, <2>4, <2>5
<1>4. s < t \/ t < s
  OBVIOUS
<1> QED BY <1>3, <1>4 DEF Slice

(* Where an operation may be after a report or a reconciliation.           *)
LEMMA RefreshedStates ==
  ASSUME NEW final \in BOOLEAN, NEW outcome \in Outcomes, NEW problem \in Problems,
         NEW status \in [Items -> Statuses]
  PROVE  LET state == Refreshed(final, outcome, problem, status)
         IN /\ state \in OpStates \ {"none", "queued"}
            /\ state = "outcome-unknown" <=>
                 outcome = "outcome-unknown" \/ \E i \in Items : status[i] = "outcome-unknown"
            /\ state = "completed" =>
                 \A i \in Items : status[i] \in {"applied", "already-present"}
<1> DEFINE state == Refreshed(final, outcome, problem, status)
           unknown == \E i \in Items : status[i] = "outcome-unknown"
           failed == \E i \in Items : status[i] = "failed"
           processed == \A i \in Items : status[i] # "pending"
<1>1. /\ outcome = "outcome-unknown" \/ unknown => state = "outcome-unknown"
      /\ ~(outcome = "outcome-unknown" \/ unknown) =>
           \/ processed /\ ~failed /\ state = "completed"
           \/ state \in {"cancelled", "action-required", "failed", "partial-failure", "running"}
  BY DEF Refreshed, Onward, Problems
<1>2. ~unknown /\ processed /\ ~failed =>
        \A i \in Items : status[i] \in {"applied", "already-present"}
  BY DEF Statuses, Settled
<1>3. {"cancelled", "action-required", "failed", "partial-failure", "running", "completed",
       "outcome-unknown"} \subseteq OpStates \ {"none", "queued"}
  BY DEF OpStates, Final
<1> HIDE DEF state, unknown, failed, processed
<1>4. /\ state \in OpStates \ {"none", "queued"}
      /\ state = "outcome-unknown" <=> outcome = "outcome-unknown" \/ unknown
      /\ state = "completed" =>
           \A i \in Items : status[i] \in {"applied", "already-present"}
  BY <1>1, <1>2, <1>3
<1> QED BY <1>4 DEF state, unknown

LEMMA ResultsGrow ==
  ASSUME NEW r, NEW batch, NEW there, NEW more, there \subseteq more, Truthful(r, batch, there)
  PROVE  Truthful(r, batch, more)
BY DEF Truthful

(* The status of an item after a truthful result of its attempt.           *)
LEMMA StatusAfterResult ==
  ASSUME TypeOK, NEW r \in Results, NEW batch, Truthful(r, batch, present)
  PROVE  /\ ResultStatus(r) \in [Items -> Statuses]
         /\ \A i \in Items : i \notin batch => ResultStatus(r)[i] = itemStatus[i]
         /\ \A i \in Items : i \in batch => ResultStatus(r)[i] = r.items[i] /\ r.items[i] # "none"
BY DEF ResultStatus, Truthful, TypeOK, Results, Statuses

-----------------------------------------------------------------------------
(* Frames: what a step keeps when it leaves some of the state alone.        *)

(* The batches of the manifest do not move once the plan is approved.      *)
LEMMA BatchesStay ==
  ASSUME UNCHANGED adds
  PROVE  \A slot : ManifestBatch(slot)' = ManifestBatch(slot)
BY DEF ManifestBatch

(* A provider that has more, for a backend that does not move.             *)
BackendKept ==
  /\ OneOpenIntent /\ TransferFollowsOperation /\ OneConsumedGrant /\ OneUsableGrant
  /\ IntentsInOrder /\ IntentsTell /\ OutcomesAgree /\ UnknownIsOpen
  /\ \A a \in Attempts : Recorded(a) => Truthful(report[a], ManifestBatch(a.slot), present)

LEMMA BackendStays ==
  ASSUME OutboundInv, UNCHANGED <<operation, grant, ledger>>,
         present \subseteq present', present' \subseteq Items, listed => listed'
  PROVE  BackendKept'
<1> USE DEF OutboundInv, LedgerAgrees, OutcomesAgree, operation, ledger
<1>1. OneOpenIntent' /\ TransferFollowsOperation' /\ OneConsumedGrant' /\ OneUsableGrant'
  BY DEF OneOpenIntent, TransferFollowsOperation, OneConsumedGrant, OneUsableGrant
<1>2. IntentsInOrder' /\ IntentsTell'
  BY DEF IntentsInOrder, IntentsTell, Recorded
<1>3. UnknownIsOpen' /\ UnknownHasEvidence'
  BY DEF UnknownIsOpen, UnknownHasEvidence, ManifestBatch
<1>4. AppliedIsPresent' /\ CompletedIsPresent'
  BY DEF AppliedIsPresent, CompletedIsPresent
<1>5. \A a \in Attempts :
        Recorded(a)' => Truthful(report[a], ManifestBatch(a.slot), present)'
  BY ResultsGrow DEF ResultsAreTruthful, Recorded, ManifestBatch
<1> QED BY <1>1, <1>2, <1>3, <1>4, <1>5 DEF BackendKept

(* The writes that were sent, when none is.                                *)
LEMMA WritesStay ==
  ASSUME OutboundInv, TypeOK', IntentsTell', UNCHANGED writes,
         \A a \in Attempts : intent[a] # "none" => intent'[a] # "none",
         \A a \in Attempts : spool[a] \notin {"none", "sealed"} =>
           spool'[a] \notin {"none", "sealed"}
  PROVE  WriteAhead' /\ WrittenOnce'
<1>1. WrittenOnce'
  BY DEF OutboundInv, WrittenOnce
<1>2. ASSUME NEW a \in Attempts, writes'[a] > 0
      PROVE  /\ spool'[a] \notin {"none", "sealed"} /\ intent'[a] # "none"
             /\ ~Recorded(a)' /\ reconciliation'[a] = "none" => intent'[a] \in Open
  <2>1. spool'[a] \notin {"none", "sealed"} /\ intent'[a] # "none"
    BY <1>2 DEF OutboundInv, LedgerAgrees, WriteAhead
  <2>2. intent'[a] \in IntentStates
    BY DEF TypeOK
  <2> QED BY <2>1, <2>2 DEF IntentsTell, IntentStates, Open, Confirmed
<1> QED BY <1>1, <1>2 DEF WriteAhead

(* The two calls under way, when a step leaves one of them alone.           *)
LiveKnown ==
  /\ live.pc \notin {"idle", "authorized"} => live.attempt \in Attempts
  /\ live.pc \in {"acknowledge", "provider"} => intent[live.attempt] # "none"
  /\ live.pc \in {"report", "reported", "reconcile", "complete"} =>
       Truthful(live.result, ManifestBatch(live.attempt.slot), present)
  /\ live.pc \in {"prepare", "acknowledge", "provider"} /\ live.attempt.slot # CreateSlot =>
       listed

ResumeKnown ==
  resume.pc # "idle" =>
    /\ resume.attempt \in Attempts
    /\ Truthful(resume.result, ManifestBatch(resume.attempt.slot), present)

LEMMA CallsKnown == OutboundInv => LiveKnown /\ ResumeKnown
BY DEF OutboundInv, LiveKnown, ResumeKnown, CallsAreKnown, ResultsAreTruthful, WrittenToList

LEMMA LiveStays ==
  ASSUME LiveKnown, UNCHANGED <<live, adds>>, present \subseteq present', listed => listed',
         \A a \in Attempts : intent[a] # "none" => intent'[a] # "none"
  PROVE  LiveKnown'
BY ResultsGrow DEF LiveKnown, ManifestBatch

LEMMA ResumeStays ==
  ASSUME ResumeKnown, UNCHANGED <<resume, adds>>, present \subseteq present'
  PROVE  ResumeKnown'
BY ResultsGrow DEF ResumeKnown, ManifestBatch

(* Where places have been written is a list.                               *)
ListKnown ==
  /\ present # {} => listed
  /\ \A a \in inflight : a.slot # CreateSlot => listed

(* The invariant from its parts.                                           *)
LEMMA Together ==
  ASSUME TypeOK', BackendKept', WriteAhead', WrittenOnce', LiveKnown', ResumeKnown',
         ListKnown', QuietBeforeConsumption'
  PROVE  OutboundInv'
BY DEF OutboundInv, LedgerAgrees, BackendKept, LiveKnown, ResumeKnown, ListKnown,
       CallsAreKnown, ResultsAreTruthful, WrittenToList

(* Whoever holds a token or has a call under way has consumed a grant.     *)
LEMMA Awake ==
  ASSUME OutboundInv,
         \/ live.pc # "idle" \/ resume.pc # "idle" \/ vault # NoToken \/ session # NoToken
         \/ \E g \in Generations : grant[g] = "consumed"
         \/ \E a \in Attempts : intent[a] # "none"
  PROVE  opState \notin {"none", "queued"}
BY DEF OutboundInv, QuietBeforeConsumption, Idle, Call

-----------------------------------------------------------------------------
(* The connector's own steps.                                              *)
LEMMA ConnectorKeeps ==
  ASSUME OutboundInv, opState \notin {"none", "queued"},
         UNCHANGED <<operation, authority, ledger, provider>>,
         TypeOK', LiveKnown', ResumeKnown',
         \A a \in Attempts : spool[a] \notin {"none", "sealed"} =>
           spool'[a] \notin {"none", "sealed"}
  PROVE  OutboundInv'
<1>1. present' = present /\ listed' = listed /\ inflight' = inflight /\ writes' = writes
      /\ opState' = opState /\ present' \subseteq Items /\ intent' = intent
  BY DEF provider, operation, ledger, OutboundInv, LedgerAgrees, TypeOK
<1>2. BackendKept'
  BY <1>1, BackendStays DEF authority
<1>3. WriteAhead' /\ WrittenOnce'
  BY <1>1, <1>2, WritesStay DEF BackendKept
<1>4. ListKnown' /\ QuietBeforeConsumption'
  BY <1>1 DEF ListKnown, QuietBeforeConsumption, OutboundInv, WrittenToList
<1> QED BY <1>2, <1>3, <1>4, Together

LEMMA CallTypes ==
  /\ Idle \in Calls(LivePCs) /\ Idle \in Calls(ResumePCs) /\ NoResult \in Results
  /\ \A pcs, pc, t, r : \A a \in Attempts \cup {NoAttempt} :
       pc \in pcs /\ t \in Tokens /\ r \in Results => Call(pc, a, t, r) \in Calls(pcs)
  /\ \A pcs, pc : \A c \in Calls(pcs) : pc \in pcs => [c EXCEPT !.pc = pc] \in Calls(pcs)
<1>1. NoResult \in Results
  BY DEF NoResult, Result, Results, Nothing, Problems
<1>2. NoToken \in Tokens
  BY ParameterTypes DEF NoToken, Tokens
<1> QED BY <1>1, <1>2 DEF Idle, Call, Calls, LivePCs, ResumePCs

(* What is said of an attempt of which nothing is known is true.           *)
LEMMA UnknownIsTruthful ==
  ASSUME NEW a \in Attempts, adds \subseteq Items
  PROVE  /\ UnknownResult(a) \in Results
         /\ Truthful(UnknownResult(a), ManifestBatch(a.slot), present)
<1>1. ManifestBatch(a.slot) \subseteq Items
  BY BatchesAreItems DEF ManifestBatch
<1> DEFINE items == ItemResults(ManifestBatch(a.slot), {}, ManifestBatch(a.slot))
<1>2. /\ items \in [Items -> {"none", "outcome-unknown"}]
      /\ \A i \in Items : items[i] = "none" <=> i \notin ManifestBatch(a.slot)
  BY DEF ItemResults
<1> HIDE DEF items
<1>3. UnknownResult(a) = Result("outcome-unknown", "none", items)
  BY DEF UnknownResult, items
<1> QED BY <1>2, <1>3 DEF Result, Results, Outcomes, Problems, Truthful

LEMMA SealAuthorizationKeeps ==
  ASSUME OutboundInv, SealAuthorization
  PROVE  OutboundInv'
<1>1. opState \notin {"none", "queued"} /\ LiveKnown /\ ResumeKnown
  BY Awake, CallsKnown DEF SealAuthorization
<1>2. TypeOK'
  BY CallTypes DEF SealAuthorization, OutboundInv, LedgerAgrees, TypeOK, operation, authority, ledger, connector, provider, Calls
<1>3. LiveKnown'
  BY DEF LiveKnown, SealAuthorization, Idle, Call
<1>4. ResumeKnown'
  BY <1>1, ResumeStays DEF SealAuthorization, operation, provider
<1>5. \A b \in Attempts : spool[b] \notin {"none", "sealed"} => spool'[b] \notin {"none", "sealed"}
  BY DEF SealAuthorization, OutboundInv, LedgerAgrees, TypeOK, connector
<1> QED BY <1>1, <1>2, <1>3, <1>4, <1>5, ConnectorKeeps DEF SealAuthorization, provider

LEMMA RehydrateKeeps ==
  ASSUME OutboundInv, Rehydrate
  PROVE  OutboundInv'
<1>1. opState \notin {"none", "queued"} /\ LiveKnown /\ ResumeKnown
  BY Awake, CallsKnown DEF Rehydrate
<1>2. TypeOK'
  BY CallTypes DEF Rehydrate, OutboundInv, LedgerAgrees, TypeOK, operation, authority, ledger, connector, provider
<1>3. LiveKnown'
  BY <1>1, LiveStays DEF Rehydrate, operation, ledger, provider
<1>4. ResumeKnown'
  BY <1>1, ResumeStays DEF Rehydrate, operation, provider
<1>5. \A b \in Attempts : spool[b] \notin {"none", "sealed"} => spool'[b] \notin {"none", "sealed"}
  BY DEF Rehydrate, OutboundInv, LedgerAgrees, TypeOK, connector
<1> QED BY <1>1, <1>2, <1>3, <1>4, <1>5, ConnectorKeeps DEF Rehydrate, provider

LEMMA BeginWriteKeeps ==
  ASSUME OutboundInv, NEW a \in Attempts, BeginWrite(a)
  PROVE  OutboundInv'
<1>1. opState \notin {"none", "queued"} /\ LiveKnown /\ ResumeKnown
  BY Awake, CallsKnown DEF BeginWrite
<1>2. TypeOK'
  BY CallTypes DEF BeginWrite, OutboundInv, LedgerAgrees, TypeOK, operation, authority, ledger, connector, provider, LivePCs
<1>3. LiveKnown'
  BY <1>1 DEF LiveKnown, BeginWrite, Call, operation, ledger, provider, ManifestBatch, OutboundInv, LedgerAgrees, TypeOK, Calls
<1>4. ResumeKnown'
  BY <1>1, ResumeStays DEF BeginWrite, operation, provider
<1>5. \A b \in Attempts : spool[b] \notin {"none", "sealed"} => spool'[b] \notin {"none", "sealed"}
  BY DEF BeginWrite, Fresh, OutboundInv, LedgerAgrees, TypeOK, connector
<1> QED BY <1>1, <1>2, <1>3, <1>4, <1>5, ConnectorKeeps DEF BeginWrite, provider

LEMMA AcknowledgeReportedKeeps ==
  ASSUME OutboundInv, AcknowledgeReported
  PROVE  OutboundInv'
<1>1. opState \notin {"none", "queued"} /\ LiveKnown /\ ResumeKnown
  BY Awake, CallsKnown DEF AcknowledgeReported
<1>2. TypeOK'
  BY CallTypes DEF AcknowledgeReported, OutboundInv, LedgerAgrees, TypeOK, operation, authority, ledger, connector, provider, LivePCs
<1>3. LiveKnown'
  BY <1>1 DEF LiveKnown, AcknowledgeReported, Idle, Call, operation, ledger, provider, ManifestBatch, OutboundInv, LedgerAgrees, TypeOK, Calls
<1>4. ResumeKnown'
  BY <1>1, ResumeStays DEF AcknowledgeReported, operation, provider
<1>5. \A b \in Attempts : spool[b] \notin {"none", "sealed"} => spool'[b] \notin {"none", "sealed"}
  BY DEF AcknowledgeReported, OutboundInv, LedgerAgrees, TypeOK, connector
<1> QED BY <1>1, <1>2, <1>3, <1>4, <1>5, ConnectorKeeps DEF AcknowledgeReported, provider

LEMMA CompleteEntryKeeps ==
  ASSUME OutboundInv, CompleteEntry
  PROVE  OutboundInv'
<1>1. opState \notin {"none", "queued"} /\ LiveKnown /\ ResumeKnown
  BY Awake, CallsKnown DEF CompleteEntry
<1>2. TypeOK'
  BY CallTypes DEF CompleteEntry, OutboundInv, LedgerAgrees, TypeOK, operation, authority, ledger, connector, provider
<1>3. LiveKnown'
  BY DEF LiveKnown, CompleteEntry, Idle, Call
<1>4. ResumeKnown'
  BY <1>1, ResumeStays DEF CompleteEntry, operation, provider
<1>5. \A b \in Attempts : spool[b] \notin {"none", "sealed"} => spool'[b] \notin {"none", "sealed"}
  BY DEF CompleteEntry, OutboundInv, LedgerAgrees, TypeOK, connector
<1> QED BY <1>1, <1>2, <1>3, <1>4, <1>5, ConnectorKeeps DEF CompleteEntry, provider

LEMMA AbandonKeeps ==
  ASSUME OutboundInv, Abandon
  PROVE  OutboundInv'
<1>1. opState \notin {"none", "queued"} /\ LiveKnown /\ ResumeKnown
  BY Awake, CallsKnown DEF Abandon
<1>2. TypeOK'
  BY CallTypes DEF Abandon, OutboundInv, LedgerAgrees, TypeOK, operation, authority, ledger, connector, provider
<1>3. LiveKnown'
  BY DEF LiveKnown, Abandon, Idle, Call
<1>4. ResumeKnown'
  BY <1>1, ResumeStays DEF Abandon, operation, provider
<1>5. \A b \in Attempts : spool[b] \notin {"none", "sealed"} => spool'[b] \notin {"none", "sealed"}
  BY DEF Abandon, OutboundInv, LedgerAgrees, TypeOK, connector
<1> QED BY <1>1, <1>2, <1>3, <1>4, <1>5, ConnectorKeeps DEF Abandon, provider

LEMMA CrashKeeps ==
  ASSUME OutboundInv, Crash
  PROVE  OutboundInv'
<1>1. opState \notin {"none", "queued"} /\ LiveKnown /\ ResumeKnown
  BY Awake, CallsKnown DEF Crash
<1>2. TypeOK'
  BY CallTypes, ParameterTypes DEF Crash, NoToken, Tokens, OutboundInv, LedgerAgrees, TypeOK, operation, authority, ledger, connector, provider
<1>3. LiveKnown'
  BY DEF LiveKnown, Crash, Idle, Call
<1>4. ResumeKnown'
  BY DEF ResumeKnown, Crash, Idle, Call
<1>5. \A b \in Attempts : spool[b] \notin {"none", "sealed"} => spool'[b] \notin {"none", "sealed"}
  BY DEF Crash, OutboundInv, LedgerAgrees, TypeOK, connector
<1> QED BY <1>1, <1>2, <1>3, <1>4, <1>5, ConnectorKeeps DEF Crash, provider

LEMMA ResumeEntryKeeps ==
  ASSUME OutboundInv, NEW a \in Attempts, ResumeEntry(a)
  PROVE  OutboundInv'
<1>1. opState \notin {"none", "queued"} /\ LiveKnown /\ ResumeKnown
  BY Awake, CallsKnown DEF ResumeEntry
<1>2. TypeOK'
  BY CallTypes, UnknownIsTruthful DEF ResumeEntry, ResumePCs, OutboundInv, LedgerAgrees, TypeOK, operation, authority, ledger, connector, provider
<1>3. LiveKnown'
  BY <1>1, LiveStays DEF ResumeEntry, operation, ledger, provider
<1>4. ResumeKnown'
  BY UnknownIsTruthful DEF ResumeKnown, ResumeEntry, Call, operation, provider, ManifestBatch, OutboundInv, LedgerAgrees, TypeOK
<1>5. \A b \in Attempts : spool[b] \notin {"none", "sealed"} => spool'[b] \notin {"none", "sealed"}
  BY DEF ResumeEntry, OutboundInv, LedgerAgrees, TypeOK, connector
<1> QED BY <1>1, <1>2, <1>3, <1>4, <1>5, ConnectorKeeps DEF ResumeEntry, provider

LEMMA ResumeAcknowledgeKeeps ==
  ASSUME OutboundInv, ResumeAcknowledge
  PROVE  OutboundInv'
<1>1. opState \notin {"none", "queued"} /\ LiveKnown /\ ResumeKnown
  BY Awake, CallsKnown DEF ResumeAcknowledge
<1>2. TypeOK'
  BY CallTypes DEF ResumeAcknowledge, OutboundInv, LedgerAgrees, TypeOK, operation, authority, ledger, connector, provider, ResumePCs
<1>3. LiveKnown'
  BY <1>1, LiveStays DEF ResumeAcknowledge, operation, ledger, provider
<1>4. ResumeKnown'
  BY <1>1 DEF ResumeKnown, ResumeAcknowledge, operation, provider, ManifestBatch, OutboundInv, LedgerAgrees, TypeOK, Calls
<1>5. \A b \in Attempts : spool[b] \notin {"none", "sealed"} => spool'[b] \notin {"none", "sealed"}
  BY DEF ResumeAcknowledge, OutboundInv, LedgerAgrees, TypeOK, connector
<1> QED BY <1>1, <1>2, <1>3, <1>4, <1>5, ConnectorKeeps DEF ResumeAcknowledge, provider

LEMMA ResumeReportedKeeps ==
  ASSUME OutboundInv, ResumeReported
  PROVE  OutboundInv'
<1>1. opState \notin {"none", "queued"} /\ LiveKnown /\ ResumeKnown
  BY Awake, CallsKnown DEF ResumeReported
<1>2. TypeOK'
  BY CallTypes DEF ResumeReported, OutboundInv, LedgerAgrees, TypeOK, operation, authority, ledger, connector, provider
<1>3. LiveKnown'
  BY <1>1, LiveStays DEF ResumeReported, operation, ledger, provider
<1>4. ResumeKnown'
  BY DEF ResumeKnown, ResumeReported, Idle, Call
<1>5. \A b \in Attempts : spool[b] \notin {"none", "sealed"} => spool'[b] \notin {"none", "sealed"}
  BY DEF ResumeReported, OutboundInv, LedgerAgrees, TypeOK, connector
<1> QED BY <1>1, <1>2, <1>3, <1>4, <1>5, ConnectorKeeps DEF ResumeReported, provider

LEMMA ResumeAbandonKeeps ==
  ASSUME OutboundInv, ResumeAbandon
  PROVE  OutboundInv'
<1>1. opState \notin {"none", "queued"} /\ LiveKnown /\ ResumeKnown
  BY Awake, CallsKnown DEF ResumeAbandon
<1>2. TypeOK'
  BY CallTypes DEF ResumeAbandon, OutboundInv, LedgerAgrees, TypeOK, operation, authority, ledger, connector, provider
<1>3. LiveKnown'
  BY <1>1, LiveStays DEF ResumeAbandon, operation, ledger, provider
<1>4. ResumeKnown'
  BY DEF ResumeKnown, ResumeAbandon, Idle, Call
<1>5. \A b \in Attempts : spool[b] \notin {"none", "sealed"} => spool'[b] \notin {"none", "sealed"}
  BY DEF ResumeAbandon, OutboundInv, LedgerAgrees, TypeOK, connector
<1> QED BY <1>1, <1>2, <1>3, <1>4, <1>5, ConnectorKeeps DEF ResumeAbandon, provider

(* The one step that writes: its spool was sealed, so it never wrote.      *)
LEMMA AcknowledgeAndWriteKeeps ==
  ASSUME OutboundInv, AcknowledgeAndWrite
  PROVE  OutboundInv'
<1> DEFINE a == live.attempt
<1>1. opState \notin {"none", "queued"} /\ LiveKnown /\ ResumeKnown
  BY Awake, CallsKnown DEF AcknowledgeAndWrite
<1>2. a \in Attempts /\ intent[a] # "none" /\ (a.slot # CreateSlot => listed)
  BY <1>1 DEF LiveKnown, AcknowledgeAndWrite
<1>3. TypeOK'
  <2>1. live' \in Calls(LivePCs)
    BY CallTypes DEF AcknowledgeAndWrite, LivePCs, OutboundInv, LedgerAgrees, TypeOK
  <2>2. writes' \in [Attempts -> Nat] /\ inflight' \in SUBSET Attempts
    BY <1>2 DEF AcknowledgeAndWrite, OutboundInv, LedgerAgrees, TypeOK
  <2> HIDE DEF a
  <2> QED BY <2>1, <2>2 DEF AcknowledgeAndWrite, OutboundInv, LedgerAgrees, TypeOK, operation, authority, ledger, connector, provider
<1>4. LiveKnown'
  BY <1>1, <1>2 DEF LiveKnown, AcknowledgeAndWrite, operation, ledger, provider, OutboundInv, LedgerAgrees, TypeOK, Calls
<1>5. ResumeKnown'
  BY <1>1, ResumeStays DEF AcknowledgeAndWrite, operation
<1>6. BackendKept'
  <2>1. UNCHANGED <<operation, grant, ledger>> /\ present' = present /\ listed' = listed
    BY DEF AcknowledgeAndWrite, authority
  <2> QED BY <2>1, BackendStays DEF OutboundInv, LedgerAgrees, TypeOK
<1>7. writes[a] = 0
  BY <1>2 DEF AcknowledgeAndWrite, OutboundInv, LedgerAgrees, WriteAhead, TypeOK
<1>8. WrittenOnce'
  <2>1. \A b \in Attempts : b.slot = a.slot /\ intent[b] # "none" => b = a
    BY <1>2 DEF OutboundInv, IntentsInOrder
  <2>2. \A b \in Attempts : writes[b] > 0 => intent[b] # "none"
    BY DEF OutboundInv, LedgerAgrees, WriteAhead
  <2>3. writes' = [writes EXCEPT ![a] = 1] /\ writes \in [Attempts -> Nat]
    BY <1>7 DEF AcknowledgeAndWrite, OutboundInv, LedgerAgrees, TypeOK
  <2> HIDE DEF a
  <2> QED BY <1>2, <2>1, <2>2, <2>3 DEF OutboundInv, WrittenOnce
<1>9. WriteAhead'
  <2>1. /\ spool' = [spool EXCEPT ![a] = "prepared"] /\ spool[a] = "sealed"
        /\ writes' = [writes EXCEPT ![a] = 1] /\ UNCHANGED <<intent, report, reconciliation>>
    BY <1>7 DEF AcknowledgeAndWrite, OutboundInv, LedgerAgrees, TypeOK, ledger
  <2>2. /\ spool \in [Attempts -> {"none", "sealed", "prepared", "reported", "completed"}]
        /\ writes \in [Attempts -> Nat] /\ intent \in [Attempts -> IntentStates]
    BY DEF OutboundInv, LedgerAgrees, TypeOK
  <2>3. \A b \in Attempts : intent[b] # "none" /\ ~Recorded(b) /\ reconciliation[b] = "none" =>
          intent[b] \in Open
    BY <2>2 DEF OutboundInv, IntentsTell, IntentStates, Open, Confirmed
  <2> HIDE DEF a
  <2>4. \A b \in Attempts : Recorded(b)' <=> Recorded(b)
    BY <2>1 DEF Recorded
  <2> QED BY <1>2, <2>1, <2>2, <2>3, <2>4 DEF WriteAhead, OutboundInv, LedgerAgrees
<1>10. ListKnown' /\ QuietBeforeConsumption'
  BY <1>1, <1>2 DEF ListKnown, QuietBeforeConsumption, OutboundInv, WrittenToList,
                    AcknowledgeAndWrite, operation, TypeOK, LedgerAgrees
<1> QED BY <1>3, <1>4, <1>5, <1>6, <1>8, <1>9, <1>10, Together

-----------------------------------------------------------------------------
(* The provider.                                                           *)
LEMMA ProviderKeeps ==
  ASSUME OutboundInv, UNCHANGED <<operation, authority, ledger, connector, resume, writes>>,
         present \subseteq present', listed => listed',
         TypeOK', LiveKnown', ListKnown', QuietBeforeConsumption'
  PROVE  OutboundInv'
<1>1. BackendKept'
  BY BackendStays DEF authority, TypeOK
<1>2. ResumeKnown'
  BY CallsKnown, ResumeStays DEF operation
<1>3. WriteAhead' /\ WrittenOnce'
  BY <1>1, WritesStay DEF BackendKept, connector, ledger
<1> QED BY <1>1, <1>2, <1>3, Together

(* Each item gets one answer, and no item is said to be there that is not. *)
LEMMA AnswersAreTruthful ==
  ASSUME NEW batch \in SUBSET Items, NEW added \in SUBSET (batch \ present),
         NEW silent \in SUBSET batch
  PROVE  LET items == ItemResults(batch, added, silent)
         IN /\ items \in [Items -> Settled \cup {"outcome-unknown", "none"}]
            /\ \A i \in Items : items[i] = "none" <=> i \notin batch
            /\ \A i \in Items : items[i] = "outcome-unknown" => i \in silent
            /\ \A i \in Items : items[i] \in {"applied", "already-present"} =>
                 i \in present \cup added
BY DEF ItemResults, Settled

(* What the provider still has to do leaves the backend asleep or awake.   *)
LEMMA QuietStays ==
  ASSUME OutboundInv, UNCHANGED <<operation, authority, ledger, connector, resume>>,
         live.pc # "idle" \/ UNCHANGED live
  PROVE  QuietBeforeConsumption'
BY Awake DEF OutboundInv, QuietBeforeConsumption, operation, authority, ledger, connector

LEMMA ProviderAnswersKeeps ==
  ASSUME OutboundInv, ProviderAnswers
  PROVE  OutboundInv'
<1> DEFINE a == live.attempt
           batch == ManifestBatch(a.slot)
<1>1. LiveKnown /\ ResumeKnown /\ live.pc = "provider" /\ a \in Attempts
  BY CallsKnown DEF ProviderAnswers, LiveKnown
<1>2. batch \subseteq Items
  BY <1>1, BatchesAreItems DEF ManifestBatch, OutboundInv, LedgerAgrees, TypeOK
<1>3. PICK added \in SUBSET (batch \ present), silent \in SUBSET batch :
        LET items == ItemResults(batch, added, silent)
            failed == \E i \in Items : items[i] = "failed"
        IN /\ present' = present \cup added
           /\ \E problem \in {"none", "final", "retryable"} :
                /\ silent # {} => problem = "none"
                /\ silent = {} /\ failed => problem # "none"
                /\ ~failed => problem # "retryable"
                /\ a.slot = CreateSlot => problem = "none"
                /\ Answered(Result(IF silent # {} THEN "outcome-unknown"
                                   ELSE IF problem = "none" THEN "completed" ELSE "partial",
                                   problem, items))
  BY <1>1 DEF ProviderAnswers
<1> DEFINE items == ItemResults(batch, added, silent)
<1>4. PICK problem \in {"none", "final", "retryable"} :
        Answered(Result(IF silent # {} THEN "outcome-unknown"
                        ELSE IF problem = "none" THEN "completed" ELSE "partial",
                        problem, items))
  BY <1>3
<1> DEFINE r == Result(IF silent # {} THEN "outcome-unknown"
                       ELSE IF problem = "none" THEN "completed" ELSE "partial",
                       problem, items)
<1>5. /\ items \in [Items -> Settled \cup {"outcome-unknown", "none"}]
      /\ \A i \in Items : items[i] = "none" <=> i \notin batch
      /\ \A i \in Items : items[i] = "outcome-unknown" => i \in silent
      /\ \A i \in Items : items[i] \in {"applied", "already-present"} => i \in present \cup added
  BY <1>2, AnswersAreTruthful
<1>6. r \in Results /\ Truthful(r, batch, present')
  <2> HIDE DEF items, batch
  <2> QED BY <1>3, <1>5 DEF Results, Result, Truthful, Outcomes, Problems
<1>7. /\ live' = [live EXCEPT !.pc = "report", !.result = r]
      /\ UNCHANGED <<operation, authority, ledger, connector, resume, writes>>
      /\ inflight' = inflight \ {a} /\ listed' = TRUE /\ present' = present \cup added
      /\ live \in Calls(LivePCs)
  BY <1>3, <1>4 DEF Answered, ProviderAnswers, OutboundInv, LedgerAgrees, TypeOK
<1>8. live' \in Calls(LivePCs) /\ live'.pc = "report" /\ live'.attempt = a /\ live'.result = r
  <2> HIDE DEF r, a
  <2> QED BY <1>6, <1>7 DEF Calls, LivePCs, a
<1>9. TypeOK'
  <2> HIDE DEF r, a, items, batch
  <2> QED BY <1>2, <1>3, <1>7, <1>8 DEF OutboundInv, LedgerAgrees, TypeOK, operation, authority, ledger, connector, provider
<1>10. LiveKnown'
  <2> HIDE DEF r, items
  <2> QED BY <1>1, <1>6, <1>7, <1>8 DEF LiveKnown, operation, ManifestBatch
<1>11. ListKnown' /\ QuietBeforeConsumption'
  BY <1>1, <1>7, QuietStays DEF ListKnown
<1> QED
  <2> HIDE DEF r, items
  <2> QED BY <1>7, <1>9, <1>10, <1>11, ProviderKeeps

LEMMA ProviderRefusesKeeps ==
  ASSUME OutboundInv, ProviderRefuses
  PROVE  OutboundInv'
<1> DEFINE a == live.attempt
           batch == ManifestBatch(a.slot)
           refused == [i \in Items |-> IF i \in batch THEN "failed" ELSE "none"]
<1>1. LiveKnown /\ ResumeKnown /\ live.pc = "provider" /\ a \in Attempts
  BY CallsKnown DEF ProviderRefuses, LiveKnown
<1>2. PICK problem \in Problems \ {"none"} : Answered(Result("partial", problem, refused))
  BY DEF ProviderRefuses
<1> DEFINE r == Result("partial", problem, refused)
<1>3. r \in Results /\ Truthful(r, batch, present)
  <2> HIDE DEF batch
  <2> QED BY DEF Results, Result, Truthful, Outcomes, Settled
<1>4. /\ live' = [live EXCEPT !.pc = "report", !.result = r]
      /\ UNCHANGED <<operation, authority, ledger, connector, resume, writes, present, listed>>
      /\ inflight' = inflight \ {a} /\ live \in Calls(LivePCs)
  BY <1>2 DEF Answered, ProviderRefuses, OutboundInv, LedgerAgrees, TypeOK
<1>5. live' \in Calls(LivePCs) /\ live'.pc = "report" /\ live'.attempt = a /\ live'.result = r
  <2> HIDE DEF r, a
  <2> QED BY <1>3, <1>4 DEF Calls, LivePCs, a
<1>6. TypeOK'
  <2> HIDE DEF r, a
  <2> QED BY <1>4, <1>5 DEF OutboundInv, LedgerAgrees, TypeOK, operation, authority, ledger, connector, provider
<1>7. LiveKnown'
  <2> HIDE DEF r
  <2> QED BY <1>1, <1>3, <1>4, <1>5 DEF LiveKnown, operation, ManifestBatch
<1>8. ListKnown' /\ QuietBeforeConsumption'
  BY <1>1, <1>4, QuietStays DEF ListKnown, OutboundInv, WrittenToList
<1> QED
  <2> HIDE DEF r
  <2> QED BY <1>4, <1>6, <1>7, <1>8, ProviderKeeps

LEMMA AnswerLostKeeps ==
  ASSUME OutboundInv, AnswerLost
  PROVE  OutboundInv'
<1> DEFINE a == live.attempt
           r == UnknownResult(a)
<1>1. LiveKnown /\ ResumeKnown /\ live.pc = "provider" /\ a \in Attempts
  BY CallsKnown DEF AnswerLost, LiveKnown
<1>2. r \in Results /\ Truthful(r, ManifestBatch(a.slot), present)
  BY <1>1, UnknownIsTruthful DEF OutboundInv, LedgerAgrees, TypeOK
<1>3. /\ live' = [live EXCEPT !.pc = "report", !.result = r]
      /\ UNCHANGED <<operation, authority, ledger, connector, resume, provider>>
      /\ live \in Calls(LivePCs)
  BY DEF Answered, AnswerLost, OutboundInv, LedgerAgrees, TypeOK, provider
<1>4. live' \in Calls(LivePCs) /\ live'.pc = "report" /\ live'.attempt = a /\ live'.result = r
  <2> HIDE DEF r, a
  <2> QED BY <1>2, <1>3 DEF Calls, LivePCs, a
<1>5. TypeOK'
  <2> HIDE DEF r, a
  <2> QED BY <1>3, <1>4 DEF OutboundInv, LedgerAgrees, TypeOK, operation, authority, ledger, connector, provider
<1>6. LiveKnown'
  <2> HIDE DEF r
  <2> QED BY <1>1, <1>2, <1>3, <1>4 DEF LiveKnown, operation, ManifestBatch, provider
<1>7. ListKnown' /\ QuietBeforeConsumption'
  BY <1>1, <1>3, QuietStays DEF ListKnown, OutboundInv, WrittenToList, provider
<1> QED
  <2> HIDE DEF r
  <2> QED BY <1>3, <1>5, <1>6, <1>7, ProviderKeeps DEF provider

LEMMA LateEffectKeeps ==
  ASSUME OutboundInv, NEW a \in Attempts, LateEffect(a)
  PROVE  OutboundInv'
<1> DEFINE batch == ManifestBatch(a.slot)
<1>1. batch \subseteq Items /\ (a.slot = CreateSlot => batch = {})
  BY BatchesAreItems DEF ManifestBatch, OutboundInv, LedgerAgrees, TypeOK
<1>2. PICK added \in SUBSET (batch \ present) : present' = present \cup added
  BY DEF LateEffect
<1>3. /\ UNCHANGED <<operation, authority, ledger, connector, live, resume, writes>>
      /\ a \in inflight /\ inflight' = inflight \ {a}
      /\ listed' \in {listed, a.slot = CreateSlot \/ listed}
  BY DEF LateEffect
<1>4. (listed => listed') /\ listed' \in BOOLEAN
  BY <1>3 DEF OutboundInv, LedgerAgrees, TypeOK
<1>5. TypeOK'
  <2> HIDE DEF batch
  <2> QED BY <1>1, <1>2, <1>3, <1>4 DEF OutboundInv, LedgerAgrees, TypeOK, operation, authority, ledger, connector, provider
<1>6. LiveKnown'
  BY <1>2, <1>3, <1>4, CallsKnown, LiveStays DEF operation, ledger
<1>7. ListKnown'
  <2>1. added = {} \/ listed
    BY <1>1, <1>3 DEF OutboundInv, WrittenToList
  <2> QED BY <1>2, <1>3, <1>4, <2>1 DEF ListKnown, OutboundInv, WrittenToList
<1>8. QuietBeforeConsumption'
  BY <1>3, QuietStays
<1> QED BY <1>2, <1>3, <1>4, <1>5, <1>6, <1>7, <1>8, ProviderKeeps

LEMMA MemberAddsKeeps ==
  ASSUME OutboundInv, NEW i \in Items, MemberAdds(i)
  PROVE  OutboundInv'
<1>1. TypeOK'
  BY DEF MemberAdds, OutboundInv, LedgerAgrees, TypeOK, operation, authority, ledger, connector, provider
<1>2. LiveKnown'
  BY CallsKnown, LiveStays DEF MemberAdds, operation, ledger
<1>3. ListKnown' /\ QuietBeforeConsumption'
  BY QuietStays DEF MemberAdds, ListKnown, OutboundInv, WrittenToList
<1> QED BY <1>1, <1>2, <1>3, ProviderKeeps DEF MemberAdds

-----------------------------------------------------------------------------
(* The backend's transactions.                                             *)

(* A prepared intent is the only open one, after those of the writes       *)
(* before it.                                                              *)
LEMMA PrepareKeepsOrder ==
  ASSUME OutboundInv, NEW a \in Attempts, opState = "running", SlotFree(a.slot), ValidIntent(a),
         intent' = [intent EXCEPT ![a] = "prepared"]
  PROVE  OneOpenIntent' /\ IntentsInOrder'
<1>1. /\ intent \in [Attempts -> IntentStates]
      /\ \A b \in Attempts : b.slot \in Int /\ b.slot >= 0 /\ b.slot \in Slots
      /\ a.slot >= 0 /\ a.slot \in Int
  BY ParameterTypes DEF OutboundInv, LedgerAgrees, TypeOK, Attempts, Slots
<1>2. \A b \in Attempts : b.slot = a.slot => intent[b] = "none"
  BY DEF SlotFree
<1>3. \A b, c \in Attempts : intent[b] # "none" /\ intent[c] # "none" /\ b.slot = c.slot => b = c
  BY DEF OutboundInv, IntentsInOrder
<1>4. \A s \in Slots : s < a.slot /\ (s = CreateSlot => NewList) => ConfirmedSlot(s)
  <2> SUFFICES ASSUME NEW s \in Slots, s < a.slot, s = CreateSlot => NewList
               PROVE  ConfirmedSlot(s)
    OBVIOUS
  <2>1. s \in Int /\ s >= 0 /\ a.slot # CreateSlot
    BY <1>1, ParameterTypes DEF Slots, CreateSlot
  <2>2. /\ NewList => ConfirmedSlot(CreateSlot)
        /\ \A u \in 1..(a.slot - 1) : ConfirmedSlot(u)
    BY <2>1 DEF ValidIntent
  <2>3. CASE s = CreateSlot
    BY <2>2, <2>3
  <2>4. CASE s # CreateSlot
    <3>1. s \in 1..(a.slot - 1)
      BY <1>1, <2>1, <2>4 DEF CreateSlot
    <3> QED BY <2>2, <3>1
  <2> QED BY <2>3, <2>4
<1>5. ASSUME NEW b \in Attempts, intent[b] \in {"prepared", "expired"}
      PROVE  FALSE
  <2>1. b.slot # a.slot
    BY <1>2, <1>5
  <2>2. ASSUME b.slot < a.slot PROVE FALSE
    <3>1. b.slot = CreateSlot => NewList
      BY <1>5 DEF OutboundInv, IntentsInOrder
    <3>2. PICK c \in Attempts : c.slot = b.slot /\ intent[c] \in Confirmed
      BY <1>1, <1>4, <2>2, <3>1 DEF ConfirmedSlot
    <3>3. c = b
      BY <1>3, <1>5, <3>2 DEF Confirmed
    <3> QED BY <1>5, <3>2, <3>3 DEF Confirmed
  <2>3. ASSUME a.slot < b.slot PROVE FALSE
    <3>1. a.slot = CreateSlot => NewList
      BY DEF ValidIntent, CreateSlot
    <3>2. PICK c \in Attempts : c.slot = a.slot /\ intent[c] # "none"
      BY <1>1, <1>5, <2>3, <3>1 DEF OutboundInv, IntentsInOrder
    <3> QED BY <1>2, <3>2
  <2> QED BY <1>1, <2>1, <2>2, <2>3
<1>6. OneOpenIntent'
  BY <1>1, <1>5 DEF OneOpenIntent
<1>7. IntentsInOrder'
  <2>1. a.slot = CreateSlot => NewList
    BY DEF ValidIntent, CreateSlot
  <2> QED BY <1>1, <1>2, <1>3, <1>4, <2>1 DEF IntentsInOrder, OutboundInv, ConfirmedSlot, Confirmed
<1> QED BY <1>6, <1>7

LEMMA PrepareAttemptKeeps ==
  ASSUME OutboundInv, NEW a \in Attempts, NEW t, PrepareAttempt(a, t),
         UNCHANGED <<operation, authority, report, reconciliation, provider>>
  PROVE  /\ BackendKept' /\ opState \notin {"none", "queued"}
         /\ intent' \in [Attempts -> IntentStates] /\ intent'[a] # "none"
         /\ \A b \in Attempts : intent[b] # "none" => intent'[b] # "none"
<1>1. opState \notin {"none", "queued"}
  BY Awake DEF PrepareAttempt, Authorized
<1>2. intent \in [Attempts -> IntentStates]
  BY DEF OutboundInv, LedgerAgrees, TypeOK
<1>3. CASE intent[a] # "none" /\ UNCHANGED intent
  <2>1. BackendKept'
    BY <1>3, BackendStays DEF OutboundInv, LedgerAgrees, TypeOK, authority, ledger, provider
  <2> QED BY <1>1, <1>2, <1>3, <2>1
<1>4. CASE /\ opState = "running" /\ SlotFree(a.slot) /\ ValidIntent(a)
           /\ intent' = [intent EXCEPT ![a] = "prepared"]
  <2>1. intent[a] = "none"
    BY <1>4 DEF SlotFree
  <2>2. /\ UNCHANGED <<opState, transferState, adds, itemStatus, grant, report, reconciliation,
                       present, listed>>
        /\ \A b \in Attempts : b # a => intent'[b] = intent[b]
        /\ intent'[a] = "prepared"
    BY <1>2, <1>4 DEF operation, authority, provider
  <2>3. OneOpenIntent' /\ IntentsInOrder'
    BY <1>4, PrepareKeepsOrder
  <2>4. TransferFollowsOperation' /\ OneConsumedGrant' /\ OneUsableGrant'
    BY <2>2 DEF OutboundInv, LedgerAgrees, TransferFollowsOperation, OneConsumedGrant,
                OneUsableGrant
  <2>5. IntentsTell'
    BY <2>2 DEF OutboundInv, IntentsTell, Recorded
  <2>6. UnknownIsOpen'
    BY <2>1, <2>2 DEF OutboundInv, UnknownIsOpen, ManifestBatch
  <2>7. OutcomesAgree'
    BY <1>4, <2>2 DEF OutboundInv, OutcomesAgree, AppliedIsPresent, CompletedIsPresent,
                      UnknownHasEvidence
  <2>8. \A b \in Attempts :
          Recorded(b)' => Truthful(report[b], ManifestBatch(b.slot), present)'
    BY <2>2 DEF OutboundInv, ResultsAreTruthful, Recorded, ManifestBatch
  <2>9. BackendKept'
    BY <2>3, <2>4, <2>5, <2>6, <2>7, <2>8 DEF BackendKept
  <2> QED BY <1>1, <1>2, <1>4, <2>2, <2>9 DEF IntentStates, Open
<1> QED BY <1>3, <1>4 DEF PrepareAttempt

(* A truthful result of an attempt, by a report or a reconciliation.       *)
LEMMA RefreshKeeps ==
  ASSUME OutboundInv, NEW a \in Attempts, NEW r \in Results, NEW p \in Problems, NEW x,
         Truthful(r, ManifestBatch(a.slot), present),
         opState \in {"running", "outcome-unknown"},
         RefreshOperation(a.slot, r.outcome, p, ResultStatus(r)),
         UNCHANGED <<adds, present, listed>>,
         intent' = [intent EXCEPT ![a] = x], r.outcome = "outcome-unknown" => x = "unknown"
  PROVE  /\ OutcomesAgree' /\ UnknownIsOpen' /\ TransferFollowsOperation'
         /\ opState' \in OpStates \ {"none", "queued"} /\ transferState' \in TransferStates
         /\ itemStatus' \in [Items -> Statuses]
<1> DEFINE batch == ManifestBatch(a.slot)
<1>1. TypeOK
  BY DEF OutboundInv, LedgerAgrees
<1>2. /\ itemStatus' \in [Items -> Statuses]
      /\ \A i \in Items : i \notin batch => itemStatus'[i] = itemStatus[i]
      /\ \A i \in Items : i \in batch => itemStatus'[i] = r.items[i] /\ r.items[i] # "none"
  BY <1>1, StatusAfterResult DEF RefreshOperation
<1>3. r.outcome \in Outcomes /\ IsFinal(a.slot) \in BOOLEAN
  BY DEF Truthful, IsFinal
<1>4. /\ opState' \in OpStates \ {"none", "queued"}
      /\ opState' = "outcome-unknown" <=>
           r.outcome = "outcome-unknown" \/ \E i \in Items : itemStatus'[i] = "outcome-unknown"
      /\ opState' = "completed" =>
           \A i \in Items : itemStatus'[i] \in {"applied", "already-present"}
  BY <1>2, <1>3, RefreshedStates DEF RefreshOperation
<1>5. transferState = "approved"
  BY DEF OutboundInv, LedgerAgrees, TransferFollowsOperation, Final
<1>6. transferState' = IF opState' \in Final THEN opState' ELSE transferState
  BY DEF RefreshOperation, EndTransfer
<1>7. TransferFollowsOperation' /\ transferState' \in TransferStates
  BY <1>4, <1>5, <1>6 DEF TransferFollowsOperation, TransferStates
<1>8. AppliedIsPresent'
  <2>1. \A i \in Items : itemStatus[i] \in {"applied", "already-present"} => i \in present
    BY DEF OutboundInv, OutcomesAgree, AppliedIsPresent
  <2> QED BY <1>2, <2>1 DEF AppliedIsPresent, Truthful
<1>9. CompletedIsPresent'
  <2> SUFFICES ASSUME opState' = "completed" PROVE listed' /\ present' = Items
    BY DEF CompletedIsPresent
  <2>1. Items \subseteq present' /\ present' \subseteq Items
    BY <1>1, <1>4, <1>8 DEF AppliedIsPresent, TypeOK
  <2>2. 1 \in Items
    BY ParameterTypes DEF Items
  <2> QED BY <2>1, <2>2 DEF OutboundInv, WrittenToList
<1>10. intent'[a] = x /\ \A b \in Attempts : b # a => intent'[b] = intent[b]
  BY <1>1 DEF TypeOK
<1>11. UnknownIsOpen'
  <2> SUFFICES ASSUME NEW i \in Items, itemStatus'[i] = "outcome-unknown"
               PROVE  \E b \in Attempts : /\ intent'[b] \in {"unknown", "expired"}
                                          /\ i \in ManifestBatch(b.slot)'
    BY DEF UnknownIsOpen
  <2>1. CASE i \in batch
    <3>1. x = "unknown"
      BY <1>2, <2>1 DEF Truthful
    <3> QED BY <1>10, <2>1, <3>1 DEF ManifestBatch
  <2>2. CASE i \notin batch
    <3>1. PICK b \in Attempts : intent[b] \in {"unknown", "expired"} /\ i \in ManifestBatch(b.slot)
      BY <1>2, <2>2 DEF OutboundInv, UnknownIsOpen
    <3> QED BY <1>10, <2>2, <3>1 DEF ManifestBatch
  <2> QED BY <2>1, <2>2
<1>12. UnknownHasEvidence'
  BY <1>4, <1>10, <1>11 DEF UnknownHasEvidence, UnknownIsOpen
<1> QED BY <1>2, <1>4, <1>7, <1>8, <1>9, <1>11, <1>12 DEF OutcomesAgree

LEMMA RecordAttemptKeeps ==
  ASSUME OutboundInv, NEW a \in Attempts, NEW t, NEW r \in Results, RecordAttempt(a, t, r),
         Truthful(r, ManifestBatch(a.slot), present), UNCHANGED <<authority, provider>>
  PROVE  /\ BackendKept' /\ {opState, opState'} \cap {"none", "queued"} = {}
         /\ opState' \in OpStates /\ transferState' \in TransferStates
         /\ itemStatus' \in [Items -> Statuses] /\ UNCHANGED <<cancelRequested, adds>>
         /\ intent' \in [Attempts -> IntentStates] /\ report' \in [Attempts -> Results]
         /\ reconciliation' = reconciliation
         /\ \A b \in Attempts : intent[b] # "none" => intent'[b] # "none"
<1>1. opState \notin {"none", "queued"}
  BY Awake DEF RecordAttempt, Authorized
<1>2. TypeOK /\ UNCHANGED <<grant, present, listed>>
  BY DEF OutboundInv, LedgerAgrees, authority, provider
<1>3. CASE UNCHANGED <<operation, ledger>>
  BY <1>1, <1>2, <1>3, BackendStays DEF TypeOK, operation, ledger
<1>4. CASE /\ ~Recorded(a) /\ MayRecord(r.outcome) /\ intent[a] \in {"prepared", "expired"}
           /\ report' = [report EXCEPT ![a] = r]
           /\ intent' = [intent EXCEPT ![a] = IntentAfter(r.outcome)]
           /\ RefreshOperation(a.slot, r.outcome, r.problem, ResultStatus(r))
           /\ UNCHANGED <<cancelRequested, adds, reconciliation>>
  <2> DEFINE x == IntentAfter(r.outcome)
  <2>1. /\ r.outcome \in Outcomes /\ r.problem \in Problems /\ r # NoResult
        /\ opState \in {"running", "outcome-unknown"}
    BY <1>4 DEF Truthful, Results, NoResult, Result, Outcomes, MayRecord
  <2>2. /\ x \in {"completed", "partial", "unknown"}
        /\ r.outcome = "outcome-unknown" => x = "unknown"
        /\ x \in {"completed", "partial"} => r.outcome = x
    BY <2>1 DEF IntentAfter, Outcomes
  <2>3. /\ OutcomesAgree' /\ UnknownIsOpen' /\ TransferFollowsOperation'
        /\ opState' \in OpStates \ {"none", "queued"} /\ transferState' \in TransferStates
        /\ itemStatus' \in [Items -> Statuses]
    BY <1>2, <1>4, <2>1, <2>2, RefreshKeeps
  <2> HIDE DEF x
  <2>4. /\ intent \in [Attempts -> IntentStates] /\ report \in [Attempts -> Results]
        /\ intent' = [intent EXCEPT ![a] = x] /\ report' = [report EXCEPT ![a] = r]
        /\ intent'[a] = x /\ report'[a] = r
        /\ \A b \in Attempts : b # a => intent'[b] = intent[b] /\ report'[b] = report[b]
    BY <1>2, <1>4 DEF TypeOK, x
  <2>5. OneOpenIntent' /\ IntentsInOrder'
    BY <1>4, <2>2, <2>4 DEF OutboundInv, LedgerAgrees, OneOpenIntent, IntentsInOrder
  <2>6. OneConsumedGrant' /\ OneUsableGrant'
    <3>1. \A g \in Generations : grant[g] # "issued"
      BY <1>1 DEF OutboundInv, OneUsableGrant
    <3> QED BY <1>2, <3>1 DEF OutboundInv, OneConsumedGrant, OneUsableGrant
  <2>7. IntentsTell'
    BY <1>4, <2>1, <2>2, <2>4 DEF OutboundInv, IntentsTell, Recorded
  <2>8. \A b \in Attempts :
          Recorded(b)' => Truthful(report[b], ManifestBatch(b.slot), present)'
    BY <1>2, <1>4, <2>4 DEF OutboundInv, ResultsAreTruthful, Recorded, ManifestBatch
  <2>9. BackendKept'
    BY <2>3, <2>5, <2>6, <2>7, <2>8 DEF BackendKept
  <2>10. intent' \in [Attempts -> IntentStates] /\ report' \in [Attempts -> Results]
    BY <2>2, <2>4 DEF IntentStates, Open, Confirmed
  <2> QED BY <1>1, <1>4, <2>2, <2>3, <2>4, <2>9, <2>10
<1> QED BY <1>3, <1>4 DEF RecordAttempt

LEMMA RecordReconciliationKeeps ==
  ASSUME OutboundInv, NEW a \in Attempts, NEW t, NEW r \in Results,
         RecordReconciliation(a, t, r), Truthful(r, ManifestBatch(a.slot), present),
         UNCHANGED <<authority, provider>>
  PROVE  /\ BackendKept' /\ {opState, opState'} \cap {"none", "queued"} = {}
         /\ opState' \in OpStates /\ transferState' \in TransferStates
         /\ itemStatus' \in [Items -> Statuses] /\ UNCHANGED <<cancelRequested, adds, report>>
         /\ intent' \in [Attempts -> IntentStates]
         /\ reconciliation' \in [Attempts -> Outcomes \cup {"none"}]
         /\ \A b \in Attempts : intent[b] # "none" => intent'[b] # "none"
<1> DEFINE x == ReconciledIntent(r.outcome)
<1>1. TypeOK /\ UNCHANGED <<grant, present, listed>>
  BY DEF OutboundInv, LedgerAgrees, authority, provider
<1>2. /\ opState = "outcome-unknown" /\ intent[a] # "none"
      /\ reconciliation' = [reconciliation EXCEPT ![a] = r.outcome]
      /\ intent' = [intent EXCEPT ![a] = x]
      /\ RefreshOperation(a.slot, r.outcome, "none", ResultStatus(r))
      /\ UNCHANGED <<cancelRequested, adds, report>>
  BY DEF RecordReconciliation, Reconcilable
<1>3. r.outcome \in Outcomes /\ "none" \in Problems
  BY DEF Truthful, Problems
<1>4. /\ x \in {"reconciled-completed", "reconciled-partial", "unknown"}
      /\ r.outcome = "outcome-unknown" => x = "unknown"
      /\ x = "reconciled-completed" => r.outcome = "completed"
      /\ x = "reconciled-partial" => r.outcome = "partial"
  BY <1>3 DEF ReconciledIntent, Outcomes
<1>5. /\ OutcomesAgree' /\ UnknownIsOpen' /\ TransferFollowsOperation'
      /\ opState' \in OpStates \ {"none", "queued"} /\ transferState' \in TransferStates
      /\ itemStatus' \in [Items -> Statuses]
  BY <1>1, <1>2, <1>3, <1>4, RefreshKeeps
<1> HIDE DEF x
<1>6. /\ intent \in [Attempts -> IntentStates]
      /\ reconciliation \in [Attempts -> Outcomes \cup {"none"}]
      /\ intent'[a] = x /\ reconciliation'[a] = r.outcome
      /\ \A b \in Attempts : b # a =>
           intent'[b] = intent[b] /\ reconciliation'[b] = reconciliation[b]
  BY <1>1, <1>2 DEF TypeOK
<1>7. OneOpenIntent' /\ IntentsInOrder'
  BY <1>2, <1>4, <1>6 DEF OutboundInv, LedgerAgrees, OneOpenIntent, IntentsInOrder
<1>8. OneConsumedGrant' /\ OneUsableGrant'
  <2>1. \A g \in Generations : grant[g] # "issued"
    BY <1>2 DEF OutboundInv, OneUsableGrant
  <2> QED BY <1>1, <2>1 DEF OutboundInv, OneConsumedGrant, OneUsableGrant
<1>9. IntentsTell'
  BY <1>2, <1>4, <1>6 DEF OutboundInv, IntentsTell, Recorded
<1>10. \A b \in Attempts :
        Recorded(b)' => Truthful(report[b], ManifestBatch(b.slot), present)'
  BY <1>1, <1>2 DEF OutboundInv, ResultsAreTruthful, Recorded, ManifestBatch
<1>11. BackendKept'
  BY <1>5, <1>7, <1>8, <1>9, <1>10 DEF BackendKept
<1>12. /\ intent' \in [Attempts -> IntentStates]
       /\ reconciliation' \in [Attempts -> Outcomes \cup {"none"}]
  BY <1>2, <1>3, <1>4, <1>6 DEF IntentStates, Open, Confirmed
<1> QED BY <1>2, <1>4, <1>5, <1>6, <1>11, <1>12

-----------------------------------------------------------------------------
(* Calls that reach the backend.                                           *)
LEMMA CallKeeps ==
  ASSUME OutboundInv, UNCHANGED <<connector, provider>>, opState' \notin {"none", "queued"},
         TypeOK', BackendKept', LiveKnown', ResumeKnown',
         \A a \in Attempts : intent[a] # "none" => intent'[a] # "none"
  PROVE  OutboundInv'
<1>1. WriteAhead' /\ WrittenOnce'
  BY WritesStay DEF BackendKept, connector, provider
<1>2. ListKnown' /\ QuietBeforeConsumption'
  BY DEF ListKnown, QuietBeforeConsumption, OutboundInv, WrittenToList, provider
<1> QED BY <1>1, <1>2, Together

LEMMA PrepareWriteKeeps ==
  ASSUME OutboundInv, PrepareWrite
  PROVE  OutboundInv'
<1> DEFINE a == live.attempt
<1>1. LiveKnown /\ ResumeKnown /\ live.pc = "prepare" /\ a \in Attempts
  BY CallsKnown DEF PrepareWrite, LiveKnown
<1>2. /\ live' = [live EXCEPT !.pc = "acknowledge"] /\ live \in Calls(LivePCs)
      /\ UNCHANGED <<operation, authority, report, reconciliation, connector, resume, provider>>
      /\ PrepareAttempt(a, live.token)
  BY DEF PrepareWrite, OutboundInv, LedgerAgrees, TypeOK
<1>3. live' \in Calls(LivePCs) /\ live'.pc = "acknowledge" /\ live'.attempt = a
  BY <1>2 DEF Calls, LivePCs
<1> HIDE DEF a
<1>4. /\ BackendKept' /\ opState \notin {"none", "queued"}
      /\ intent' \in [Attempts -> IntentStates] /\ intent'[a] # "none"
      /\ \A b \in Attempts : intent[b] # "none" => intent'[b] # "none"
  BY <1>1, <1>2, PrepareAttemptKeeps
<1>5. TypeOK'
  BY <1>2, <1>3, <1>4 DEF OutboundInv, LedgerAgrees, TypeOK, operation, authority, ledger, connector, provider
<1>6. LiveKnown'
  BY <1>1, <1>2, <1>3, <1>4 DEF LiveKnown, provider, a
<1>7. ResumeKnown'
  BY <1>1, <1>2, ResumeStays DEF operation, provider
<1> QED BY <1>2, <1>4, <1>5, <1>6, <1>7, CallKeeps DEF operation

LEMMA ResumePrepareKeeps ==
  ASSUME OutboundInv, ResumePrepare
  PROVE  OutboundInv'
<1> DEFINE a == resume.attempt
<1>1. LiveKnown /\ ResumeKnown /\ resume.pc = "prepare" /\ a \in Attempts
  BY CallsKnown DEF ResumePrepare, ResumeKnown
<1>2. /\ resume' = [resume EXCEPT !.pc = "acknowledge"] /\ resume \in Calls(ResumePCs)
      /\ UNCHANGED <<operation, authority, report, reconciliation, connector, live, provider>>
      /\ PrepareAttempt(a, resume.token)
  BY DEF ResumePrepare, OutboundInv, LedgerAgrees, TypeOK
<1>3. /\ resume' \in Calls(ResumePCs) /\ resume'.attempt = a /\ resume'.result = resume.result
  BY <1>2 DEF Calls, ResumePCs
<1> HIDE DEF a
<1>4. /\ BackendKept' /\ opState \notin {"none", "queued"}
      /\ intent' \in [Attempts -> IntentStates]
      /\ \A b \in Attempts : intent[b] # "none" => intent'[b] # "none"
  BY <1>1, <1>2, PrepareAttemptKeeps
<1>5. TypeOK'
  BY <1>2, <1>3, <1>4 DEF OutboundInv, LedgerAgrees, TypeOK, operation, authority, ledger, connector, provider
<1>6. LiveKnown'
  BY <1>1, <1>2, <1>4, LiveStays DEF operation, provider
<1>7. ResumeKnown'
  BY <1>1, <1>2, <1>3 DEF ResumeKnown, ManifestBatch, operation, provider, a
<1> QED BY <1>2, <1>4, <1>5, <1>6, <1>7, CallKeeps DEF operation

LEMMA ReportAttemptKeeps ==
  ASSUME OutboundInv, ReportAttempt
  PROVE  OutboundInv'
<1> DEFINE a == live.attempt
           r == live.result
<1>1. LiveKnown /\ ResumeKnown /\ live.pc = "report" /\ a \in Attempts
  BY CallsKnown DEF ReportAttempt, LiveKnown
<1>2. /\ live' = [live EXCEPT !.pc = "reported"] /\ live \in Calls(LivePCs)
      /\ UNCHANGED <<authority, connector, resume, provider>>
      /\ RecordAttempt(a, live.token, r)
  BY DEF ReportAttempt, OutboundInv, LedgerAgrees, TypeOK
<1>3. /\ live' \in Calls(LivePCs) /\ live'.pc = "reported" /\ live'.attempt = a
      /\ live'.result = r /\ r \in Results
  BY <1>2 DEF Calls, LivePCs
<1>4. Truthful(r, ManifestBatch(a.slot), present)
  BY <1>1 DEF LiveKnown
<1> HIDE DEF a, r
<1>5. /\ BackendKept' /\ opState' \notin {"none", "queued"}
      /\ opState' \in OpStates /\ transferState' \in TransferStates
      /\ itemStatus' \in [Items -> Statuses] /\ UNCHANGED <<cancelRequested, adds>>
      /\ intent' \in [Attempts -> IntentStates] /\ report' \in [Attempts -> Results]
      /\ reconciliation' = reconciliation
      /\ \A b \in Attempts : intent[b] # "none" => intent'[b] # "none"
  BY <1>1, <1>2, <1>3, <1>4, RecordAttemptKeeps
<1>6. TypeOK'
  BY <1>2, <1>3, <1>5 DEF OutboundInv, LedgerAgrees, TypeOK, operation, authority, ledger, connector, provider
<1>7. LiveKnown'
  BY <1>1, <1>2, <1>3, <1>4, <1>5 DEF LiveKnown, ManifestBatch, provider
<1>8. ResumeKnown'
  BY <1>1, <1>2, <1>5, ResumeStays DEF provider
<1> QED BY <1>2, <1>5, <1>6, <1>7, <1>8, CallKeeps

LEMMA ResumeReportKeeps ==
  ASSUME OutboundInv, ResumeReport
  PROVE  OutboundInv'
<1> DEFINE a == resume.attempt
           r == resume.result
<1>1. LiveKnown /\ ResumeKnown /\ resume.pc = "report" /\ a \in Attempts
  BY CallsKnown DEF ResumeReport, ResumeKnown
<1>2. /\ resume' = [resume EXCEPT !.pc = "reported"] /\ resume \in Calls(ResumePCs)
      /\ UNCHANGED <<authority, connector, live, provider>>
      /\ RecordAttempt(a, resume.token, r)
  BY DEF ResumeReport, OutboundInv, LedgerAgrees, TypeOK
<1>3. /\ resume' \in Calls(ResumePCs) /\ resume'.attempt = a /\ resume'.result = r
      /\ r \in Results
  BY <1>2 DEF Calls, ResumePCs
<1>4. Truthful(r, ManifestBatch(a.slot), present)
  BY <1>1 DEF ResumeKnown
<1> HIDE DEF a, r
<1>5. /\ BackendKept' /\ opState' \notin {"none", "queued"}
      /\ opState' \in OpStates /\ transferState' \in TransferStates
      /\ itemStatus' \in [Items -> Statuses] /\ UNCHANGED <<cancelRequested, adds>>
      /\ intent' \in [Attempts -> IntentStates] /\ report' \in [Attempts -> Results]
      /\ reconciliation' = reconciliation
      /\ \A b \in Attempts : intent[b] # "none" => intent'[b] # "none"
  BY <1>1, <1>2, <1>3, <1>4, RecordAttemptKeeps
<1>6. TypeOK'
  BY <1>2, <1>3, <1>5 DEF OutboundInv, LedgerAgrees, TypeOK, operation, authority, ledger, connector, provider
<1>7. LiveKnown'
  BY <1>1, <1>2, <1>5, LiveStays DEF provider
<1>8. ResumeKnown'
  BY <1>1, <1>2, <1>3, <1>4, <1>5 DEF ResumeKnown, ManifestBatch, provider
<1> QED BY <1>2, <1>5, <1>6, <1>7, <1>8, CallKeeps

LEMMA ReportReconciliationKeeps ==
  ASSUME OutboundInv, ReportReconciliation
  PROVE  OutboundInv'
<1> DEFINE a == live.attempt
           r == live.result
<1>1. LiveKnown /\ ResumeKnown /\ live.pc = "reconcile" /\ a \in Attempts
  BY CallsKnown DEF ReportReconciliation, LiveKnown
<1>2. /\ live' = (IF r.outcome = "outcome-unknown" THEN Idle ELSE [live EXCEPT !.pc = "complete"])
      /\ live \in Calls(LivePCs) /\ UNCHANGED <<authority, connector, resume, provider>>
      /\ RecordReconciliation(a, live.token, r)
  BY DEF ReportReconciliation, OutboundInv, LedgerAgrees, TypeOK
<1>3. /\ live' \in Calls(LivePCs) /\ r \in Results
      /\ \/ live' = Idle
         \/ live'.pc = "complete" /\ live'.attempt = a /\ live'.result = r
  BY <1>2, CallTypes DEF Calls, LivePCs
<1>4. Truthful(r, ManifestBatch(a.slot), present)
  BY <1>1 DEF LiveKnown
<1> HIDE DEF a, r
<1>5. /\ BackendKept' /\ opState' \notin {"none", "queued"}
      /\ opState' \in OpStates /\ transferState' \in TransferStates
      /\ itemStatus' \in [Items -> Statuses] /\ UNCHANGED <<cancelRequested, adds, report>>
      /\ intent' \in [Attempts -> IntentStates]
      /\ reconciliation' \in [Attempts -> Outcomes \cup {"none"}]
      /\ \A b \in Attempts : intent[b] # "none" => intent'[b] # "none"
  BY <1>1, <1>2, <1>3, <1>4, RecordReconciliationKeeps
<1>6. TypeOK'
  BY <1>2, <1>3, <1>5 DEF OutboundInv, LedgerAgrees, TypeOK, operation, authority, ledger, connector, provider
<1>7. LiveKnown'
  BY <1>1, <1>2, <1>3, <1>4, <1>5 DEF LiveKnown, ManifestBatch, provider, Idle, Call
<1>8. ResumeKnown'
  BY <1>1, <1>2, <1>5, ResumeStays DEF provider
<1> QED BY <1>2, <1>5, <1>6, <1>7, <1>8, CallKeeps

LEMMA ObservationIsTruthful ==
  ASSUME NEW a \in Attempts, adds \subseteq Items, NEW silent \in SUBSET ManifestBatch(a.slot)
  PROVE  /\ Observation(a, silent) \in Results
         /\ Truthful(Observation(a, silent), ManifestBatch(a.slot), present)
<1> DEFINE batch == ManifestBatch(a.slot)
           items == [i \in Items |-> CASE i \notin batch -> "none"
                                       [] i \in batch /\ i \in silent -> "outcome-unknown"
                                       [] i \in batch \ silent /\ i \in present -> "applied"
                                       [] OTHER -> "failed"]
           outcome == CASE silent # {} -> "outcome-unknown"
                        [] silent = {} /\ batch \subseteq present -> "completed"
                        [] OTHER -> "partial"
<1>1. batch \subseteq Items
  BY BatchesAreItems DEF ManifestBatch
<1>2. Observation(a, silent) = Result(outcome, "none", items)
  BY DEF Observation
<1>3. /\ items \in [Items -> {"none", "outcome-unknown", "applied", "failed"}]
      /\ \A i \in Items : items[i] = "none" <=> i \notin batch
      /\ \A i \in Items : items[i] = "outcome-unknown" => i \in silent
      /\ \A i \in Items : items[i] = "applied" => i \in present
  <2> HIDE DEF batch
  <2> QED OBVIOUS
<1>4. outcome \in Outcomes /\ (silent # {} => outcome = "outcome-unknown")
  BY DEF Outcomes
<1> HIDE DEF batch, items, outcome
<1> QED BY <1>2, <1>3, <1>4 DEF Result, Results, Problems, Truthful, Settled, batch

LEMMA BeginReconcileKeeps ==
  ASSUME OutboundInv, NEW a \in Attempts, BeginReconcile(a)
  PROVE  OutboundInv'
<1>1. opState \notin {"none", "queued"} /\ LiveKnown /\ ResumeKnown /\ adds \subseteq Items
  BY Awake, CallsKnown DEF BeginReconcile, OutboundInv, LedgerAgrees, TypeOK
<1>2. PICK r \in Results : /\ live' = Call("reconcile", a, session, r)
                           /\ Truthful(r, ManifestBatch(a.slot), present)
  BY <1>1, ObservationIsTruthful, UnknownIsTruthful DEF BeginReconcile
<1>3. UNCHANGED <<operation, authority, ledger, connector, resume, provider>>
  BY DEF BeginReconcile
<1>4. live' \in Calls(LivePCs)
  BY <1>2, CallTypes DEF LivePCs, OutboundInv, LedgerAgrees, TypeOK
<1>5. TypeOK'
  BY <1>3, <1>4 DEF OutboundInv, LedgerAgrees, TypeOK, operation, authority, ledger, connector, provider
<1>6. LiveKnown'
  BY <1>2, <1>3 DEF LiveKnown, Call, operation, provider, ManifestBatch
<1>7. ResumeKnown'
  BY <1>1, <1>3, ResumeStays DEF operation, provider
<1> QED BY <1>1, <1>3, <1>5, <1>6, <1>7, ConnectorKeeps DEF connector

-----------------------------------------------------------------------------
(* The member, the clock and the sweeper.                                  *)
LEMMA BackendKeeps ==
  ASSUME OutboundInv, UNCHANGED <<connector, live, resume, provider, adds>>,
         TypeOK', BackendKept', QuietBeforeConsumption',
         \A a \in Attempts : intent[a] # "none" => intent'[a] # "none"
  PROVE  OutboundInv'
<1>1. WriteAhead' /\ WrittenOnce'
  BY WritesStay DEF BackendKept, connector, provider
<1>2. LiveKnown' /\ ResumeKnown' /\ ListKnown'
  BY CallsKnown, LiveStays, ResumeStays DEF ListKnown, OutboundInv, WrittenToList, provider
<1> QED BY <1>1, <1>2, Together

(* Everything but the flags and the state of operation and grants.         *)
LEMMA LedgerStays ==
  ASSUME OutboundInv, UNCHANGED <<adds, itemStatus, ledger, provider>>,
         \/ UNCHANGED opState
         \/ opState \notin {"none", "outcome-unknown"} /\ opState' \notin {"completed", "outcome-unknown"}
  PROVE  /\ OneOpenIntent' /\ IntentsInOrder' /\ IntentsTell' /\ OutcomesAgree'
         /\ UnknownIsOpen'
         /\ \A a \in Attempts :
              Recorded(a)' => Truthful(report[a], ManifestBatch(a.slot), present)'
<1> USE DEF OutboundInv, ledger, provider
<1>1. OneOpenIntent' /\ IntentsInOrder' /\ IntentsTell'
  BY DEF LedgerAgrees, OneOpenIntent, IntentsInOrder, IntentsTell, Recorded
<1>2. UnknownIsOpen'
  BY DEF UnknownIsOpen, ManifestBatch
<1>3. \A a \in Attempts :
        Recorded(a)' => Truthful(report[a], ManifestBatch(a.slot), present)'
  BY DEF ResultsAreTruthful, Recorded, ManifestBatch
<1>4. AppliedIsPresent' /\ CompletedIsPresent' /\ UnknownHasEvidence'
  BY DEF OutcomesAgree, AppliedIsPresent, CompletedIsPresent, UnknownHasEvidence
<1> QED BY <1>1, <1>2, <1>3, <1>4 DEF OutcomesAgree

(* The plan is approved before anything else has happened.                 *)
LEMMA ApproveKeeps ==
  ASSUME OutboundInv, Approve
  PROVE  OutboundInv'
<1>1. /\ opState = "none" /\ UNCHANGED <<authority, ledger, connector, live, resume, provider>>
      /\ \A g \in Generations : grant[g] # "consumed"
      /\ \A a \in Attempts : intent[a] = "none"
      /\ live = Idle /\ resume = Idle /\ vault = NoToken /\ session = NoToken
  BY DEF Approve, OutboundInv, QuietBeforeConsumption
<1>2. /\ opState' \in {"completed", "queued"} /\ itemStatus' \in [Items -> Statuses]
      /\ \A i \in Items : itemStatus'[i] = IF i \in present THEN "already-present" ELSE "pending"
      /\ transferState' = (IF opState' = "completed" THEN "completed" ELSE "approved")
      /\ adds' \in SUBSET Items /\ cancelRequested' = cancelRequested
      /\ opState' = "completed" => present = Items
  BY DEF Approve, Statuses, Settled
<1>3. /\ intent' = intent /\ report' = report /\ grant' = grant /\ writes' = writes
      /\ present' = present /\ listed' = listed /\ live' = live /\ resume' = resume
      /\ spool' = spool
  BY <1>1 DEF ledger, authority, provider, connector
<1>4. TypeOK'
  BY <1>1, <1>2 DEF OpStates, Final, TransferStates, OutboundInv, LedgerAgrees, TypeOK, operation, authority, ledger, connector, provider
<1>5. OneOpenIntent' /\ IntentsInOrder' /\ IntentsTell'
  BY <1>1 DEF OutboundInv, LedgerAgrees, OneOpenIntent, IntentsInOrder, IntentsTell, Recorded,
              ledger
<1>6. OneConsumedGrant' /\ OneUsableGrant'
  BY <1>1, <1>3 DEF OutboundInv, OneConsumedGrant, OneUsableGrant
<1>7. TransferFollowsOperation' /\ UnknownIsOpen'
  BY <1>2 DEF TransferFollowsOperation, UnknownIsOpen, Final
<1>8. OutcomesAgree'
  <2>1. AppliedIsPresent' /\ UnknownHasEvidence'
    BY <1>2, <1>3 DEF AppliedIsPresent, UnknownHasEvidence
  <2>2. opState' = "completed" => listed /\ present = Items
    <3>1. 1 \in Items
      BY ParameterTypes DEF Items
    <3> QED BY <1>2, <3>1 DEF OutboundInv, WrittenToList
  <2> QED BY <1>3, <2>1, <2>2 DEF OutcomesAgree, CompletedIsPresent
<1>9. \A a \in Attempts : ~Recorded(a)'
  BY <1>1, <1>3 DEF OutboundInv, IntentsTell, Recorded
<1>10. BackendKept'
  BY <1>5, <1>6, <1>7, <1>8, <1>9 DEF BackendKept
<1>11. WriteAhead' /\ WrittenOnce'
  BY <1>1, <1>3 DEF OutboundInv, LedgerAgrees, WriteAhead, WrittenOnce
<1>12. LiveKnown' /\ ResumeKnown' /\ ListKnown'
  BY <1>1, <1>3 DEF LiveKnown, ResumeKnown, ListKnown, Idle, Call, OutboundInv, WrittenToList,
                    provider
<1>13. QuietBeforeConsumption'
  BY <1>1, <1>3 DEF QuietBeforeConsumption, connector
<1> QED BY <1>4, <1>10, <1>11, <1>12, <1>13, Together

LEMMA IssueGrantKeeps ==
  ASSUME OutboundInv, NEW g \in Generations, IssueGrant(g)
  PROVE  OutboundInv'
<1>1. /\ opState = "queued" /\ grant' = [Revoked EXCEPT ![g] = "issued"]
      /\ UNCHANGED <<operation, ledger, connector, live, resume, provider, token, writeExpired,
                     reconcileExpired>>
      /\ grant \in [Generations -> {"none", "issued", "consumed", "revoked"}]
  BY DEF IssueGrant, OutboundInv, LedgerAgrees, TypeOK
<1>2. \A h \in Generations : grant[h] # "consumed"
  BY <1>1 DEF OutboundInv, QuietBeforeConsumption
<1>3. /\ grant' \in [Generations -> {"none", "issued", "consumed", "revoked"}]
      /\ \A h \in Generations : grant'[h] \in {"issued", "consumed"} => h = g
      /\ \A h \in Generations : grant'[h] # "consumed"
  BY <1>1, <1>2 DEF Revoked
<1>4. TypeOK'
  BY <1>1, <1>3 DEF OutboundInv, LedgerAgrees, TypeOK, operation, authority, ledger, connector, provider
<1>5. OneConsumedGrant' /\ OneUsableGrant'
  BY <1>1, <1>3 DEF OneConsumedGrant, OneUsableGrant, operation
<1>6. TransferFollowsOperation' /\ QuietBeforeConsumption'
  BY <1>1, <1>3 DEF OutboundInv, LedgerAgrees, TransferFollowsOperation, operation, ledger,
                    QuietBeforeConsumption, connector
<1>7. UNCHANGED <<adds, itemStatus, opState>>
  BY <1>1 DEF operation
<1>8. BackendKept'
  BY <1>1, <1>5, <1>6, <1>7, LedgerStays DEF BackendKept
<1> QED BY <1>1, <1>4, <1>6, <1>7, <1>8, BackendKeeps DEF ledger

LEMMA ConsumeKeeps ==
  ASSUME OutboundInv, NEW g \in Generations, Consume(g)
  PROVE  OutboundInv'
<1>1. /\ opState # "cancelled" /\ token < MaxTokens /\ token' = token + 1
      /\ \/ grant[g] = "issued" /\ grant' = [grant EXCEPT ![g] = "consumed"] /\ opState' = "running"
         \/ grant[g] = "consumed" /\ UNCHANGED <<grant, opState>>
      /\ live' = Call("authorized", NoAttempt, token', NoResult)
      /\ UNCHANGED <<cancelRequested, transferState, adds, itemStatus, writeExpired,
                     reconcileExpired, ledger, connector, resume, provider>>
      /\ grant \in [Generations -> {"none", "issued", "consumed", "revoked"}]
  BY DEF Consume, OutboundInv, LedgerAgrees, TypeOK
<1>2. /\ grant[g] = "issued" => opState = "queued"
      /\ grant[g] = "consumed" => opState \notin {"none", "queued"}
  BY <1>1 DEF OutboundInv, OneUsableGrant, QuietBeforeConsumption
<1>3. /\ opState' \in OpStates \ {"none", "queued"} /\ grant'[g] = "consumed"
      /\ grant' \in [Generations -> {"none", "issued", "consumed", "revoked"}]
      /\ \A h \in Generations : h # g => grant'[h] = grant[h]
  BY <1>1, <1>2 DEF OpStates, OutboundInv, LedgerAgrees, TypeOK
<1>4. token' \in Tokens /\ live' \in Calls(LivePCs)
  <2>1. token' \in Tokens
    BY <1>1, ParameterTypes DEF OutboundInv, LedgerAgrees, TypeOK, Tokens
  <2> QED BY <1>1, <2>1, CallTypes DEF LivePCs
<1>5. TypeOK'
  BY <1>1, <1>3, <1>4 DEF OutboundInv, LedgerAgrees, TypeOK, operation, authority, ledger, connector, provider
<1>6. OneConsumedGrant' /\ OneUsableGrant'
  BY <1>1, <1>3 DEF OutboundInv, OneConsumedGrant, OneUsableGrant
<1>7. TransferFollowsOperation'
  BY <1>1, <1>2 DEF OutboundInv, LedgerAgrees, TransferFollowsOperation, Final
<1>8. BackendKept'
  BY <1>1, <1>2, <1>6, <1>7, LedgerStays DEF BackendKept
<1>9. LiveKnown'
  BY <1>1 DEF LiveKnown, Call
<1>10. ResumeKnown'
  BY <1>1, CallsKnown, ResumeStays DEF provider
<1> QED BY <1>1, <1>3, <1>5, <1>8, <1>9, <1>10, CallKeeps DEF ledger

(* Only what was not settled can be cancelled.                             *)
LEMMA CancelKeeps ==
  ASSUME OutboundInv, Cancel
  PROVE  OutboundInv'
<1>1. /\ opState \in {"queued", "running", "action-required", "partial-failure"}
      /\ cancelRequested' = TRUE /\ grant' = Revoked
      /\ \/ opState = "running" /\ UNCHANGED <<opState, transferState>>
         \/ opState' = "cancelled" /\ transferState' = "cancelled"
      /\ UNCHANGED <<adds, itemStatus, token, writeExpired, reconcileExpired, ledger, connector,
                     live, resume, provider>>
      /\ grant \in [Generations -> {"none", "issued", "consumed", "revoked"}]
  BY DEF Cancel, AllowedActions, OutboundInv, LedgerAgrees, TypeOK
<1>2. /\ grant' \in [Generations -> {"none", "issued", "consumed", "revoked"}]
      /\ \A g \in Generations : grant'[g] # "issued"
      /\ \A g \in Generations : grant'[g] = "consumed" => grant[g] = "consumed"
  BY <1>1 DEF Revoked
<1>3. TypeOK'
  BY <1>1, <1>2 DEF OpStates, TransferStates, Final, OutboundInv, LedgerAgrees, TypeOK, operation, authority, ledger, connector, provider
<1>4. OneConsumedGrant' /\ OneUsableGrant'
  BY <1>2 DEF OutboundInv, OneConsumedGrant, OneUsableGrant
<1>5. TransferFollowsOperation' /\ QuietBeforeConsumption'
  BY <1>1 DEF OutboundInv, LedgerAgrees, TransferFollowsOperation, Final,
              QuietBeforeConsumption
<1>6. BackendKept'
  BY <1>1, <1>4, <1>5, LedgerStays DEF BackendKept
<1> QED BY <1>1, <1>3, <1>5, <1>6, BackendKeeps DEF ledger

(* A flag or a clock changes, and nothing that is decided on it yet.       *)
LEMMA FlagsKeep ==
  ASSUME OutboundInv, UNCHANGED <<opState, transferState, adds, itemStatus, grant, token, ledger,
                                  connector, live, resume, provider>>,
         cancelRequested' \in BOOLEAN, writeExpired' \in BOOLEAN, reconcileExpired' \in BOOLEAN
  PROVE  OutboundInv'
<1>1. TypeOK'
  BY DEF OutboundInv, LedgerAgrees, TypeOK, operation, authority, ledger, connector, provider
<1>2. OneConsumedGrant' /\ OneUsableGrant' /\ TransferFollowsOperation'
  BY DEF OutboundInv, LedgerAgrees, OneConsumedGrant, OneUsableGrant, TransferFollowsOperation
<1>3. QuietBeforeConsumption'
  BY DEF OutboundInv, QuietBeforeConsumption, ledger, connector
<1>4. BackendKept'
  BY <1>2, LedgerStays DEF BackendKept
<1> QED BY <1>1, <1>3, <1>4, BackendKeeps DEF ledger

LEMMA FlagStepsKeep ==
  ASSUME OutboundInv, RequestReconciliation \/ WriteExpires \/ ReconcileExpires
  PROVE  OutboundInv'
BY FlagsKeep DEF RequestReconciliation, WriteExpires, ReconcileExpires, operation, authority,
                 OutboundInv, LedgerAgrees, TypeOK

LEMMA SweepKeeps ==
  ASSUME OutboundInv, Sweep
  PROVE  OutboundInv'
<1>1. /\ opState = "running" /\ transferState = "approved" /\ TypeOK
      /\ UNCHANGED <<cancelRequested, adds, authority, report, reconciliation, connector, live,
                     resume, provider>>
      /\ \A i \in Items : itemStatus[i] # "outcome-unknown"
  BY DEF Sweep, OutboundInv, LedgerAgrees, TransferFollowsOperation, Final, OutcomesAgree,
         UnknownHasEvidence
<1>2. OneConsumedGrant' /\ OneUsableGrant'
  <2>1. \A g \in Generations : grant[g] # "issued"
    BY <1>1 DEF OutboundInv, OneUsableGrant
  <2> QED BY <1>1, <2>1 DEF OutboundInv, OneConsumedGrant, OneUsableGrant, authority
<1>3. CASE SweepUnstarted
  <2>1. /\ opState' \in {"cancelled", "partial-failure"} /\ UNCHANGED <<itemStatus, intent>>
        /\ transferState' = IF opState' \in Final THEN opState' ELSE transferState
    BY <1>3 DEF SweepUnstarted, EndTransfer
  <2>2. TypeOK'
    BY <1>1, <2>1 DEF OpStates, TransferStates, Final, OutboundInv, LedgerAgrees, TypeOK, operation, authority, ledger, connector, provider
  <2>3. TransferFollowsOperation' /\ QuietBeforeConsumption'
    BY <1>1, <2>1 DEF TransferFollowsOperation, QuietBeforeConsumption, Final
  <2>4. UNCHANGED ledger
    BY <1>1, <2>1 DEF ledger
  <2>5. BackendKept'
    BY <1>1, <1>2, <2>1, <2>3, <2>4, LedgerStays DEF BackendKept
  <2> QED BY <1>1, <2>1, <2>2, <2>3, <2>5, BackendKeeps
<1>4. ASSUME NEW a \in Attempts, SweepPrepared(a)
      PROVE  OutboundInv'
  <2>1. /\ intent[a] = "prepared" /\ intent' = [intent EXCEPT ![a] = "expired"]
        /\ opState' = "outcome-unknown" /\ transferState' = transferState
        /\ itemStatus' = [i \in Items |->
             IF i \in ManifestBatch(a.slot) /\ itemStatus[i] = "pending"
             THEN "outcome-unknown" ELSE itemStatus[i]]
    BY <1>4 DEF SweepPrepared
  <2>2. intent'[a] = "expired" /\ \A b \in Attempts : b # a => intent'[b] = intent[b]
    BY <1>1, <2>1 DEF TypeOK
  <2>3. TypeOK'
    BY <1>1, <2>1 DEF OpStates, Statuses, Settled, IntentStates, Open, OutboundInv, LedgerAgrees, TypeOK, operation, authority, ledger, connector, provider
  <2>4. TransferFollowsOperation' /\ QuietBeforeConsumption'
    BY <1>1, <2>1 DEF TransferFollowsOperation, QuietBeforeConsumption, Final
  <2>5. OneOpenIntent' /\ IntentsInOrder' /\ IntentsTell'
    BY <1>1, <2>1, <2>2 DEF OutboundInv, LedgerAgrees, OneOpenIntent, IntentsInOrder,
                            IntentsTell, Recorded
  <2>6. UnknownIsOpen'
    BY <1>1, <2>1, <2>2 DEF UnknownIsOpen, ManifestBatch
  <2>7. AppliedIsPresent' /\ CompletedIsPresent' /\ UnknownHasEvidence'
    BY <1>1, <2>1, <2>2 DEF OutboundInv, OutcomesAgree, AppliedIsPresent, CompletedIsPresent,
                            UnknownHasEvidence, provider
  <2>8. \A b \in Attempts :
          Recorded(b)' => Truthful(report[b], ManifestBatch(b.slot), present)'
    BY <1>1 DEF OutboundInv, ResultsAreTruthful, Recorded, ManifestBatch, provider
  <2>9. BackendKept'
    BY <1>2, <2>4, <2>5, <2>6, <2>7, <2>8 DEF BackendKept, OutcomesAgree
  <2> QED BY <1>1, <2>2, <2>3, <2>4, <2>9, BackendKeeps
<1> QED BY <1>3, <1>4 DEF Sweep

-----------------------------------------------------------------------------
(* The theorems.                                                           *)
LEMMA StartsWell == Init => OutboundInv
<1> SUFFICES ASSUME Init PROVE OutboundInv
  OBVIOUS
<1>1. CreateSlot \in Slots /\ 1 \in 1..MaxTries /\ NoToken \in Tokens
  BY ParameterTypes DEF CreateSlot, Slots, NoToken, Tokens
<1>2. TypeOK
  BY <1>1, CallTypes DEF Init, TypeOK, OpStates, TransferStates, Statuses, IntentStates
<1>3. \A a \in Attempts : intent[a] = "none" /\ ~Recorded(a) /\ writes[a] = 0
  BY DEF Init, Recorded
<1>4. LedgerAgrees /\ WrittenOnce
  BY <1>2, <1>3 DEF LedgerAgrees, WriteAhead, OneOpenIntent, TransferFollowsOperation,
                    WrittenOnce, Init, Final
<1>5. OutcomesAgree /\ UnknownIsOpen
  BY DEF OutcomesAgree, AppliedIsPresent, CompletedIsPresent, UnknownHasEvidence,
         UnknownIsOpen, Init
<1>6. OneConsumedGrant /\ OneUsableGrant /\ QuietBeforeConsumption
  BY DEF OneConsumedGrant, OneUsableGrant, QuietBeforeConsumption, Init
<1>7. IntentsInOrder /\ IntentsTell
  BY <1>3 DEF IntentsInOrder, IntentsTell
<1>8. ResultsAreTruthful /\ CallsAreKnown
  BY <1>3 DEF ResultsAreTruthful, CallsAreKnown, Init, Idle, Call
<1>9. WrittenToList
  BY ParameterTypes DEF WrittenToList, Init, Idle, Call
<1> QED BY <1>4, <1>5, <1>6, <1>7, <1>8, <1>9 DEF OutboundInv

LEMMA StutterKeeps ==
  ASSUME OutboundInv, UNCHANGED vars
  PROVE  OutboundInv'
<1>1. UNCHANGED <<operation, authority, ledger, connector, live, resume, provider>>
  BY DEF vars
<1> QED BY <1>1, FlagsKeep DEF operation, authority, OutboundInv, LedgerAgrees, TypeOK

LEMMA StepKeeps == OutboundInv /\ [Next]_vars => OutboundInv'
<1> SUFFICES ASSUME OutboundInv, [Next]_vars PROVE OutboundInv'
  OBVIOUS
<1>1. CASE Backend
  BY <1>1, ApproveKeeps, CancelKeeps, FlagStepsKeep, IssueGrantKeeps, ConsumeKeeps, SweepKeeps
     DEF Backend
<1>2. CASE Live
  BY <1>2, SealAuthorizationKeeps, RehydrateKeeps, BeginWriteKeeps, BeginReconcileKeeps,
     PrepareWriteKeeps, AcknowledgeAndWriteKeeps, ReportAttemptKeeps, AcknowledgeReportedKeeps,
     CompleteEntryKeeps, ReportReconciliationKeeps, AbandonKeeps, CrashKeeps DEF Live
<1>3. CASE Resume
  BY <1>3, ResumeEntryKeeps, ResumePrepareKeeps, ResumeAcknowledgeKeeps, ResumeReportKeeps,
     ResumeReportedKeeps, ResumeAbandonKeeps DEF Resume
<1>4. CASE Provider
  BY <1>4, ProviderAnswersKeeps, ProviderRefusesKeeps, AnswerLostKeeps, LateEffectKeeps,
     MemberAddsKeeps DEF Provider
<1>5. CASE UNCHANGED vars
  BY <1>5, StutterKeeps
<1> QED BY <1>1, <1>2, <1>3, <1>4, <1>5 DEF Next

(* Backend, connector and provider agree on one transfer between any two   *)
(* of their steps.                                                         *)
THEOREM OutboundInvariant == Spec => []OutboundInv
BY StartsWell, StepKeeps, PTL DEF Spec

(* The rows of the ledger are well typed and never behind the provider,    *)
(* one intent is open, and the transfer ends with its operation.           *)
THEOREM LedgerAlwaysAgrees == Spec => []LedgerAgrees
<1>1. OutboundInv => LedgerAgrees
  BY DEF OutboundInv
<1> QED BY <1>1, OutboundInvariant, PTL

(* What the member is told of a place is what is at the provider, or that  *)
(* nobody knows; "completed" is said of a whole list only.                 *)
THEOREM OutcomesAlwaysAgree == Spec => []OutcomesAgree
<1>1. OutboundInv => OutcomesAgree
  BY DEF OutboundInv
<1> QED BY <1>1, OutboundInvariant, PTL

(* No provider write is sent a second time, by whatever mixture of         *)
(* retries, crashes, restarts and sweeps.                                  *)
THEOREM NothingWrittenTwice == Spec => []WrittenOnce
<1>1. OutboundInv => WrittenOnce
  BY DEF OutboundInv
<1> QED BY <1>1, OutboundInvariant, PTL

(* One grant of a transfer is ever consumed.                               *)
THEOREM OneGrantIsConsumed == Spec => []OneConsumedGrant
<1>1. OutboundInv => OneConsumedGrant
  BY DEF OutboundInv
<1> QED BY <1>1, OutboundInvariant, PTL

(* A step finds an operation finished and leaves it so.                    *)
LEMMA FinishedStays ==
  ASSUME OutboundInv, [Next]_vars, opState \in Final
  PROVE  opState' = opState /\ transferState' = transferState
<1>1. opState \notin {"none", "queued", "running", "outcome-unknown", "action-required",
                      "partial-failure"}
  BY DEF Final
<1>2. ASSUME NEW a, NEW t, NEW r, RecordAttempt(a, t, r)
      PROVE  UNCHANGED <<opState, transferState>>
  BY <1>1, <1>2 DEF RecordAttempt, MayRecord, operation
<1>3. ASSUME NEW a, NEW t, NEW r, RecordReconciliation(a, t, r)
      PROVE  FALSE
  BY <1>1, <1>3 DEF RecordReconciliation, Reconcilable
<1>4. CASE Backend
  <2>1. ASSUME NEW g \in Generations, IssueGrant(g) \/ Consume(g)
        PROVE  UNCHANGED <<opState, transferState>>
    BY <1>1, <2>1 DEF IssueGrant, Consume, OutboundInv, OneUsableGrant
  <2>2. ~Approve /\ ~Cancel /\ ~Sweep
    BY <1>1 DEF Approve, Cancel, Sweep, AllowedActions
  <2> QED BY <1>4, <2>1, <2>2 DEF Backend, RequestReconciliation, WriteExpires,
                                  ReconcileExpires, operation
<1>5. CASE Live
  BY <1>2, <1>3, <1>5 DEF Live, SealAuthorization, Rehydrate, BeginWrite, BeginReconcile,
     PrepareWrite, AcknowledgeAndWrite, ReportAttempt, AcknowledgeReported, CompleteEntry,
     ReportReconciliation, Abandon, Crash, operation
<1>6. CASE Resume
  BY <1>2, <1>6 DEF Resume, ResumeEntry, ResumePrepare, ResumeAcknowledge, ResumeReport,
     ResumeReported, ResumeAbandon, operation
<1>7. CASE Provider
  BY <1>7 DEF Provider, ProviderAnswers, ProviderRefuses, AnswerLost, Answered, LateEffect,
     MemberAdds, operation
<1>8. CASE UNCHANGED vars
  BY <1>8 DEF vars, operation
<1> QED BY <1>4, <1>5, <1>6, <1>7, <1>8 DEF Next

(* A finished operation is never reopened, nor its transfer.               *)
THEOREM FinishedForGood == Spec => FinalIsFinal
<1>1. OutboundInv /\ [Next]_vars =>
        [(opState \in Final) => (opState' = opState /\ transferState' = transferState)]_vars
  BY FinishedStays
<1> QED BY <1>1, OutboundInvariant, PTL DEF Spec, FinalIsFinal

(* The result of one attempt says nothing of the items of another.         *)
LEMMA OthersAreElsewhere ==
  ASSUME OutboundInv, NEW a \in Attempts, NEW b \in Attempts, a # b,
         intent[a] # "none", intent[b] # "none"
  PROVE  ManifestBatch(a.slot) \cap ManifestBatch(b.slot) = {}
<1>1. a.slot # b.slot
  BY DEF OutboundInv, IntentsInOrder
<1>2. a.slot \in Nat /\ b.slot \in Nat
  BY ParameterTypes DEF Attempts, Slots
<1>3. adds \in SUBSET Items
  BY DEF OutboundInv, LedgerAgrees, TypeOK
<1> QED BY <1>1, <1>2, <1>3, BatchesAreDisjoint DEF ManifestBatch

SettledIntents == Confirmed \cup {"partial", "reconciled-partial"}

LEMMA ReportSettlesOnce ==
  ASSUME OutboundInv, NEW a \in Attempts, NEW b \in Attempts, NEW t, NEW r \in Results,
         Truthful(r, ManifestBatch(b.slot), present), RecordAttempt(b, t, r),
         intent[a] \in SettledIntents, NEW i \in ManifestBatch(a.slot), i \in Items
  PROVE  itemStatus'[i] = itemStatus[i]
<1>1. CASE UNCHANGED itemStatus
  BY <1>1
<1>2. CASE /\ intent[b] \in {"prepared", "expired"}
           /\ RefreshOperation(b.slot, r.outcome, r.problem, ResultStatus(r))
  <2>1. a # b /\ intent[a] # "none" /\ intent[b] # "none"
    BY <1>2 DEF SettledIntents, Confirmed
  <2>2. i \notin ManifestBatch(b.slot)
    BY <2>1, OthersAreElsewhere
  <2>3. TypeOK
    BY DEF OutboundInv, LedgerAgrees
  <2> QED BY <1>2, <2>2, <2>3, StatusAfterResult DEF RefreshOperation
<1> QED BY <1>1, <1>2 DEF RecordAttempt, operation

LEMMA ReconciliationSettlesOnce ==
  ASSUME OutboundInv, NEW a \in Attempts, NEW b \in Attempts, NEW t, NEW r \in Results,
         Truthful(r, ManifestBatch(b.slot), present), RecordReconciliation(b, t, r),
         intent[a] \in SettledIntents, NEW i \in ManifestBatch(a.slot), i \in Items
  PROVE  itemStatus'[i] = itemStatus[i]
<1>1. /\ intent[b] # "none" /\ reconciliation[b] \in {"none", "outcome-unknown"}
      /\ Unresolved(b) = ManifestBatch(b.slot)
      /\ RefreshOperation(b.slot, r.outcome, "none", ResultStatus(r))
  BY DEF RecordReconciliation, Reconcilable
<1>2. CASE a = b
  <2>1. intent[a] \in {"completed", "partial"}
    BY <1>1, <1>2 DEF OutboundInv, IntentsTell, SettledIntents, Confirmed
  <2>2. Recorded(a) /\ report[a].outcome # "outcome-unknown"
    BY <2>1 DEF OutboundInv, IntentsTell
  <2>3. report[a].items[i] = "outcome-unknown"
    BY <1>1, <1>2, <2>2 DEF Unresolved
  <2> QED BY <2>2, <2>3 DEF OutboundInv, ResultsAreTruthful, Truthful
<1>3. CASE a # b
  <2>1. i \notin ManifestBatch(b.slot)
    BY <1>1, <1>3, OthersAreElsewhere DEF SettledIntents, Confirmed
  <2>2. TypeOK
    BY DEF OutboundInv, LedgerAgrees
  <2> QED BY <1>1, <2>1, <2>2, StatusAfterResult DEF RefreshOperation
<1> QED BY <1>2, <1>3

LEMMA SettledStays ==
  ASSUME OutboundInv, [Next]_vars, NEW a \in Attempts, intent[a] \in SettledIntents,
         NEW i \in ManifestBatch(a.slot)
  PROVE  itemStatus'[i] = itemStatus[i]
<1>1. TypeOK /\ i \in Items /\ LiveKnown /\ ResumeKnown
  <2>1. TypeOK
    BY DEF OutboundInv, LedgerAgrees
  <2> QED BY <2>1, CallsKnown, BatchesAreItems DEF TypeOK, ManifestBatch
<1>2. live.result \in Results /\ resume.result \in Results
  BY <1>1 DEF TypeOK, Calls
<1>3. CASE Backend
  <2>1. CASE Approve
    BY <2>1 DEF Approve, OutboundInv, QuietBeforeConsumption, SettledIntents, Confirmed
  <2>2. CASE Sweep
    <3>1. CASE UNCHANGED itemStatus
      BY <3>1
    <3>2. ASSUME NEW b \in Attempts, SweepPrepared(b)
          PROVE  itemStatus'[i] = itemStatus[i]
      <4>1. i \notin ManifestBatch(b.slot)
        BY <3>2, OthersAreElsewhere DEF SweepPrepared, SettledIntents, Confirmed
      <4> QED BY <1>1, <3>2, <4>1 DEF SweepPrepared
    <3> QED BY <2>2, <3>1, <3>2 DEF Sweep, SweepUnstarted
  <2> QED BY <1>3, <2>1, <2>2 DEF Backend, IssueGrant, Consume, Cancel, RequestReconciliation,
                                  WriteExpires, ReconcileExpires, operation
<1>4. CASE ReportAttempt
  BY <1>1, <1>2, <1>4, ReportSettlesOnce DEF ReportAttempt, LiveKnown
<1>5. CASE ReportReconciliation
  BY <1>1, <1>2, <1>5, ReconciliationSettlesOnce DEF ReportReconciliation, LiveKnown
<1>6. CASE ResumeReport
  BY <1>1, <1>2, <1>6, ReportSettlesOnce DEF ResumeReport, ResumeKnown
<1>7. CASE Live
  BY <1>4, <1>5, <1>7 DEF Live, SealAuthorization, Rehydrate, BeginWrite, BeginReconcile,
     PrepareWrite, AcknowledgeAndWrite, AcknowledgeReported, CompleteEntry, Abandon, Crash,
     operation
<1>8. CASE Resume
  BY <1>6, <1>8 DEF Resume, ResumeEntry, ResumePrepare, ResumeAcknowledge, ResumeReported,
     ResumeAbandon, operation
<1>9. CASE Provider
  BY <1>9 DEF Provider, ProviderAnswers, ProviderRefuses, AnswerLost, Answered, LateEffect,
     MemberAdds, operation
<1>10. CASE UNCHANGED vars
  BY <1>10 DEF vars, operation
<1> QED BY <1>3, <1>7, <1>8, <1>9, <1>10 DEF Next

(* An attempt with a result, or a reconciliation that left nothing open,   *)
(* has settled its items for good.                                         *)
THEOREM SettledForGood == Spec => SettledItemsStay
<1>1. OutboundInv /\ [Next]_vars =>
        [\A a \in Attempts : intent[a] \in Confirmed \cup {"partial", "reconciled-partial"} =>
           \A i \in ManifestBatch(a.slot) : itemStatus'[i] = itemStatus[i]]_vars
  BY SettledStays DEF SettledIntents
<1> QED BY <1>1, OutboundInvariant, PTL DEF Spec, SettledItemsStay
=============================================================================
