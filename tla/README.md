# Verification of gotgotgan

TLA+ modules, TLC runs and TLAPS proofs about the parts of this repository whose
correctness depends on the order in which several processes touch shared rows, a
file store or a member's account at a provider. `PROJECT.json` lists the
components, the runs, the source lines behind every definition, the hazards and
the theorems; this file says what they mean. Paths below are relative to the
repository; `transfers/` stands for `backend/src/modules/transfers/`.

## 1. The system

A member keeps places in *Collections*. Places come from map providers (NAVER,
Kakao, Google) and can be sent back to them. One PostgreSQL database is shared by

- the HTTP server (`backend/src/entrypoints/http`),
- several worker processes (`backend/src/entrypoints/worker`,
  `backend/src/entrypoints/transfer-materialization-runtime.ts`), each started in
  one or more replicas and restarted when it ends,
- operator commands (`backend/src/entrypoints/cli`).

Outside the database are the encrypted artifact store (a private volume), the
browser extension of the member (`apps/member-connector`) with its local storage,
and the providers. None of these shares a transaction with the database. Handlers
lock the rows they decide on; everything interesting happens between two
transactions, or between a transaction and a call to one of the other parties.

### Inventory

Modelled, in whole or in part:

| Component | State it keeps | Operations | Interacts with | Hard | Correct when |
|---|---|---|---|---|---|
| Import materialization (`transfers/application/import-materialization*`) | lease, operation, plan mappings, item checkpoints | claim, run over the lists, resolve places, block, complete, recordFailure, heartbeat | Canonical places, Library, member's commands | leases that expire under a running worker, two replicas with one `workerId`, retries after a lost reply | each list is delivered exactly once or refused for good; "completed" means delivered; a cancel is honoured |
| Transfer operations (`postgres-transfer-operations.ts`) | `transfers.operations` | get, cancel, resume, retry, reconcile | all transfers | decided on a view that is old | a finished operation never reopens |
| Import plans (`provider-transfers/import-plan*`) | drafts, revisions, decisions | draft, decide, refresh evidence, approve | source snapshots, operations | several editors of one draft | what is approved is what was shown |
| Library import (`library/.../postgres-imported-collection-materializer.ts`) | collections, memberships, list bindings, receipts | materialize | import worker, the member's edits | a retried call after a commit | a replay equals the first answer |
| Canonical places (`places/.../postgres-canonical-resolution-store.ts`, `minimum-catalog/*`) and their search projection | places, provider identities, redirects, decisions, profile revisions, change feed, search documents | create, link, merge, split, retire; publish, project, rebuild | import worker, reviewers | two creators of one identity, chains of merges, numbers drawn before they are visible | one place per identity; redirects end; search never falls back |
| Outbound plans (`provider-transfers/outbound-plans.ts`) | manifest, transfer row | preview, approve | Library, outbound executions | a preview that is old | the manifest is frozen |
| Outbound executions (`outbound-executions/*`) | grants, attempt intents, results, reconciliations | issue, consume, prepare, record, reconcile, sweep | connector, operations | a provider write cannot be rolled back nor asked about | written once; unknown is never called done |
| Connector outbound export (`apps/member-connector/.../outbound-export`) | write-ahead spool, receipt vault | seal, prepare, write, report, reconcile, resume | executions, provider | the extension is stopped between any two steps | no write the backend has not heard of |
| Web import acquisitions (`web-import-acquisitions/*`, `web-import-acquisition-worker.ts`) | acquisition, items, job, checkpoint | start, cancel, read, claim, checkpoint, complete, expire, sweep | artifact store, provider, source snapshots | two stores without a common transaction, a deadline on the input | the member gets what the snapshot holds; the links are deleted |
| Artifact store (`ingestion/adapters/capture/encrypted-file-capture-artifact-store.ts`) | one encrypted file per batch | put, get, discard, retention sweep | web imports, captures | put and discard of one file at once | what is needed is there, what is not is gone |
| Connections and connector captures (`provider-transfers/connections.ts`, `connector-captures/*`, `apps/member-connector/.../import-snapshot`) | connection, grants, manifest, chunks, operation; the extension's encrypted spool | observe, reauthorize, revoke; issue, chunk, complete, cancel, retry, sweep; stage, seal, hand off | extension, provider, source snapshots | requests that arrive after a revocation, a listing that changes under the collection, a run stopped anywhere | a snapshot is all of one sealed spool, taken while the connection was verified for its account |
| Library collections (`backend/src/modules/library`) | collections, ordered places, links, receipts of two versions of commands | create, rename, publish, delete, add, remove, move, order, file, copy, and what imports write | several clients of one member, imports, readers of a link | commands delivered late and again, on versions long gone | a stale command is refused, a command takes effect once, the order is kept |
| Source snapshots (`provider-transfers/*source-snapshots.ts`) | immutable snapshots | record | web imports, captures, plan drafts | recorded again by a second worker | never rewritten |

Not modelled yet, in the order section 6 plans them:

| Component | State, operations | Property wanted |
|---|---|---|
| Ingestion (`backend/src/modules/ingestion`) | v1 batches, leased queue, review, fulfilment, place detail jobs | every observation is decided once; a detail job is run by one worker |
| Import plan drafts | draft revisions, decisions, evidence | approval sees the revision the member saw |
| Profiles | handles, reports, decisions, appeals | an appeal is decided once, on the decision it appeals |
| Access | principals, memberships, consents, grants | the last owner stays |
| Browser authentication (`packages/browser-auth`) | OIDC sessions | two tabs refresh one session |

Left out: Resolution (string and distance arithmetic; it appends assessments and
changes no place), the queries of Search (its canonical projection is modelled), the
rest of the Library (tags, ratings and preferences are one optimistic version on one
row each; paged reads), Providers (clients and parsers; an
answer of theirs is a nondeterministic choice in the models), Areas, Taxonomy,
Media, Visits and Writing (append-only rows or one optimistic version, one
transaction each), the platform, migrations (their tables and constraints give
the variables of the models), the web and admin user interfaces, contracts
(field rules that a view must satisfy are properties of the models), deployment,
scripts and documentation.

## 2. Modules

```
ImportPromise            what an approved import promises its member
ImportMaterialization    operation, lease, workers, Library, canonical places
ImportRefinement         the mapping from the second to the first
ImportMaterializationProofs   theorems (TLAPS): the invariant of runs and leases
ImportRefinementProofs   theorems (TLAPS): receipts, places and the refinement
MCImport                 instances, two cfg files

OutboundPromise          what an approved outbound transfer promises its member
OutboundExecution        operation, grants, attempts, connector, provider
OutboundRefinement       the mapping from the second to the first
OutboundExecutionProofs  theorems (TLAPS): the ledger, the connector, what was written
OutboundRefinementProofs theorems (TLAPS): the refinement
MCOutbound               instances, four cfg files

WebImportAcquisition     acquisition, job, artifact, workers, reads
WebImportAcquisitionProofs    theorems (TLAPS)
MCWebImport              instances, two cfg files

ConnectorCapture         connection, extension with its spool, grants, chunks, sweeper
ConnectorCaptureProofs   theorems (TLAPS)
MCCapture                instances, two cfg files

CanonicalPlaces          resolution decisions, profiles, change feed, search projection
CanonicalPlacesProofs    theorems (TLAPS)
MCPlaces                 an instance, one cfg file

LibraryCollections       collections, both versions of the commands, imports, copies
LibraryCollectionsProofs theorems (TLAPS)
MCLibrary                an instance, one cfg file
```

In every module one database transaction, one access to a local store and one
call to a provider is one action. A process has a `pc` that stands between two of
them and carries the locals it read; a handler that reads, awaits and writes is
therefore several actions with everybody else in between. Rows are functions or
records of the columns the decisions read; digests, timestamps, names and wording
are left out. Clocks are booleans: `leaseExpired`, `past`, `writeExpired` become
true at any moment after they can. Every bound is a constant named `Max...`.

### ImportMaterialization

| In the model | In the code |
|---|---|
| `opState`, `cancelRequested`, `lastError`, `attemptDue`, lease variables | `transfers.operations` |
| `planState`, `mapping`, `checkpoint` | `import_plans`, `import_plan_mappings`, `operation_items` |
| `decision`, `identityPlace`, `placeStatus` | applied resolution decisions, provider identities, canonical places |
| `survivor`, `splits` | where `canonical_place_redirects` lead in the end, and the splits in `canonical_place_lineage_events` |
| `asserted` | `canonical_place_fact_assertion_batches`: the place for which the facts of an item are on record |
| `revision`, `members`, `binding`, `receipt` | Library collections, memberships, bindings, receipts |
| `pc` and locals of a worker | `runOnce` of `import-materialization-worker.ts` between two awaits |
| `fresh`, `seen` | the view of the operation a member acts on |

`Approve`, `ReadOperation`, `Cancel` and `Requeue` are the member's calls. A
worker goes claim, load, list by list (for each policy-create item: create its place or
find it created, look up the identity, follow the redirects, contribute the facts,
checkpoint; then call the Library and record the answer), then complete or block; `Crash`,
`TransientError` and an outrun lease are faults. `EditCollection`,
`DeleteCollection`, `OtherImport` and the canonical decisions of reviewers
(`LinkIdentity`, `MergePlaces`, `SplitIdentity`, `RetirePlace`) are other parties. Each of them is one action with every write of its transaction.

Worth knowing:

- The Library call is not fenced by the lease. A worker that lost its lease may
  still write; what saves the import is the receipt keyed by the list's operation
  id, and that a replay builds the same request (`ReplaysAgree` in `LibraryAgrees`).
- A refusal of the Library is a permanent receipt, so `resume` of a blocked import
  blocks again on the same list. `retry` cannot be reached for imports.
- `allowedActions` decides on the row; the model's `Requeue` follows it.
- The contribution of an item's facts is part of its resolution, and its errors are
  retried without a limit (`import-materialization-worker.ts:47-50`). One of them never
  goes away: the facts are on record for the place they were contributed to, and a retry
  after a merge or a split contributes them to another (`publish-minimum.ts:44-51`).
  Such an import is retried until its member cancels it (`Unpublishable`).
- A checkpoint is never moved. After a merge it leads to the place of the identity by
  redirects; after a split it stays at the place that was split, which is still active
  (`StandsFor`).
- The order of items inside a list, the search document of a contribution and the
  ingestion evidence written with a resolution are abstracted. The facts of an item are
  its own: that another import of the same snapshot has contributed them before is not
  modelled. `EvidenceMayHaveLeft` allows the error of evidence that left with a split
  identity wherever there was a split, and does not follow the evidence itself. A failed
  heartbeat is the same as the next lock finding the lease lost.

`ImportPromise` is what a member may rely on: phases, a sticky cancellation, and
an answer per list that is given once. `ImportRefinement` reads its phase off the
operation and its answers off the Library receipts; the run `import_faults` checks
the refinement (`ImplementsPromise`), and `ImportRefinementProofs` proves it for every
import (`Refinement`).

### OutboundExecution

Slot 0 is the creation of the target list, slot *b* the batch with sequence
*b* - 1. An attempt is a slot and a try. `intent`, `report` and `reconciliation`
are the backend's ledger; `spool`, `vault` and `session` the connector; `present`,
`listed`, `inflight` and `writes` the provider. `live` and `resume` are the two
calls of the connector's runtime that can be under way together: one that writes
or reconciles, and the handshake after a restart. `LateEffect` lets a write whose
answer was lost happen afterwards; `MemberAdds` lets the member put a place on the
list; members are not modelled as removing one.

`OutboundPromise` is what the member may rely on: every place of his list is told once
(*done* or *refused*), *done* only of a place that is there, and while a place is in
doubt the transfer neither goes on nor ends; a cancellation met by a running transfer is
kept until the next word of the connector, then the transfer does not go on. Its member
may ask for a reconciliation, which takes his cancellation back, as the code does.
`OutboundRefinement` reads the phase off the operation. A place is in doubt as long as
the intent of a write with it is open without an answer, whatever its own row
says by then: in a batch that is known in part, the places that are known wait with the
rest until the intent is closed. The run `outbound_retries` checks the refinement and
`OutboundRefinementProofs` proves it (`Refinement`).

Abstractions: fingerprints and digests agree; the spool is taken at its port
(neither retention nor corruption, nor the limits on lengths and counts that the schema
of its browser adapter sets); a grant that expires unused is an `IssueGrant` or
`Consume` that does not happen; provider write adapters are gated in the
repository, so the answers of a provider are those its port allows.

### WebImportAcquisition

`job`, `acquisition`, `items` and `snapshot` are the four tables; `stored` is the
artifact on the volume; `past` the retention deadline. A `call` of start goes
reserve, put (a check, then a publication), activate, and, when the job has
finished meanwhile, discard and mark. A worker sweeps, picks a candidate (holding
the row's lock: `Locked`), claims under the member's lock, reads the artifact,
inspects, records checkpoint and snapshot in one transaction, completes.
`WorkerName` is the configured `workerId`, which replicas may share. The deadline
timer discards and aborts. `expire` looks at the claim and not at the lease's
expiry, as in the code.

Abstractions: one provider; the caps on links and sizes; the acquisition's
revision in the cancel command (a job never returns to `queued`, so the check of
the state subsumes it); remote-browser starts, which are disabled and finish in
their only transaction; command reuse; candidates are picked in any order; a sweep
has no limit of ten; the timer of a deferred pass is not kept (it only discards
after the deadline, when the sweep or the next claim does too).

### ConnectorCapture

| In the model | In the code |
|---|---|
| `connection` | the connection row: its state and the account of its latest ready observation |
| `spool`, `identity` | the encrypted spool of a capture (index and chunks) and the account it is bound to |
| `run` | one run of `collectAndHandoffImmutableSnapshot` between two awaits |
| `operation`, `manifest`, `grant`, `received`, `snapshot` | `transfers.operations`, `connector_capture_manifests`, `connector_import_grants`, the chunk rows, `source_snapshots` |
| `tokens` | the tokens a request was ever sent with: such a request may arrive again at any time |
| `sweeping` | what the sweeper's `SELECT ... FOR UPDATE` has found and not yet locked |

A run opens the spool, stages chunk by chunk (the chunk first, the index after it),
seals, asks for a grant, reads the status and uploads from where the server's prefix
ends, and completes; it may stop between any two of these and start again on a
listing that has changed meanwhile. `LateChunk` and `LateCompletion` are requests of
earlier runs. `RevokeGrants` is part of every command and observation on the
connection that calls it. `overdue` is an active grant whose expiry has passed.

Abstractions: a chunk is a value, and the digest, the counts and the source revision
are functions of the sealed sequence (`Commitment`); creation and renaming of a
connection touch no grant; encryption and the caps on sizes are left out.

### CanonicalPlaces

`status`, `redirect`, `linked` and `decided` are the resolution tables, `profile`,
`asserted` and `changes` the catalog of migration 000036, `document` the search
documents. A decision is one transaction. A contribution is one that publishes, in
two actions, because the number of its change is drawn (`ActivateProfile`) before the
commit makes it visible (`CommitProfile`) while the row of the place stays locked;
then two statements project it, one reads the names and the next writes the document.
`ContributionBreaks` and `RebuildBreaks` break off anything at any point. A rebuild
pages through the feed and projects place by place. `PlacesInit` is the empty
catalog; `MCPlacesInit` starts where earlier decisions have left it.

Abstractions: of a profile only the address, for all facts that can be filled in
later, and the evidence; a refusal is recorded with any reason (`Refuse`).

### LibraryCollections

| In the model | In the code |
|---|---|
| `library` | `collections` and `collection_places`: revision, visibility, link, the position of each place |
| `command`, `seen` | what a client asks for and the rows it had read: the opaque version in its request |
| `receipt` | `operation_receipts_v2` and `command_receipts` |
| `answers`, `effects` | what the deliveries of a command were answered and how many took effect (history, read by properties only) |
| `drawn`, `withdrawn` | ids clients have drawn, links that were taken back |

`Issue` is a client that reads and sends; every delivery is a transaction behind the
lock on its operation id: `Replay` when there is a receipt (of the second version it
gives the receipt's outcome, of the first it says "replayed" whatever the outcome), else the action of its
kind when `Verdict` says *applied*, else `Refuse`. `VersionVerdict`, `OrderVerdict`,
`CopyVerdict` and `V1Verdict` have the checks in the code's order. `Kept` is the one
refusal that leaves no receipt. `Materialize` and `SaveImportedPlace` are what the two
kinds of import write to a collection without a command of its own.

Worth knowing:

- Commands of the first version move and insert by positions their clients give, so
  positions have gaps; `Target` and `Moved` are checked on such collections.
- Revisions start again when a collection is deleted and its id is used again. A
  client draws a fresh id with each command that creates, and receipts outlive the
  collection, so a row once left behind is never met again (`VersionsTell`).
- The placement a filing may carry is ignored by the adapter and by the model. Every
  collection is addressed by its owner. Names and colours are left out.
- That a filing's place is active, and the owner's profile visible, are rows of other
  modules, read without a lock; `Refusals` allows the refusal at any time.

## 3. Runs

All sizes are small on purpose; the bounds below are where every branch of the
model is taken. Symmetry is used on worker names only, and on commands with
their acquisitions, and never in runs with liveness.

| Run | Instance | Checks |
|---|---|---|
| `import_faults` | 2 workers of one name, 2 lists with new targets, 1 item with facts in the second, 1 fault, 1 resume, 1 write of somebody else, 1 canonical decision, fair (476 thousand states) | `IInv`, `CancelHonoured`, `CompletedMeansApplied`, `ViewHonest`, `ImplementsPromise`, `ImportSettles` |
| `import_shared_target` | 2 lists into one existing collection, one of them bound before, with 2 items of one identity, one of which has facts; 1 fault, 1 resume, 1 write of somebody else, 2 canonical decisions (1.5 million states up to symmetry) | `AgreementInv`, `LibraryAgrees`, `IdentitiesAgree`, `LibraryWrittenOnce`, `FinalIsFinal` |
| `outbound_retries` | 2 items in batches of 1, 2 tries, existing list, which the member edits until the approval (`QuietMember`, 667 thousand states) | `LedgerAgrees`, `OutcomesAgree`, `WrittenOnce`, `SettledItemsStay`, `ImplementsPromise` |
| `outbound_grants` | creation of the list and then its batch, 2 grants, 2 receipt tokens, fair sweeper (562 thousand states) | `OutboundInv`, `OneConsumedGrant`, `FinalIsFinal`, `RunningSettles` |
| `outbound_frozen_manifest` | 2 items in batches of 1 | `FrozenManifest` is violated |
| `outbound_mixed_unknown` | 2 items in a batch of 2 | `UnknownCanAdvance` is violated |
| `web_import_retries` | 1 acquisition started by two calls, 2 links of which one fails and the other succeeds or is a duplicate (`Mixed`), 2 workers of one name, 1 fault, fair (275 thousand states) | `IInv`, `SnapshotIsDelivered`, `StoredIsTracked`, `ViewWellFormed`, `FinalIsFinal`, `AcquisitionSettles` |
| `web_import_batches` | 3 commands of one member, limit 2, 2 workers, no fault (927 thousand states up to symmetry) | `OneLeasePerMember` |
| `connector_capture` | 1 capture, 2 accounts, 2 grants, 3 changes of the connection, 2 versions of the listing (2 chunks, 1 chunk), fair sweeper (205 thousand states) | `CaptureInv`, `CaptureStays`, `CaptureSettles` |
| `recapture_doc` | 2 captures of a listing that does not change | `RecaptureRecorded` is violated |
| `catalog` | 2 decisions on 3 places and 2 identities, 2 contributions, a rebuild with pages of one change, 1 failure (987 thousand states) | `PlacesInv`, `ReferencesResolve`, `ProfilesAdvance`, `RebuildCovers` |
| `library` | 2 collections, 3 places, 3 commands of both versions, 3 links; from a collection with gaps or without, and in the one with gaps, 2 commands beside a write of an import (337 thousand states up to symmetry) | `LibraryInv`, `AnswersAgree`, `StaleRefused`, `OrderKept` |

A property is a conjunction of named parts where one instance and one hazard bind
them: `LibraryAgrees`, `IdentitiesAgree`, `LedgerAgrees`, `OutcomesAgree`, the
invariants `IInv`, `AgreementInv`, `OutboundInv`, `CaptureInv`, `PlacesInv`, `LibraryInv` (which have the type
invariants among their parts), and the liveness properties `ImportSettles` and
`AcquisitionSettles`.

Why these bounds are enough to see the interesting cases. Two workers are needed
for a takeover and a third would only take over again; they share a name so that
the generation alone must tell their leases apart. Two lists show the order
between lists, a list that is done when another fails, and a shared target; versions that
follow from earlier lists are for existing targets, which `import_shared_target` has. One
fault may fall anywhere, also after the Library's commit or after a contribution, and
leaves a stalled predecessor beside its successor. One canonical decision is what a
resolution that was read before it needs to be stale and a contribution to be
unpublishable; two are needed for a place that is merged after it was split, or the other
way round. `MaxClaims` counts claims, after which no back-off ends any more: an import
that is retried without a limit has a finite graph, in which the bound can only leave it
unsettled, so `ImportSettles` is not weakened. Two batches show what an
earlier one leaves for a later one, two tries a second attempt id for the same write;
that the member adds places while a transfer runs is left to `outbound_grants` and
the proofs. Two calls of one start command, a link of each kind
and a fault anywhere give each order of put, activate, claim, complete, cancel and
sweep. Three commands against a limit of two let two batches be free at once (the
race between two claims) and a third be refused (the code's limit is three).
Two grants let a second be issued while requests with the first are still on their
way; three changes of the connection verify it, take it away and verify it for
another account. A listing of two chunks has a first and a last, and a version
with one other chunk makes it both shorter and different. Three places give the
longest chain of redirects two merges can build, two contributions draw their
numbers in one order and commit in the other. A third command is needed in the
library for a client that read before one command, is delivered after a second, and
is delivered again; imports write beside two further commands, in the collection with
gaps, where they meet every case of a free and a taken position.

Deadlock is checked where processes loop for ever (`web_import_*`). The other
runs say `CHECK_DEADLOCK FALSE`: an import or a transfer that has ended, with its
bounds used up, is a state in which nothing is left to do.

Each property of a passing run is paired in `PROJECT.json` with a changed
definition (kept in the module next to the original and marked *Mutant*) that
breaks it: a dropped lock, a fence that is not looked at, a reset that is
forgotten.

### Fairness

- Imports (`FairSpec`): weak fairness of a worker's step, of the expiry of a lease
  nobody renews, and of the end of a backoff. The loop of
  `transfer-materialization-runtime.ts:149-168` runs for ever and its container is
  restarted. Nothing is assumed of members; faults are bounded. `ImportSettles` names
  the one exception, an item that can never be published; without it the run finds the
  import that is retried for ever.
- Outbound: weak fairness of the sweep and of the passing of the receipt's expiry
  only. The loop sweeps before every claim (`docs/operations/worker-runtime.md:44`).
  Nothing is assumed of the connector or the provider: `RunningSettles` has to hold
  when the extension is never opened again.
- Web imports: weak fairness of a worker's step (the loop of
  `web-import-acquisition-runtime.ts:87-101`), of a start call that is under way,
  of an abandoned lease's expiry and of the retention deadline. A start that dies
  is a fault; nothing makes a member start, cancel or look.
- Captures (`CaptureFairSpec`): weak fairness of the sweep and of a grant's expiry, as
  for outbound (`transfer-materialization-runtime.ts:149-168`). The extension may
  never be opened again.
- `CanonicalPlaces` and `LibraryCollections` state no liveness: their transactions
  depend on nobody, and a broken contribution is tried again by its import item.

## 4. Findings

Three statements of the repository are contradicted by what the code does.

1. `outbound_frozen_manifest`: `transfers/README.md:26` says the manifest's target
   and order are frozen. The backend cuts the next expected batch from the items
   that are not *already present by now* (`execution-context.ts:271`), the
   connector cuts the manifest. An addition that turns out to be present already
   shifts the backend's batches, and the connector's next batch is refused.
2. `outbound_mixed_unknown`: `transfers/README.md:28` says unknown outcomes advance
   by reconciliation observations. After a batch with known and unknown items the
   backend accepts observations of exactly the unknown ones
   (`reconciliation-ledger.ts:57-84`); the connector observes the whole sealed
   batch. The operation stays `outcome-unknown`.
3. `recapture_doc`: `docs/domain/personal-library.md:90-91` says that importing the same
   list of a connection again is applied idempotently. A snapshot's source revision is the digest
   of its chunks and counts, and unique per source; the second capture of a library
   that did not change is complete, and its completion is refused.

Further observations are hazards with a note in `PROJECT.json`: a worker that lost
the reply to its checkpoint's commit expires the batch when the deadline has passed,
although the checkpoint is fixed (`docs/operations/worker-runtime.md:26`); a capture
that was retried after its expiry and never granted anew stays queued, since its
manifest is no longer the sweeper's; a `reconcile` command forgets a recorded cancellation; a
cancelled operation that ends in a partial failure offers no action; a start call
that dies between put and activate while the sweep runs leaves an artifact that no
later pass finds (`StoredIsTracked` and `AcquisitionSettles` hold but for this leftover,
which `abandoned` records); an import item whose facts are on record for a place its
identity has left is retried without a limit (`ImportSettles` holds but for it); a
command of the first version that was refused is answered "replayed", as HTTP 200, when
it is delivered again (`postgres-library-store.ts:245-250`,
`register-library-http.ts:82-88`), although `docs/domain/personal-library.md:47-48`
promises the same result: `AnswersAgree` promises that of the second version only.

## 5. Proofs

Eight modules prove, for every value of the constants, what the runs show on small
instances. The argument is the same in each: an invariant that the code's fences make
inductive, kept by every action, of which the properties are parts.

**Assumptions.** `ParameterTypes` and `BoundsAreNatural` type the constants,
`NullsAreFresh` says that the values standing for SQL nulls are no ids. Of the
code, `DraftsAreValid` assumes that a draft's new target is shared with no other
list and has no binding (`import-plan-drafts.ts:86-94` and the reads of the binding
and the collection after it; a binding is deleted with its collection). Web imports
assume a finite batch. `CaptureParameters` says that a provider lists chunks that are
not empty, `LibraryParameters` that a move names another place as its anchor and a
filing does not include and exclude one collection (the schemas of the requests), and
that places and collections are finitely many. Nothing is assumed of the number of workers, of their names
(they may all share one), or of members.

**Imports.**

| Theorem | Property |
|---|---|
| `TypeCorrect` | `TypeOK` |
| `Invariant` | `IInv` |
| `PlanFollows` | `PlanFollowsOperation` |
| `CancelIsHonoured` | `CancelHonoured` |
| `SnapshotHolds` | `SnapshotStillTrue` |
| `AppliedIsBacked` | `AppliedHasReceipt` |
| `CompletedIsComplete` | `CompletedMeansApplied` |

None of these is inductive alone: a worker that lost its lease sits in the middle
of `run()` with old locals, and only the claim's generation keeps it from
recording them. So `IInv` adds `ClaimsAreDistinct` (no two workers hold the
generation of the lease, although they may hold its name), `InsideTheLoop` (the
list a worker is at exists), `RecordIsBacked` (what a worker under the lease is
about to record is in a receipt) and `RunsHaveNoRefusal` (a running operation has
no refused list, since a refusal ends the run). With them: a mapping changes only
under the lease (`MappingWriters`), so the snapshot of the one worker that holds it
stays true (`SnapshotKept`); an applied list has a receipt because the record was
backed; completion is reached only past the last list, hence every list applied.

What the Library and the canonical places were told is the subject of a second
invariant, `AgreementInv`, inductive beside `IInv` (`ImportRefinementProofs`):

| Theorem | Property |
|---|---|
| `Agreement` | `AgreementInv` |
| `LibraryAlwaysAgrees` | `LibraryAgrees` |
| `IdentitiesAlwaysAgree` | `IdentitiesAgree` |
| `DeliveredOnce` | `LibraryWrittenOnce` |
| `FinishedForGood` | `FinalIsFinal` |
| `ViewIsHonest` | `ViewHonest` |
| `Refinement` | `ImplementsPromise` |

The Library call has no fence, so its arguments must be the same in every run. They are:
the version a list expects is the version in the receipt of the last list before it with
the same target, or 1 (`ExpectedAt`), whether a worker came by it while it ran or read it
in a mapping (`VersionsFollowReceipts`), and it is one value (`ExpectedIsOne`); the
places are the checkpoints of the list's items, all written before the delivery and never
changed (`ItemsAreResolved`, `CheckpointsStay`). So `RequestsAgree` and `ReceiptsAgree`
say the same of a request under way and of one that was answered, a replay finds its
own request, and a refusal has a receipt (`RefusalIsBacked`). As long as nobody else
writes, what a list finds is what it expects (`UntouchedLibrary`, `NoRefusal`). A
decision leaves its identity linked to a place that is active or retired
(`IdentitiesAreLinked`), which reviewers and other creators keep (`CanonicalMoves`).
A place in a worker's hand or in a checkpoint stands for its identity (`StandsFor`): the
identity is at the end of its redirects, or was split away from a place at that end. A
creation makes it so, a merge moves both ends alike, a split records what it moved, and a
later merge carries what was recorded along (`StandsOn`).

With both invariants each step is a step of `ImportPromise` or changes nothing it sees
(`StepPromise`): a block has a refused receipt behind it, a completion has all lists
applied, a worker acknowledges only a cancellation that is still requested
(`RunsAreApproved`), and a list is answered while the import is neither a draft nor
completed.

**Outbound.**

| Theorem | Property |
|---|---|
| `OutboundInvariant` | `OutboundInv` |
| `LedgerAlwaysAgrees` | `LedgerAgrees` |
| `OutcomesAlwaysAgree` | `OutcomesAgree` |
| `NothingWrittenTwice` | `WrittenOnce` |
| `OneGrantIsConsumed` | `OneConsumedGrant` |
| `FinishedForGood` | `FinalIsFinal` |
| `SettledForGood` | `SettledItemsStay` |

`ParameterTypes` is the only assumption: the proofs hold for any number of items, any
size of a batch, any number of tries, grants and tokens, with or without a new list.
`QuietBeforeConsumption` says that no attempt, receipt token or call of the connector
exists before a grant is consumed, and `OneUsableGrant` that of all grants one at most
is issued or consumed, so the one that starts the execution is the only one that can.
From there the slots are passed in order: `IntentsInOrder` says that one attempt of a
slot at most ever has an intent, and none before every earlier slot has one, which with
the condition of `PrepareAttempt` gives `OneOpenIntent`. A write is sent after its
acknowledgement only, by a call for an attempt the ledger has (`CallsAreKnown`), which
gives `WrittenOnce`. `Truthful` is what a result may say: about the items of its batch,
and *applied* or *already present* of a place that is there. The provider's answer has
it (`WrittenToList`), the spool and the calls of the connector carry it
(`ResultsAreTruthful`), and it is kept since members are not modelled as removing
places; so `IntentsTell` makes what the backend says true. `UnknownIsOpen` says that an
item is *unknown* only while an attempt at it is. The batches of two slots are disjoint
and one attempt of a slot has an intent, so a result is never written over.

| Theorem (`OutboundRefinementProofs`) | Property |
|---|---|
| `DoubtIsAlwaysKnown` | `DoubtIsKnown` |
| `Refinement` | `ImplementsPromise` |

The operation decides on the counts of its items, the promise on open intents, so the
refinement needs the two to agree: `DoubtIsKnown`, inductive beside `OutboundInv`. An
intent that is open without an answer has an item that is *outcome-unknown*, hence the
operation is `outcome-unknown` while a place is in doubt; and a row that was told has an
intent that is no longer *prepared*, or was on the list at the approval, hence a place
the ledger is about to be told of was still open. Both are kept only because of what the
connector may say: a result with the outcome *unknown* names an item it does not know
(`TellsDoubt`), in the answers of the provider (`AnswerTells`), in the spool after a
restart (`ResumeTellsOn`) and in an observation that resolves nothing
(`ObservationTells`). `StepCases` sorts the steps into those that move nothing the
member sees, those that take a result (a report or a reconciliation, `TakesPromise`), the
sweep (`SweepPromise`), the approval, the consumption of a grant and the two commands;
each is the step of the promise of that name, or `Tell`.

**Web imports.**

| Theorem | Property |
|---|---|
| `TypeCorrect` | `TypeOK` |
| `Invariant` | `IInv` |
| `OneLease` | `OneLeasePerMember` |
| `Delivered` | `SnapshotIsDelivered` |
| `InputStays` | `InputIsKept` |
| `LeftoversAreTracked` | `StoredIsTracked` |
| `FinalStays` | `FinalIsFinal` |
| `ViewsAreWellFormed` | `ViewWellFormed` |

Two lemmas carry the proof: `EveryRowStep` lists the seven ways a step may change
the rows of one acquisition, `EveryPassStep` the four ways it may move a pass.
The rest of `IInv` follows from them:

- `OneLeasePerMember` needs no helper: a live lease appears only in `Claim`, which
  looks at the member's other leases again (`StillFree`).
- `LocksHold`: nobody writes a row between a worker's choice and its claim, so a
  claimed job is still unfinished, and one that was still `preparing` is past its
  deadline.
- `ClaimsAreDistinct` gives `RecordedIsCheckpoint` (what a pass is about to complete
  is the job's checkpoint, if it still has the claim), and with
  `SnapshotIsCheckpoint` that what it completes is what the snapshot holds.
- `OnlyFinishedIsCleaned` and `DeadlineIsPast`: every discard is by somebody who
  works for a finished job or after the deadline (`DiscardIsDue`), so `PutIsKept`
  and `InputIsKept`.
- `MarkIsTracked`: an artifact that appears between a discard and its mark was
  published by a call that `Tracked` knows (`TrackStays`), so `StoredIsTracked`.

A view is read in two queries with everybody in between, so `ViewWellFormed` needs
two invariants more: `HeadersFit` (the counts of a row are those of its checkpoint, and
an ended acquisition has no link left open) and `ViewFits` (what a read has seen of an
*ended* acquisition is so still; of one that runs, nothing was counted yet). The items
that come with an older header are later ones, never fewer.

**Captures.**

| Theorem | Property |
|---|---|
| `CaptureInvariant` | `CaptureInv` |
| `CaptureStaysSo` | `CaptureStays` |

`SnapshotIsSealed` needs to know that what is sealed does not move under the chunks
already sent: `ManifestFollowsOperation` ties a row of the server to a sealed spool, and
`SpoolIsIndexed` says where a run may be, so that only a run of a collecting spool
writes one. `GrantsFollowConnection` is kept because each change of the connection
revokes in the same transaction (`RevokeGrants`), and a grant is issued only for the
account the connection is verified for. The lemmas about prefixes (`PrefixGrows`) and
the steps of a run (`RunKeeps`, `SpoolKeeps`, `RowsKeep`) say what an action may change of
one capture; then each group of actions is one lemma.

**Places.**

| Theorem | Property |
|---|---|
| `PlacesInvariant` | `PlacesInv` |
| `ProfilesOnlyAdvance` | `ProfilesAdvance` |
| `RebuildsCover` | `RebuildCovers` |
| `ReferencesAlwaysResolve` | `ReferencesResolve` |

That redirects end is stated without induction: every set of redirected places has a
member whose redirect leaves the set. A merge keeps it because its target is active:
a set with the merged place is left by that place. That a reference resolves, along as
many redirects as there are (`Survivor`, a recursive function on the numbers up to the
count of the places), follows: of the places from which *n* redirects do not lead to an
end (`Open`) one leads out of the rest, so there are fewer with every redirect
(`OpenShrinks`), and none after as many as there are places. The induction on *n* is made
by hand, from the least number that fails (`LeastOf`), for bounded *n* and cardinalities.
The feed needs `NumbersAreDrawn`:
a number drawn and not yet visible is later than all numbers of its place and nobody
else's, since the row is locked until the commit. `RebuildShows` is the loop invariant
of the rebuild: what it has to show and has passed is shown, what is on its page is due
with a revision that is late enough. A number that becomes visible behind it is not of
the changes it started with and is not promised: its contributor projects it or, if
that dies first, the next rebuild does.

**Library.**

| Theorem | Property |
|---|---|
| `LibraryInvariant` | `LibraryInv` |
| `AnswersAlwaysAgree` | `AnswersAgree` |
| `StaleIsRefused` | `StaleRefused` |
| `OrderIsKept` | `OrderKept` |

Positions, links and versions are `LibraryInv`; `RowsAndAnswers` proves it together with
`AnswersAgree`, which needs it. The helper of all is `VersionsTell`: a client's row is
still the row, or the row is gone or has a later revision, for ever. It is inductive since every write of a row
raises its revision (`TouchedFollows`, `PublishedFollows`, `FiledFollows`) and a deleted
collection is made again only by the one command that drew its id (`MadeOnce`). So a
command whose version agrees has seen the very row (`StaleRefused`), and one that was
refused with a conflict without leaving a receipt is refused for ever
(`AnswersAgree`). The lemmas on positions (`InsertedIsTotal`, `MovedIsTotal`,
`NumberedKeepsOrder`, `MovedIsPlaced`) hold for any gaps.

**Only model-checked.** The four liveness properties (`ImportSettles`, `RunningSettles`,
`AcquisitionSettles`, `CaptureSettles`): fairness and ENABLED are out of the prover's
reach. Every other property of a passing run is a theorem. RECURSIVE operators and the
library's induction theorems are out of its reach too; the modules with theorems
declare none, and the one place that needs an induction over data (`OpenShrinks`) takes
it from the least counterexample.

## 6. Plan

Done: imports, outbound executions, web imports, captures with their connection,
canonical places with their projection, collections; the proofs about all of them, and
the refinements of the two promises.

Next, the most important first:

1. *IngestionQueue*: leased v1 batches and place detail jobs, with the scheduling
   in the transaction that records a source snapshot; the attempts' limit.
2. *ImportPlanDrafts*: several editors, evidence refreshed between decision and
   approval. Abstract: approval takes a revision that was current and complete.
3. *ProfileSafety*: reports, decisions, appeals. *BrowserSession*: two tabs refresh
   one rotating token. *Access*: the last owner.

Twelve runs are what a reader can keep in mind: a new module takes the place of a run
whose question another instance can answer, and brings one of its own at most. New
instances stay under one and a half million states.

## 7. Not modelled

The items of the plan, which wait for a run of their own. The rest has no behaviour
a model would add to: Areas, Taxonomy, Media and Visits append rows in one
transaction; Writing, tags, ratings and preferences compare one version of one row;
Resolution is arithmetic on strings and distances; Search, the composed place reads and
the discovery of public collections only read; Providers, the platform, the entry
points, the gateways and the two web applications are I/O, routing and presentation,
where the models choose any answer or any order of calls; migrations, scripts and
deployment run before or beside the system. The retention and key rotation of the
artifact store, account erasure and the pairing of the extension are left out of the
components listed as partly modelled.
