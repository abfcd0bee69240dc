-------------------------- MODULE ConnectorCapture --------------------------
(* Capture of a member's saved places at a provider, from the collection   *)
(* in the browser extension to the immutable snapshot in the database      *)
(* (transfers/adapters/persistence/connector-captures,                     *)
(* provider-transfers/connections.ts, and the extension's                  *)
(* application/import-snapshot with its encrypted spool).                  *)
(* One connection of one member.  A capture is a manifest id with its      *)
(* operation; each has one run of the extension at a time, which may stop  *)
(* anywhere and start again.  Every server call is one transaction.        *)
EXTENDS Naturals, Sequences

CONSTANTS Captures, Accounts, Contents,
          Listings,       \* what the provider may list, version by version
          None,           \* no account, no snapshot
          MaxGrants,      \* grants issued for one capture
          MaxChanges      \* connection commands and observations

Generations == 1..MaxGrants
Versions == 1..Len(Listings)

ASSUME CaptureParameters ==
  /\ MaxGrants \in Nat /\ MaxChanges \in Nat
  /\ Listings \in Seq(Seq(Contents) \ {<<>>})
  /\ None \notin Accounts /\ None \notin Seq(Contents)

VARIABLES
  connection,   \* state and the account of its latest ready observation
  changes,      \* connection commands and observations so far
  library,      \* the version of the listing at the provider
  spool,        \* the extension's encrypted spool, per capture
  identity,     \* the account a capture is bound to
  run,          \* the extension's run of a capture
  tokens,       \* tokens a request was sent with
  operation, manifest, grant,   \* rows of the server, per capture
  received,     \* chunks the server holds
  snapshot,     \* the recorded snapshot, if any
  sweeping      \* captures the sweeper's statement has found

rows == <<operation, manifest, grant, received, snapshot>>
extension == <<spool, identity, run, tokens>>
captureVars == <<connection, changes, library, extension, rows, sweeping>>

-----------------------------------------------------------------------------
(* Rows.                                                                   *)

(* "overdue" is an active grant whose expires_at has passed.               *)
GrantStates == {"none", "active", "overdue", "revoked", "expired"}
Held == {"active", "overdue"}
OperationStates == {"none", "queued", "running", "completed", "cancelled", "failed"}
Open == {"queued", "running"}

Connections ==
  [state : {"action-required", "ready", "revoked"}, account : Accounts \cup {None}]
Spools == [state : {"none", "collecting", "sealed"}, chunks : Seq(Contents), count : Nat]
Spool(state, chunks, count) == [state |-> state, chunks |-> chunks, count |-> count]
Runs == [pc : {"idle", "collect", "index", "issue", "status", "upload"},
         at : Nat, token : Generations \cup {0}]

NoRun == [pc |-> "idle", at |-> 1, token |-> 0]

(* The sealed content is what the manifest commits to: its digest, counts  *)
(* and source revision are functions of it.  A chunk left behind the index *)
(* by a run that stopped is no part of it.                                 *)
Commitment(c) == SubSeq(spool[c].chunks, 1, spool[c].count)

CaptureInit ==
  /\ connection = [state |-> "action-required", account |-> None]
  /\ changes = 0
  /\ library \in Versions
  /\ spool = [c \in Captures |-> Spool("none", <<>>, 0)]
  /\ identity = [c \in Captures |-> None]
  /\ run = [c \in Captures |-> NoRun]
  /\ tokens = [c \in Captures |-> {}]
  /\ operation = [c \in Captures |-> "none"]
  /\ manifest = [c \in Captures |-> "none"]
  /\ grant = [c \in Captures |-> [g \in Generations |-> "none"]]
  /\ received = [c \in Captures |-> <<>>]
  /\ snapshot = [c \in Captures |-> None]
  /\ sweeping = {}

-----------------------------------------------------------------------------
(* The connection's life.  Creation and renaming touch no grant; a command *)
(* or observation on an old revision is refused.                           *)

(* Mutant: an observation revokes nothing.                                 *)
RevokeGrantsOfCommands(retained) ==
  grant' = [c \in Captures |-> [g \in Generations |->
    IF grant[c][g] \in Held /\ connection'.state = "revoked" THEN "revoked" ELSE grant[c][g]]]

(* revokeCaptureGrants: all active grants but those of the retained        *)
(* account.                                                                *)
RevokeGrants(retained) ==
  grant' = [c \in Captures |-> [g \in Generations |->
    IF grant[c][g] \in Held /\ identity[c] # retained THEN "revoked" ELSE grant[c][g]]]

Changing ==
  /\ changes < MaxChanges
  /\ changes' = changes + 1
  /\ UNCHANGED <<library, extension, operation, manifest, received, snapshot, sweeping>>

Reauthorize ==
  /\ Changing
  /\ connection' = [connection EXCEPT !.state = "action-required"]
  /\ RevokeGrants(None)

Revoke ==
  /\ Changing
  /\ connection' = [connection EXCEPT !.state = "revoked"]
  /\ RevokeGrants(None)

(* A revoked connection takes no observation.                              *)
ObserveReady(account) ==
  /\ connection.state # "revoked"
  /\ Changing
  /\ connection' = [state |-> "ready", account |-> account]
  /\ RevokeGrants(account)

ObserveActionRequired ==
  /\ connection.state # "revoked"
  /\ Changing
  /\ connection' = [connection EXCEPT !.state = "action-required"]
  /\ RevokeGrants(None)

-----------------------------------------------------------------------------
(* Collection into the spool.                                              *)

Goto(c, pc, at) == run' = [run EXCEPT ![c] = [@ EXCEPT !.pc = pc, !.at = at]]
Stops(c) == run' = [run EXCEPT ![c] = NoRun]
ServerUnchanged == UNCHANGED <<connection, changes, rows, sweeping>>

(* A run opens the spool and goes on where its state says.                 *)
OpenSpool(c) ==
  /\ run[c].pc = "idle"
  /\ \/ /\ spool[c].state = "none"
        /\ connection.account # None
        /\ spool' = [spool EXCEPT ![c] = Spool("collecting", @.chunks, @.count)]
        /\ identity' = [identity EXCEPT ![c] = connection.account]
        /\ Goto(c, "collect", 1)
     \/ /\ spool[c].state = "collecting" /\ Goto(c, "collect", 1)
        /\ UNCHANGED <<spool, identity>>
     \/ /\ spool[c].state = "sealed" /\ Goto(c, "issue", 1)
        /\ UNCHANGED <<spool, identity>>
  /\ ServerUnchanged /\ UNCHANGED <<library, tokens>>

Listing == Listings[library]
Collecting(c) == run[c].pc = "collect" /\ run[c].at \in 1..Len(Listing)

(* stage: a new chunk is stored first, the index counts it afterwards.     *)
StoreChunk(c) ==
  /\ Collecting(c)
  /\ run[c].at = spool[c].count + 1 /\ Len(spool[c].chunks) = spool[c].count
  /\ spool' = [spool EXCEPT ![c] =
       Spool(@.state, Append(@.chunks, Listing[run[c].at]), @.count)]
  /\ Goto(c, "index", run[c].at)
  /\ ServerUnchanged /\ UNCHANGED <<library, identity, tokens>>

AdvanceIndex(c) ==
  /\ run[c].pc = "index"
  /\ spool' = [spool EXCEPT ![c] = Spool(@.state, @.chunks, @.count + 1)]
  /\ Goto(c, "collect", run[c].at + 1)
  /\ ServerUnchanged /\ UNCHANGED <<library, identity, tokens>>

(* A chunk that is stored already must be the same; the index follows a    *)
(* chunk stored by a run that stopped before it could.                     *)
SameChunk(c) ==
  run[c].at <= Len(spool[c].chunks) /\ spool[c].chunks[run[c].at] = Listing[run[c].at]

RestageChunk(c) ==
  /\ Collecting(c) /\ SameChunk(c)
  /\ spool' = IF run[c].at = spool[c].count + 1
              THEN [spool EXCEPT ![c] = Spool(@.state, @.chunks, @.count + 1)] ELSE spool
  /\ Goto(c, "collect", run[c].at + 1)
  /\ ServerUnchanged /\ UNCHANGED <<library, identity, tokens>>

StageConflicts(c) ==
  /\ Collecting(c)
  /\ run[c].at <= Len(spool[c].chunks) /\ ~SameChunk(c)
  /\ Stops(c)
  /\ ServerUnchanged /\ UNCHANGED <<library, spool, identity, tokens>>

(* seal: every chunk of this run and no other is staged.                   *)
Seal(c) ==
  /\ run[c].pc = "collect" /\ run[c].at = Len(Listing) + 1
  /\ IF spool[c].count = Len(Listing)
     THEN /\ spool' = [spool EXCEPT ![c] = Spool("sealed", @.chunks, @.count)]
          /\ Goto(c, "issue", 1)
     ELSE /\ Stops(c) /\ UNCHANGED spool
  /\ ServerUnchanged /\ UNCHANGED <<library, identity, tokens>>

(* The listing got shorter than what this run has collected.               *)
CollectionEnds(c) ==
  /\ run[c].pc = "collect" /\ run[c].at > Len(Listing) + 1
  /\ Stops(c)
  /\ ServerUnchanged /\ UNCHANGED <<library, spool, identity, tokens>>

EditLibrary(v) ==
  /\ v # library /\ library' = v
  /\ ServerUnchanged /\ UNCHANGED extension

-----------------------------------------------------------------------------
(* Issue of a grant.  Only the answer carries its token: a repeated        *)
(* command is refused, a run that lost the answer asks with a new one.     *)

NextGeneration(c, g) ==
  grant[c][g] = "none" /\ \A h \in Generations : h < g => grant[c][h] # "none"

Bound(c) == connection.state = "ready" /\ connection.account = identity[c]

Grantable(c) ==
  \/ manifest[c] = "none"
  \/ operation[c] \in Open /\ manifest[c] \in {"receiving", "expired"}

IssueGrant(c, g) ==
  /\ run[c].pc = "issue"
  /\ Bound(c) /\ Grantable(c) /\ NextGeneration(c, g)
  /\ operation' = [operation EXCEPT ![c] = IF @ = "none" THEN "queued" ELSE @]
  /\ manifest' = [manifest EXCEPT ![c] = "receiving"]
  /\ grant' = [grant EXCEPT ![c] = [h \in Generations |->
       IF h = g THEN "active" ELSE IF @[h] \in Held THEN "revoked" ELSE @[h]]]
  /\ run' = [run EXCEPT ![c] = [pc |-> "status", at |-> 1, token |-> g]]
  /\ UNCHANGED <<connection, changes, library, spool, identity, tokens,
                 received, snapshot, sweeping>>

IssueRefused(c) ==
  /\ run[c].pc = "issue" /\ ~(Bound(c) /\ Grantable(c))
  /\ Stops(c)
  /\ ServerUnchanged /\ UNCHANGED <<library, spool, identity, tokens>>

-----------------------------------------------------------------------------
(* The receiver: authorize locks grant, manifest and operation.            *)

(* Mutant: a revoked token still opens its capture.                        *)
AuthorizedOnce(c, g) ==
  /\ grant[c][g] \in {"active", "revoked"}
  /\ manifest[c] # "cancelled" /\ operation[c] # "cancelled"

Authorized(c, g) ==
  /\ grant[c][g] = "active"
  /\ manifest[c] # "cancelled" /\ operation[c] # "cancelled"

(* recordChunk: the next chunk is stored, an earlier one is a replay; both *)
(* leave the operation running unless it has ended.                        *)
ChunkAccepted(c, g, s) ==
  /\ Authorized(c, g)
  /\ s \in 1..Len(Commitment(c)) /\ s <= Len(received[c]) + 1
  /\ s <= Len(received[c]) => received[c][s] = Commitment(c)[s]

RecordChunk(c, g, s) ==
  /\ ChunkAccepted(c, g, s)
  /\ received' = [received EXCEPT ![c] =
       IF s = Len(@) + 1 THEN Append(@, Commitment(c)[s]) ELSE @]
  /\ operation' = [operation EXCEPT ![c] = IF @ \in Open THEN "running" ELSE @]
  /\ UNCHANGED <<manifest, grant, snapshot>>

(* complete: nothing is missing, the chunks have the manifest's digest.    *)
Complete(c) == received[c] = Commitment(c)

(* UNIQUE (import_source_id, source_revision) of the snapshots: the        *)
(* revision is the digest of the chunks' checksums and counts.             *)
RevisionTaken(c) == \E d \in Captures \ {c} : snapshot[d] = Commitment(c)

CompletionAccepted(c, g) ==
  /\ Authorized(c, g)
  /\ manifest[c] # "completed" => Complete(c) /\ ~RevisionTaken(c)

(* A completed manifest answers with the snapshot it has.                  *)
CompleteCapture(c, g) ==
  /\ CompletionAccepted(c, g)
  /\ IF manifest[c] = "completed" THEN UNCHANGED <<operation, manifest, snapshot>>
     ELSE /\ snapshot' = [snapshot EXCEPT ![c] = received[c]]
          /\ manifest' = [manifest EXCEPT ![c] = "completed"]
          /\ operation' = [operation EXCEPT ![c] = "completed"]
  /\ UNCHANGED <<grant, received>>

-----------------------------------------------------------------------------
(* The handoff by a run that holds a token.                                *)

OthersUnchanged(c) ==
  UNCHANGED <<connection, changes, library, spool, identity, sweeping>>

(* status: where the server's prefix ends.                                 *)
ReadStatus(c) ==
  LET g == run[c].token
      open == Authorized(c, g) /\ manifest[c] = "receiving"
  IN /\ run[c].pc = "status"
     /\ tokens' = [tokens EXCEPT ![c] = @ \cup {g}]
     /\ IF open THEN Goto(c, "upload", Len(received[c]) + 1) ELSE Stops(c)
     /\ UNCHANGED rows /\ OthersUnchanged(c)

Upload(c) ==
  /\ run[c].pc = "upload" /\ run[c].at <= Len(Commitment(c))
  /\ RecordChunk(c, run[c].token, run[c].at)
  /\ Goto(c, "upload", run[c].at + 1)
  /\ OthersUnchanged(c) /\ UNCHANGED tokens

Finish(c) ==
  /\ run[c].pc = "upload" /\ run[c].at = Len(Commitment(c)) + 1
  /\ CompleteCapture(c, run[c].token)
  /\ Stops(c)
  /\ OthersUnchanged(c) /\ UNCHANGED tokens

HandoffRefused(c) ==
  /\ run[c].pc = "upload"
  /\ IF run[c].at <= Len(Commitment(c))
     THEN ~ChunkAccepted(c, run[c].token, run[c].at)
     ELSE ~CompletionAccepted(c, run[c].token)
  /\ Stops(c)
  /\ UNCHANGED <<rows, tokens>> /\ OthersUnchanged(c)

(* The extension is stopped, or an answer is lost and the run gives up.    *)
Crash(c) ==
  /\ run[c].pc # "idle"
  /\ Stops(c)
  /\ UNCHANGED <<rows, tokens>> /\ OthersUnchanged(c)

(* A request of any earlier run arrives late, or a second time.            *)
LateChunk(c, g, s) ==
  /\ g \in tokens[c]
  /\ RecordChunk(c, g, s)
  /\ UNCHANGED <<run, tokens>> /\ OthersUnchanged(c)

LateCompletion(c, g) ==
  /\ g \in tokens[c]
  /\ CompleteCapture(c, g)
  /\ UNCHANGED <<run, tokens>> /\ OthersUnchanged(c)

-----------------------------------------------------------------------------
(* The member's commands on the operation, the clock and the sweeper.      *)

Elsewhere == UNCHANGED <<connection, changes, library, extension, received, snapshot>>

(* A capture is cancelled at once, running or not.                         *)
CancelCapture(c) ==
  /\ operation[c] \in Open
  /\ operation' = [operation EXCEPT ![c] = "cancelled"]
  /\ grant' = [grant EXCEPT ![c] = [g \in Generations |->
       IF @[g] \in Held THEN "revoked" ELSE @[g]]]
  /\ manifest' = [manifest EXCEPT ![c] = IF @ = "receiving" THEN "cancelled" ELSE @]
  /\ Elsewhere /\ UNCHANGED sweeping

RetryCapture(c) ==
  /\ operation[c] = "failed"
  /\ operation' = [operation EXCEPT ![c] = "queued"]
  /\ Elsewhere /\ UNCHANGED <<manifest, grant, sweeping>>

GrantExpires(c, g) ==
  /\ grant[c][g] = "active"
  /\ grant' = [grant EXCEPT ![c][g] = "overdue"]
  /\ Elsewhere /\ UNCHANGED <<operation, manifest, sweeping>>

Receiving(c) == manifest[c] = "receiving" /\ operation[c] \in Open

(* Mutant: an overdue grant still counts.                                  *)
NoGrantHeld(c) == \A g \in Generations : grant[c][g] \notin Held

NoGrant(c) == \A g \in Generations : grant[c][g] # "active"

(* The statement looks for the grants in its snapshot and locks the rows   *)
(* it found one by one: a grant issued in between is not seen.             *)
SweepFinds(S) ==
  /\ sweeping = {} /\ S # {}
  /\ \A c \in S : Receiving(c) /\ NoGrant(c)
  /\ sweeping' = S
  /\ Elsewhere /\ UNCHANGED <<operation, manifest, grant>>

SweepWrites ==
  LET due == {c \in sweeping : Receiving(c)}
  IN /\ sweeping # {}
     /\ grant' = [c \in Captures |-> [g \in Generations |->
          IF c \in due /\ grant[c][g] = "overdue" THEN "expired" ELSE grant[c][g]]]
     /\ manifest' = [c \in Captures |-> IF c \in due THEN "expired" ELSE manifest[c]]
     /\ operation' = [c \in Captures |-> IF c \in due THEN "failed" ELSE operation[c]]
     /\ sweeping' = {}
     /\ Elsewhere

-----------------------------------------------------------------------------
ConnectionStep ==
  Reauthorize \/ Revoke \/ ObserveActionRequired \/ \E a \in Accounts : ObserveReady(a)

RunStep(c) ==
  \/ OpenSpool(c) \/ StoreChunk(c) \/ AdvanceIndex(c) \/ RestageChunk(c) \/ StageConflicts(c)
  \/ Seal(c) \/ CollectionEnds(c)
  \/ IssueRefused(c) \/ ReadStatus(c) \/ Upload(c) \/ Finish(c) \/ HandoffRefused(c) \/ Crash(c)
  \/ \E g \in Generations : IssueGrant(c, g)

LateStep(c) ==
  \E g \in Generations :
    LateCompletion(c, g) \/ \E s \in 1..Len(Commitment(c)) : LateChunk(c, g, s)

RowStep(c) ==
  CancelCapture(c) \/ RetryCapture(c) \/ \E g \in Generations : GrantExpires(c, g)

SweepStep == SweepWrites \/ \E S \in SUBSET Captures : SweepFinds(S)

CaptureNext ==
  \/ ConnectionStep \/ SweepStep
  \/ \E v \in Versions : EditLibrary(v)
  \/ \E c \in Captures : RunStep(c) \/ LateStep(c) \/ RowStep(c)

CaptureSpec == CaptureInit /\ [][CaptureNext]_captureVars

(* The worker loop sweeps before it claims and runs for ever; a grant's    *)
(* expiry passes.  Nothing is assumed of the extension or the member.      *)
CaptureFairness ==
  /\ WF_captureVars(SweepWrites)
  /\ \A c \in Captures :
       /\ WF_captureVars(SweepFinds({c}))
       /\ \A g \in Generations : WF_captureVars(GrantExpires(c, g))

CaptureFairSpec == CaptureSpec /\ CaptureFairness

-----------------------------------------------------------------------------
CaptureTypeOK ==
  /\ connection \in Connections /\ changes \in Nat /\ library \in Versions
  /\ spool \in [Captures -> Spools]
  /\ identity \in [Captures -> Accounts \cup {None}]
  /\ run \in [Captures -> Runs]
  /\ tokens \in [Captures -> SUBSET Generations]
  /\ operation \in [Captures -> OperationStates]
  /\ manifest \in [Captures -> {"none", "receiving", "completed", "cancelled", "expired"}]
  /\ grant \in [Captures -> [Generations -> GrantStates]]
  /\ received \in [Captures -> Seq(Contents)]
  /\ snapshot \in [Captures -> Seq(Contents) \cup {None}]
  /\ sweeping \in SUBSET Captures

(* A token that is not revoked opens a capture of the account the          *)
(* connection is verified for, now (transfers README, revocation).         *)
GrantsFollowConnection ==
  \A c \in Captures : \A g \in Generations :
    /\ grant[c][g] \in Held => Bound(c) /\ operation[c] # "cancelled"
    /\ grant[c][g] # "none" => operation[c] # "none"

(* Operation and manifest are brought to their end by five handlers.  An   *)
(* expired manifest stays so while its operation is queued again.          *)
ManifestFollowsOperation ==
  \A c \in Captures :
    /\ operation[c] = "none" <=> manifest[c] = "none"
    /\ operation[c] = "completed" <=> manifest[c] = "completed"
    /\ manifest[c] = "completed" <=> snapshot[c] # None
    /\ operation[c] = "cancelled" => manifest[c] \in {"cancelled", "expired"}
    /\ operation[c] = "failed" => manifest[c] = "expired"
    /\ operation[c] # "none" => spool[c].state = "sealed"
    /\ operation[c] = "none" => received[c] = <<>>

(* What the server holds is a prefix of what was sealed, a snapshot all.   *)
SnapshotIsSealed ==
  \A c \in Captures :
    /\ \E n \in 0..Len(Commitment(c)) : received[c] = SubSeq(Commitment(c), 1, n)
    /\ snapshot[c] # None => snapshot[c] = Commitment(c)

(* At most one chunk is ahead of the index, sealed or not, and a run is    *)
(* where its spool lets it be, with a token to hand the spool over.        *)
SpoolIsIndexed ==
  \A c \in Captures :
    /\ spool[c].count <= Len(spool[c].chunks) /\ Len(spool[c].chunks) <= spool[c].count + 1
    /\ spool[c].state = "none" => spool[c].count = 0
    /\ run[c].pc = "index" => Len(spool[c].chunks) = spool[c].count + 1
    /\ run[c].pc \in {"collect", "index"} => spool[c].state = "collecting"
    /\ run[c].pc \in {"issue", "status", "upload"} => spool[c].state = "sealed"
    /\ run[c].pc \in {"status", "upload"} => run[c].token # 0
    /\ spool[c].state # "none" => identity[c] # None

(* One token at a time opens a capture.                                    *)
OneGrant ==
  \A c \in Captures : \A g, h \in Generations :
    grant[c][g] \in Held /\ grant[c][h] \in Held => g = h

CaptureInv ==
  /\ CaptureTypeOK /\ GrantsFollowConnection /\ ManifestFollowsOperation
  /\ SnapshotIsSealed /\ SpoolIsIndexed /\ OneGrant

Stays(c) ==
  /\ spool[c].state = "sealed" => spool'[c] = spool[c]
  /\ operation[c] \in {"completed", "cancelled"} =>
       operation'[c] = operation[c] /\ snapshot'[c] = snapshot[c]
  /\ \A g \in Generations :
       grant[c][g] \in {"revoked", "expired"} => grant'[c][g] = grant[c][g]
  /\ received'[c] # received[c] \/ snapshot'[c] # snapshot[c] => Bound(c)

(* A sealed spool, a snapshot and a finished operation never change, and a *)
(* token that was revoked or has expired is never accepted again.  What    *)
(* the server takes, it takes while the connection is verified for the     *)
(* capture's account.                                                      *)
CaptureStays == [][\A c \in Captures : Stays(c)]_captureVars

(* A capture that waits for chunks comes to an end without its extension.  *)
(* One that was retried and is not granted anew keeps waiting: its         *)
(* manifest is no longer receiving, the sweeper does not see it.           *)
CaptureSettles == \A c \in Captures : Receiving(c) ~> ~Receiving(c)

(* docs/domain/personal-library.md: the same lists of a connection are     *)
(* imported again, idempotently; an unchanged library is captured again.   *)
RecaptureRecorded ==
  \A c \in Captures :
    Receiving(c) /\ Complete(c) => ~RevisionTaken(c)
=============================================================================
