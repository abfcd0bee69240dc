----------------------- MODULE ConnectorCaptureProofs -----------------------
(* What ConnectorCapture keeps for every number of captures, accounts and  *)
(* grants, and whatever the provider lists.                                *)
EXTENDS ConnectorCapture, SequenceTheorems, TLAPS

-----------------------------------------------------------------------------
(* Prefixes: what the server holds of what was sealed.                     *)
Prefix(r, s) == \E n \in 0..Len(s) : r = SubSeq(s, 1, n)

LEMMA PrefixIsShorter ==
  ASSUME NEW s \in Seq(Contents), NEW n \in 0..Len(s)
  PROVE  /\ SubSeq(s, 1, n) \in Seq(Contents) /\ Len(SubSeq(s, 1, n)) = n
         /\ \A i \in 1..n : SubSeq(s, 1, n)[i] = s[i]
<1>1. n \in Nat /\ \A i \in 1..n : s[i] \in Contents
  BY ElementOfSeq, LenProperties
<1> QED BY <1>1, SubSeqProperties

LEMMA PrefixGrows ==
  ASSUME NEW s \in Seq(Contents), NEW r, Prefix(r, s), Len(r) + 1 <= Len(s)
  PROVE  Prefix(Append(r, s[Len(r) + 1]), s)
<1>1. PICK n \in 0..Len(s) : r = SubSeq(s, 1, n)
  BY DEF Prefix
<1>2. n \in Nat /\ Len(s) \in Nat /\ Len(r) = n /\ r \in Seq(Contents) /\ n + 1 \in 1..Len(s)
  BY <1>1, PrefixIsShorter, LenProperties
<1>3. s[n + 1] \in Contents
  BY <1>2, ElementOfSeq
<1> DEFINE t == SubSeq(s, 1, n + 1)
           u == Append(r, s[n + 1])
<1>4. t \in Seq(Contents) /\ Len(t) = n + 1 /\ \A i \in 1..n + 1 : t[i] = s[i]
  BY <1>2, PrefixIsShorter
<1>5. u \in Seq(Contents) /\ Len(u) = n + 1 /\ u[n + 1] = s[n + 1] /\ \A i \in 1..n : u[i] = r[i]
  BY <1>2, <1>3, AppendProperties
<1>6. \A i \in 1..n : r[i] = s[i]
  BY <1>1, PrefixIsShorter
<1>7. \A i \in 1..Len(u) : u[i] = t[i]
  <2> HIDE DEF t, u
  <2>1. \A i \in 1..n + 1 : i \in 1..n \/ i = n + 1
    BY <1>2
  <2> QED BY <1>4, <1>5, <1>6, <2>1
<1>8. u = t
  <2> HIDE DEF t, u
  <2> QED BY <1>4, <1>5, <1>7, SeqEqual
<1> QED BY <1>2, <1>8 DEF Prefix

LEMMA PrefixStarts ==
  ASSUME NEW s \in Seq(Contents)
  PROVE  Prefix(<<>>, s) /\ Prefix(s, s)
<1>1. Len(s) \in Nat
  BY LenProperties
<1> QED BY <1>1, SubSeqEmpty, SubSeqFull DEF Prefix

-----------------------------------------------------------------------------
(* The rows of one capture.                                                *)
LEMMA CommitmentIsSpooled ==
  ASSUME CaptureInv, NEW c \in Captures
  PROVE  /\ Commitment(c) \in Seq(Contents) /\ Len(Commitment(c)) = spool[c].count
         /\ Prefix(received[c], Commitment(c))
         /\ spool[c].chunks \in Seq(Contents) /\ spool[c].count \in Nat
         /\ Len(spool[c].chunks) \in Nat
<1>1. spool[c] \in Spools
  BY DEF CaptureInv, CaptureTypeOK
<1>2. /\ spool[c].chunks \in Seq(Contents) /\ spool[c].count \in Nat
      /\ spool[c].count <= Len(spool[c].chunks)
  BY <1>1 DEF Spools, CaptureInv, SpoolIsIndexed
<1>3. Len(spool[c].chunks) \in Nat
  BY <1>2, LenProperties
<1> QED BY <1>2, <1>3, PrefixIsShorter DEF Commitment, Prefix, CaptureInv, SnapshotIsSealed

(* Where a run may be, by what its capture has spooled.                    *)
RunFits(r, sp) ==
  /\ r \in Runs
  /\ r.pc = "index" => Len(sp.chunks) = sp.count + 1
  /\ r.pc \in {"collect", "index"} => sp.state = "collecting"
  /\ r.pc \in {"issue", "status", "upload"} => sp.state = "sealed"
  /\ r.pc \in {"status", "upload"} => r.token # 0

LEMMA NoRunFits == \A sp : RunFits(NoRun, sp)
BY DEF NoRun, RunFits, Runs

LEMMA RunsFit ==
  ASSUME CaptureInv, NEW c \in Captures
  PROVE  RunFits(run[c], spool[c])
BY DEF CaptureInv, CaptureTypeOK, SpoolIsIndexed, RunFits

LEMMA CaptureInitInv == CaptureInit => CaptureInv
<1> SUFFICES ASSUME CaptureInit PROVE CaptureInv
  OBVIOUS
<1>1. <<>> \in Seq(Contents) /\ Len(<<>>) = 0
  BY EmptySeq
<1>2. CaptureTypeOK
  BY <1>1, CaptureParameters DEF CaptureInit, CaptureTypeOK, Connections, Spools, Spool, Runs, NoRun,
     OperationStates, GrantStates
<1>3. SnapshotIsSealed
  <2>1. \A c \in Captures : Commitment(c) \in Seq(Contents) /\ Prefix(<<>>, Commitment(c))
    <3>1. SubSeq(<<>>, 1, 0) = <<>>
      BY SubSeqEmpty, 0 < 1, 0 \in Int, 1 \in Int
    <3>0. Prefix(<<>>, <<>>)
      BY <1>1, PrefixStarts
    <3>2. \A c \in Captures : spool[c].chunks = <<>> /\ spool[c].count = 0
      BY DEF CaptureInit, Spool
    <3> QED BY <1>1, <3>0, <3>1, <3>2 DEF Commitment
  <2> QED BY <2>1 DEF CaptureInit, SnapshotIsSealed, Prefix
<1>4. GrantsFollowConnection /\ ManifestFollowsOperation /\ OneGrant
  BY DEF CaptureInit, GrantsFollowConnection, ManifestFollowsOperation, OneGrant, Held
<1>5. SpoolIsIndexed
  <2>1. \A c \in Captures : /\ spool[c].chunks = <<>> /\ spool[c].count = 0
                            /\ spool[c].state = "none" /\ run[c].pc = "idle"
    BY DEF CaptureInit, NoRun, Spool
  <2>2. \A c \in Captures : Len(spool[c].chunks) = 0
    BY <1>1, <2>1
  <2>3. ASSUME NEW c \in Captures
        PROVE  /\ spool[c].count <= Len(spool[c].chunks)
               /\ Len(spool[c].chunks) <= spool[c].count + 1
    <3>1. spool[c].count = 0 /\ Len(spool[c].chunks) = 0
      BY <2>1, <2>2
    <3> QED BY <3>1
  <2>4. ASSUME NEW c \in Captures
        PROVE  run[c].pc \notin {"index", "collect", "issue", "status", "upload"}
    BY <2>1
  <2> QED BY <2>1, <2>3, <2>4 DEF SpoolIsIndexed
<1> QED BY <1>2, <1>3, <1>4, <1>5 DEF CaptureInv

-----------------------------------------------------------------------------
(* Steps of the extension.                                                 *)

(* A run moves, and may have sent a request.                               *)
LEMMA RunKeeps ==
  ASSUME CaptureInv, NEW c \in Captures, NEW r, RunFits(r, spool[c]), run' = [run EXCEPT ![c] = r],
         tokens' \in [Captures -> SUBSET Generations],
         UNCHANGED <<connection, changes, library, spool, identity, rows, sweeping>>
  PROVE  CaptureInv'
<1>1. /\ CaptureTypeOK
      /\ connection' = connection /\ changes' = changes /\ library' = library
      /\ spool' = spool /\ identity' = identity /\ operation' = operation /\ manifest' = manifest
      /\ grant' = grant /\ received' = received /\ snapshot' = snapshot /\ sweeping' = sweeping
  BY DEF rows, CaptureInv
<1>2. run' \in [Captures -> Runs] /\ \A d \in Captures : RunFits(run'[d], spool[d])
  BY <1>1, RunsFit DEF CaptureTypeOK, RunFits
<1>3. CaptureTypeOK'
  BY <1>1, <1>2 DEF CaptureTypeOK
<1>4. GrantsFollowConnection' /\ ManifestFollowsOperation' /\ OneGrant'
  BY <1>1 DEF CaptureInv, GrantsFollowConnection, ManifestFollowsOperation, OneGrant, Bound
<1>5. SnapshotIsSealed'
  BY <1>1 DEF CaptureInv, SnapshotIsSealed, Commitment
<1>6. SpoolIsIndexed'
  BY <1>1, <1>2 DEF CaptureInv, SpoolIsIndexed, RunFits
<1> QED BY <1>3, <1>4, <1>5, <1>6 DEF CaptureInv

(* What a run may make of a spool that is not sealed.                      *)
SpoolFits(sp, id) ==
  /\ sp \in Spools /\ sp.count <= Len(sp.chunks) /\ Len(sp.chunks) <= sp.count + 1
  /\ sp.state = "none" => sp.count = 0
  /\ sp.state # "none" => id # None
  /\ id \in Accounts \cup {None}

LEMMA SpoolKeeps ==
  ASSUME CaptureInv, NEW c \in Captures, NEW sp, NEW id, NEW r, spool[c].state # "sealed",
         SpoolFits(sp, id), RunFits(r, sp),
         spool' = [spool EXCEPT ![c] = sp], identity' = [identity EXCEPT ![c] = id],
         run' = [run EXCEPT ![c] = r], ServerUnchanged, UNCHANGED <<library, tokens>>
  PROVE  CaptureInv'
<1>1. /\ CaptureTypeOK
      /\ connection' = connection /\ changes' = changes /\ library' = library /\ tokens' = tokens
      /\ operation' = operation /\ manifest' = manifest
      /\ grant' = grant /\ received' = received /\ snapshot' = snapshot /\ sweeping' = sweeping
  BY DEF ServerUnchanged, rows, CaptureInv
<1>2. /\ spool'[c] = sp /\ identity'[c] = id /\ run'[c] = r
      /\ \A d \in Captures : d # c => /\ spool'[d] = spool[d] /\ identity'[d] = identity[d]
                                    /\ run'[d] = run[d]
  BY <1>1 DEF CaptureTypeOK
<1>3. CaptureTypeOK'
  BY <1>1 DEF CaptureTypeOK, SpoolFits, RunFits
<1>4. /\ operation[c] = "none" /\ received[c] = <<>> /\ snapshot[c] = None
      /\ \A g \in Generations : grant[c][g] = "none"
  BY DEF CaptureInv, ManifestFollowsOperation, GrantsFollowConnection
<1>5. GrantsFollowConnection' /\ OneGrant'
  BY <1>1, <1>2, <1>4 DEF CaptureInv, GrantsFollowConnection, OneGrant, Bound, Held
<1>6. ManifestFollowsOperation'
  BY <1>1, <1>2, <1>4 DEF CaptureInv, ManifestFollowsOperation
<1>7. SnapshotIsSealed'
  <2>1. sp.chunks \in Seq(Contents) /\ sp.count \in 0..Len(sp.chunks)
    BY LenProperties DEF SpoolFits, Spools
  <2>2. Prefix(<<>>, SubSeq(sp.chunks, 1, sp.count))
    BY <2>1, PrefixIsShorter, PrefixStarts
  <2>3. \A d \in Captures : d # c => Commitment(d)' = Commitment(d)
    BY <1>2 DEF Commitment
  <2>4. Commitment(c)' = SubSeq(sp.chunks, 1, sp.count)
    BY <1>2 DEF Commitment
  <2> QED BY <1>1, <1>4, <2>2, <2>3, <2>4 DEF CaptureInv, SnapshotIsSealed, Prefix
<1>8. SpoolIsIndexed'
  <2>1. \A d \in Captures : RunFits(run'[d], spool'[d])
    BY <1>2, RunsFit
  <2> QED BY <1>1, <1>2, <2>1 DEF CaptureInv, SpoolIsIndexed, RunFits, SpoolFits
<1> QED BY <1>3, <1>5, <1>6, <1>7, <1>8 DEF CaptureInv

(* The steps of collection.                                                *)
LEMMA CollectionKeeps ==
  ASSUME CaptureInv, NEW c \in Captures,
         \/ OpenSpool(c) \/ StoreChunk(c) \/ AdvanceIndex(c) \/ RestageChunk(c)
         \/ StageConflicts(c) \/ Seal(c) \/ CollectionEnds(c)
  PROVE  CaptureInv'
<1> DEFINE sp == spool[c]
           Run(pc, at) == [pc |-> pc, at |-> at, token |-> run[c].token]
<1>1. /\ spool \in [Captures -> Spools] /\ identity \in [Captures -> Accounts \cup {None}]
      /\ run \in [Captures -> Runs] /\ tokens \in [Captures -> SUBSET Generations]
      /\ library \in Versions /\ connection \in Connections
  BY DEF CaptureInv, CaptureTypeOK
<1>2. /\ sp.chunks \in Seq(Contents) /\ sp.count \in Nat /\ Len(sp.chunks) \in Nat
      /\ sp.state \in {"none", "collecting", "sealed"}
      /\ SpoolFits(sp, identity[c])
  BY <1>1, CommitmentIsSpooled DEF Spools, CaptureInv, SpoolIsIndexed, SpoolFits
<1>3. /\ Listing \in Seq(Contents) /\ Len(Listing) \in Nat
      /\ \A i \in 1..Len(Listing) : Listing[i] \in Contents
  <2>1. Listing \in Seq(Contents) \ {<<>>}
    BY <1>1, CaptureParameters, ElementOfSeq DEF Listing, Versions
  <2> QED BY <2>1, LenProperties, ElementOfSeq
<1>4. /\ run[c].pc \in {"idle", "collect", "index", "issue", "status", "upload"}
      /\ run[c].at \in Nat /\ run[c].token \in Generations \cup {0}
      /\ RunFits(run[c], sp)
  BY <1>1, RunsFit DEF Runs
<1>5. \A pc, at : Goto(c, pc, at) => run' = [run EXCEPT ![c] = Run(pc, at)]
  BY <1>1 DEF Goto, Runs
<1>6. ASSUME NEW pc \in {"idle", "collect", "index", "issue", "status", "upload"}, NEW at \in Nat
      PROVE  /\ Run(pc, at) \in Runs /\ Run(pc, at).pc = pc /\ Run(pc, at).token = run[c].token
  BY <1>4 DEF Runs
<1>7. ASSUME NEW state \in {"none", "collecting", "sealed"}, NEW chunks \in Seq(Contents),
             NEW count \in Nat
      PROVE  /\ Spool(state, chunks, count) \in Spools /\ Spool(state, chunks, count).state = state
             /\ Spool(state, chunks, count).chunks = chunks /\ Spool(state, chunks, count).count = count
  BY DEF Spools, Spool
<1>8. spool = [spool EXCEPT ![c] = sp] /\ identity = [identity EXCEPT ![c] = identity[c]]
  BY <1>1
<1> HIDE DEF sp, Run
<1>9. ASSUME NEW new, NEW id, NEW r, sp.state # "sealed", SpoolFits(new, id), RunFits(r, new),
             spool' = [spool EXCEPT ![c] = new], identity' = [identity EXCEPT ![c] = id],
             run' = [run EXCEPT ![c] = r], ServerUnchanged, UNCHANGED <<library, tokens>>
      PROVE  CaptureInv'
  BY <1>9, SpoolKeeps DEF sp
<1>n. ASSUME NEW new, NEW r, sp.state # "sealed", SpoolFits(new, identity[c]), RunFits(r, new),
             spool' = [spool EXCEPT ![c] = new], run' = [run EXCEPT ![c] = r], ServerUnchanged,
             UNCHANGED <<library, identity, tokens>>
      PROVE  CaptureInv'
  <2>1. identity' = [identity EXCEPT ![c] = identity[c]]
    BY <1>8, <1>n
  <2> QED BY <1>9, <1>n, <2>1
<1>10. ASSUME NEW r, RunFits(r, sp), run' = [run EXCEPT ![c] = r], ServerUnchanged,
              UNCHANGED <<library, spool, identity, tokens>>
       PROVE  CaptureInv'
  BY <1>1, <1>10, RunKeeps DEF ServerUnchanged, sp
<1>11. CASE StageConflicts(c) \/ CollectionEnds(c)
  BY <1>10, <1>11, NoRunFits DEF StageConflicts, CollectionEnds, Stops
<1>12. CASE OpenSpool(c)
  <2>1. CASE sp.state = "none"
    <3>1. /\ connection.account # None /\ spool' = [spool EXCEPT ![c] = Spool("collecting", @.chunks, @.count)]
          /\ identity' = [identity EXCEPT ![c] = connection.account]
          /\ run' = [run EXCEPT ![c] = Run("collect", 1)]
          /\ ServerUnchanged /\ UNCHANGED <<library, tokens>>
      BY <1>5, <1>12, <2>1 DEF OpenSpool, sp
    <3>2. spool' = [spool EXCEPT ![c] = Spool("collecting", sp.chunks, sp.count)]
      BY <3>1 DEF sp
    <3>3. connection.account \in Accounts
      BY <1>1, <3>1 DEF Connections
    <3>4. SpoolFits(Spool("collecting", sp.chunks, sp.count), connection.account)
      BY <1>2, <1>7, <3>1, <3>3 DEF SpoolFits
    <3>5. RunFits(Run("collect", 1), Spool("collecting", sp.chunks, sp.count))
      BY <1>2, <1>6, <1>7 DEF RunFits
    <3> QED BY <1>9, <2>1, <3>1, <3>2, <3>4, <3>5
  <2>2. CASE sp.state = "collecting" /\ Goto(c, "collect", 1) /\ UNCHANGED <<spool, identity>>
    <3>1. RunFits(Run("collect", 1), sp)
      BY <1>6, <2>2 DEF RunFits
    <3> QED BY <1>5, <1>10, <1>12, <2>2, <3>1 DEF OpenSpool
  <2>3. CASE sp.state = "sealed" /\ Goto(c, "issue", 1) /\ UNCHANGED <<spool, identity>>
    <3>1. RunFits(Run("issue", 1), sp)
      BY <1>6, <2>3 DEF RunFits
    <3> QED BY <1>5, <1>10, <1>12, <2>3, <3>1 DEF OpenSpool
  <2> QED BY <1>1, <1>12, <2>1, <2>2, <2>3 DEF OpenSpool, sp
<1>13. CASE StoreChunk(c)
  <2>1. /\ run[c].at \in 1..Len(Listing) /\ run[c].at = sp.count + 1 /\ Len(sp.chunks) = sp.count
        /\ run[c].pc = "collect" /\ sp.state = "collecting"
    BY <1>4, <1>13 DEF StoreChunk, Collecting, RunFits, sp
  <2> DEFINE chunks == Append(sp.chunks, Listing[run[c].at])
  <2>2. spool' = [spool EXCEPT ![c] = Spool(sp.state, chunks, sp.count)]
    BY <1>13 DEF StoreChunk, sp
  <2>3. chunks \in Seq(Contents) /\ Len(chunks) = Len(sp.chunks) + 1
    BY <1>2, <1>3, <2>1, AppendProperties
  <2> HIDE DEF chunks
  <2>4. SpoolFits(Spool(sp.state, chunks, sp.count), identity[c])
    BY <1>2, <1>7, <2>1, <2>3 DEF SpoolFits
  <2>5. RunFits(Run("index", run[c].at), Spool(sp.state, chunks, sp.count))
    BY <1>2, <1>4, <1>6, <1>7, <2>1, <2>3 DEF RunFits
  <2>6. /\ run' = [run EXCEPT ![c] = Run("index", run[c].at)]
        /\ ServerUnchanged /\ UNCHANGED <<library, identity, tokens>>
    BY <1>5, <1>13 DEF StoreChunk
  <2>7. sp.state # "sealed"
    BY <2>1
  <2> QED BY <1>n, <2>2, <2>4, <2>5, <2>6, <2>7
<1>14. ASSUME sp.count + 1 <= Len(sp.chunks), sp.state = "collecting",
              spool' = [spool EXCEPT ![c] = Spool(@.state, @.chunks, @.count + 1)], Goto(c, "collect", run[c].at + 1),
              ServerUnchanged, UNCHANGED <<library, identity, tokens>>
       PROVE  CaptureInv'
  <2>1. spool' = [spool EXCEPT ![c] = Spool(sp.state, sp.chunks, sp.count + 1)]
    BY <1>14 DEF sp
  <2>2. sp.count + 1 \in Nat /\ run[c].at + 1 \in Nat
    BY <1>2, <1>4
  <2>3. SpoolFits(Spool(sp.state, sp.chunks, sp.count + 1), identity[c])
    BY <1>2, <1>7, <1>14, <2>2 DEF SpoolFits
  <2>4. RunFits(Run("collect", run[c].at + 1), Spool(sp.state, sp.chunks, sp.count + 1))
    BY <1>2, <1>6, <1>7, <1>14, <2>2 DEF RunFits
  <2> QED BY <1>5, <1>n, <1>14, <2>1, <2>3, <2>4
<1>15. CASE AdvanceIndex(c)
  <2>1. sp.count + 1 <= Len(sp.chunks) /\ sp.state = "collecting"
    BY <1>2, <1>4, <1>15 DEF AdvanceIndex, RunFits
  <2> QED BY <1>14, <1>15, <2>1 DEF AdvanceIndex
<1>16. CASE RestageChunk(c)
  <2>1. run[c].pc = "collect" /\ sp.state = "collecting" /\ run[c].at <= Len(sp.chunks)
    BY <1>4, <1>16 DEF RestageChunk, Collecting, SameChunk, RunFits, sp
  <2>2. CASE run[c].at = sp.count + 1
    BY <1>14, <1>16, <2>1, <2>2 DEF RestageChunk, sp
  <2>3. CASE run[c].at # sp.count + 1
    <3>1. run[c].at + 1 \in Nat
      BY <1>4
    <3>2. RunFits(Run("collect", run[c].at + 1), sp)
      BY <1>6, <2>1, <3>1 DEF RunFits
    <3> QED BY <1>5, <1>10, <1>16, <2>3, <3>2 DEF RestageChunk, sp
  <2> QED BY <2>2, <2>3
<1>17. CASE Seal(c)
  <2>1. run[c].pc = "collect" /\ sp.state = "collecting"
    BY <1>4, <1>17 DEF Seal, RunFits
  <2>2. CASE sp.count = Len(Listing)
    <3>1. spool' = [spool EXCEPT ![c] = Spool("sealed", sp.chunks, sp.count)]
      BY <1>17, <2>2 DEF Seal, sp
    <3>2. SpoolFits(Spool("sealed", sp.chunks, sp.count), identity[c])
      BY <1>2, <1>7, <2>1 DEF SpoolFits
    <3>3. RunFits(Run("issue", 1), Spool("sealed", sp.chunks, sp.count))
      BY <1>2, <1>6, <1>7 DEF RunFits
    <3>4. Goto(c, "issue", 1)
      BY <1>17, <2>2 DEF Seal, sp
    <3>5. /\ run' = [run EXCEPT ![c] = Run("issue", 1)]
          /\ ServerUnchanged /\ UNCHANGED <<library, identity, tokens>>
      BY <1>5, <1>17, <3>4 DEF Seal
    <3>6. sp.state # "sealed"
      BY <2>1
    <3> QED BY <1>n, <3>1, <3>2, <3>3, <3>5, <3>6
  <2>3. CASE sp.count # Len(Listing)
    BY <1>10, <1>17, <2>3, NoRunFits DEF Seal, Stops, sp
  <2> QED BY <2>2, <2>3
<1> QED BY <1>11, <1>12, <1>13, <1>15, <1>16, <1>17

-----------------------------------------------------------------------------
(* Steps of the server.                                                    *)

(* What holds of the rows of one capture.                                  *)
RowsFit(c) ==
  /\ \A g \in Generations : /\ grant[c][g] \in Held => Bound(c) /\ operation[c] # "cancelled"
                            /\ grant[c][g] # "none" => operation[c] # "none"
  /\ \A g, h \in Generations : grant[c][g] \in Held /\ grant[c][h] \in Held => g = h
  /\ operation[c] = "none" <=> manifest[c] = "none"
  /\ operation[c] = "completed" <=> manifest[c] = "completed"
  /\ manifest[c] = "completed" <=> snapshot[c] # None
  /\ operation[c] = "cancelled" => manifest[c] \in {"cancelled", "expired"}
  /\ operation[c] = "failed" => manifest[c] = "expired"
  /\ operation[c] # "none" => spool[c].state = "sealed"
  /\ operation[c] = "none" => received[c] = <<>>
  /\ Prefix(received[c], Commitment(c))
  /\ snapshot[c] # None => snapshot[c] = Commitment(c)

LEMMA RowsAreFit ==
  ASSUME CaptureInv, NEW c \in Captures
  PROVE  RowsFit(c)
BY DEF CaptureInv, GrantsFollowConnection, ManifestFollowsOperation, SnapshotIsSealed, OneGrant,
       RowsFit, Prefix

LEMMA ServerKeeps ==
  ASSUME CaptureInv, CaptureTypeOK', UNCHANGED <<spool, identity>>,
         \A c \in Captures : RunFits(run'[c], spool[c]) /\ RowsFit(c)'
  PROVE  CaptureInv'
<1>1. GrantsFollowConnection' /\ OneGrant'
  BY DEF GrantsFollowConnection, OneGrant, RowsFit
<1>2. ManifestFollowsOperation'
  BY DEF ManifestFollowsOperation, RowsFit
<1>3. SnapshotIsSealed'
  BY DEF SnapshotIsSealed, RowsFit, Prefix
<1>4. SpoolIsIndexed'
  BY DEF CaptureInv, SpoolIsIndexed, RunFits
<1> QED BY <1>1, <1>2, <1>3, <1>4 DEF CaptureInv

(* A capture whose rows stay as they are.                                  *)
LEMMA RowsStayFit ==
  ASSUME CaptureInv, NEW c \in Captures,
         UNCHANGED <<connection, spool, identity>>,
         operation'[c] = operation[c], manifest'[c] = manifest[c], grant'[c] = grant[c],
         received'[c] = received[c], snapshot'[c] = snapshot[c]
  PROVE  RowsFit(c)'
BY RowsAreFit DEF RowsFit, Bound, Commitment

LEMMA ConnectionKeeps ==
  ASSUME CaptureInv, NEW retained, Changing, RevokeGrants(retained), connection' \in Connections,
         retained # None => connection'.state = "ready" /\ connection'.account = retained
  PROVE  CaptureInv'
<1>1. /\ CaptureTypeOK /\ changes' = changes + 1 /\ spool' = spool /\ identity' = identity
      /\ run' = run /\ tokens' = tokens /\ library' = library /\ operation' = operation
      /\ manifest' = manifest /\ received' = received /\ snapshot' = snapshot /\ sweeping' = sweeping
  BY DEF Changing, extension, CaptureInv
<1>2. CaptureTypeOK'
  BY <1>1 DEF CaptureTypeOK, RevokeGrants, GrantStates
<1>3. ASSUME NEW c \in Captures
      PROVE  RunFits(run'[c], spool[c]) /\ RowsFit(c)'
  <2>1. \A g \in Generations :
          grant'[c][g] = IF grant[c][g] \in Held /\ identity[c] # retained THEN "revoked"
                         ELSE grant[c][g]
    BY DEF RevokeGrants
  <2>2. RowsFit(c) /\ RunFits(run[c], spool[c])
    BY RowsAreFit, RunsFit
  <2>3. operation[c] # "none" => identity[c] # None
    BY <2>2 DEF RowsFit, CaptureInv, SpoolIsIndexed
  <2>4. \A g \in Generations : grant'[c][g] \in Held =>
          Bound(c)' /\ operation[c] # "cancelled" /\ grant[c][g] \in Held
    BY <1>1, <2>1, <2>2, <2>3 DEF RowsFit, Bound, Held
  <2>5. \A g \in Generations : grant'[c][g] # "none" => operation[c] # "none"
    BY <2>1, <2>2 DEF RowsFit, Held
  <2> QED BY <1>1, <2>2, <2>4, <2>5 DEF RowsFit, Commitment
<1> QED BY <1>1, <1>2, <1>3, ServerKeeps

LEMMA ConnectionStepKeeps ==
  ASSUME CaptureInv, ConnectionStep
  PROVE  CaptureInv'
<1>1. connection \in Connections
  BY DEF CaptureInv, CaptureTypeOK
<1>2. CASE Reauthorize \/ Revoke \/ ObserveActionRequired
  <2>1. /\ Changing /\ RevokeGrants(None)
        /\ \E state \in {"action-required", "revoked"} :
             connection' = [connection EXCEPT !.state = state]
    BY <1>2 DEF Reauthorize, Revoke, ObserveActionRequired
  <2>2. connection' \in Connections
    BY <1>1, <2>1 DEF Connections
  <2> QED BY <2>1, <2>2, ConnectionKeeps
<1>3. CASE \E a \in Accounts : ObserveReady(a)
  <2>1. PICK a \in Accounts : ObserveReady(a)
    BY <1>3
  <2>2. /\ Changing /\ RevokeGrants(a) /\ connection' = [state |-> "ready", account |-> a]
    BY <2>1 DEF ObserveReady
  <2>3. connection' \in Connections /\ connection'.state = "ready" /\ connection'.account = a
    BY <2>2 DEF Connections
  <2> QED BY <2>2, <2>3, ConnectionKeeps
<1> QED BY <1>2, <1>3 DEF ConnectionStep

LEMMA IssueKeeps ==
  ASSUME CaptureInv, NEW c \in Captures, NEW g \in Generations, IssueGrant(c, g)
  PROVE  CaptureInv'
<1>1. /\ CaptureTypeOK /\ run[c].pc = "issue" /\ Bound(c) /\ Grantable(c)
      /\ connection' = connection /\ changes' = changes /\ library' = library /\ spool' = spool
      /\ identity' = identity /\ tokens' = tokens /\ received' = received
      /\ snapshot' = snapshot /\ sweeping' = sweeping
      /\ operation' = [operation EXCEPT ![c] = IF operation[c] = "none" THEN "queued" ELSE operation[c]]
      /\ manifest' = [manifest EXCEPT ![c] = "receiving"]
      /\ run' = [run EXCEPT ![c] = [pc |-> "status", at |-> 1, token |-> g]]
  BY DEF IssueGrant, CaptureInv
<1> DEFINE gr == [h \in Generations |-> IF h = g THEN "active"
                                       ELSE IF grant[c][h] \in Held THEN "revoked" ELSE grant[c][h]]
<1>2. grant' = [grant EXCEPT ![c] = gr]
  BY DEF IssueGrant
<1>3. gr \in [Generations -> GrantStates]
  BY <1>1 DEF CaptureTypeOK, GrantStates
<1>4. \A h \in Generations : gr[h] \in Held => h = g
  BY DEF Held
<1> HIDE DEF gr
<1>5. CaptureTypeOK'
  <2>1. [pc |-> "status", at |-> 1, token |-> g] \in Runs
    BY DEF Runs
  <2> QED BY <1>1, <1>2, <1>3, <2>1 DEF CaptureTypeOK, OperationStates
<1>6. ASSUME NEW d \in Captures PROVE RunFits(run'[d], spool[d]) /\ RowsFit(d)'
  <2>1. CASE d # c
    <3>1. /\ run'[d] = run[d] /\ operation'[d] = operation[d] /\ manifest'[d] = manifest[d]
          /\ grant'[d] = grant[d] /\ received'[d] = received[d] /\ snapshot'[d] = snapshot[d]
      BY <1>1, <1>2, <2>1 DEF CaptureTypeOK
    <3> QED BY <1>1, <3>1, RunsFit, RowsStayFit
  <2>2. CASE d = c
    <3>1. spool[c].state = "sealed"
      BY <1>1, RunsFit DEF RunFits
    <3>2. /\ run'[c] = [pc |-> "status", at |-> 1, token |-> g] /\ grant'[c] = gr
          /\ manifest'[c] = "receiving" /\ operation'[c] \in Open
      BY <1>1, <1>2, RowsAreFit DEF CaptureTypeOK, Grantable, RowsFit, Open
    <3>3. RunFits(run'[c], spool[c])
      <4>1. g # 0
        BY CaptureParameters DEF Generations
      <4> QED BY <3>1, <3>2, <4>1 DEF RunFits, Runs
    <3>4. manifest[c] # "completed" /\ snapshot[c] = None
      BY <1>1, RowsAreFit DEF Grantable, RowsFit, Open
    <3>5. Bound(c)' /\ Prefix(received'[c], Commitment(c)')
      BY <1>1, RowsAreFit DEF Bound, RowsFit, Commitment
    <3> QED BY <1>1, <1>4, <2>2, <3>1, <3>2, <3>3, <3>4, <3>5 DEF RowsFit, Open
  <2> QED BY <2>1, <2>2
<1> QED BY <1>1, <1>5, <1>6, ServerKeeps

(* A step that leaves the connection, the spools and the runs alone, or    *)
(* lets one run go on, and writes the rows of one capture.                 *)
LEMMA RowsKeep ==
  ASSUME CaptureInv, NEW c \in Captures, CaptureTypeOK', RowsFit(c)',
         UNCHANGED <<connection, spool, identity>>, RunFits(run'[c], spool[c]),
         \A d \in Captures \ {c} :
           /\ operation'[d] = operation[d] /\ manifest'[d] = manifest[d] /\ grant'[d] = grant[d]
           /\ received'[d] = received[d] /\ snapshot'[d] = snapshot[d] /\ run'[d] = run[d]
  PROVE  CaptureInv'
<1>1. ASSUME NEW d \in Captures, d # c PROVE RunFits(run'[d], spool[d]) /\ RowsFit(d)'
  BY <1>1, RunsFit, RowsStayFit
<1> QED BY <1>1, ServerKeeps

LEMMA ChunkKeeps ==
  ASSUME CaptureInv, NEW c \in Captures, NEW g \in Generations, NEW n \in Nat,
         RecordChunk(c, g, n), NEW r, RunFits(r, spool[c]), run' = [run EXCEPT ![c] = r],
         UNCHANGED <<connection, changes, library, spool, identity, sweeping, tokens>>
  PROVE  CaptureInv'
<1> DEFINE rec == IF n = Len(received[c]) + 1 THEN Append(received[c], Commitment(c)[n])
                  ELSE received[c]
           op == IF operation[c] \in Open THEN "running" ELSE operation[c]
<1>1. /\ CaptureTypeOK /\ ChunkAccepted(c, g, n) /\ manifest' = manifest /\ grant' = grant
      /\ snapshot' = snapshot /\ received' = [received EXCEPT ![c] = rec]
      /\ operation' = [operation EXCEPT ![c] = op]
  BY DEF RecordChunk, CaptureInv
<1>2. /\ grant[c][g] = "active" /\ operation[c] # "cancelled" /\ operation[c] # "none"
      /\ n \in 1..Len(Commitment(c))
  BY <1>1, RowsAreFit DEF ChunkAccepted, Authorized, RowsFit
<1>3. rec \in Seq(Contents) /\ Prefix(rec, Commitment(c))
  <2>1. /\ Commitment(c) \in Seq(Contents) /\ Prefix(received[c], Commitment(c))
        /\ received[c] \in Seq(Contents) /\ Commitment(c)[n] \in Contents
    BY <1>1, <1>2, CommitmentIsSpooled, ElementOfSeq DEF CaptureTypeOK
  <2>2. CASE n = Len(received[c]) + 1
    <3>1. Len(received[c]) + 1 <= Len(Commitment(c))
      BY <1>2, <2>2
    <3> QED BY <2>1, <2>2, <3>1, PrefixGrows, AppendProperties
  <2>3. CASE n # Len(received[c]) + 1
    BY <2>1, <2>3
  <2> QED BY <2>2, <2>3
<1>4. /\ op \in OperationStates /\ (op = "none" <=> operation[c] = "none")
      /\ (op \in {"completed", "cancelled", "failed"} => op = operation[c])
      /\ (operation[c] \in {"completed", "cancelled", "failed"} => op = operation[c])
  BY <1>1 DEF CaptureTypeOK, OperationStates, Open
<1> HIDE DEF rec, op
<1>5. CaptureTypeOK'
  BY <1>1, <1>3, <1>4 DEF CaptureTypeOK, RunFits
<1>6. operation'[c] = op /\ received'[c] = rec /\ run'[c] = r
  BY <1>1 DEF CaptureTypeOK
<1>7. RowsFit(c)'
  <2>1. RowsFit(c) /\ Bound(c)' = Bound(c) /\ Commitment(c)' = Commitment(c)
    BY RowsAreFit DEF Bound, Commitment
  <2> QED BY <1>1, <1>2, <1>3, <1>4, <1>6, <2>1 DEF RowsFit
<1>8. \A d \in Captures \ {c} :
        /\ operation'[d] = operation[d] /\ manifest'[d] = manifest[d] /\ grant'[d] = grant[d]
        /\ received'[d] = received[d] /\ snapshot'[d] = snapshot[d] /\ run'[d] = run[d]
  BY <1>1 DEF CaptureTypeOK
<1> QED BY <1>5, <1>6, <1>7, <1>8, RowsKeep

LEMMA CompletionKeeps ==
  ASSUME CaptureInv, NEW c \in Captures, NEW g \in Generations, CompleteCapture(c, g),
         NEW r, RunFits(r, spool[c]), run' = [run EXCEPT ![c] = r],
         UNCHANGED <<connection, changes, library, spool, identity, sweeping, tokens>>
  PROVE  CaptureInv'
<1>1. /\ CaptureTypeOK /\ CompletionAccepted(c, g) /\ grant' = grant /\ received' = received
  BY DEF CompleteCapture, CaptureInv
<1>2. /\ grant[c][g] = "active" /\ operation[c] # "none" /\ run'[c] = r
      /\ \A d \in Captures \ {c} : run'[d] = run[d]
  BY <1>1, RowsAreFit DEF CompletionAccepted, Authorized, RowsFit, CaptureTypeOK
<1>3. RowsFit(c) /\ Bound(c)' = Bound(c) /\ Commitment(c)' = Commitment(c)
  BY RowsAreFit DEF Bound, Commitment
<1>4. CASE manifest[c] = "completed"
  <2>1. UNCHANGED <<operation, manifest, snapshot>>
    BY <1>4 DEF CompleteCapture
  <2>2. CaptureTypeOK'
    BY <1>1, <2>1 DEF CaptureTypeOK, RunFits
  <2>3. RowsFit(c)'
    BY <1>1, <1>3, <2>1 DEF RowsFit
  <2> QED BY <1>1, <1>2, <2>1, <2>2, <2>3, RowsKeep
<1>5. CASE manifest[c] # "completed"
  <2>1. /\ snapshot' = [snapshot EXCEPT ![c] = received[c]]
        /\ manifest' = [manifest EXCEPT ![c] = "completed"]
        /\ operation' = [operation EXCEPT ![c] = "completed"] /\ received[c] = Commitment(c)
    BY <1>5 DEF CompleteCapture, CompletionAccepted, Complete
  <2>2. received[c] \in Seq(Contents) /\ received[c] # None
    BY <1>1, CaptureParameters DEF CaptureTypeOK
  <2>3. CaptureTypeOK'
    BY <1>1, <2>1, <2>2 DEF CaptureTypeOK, OperationStates, RunFits
  <2>4. /\ snapshot'[c] = Commitment(c) /\ manifest'[c] = "completed" /\ operation'[c] = "completed"
        /\ Commitment(c) # None
    BY <1>1, <2>1, <2>2 DEF CaptureTypeOK
  <2>5. RowsFit(c)'
    BY <1>1, <1>2, <1>3, <2>4 DEF RowsFit
  <2>6. \A d \in Captures \ {c} :
          /\ operation'[d] = operation[d] /\ manifest'[d] = manifest[d] /\ snapshot'[d] = snapshot[d]
    BY <1>1, <2>1 DEF CaptureTypeOK
  <2> QED BY <1>1, <1>2, <2>3, <2>5, <2>6, RowsKeep
<1> QED BY <1>4, <1>5

(* Going on in a run replaces its record by one with the same token.       *)
LEMMA GotoRecords ==
  ASSUME NEW c \in Captures, run \in [Captures -> Runs]
  PROVE  \A pc, at : Goto(c, pc, at) =>
           run' = [run EXCEPT ![c] = [pc |-> pc, at |-> at, token |-> run[c].token]]
  BY DEF Goto, Runs

(* The steps of a run against the server, and requests that arrive late.   *)
LEMMA HandoffKeeps ==
  ASSUME CaptureInv, NEW c \in Captures,
         \/ IssueRefused(c) \/ ReadStatus(c) \/ Upload(c) \/ Finish(c) \/ HandoffRefused(c)
         \/ Crash(c) \/ LateStep(c)
  PROVE  CaptureInv'
<1>1. /\ run \in [Captures -> Runs] /\ tokens \in [Captures -> SUBSET Generations]
      /\ run[c].pc \in {"idle", "collect", "index", "issue", "status", "upload"}
      /\ run[c].at \in Nat /\ run[c].token \in Generations \cup {0}
      /\ RunFits(run[c], spool[c]) /\ received[c] \in Seq(Contents)
      /\ Len(received[c]) \in Nat /\ Len(Commitment(c)) \in Nat
  BY RunsFit, CommitmentIsSpooled, LenProperties DEF CaptureInv, CaptureTypeOK, Runs
<1> DEFINE Run(pc, at) == [pc |-> pc, at |-> at, token |-> run[c].token]
<1>2. \A pc, at : Goto(c, pc, at) => run' = [run EXCEPT ![c] = Run(pc, at)]
  BY <1>1, GotoRecords
<1>3. ASSUME NEW at \in Nat, run[c].pc \in {"status", "upload"}
      PROVE  RunFits(Run("upload", at), spool[c]) /\ run[c].token \in Generations
  BY <1>1, <1>3 DEF RunFits, Runs
<1> HIDE DEF Run
<1>4. CASE IssueRefused(c) \/ HandoffRefused(c) \/ Crash(c)
  <2>1. /\ run' = [run EXCEPT ![c] = NoRun] /\ tokens' = tokens
        /\ UNCHANGED <<connection, changes, library, spool, identity, rows, sweeping>>
    BY <1>4 DEF IssueRefused, HandoffRefused, Crash, Stops, ServerUnchanged, OthersUnchanged
  <2> QED BY <1>1, <2>1, NoRunFits, RunKeeps
<1>5. CASE ReadStatus(c)
  <2>1. run[c].token \in Generations
    BY <1>1, <1>3, <1>5 DEF ReadStatus
  <2>2. /\ tokens' = [tokens EXCEPT ![c] = @ \cup {run[c].token}]
        /\ UNCHANGED <<connection, changes, library, spool, identity, rows, sweeping>>
    BY <1>5 DEF ReadStatus, OthersUnchanged
  <2>3. tokens' \in [Captures -> SUBSET Generations]
    BY <1>1, <2>1, <2>2
  <2>4. CASE Stops(c)
    BY <2>2, <2>3, <2>4, NoRunFits, RunKeeps DEF Stops
  <2>5. CASE Goto(c, "upload", Len(received[c]) + 1)
    <3>1. RunFits(Run("upload", Len(received[c]) + 1), spool[c])
      <4>1. Len(received[c]) + 1 \in Nat
        BY <1>1
      <4> QED BY <1>3, <1>5, <4>1 DEF ReadStatus
    <3>2. run' = [run EXCEPT ![c] = Run("upload", Len(received[c]) + 1)]
      BY <1>2, <2>5
    <3> QED BY <2>2, <2>3, <3>1, <3>2, RunKeeps
  <2> QED BY <1>5, <2>4, <2>5 DEF ReadStatus
<1>6. CASE Upload(c)
  <2>1. /\ run[c].pc = "upload" /\ RecordChunk(c, run[c].token, run[c].at)
        /\ run' = [run EXCEPT ![c] = Run("upload", run[c].at + 1)]
        /\ UNCHANGED <<connection, changes, library, spool, identity, sweeping, tokens>>
    BY <1>2, <1>6 DEF Upload, OthersUnchanged
  <2>2. run[c].at + 1 \in Nat
    BY <1>1
  <2>3. RunFits(Run("upload", run[c].at + 1), spool[c]) /\ run[c].token \in Generations
    BY <1>3, <2>1, <2>2
  <2> QED BY <1>1, <2>1, <2>3, ChunkKeeps
<1>7. CASE Finish(c)
  <2>1. /\ CompleteCapture(c, run[c].token) /\ run' = [run EXCEPT ![c] = NoRun]
        /\ UNCHANGED <<connection, changes, library, spool, identity, sweeping, tokens>>
    BY <1>7 DEF Finish, OthersUnchanged, Stops
  <2>2. run[c].token \in Generations
    BY <1>1, <1>3, <1>7 DEF Finish
  <2> QED BY <2>1, <2>2, NoRunFits, CompletionKeeps
<1>8. CASE LateStep(c)
  <2>1. PICK g \in Generations :
          LateCompletion(c, g) \/ \E n \in 1..Len(Commitment(c)) : LateChunk(c, g, n)
    BY <1>8 DEF LateStep
  <2>2. run = [run EXCEPT ![c] = run[c]]
    BY <1>1
  <2>3. CASE LateCompletion(c, g)
    <3>1. /\ CompleteCapture(c, g) /\ run' = [run EXCEPT ![c] = run[c]]
          /\ UNCHANGED <<connection, changes, library, spool, identity, sweeping, tokens>>
      BY <2>2, <2>3 DEF LateCompletion, OthersUnchanged
    <3> QED BY <1>1, <3>1, CompletionKeeps
  <2>4. CASE \E n \in 1..Len(Commitment(c)) : LateChunk(c, g, n)
    <3>1. PICK n \in 1..Len(Commitment(c)) : LateChunk(c, g, n)
      BY <2>4
    <3>2. /\ RecordChunk(c, g, n) /\ run' = [run EXCEPT ![c] = run[c]] /\ n \in Nat
          /\ UNCHANGED <<connection, changes, library, spool, identity, sweeping, tokens>>
      BY <1>1, <2>2, <3>1 DEF LateChunk, OthersUnchanged
    <3> QED BY <1>1, <3>2, ChunkKeeps
  <2> QED BY <2>1, <2>3, <2>4
<1> QED BY <1>4, <1>5, <1>6, <1>7, <1>8

-----------------------------------------------------------------------------
(* The member, the clock and the sweeper.                                  *)
LEMMA RowStepKeeps ==
  ASSUME CaptureInv, NEW c \in Captures, RowStep(c)
  PROVE  CaptureInv'
<1>1. /\ CaptureTypeOK /\ connection' = connection /\ changes' = changes /\ library' = library
      /\ spool' = spool /\ identity' = identity /\ run' = run /\ tokens' = tokens
      /\ received' = received /\ snapshot' = snapshot /\ sweeping' = sweeping
  BY DEF RowStep, CancelCapture, RetryCapture, GrantExpires, Elsewhere, extension, CaptureInv
<1>2. RowsFit(c) /\ RunFits(run[c], spool[c]) /\ Bound(c)' = Bound(c) /\ Commitment(c)' = Commitment(c)
  BY <1>1, RowsAreFit, RunsFit DEF Bound, Commitment
<1>3. CASE CancelCapture(c)
  <2> DEFINE gr == [g \in Generations |-> IF grant[c][g] \in Held THEN "revoked" ELSE grant[c][g]]
             man == IF manifest[c] = "receiving" THEN "cancelled" ELSE manifest[c]
  <2>1. /\ operation[c] \in Open /\ operation' = [operation EXCEPT ![c] = "cancelled"]
        /\ grant' = [grant EXCEPT ![c] = gr] /\ manifest' = [manifest EXCEPT ![c] = man]
    BY <1>3 DEF CancelCapture
  <2>2. /\ gr \in [Generations -> GrantStates] /\ \A g \in Generations : gr[g] \notin Held
    BY <1>1 DEF CaptureTypeOK, GrantStates, Held
  <2>3. manifest[c] \in {"receiving", "cancelled", "expired"} /\ man \in {"cancelled", "expired"}
    BY <1>1, <1>2, <2>1 DEF CaptureTypeOK, RowsFit, Open
  <2> HIDE DEF gr, man
  <2>4. CaptureTypeOK'
    BY <1>1, <2>1, <2>2, <2>3 DEF CaptureTypeOK, OperationStates
  <2>5. grant'[c] = gr /\ operation'[c] = "cancelled" /\ manifest'[c] = man
    BY <1>1, <2>1 DEF CaptureTypeOK
  <2>6. RowsFit(c)'
    BY <1>1, <1>2, <2>1, <2>2, <2>3, <2>5 DEF RowsFit, Open
  <2>7. \A d \in Captures \ {c} :
          /\ operation'[d] = operation[d] /\ manifest'[d] = manifest[d] /\ grant'[d] = grant[d]
    BY <1>1, <2>1 DEF CaptureTypeOK
  <2> QED BY <1>1, <1>2, <2>4, <2>6, <2>7, RowsKeep
<1>4. CASE RetryCapture(c)
  <2>1. /\ operation[c] = "failed" /\ operation' = [operation EXCEPT ![c] = "queued"]
        /\ manifest' = manifest /\ grant' = grant
    BY <1>4 DEF RetryCapture
  <2>2. CaptureTypeOK'
    BY <1>1, <2>1 DEF CaptureTypeOK, OperationStates
  <2>3. operation'[c] = "queued"
    BY <1>1, <2>1 DEF CaptureTypeOK
  <2>4. RowsFit(c)'
    BY <1>1, <1>2, <2>1, <2>3 DEF RowsFit
  <2>5. \A d \in Captures \ {c} : operation'[d] = operation[d]
    BY <1>1, <2>1 DEF CaptureTypeOK
  <2> QED BY <1>1, <1>2, <2>1, <2>2, <2>4, <2>5, RowsKeep
<1>5. CASE \E g \in Generations : GrantExpires(c, g)
  <2>1. PICK g \in Generations : GrantExpires(c, g)
    BY <1>5
  <2> DEFINE gr == [grant[c] EXCEPT ![g] = "overdue"]
  <2>2. /\ grant[c][g] = "active" /\ grant' = [grant EXCEPT ![c] = gr]
        /\ operation' = operation /\ manifest' = manifest
    BY <2>1 DEF GrantExpires
  <2>3. /\ gr \in [Generations -> GrantStates] /\ gr[g] = "overdue"
        /\ \A h \in Generations : h # g => gr[h] = grant[c][h]
    BY <1>1 DEF CaptureTypeOK, GrantStates
  <2> HIDE DEF gr
  <2>4. CaptureTypeOK'
    BY <1>1, <2>2, <2>3 DEF CaptureTypeOK
  <2>5. grant'[c] = gr
    BY <1>1, <2>2 DEF CaptureTypeOK
  <2>6. \A h \in Generations : /\ gr[h] \in Held <=> grant[c][h] \in Held
                               /\ gr[h] = "none" <=> grant[c][h] = "none"
    BY <2>2, <2>3 DEF Held
  <2>7. RowsFit(c)'
    BY <1>1, <1>2, <2>2, <2>5, <2>6 DEF RowsFit
  <2>8. \A d \in Captures \ {c} : grant'[d] = grant[d]
    BY <1>1, <2>2 DEF CaptureTypeOK
  <2> QED BY <1>1, <1>2, <2>2, <2>4, <2>7, <2>8, RowsKeep
<1> QED BY <1>3, <1>4, <1>5 DEF RowStep

LEMMA SweepKeeps ==
  ASSUME CaptureInv, SweepWrites
  PROVE  CaptureInv'
<1> DEFINE due == {c \in sweeping : Receiving(c)}
<1>1. /\ CaptureTypeOK /\ connection' = connection /\ changes' = changes /\ library' = library
      /\ spool' = spool /\ identity' = identity /\ run' = run /\ tokens' = tokens
      /\ received' = received /\ snapshot' = snapshot /\ sweeping' = {}
  BY DEF SweepWrites, Elsewhere, extension, CaptureInv
<1>2. /\ grant' = [c \in Captures |-> [g \in Generations |->
            IF c \in due /\ grant[c][g] = "overdue" THEN "expired" ELSE grant[c][g]]]
      /\ manifest' = [c \in Captures |-> IF c \in due THEN "expired" ELSE manifest[c]]
      /\ operation' = [c \in Captures |-> IF c \in due THEN "failed" ELSE operation[c]]
  BY DEF SweepWrites
<1>3. \A c \in due : manifest[c] = "receiving" /\ operation[c] \in Open
  BY DEF Receiving
<1> HIDE DEF due
<1>4. CaptureTypeOK'
  BY <1>1, <1>2 DEF CaptureTypeOK, GrantStates, OperationStates
<1>5. ASSUME NEW c \in Captures PROVE RunFits(run'[c], spool[c]) /\ RowsFit(c)'
  <2>1. RowsFit(c) /\ RunFits(run[c], spool[c]) /\ Bound(c)' = Bound(c) /\ Commitment(c)' = Commitment(c)
    BY <1>1, RowsAreFit, RunsFit DEF Bound, Commitment
  <2>2. \A g \in Generations : /\ grant'[c][g] \in Held => grant[c][g] \in Held
                               /\ grant'[c][g] # "none" => grant[c][g] # "none"
    BY <1>2 DEF Held
  <2>3. CASE c \in due
    <3>1. manifest'[c] = "expired" /\ operation'[c] = "failed"
      BY <1>2, <2>3
    <3>2. /\ operation[c] # "none" /\ snapshot[c] = None
      BY <1>3, <2>1, <2>3 DEF RowsFit, Open
    <3> QED BY <1>1, <2>1, <2>2, <3>1, <3>2 DEF RowsFit
  <2>4. CASE c \notin due
    <3>1. manifest'[c] = manifest[c] /\ operation'[c] = operation[c]
      BY <1>2, <2>4
    <3> QED BY <1>1, <2>1, <2>2, <3>1 DEF RowsFit
  <2> QED BY <2>3, <2>4
<1> QED BY <1>1, <1>4, <1>5, ServerKeeps

(* Steps that change nothing the invariant speaks of.                      *)
LEMMA OthersKeep ==
  ASSUME CaptureInv,
         \/ UNCHANGED captureVars
         \/ \E v \in Versions : EditLibrary(v)
         \/ \E S \in SUBSET Captures : SweepFinds(S)
  PROVE  CaptureInv'
<1>1. /\ CaptureTypeOK /\ connection' = connection /\ changes' = changes /\ library' \in Versions
      /\ spool' = spool /\ identity' = identity /\ run' = run /\ tokens' = tokens
      /\ operation' = operation /\ manifest' = manifest /\ grant' = grant
      /\ received' = received /\ snapshot' = snapshot /\ sweeping' \in SUBSET Captures
  BY DEF captureVars, rows, extension, EditLibrary, ServerUnchanged, SweepFinds, Elsewhere,
         CaptureInv, CaptureTypeOK
<1>2. CaptureTypeOK'
  BY <1>1 DEF CaptureTypeOK
<1>3. \A c \in Captures : RunFits(run'[c], spool[c]) /\ RowsFit(c)'
  BY <1>1, RunsFit, RowsStayFit
<1> QED BY <1>1, <1>2, <1>3, ServerKeeps

(* However the extension is stopped, its requests are repeated or late,    *)
(* the connection is revoked or verified for another account, and grants   *)
(* expire: tokens open what the connection is verified for, the rows of a  *)
(* capture agree, and a snapshot is what was sealed.                       *)
THEOREM CaptureInvariant == CaptureSpec => []CaptureInv
<1>1. CaptureInv /\ [CaptureNext]_captureVars => CaptureInv'
  <2> SUFFICES ASSUME CaptureInv, [CaptureNext]_captureVars PROVE CaptureInv'
    OBVIOUS
  <2>1. CASE \E c \in Captures : RunStep(c) \/ LateStep(c)
    BY <2>1, CollectionKeeps, IssueKeeps, HandoffKeeps DEF RunStep
  <2>2. CASE \E c \in Captures : RowStep(c)
    BY <2>2, RowStepKeeps
  <2> QED BY <2>1, <2>2, ConnectionStepKeeps, SweepKeeps, OthersKeep DEF CaptureNext, SweepStep
<1> QED BY <1>1, CaptureInitInv, PTL DEF CaptureSpec

-----------------------------------------------------------------------------
(* Steps.                                                                  *)

(* A step that only lets a grant lapse, or moves an open or failed         *)
(* operation.                                                              *)
LEMMA LapsesStay ==
  ASSUME CaptureInv, NEW c \in Captures, spool'[c] = spool[c],
         received'[c] = received[c], snapshot'[c] = snapshot[c],
         operation[c] \in {"completed", "cancelled"} => operation'[c] = operation[c],
         \A g \in Generations :
           grant[c][g] \in {"revoked", "expired"} => grant'[c][g] = grant[c][g]
  PROVE  Stays(c)
BY DEF Stays

LEMMA CollectionStays ==
  ASSUME CaptureInv, NEW c \in Captures, NEW d \in Captures,
         \/ OpenSpool(d) \/ StoreChunk(d) \/ AdvanceIndex(d) \/ RestageChunk(d)
         \/ StageConflicts(d) \/ Seal(d) \/ CollectionEnds(d)
  PROVE  Stays(c)
<1>1. /\ operation' = operation /\ grant' = grant /\ received' = received /\ snapshot' = snapshot
  BY DEF OpenSpool, StoreChunk, AdvanceIndex, RestageChunk, StageConflicts, Seal, CollectionEnds,
         ServerUnchanged, rows
<1>2. spool \in [Captures -> Spools] /\ RunFits(run[d], spool[d])
  BY RunsFit DEF CaptureInv, CaptureTypeOK
<1>3. CASE spool' = spool
  BY <1>1, <1>3, LapsesStay
<1>4. CASE spool' # spool
  <2>1. spool[d].state # "sealed"
    BY <1>2, <1>4 DEF OpenSpool, StoreChunk, AdvanceIndex, RestageChunk, StageConflicts, Seal,
       CollectionEnds, Collecting, RunFits
  <2>2. \E sp : spool' = [spool EXCEPT ![d] = sp]
    BY <1>4 DEF OpenSpool, StoreChunk, AdvanceIndex, RestageChunk, StageConflicts, Seal, CollectionEnds
  <2>3. c # d => spool'[c] = spool[c]
    BY <1>2, <2>2
  <2> QED BY <1>1, <2>1, <2>3 DEF Stays
<1> QED BY <1>3, <1>4

LEMMA HandoffStays ==
  ASSUME CaptureInv, NEW c \in Captures, NEW d \in Captures,
         \/ IssueRefused(d) \/ ReadStatus(d) \/ HandoffRefused(d) \/ Crash(d)
         \/ \E g \in Generations : IssueGrant(d, g)
         \/ Upload(d) \/ Finish(d) \/ LateStep(d)
  PROVE  Stays(c)
<1>1. /\ CaptureTypeOK /\ RowsFit(c) /\ RowsFit(d)
  BY RowsAreFit DEF CaptureInv
<1>2. CASE IssueRefused(d) \/ ReadStatus(d) \/ HandoffRefused(d) \/ Crash(d)
  <2>1. UNCHANGED <<spool, operation, grant, received, snapshot>>
    BY <1>2 DEF IssueRefused, ReadStatus, HandoffRefused, Crash, ServerUnchanged, OthersUnchanged, rows
  <2> QED BY <2>1, LapsesStay
<1>3. CASE \E g \in Generations : IssueGrant(d, g)
  <2>1. PICK g \in Generations : IssueGrant(d, g)
    BY <1>3
  <2>2. /\ spool' = spool /\ received' = received /\ snapshot' = snapshot /\ grant[d][g] = "none"
        /\ Grantable(d)
        /\ operation' = [operation EXCEPT ![d] = IF operation[d] = "none" THEN "queued" ELSE operation[d]]
        /\ grant' = [grant EXCEPT ![d] = [h \in Generations |->
             IF h = g THEN "active" ELSE IF grant[d][h] \in Held THEN "revoked" ELSE grant[d][h]]]
    BY <2>1 DEF IssueGrant, NextGeneration
  <2>3. operation[c] \in {"completed", "cancelled"} => operation'[c] = operation[c]
    BY <1>1, <2>2 DEF CaptureTypeOK
  <2>4. ASSUME NEW h \in Generations, grant[c][h] \in {"revoked", "expired"}
        PROVE  grant'[c][h] = grant[c][h]
    BY <1>1, <2>2, <2>4 DEF CaptureTypeOK, Held
  <2> QED BY <2>2, <2>3, <2>4, LapsesStay
<1>4. ASSUME NEW g, NEW n, RecordChunk(d, g, n), UNCHANGED spool, g \in Generations
      PROVE  Stays(c)
  <2>1. /\ grant[d][g] = "active" /\ grant' = grant /\ snapshot' = snapshot
        /\ operation' = [operation EXCEPT ![d] = IF operation[d] \in Open THEN "running" ELSE operation[d]]
        /\ \E rec : received' = [received EXCEPT ![d] = rec]
    BY <1>4 DEF RecordChunk, ChunkAccepted, Authorized
  <2>2. Bound(d)
    BY <1>1, <1>4, <2>1 DEF RowsFit, Held
  <2>3. c # d => received'[c] = received[c]
    BY <1>1, <2>1 DEF CaptureTypeOK
  <2>4. operation[c] \in {"completed", "cancelled"} => operation'[c] = operation[c]
    BY <1>1, <2>1 DEF CaptureTypeOK, Open
  <2> QED BY <1>4, <2>1, <2>2, <2>3, <2>4 DEF Stays
<1>5. ASSUME NEW g, CompleteCapture(d, g), UNCHANGED spool, g \in Generations
      PROVE  Stays(c)
  <2>1. /\ grant[d][g] = "active" /\ grant' = grant /\ received' = received
        /\ operation[d] # "cancelled"
    BY <1>5 DEF CompleteCapture, CompletionAccepted, Authorized
  <2>2. Bound(d)
    BY <1>1, <1>5, <2>1 DEF RowsFit, Held
  <2>3. CASE manifest[d] = "completed"
    <3>1. operation' = operation /\ snapshot' = snapshot
      BY <1>5, <2>3 DEF CompleteCapture
    <3> QED BY <1>5, <2>1, <3>1, LapsesStay
  <2>4. CASE manifest[d] # "completed"
    <3>1. /\ snapshot' = [snapshot EXCEPT ![d] = received[d]]
          /\ operation' = [operation EXCEPT ![d] = "completed"] /\ operation[d] # "completed"
      BY <1>1, <1>5, <2>4 DEF CompleteCapture, RowsFit
    <3>2. c # d => operation'[c] = operation[c] /\ snapshot'[c] = snapshot[c]
      BY <1>1, <3>1 DEF CaptureTypeOK
    <3> QED BY <1>5, <2>1, <2>2, <3>1, <3>2 DEF Stays
  <2> QED BY <2>3, <2>4
<1>6. run[d].pc = "upload" => run[d].token \in Generations
  <2>1. RunFits(run[d], spool[d])
    BY RunsFit
  <2> QED BY <2>1 DEF RunFits, Runs
<1>7. CASE Upload(d)
  BY <1>4, <1>6, <1>7 DEF Upload, OthersUnchanged
<1>8. CASE Finish(d)
  BY <1>5, <1>6, <1>8 DEF Finish, OthersUnchanged
<1>9. CASE LateStep(d)
  BY <1>4, <1>5, <1>9 DEF LateStep, LateChunk, LateCompletion, OthersUnchanged
<1> QED BY <1>2, <1>3, <1>7, <1>8, <1>9

LEMMA RowStepStays ==
  ASSUME CaptureInv, NEW c \in Captures, NEW d \in Captures, RowStep(d)
  PROVE  Stays(c)
<1>1. /\ CaptureTypeOK /\ spool' = spool /\ received' = received /\ snapshot' = snapshot
  BY DEF RowStep, CancelCapture, RetryCapture, GrantExpires, Elsewhere, extension, CaptureInv
<1>2. operation[c] \in {"completed", "cancelled"} => operation'[c] = operation[c]
  BY <1>1 DEF RowStep, CancelCapture, RetryCapture, GrantExpires, CaptureTypeOK, Open
<1>3. ASSUME NEW g \in Generations, grant[c][g] \in {"revoked", "expired"}
      PROVE  grant'[c][g] = grant[c][g]
  <2>1. CASE CancelCapture(d)
    BY <1>1, <1>3, <2>1 DEF CancelCapture, CaptureTypeOK, Held
  <2>2. CASE RetryCapture(d)
    BY <2>2 DEF RetryCapture
  <2>3. CASE \E h \in Generations : GrantExpires(d, h)
    <3>1. PICK h \in Generations : GrantExpires(d, h)
      BY <2>3
    <3> DEFINE gr == [grant[d] EXCEPT ![h] = "overdue"]
    <3>2. grant[d][h] = "active" /\ grant' = [grant EXCEPT ![d] = gr]
      BY <3>1 DEF GrantExpires
    <3>3. g # h => gr[g] = grant[d][g]
      BY <1>1 DEF CaptureTypeOK
    <3> HIDE DEF gr
    <3> QED BY <1>1, <1>3, <3>2, <3>3 DEF CaptureTypeOK
  <2> QED BY <2>1, <2>2, <2>3 DEF RowStep
<1> QED BY <1>1, <1>2, <1>3, LapsesStay

LEMMA OthersStay ==
  ASSUME CaptureInv, NEW c \in Captures,
         \/ ConnectionStep \/ SweepStep \/ \E v \in Versions : EditLibrary(v)
  PROVE  Stays(c)
<1>1. CaptureTypeOK
  BY DEF CaptureInv
<1>2. CASE ConnectionStep
  <2>1. PICK retained : Changing /\ RevokeGrants(retained)
    BY <1>2 DEF ConnectionStep, Reauthorize, Revoke, ObserveActionRequired, ObserveReady
  <2>2. UNCHANGED <<spool, operation, received, snapshot>>
    BY <2>1 DEF Changing, extension
  <2>3. \A g \in Generations :
          grant[c][g] \in {"revoked", "expired"} => grant'[c][g] = grant[c][g]
    BY <2>1 DEF RevokeGrants, Held
  <2> QED BY <2>2, <2>3, LapsesStay
<1>3. CASE SweepWrites
  <2>1. UNCHANGED <<spool, received, snapshot>>
    BY <1>3 DEF SweepWrites, Elsewhere, extension
  <2>2. operation[c] \in {"completed", "cancelled"} => operation'[c] = operation[c]
    BY <1>3 DEF SweepWrites, Receiving, Open
  <2>3. \A g \in Generations :
          grant[c][g] \in {"revoked", "expired"} => grant'[c][g] = grant[c][g]
    BY <1>3 DEF SweepWrites
  <2> QED BY <2>1, <2>2, <2>3, LapsesStay
<1>4. CASE (\E S \in SUBSET Captures : SweepFinds(S)) \/ \E v \in Versions : EditLibrary(v)
  <2>1. UNCHANGED <<spool, operation, grant, received, snapshot>>
    BY <1>4 DEF SweepFinds, Elsewhere, EditLibrary, ServerUnchanged, rows, extension
  <2> QED BY <2>1, LapsesStay
<1> QED BY <1>2, <1>3, <1>4 DEF SweepStep

(* What was sealed, taken, finished or revoked stays so, and the server    *)
(* takes nothing for an account the connection is not verified for.        *)
THEOREM CaptureStaysSo == CaptureSpec => CaptureStays
<1>1. CaptureInv /\ [CaptureNext]_captureVars => [\A c \in Captures : Stays(c)]_captureVars
  <2> SUFFICES ASSUME CaptureInv, CaptureNext, NEW c \in Captures PROVE Stays(c)
    OBVIOUS
  <2>1. CASE \E d \in Captures : RunStep(d) \/ LateStep(d)
    BY <2>1, CollectionStays, HandoffStays DEF RunStep
  <2>2. CASE \E d \in Captures : RowStep(d)
    BY <2>2, RowStepStays
  <2> QED BY <2>1, <2>2, OthersStay DEF CaptureNext
<1> QED BY <1>1, CaptureInvariant, PTL DEF CaptureSpec, CaptureStays
=============================================================================
