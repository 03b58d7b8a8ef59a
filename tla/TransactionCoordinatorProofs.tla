-------------------- MODULE TransactionCoordinatorProofs --------------------
(***************************************************************************)
(* The last part of the inductive invariant, the commit point and reads,   *)
(* and the theorems.  They hold for every set of keys, transactions,       *)
(* readers and workers, every assignment of mutations and every client     *)
(* policy: the primary is the commit point of a transaction, acknowledged  *)
(* commits stay, committed versions are not lost, and no read is dirty.    *)
(***************************************************************************)
EXTENDS TransactionCoordinatorStore

-----------------------------------------------------------------------------
(* The commit point *)

\* A step of one worker leaves the locals of the others alone.
LEMMA StepOthers ==
  ASSUME TypeOK, NEW h \in Workers, Step(h), NEW g \in Workers, g # h
  PROVE  /\ pc'[g] = pc[g] /\ job'[g] = job[g]
         /\ found'[g] = found[g] /\ copy'[g] = copy[g]
<1> USE DEF TypeOK, WorkersOK
<1>a. ASSUME Release(h)
      PROVE  /\ pc'[g] = pc[g] /\ job'[g] = job[g]
             /\ found'[g] = found[g] /\ copy'[g] = copy[g]
  BY <1>a DEF Release
<1>r. ASSUME (\E ok : Answer(h, ok)) \/ (\E v : AnswerGet(h, v))
      PROVE  Release(h)
  BY <1>r, Zenon DEF Answer, AnswerGet
<1>1. CASE GetLock(h) \/ GetWrite(h) \/ GetData(h)
  BY <1>1, <1>a, <1>r, Zenon DEF GetLock, GetWrite, GetData, Goto, locals
<1>2. CASE ResolveScan(h) \/ ResolvePrimary(h) \/ ResolveExpire(h)
  BY <1>2, <1>a, <1>r, Zenon DEF ResolveScan, ResolvePrimary, ResolveExpire, StatusIs,
     Goto, locals
<1>3. CASE ResolveApply(h) \/ ResolveLocked(h)
  BY <1>3, <1>a, <1>r, Zenon DEF ResolveApply, ResolveLocked, Resolved, Goto
<1>4. CASE PrewriteConflict(h) \/ PrewriteLock(h) \/ PrewriteRecheck(h) \/ PrewriteWrite(h)
  BY <1>4, <1>a, <1>r, Zenon DEF PrewriteConflict, PrewriteLock, PrewriteRecheck,
     PrewriteWrite,
     NextKey, Goto, locals
<1>5. CASE \/ CommitReadPrimary(h) \/ CommitWritePrimary(h)
           \/ CommitReadSecondary(h) \/ CommitWriteSecondary(h)
  BY <1>5, <1>a, <1>r, Zenon DEF CommitReadPrimary, CommitWritePrimary,
     CommitReadSecondary,
              CommitWriteSecondary, NextKey, Goto
<1>6. CASE BatchCommitRead(h) \/ BatchCommitWrite(h)
  BY <1>6, <1>a, <1>r, Zenon DEF BatchCommitRead, BatchCommitWrite, Goto
<1>7. CASE RollbackRead(h) \/ RollbackWrite(h) \/ HeartbeatRead(h) \/ HeartbeatWrite(h)
  BY <1>7, <1>a, <1>r, Zenon DEF RollbackRead, RollbackWrite, HeartbeatRead,
     HeartbeatWrite,
     NextKey, Goto
<1> QED
  BY <1>1, <1>2, <1>3, <1>4, <1>5, <1>6, <1>7 DEF Step

\* commit goes on after, or with, the write of the primary.
CommitsMore(h) == CommitWritePrimary(h) \/ CommitReadSecondary(h) \/ CommitWriteSecondary(h)

\* Which actions lead to the accesses the invariant speaks of.
LEMMA StepLabels ==
  ASSUME TypeOK, NEW h \in Workers, Step(h)
  PROVE  /\ pc'[h] \in {"cm_secondary", "cm_write_secondary"} => CommitsMore(h)
         /\ pc'[h] = "rs_apply" =>
              ResolveScan(h) \/ ResolvePrimary(h) \/ ResolveExpire(h)
         /\ pc'[h] = "get_data" => GetWrite(h)
<1> USE DEF TypeOK, WorkersOK
<1>a. ASSUME (\E ok : Answer(h, ok)) \/ (\E v : AnswerGet(h, v))
      PROVE  pc'[h] = "idle"
  BY <1>a, Zenon DEF Answer, AnswerGet, Release
<1>1. CASE GetLock(h) \/ GetData(h)
  BY <1>1, <1>a, Zenon DEF GetLock, GetData, Goto
<1>2. CASE GetWrite(h)
  BY <1>2, <1>a DEF GetWrite, Goto
<1>3. CASE ResolveScan(h) \/ ResolvePrimary(h) \/ ResolveExpire(h)
  BY <1>3, <1>a, Zenon DEF ResolveScan, ResolvePrimary, ResolveExpire, StatusIs, Goto
<1>4. CASE ResolveApply(h) \/ ResolveLocked(h)
  BY <1>4, <1>a, Zenon DEF ResolveApply, ResolveLocked, Resolved, Goto
<1>5. CASE PrewriteConflict(h) \/ PrewriteLock(h) \/ PrewriteRecheck(h) \/ PrewriteWrite(h)
  BY <1>5, <1>a, Zenon DEF PrewriteConflict, PrewriteLock, PrewriteRecheck, PrewriteWrite,
     NextKey, Goto
<1>6. CASE CommitReadPrimary(h)
  BY <1>6, <1>a, Zenon DEF CommitReadPrimary, Goto
<1>7. CASE CommitsMore(h)
  BY <1>7, <1>a, Zenon DEF CommitsMore, CommitWritePrimary, CommitReadSecondary,
     CommitWriteSecondary, NextKey, Goto
<1>8. CASE BatchCommitRead(h) \/ BatchCommitWrite(h)
  BY <1>8, <1>a, Zenon DEF BatchCommitRead, BatchCommitWrite, Goto
<1>9. CASE RollbackRead(h) \/ RollbackWrite(h) \/ HeartbeatRead(h) \/ HeartbeatWrite(h)
  BY <1>9, <1>a, Zenon DEF RollbackRead, RollbackWrite, HeartbeatRead, HeartbeatWrite,
     NextKey, Goto
<1> QED
  BY <1>1, <1>2, <1>3, <1>4, <1>5, <1>6, <1>7, <1>8, <1>9 DEF Step, CommitsMore

\* After commit has written the primary, the primary is committed.
LEMMA PrimaryWritten ==
  ASSUME TypeOK, Control, Timestamps, Records, Kept, WriteStep, CommitPointKnown,
         Clients, NEW h \in Workers, CommitsMore(h), NEW t, t = job[h].who
  PROVE  /\ t \in Txns \ BatchClients
         /\ PrimaryCommitted(t)'
<1>1. /\ job[h].rpc = "commit" /\ t \notin BatchClients
      /\ pc[h] = "cm_write_primary" => idx[h] = 1
  BY DEF CommitsMore, CommitWritePrimary, CommitReadSecondary, CommitWriteSecondary,
     Control, JobOK
<1>2. t \in Txns /\ start[t] # 0 /\ Primary(t) \in Keys
  BY <1>1, JobsByRpc, MutationsType DEF TypeOK, Clients, Begun
<1>3. ASSUME PrimaryCommitted(t)  PROVE CommittedOn(t, Primary(t))'
  BY <1>2, <1>3, CommittedStays DEF PrimaryCommitted
<1>4. CASE CommitWritePrimary(h)
  <2>1. CurKey(h) = Primary(t)
    BY <1>1, <1>4 DEF CommitWritePrimary, CurKey, Primary
  <2>2. /\ write'[Primary(t)] =
             Insert(write[Primary(t)], Rec(commitTs[t], start[t], copy[h].op))
        /\ copy[h].op \in Ops /\ start'[t] = start[t]
    BY <1>2, <1>4, <2>1 DEF CommitWritePrimary, CommitKey, TypeOK, StoreOK, WorkersOK,
       Lock, NoLock, Ops, Kept
  <2>3. \E r \in write'[Primary(t)] : r.start = start'[t] /\ r.op # "Rollback"
    <3> DEFINE rec == Rec(commitTs[t], start[t], copy[h].op)
    <3>1. rec.start = start[t] /\ rec.op # "Rollback"
      BY <2>2 DEF Rec, Ops
    <3>2. rec \in write'[Primary(t)]
      BY <2>2 DEF Insert
    <3> HIDE DEF rec
    <3> QED
      BY <2>2, <3>1, <3>2
  <2> QED
    BY <1>1, <1>2, <2>3 DEF PrimaryCommitted, CommittedOn
<1>5. CASE CommitReadSecondary(h) \/ CommitWriteSecondary(h)
  <2>1. PrimaryCommitted(t)
    BY <1>5 DEF CommitReadSecondary, CommitWriteSecondary, CommitPointKnown
  <2> QED
    BY <1>1, <1>2, <1>3, <2>1 DEF PrimaryCommitted
<1> QED
  BY <1>4, <1>5 DEF CommitsMore

\* What the resolver read at the primary is the commit of the lock's owner.
LEMMA StatusKnown ==
  ASSUME TypeOK, Control, Clients, Locks, Records, NEW h \in Workers,
         ResolveScan(h) \/ ResolvePrimary(h) \/ ResolveExpire(h),
         pc'[h] = "rs_apply", found'[h] > 0
  PROVE  \E t \in Txns : /\ start[t] = copy'[h].start
                         /\ commitTs[t] = found'[h] /\ commitTs[t] # 0
                         /\ PrimaryCommitted(t)
<1>a. ASSUME \E ok : Answer(h, ok)  PROVE pc'[h] = "idle"
  BY <1>a DEF Answer, Release, TypeOK, WorkersOK
<1>1. ASSUME NEW c, StatusIs(h, c)  PROVE found'[h] = c /\ copy'[h] = copy[h]
  BY <1>a, <1>1, Zenon DEF StatusIs, TypeOK, WorkersOK
<1>2. ~ResolvePrimary(h) /\ ~ResolveExpire(h)
  <2>1. ~StatusIs(h, 0)
    BY <1>1
  <2>2. ~Goto(h, "rs_expire") /\ ~Goto(h, "rs_locked") /\ ~Answer(h, TRUE)
    BY <1>a, Zenon DEF Goto, TypeOK, WorkersOK
  <2> QED
    BY <2>1, <2>2, Zenon DEF ResolvePrimary, ResolveExpire
<1>3. PICK r \in write[copy[h].primary] : r.start = copy[h].start /\ StatusIs(h, StatusOf(r))
  BY <1>2, Zenon DEF ResolveScan, Goto, TypeOK, WorkersOK
<1>4. found'[h] = r.ts /\ r.op # "Rollback" /\ copy'[h] = copy[h]
  BY <1>1, <1>3 DEF StatusOf
<1>5. PICK t \in Txns : /\ start[t] = copy[h].start /\ start[t] # 0
                        /\ copy[h].primary = Primary(t)
  BY <1>2, CopyOwner DEF ResolveScan, ResolveLabels
<1>6. PICK u \in Txns : start[u] = r.start /\ commitTs[u] = r.ts /\ commitTs[u] # 0
  BY <1>3, <1>4, <1>5, MutationsType DEF Records, RecordOK
<1>7. u = t
  BY <1>3, <1>5, <1>6 DEF Clients, Timestamps
<1>8. PrimaryCommitted(t)
  BY <1>3, <1>4, <1>5 DEF PrimaryCommitted, CommittedOn
<1> QED
  BY <1>4, <1>5, <1>6, <1>7, <1>8

\* A commit that is answered Ok has written its primary.
LEMMA AckedByCommit ==
  ASSUME TypeOK, Control, NEW h \in Workers, Step(h),
         NEW t \in Txns \ BatchClients, phase[t] # "committed", phase'[t] = "committed"
  PROVE  CommitsMore(h) /\ job[h].who = t
<1>1. PICK ok \in BOOLEAN : Answer(h, ok)
  BY StepShape, Zenon DEF AnswerGet, clients
<1>2. /\ job[h].rpc \in {"prewrite", "commit", "rollback"}
      /\ phase' = [phase EXCEPT ![job[h].who] = AfterAnswer(job[h].rpc, ok)]
  BY <1>1 DEF Answer
<1>3. job[h].who = t /\ AfterAnswer(job[h].rpc, ok) = "committed"
  BY <1>2 DEF TypeOK, ClientsOK
<1>4. job[h].rpc = "commit" /\ ok
  BY <1>2, <1>3 DEF AfterAnswer
<1>5. pc[h] \in {"cm_primary", "cm_write_primary", "cm_secondary", "cm_write_secondary"}
  <2>1. pc[h] \in Labels /\ JobOK(h)
    BY DEF TypeOK, WorkersOK, Control
  <2>2. job[h] # NoJob
    BY <1>4 DEF NoJob
  <2>3. job[h].rpc = "commit" /\ job[h].who \notin BatchClients
    BY <1>3, <1>4
  <2> QED
    BY <2>1, <2>2, <2>3 DEF JobOK, ResolveLabels, Labels
<1>6. CommitReadPrimary(h) \/ CommitsMore(h)
  BY <1>5, Zenon DEF Step, CommitsMore, GetLock, GetWrite, GetData, ResolveScan,
     ResolvePrimary,
     ResolveExpire, ResolveApply, ResolveLocked, PrewriteConflict, PrewriteLock,
     PrewriteRecheck, PrewriteWrite, BatchCommitRead, BatchCommitWrite, RollbackRead,
     RollbackWrite, HeartbeatRead, HeartbeatWrite
<1>7. ~CommitReadPrimary(h)
  <2> SUFFICES ASSUME CommitReadPrimary(h)  PROVE FALSE
    OBVIOUS
  <2>1. CASE UNCHANGED clients
    BY <2>1 DEF clients
  <2>2. CASE Answer(h, FALSE)
    BY <2>2, <1>2, <1>3, <1>4 DEF Answer, AfterAnswer, TypeOK, ClientsOK
  <2> QED
    BY <2>1, <2>2, Zenon DEF CommitReadPrimary, clients
<1> QED
  BY <1>3, <1>6, <1>7

\* Steps of handlers keep the commit point.
LEMMA StepCommitPoint ==
  ASSUME TypeOK, TypeOK', Control, Clients, Timestamps', Locks, Records, Kept, WriteStep,
         CommitPointKnown, NEW h \in Workers, Step(h)
  PROVE  CommitPointKnown'
<1>t. Timestamps
  BY DEF Clients
<1>s. ASSUME NEW t \in Txns, PrimaryCommitted(t)  PROVE PrimaryCommitted(t)'
  <2>1. CommittedOn(t, Primary(t))'
    BY <1>t, <1>s, CommittedStays, CommittedBegun, MutationsType DEF PrimaryCommitted
  <2> QED
    BY <2>1 DEF PrimaryCommitted
<1>1. ASSUME NEW g \in Workers, pc'[g] \in {"cm_secondary", "cm_write_secondary"}
      PROVE  PrimaryCommitted(job[g].who)'
  <2>1. CASE g # h
    <3>1. PICK t : t = job[g].who
      OBVIOUS
    <3>2. job'[g].who = t /\ PrimaryCommitted(t)
      BY <1>1, <2>1, <3>1, StepOthers DEF CommitPointKnown
    <3>3. t \in Txns
      BY <1>1, <2>1, <3>1, StepOthers, JobsByRpc DEF Control, JobOK, TypeOK
    <3>4. PrimaryCommitted(t)'
      BY <1>s, <3>2, <3>3
    <3> QED
      BY <3>2, <3>4
  <2>2. CASE g = h
    <3>1. PICK t : t = job[h].who
      OBVIOUS
    <3>2. CommitsMore(h)
      BY <1>1, <2>2, StepLabels
    <3>3. PrimaryCommitted(t)'
      BY <1>t, <3>1, <3>2, PrimaryWritten
    <3>4. job'[h] = job[h]
      <4>1. ~(\E ok : Answer(h, ok))
        BY <1>1, <2>2 DEF Answer, Release, TypeOK, WorkersOK
      <4> QED
        BY <3>2, <4>1, Zenon DEF CommitsMore, CommitWritePrimary, CommitReadSecondary,
           CommitWriteSecondary, NextKey, Goto
    <3> QED
      BY <2>2, <3>1, <3>3, <3>4
  <2> QED
    BY <2>1, <2>2
<1>2. ASSUME NEW g \in Workers, pc'[g] = "rs_apply", found'[g] > 0
      PROVE  \E t \in Txns : /\ start'[t] = copy'[g].start
                             /\ commitTs'[t] = found'[g] /\ commitTs'[t] # 0
                             /\ PrimaryCommitted(t)'
  <2>1. \E t \in Txns : /\ start[t] = copy'[g].start
                        /\ commitTs[t] = found'[g] /\ commitTs[t] # 0
                        /\ PrimaryCommitted(t)
    <3>1. CASE g # h
      BY <1>2, <3>1, StepOthers DEF CommitPointKnown
    <3>2. CASE g = h
      BY <1>2, <3>2, StepLabels, StatusKnown
    <3> QED
      BY <3>1, <3>2
  <2>2. PICK t \in Txns : /\ start[t] = copy'[g].start
                          /\ commitTs[t] = found'[g] /\ commitTs[t] # 0
                          /\ PrimaryCommitted(t)
    BY <2>1
  <2>3. start[t] # 0
    BY <2>2, CommittedBegun, MutationsType DEF PrimaryCommitted
  <2>4. start'[t] = start[t] /\ commitTs'[t] = commitTs[t]
    BY <2>2, <2>3 DEF Kept
  <2>5. PrimaryCommitted(t)'
    BY <1>s, <2>2
  <2> QED
    BY <2>2, <2>4, <2>5
<1>3. ASSUME NEW t \in Txns \ BatchClients, NEW k \in Keys, CommittedOn(t, k)'
      PROVE  PrimaryCommitted(t)'
  BY <1>t, <1>3, NextCommitPoint
<1>4. ASSUME NEW t \in Txns \ BatchClients, phase'[t] = "committed"
      PROVE  PrimaryCommitted(t)'
  <2>1. CASE phase[t] = "committed"
    BY <1>s, <2>1 DEF CommitPointKnown, AckedIsCommitted
  <2>2. CASE phase[t] # "committed"
    BY <1>t, <1>4, <2>2, AckedByCommit, PrimaryWritten
  <2> QED
    BY <2>1, <2>2
<1> QED
  BY <1>1, <1>2, <1>3, <1>4 DEF CommitPointKnown, AckedIsCommitted

\* Steps of clients, crashes and the clock keep the commit point.
LEMMA CallCommitPoint ==
  ASSUME TypeOK, TypeOK', Control, Clients, Timestamps', Records, Kept, WriteStep,
         CommitPointKnown,
         \/ \E t \in Txns : ClientStep(t)
         \/ \E r \in Readers, k \in Keys : ReaderStep(r, k)
         \/ Crash \/ Tick \/ UNCHANGED vars
  PROVE  CommitPointKnown'
<1>t. Timestamps
  BY DEF Clients
<1>s. ASSUME NEW t \in Txns, PrimaryCommitted(t)  PROVE PrimaryCommitted(t)'
  <2>1. CommittedOn(t, Primary(t))'
    BY <1>t, <1>s, CommittedStays, CommittedBegun, MutationsType DEF PrimaryCommitted
  <2> QED
    BY <2>1 DEF PrimaryCommitted
<1>p. ASSUME NEW t \in Txns, phase'[t] = "committed"
      PROVE  phase[t] = "committed"
  <2>1. ASSUME NEW u \in Txns, ClientStep(u)  PROVE phase[t] = "committed"
    <3> USE <1>p DEF TypeOK, ClientsOK
    <3>1. CASE Begin(u) \/ DrawCommitTs(u)
      BY <3>1 DEF Begin, DrawCommitTs
    <3>2. ASSUME NEW h \in Workers,
                 \/ CallPrewrite(u, h) \/ CallBatchPrewrite(u, h)
                 \/ CallCommit(u, h) \/ CallBatchCommit(u, h) \/ CallRollback(u, h)
          PROVE  phase[t] = "committed"
      BY <3>2 DEF CallPrewrite, CallBatchPrewrite, CallCommit, CallBatchCommit,
         CallRollback, SendPrewrite, SendCommit
    <3>3. ASSUME NEW h \in Workers, CallHeartbeat(u, h) \/ CallCheckTxnStatus(u, h)
          PROVE  phase[t] = "committed"
      BY <3>3 DEF CallHeartbeat, CallCheckTxnStatus, clients
    <3>4. ASSUME NEW h \in Workers, GiveUp(u, h)  PROVE phase[t] = "committed"
      BY <3>4 DEF GiveUp, Unanswered
    <3> QED
      BY <2>1, <3>1, <3>2, <3>3, <3>4, Zenon DEF ClientStep
  <2>2. CASE Crash
    BY <1>p, <2>2 DEF Crash, Unanswered
  <2>3. CASE \/ \E r \in Readers, k \in Keys : ReaderStep(r, k)
             \/ Tick \/ UNCHANGED vars
    BY <1>p, <2>3 DEF ReaderStep, CallGet, Tick, clients, vars
  <2> QED
    BY <2>1, <2>2, <2>3
<1>g. ASSUME NEW g \in Workers,
             pc'[g] \in {"cm_secondary", "cm_write_secondary", "rs_apply"}
      PROVE  /\ pc'[g] = pc[g] /\ job'[g] = job[g]
             /\ copy'[g] = copy[g] /\ found'[g] = found[g]
  <2> USE DEF TypeOK, WorkersOK
  <2>a. ASSUME NEW h \in Workers, NEW rpc, NEW c, NEW k,
               NEW label \in {"pw_conflict", "cm_primary", "bc_read", "rb_lock",
                              "hb_lock", "rs_scan", "get_lock"},
               Accept(h, rpc, c, k, label)
        PROVE  g # h /\ pc'[g] = pc[g] /\ job'[g] = job[g]
    BY <1>g, <2>a DEF Accept
  <2>1. CASE \E t \in Txns : Begin(t) \/ DrawCommitTs(t)
    BY <2>1 DEF Begin, DrawCommitTs, locals
  <2>2. ASSUME NEW t \in Txns, NEW h \in Workers,
               \/ CallPrewrite(t, h) \/ CallBatchPrewrite(t, h)
               \/ CallCommit(t, h) \/ CallBatchCommit(t, h)
               \/ CallRollback(t, h) \/ CallHeartbeat(t, h)
        PROVE  /\ pc'[g] = pc[g] /\ job'[g] = job[g]
               /\ copy'[g] = copy[g] /\ found'[g] = found[g]
    BY <2>2, <2>a DEF CallPrewrite, CallBatchPrewrite, CallCommit, CallBatchCommit,
       CallRollback, CallHeartbeat, SendPrewrite, SendCommit, locals
  <2>3. ASSUME NEW t \in Txns, NEW h \in Workers,
               CallCheckTxnStatus(t, h) \/ GiveUp(t, h)
        PROVE  /\ pc'[g] = pc[g] /\ job'[g] = job[g]
               /\ copy'[g] = copy[g] /\ found'[g] = found[g]
    BY <2>3, <2>a, Zenon DEF CallCheckTxnStatus, GiveUp, locals
  <2>4. CASE \E r \in Readers, k \in Keys : ReaderStep(r, k)
    BY <2>4, <2>a DEF ReaderStep, CallGet, locals
  <2>5. CASE Crash
    BY <1>g, <2>5 DEF Crash
  <2>6. CASE Tick
    BY <2>6 DEF Tick, locals
  <2>7. CASE UNCHANGED vars
    BY <2>7 DEF vars, locals
  <2> QED
    BY <2>1, <2>2, <2>3, <2>4, <2>5, <2>6, <2>7 DEF ClientStep
<1>1. ASSUME NEW g \in Workers, pc'[g] \in {"cm_secondary", "cm_write_secondary"}
      PROVE  PrimaryCommitted(job[g].who)'
  <2>1. PICK t : t = job[g].who
    OBVIOUS
  <2>2. job'[g].who = t /\ PrimaryCommitted(t)
    BY <1>1, <1>g, <2>1 DEF CommitPointKnown
  <2>3. t \in Txns
    BY <1>1, <1>g, <2>1, JobsByRpc DEF Control, JobOK, TypeOK
  <2>4. PrimaryCommitted(t)'
    BY <1>s, <2>2, <2>3
  <2> QED
    BY <2>2, <2>4
<1>2. ASSUME NEW g \in Workers, pc'[g] = "rs_apply", found'[g] > 0
      PROVE  \E t \in Txns : /\ start'[t] = copy'[g].start
                             /\ commitTs'[t] = found'[g] /\ commitTs'[t] # 0
                             /\ PrimaryCommitted(t)'
  <2>1. PICK t \in Txns : /\ start[t] = copy'[g].start
                          /\ commitTs[t] = found'[g] /\ commitTs[t] # 0
                          /\ PrimaryCommitted(t)
    BY <1>2, <1>g DEF CommitPointKnown
  <2>2. start[t] # 0
    BY <2>1, CommittedBegun, MutationsType DEF PrimaryCommitted
  <2>3. start'[t] = start[t] /\ commitTs'[t] = commitTs[t]
    BY <2>1, <2>2 DEF Kept
  <2>4. PrimaryCommitted(t)'
    BY <1>s, <2>1
  <2> QED
    BY <2>1, <2>3, <2>4
<1>3. ASSUME NEW t \in Txns \ BatchClients, NEW k \in Keys, CommittedOn(t, k)'
      PROVE  PrimaryCommitted(t)'
  BY <1>t, <1>3, NextCommitPoint
<1>4. ASSUME NEW t \in Txns \ BatchClients, phase'[t] = "committed"
      PROVE  PrimaryCommitted(t)'
  BY <1>4, <1>p, <1>s DEF CommitPointKnown, AckedIsCommitted
<1> QED
  BY <1>1, <1>2, <1>3, <1>4 DEF CommitPointKnown, AckedIsCommitted

-----------------------------------------------------------------------------
(* Reads *)

\* A value that is committed in a snapshot stays so.
LEMMA ReadStays ==
  ASSUME TypeOK, Timestamps, Records, Kept, WriteStep,
         NEW k \in Keys, NEW s, NEW ts, ReadOK(k, s, ts)
  PROVE  ReadOK(k, s, ts)'
<1>1. PICK t \in Txns : /\ start[t] = s /\ CommittedOn(t, k)
                        /\ commitTs[t] # 0 /\ commitTs[t] <= ts
  BY DEF ReadOK
<1>2. start[t] # 0
  BY <1>1, CommittedBegun
<1>3. start'[t] = start[t] /\ commitTs'[t] = commitTs[t]
  BY <1>1, <1>2 DEF Kept
<1>4. CommittedOn(t, k)'
  BY <1>1, <1>2, CommittedStays
<1> QED
  BY <1>1, <1>3, <1>4 DEF ReadOK

\* A snapshot timestamp that was used is positive and is kept.
LEMMA NextReadTs ==
  ASSUME TypeOK, [Next]_vars, NEW r \in Readers, readTs[r] # 0
  PROVE  readTs'[r] = readTs[r]
<1>1. ASSUME NEW h \in Workers, Step(h)  PROVE UNCHANGED readTs
  BY <1>1, StepShape, Zenon DEF Answer, AnswerGet, readers
<1>2. ASSUME NEW t \in Txns, ClientStep(t)  PROVE UNCHANGED readTs
  BY <1>2, Zenon DEF ClientStep, Begin, DrawCommitTs, CallPrewrite, CallBatchPrewrite,
     CallCommit, CallBatchCommit, CallRollback, CallHeartbeat,
     CallCheckTxnStatus, GiveUp, SendPrewrite, SendCommit, readers
<1>3. ASSUME NEW q \in Readers, NEW k \in Keys, ReaderStep(q, k)
      PROVE  readTs'[r] = readTs[r]
  BY <1>3 DEF ReaderStep, CallGet, TypeOK, ClientsOK
<1>4. CASE Crash \/ Tick \/ UNCHANGED vars
  BY <1>4 DEF Crash, Tick, vars, readers
<1> QED
  BY <1>1, <1>2, <1>3, <1>4 DEF Next

\* A snapshot in which something is committed was drawn.
LEMMA ReadOKTs ==
  ASSUME TypeOK, NEW k, NEW s, NEW r \in Readers, ReadOK(k, s, readTs[r])
  PROVE  readTs[r] # 0
BY DEF ReadOK, TypeOK, ClientsOK

\* A value in a worker's hands, or delivered, is still committed in the
\* reader's snapshot after any step that leaves it there.
LEMMA HeldRead ==
  ASSUME TypeOK, Timestamps, Records, Kept, WriteStep, [Next]_vars,
         NEW k \in Keys, NEW s, NEW r \in Readers, ReadOK(k, s, readTs[r])
  PROVE  \E ts : ts = readTs'[r] /\ ReadOK(k, s, ts)'
<1>1. PICK ts : ts = readTs[r]
  OBVIOUS
<1>2. ts = readTs'[r]
  BY <1>1, ReadOKTs, NextReadTs
<1>3. ReadOK(k, s, ts)'
  BY <1>1, ReadStays
<1> QED
  BY <1>2, <1>3

\* The version that get picks is committed in its snapshot.
LEMMA PickedRead ==
  ASSUME TypeOK, Control, Records, NEW h \in Workers, GetWrite(h), pc'[h] = "get_data"
  PROVE  /\ ReadOK(job[h].key, found'[h], readTs[job[h].who])
         /\ job'[h] = job[h] /\ job[h].key \in Keys /\ job[h].who \in Readers
<1>1. job[h].key \in Keys /\ job[h].who \in Readers
  BY JobsByRpc, Zenon DEF GetWrite, Control, JobOK, TypeOK
<1>2. ~AnswerGet(h, 0)
  BY DEF AnswerGet, Release, TypeOK, WorkersOK
<1>3. PICK r \in Visible(job[h].key, readTs[job[h].who]) :
        /\ r.op = "Put" /\ Goto(h, "get_data")
        /\ found' = [found EXCEPT ![h] = r.start]
  BY <1>2, Zenon DEF GetWrite
<1>4. r \in write[job[h].key] /\ r.ts <= readTs[job[h].who]
  BY <1>3, Zenon DEF Visible
<1>5. PICK t \in Txns : start[t] = r.start /\ commitTs[t] = r.ts /\ commitTs[t] # 0
  BY <1>1, <1>3, <1>4, Zenon DEF Records, RecordOK
<1>6. CommittedOn(t, job[h].key)
  BY <1>3, <1>4, <1>5 DEF CommittedOn
<1>7. found'[h] = r.start /\ job'[h] = job[h]
  BY <1>3 DEF Goto, TypeOK, WorkersOK
<1> QED
  BY <1>1, <1>4, <1>5, <1>6, <1>7, Zenon DEF ReadOK

\* Where the answers of readers come from.
LEMMA StepSeen ==
  ASSUME TypeOK, Control, NEW h \in Workers, Step(h),
         NEW r \in Readers, NEW k \in Keys, seen'[r][k] > 0
  PROVE  \/ seen'[r][k] = seen[r][k]
         \/ pc[h] = "get_data" /\ job[h].who = r /\ job[h].key = k
            /\ seen'[r][k] = found[h]
<1>1. CASE UNCHANGED seen
  BY <1>1, Zenon
<1>2. ASSUME NEW v, AnswerGet(h, v), seen'[r][k] # seen[r][k]
      PROVE  job[h].who = r /\ job[h].key = k /\ seen'[r][k] = v
  BY <1>2 DEF AnswerGet, TypeOK, ClientsOK
<1>3. CASE GetWrite(h)
  BY <1>3, <1>2 DEF GetWrite, readers
<1>4. CASE GetData(h)
  BY <1>4, <1>2, Zenon DEF GetData, Answer, readers
<1>5. CASE GetLock(h)
  BY <1>5, <1>1, Zenon DEF GetLock, Answer, readers
<1>6. CASE \/ ResolveScan(h) \/ ResolvePrimary(h) \/ ResolveExpire(h)
           \/ ResolveApply(h) \/ ResolveLocked(h)
  BY <1>6, <1>1, Zenon DEF ResolveScan, ResolvePrimary, ResolveExpire, ResolveApply,
     ResolveLocked, StatusIs, Resolved, Answer, readers
<1>7. CASE PrewriteConflict(h) \/ PrewriteLock(h) \/ PrewriteRecheck(h) \/ PrewriteWrite(h)
  BY <1>7, <1>1, Zenon DEF PrewriteConflict, PrewriteLock, PrewriteRecheck, PrewriteWrite,
     NextKey, Answer, readers
<1>8. CASE \/ CommitReadPrimary(h) \/ CommitWritePrimary(h) \/ CommitReadSecondary(h)
           \/ CommitWriteSecondary(h) \/ BatchCommitRead(h) \/ BatchCommitWrite(h)
  BY <1>8, <1>1, Zenon DEF CommitReadPrimary, CommitWritePrimary, CommitReadSecondary,
     CommitWriteSecondary, BatchCommitRead, BatchCommitWrite, NextKey, Answer, readers
<1>9. CASE RollbackRead(h) \/ RollbackWrite(h) \/ HeartbeatRead(h) \/ HeartbeatWrite(h)
  BY <1>9, <1>1, Zenon DEF RollbackRead, RollbackWrite, HeartbeatRead, HeartbeatWrite,
     NextKey, Answer, readers
<1> QED
  BY <1>3, <1>4, <1>5, <1>6, <1>7, <1>8, <1>9, Zenon DEF Step

\* Steps of clients bring no worker to get_data and answer no reader.
LEMMA CallReads ==
  ASSUME TypeOK, \/ \E t \in Txns : ClientStep(t)
                 \/ \E r \in Readers, k \in Keys : ReaderStep(r, k)
                 \/ Crash \/ Tick \/ UNCHANGED vars
  PROVE  /\ UNCHANGED seen
         /\ \A g \in Workers : pc'[g] = "get_data" =>
              pc'[g] = pc[g] /\ job'[g] = job[g] /\ found'[g] = found[g]
<1> USE DEF TypeOK, WorkersOK
<1>a. ASSUME NEW h \in Workers, NEW rpc, NEW c, NEW k,
             NEW label \in {"pw_conflict", "cm_primary", "bc_read", "rb_lock",
                            "hb_lock", "rs_scan", "get_lock"},
             Accept(h, rpc, c, k, label), UNCHANGED found
      PROVE  \A g \in Workers : pc'[g] = "get_data" =>
               pc'[g] = pc[g] /\ job'[g] = job[g] /\ found'[g] = found[g]
  BY <1>a DEF Accept
<1>1. CASE \E t \in Txns : Begin(t) \/ DrawCommitTs(t)
  BY <1>1, Zenon DEF Begin, DrawCommitTs, locals, readers
<1>2. ASSUME NEW t \in Txns, NEW h \in Workers,
             \/ CallPrewrite(t, h) \/ CallBatchPrewrite(t, h)
             \/ CallCommit(t, h) \/ CallBatchCommit(t, h)
             \/ CallRollback(t, h) \/ CallHeartbeat(t, h)
             \/ CallCheckTxnStatus(t, h) \/ GiveUp(t, h)
      PROVE  /\ UNCHANGED seen
             /\ \A g \in Workers : pc'[g] = "get_data" =>
                  pc'[g] = pc[g] /\ job'[g] = job[g] /\ found'[g] = found[g]
  BY <1>2, <1>a, Zenon DEF CallPrewrite, CallBatchPrewrite, CallCommit, CallBatchCommit,
     CallRollback, CallHeartbeat, CallCheckTxnStatus, GiveUp, SendPrewrite,
     SendCommit, locals, readers
<1>3. CASE \E r \in Readers, k \in Keys : ReaderStep(r, k)
  BY <1>3, <1>a, Zenon DEF ReaderStep, CallGet, locals
<1>4. CASE Crash
  BY <1>4 DEF Crash, readers
<1>5. CASE Tick \/ UNCHANGED vars
  BY <1>5, Zenon DEF Tick, vars, locals, readers
<1> QED
  BY <1>1, <1>2, <1>3, <1>4, <1>5, Zenon DEF ClientStep

\* Every step keeps what readers hold committed in their snapshots.
LEMMA NextReads ==
  ASSUME TypeOK, TypeOK', Control, Clients, Records, Reads, Kept, WriteStep, [Next]_vars
  PROVE  Reads'
<1>t. Timestamps
  BY DEF Clients
<1>0. \/ \E h \in Workers : Step(h)
      \/ \E t \in Txns : ClientStep(t)
      \/ \E r \in Readers, k \in Keys : ReaderStep(r, k)
      \/ Crash \/ Tick \/ UNCHANGED vars
  BY DEF Next
<1>1. ASSUME NEW g \in Workers, pc'[g] = "get_data"
      PROVE  ReadOK(job[g].key, found[g], readTs[job[g].who])'
  <2>1. /\ ReadOK(job[g].key, found'[g], readTs[job[g].who])
        /\ job'[g] = job[g] /\ job[g].key \in Keys /\ job[g].who \in Readers
    <3>1. CASE pc'[g] = pc[g] /\ job'[g] = job[g] /\ found'[g] = found[g]
      BY <1>1, <3>1, JobsByRpc DEF Reads, Control, JobOK, TypeOK
    <3>2. ASSUME NEW h \in Workers, Step(h), h # g
          PROVE  pc'[g] = pc[g] /\ job'[g] = job[g] /\ found'[g] = found[g]
      BY <3>2, StepOthers
    <3>3. CASE Step(g)
      BY <1>1, <3>3, StepLabels, PickedRead
    <3> QED
      BY <1>0, <1>1, <3>1, <3>2, <3>3, CallReads
  <2>2. PICK k \in Keys, r \in Readers : k = job[g].key /\ r = job[g].who
    BY <2>1
  <2>s. PICK s : s = found'[g]
    OBVIOUS
  <2>3. PICK ts : ts = readTs'[r] /\ ReadOK(k, s, ts)'
    BY <1>t, <2>1, <2>2, <2>s, HeldRead
  <2> QED
    BY <2>1, <2>2, <2>3, <2>s
<1>2. ASSUME NEW r \in Readers, NEW k \in Keys, seen'[r][k] > 0
      PROVE  ReadOK(k, seen[r][k], readTs[r])'
  <2>1. ReadOK(k, seen'[r][k], readTs[r])
    <3>1. CASE seen'[r][k] = seen[r][k]
      BY <1>2, <3>1, Zenon DEF Reads
    <3>2. ASSUME NEW h \in Workers, Step(h)  PROVE ReadOK(k, seen'[r][k], readTs[r])
      BY <1>2, <3>1, <3>2, StepSeen DEF Reads
    <3> QED
      BY <1>0, <3>1, <3>2, CallReads
  <2>2. PICK s : s = seen'[r][k]
    OBVIOUS
  <2>3. PICK ts : ts = readTs'[r] /\ ReadOK(k, s, ts)'
    BY <1>t, <2>1, <2>2, HeldRead
  <2> QED
    BY <2>2, <2>3
<1> QED
  BY <1>1, <1>2, Zenon DEF Reads

-----------------------------------------------------------------------------
(* Theorems *)

\* The initial state satisfies the inductive invariant.
LEMMA InitInv == Init => IInv
<1> SUFFICES ASSUME Init  PROVE IInv
  OBVIOUS
<1>1. TypeOK /\ Control /\ Clients
  BY InitTypes, InitClients
<1>2. Locks /\ Records
  BY DEF Init, Locks, LockOK, Records
<1>3. CommitPointKnown
  BY DEF Init, CommitPointKnown, CommittedOn, AckedIsCommitted
<1>4. Reads
  BY DEF Init, Reads, Unread
<1> QED
  BY <1>1, <1>2, <1>3, <1>4 DEF IInv, Clients

\* Every step preserves the inductive invariant.
LEMMA NextInv == IInv /\ [Next]_vars => IInv'
<1> SUFFICES ASSUME IInv, [Next]_vars  PROVE IInv'
  OBVIOUS
<1>1. TypeOK /\ Control /\ Clients /\ Locks /\ Records /\ CommitPointKnown /\ Reads
  BY DEF IInv, Clients
<1>2. TypeOK' /\ Control'
  BY <1>1, NextTypes DEF IInv
<1>3. Clients' /\ Timestamps'
  BY <1>1, NextClients DEF Clients
<1>4. Kept /\ WriteStep
  BY <1>1, NextKept, NextWrites
<1>5. Locks' /\ Records'
  BY <1>1, <1>4, NextLocks, NextRecords
<1>6. CommitPointKnown'
  BY <1>1, <1>2, <1>3, <1>4, StepCommitPoint, CallCommitPoint DEF Next
<1>7. Reads'
  BY <1>1, <1>2, <1>4, NextReads
<1> QED
  BY <1>2, <1>3, <1>5, <1>6, <1>7 DEF IInv, Clients

\* The inductive invariant holds in every reachable state.
LEMMA Invariance == Spec => []IInv
BY InitInv, NextInv, PTL DEF Spec

\* The handlers of TransactionCoordinator, LockResolver and MvccReader keep
\* every variable in its type, for any number of workers and any requests.
THEOREM TypeCorrect == Spec => []TypeOK
<1>1. IInv => TypeOK
  BY DEF IInv
<1> QED
  BY <1>1, Invariance, PTL

\* commit and the resolver's roll-forward never commit a secondary before the
\* primary, however handlers interleave and wherever the node crashes (clients
\* of batch_commit excluded).
THEOREM PrimaryIsCommitPoint == Spec => []CommitPoint
<1>1. IInv => CommitPoint
  BY MutationsType DEF IInv, CommitPointKnown, CommitPoint
<1> QED
  BY <1>1, Invariance, PTL

\* A commit that was answered Ok is committed at its primary from then on
\* (clients of batch_commit excluded).
THEOREM AcknowledgedCommitsStay == Spec => []AckedIsCommitted
<1>1. IInv => AckedIsCommitted
  BY DEF IInv, CommitPointKnown
<1> QED
  BY <1>1, Invariance, PTL

\* No insert into the WRITE partition destroys a committed version, although
\* rollback, commit and the resolver all write it without reading it first.
THEOREM CommittedVersionsStay == Spec => CommittedForever
<1>1. ASSUME IInv, [Next]_vars
      PROVE  [\A k \in Keys : \A r \in write[k] :
                r.op # "Rollback" =>
                  \E q \in write'[k] : /\ q.ts = r.ts /\ q.start = r.start
                                       /\ q.op # "Rollback"]_vars
  <2>1. TypeOK /\ Control /\ Clients /\ Timestamps /\ Locks /\ Records /\ CommitPointKnown
    BY <1>1 DEF IInv, Clients
  <2>2. WriteStep
    BY <1>1, <2>1, NextWrites
  <2> QED
    BY <2>1, <2>2, CommitsStay
<1> QED
  BY <1>1, Invariance, PTL DEF Spec, CommittedForever

\* MvccReader::get answers only with values committed at or before the
\* snapshot, of transactions whose primary is committed (unless they are
\* committed by batch_commit).
THEOREM NoReadIsDirty == Spec => []NoDirtyRead
<1>1. IInv => NoDirtyRead
  BY DEF IInv, Reads, ReadOK, CommitPointKnown, NoDirtyRead
<1> QED
  BY <1>1, Invariance, PTL
=============================================================================
