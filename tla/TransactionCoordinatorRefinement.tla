------------------ MODULE TransactionCoordinatorRefinement ------------------
(***************************************************************************)
(* TransactionCoordinator implements AtomicCommit.  Given the inductive    *)
(* invariant, what is left to show is that one step of a handler commits   *)
(* records of one transaction only, that an acknowledged transaction stays *)
(* acknowledged, and that a reader has one get outstanding.                *)
(***************************************************************************)
EXTENDS TransactionCoordinatorProofs

-----------------------------------------------------------------------------
(* One get per reader *)

\* A get that is being handled has not been answered, and its reader waits for
\* no other; only transactions stop waiting.
Asked ==
  \A h \in Workers :
    /\ h \in orphan => job[h].rpc \in {"prewrite", "commit"}
    /\ job[h].rpc = "get" =>
         /\ seen[job[h].who][job[h].key] = Unread
         /\ \A g \in Workers : job[g].rpc = "get" /\ job[g].who = job[h].who => g = h

\* Only the last two accesses of get answer a reader: with "not found", or with
\* the version whose value get has read.
LEMMA StepAnswers ==
  ASSUME TypeOK, Control, NEW h \in Workers, Step(h)
  PROVE  \/ UNCHANGED readers /\ (UNCHANGED <<job, orphan>> \/ Release(h))
         \/ /\ job[h].rpc = "get" /\ UNCHANGED store
            /\ \E v : /\ AnswerGet(h, v)
                      /\ v = 0 \/ (pc[h] = "get_data" /\ v = found[h])
<1>a. ASSUME NEW ok, Answer(h, ok)  PROVE UNCHANGED readers /\ Release(h)
  BY <1>a, Zenon DEF Answer
<1>g. ASSUME NEW l, Goto(h, l)  PROVE UNCHANGED <<job, orphan>>
  BY <1>g DEF Goto
<1>1. CASE GetWrite(h)
  BY <1>1, <1>g, Zenon DEF GetWrite, Control, JobOK
<1>2. CASE GetData(h)
  BY <1>2, <1>a, Zenon DEF GetData, Control, JobOK
<1>3. CASE GetLock(h)
  BY <1>3, <1>a, <1>g, Zenon DEF GetLock
<1>4. CASE \/ ResolveScan(h) \/ ResolvePrimary(h) \/ ResolveExpire(h)
           \/ ResolveApply(h) \/ ResolveLocked(h)
  BY <1>4, <1>a, <1>g, Zenon DEF ResolveScan, ResolvePrimary, ResolveExpire, ResolveApply,
     ResolveLocked, StatusIs, Resolved
<1>5. CASE PrewriteConflict(h) \/ PrewriteLock(h) \/ PrewriteRecheck(h) \/ PrewriteWrite(h)
  BY <1>5, <1>a, <1>g, Zenon DEF PrewriteConflict, PrewriteLock, PrewriteRecheck,
     PrewriteWrite, NextKey
<1>6. CASE \/ CommitReadPrimary(h) \/ CommitWritePrimary(h) \/ CommitReadSecondary(h)
           \/ CommitWriteSecondary(h) \/ BatchCommitRead(h) \/ BatchCommitWrite(h)
  BY <1>6, <1>a, <1>g, Zenon DEF CommitReadPrimary, CommitWritePrimary,
     CommitReadSecondary, CommitWriteSecondary, BatchCommitRead, BatchCommitWrite, NextKey
<1>7. CASE RollbackRead(h) \/ RollbackWrite(h) \/ HeartbeatRead(h) \/ HeartbeatWrite(h)
  BY <1>7, <1>a, <1>g, Zenon DEF RollbackRead, RollbackWrite, HeartbeatRead,
     HeartbeatWrite, NextKey
<1> QED
  BY <1>1, <1>2, <1>3, <1>4, <1>5, <1>6, <1>7, Zenon DEF Step

\* A handler answers the only get of its reader.
LEMMA StepAsked ==
  ASSUME TypeOK, Control, Asked, NEW h \in Workers, Step(h)
  PROVE  Asked'
<1> USE DEF TypeOK, WorkersOK, ClientsOK
<1>1. CASE UNCHANGED readers /\ UNCHANGED <<job, orphan>>
  BY <1>1 DEF Asked, readers
<1>2. ASSUME Release(h)
      PROVE  /\ \A g \in Workers : job'[g].rpc = "get" => g # h /\ job'[g] = job[g]
             /\ \A g \in orphan' : g \in orphan /\ job'[g] = job[g]
  BY <1>2 DEF Release, NoJob
<1>3. CASE UNCHANGED readers /\ Release(h)
  BY <1>2, <1>3 DEF Asked, readers
<1>4. ASSUME NEW v, AnswerGet(h, v), job[h].rpc = "get"  PROVE Asked'
  <2>1. Release(h) /\ seen' = [seen EXCEPT ![job[h].who][job[h].key] = v]
    BY <1>4 DEF AnswerGet
  <2>2. SUFFICES ASSUME NEW g \in Workers, job'[g].rpc = "get"
                 PROVE  /\ seen'[job'[g].who][job'[g].key] = Unread
                        /\ \A f \in Workers :
                             job'[f].rpc = "get" /\ job'[f].who = job'[g].who => f = g
    BY <1>2, <2>1 DEF Asked
  <2>3. g # h /\ job'[g] = job[g] /\ job[g].rpc = "get"
    BY <1>2, <2>1, <2>2
  <2>4. job[g].who # job[h].who
    BY <1>4, <2>3 DEF Asked
  <2>5. job[g].who \in Readers /\ job[g].key \in Keys
    BY <2>3, JobsByRpc
  <2>6. seen'[job[g].who] = seen[job[g].who]
    BY <2>1, <2>4, <2>5
  <2>7. seen'[job'[g].who][job'[g].key] = Unread
    BY <1>2, <2>1, <2>3, <2>6 DEF Asked
  <2>8. ASSUME NEW f \in Workers, job'[f].rpc = "get", job'[f].who = job'[g].who
        PROVE  f = g
    BY <1>2, <2>1, <2>3, <2>8 DEF Asked
  <2> QED
    BY <2>7, <2>8
<1> QED
  BY <1>1, <1>3, <1>4, StepAnswers, Zenon

\* An idle worker handles nothing, so nobody has stopped waiting for it.
LEMMA IdleWaited ==
  ASSUME Control, Asked, NEW h \in Workers, pc[h] = "idle"
  PROVE  h \notin orphan
<1>1. job[h] = NoJob
  BY DEF Control, JobOK
<1>2. job[h].rpc = "none"
  BY <1>1 DEF NoJob
<1> QED
  BY <1>2 DEF Asked

\* A reader asks again only when it waits for nothing.
LEMMA CallGetAsked ==
  ASSUME TypeOK, Control, Asked, NEW r \in Readers, NEW k \in Keys, NEW h \in Workers,
         CallGet(r, k, h)
  PROVE  Asked'
<1> USE DEF TypeOK, WorkersOK, ClientsOK
<1>1. /\ job' = [job EXCEPT ![h] = [rpc |-> "get", who |-> r, key |-> k]]
      /\ pc[h] = "idle" /\ UNCHANGED <<seen, orphan>> /\ seen[r][k] = Unread
  BY DEF CallGet, Accept
<1>2. \A g \in Workers : job[g].rpc = "get" => job[g].who # r
  BY DEF Asked, CallGet, Busy
<1>3. h \notin orphan
  BY <1>1, IdleWaited
<1> QED
  BY <1>1, <1>2, <1>3 DEF Asked

\* Calls of transactions, crashes and the clock leave the gets alone.
LEMMA OtherAsked ==
  ASSUME TypeOK, Control, Asked,
         (\E t \in Txns : ClientStep(t)) \/ Crash \/ Tick \/ UNCHANGED vars
  PROVE  Asked'
<1> USE DEF TypeOK, WorkersOK, ClientsOK
<1>1. ASSUME UNCHANGED <<job, seen, orphan>>  PROVE Asked'
  BY <1>1 DEF Asked
<1>2. ASSUME NEW t \in Txns, NEW h \in Workers, NEW label,
             NEW rpc \in {"prewrite", "commit", "rollback", "heartbeat", "status"},
             Accept(h, rpc, t, "none", label), UNCHANGED seen
      PROVE  Asked'
  <2>1. /\ \A g \in Workers : g = h \/ job'[g] = job[g]
        /\ job'[h].rpc = rpc /\ UNCHANGED orphan /\ pc[h] = "idle"
    BY <1>2 DEF Accept
  <2>2. h \notin orphan
    BY <2>1, IdleWaited
  <2> QED
    BY <1>2, <2>1, <2>2 DEF Asked
<1>3. ASSUME NEW t \in Txns, NEW h \in Workers,
             \/ CallPrewrite(t, h) \/ CallBatchPrewrite(t, h)
             \/ CallCommit(t, h) \/ CallBatchCommit(t, h)
             \/ CallRollback(t, h) \/ CallHeartbeat(t, h) \/ CallCheckTxnStatus(t, h)
      PROVE  Asked'
  BY <1>2, <1>3, Zenon DEF CallPrewrite, CallBatchPrewrite, CallCommit, CallBatchCommit,
     CallRollback, CallHeartbeat, CallCheckTxnStatus, SendPrewrite, SendCommit, readers
<1>4. ASSUME NEW t \in Txns, NEW h \in Workers, GiveUp(t, h)  PROVE Asked'
  BY <1>4 DEF GiveUp, Asked, readers
<1>5. CASE \E t \in Txns : Begin(t) \/ DrawCommitTs(t)
  BY <1>1, <1>5, Zenon DEF Begin, DrawCommitTs, readers
<1>6. CASE Crash
  BY <1>6 DEF Crash, Asked, NoJob
<1>7. CASE Tick \/ UNCHANGED vars
  BY <1>1, <1>7 DEF Tick, vars, readers
<1> QED
  BY <1>3, <1>4, <1>5, <1>6, <1>7, Zenon DEF ClientStep

\* In every reachable state a reader has at most one get outstanding.
LEMMA AskedAlways == Spec => []Asked
<1>1. Init => Asked
  BY DEF Init, Asked, NoJob
<1>2. ASSUME IInv, Asked, [Next]_vars  PROVE Asked'
  <2>1. TypeOK /\ Control
    BY <1>2 DEF IInv
  <2> QED
    BY <1>2, <2>1, StepAsked, CallGetAsked, OtherAsked DEF Next, ReaderStep
<1> QED
  BY <1>1, <1>2, Invariance, PTL DEF Spec

-----------------------------------------------------------------------------
(* One transaction per step *)

\* Every record a step inserts is of transaction t.
OnlyWriter(t) ==
  \A k \in Keys :
    \/ write'[k] = write[k]
    \/ \E rec : rec.start = start[t] /\ write'[k] = Insert(write[k], rec)

\* Rolling a key back, or committing it, writes one record.
LEMMA KeyWriter ==
  ASSUME TypeOK, NEW t \in Txns, NEW k \in Keys,
         RollBackKey(k, start[t]) \/ \E c, op : CommitKey(k, start[t], c, op)
  PROVE  OnlyWriter(t)
<1>1. ASSUME NEW rec, rec.start = start[t],
             write' = [write EXCEPT ![k] = Insert(@, rec)]
      PROVE  OnlyWriter(t)
  BY <1>1 DEF OnlyWriter, TypeOK, StoreOK
<1>2. ASSUME NEW c, NEW op  PROVE Rec(c, start[t], op).start = start[t]
  BY DEF Rec
<1> QED
  BY <1>1, <1>2 DEF RollBackKey, CommitKey

\* A handler writes records of one transaction only; commit and batch_commit
\* write those of their own.
LEMMA StepWriter ==
  ASSUME TypeOK, Control, Locks, NEW h \in Workers, Step(h)
  PROVE  \/ UNCHANGED write
         \/ \E t \in Txns : /\ OnlyWriter(t)
                            /\ job[h].rpc = "commit" => t = job[h].who
<1>w. WorkersOK
  BY DEF TypeOK
<1>1. CASE GetLock(h) \/ GetWrite(h) \/ GetData(h) \/ ResolveScan(h) \/ ResolvePrimary(h)
  BY <1>1, Zenon DEF GetLock, GetWrite, GetData, ResolveScan, ResolvePrimary, store
<1>2. CASE ResolveExpire(h) \/ ResolveApply(h) \/ ResolveLocked(h)
  <2>1. pc[h] \in ResolveLabels
    BY <1>2 DEF ResolveExpire, ResolveApply, ResolveLocked, ResolveLabels
  <2>2. job[h].rpc \notin {"commit", "none"}
    BY <2>1 DEF Control, JobOK
  <2>3. PICK t \in Txns : start[t] = copy[h].start /\ copy[h].primary = Primary(t)
    BY <2>1, CopyOwner
  <2>4. Primary(t) \in Keys
    BY MutationsType
  <2>5. CurKey(h) \in Keys
    BY <2>2, CurKeyType
  <2>6. UNCHANGED write \/ OnlyWriter(t)
    <3>1. CASE ResolveExpire(h)
      BY <2>3, <2>4, <3>1, KeyWriter DEF ResolveExpire, store
    <3>2. CASE ResolveApply(h)
      BY <2>3, <2>5, <3>2, KeyWriter DEF ResolveApply
    <3>3. CASE ResolveLocked(h)
      BY <2>3, <2>5, <3>3, KeyWriter DEF ResolveLocked, store
    <3> QED
      BY <1>2, <3>1, <3>2, <3>3
  <2> QED
    BY <2>2, <2>6
<1>3. CASE PrewriteConflict(h) \/ PrewriteLock(h) \/ PrewriteRecheck(h) \/ PrewriteWrite(h)
  BY <1>3, Zenon DEF PrewriteConflict, PrewriteLock, PrewriteRecheck, PrewriteWrite,
     PrewriteKeys, store
<1>4. CASE CommitReadPrimary(h) \/ CommitReadSecondary(h) \/ BatchCommitRead(h)
  BY <1>4, Zenon DEF CommitReadPrimary, CommitReadSecondary, BatchCommitRead, store
<1>5. CASE CommitWritePrimary(h) \/ CommitWriteSecondary(h)
  <2>1. job[h].rpc = "commit"
    BY <1>5 DEF CommitWritePrimary, CommitWriteSecondary, Control, JobOK
  <2>2. job[h].who \in Txns /\ CurKey(h) \in Keys
    BY <1>w, <2>1, JobsByRpc, CurKeyType
  <2> QED
    BY <1>5, <2>2, KeyWriter DEF CommitWritePrimary, CommitWriteSecondary
<1>6. CASE BatchCommitWrite(h)
  <2>1. job[h].rpc = "commit"
    BY <1>6 DEF BatchCommitWrite, Control, JobOK
  <2>2. PICK t \in Txns : t = job[h].who
    BY <1>w, <2>1, JobsByRpc
  <2>3. ASSUME NEW c, NEW op  PROVE Rec(c, start[t], op).start = start[t]
    BY DEF Rec
  <2>4. OnlyWriter(t)
    BY <1>6, <2>2, <2>3 DEF BatchCommitWrite, OnlyWriter
  <2> QED
    BY <2>2, <2>4
<1>7. CASE RollbackWrite(h)
  <2>1. job[h].rpc = "rollback"
    BY <1>7 DEF RollbackWrite, Control, JobOK
  <2>2. PICK t \in Txns, k \in Keys : t = job[h].who /\ k = CurKey(h)
    BY <1>w, <2>1, JobsByRpc, CurKeyType
  <2>3. Rec(start[t], start[t], "Rollback").start = start[t]
    BY DEF Rec
  <2>4. write' = [write EXCEPT ![k] = Insert(@, Rec(start[t], start[t], "Rollback"))]
    BY <1>7, <2>2 DEF RollbackWrite, RollBackKey
  <2>5. OnlyWriter(t)
    BY <2>3, <2>4 DEF OnlyWriter, TypeOK, StoreOK
  <2> QED
    BY <2>1, <2>5
<1>8. CASE RollbackRead(h) \/ HeartbeatRead(h) \/ HeartbeatWrite(h)
  BY <1>8, Zenon DEF RollbackRead, HeartbeatRead, HeartbeatWrite, store
<1> QED
  BY <1>1, <1>2, <1>3, <1>4, <1>5, <1>6, <1>7, <1>8, Zenon DEF Step

\* A step that writes records of t only leaves the commits of others alone.
LEMMA OthersPublished ==
  ASSUME TypeOK, Timestamps, Records, Kept, WriteStep, UNCHANGED start,
         NEW t \in Txns, OnlyWriter(t), NEW u \in Txns, u # t, NEW k \in Keys
  PROVE  CommittedOn(u, k)' <=> CommittedOn(u, k)
<1>1. ASSUME CommittedOn(u, k)  PROVE CommittedOn(u, k)'
  BY <1>1, CommittedBegun, CommittedStays
<1>2. ASSUME CommittedOn(u, k)'  PROVE CommittedOn(u, k)
  <2>1. PICK q \in write'[k] : q.start = start[u] /\ q.op # "Rollback"
    BY <1>2 DEF CommittedOn
  <2>2. q.start # 0
    <3>1. RecordOK(q)
      BY DEF WriteStep, Justified, Records, Insert
    <3> QED
      BY <3>1 DEF RecordOK
  <2>3. q.start # start[t]
    BY <2>1, <2>2 DEF Timestamps
  <2>4. q \in write[k]
    BY <2>3 DEF OnlyWriter, Insert
  <2> QED
    BY <2>1, <2>4 DEF CommittedOn
<1> QED
  BY <1>1, <1>2

\* A client learns of a commit only from the handler of its commit.
LEMMA StepAcked ==
  ASSUME TypeOK, Clients, NEW h \in Workers, Step(h), NEW t \in Txns
  PROVE  /\ phase[t] = "committed" => phase'[t] = "committed"
         /\ phase[t] # "committed" /\ phase'[t] = "committed" =>
              job[h].rpc = "commit" /\ job[h].who = t
<1>1. CASE UNCHANGED phase
  BY <1>1
<1>2. ASSUME NEW ok \in BOOLEAN, Answer(h, ok), ~UNCHANGED phase
      PROVE  /\ phase[t] = "committed" => phase'[t] = "committed"
             /\ phase[t] # "committed" /\ phase'[t] = "committed" =>
                  job[h].rpc = "commit" /\ job[h].who = t
  <2>1. /\ h \notin orphan /\ job[h].rpc \in {"prewrite", "commit", "rollback"}
        /\ phase' = [phase EXCEPT ![job[h].who] = AfterAnswer(job[h].rpc, ok)]
    BY <1>2 DEF Answer
  <2>2. phase[job[h].who] = Waiting(job[h].rpc)
    BY <2>1 DEF Clients, Protocol, ClientRpcs
  <2>3. phase[job[h].who] # "committed"
    BY <2>1, <2>2 DEF Waiting
  <2>4. AfterAnswer(job[h].rpc, ok) = "committed" => job[h].rpc = "commit"
    BY <2>1 DEF AfterAnswer
  <2> QED
    BY <2>1, <2>3, <2>4 DEF TypeOK, ClientsOK
<1> QED
  BY <1>1, <1>2, StepShape DEF AnswerGet, clients

-----------------------------------------------------------------------------
(* Steps of the node are steps of AtomicCommit *)

\* What a step needs to know of the state before and after it.
Known ==
  /\ TypeOK /\ Control /\ Clients /\ Timestamps /\ Locks /\ Records
  /\ CommitPointKnown /\ Reads /\ Asked /\ Kept /\ WriteStep
  /\ TypeOK' /\ Clients' /\ Records' /\ CommitPointKnown'

\* A step of a handler that leaves the readers alone publishes keys of one
\* transaction, or nothing.
LEMMA StepPublishes ==
  ASSUME Known, NEW h \in Workers, Step(h), UNCHANGED readers
  PROVE  [AC!Next]_(AC!vars)
<1> USE DEF Known
<1>1. UNCHANGED <<issuedAt, start, commitTs, readTs, seen>>
  BY StepShape DEF clock, Answer, AnswerGet, clients, readers
<1>2. ASSUME NEW t \in Txns, ~UNCHANGED <<Published, Acked>>,
             \A u \in Txns : u # t =>
               /\ \A k \in Keys : CommittedOn(u, k)' <=> CommittedOn(u, k)
               /\ phase'[u] = "committed" <=> phase[u] = "committed"
      PROVE  AC!Next
  <2>1. \A k \in Keys : CommittedOn(t, k) => CommittedOn(t, k)'
    BY CommittedBegun, CommittedStays
  <2>2. Published' = [Published EXCEPT ![t] = @ \cup Published'[t]]
    BY <1>2, <2>1 DEF Published
  <2>3. phase[t] = "committed" => phase'[t] = "committed"
    BY StepAcked
  <2>4. Acked' \in {Acked, Acked \cup {t}}
    BY <1>2, <2>3 DEF Acked
  <2>5. \/ phase'[t] = "committed"
        \/ \E k \in Keys : CommittedOn(t, k)'
    <3>1. SUFFICES ASSUME phase'[t] # "committed", \A k \in Keys : ~CommittedOn(t, k)'
                   PROVE  UNCHANGED <<Published, Acked>>
      BY <1>2
    <3>2. \A u \in Txns : /\ \A k \in Keys : CommittedOn(u, k)' <=> CommittedOn(u, k)
                          /\ phase'[u] = "committed" <=> phase[u] = "committed"
      BY <1>2, <2>1, <2>3, <3>1
    <3> QED
      BY <3>2 DEF Published, Acked
  <2>6. t \notin BatchClients => Primary(t) \in Published'[t]
    <3>1. ASSUME t \notin BatchClients  PROVE PrimaryCommitted(t)'
      BY <2>5, <3>1 DEF CommitPointKnown, AckedIsCommitted
    <3> QED
      BY <3>1, MutationsType DEF PrimaryCommitted, Published
  <2>7. commitTs[t] # 0
    <3>1. CASE phase'[t] = "committed"
      BY <1>1, <3>1 DEF Clients, Protocol
    <3>2. ASSUME NEW k \in Keys, CommittedOn(t, k)'  PROVE commitTs[t] # 0
      <4>1. PICK q \in write'[k] : q.start = start'[t] /\ q.op # "Rollback"
        BY <3>2 DEF CommittedOn
      <4>2. PICK u \in Txns : start'[u] = q.start /\ start'[u] # 0 /\ commitTs'[u] # 0
        BY <4>1 DEF Records, RecordOK
      <4>3. u = t
        BY <1>1, <4>1, <4>2 DEF Timestamps
      <4> QED
        BY <1>1, <4>2, <4>3
    <3> QED
      BY <2>5, <3>1, <3>2
  <2>8. Published'[t] \subseteq Keys
    BY DEF Published
  <2>9. AC!Publish(t, Published'[t])
    BY <1>1, <2>2, <2>4, <2>6, <2>7 DEF AC!Publish, AC!stamps
  <2> QED
    BY <2>8, <2>9 DEF AC!Next
<1>3. CASE UNCHANGED <<Published, Acked>>
  BY <1>1, <1>3 DEF AC!vars, AC!stamps, AC!effects
<1>4. ASSUME NEW t \in Txns, job[h].rpc = "commit" => t = job[h].who,
             OnlyWriter(t) \/ UNCHANGED write, ~UNCHANGED <<Published, Acked>>
      PROVE  AC!Next
  <2>1. ASSUME NEW u \in Txns, u # t
        PROVE  /\ \A k \in Keys : CommittedOn(u, k)' <=> CommittedOn(u, k)
               /\ phase'[u] = "committed" <=> phase[u] = "committed"
    <3>1. ASSUME UNCHANGED write, NEW k \in Keys
          PROVE  CommittedOn(u, k)' <=> CommittedOn(u, k)
      BY <1>1, <3>1 DEF CommittedOn
    <3>2. phase'[u] = "committed" <=> phase[u] = "committed"
      BY <1>4, <2>1, StepAcked
    <3> QED
      BY <1>1, <1>4, <2>1, <3>1, <3>2, OthersPublished
  <2> QED
    BY <1>2, <1>4, <2>1
<1>5. ASSUME UNCHANGED write, job[h].rpc # "commit"
      PROVE  UNCHANGED <<Published, Acked>>
  BY <1>1, <1>5, StepAcked DEF Published, Acked, CommittedOn
<1>6. job[h].rpc = "commit" => job[h].who \in Txns
  BY JobsByRpc DEF TypeOK
<1> QED
  BY <1>3, <1>4, <1>5, <1>6, StepWriter

\* The answer of a get is one read of AtomicCommit.
LEMMA StepReads ==
  ASSUME Known, NEW h \in Workers, NEW v, AnswerGet(h, v), job[h].rpc = "get",
         v = 0 \/ (pc[h] = "get_data" /\ v = found[h]), UNCHANGED <<store, clock>>
  PROVE  [AC!Next]_(AC!vars)
<1> USE DEF Known
<1>1. PICK r \in Readers, k \in Keys : r = job[h].who /\ k = job[h].key
  BY JobsByRpc DEF TypeOK
<1>2. seen[r][k] = Unread
  BY <1>1 DEF Asked
<1>3. seen' = [seen EXCEPT ![r][k] = v]
  BY <1>1 DEF AnswerGet
<1>4. /\ UNCHANGED <<issuedAt, start, commitTs, readTs, write, phase>>
      /\ UNCHANGED <<Published, Acked>>
  BY DEF AnswerGet, clients, clock, store, Published, Acked, CommittedOn
<1>5. v \in {0} \cup {start[t] : t \in {u \in Txns : AC!Readable(r, k, u)}}
  <2>1. CASE v = 0
    BY <2>1
  <2>2. CASE pc[h] = "get_data" /\ v = found[h]
    <3>1. PICK t \in Txns : /\ start[t] = v /\ CommittedOn(t, k)
                            /\ commitTs[t] # 0 /\ commitTs[t] <= readTs[r]
      BY <1>1, <2>2 DEF Reads, ReadOK
    <3>2. t \notin BatchClients => PrimaryCommitted(t)
      BY <3>1 DEF CommitPointKnown
    <3>3. k \in Published[t] /\ (t \notin BatchClients => Primary(t) \in Published[t])
      BY <3>1, <3>2, MutationsType DEF Published, PrimaryCommitted
    <3>4. AC!Readable(r, k, t)
      BY <3>1, <3>3 DEF AC!Readable
    <3> QED
      BY <3>1, <3>4
  <2> QED
    BY <2>1, <2>2
<1>6. AC!Read(r, k)
  BY <1>2, <1>3, <1>4, <1>5 DEF AC!Read, AC!stamps, AC!effects
<1> QED
  BY <1>6 DEF AC!Next

\* begin, drawing a commit timestamp and the first get of a reader hand out
\* the next timestamp.
LEMMA DrawRefines ==
  ASSUME Known,
         \/ \E t \in Txns : Begin(t) \/ DrawCommitTs(t)
         \/ \E r \in Readers, k \in Keys, h \in Workers : CallGet(r, k, h)
  PROVE  [AC!Next]_(AC!vars)
<1> USE DEF Known
<1>1. ASSUME Issue  PROVE Len(issuedAt') = Len(issuedAt) + 1 /\ NextTs = Len(issuedAt) + 1
  BY <1>1, IssueLen DEF NextTs, TypeOK
<1>2. ASSUME NEW t \in Txns, Begin(t)  PROVE AC!Begin(t)
  <2>1. /\ start[t] = 0 /\ start' = [start EXCEPT ![t] = Len(issuedAt) + 1]
        /\ UNCHANGED <<write, commitTs, readTs, seen>> /\ Issue
    BY <1>2 DEF Begin, Clients, Protocol, store, readers, NextTs
  <2>2. ASSUME NEW u \in Txns, NEW k \in Keys
        PROVE  CommittedOn(u, k)' <=> CommittedOn(u, k)
    <3>1. CASE u # t
      BY <2>1, <3>1 DEF CommittedOn, TypeOK, ClientsOK
    <3>2. CASE u = t
      <4>1. ~CommittedOn(t, k)
        BY <2>1, CommittedBegun
      <4>2. start'[t] = Len(issuedAt) + 1 /\ Len(issuedAt) \in Nat
        BY <2>1 DEF TypeOK, ClientsOK, ClockOK
      <4>3. \A r \in write[k] : r.start # start'[t]
        <5>1. SUFFICES ASSUME NEW r \in write[k]  PROVE r.start # start'[t]
          OBVIOUS
        <5>2. PICK v \in Txns : start[v] = r.start
          BY DEF Records, RecordOK
        <5>3. start[v] <= Len(issuedAt) /\ start[v] \in Nat
          BY DEF Timestamps, TypeOK, ClientsOK
        <5> QED
          BY <4>2, <5>2, <5>3
      <4> QED
        BY <2>1, <3>2, <4>1, <4>3 DEF CommittedOn
    <3> QED
      BY <3>1, <3>2
  <2>3. Published' = Published
    BY <2>2 DEF Published
  <2>4. Acked' = Acked
    BY <1>2 DEF Acked, Begin, TypeOK, ClientsOK
  <2> QED
    BY <1>1, <2>1, <2>3, <2>4 DEF AC!Begin, AC!effects
<1>3. ASSUME NEW t \in Txns, DrawCommitTs(t)  PROVE AC!Stamp(t)
  <2>1. /\ start[t] # 0 /\ commitTs[t] = 0
        /\ commitTs' = [commitTs EXCEPT ![t] = Len(issuedAt) + 1]
        /\ UNCHANGED <<write, start, readTs, seen>> /\ Issue
    BY <1>3 DEF DrawCommitTs, Clients, Protocol, store, readers, NextTs
  <2>2. UNCHANGED <<Published, Acked>>
    BY <1>3, <2>1 DEF DrawCommitTs, Published, Acked, CommittedOn, TypeOK, ClientsOK
  <2> QED
    BY <1>1, <2>1, <2>2 DEF AC!Stamp, AC!effects
<1>4. ASSUME NEW r \in Readers, NEW k \in Keys, NEW h \in Workers, CallGet(r, k, h)
      PROVE  [AC!Next]_(AC!vars)
  <2>1. UNCHANGED <<write, start, commitTs, phase, seen, Published, Acked>>
    BY <1>4 DEF CallGet, store, clients, Published, Acked, CommittedOn
  <2>2. CASE UNCHANGED <<issuedAt, readTs>>
    BY <2>1, <2>2 DEF AC!vars, AC!stamps, AC!effects
  <2>3. CASE readTs[r] = 0 /\ Issue /\ readTs' = [readTs EXCEPT ![r] = NextTs]
    <3>1. AC!TakeSnapshot(r)
      BY <1>1, <2>1, <2>3 DEF AC!TakeSnapshot, AC!effects
    <3> QED
      BY <3>1 DEF AC!Next
  <2> QED
    BY <1>4, <2>2, <2>3 DEF CallGet
<1> QED
  BY <1>2, <1>3, <1>4 DEF AC!Next

\* The other calls, lost answers, crashes and the clock are not seen.
LEMMA OtherRefines ==
  ASSUME TypeOK,
         \/ \E t \in Txns, h \in Workers :
              \/ CallPrewrite(t, h) \/ CallBatchPrewrite(t, h)
              \/ CallCommit(t, h) \/ CallBatchCommit(t, h)
              \/ CallRollback(t, h) \/ CallHeartbeat(t, h)
              \/ CallCheckTxnStatus(t, h) \/ GiveUp(t, h)
         \/ Crash \/ Tick \/ UNCHANGED vars
  PROVE  UNCHANGED AC!vars
<1>1. UNCHANGED <<write, issuedAt, start, commitTs, readTs, seen>>
  BY Zenon DEF CallPrewrite, CallBatchPrewrite, CallCommit, CallBatchCommit, CallRollback,
     CallHeartbeat, CallCheckTxnStatus, GiveUp, SendPrewrite, SendCommit, Crash, Tick,
     vars, store, clock, clients, readers
<1>2. \A t \in Txns : phase'[t] = "committed" <=> phase[t] = "committed"
  <2>1. CASE UNCHANGED phase
    BY <2>1
  <2>2. ASSUME NEW t \in Txns, NEW ph, ph # "committed", phase[t] # "committed",
               phase' = [phase EXCEPT ![t] = ph]
        PROVE  \A u \in Txns : phase'[u] = "committed" <=> phase[u] = "committed"
    BY <2>2 DEF TypeOK, ClientsOK
  <2>3. ASSUME NEW ph  PROVE Unanswered(ph) = "committed" <=> ph = "committed"
    BY DEF Unanswered
  <2>4. CASE Crash
    BY <2>3, <2>4 DEF Crash
  <2>5. ASSUME NEW t \in Txns, NEW h \in Workers,
               \/ CallPrewrite(t, h) \/ CallBatchPrewrite(t, h)
               \/ CallCommit(t, h) \/ CallBatchCommit(t, h) \/ CallRollback(t, h)
        PROVE  \A u \in Txns : phase'[u] = "committed" <=> phase[u] = "committed"
    BY <2>2, <2>5 DEF CallPrewrite, CallBatchPrewrite, CallCommit, CallBatchCommit,
       CallRollback, SendPrewrite, SendCommit
  <2>6. ASSUME NEW t \in Txns, NEW h \in Workers, GiveUp(t, h)
        PROVE  \A u \in Txns : phase'[u] = "committed" <=> phase[u] = "committed"
    <3>1. phase[t] # "committed" /\ phase' = [phase EXCEPT ![t] = Unanswered(phase[t])]
      BY <2>6 DEF GiveUp
    <3> QED
      BY <2>2, <2>3, <3>1
  <2> QED
    BY <2>1, <2>4, <2>5, <2>6 DEF CallHeartbeat, CallCheckTxnStatus, Tick, vars, clients
<1>3. UNCHANGED <<Published, Acked>>
  BY <1>1, <1>2 DEF Published, Acked, CommittedOn
<1> QED
  BY <1>1, <1>3 DEF AC!vars, AC!stamps, AC!effects

\* The handlers of the coordinator, the resolver and the reader, in any
\* interleaving and with any crashes, implement the abstract specification of
\* commit at the primary, acknowledgement and snapshot reads.
THEOREM ImplementsAtomicCommit == Spec => Atomic
<1>1. Init => AC!Init
  BY DEF Init, AC!Init, Published, Acked, CommittedOn
<1>2. ASSUME IInv, IInv', Asked, [Next]_vars  PROVE [AC!Next]_(AC!vars)
  <2>1. Known
    <3>1. /\ TypeOK /\ Control /\ Clients /\ Timestamps /\ Locks /\ Records
          /\ CommitPointKnown /\ Reads
      BY <1>2 DEF IInv, Clients
    <3>2. TypeOK' /\ Clients' /\ Records' /\ CommitPointKnown'
      BY <1>2 DEF IInv, Clients
    <3>3. Kept /\ WriteStep
      BY <1>2, <3>1, NextKept, NextWrites
    <3> QED
      BY <1>2, <3>1, <3>2, <3>3 DEF Known
  <2>2. ASSUME NEW h \in Workers, Step(h)  PROVE [AC!Next]_(AC!vars)
    <3>1. TypeOK /\ Control /\ UNCHANGED clock
      BY <2>1, <2>2, StepShape DEF Known
    <3> QED
      BY <2>1, <2>2, <3>1, StepAnswers, StepPublishes, StepReads
  <2>3. TypeOK
    BY <2>1 DEF Known
  <2> QED
    BY <1>2, <2>1, <2>2, <2>3, DrawRefines, OtherRefines DEF Next, ClientStep, ReaderStep
<1> QED
  BY <1>1, <1>2, Invariance, AskedAlways, PTL DEF Spec, Atomic, AC!Spec
=============================================================================
