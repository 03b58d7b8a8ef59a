----------------------- MODULE TransactionCoordinator -----------------------
(***************************************************************************)
(* The Percolator two-phase commit of one node: TransactionCoordinator,    *)
(* LockResolver and MvccReader (crates/txn-coordinator, crates/storage),   *)
(* called by gRPC clients through TxnService and KvService.                *)
(*                                                                         *)
(* The coordinator holds no lock of its own.  A handler is a sequence of   *)
(* reads of the three Fjall partitions and of batches committed to them,   *)
(* and the handlers of concurrent requests interleave between any two of   *)
(* those accesses.  One action below is one access: a point read, a range  *)
(* scan, or a batch (commit_batch, atomic in Fjall).  A handler never      *)
(* awaits, so a runtime with one worker thread runs handlers one at a      *)
(* time: Cardinality(Workers) = 1 is that deployment.                      *)
(*                                                                         *)
(* Values are abstracted to the start timestamp of their writer, byte keys *)
(* to elements of Keys no one of which is a prefix of another (then the    *)
(* versions of a key are contiguous and newest first in the partition).    *)
(***************************************************************************)
EXTENDS Integers, Sequences, FiniteSets

CONSTANTS
  Keys,          \* user keys
  Txns,          \* client transactions
  Readers,       \* clients that read a snapshot
  Workers,       \* threads of the server's runtime
  Mutations,     \* of each transaction: a sequence of [key, op], primary first
  BatchClients,  \* transactions that use the BatchPrewrite / BatchCommit RPCs
  ClientPolicy,  \* what clients do beyond prewrite and commit
  LockTtl,       \* lock_ttl of every prewrite
  HeartbeatTtl,  \* ttl of every heartbeat
  ReadTtl,       \* the literal 3000 of TransactionCoordinator::get
  MayCrash,      \* whether the node may crash and restart
  MaxBegin,      \* bound on the time at which transactions begin
  MaxTime        \* bound on the wall clock, in ticks

Ops == {"Put", "Delete"}
Policies == {"give_up",        \* stop waiting for an answer
             "retry",          \* repeat a call that was not answered
             "rollback",       \* roll back after a failed prewrite or commit
             "late_rollback",  \* roll back after a commit with no answer
             "heartbeat",      \* send TxnHeartBeat while the lock is held
             "status"}         \* send CheckTxnStatus for any transaction

ASSUME ConstantsAssumption ==
  /\ Txns \cap Readers = {}
  /\ Mutations \in [Txns -> Seq([key : Keys, op : Ops])]
  /\ \A t \in Txns :
       /\ Mutations[t] # <<>>
       /\ \A i, j \in 1..Len(Mutations[t]) :
            Mutations[t][i].key = Mutations[t][j].key => i = j
  /\ BatchClients \subseteq Txns
  /\ ClientPolicy \subseteq Policies
  /\ LockTtl \in Nat /\ HeartbeatTtl \in Nat /\ ReadTtl \in Nat
  /\ MayCrash \in BOOLEAN
  /\ MaxBegin \in Nat /\ MaxTime \in Nat

VARIABLES
  lock,      \* LOCK partition: user key -> lock or NoLock
  write,     \* WRITE partition: user key -> records, at most one per timestamp
  data,      \* DEFAULT partition: the <<key, start_ts>> that hold a value
  now,       \* wall clock of the node, in ticks
  issuedAt,  \* issuedAt[ts] is the physical part of the HLC timestamp ts
  phase,     \* of each transaction: where its client is in the protocol
  start,     \* start_ts of each transaction, 0 before begin
  commitTs,  \* commit_ts of each transaction, 0 before it is drawn
  readTs,    \* snapshot timestamp of each reader, 0 before its first get
  seen,      \* what each reader was answered for each key
  pc,        \* of each worker: the access it performs next
  job,       \* of each worker: the request it handles
  idx,       \* of each worker: loop index into the request's keys
  copy,      \* of each worker: the lock it read last
  ttl,       \* of each worker: TTL of the primary lock read by the resolver
  found,     \* of each worker: a timestamp it read (commit_ts, version)
  staged,    \* of each worker: inserts staged in the batch of BatchCommit
  orphan     \* workers whose client no longer waits for the answer

store   == <<lock, write, data>>
clock   == <<now, issuedAt>>
clients == <<phase, start, commitTs>>
readers == <<readTs, seen>>
locals  == <<idx, copy, ttl, found, staged>>
vars    == <<store, clock, clients, readers, pc, job, locals, orphan>>

-----------------------------------------------------------------------------
(* Values *)

Ts == 1..Len(issuedAt)
NoLock == [primary |-> "none", start |-> 0, ttl |-> 0, op |-> "Put"]
Lock == [primary : Keys, start : Nat \ {0}, ttl : Nat, op : Ops]
WriteRecord == [ts : Nat \ {0}, start : Nat \ {0}, op : Ops \cup {"Rollback"}]

NoJob == [rpc |-> "none", who |-> "none", key |-> "none"]
Jobs ==
  {NoJob}
    \cup [rpc : {"get"}, who : Readers, key : Keys]
    \cup [rpc : {"prewrite", "commit", "rollback", "heartbeat", "status"},
          who : Txns, key : {"none"}]

Unread == -1   \* no answer yet;  0: answered "not found"

Key(t, i) == Mutations[t][i].key
KeysOf(t) == {Key(t, i) : i \in 1..Len(Mutations[t])}
Primary(t) == Key(t, 1)
OpOn(t, k) == LET i == CHOOSE i \in 1..Len(Mutations[t]) : Key(t, i) = k
              IN  Mutations[t][i].op

Phases == {"idle", "begun", "prewriting", "prewrite_failed", "prewritten",
           "ready", "committing", "commit_unknown", "committed", "aborted",
           "rollingback", "closed"}

Labels == {"idle", "get_lock", "get_write", "get_data",
           "rs_scan", "rs_primary", "rs_expire", "rs_locked", "rs_apply",
           "pw_conflict", "pw_lock", "pw_recheck", "pw_write",
           "cm_primary", "cm_write_primary", "cm_secondary",
           "cm_write_secondary", "bc_read", "bc_write",
           "rb_lock", "rb_write", "hb_lock", "hb_write"}

-----------------------------------------------------------------------------
(* Storage *)

\* An insert into the WRITE partition: the encoded key (k, ts) is unique, so
\* a record with the same timestamp is replaced.
InsertByStart(S, rec) == {r \in S : r.start # rec.start} \cup {rec}  \* mutant
Insert(S, rec) == {r \in S : r.ts # rec.ts} \cup {rec}

Rec(ts, s, op) == [ts |-> ts, start |-> s, op |-> op]

IsNewest(r, S) == \A q \in S : q.ts <= r.ts

\* MvccReader: the records at or before ts that are not rollbacks; the newest
\* of them is the version read.
VisibleLatest(k, ts) == {r \in write[k] : r.op # "Rollback"}  \* mutant
Visible(k, ts) == {r \in write[k] : r.ts <= ts /\ r.op # "Rollback"}

Owns(k, s) == lock[k].start = s

\* now_phys > (start_ts >> 16) + ttl
ExpiredEarly(s, t) == now >= issuedAt[s] + t  \* mutant
ExpiredUnshifted(s, t) == now > s + t         \* mutant
Expired(s, t) == now > issuedAt[s] + t

CommittedOn(t, k) ==
  \E r \in write[k] : r.start = start[t] /\ r.op # "Rollback"
RolledBackOn(t, k) ==
  \E r \in write[k] : r.start = start[t] /\ r.op = "Rollback"
PrimaryCommitted(t) == CommittedOn(t, Primary(t))
-----------------------------------------------------------------------------
(* Control of a handler *)

Busy(c) == \E h \in Workers : job[h].who = c /\ h \notin orphan

CurKey(h) == IF job[h].rpc = "get" THEN job[h].key ELSE Key(job[h].who, idx[h])
LastKey(h) == idx[h] = Len(Mutations[job[h].who])
InBatch(h) == job[h].who \in BatchClients

Accept(h, rpc, c, k, label) ==
  /\ pc[h] = "idle"
  /\ pc' = [pc EXCEPT ![h] = label]
  /\ job' = [job EXCEPT ![h] = [rpc |-> rpc, who |-> c, key |-> k]]
  /\ orphan' = orphan

Goto(h, label) ==
  /\ pc' = [pc EXCEPT ![h] = label]
  /\ UNCHANGED <<job, orphan>>

Release(h) ==
  /\ pc' = [pc EXCEPT ![h] = "idle"]
  /\ job' = [job EXCEPT ![h] = NoJob]
  /\ idx' = [idx EXCEPT ![h] = 1]
  /\ copy' = [copy EXCEPT ![h] = NoLock]
  /\ ttl' = [ttl EXCEPT ![h] = 0]
  /\ found' = [found EXCEPT ![h] = 0]
  /\ staged' = [staged EXCEPT ![h] = {}]
  /\ orphan' = orphan \ {h}

\* mutant: the service drops the error of commit
AfterAnswerDropped(rpc, ok) ==
  CASE rpc = "prewrite" -> IF ok THEN "prewritten" ELSE "prewrite_failed"
    [] rpc = "commit"   -> "committed"
    [] rpc = "rollback" -> "closed"
AfterAnswer(rpc, ok) ==
  CASE rpc = "prewrite" -> IF ok THEN "prewritten" ELSE "prewrite_failed"
    [] rpc = "commit"   -> IF ok THEN "committed" ELSE "aborted"
    [] rpc = "rollback" -> "closed"

\* The handler returns; a client that still waits learns the result.
Answer(h, ok) ==
  /\ Release(h)
  /\ phase' = IF h \in orphan \/ job[h].rpc \notin {"prewrite", "commit", "rollback"}
              THEN phase
              ELSE [phase EXCEPT ![job[h].who] = AfterAnswer(job[h].rpc, ok)]
  /\ UNCHANGED <<start, commitTs, readers>>

\* get returns Ok(v): v is the writer of the value, or 0 for None.
AnswerGet(h, v) ==
  /\ Release(h)
  /\ seen' = [seen EXCEPT ![job[h].who][job[h].key] = v]
  /\ UNCHANGED <<clients, readTs>>

\* Continue with the next key of the request, or return Ok after the last.
NextKey(h, label) ==
  \/ /\ LastKey(h)
     /\ Answer(h, TRUE)
  \/ /\ ~LastKey(h)
     /\ Goto(h, label)
     /\ idx' = [idx EXCEPT ![h] = @ + 1]
     /\ copy' = [copy EXCEPT ![h] = NoLock]
     /\ UNCHANGED <<ttl, found, staged, clients, readers>>

-----------------------------------------------------------------------------
(* TransactionCoordinator::get and MvccReader::get *)

\* A lock blocks a read at ts if its transaction started at or before ts.
BlocksYounger(l, ts) == l # NoLock /\ l.start > ts  \* mutant
Blocks(l, ts) == l # NoLock /\ l.start <= ts

GetLock(h) ==
  /\ pc[h] = "get_lock"
  /\ LET l == lock[job[h].key]
         blocked == Blocks(l, readTs[job[h].who])
     IN  \/ /\ ~blocked
            /\ Goto(h, "get_write")
            /\ UNCHANGED <<locals, clients, readers>>
         \/ /\ blocked /\ idx[h] = 1
            /\ Goto(h, "rs_scan")
            /\ copy' = [copy EXCEPT ![h] =
                          [l EXCEPT !.ttl = ReadTtl, !.op = "Put"]]
            /\ UNCHANGED <<idx, ttl, found, staged, clients, readers>>
         \/ /\ blocked /\ idx[h] = 2
            /\ Answer(h, FALSE)
  /\ UNCHANGED <<store, clock>>

GetWrite(h) ==
  /\ pc[h] = "get_write"
  /\ LET V == Visible(job[h].key, readTs[job[h].who])
     IN  \/ \E r \in V :
              /\ IsNewest(r, V) /\ r.op = "Put"
              /\ Goto(h, "get_data")
              /\ found' = [found EXCEPT ![h] = r.start]
              /\ UNCHANGED <<idx, copy, ttl, staged, clients, readers>>
         \/ /\ \A r \in V : IsNewest(r, V) => r.op = "Delete"
            /\ AnswerGet(h, 0)
  /\ UNCHANGED <<store, clock>>

\* A Put record without a value is MvccError::CorruptedState.
GetData(h) ==
  /\ pc[h] = "get_data"
  /\ IF <<job[h].key, found[h]>> \in data
     THEN AnswerGet(h, found[h])
     ELSE Answer(h, FALSE)
  /\ UNCHANGED <<store, clock>>

-----------------------------------------------------------------------------
(* LockResolver::check_txn_status and resolve_lock, on behalf of get,       *)
(* prewrite, batch_prewrite, and of the CheckTxnStatus RPC.                 *)

\* check_txn_status returns Committed{c} (c > 0) or RolledBack (c = 0).
StatusIs(h, c) ==
  \/ /\ job[h].rpc = "status"
     /\ Answer(h, TRUE)
  \/ /\ job[h].rpc # "status"
     /\ Goto(h, "rs_apply")
     /\ found' = [found EXCEPT ![h] = c]
     /\ UNCHANGED <<idx, copy, ttl, staged, clients, readers>>

\* The newest record of the transaction at its primary decides.
StatusIgnoringOp(r) == r.ts  \* mutant
StatusOf(r) == IF r.op = "Rollback" THEN 0 ELSE r.ts

ResolveScan(h) ==
  /\ pc[h] = "rs_scan"
  /\ LET S == {r \in write[copy[h].primary] : r.start = copy[h].start}
     IN  \/ \E r \in S : IsNewest(r, S) /\ StatusIs(h, StatusOf(r))
         \/ /\ S = {}
            /\ Goto(h, "rs_primary")
            /\ UNCHANGED <<locals, clients, readers>>
  /\ UNCHANGED <<store, clock>>

ResolvePrimary(h) ==
  /\ pc[h] = "rs_primary"
  /\ \/ /\ Owns(copy[h].primary, copy[h].start)
        /\ Goto(h, "rs_expire")
        /\ ttl' = [ttl EXCEPT ![h] = lock[copy[h].primary].ttl]
        /\ UNCHANGED <<idx, copy, found, staged, clients, readers>>
     \/ /\ ~Owns(copy[h].primary, copy[h].start)
        /\ StatusIs(h, 0)
  /\ UNCHANGED <<store, clock>>

\* mutant: the lock is removed without a trace
RollBackKeySilently(k, s) ==
  /\ lock' = [lock EXCEPT ![k] = NoLock]
  /\ UNCHANGED <<write, data>>

\* Roll key k back for the transaction that started at s: one batch.
RollBackKey(k, s) ==
  /\ write' = [write EXCEPT ![k] = Insert(@, Rec(s, s, "Rollback"))]
  /\ lock' = [lock EXCEPT ![k] = NoLock]
  /\ UNCHANGED data

\* Commit key k at c with operation op, and remove whatever lock k has.
CommitKey(k, s, c, op) ==
  /\ write' = [write EXCEPT ![k] = Insert(@, Rec(c, s, op))]
  /\ lock' = [lock EXCEPT ![k] = NoLock]
  /\ UNCHANGED data

\* The clock is read just before the batch is built.  The wall clock only
\* advances, so reading it in the step that commits the batch loses no outcome.
ResolveExpire(h) ==
  /\ pc[h] = "rs_expire"
  /\ \/ /\ Expired(copy[h].start, ttl[h])
        /\ RollBackKey(copy[h].primary, copy[h].start)
        /\ StatusIs(h, 0)
     \/ /\ ~Expired(copy[h].start, ttl[h])
        /\ job[h].rpc = "status"
        /\ Answer(h, TRUE)
        /\ UNCHANGED store
     \/ /\ ~Expired(copy[h].start, ttl[h])
        /\ job[h].rpc # "status"
        /\ Goto(h, "rs_locked")
        /\ UNCHANGED <<store, locals, clients, readers>>
  /\ UNCHANGED clock

\* resolve_lock returned Ok: get reads again, prewrite looks at the lock
\* again, batch_prewrite goes on.
Resolved(h) ==
  /\ Goto(h, CASE job[h].rpc = "get" -> "get_lock"
               [] job[h].rpc # "get" /\ InBatch(h) -> "pw_write"
               [] job[h].rpc # "get" /\ ~InBatch(h) -> "pw_recheck")
  /\ idx' = [idx EXCEPT ![h] = IF job[h].rpc = "get" THEN 2 ELSE @]
  /\ copy' = [copy EXCEPT ![h] = NoLock]
  /\ ttl' = [ttl EXCEPT ![h] = 0]
  /\ found' = [found EXCEPT ![h] = 0]
  /\ UNCHANGED <<staged, clients, readers>>

ResolveApply(h) ==
  /\ pc[h] = "rs_apply"
  /\ IF found[h] > 0
     THEN CommitKey(CurKey(h), copy[h].start, found[h], copy[h].op)
     ELSE RollBackKey(CurKey(h), copy[h].start)
  /\ Resolved(h)
  /\ UNCHANGED clock

\* The primary is alive: the lock at hand is judged by its own TTL.
ResolveLocked(h) ==
  /\ pc[h] = "rs_locked"
  /\ \/ /\ Expired(copy[h].start, copy[h].ttl)
        /\ RollBackKey(CurKey(h), copy[h].start)
        /\ Resolved(h)
     \/ /\ ~Expired(copy[h].start, copy[h].ttl)
        /\ Answer(h, FALSE)
        /\ UNCHANGED store
  /\ UNCHANGED clock

-----------------------------------------------------------------------------
(* prewrite and batch_prewrite *)

\* A record at or after start_ts: a later commit, or the transaction's own
\* rollback, which is stored at start_ts.
ConflictsOwn(k, s) == {r \in write[k] : r.start = s}  \* mutant
Conflicts(k, s) == {r \in write[k] : r.ts >= s}

PrewriteConflict(h) ==
  /\ pc[h] = "pw_conflict"
  /\ \/ /\ Conflicts(CurKey(h), start[job[h].who]) # {}
        /\ Answer(h, FALSE)
     \/ /\ Conflicts(CurKey(h), start[job[h].who]) = {}
        /\ Goto(h, "pw_lock")
        /\ UNCHANGED <<locals, clients, readers>>
  /\ UNCHANGED <<store, clock>>

LockedByOther(k, s) == lock[k] # NoLock /\ lock[k].start # s

PrewriteLock(h) ==
  /\ pc[h] = "pw_lock"
  /\ \/ /\ LockedByOther(CurKey(h), start[job[h].who])
        /\ Goto(h, "rs_scan")
        /\ copy' = [copy EXCEPT ![h] = lock[CurKey(h)]]
        /\ UNCHANGED <<idx, ttl, found, staged, clients, readers>>
     \/ /\ ~LockedByOther(CurKey(h), start[job[h].who])
        /\ Goto(h, "pw_write")
        /\ UNCHANGED <<locals, clients, readers>>
  /\ UNCHANGED <<store, clock>>

PrewriteRecheck(h) ==
  /\ pc[h] = "pw_recheck"
  /\ \/ /\ LockedByOther(CurKey(h), start[job[h].who])
        /\ Answer(h, FALSE)
     \/ /\ ~LockedByOther(CurKey(h), start[job[h].who])
        /\ Goto(h, "pw_write")
        /\ UNCHANGED <<locals, clients, readers>>
  /\ UNCHANGED <<store, clock>>

PutsOfPrimary(t, K) == K \cap {Primary(t)}  \* mutant
Puts(t, K) == {k \in K : OpOn(t, k) = "Put"}

\* One batch: the values of t's puts among K, and t's locks on K.
PrewriteKeys(t, K) ==
  /\ lock' = [k \in Keys |->
                IF k \in K
                THEN [primary |-> Primary(t), start |-> start[t],
                      ttl |-> LockTtl, op |-> OpOn(t, k)]
                ELSE lock[k]]
  /\ data' = data \cup {<<k, start[t]>> : k \in Puts(t, K)}
  /\ UNCHANGED write

\* prewrite commits a batch per mutation, batch_prewrite one for all of them.
PrewriteWrite(h) ==
  /\ pc[h] = "pw_write"
  /\ \/ /\ ~InBatch(h)
        /\ PrewriteKeys(job[h].who, {CurKey(h)})
     \/ /\ InBatch(h) /\ LastKey(h)
        /\ PrewriteKeys(job[h].who, KeysOf(job[h].who))
     \/ /\ InBatch(h) /\ ~LastKey(h)
        /\ UNCHANGED store
  /\ NextKey(h, "pw_conflict")
  /\ UNCHANGED clock

-----------------------------------------------------------------------------
(* commit and batch_commit *)

CommitReadPrimary(h) ==
  /\ pc[h] = "cm_primary"
  /\ \/ /\ Owns(CurKey(h), start[job[h].who])
        /\ Goto(h, "cm_write_primary")
        /\ copy' = [copy EXCEPT ![h] = lock[CurKey(h)]]
        /\ UNCHANGED <<idx, ttl, found, staged, clients, readers>>
     \/ /\ ~Owns(CurKey(h), start[job[h].who])
        /\ Answer(h, FALSE)
  /\ UNCHANGED <<store, clock>>

CommitWritePrimary(h) ==
  /\ pc[h] = "cm_write_primary"
  /\ CommitKey(CurKey(h), start[job[h].who], commitTs[job[h].who], copy[h].op)
  /\ NextKey(h, "cm_secondary")
  /\ UNCHANGED clock

\* A secondary whose lock is gone is skipped without an error.
CommitReadSecondary(h) ==
  /\ pc[h] = "cm_secondary"
  /\ \/ /\ Owns(CurKey(h), start[job[h].who])
        /\ Goto(h, "cm_write_secondary")
        /\ copy' = [copy EXCEPT ![h] = lock[CurKey(h)]]
        /\ UNCHANGED <<idx, ttl, found, staged, clients, readers>>
     \/ /\ ~Owns(CurKey(h), start[job[h].who])
        /\ NextKey(h, "cm_secondary")
  /\ UNCHANGED <<store, clock>>

CommitWriteSecondary(h) ==
  /\ pc[h] = "cm_write_secondary"
  /\ CommitKey(CurKey(h), start[job[h].who], commitTs[job[h].who], copy[h].op)
  /\ NextKey(h, "cm_secondary")
  /\ UNCHANGED clock

\* batch_commit stages every key whose lock it finds, the primary included,
\* and skips the others.
BatchCommitRead(h) ==
  /\ pc[h] = "bc_read"
  /\ staged' = [staged EXCEPT ![h] = @ \cup
                  {m \in [key : {CurKey(h)}, op : {lock[CurKey(h)].op}] :
                     Owns(m.key, start[job[h].who])}]
  /\ \/ /\ LastKey(h)
        /\ Goto(h, "bc_write")
        /\ UNCHANGED idx
     \/ /\ ~LastKey(h)
        /\ Goto(h, "bc_read")
        /\ idx' = [idx EXCEPT ![h] = @ + 1]
  /\ UNCHANGED <<store, clock, clients, readers, copy, ttl, found>>

BatchCommitWrite(h) ==
  /\ pc[h] = "bc_write"
  /\ LET K == {m.key : m \in staged[h]}
         op(k) == (CHOOSE m \in staged[h] : m.key = k).op
         t == job[h].who
     IN  /\ write' = [k \in Keys |->
                        IF k \in K
                        THEN Insert(write[k], Rec(commitTs[t], start[t], op(k)))
                        ELSE write[k]]
         /\ lock' = [k \in Keys |-> IF k \in K THEN NoLock ELSE lock[k]]
         /\ UNCHANGED data
  /\ Answer(h, TRUE)
  /\ UNCHANGED clock

-----------------------------------------------------------------------------
(* rollback, heartbeat *)

RollbackRead(h) ==
  /\ pc[h] = "rb_lock"
  /\ Goto(h, "rb_write")
  /\ copy' = [copy EXCEPT ![h] =
                IF Owns(CurKey(h), start[job[h].who]) THEN lock[CurKey(h)]
                                                      ELSE NoLock]
  /\ UNCHANGED <<store, clock, clients, readers, idx, ttl, found, staged>>

RollbackWrite(h) ==
  /\ pc[h] = "rb_write"
  /\ \/ /\ copy[h] # NoLock
        /\ RollBackKey(CurKey(h), start[job[h].who])
     \/ /\ copy[h] = NoLock
        /\ write' = [write EXCEPT ![CurKey(h)] =
                       Insert(@, Rec(start[job[h].who], start[job[h].who], "Rollback"))]
        /\ UNCHANGED <<lock, data>>
  /\ NextKey(h, "rb_lock")
  /\ UNCHANGED clock

HeartbeatRead(h) ==
  /\ pc[h] = "hb_lock"
  /\ \/ /\ Owns(Primary(job[h].who), start[job[h].who])
        /\ Goto(h, "hb_write")
        /\ copy' = [copy EXCEPT ![h] = lock[Primary(job[h].who)]]
        /\ UNCHANGED <<idx, ttl, found, staged, clients, readers>>
     \/ /\ ~Owns(Primary(job[h].who), start[job[h].who])
        /\ Answer(h, FALSE)
  /\ UNCHANGED <<store, clock>>

HeartbeatWrite(h) ==
  /\ pc[h] = "hb_write"
  /\ lock' = [lock EXCEPT ![Primary(job[h].who)] =
                [copy[h] EXCEPT !.ttl = HeartbeatTtl]]
  /\ Answer(h, TRUE)
  /\ UNCHANGED <<write, data, clock>>

-----------------------------------------------------------------------------
(* Clients.  A client has one call of its protocol outstanding; it may stop *)
(* at any point.  Timestamps come from the node's HLC, one clock per node:  *)
(* the next timestamp is larger than all earlier ones and its physical part *)
(* is the wall clock (HybridLogicalClock shows when that is so).            *)

NextTsStale == Len(issuedAt)  \* mutant
NextTs == Len(issuedAt) + 1
Issue == issuedAt' = Append(issuedAt, now)

Begin(t) ==
  /\ phase[t] = "idle"
  /\ now <= MaxBegin
  /\ Issue
  /\ start' = [start EXCEPT ![t] = NextTs]
  /\ phase' = [phase EXCEPT ![t] = "begun"]
  /\ UNCHANGED <<store, now, commitTs, readers, pc, job, locals, orphan>>

SendPrewrite(t) ==
  /\ \/ phase[t] = "begun"
     \/ phase[t] = "prewrite_failed" /\ "retry" \in ClientPolicy
  /\ phase' = [phase EXCEPT ![t] = "prewriting"]
  /\ UNCHANGED <<store, clock, start, commitTs, readers, locals>>

CallPrewrite(t, h) ==
  /\ t \notin BatchClients
  /\ SendPrewrite(t)
  /\ Accept(h, "prewrite", t, "none", "pw_conflict")

CallBatchPrewrite(t, h) ==
  /\ t \in BatchClients
  /\ SendPrewrite(t)
  /\ Accept(h, "prewrite", t, "none", "pw_conflict")

DrawCommitTs(t) ==
  /\ phase[t] = "prewritten"
  /\ Issue
  /\ commitTs' = [commitTs EXCEPT ![t] = NextTs]
  /\ phase' = [phase EXCEPT ![t] = "ready"]
  /\ UNCHANGED <<store, now, start, readers, pc, job, locals, orphan>>

SendCommit(t) ==
  /\ \/ phase[t] = "ready"
     \/ phase[t] = "commit_unknown" /\ "retry" \in ClientPolicy
  /\ phase' = [phase EXCEPT ![t] = "committing"]
  /\ UNCHANGED <<store, clock, start, commitTs, readers, locals>>

CallCommit(t, h) ==
  /\ t \notin BatchClients
  /\ SendCommit(t)
  /\ Accept(h, "commit", t, "none", "cm_primary")

CallBatchCommit(t, h) ==
  /\ t \in BatchClients
  /\ SendCommit(t)
  /\ Accept(h, "commit", t, "none", "bc_read")

CallRollback(t, h) ==
  /\ \/ /\ "rollback" \in ClientPolicy
        /\ phase[t] \in {"prewrite_failed", "prewritten", "ready", "aborted"}
     \/ /\ "late_rollback" \in ClientPolicy
        /\ phase[t] = "commit_unknown"
  /\ phase' = [phase EXCEPT ![t] = "rollingback"]
  /\ Accept(h, "rollback", t, "none", "rb_lock")
  /\ UNCHANGED <<store, clock, start, commitTs, readers, locals>>

CallHeartbeat(t, h) ==
  /\ "heartbeat" \in ClientPolicy
  /\ phase[t] \in {"prewritten", "ready", "committing", "commit_unknown"}
  /\ \A g \in Workers : ~(job[g].rpc = "heartbeat" /\ job[g].who = t)
  /\ Accept(h, "heartbeat", t, "none", "hb_lock")
  /\ UNCHANGED <<store, clock, clients, readers, locals>>

\* Anyone may ask for the status of a transaction it met a lock of.
CallCheckTxnStatus(t, h) ==
  /\ "status" \in ClientPolicy
  /\ start[t] # 0
  /\ \A g \in Workers : job[g].rpc # "status"
  /\ Accept(h, "status", t, "none", "rs_scan")
  /\ copy' = [copy EXCEPT ![h] = [primary |-> Primary(t), start |-> start[t],
                                  ttl |-> 0, op |-> "Put"]]
  /\ UNCHANGED <<store, clock, clients, readers, idx, ttl, found, staged>>

\* KvService::get: a reader draws its snapshot timestamp with its first get
\* (version 0) and asks for every key at that timestamp until it is answered.
CallGet(r, k, h) ==
  /\ seen[r][k] = Unread
  /\ ~Busy(r)
  /\ Accept(h, "get", r, k, "get_lock")
  /\ \/ /\ readTs[r] = 0
        /\ Issue
        /\ readTs' = [readTs EXCEPT ![r] = NextTs]
     \/ /\ readTs[r] # 0
        /\ UNCHANGED <<issuedAt, readTs>>
  /\ UNCHANGED <<store, now, clients, seen, locals>>

\* What a client knows once it stops waiting, or its connection breaks.
Unanswered(ph) ==
  CASE ph = "prewriting"  -> "prewrite_failed"
    [] ph = "committing"  -> "commit_unknown"
    [] ph = "rollingback" -> "closed"
    [] OTHER              -> ph

\* The client's deadline passes or the answer is lost: the handler runs on.
GiveUp(t, h) ==
  /\ "give_up" \in ClientPolicy
  /\ phase[t] \in {"prewriting", "committing"}
  /\ job[h].who = t /\ job[h].rpc \in {"prewrite", "commit"} /\ h \notin orphan
  /\ orphan' = orphan \cup {h}
  /\ phase' = [phase EXCEPT ![t] = Unanswered(@)]
  /\ UNCHANGED <<store, clock, start, commitTs, readers, pc, job, locals>>

\* The node crashes and restarts on its storage: handlers are cut off
\* between two batches, what was committed to Fjall is kept.
Crash ==
  /\ MayCrash
  /\ \E h \in Workers : pc[h] # "idle"
  /\ pc' = [h \in Workers |-> "idle"]
  /\ job' = [h \in Workers |-> NoJob]
  /\ idx' = [h \in Workers |-> 1]
  /\ copy' = [h \in Workers |-> NoLock]
  /\ ttl' = [h \in Workers |-> 0]
  /\ found' = [h \in Workers |-> 0]
  /\ staged' = [h \in Workers |-> {}]
  /\ orphan' = {}
  /\ phase' = [t \in Txns |-> Unanswered(phase[t])]
  /\ UNCHANGED <<store, clock, start, commitTs, readers>>

Tick ==
  /\ now < MaxTime
  /\ now' = now + 1
  /\ UNCHANGED <<store, issuedAt, clients, readers, pc, job, locals, orphan>>

-----------------------------------------------------------------------------
Init ==
  /\ lock = [k \in Keys |-> NoLock]
  /\ write = [k \in Keys |-> {}]
  /\ data = {}
  /\ now = 0
  /\ issuedAt = <<>>
  /\ phase = [t \in Txns |-> "idle"]
  /\ start = [t \in Txns |-> 0]
  /\ commitTs = [t \in Txns |-> 0]
  /\ readTs = [r \in Readers |-> 0]
  /\ seen = [r \in Readers |-> [k \in Keys |-> Unread]]
  /\ pc = [h \in Workers |-> "idle"]
  /\ job = [h \in Workers |-> NoJob]
  /\ idx = [h \in Workers |-> 1]
  /\ copy = [h \in Workers |-> NoLock]
  /\ ttl = [h \in Workers |-> 0]
  /\ found = [h \in Workers |-> 0]
  /\ staged = [h \in Workers |-> {}]
  /\ orphan = {}

Step(h) ==
  \/ GetLock(h) \/ GetWrite(h) \/ GetData(h)
  \/ ResolveScan(h) \/ ResolvePrimary(h) \/ ResolveExpire(h)
  \/ ResolveApply(h) \/ ResolveLocked(h)
  \/ PrewriteConflict(h) \/ PrewriteLock(h) \/ PrewriteRecheck(h)
  \/ PrewriteWrite(h)
  \/ CommitReadPrimary(h) \/ CommitWritePrimary(h)
  \/ CommitReadSecondary(h) \/ CommitWriteSecondary(h)
  \/ BatchCommitRead(h) \/ BatchCommitWrite(h)
  \/ RollbackRead(h) \/ RollbackWrite(h)
  \/ HeartbeatRead(h) \/ HeartbeatWrite(h)

ClientStep(t) ==
  \/ Begin(t) \/ DrawCommitTs(t)
  \/ \E h \in Workers :
       \/ CallPrewrite(t, h) \/ CallBatchPrewrite(t, h)
       \/ CallCommit(t, h) \/ CallBatchCommit(t, h)
       \/ CallRollback(t, h) \/ CallHeartbeat(t, h)
       \/ CallCheckTxnStatus(t, h) \/ GiveUp(t, h)

ReaderStep(r, k) == \E h \in Workers : CallGet(r, k, h)

Next ==
  \/ \E h \in Workers : Step(h)
  \/ \E t \in Txns : ClientStep(t)
  \/ \E r \in Readers, k \in Keys : ReaderStep(r, k)
  \/ Crash
  \/ Tick

Spec == Init /\ [][Next]_vars

\* Worker threads run the handler they have started, the wall clock goes on,
\* and the runtime's queue serves a reader that keeps asking.  Clients of
\* transactions promise nothing.
Fairness ==
  /\ \A h \in Workers : WF_vars(Step(h))
  /\ \A r \in Readers, k \in Keys : SF_vars(ReaderStep(r, k))
  /\ WF_vars(Tick)

LiveSpec == Spec /\ Fairness

-----------------------------------------------------------------------------
(* Properties *)

StoreOK ==
  /\ lock \in [Keys -> Lock \cup {NoLock}]
  /\ write \in [Keys -> SUBSET WriteRecord]
  /\ data \subseteq Keys \X (Nat \ {0})

ClockOK == now \in Nat /\ issuedAt \in Seq(Nat)

ClientsOK ==
  /\ phase \in [Txns -> Phases]
  /\ start \in [Txns -> Nat]
  /\ commitTs \in [Txns -> Nat]
  /\ readTs \in [Readers -> Nat]
  /\ seen \in [Readers -> [Keys -> Nat \cup {Unread}]]

WorkersOK ==
  /\ pc \in [Workers -> Labels]
  /\ job \in [Workers -> Jobs]
  /\ idx \in [Workers -> Nat \ {0}]
  /\ copy \in [Workers -> Lock \cup {NoLock}]
  /\ ttl \in [Workers -> Nat]
  /\ found \in [Workers -> Nat]
  /\ staged \in [Workers -> SUBSET [key : Keys, op : Ops]]
  /\ orphan \subseteq Workers

\* Every variable holds a value of its kind, whatever the interleaving of
\* the handlers.
TypeOK == StoreOK /\ ClockOK /\ ClientsOK /\ WorkersOK

\* The primary is the commit point: TransactionCoordinator::commit and the
\* resolver's roll-forward never leave a secondary committed whose primary is
\* not, although neither checks the lock it replaces when it writes.  (This is
\* about clients of commit: batch_commit does not look for the primary.)
CommitPoint ==
  \A t \in Txns \ BatchClients : \A k \in KeysOf(t) :
    CommittedOn(t, k) => PrimaryCommitted(t)

\* MvccReader::get never returns a value whose transaction was not committed
\* at or before the reader's snapshot, whatever resolver and writers do
\* between its look at the lock and its look at the versions.
NoDirtyRead ==
  \A r \in Readers, k \in Keys :
    seen[r][k] > 0 =>
      \E t \in Txns :
        /\ start[t] = seen[r][k]
        /\ CommittedOn(t, k)
        /\ commitTs[t] # 0 /\ commitTs[t] <= readTs[r]
        /\ t \notin BatchClients => PrimaryCommitted(t)

\* A commit answered Ok stays committed at its primary: no late rollback,
\* resolver, prewrite or crash undoes it.  It is about the clients of commit
\* alone: batch_commit answers Ok also when it has found no lock and committed
\* nothing.
AckedIsCommitted ==
  \A t \in Txns \ BatchClients : phase[t] = "committed" => PrimaryCommitted(t)

\* A committed version is never removed, moved to another timestamp or turned
\* into a rollback by a later insert into the WRITE partition.
CommittedForever ==
  [][\A k \in Keys : \A r \in write[k] :
       r.op # "Rollback" =>
         \E q \in write'[k] : /\ q.ts = r.ts /\ q.start = r.start
                              /\ q.op # "Rollback"]_vars

\* A Put record always has its value in the DEFAULT partition: get never
\* fails with CorruptedState.
PutHasValue ==
  \A k \in Keys : \A r \in write[k] : r.op = "Put" => <<k, r.start>> \in data

\* First committer wins: of two committed versions of a key, the later
\* transaction started after the earlier one committed, so it has seen it
\* ("write conflict" in prewrite).
NoLostUpdate ==
  \A k \in Keys : \A q, r \in write[k] :
    q.op # "Rollback" /\ r.op # "Rollback" /\ q.ts < r.ts => q.ts < r.start

\* What a reader was answered stays the answer at its snapshot: nothing
\* commits later at or below a timestamp that was already read.
SnapshotValue(k, ts) ==
  LET V == Visible(k, ts)
  IN  IF \E r \in V : IsNewest(r, V) /\ r.op = "Put"
      THEN (CHOOSE r \in V : IsNewest(r, V)).start
      ELSE 0

SnapshotStable ==
  \A r \in Readers, k \in Keys :
    seen[r][k] # Unread => seen[r][k] = SnapshotValue(k, readTs[r])

\* A client is prompt as long as none of the TTLs that its locks are judged by
\* has passed since it began: prewrite's, a heartbeat's, and the one that get
\* puts in the place of the lock's own.
Prompt(t) ==
  /\ start[t] # 0
  /\ \A d \in {LockTtl, HeartbeatTtl, ReadTtl} : now <= issuedAt[start[t]] + d

\* When handlers run one at a time, a prompt client's transaction is all or
\* nothing: it keeps every lock it was told of until its own commit takes them,
\* and a commit or batch_commit that is answered Ok has committed every key,
\* whatever readers, resolvers and other clients did to its locks meanwhile.
PromptCommitsWhole ==
  \A t \in {u \in Txns : Prompt(u)} : \A k \in KeysOf(t) :
    /\ phase[t] \in {"prewritten", "ready"} => Owns(k, start[t])
    /\ phase[t] \in {"committing", "commit_unknown"} =>
         Owns(k, start[t]) \/ CommittedOn(t, k)
    /\ phase[t] = "committed" => CommittedOn(t, k)

\* Prompt or not: commit and batch_commit skip a key without an error when its
\* lock is gone, and that is only so after a rollback that left its record.  A
\* transaction that is committed anywhere, or was answered Ok, has on each of
\* its keys a commit, a rollback record, or the lock the resolver decides by.
SkippedWereRolledBack ==
  \A t \in Txns :
    phase[t] = "committed" \/ (\E k \in KeysOf(t) : CommittedOn(t, k)) =>
      \A k \in KeysOf(t) : CommittedOn(t, k) \/ RolledBackOn(t, k) \/ Owns(k, start[t])

\* "Strict ACID transactional guarantees": once the primary is committed every
\* other key of the transaction is committed, or still locked so that the
\* resolver can roll it forward.
AllOrNothing ==
  \A t \in Txns : PrimaryCommitted(t) =>
    \A k \in KeysOf(t) : CommittedOn(t, k) \/ Owns(k, start[t])

\* check_txn_status takes "lock absent and no commit record" for a rollback.
\* When handlers run one at a time it is right about every transaction whose
\* prewrite was answered Ok: such a transaction always has a lock or a record
\* at its primary, whatever retries, rollbacks and resolvers did since.
AbsentIsNotPrewritten ==
  \A h \in Workers, t \in Txns :
    /\ pc[h] = "rs_primary"
    /\ copy[h].start = start[t] /\ ~Owns(Primary(t), start[t])
    => phase[t] \in {"begun", "prewriting", "prewrite_failed"}

\* A reader that keeps asking is answered, whatever locks dead clients left:
\* the resolver detects their expired TTL and get returns "without blocking".
ReadsAreAnswered ==
  <>(\A r \in Readers, k \in Keys : seen[r][k] # Unread)

-----------------------------------------------------------------------------
(* The abstract specification *)

\* The keys each transaction has committed, and who knows of its commit.
Published == [t \in Txns |-> {k \in Keys : CommittedOn(t, k)}]
Acked == {t \in Txns : phase[t] = "committed"}

AC == INSTANCE AtomicCommit WITH
        Rooted <- Txns \ BatchClients, Root <- Primary, clock <- Len(issuedAt),
        stamp <- commitTs, snapshot <- readTs, answer <- seen,
        published <- Published, acked <- Acked

\* The node implements AtomicCommit: each of its many steps, those of crashes,
\* late rollbacks and resolvers included, is to its clients one step that
\* hands out a timestamp, makes a transaction take effect at its primary or
\* after it, answers a read from what has taken effect, or is not seen at all.
Atomic == AC!Spec
=============================================================================
