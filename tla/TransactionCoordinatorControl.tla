------------------- MODULE TransactionCoordinatorControl -------------------
(***************************************************************************)
(* Types and control, continued: prewrite, commit, rollback, heartbeat and *)
(* the clients, so that every step keeps TypeOK and Control.               *)
(***************************************************************************)
EXTENDS TransactionCoordinatorTypes

\* A handler's loop over its keys stays within the mutations.
LEMMA NextKeyTypes ==
  ASSUME TypeOK, Control, NEW h \in Workers,
         NEW label \in {"pw_conflict", "cm_secondary", "rb_lock"},
         NextKey(h, label),
         label = "pw_conflict" => job[h].rpc = "prewrite",
         label = "cm_secondary" =>
           job[h].rpc = "commit" /\ job[h].who \notin BatchClients,
         label = "rb_lock" => job[h].rpc = "rollback"
  PROVE  ClientsOK' /\ WorkersOK' /\ Control'
<1>1. CASE Answer(h, TRUE)
  BY <1>1, AnswerTypes, Zenon
<1>2. CASE /\ ~LastKey(h) /\ Goto(h, label)
           /\ idx' = [idx EXCEPT ![h] = @ + 1]
           /\ copy' = [copy EXCEPT ![h] = NoLock]
           /\ UNCHANGED <<ttl, found, staged, clients, readers>>
  <2>1. job[h].who \in Txns /\ idx[h] \in 1..Len(Mutations[job[h].who])
    BY JobsByRpc DEF TypeOK, Control, JobOK
  <2>2. idx[h] + 1 \in 1..Len(Mutations[job[h].who])
    BY <1>2, <2>1, MutationsType DEF LastKey
  <2>3. /\ idx' \in [Workers -> Nat \ {0}] /\ idx'[h] = idx[h] + 1
        /\ copy' \in [Workers -> Lock \cup {NoLock}]
        /\ \A g \in Workers \ {h} : idx'[g] = idx[g] /\ copy'[g] = copy[g]
    BY <1>2, <2>2 DEF TypeOK, WorkersOK
  <2>4. JobOK(h)'
    BY <1>2, <2>2, <2>3 DEF Goto, Control, JobOK, ResolveLabels, TypeOK, WorkersOK, NoJob
  <2> QED
    BY <1>2, <2>3, <2>4, MoveTypes DEF TypeOK, WorkersOK, Labels
<1> QED
  BY <1>1, <1>2, Zenon DEF NextKey

\* The batch of a prewrite keeps the types of the store.
LEMMA PrewriteKeysTypes ==
  ASSUME TypeOK, NEW t \in Txns, start[t] # 0, NEW K \in SUBSET KeysOf(t),
         PrewriteKeys(t, K)
  PROVE  StoreOK'
<1>1. start[t] \in Nat \ {0}
  BY DEF TypeOK, ClientsOK
<1>2. ASSUME NEW k \in K
      PROVE  [primary |-> Primary(t), start |-> start[t], ttl |-> LockTtl,
              op |-> OpOn(t, k)] \in Lock
  BY <1>1, MutationsType, ConstantsAssumption DEF Lock
<1>3. lock' \in [Keys -> Lock \cup {NoLock}]
  BY <1>2 DEF PrewriteKeys, TypeOK, StoreOK
<1>4. data' \subseteq Keys \X (Nat \ {0})
  BY <1>1, MutationsType DEF PrewriteKeys, Puts, TypeOK, StoreOK
<1> QED
  BY <1>3, <1>4, Zenon DEF PrewriteKeys, TypeOK, StoreOK

\* prewrite and batch_prewrite keep types and control.
LEMMA PrewriteTypes ==
  ASSUME TypeOK, Control, Begun, NEW h \in Workers,
         \/ PrewriteConflict(h) \/ PrewriteLock(h)
         \/ PrewriteRecheck(h) \/ PrewriteWrite(h)
  PROVE  TypeOK' /\ Control'
<1>r. /\ pc[h] \in {"pw_conflict", "pw_lock", "pw_recheck", "pw_write"}
      /\ job[h].rpc = "prewrite"
  BY Zenon DEF PrewriteConflict, PrewriteLock, PrewriteRecheck, PrewriteWrite, Control,
     JobOK
<1>k. /\ CurKey(h) \in Keys /\ CurKey(h) \in KeysOf(job[h].who)
      /\ job[h].who \in Txns /\ start[job[h].who] # 0
  BY <1>r, CurKeyType, JobsByRpc DEF TypeOK, Begun
<1>s. ASSUME NEW label \in {"pw_lock", "pw_write"}, UNCHANGED <<store, clock>>,
             Goto(h, label), UNCHANGED <<locals, clients, readers>>
      PROVE  TypeOK' /\ Control'
  <2>1. JobOK(h)'
    BY <1>r, <1>s DEF Goto, locals, Control, JobOK, ResolveLabels, TypeOK, WorkersOK
  <2> QED
    BY <1>s, <2>1, StayTypes, KeptStore DEF Labels, TypeOK
<1>a. ASSUME Answer(h, FALSE), UNCHANGED <<store, clock>>
      PROVE  TypeOK' /\ Control'
  BY <1>a, AnswerTypes, KeptStore, Zenon DEF TypeOK
<1>1. CASE PrewriteConflict(h)
  BY <1>1, <1>s, <1>a, Zenon DEF PrewriteConflict
<1>2. CASE PrewriteLock(h)
  <2>1. CASE /\ LockedByOther(CurKey(h), start[job[h].who]) /\ Goto(h, "rs_scan")
             /\ copy' = [copy EXCEPT ![h] = lock[CurKey(h)]]
             /\ UNCHANGED <<idx, ttl, found, staged, clients, readers>>
    <3>1. lock[CurKey(h)] \in Lock
      BY <1>k, <2>1 DEF LockedByOther, TypeOK, StoreOK
    <3>2. copy' \in [Workers -> Lock \cup {NoLock}] /\ copy'[h] \in Lock
      BY <2>1, <3>1 DEF TypeOK, WorkersOK
    <3>3. JobOK(h)'
      BY <1>r, <2>1, <3>2, Zenon DEF Goto, Control, JobOK, ResolveLabels, TypeOK,
         WorkersOK
    <3>4. ClientsOK' /\ WorkersOK' /\ Control'
      BY <2>1, <3>2, <3>3, MoveTypes, Zenon DEF TypeOK, WorkersOK, Labels
    <3> QED
      BY <1>2, <3>4, KeptStore DEF PrewriteLock, TypeOK
  <2> QED
    BY <1>2, <1>s, <2>1 DEF PrewriteLock
<1>3. CASE PrewriteRecheck(h)
  BY <1>3, <1>s, <1>a, Zenon DEF PrewriteRecheck
<1>4. CASE PrewriteWrite(h)
  <2>1. ClientsOK' /\ WorkersOK' /\ Control'
    BY <1>4, <1>r, NextKeyTypes DEF PrewriteWrite
  <2>2. ClockOK'
    BY <1>4 DEF PrewriteWrite, TypeOK, ClockOK, clock
  <2>3. CASE PrewriteKeys(job[h].who, {CurKey(h)})
    <3>1. {CurKey(h)} \in SUBSET KeysOf(job[h].who)
      BY <1>k
    <3> QED
      BY <1>k, <2>1, <2>2, <2>3, <3>1, PrewriteKeysTypes DEF TypeOK
  <2>4. CASE PrewriteKeys(job[h].who, KeysOf(job[h].who))
    BY <1>k, <2>1, <2>2, <2>4, PrewriteKeysTypes DEF TypeOK
  <2>5. CASE UNCHANGED store
    BY <2>1, <2>2, <2>5 DEF TypeOK, StoreOK, store
  <2> QED
    BY <1>4, <2>3, <2>4, <2>5 DEF PrewriteWrite
<1> QED
  BY <1>1, <1>2, <1>3, <1>4

\* commit keeps types and control.
LEMMA CommitTypes ==
  ASSUME TypeOK, Control, Begun, NEW h \in Workers,
         \/ CommitReadPrimary(h) \/ CommitWritePrimary(h)
         \/ CommitReadSecondary(h) \/ CommitWriteSecondary(h)
  PROVE  TypeOK' /\ Control'
<1>r. /\ pc[h] \in {"cm_primary", "cm_write_primary", "cm_secondary", "cm_write_secondary"}
      /\ job[h].rpc = "commit" /\ job[h].who \notin BatchClients
  BY Zenon DEF CommitReadPrimary, CommitWritePrimary, CommitReadSecondary,
         CommitWriteSecondary, Control, JobOK
<1>k. /\ CurKey(h) \in Keys
      /\ job[h].who \in Txns
      /\ start[job[h].who] \in Nat \ {0} /\ commitTs[job[h].who] \in Nat \ {0}
      /\ copy[h].op \in Ops
  BY <1>r, CurKeyType, JobsByRpc DEF TypeOK, ClientsOK, WorkersOK, Begun, Lock, NoLock,
     Ops
<1>m. ASSUME NEW label \in {"cm_write_primary", "cm_write_secondary"},
             label = "cm_write_primary" => pc[h] = "cm_primary",
             UNCHANGED <<store, clock>>, Goto(h, label),
             copy' = [copy EXCEPT ![h] = lock[CurKey(h)]],
             UNCHANGED <<idx, ttl, found, staged, clients, readers>>
      PROVE  TypeOK' /\ Control'
  <2>1. copy' \in [Workers -> Lock \cup {NoLock}]
    BY <1>k, <1>m, Zenon DEF TypeOK, StoreOK, WorkersOK
  <2>2. JobOK(h)'
    BY <1>r, <1>m DEF Goto, Control, JobOK, ResolveLabels, TypeOK, WorkersOK
  <2>3. ClientsOK' /\ WorkersOK' /\ Control'
    BY <1>m, <2>1, <2>2, MoveTypes, Zenon DEF TypeOK, WorkersOK, Labels
  <2> QED
    BY <1>m, <2>3, KeptStore DEF TypeOK
<1>1. CASE CommitReadPrimary(h)
  <2>1. CASE Answer(h, FALSE)
    BY <1>1, <2>1, AnswerTypes, KeptStore, Zenon DEF CommitReadPrimary, TypeOK
  <2> QED
    BY <1>1, <1>m, <2>1, Zenon DEF CommitReadPrimary
<1>2. CASE CommitWritePrimary(h) \/ CommitWriteSecondary(h)
  <2>1. ClockOK'
    BY <1>2 DEF CommitWritePrimary, CommitWriteSecondary, TypeOK, ClockOK, clock
  <2>2. StoreOK'
    BY <1>2, <1>k, CommitKeyTypes DEF CommitWritePrimary, CommitWriteSecondary
  <2>3. ClientsOK' /\ WorkersOK' /\ Control'
    BY <1>2, <1>r, NextKeyTypes DEF CommitWritePrimary, CommitWriteSecondary
  <2> QED
    BY <2>1, <2>2, <2>3 DEF TypeOK
<1>3. CASE CommitReadSecondary(h)
  <2>1. CASE NextKey(h, "cm_secondary")
    <3>1. ClientsOK' /\ WorkersOK' /\ Control'
      BY <1>r, <2>1, NextKeyTypes
    <3> QED
      BY <1>3, <3>1, KeptStore DEF CommitReadSecondary, TypeOK
  <2> QED
    BY <1>3, <1>m, <2>1 DEF CommitReadSecondary
<1> QED
  BY <1>1, <1>2, <1>3

\* batch_commit keeps types and control.
LEMMA BatchCommitTypes ==
  ASSUME TypeOK, Control, Begun, NEW h \in Workers,
         BatchCommitRead(h) \/ BatchCommitWrite(h)
  PROVE  TypeOK' /\ Control'
<1>r. pc[h] \in {"bc_read", "bc_write"} /\ job[h].rpc = "commit"
  BY Zenon DEF BatchCommitRead, BatchCommitWrite, Control, JobOK
<1>k. /\ CurKey(h) \in Keys
      /\ job[h].who \in Txns /\ idx[h] \in 1..Len(Mutations[job[h].who])
      /\ start[job[h].who] \in Nat \ {0} /\ commitTs[job[h].who] \in Nat \ {0}
  BY <1>r, CurKeyType, JobsByRpc DEF TypeOK, ClientsOK, Begun, Control, JobOK
<1>1. CASE BatchCommitRead(h)
  <2>0. lock[CurKey(h)] \in Lock \cup {NoLock}
    BY <1>k, Zenon DEF TypeOK, StoreOK
  <2>1. lock[CurKey(h)].op \in Ops
    BY <2>0 DEF Lock, NoLock, Ops
  <2>2. staged' \in [Workers -> SUBSET [key : Keys, op : Ops]]
    BY <1>1, <1>k, <2>1, Zenon DEF BatchCommitRead, TypeOK, WorkersOK
  <2>3. PICK label \in {"bc_read", "bc_write"} :
          /\ Goto(h, label)
          /\ \/ UNCHANGED idx
             \/ ~LastKey(h) /\ idx' = [idx EXCEPT ![h] = @ + 1]
    BY <1>1, Zenon DEF BatchCommitRead
  <2>4. /\ idx' \in [Workers -> Nat \ {0}]
        /\ \A g \in Workers \ {h} : idx'[g] = idx[g]
        /\ idx'[h] \in 1..Len(Mutations[job[h].who])
    BY <1>k, <2>3, MutationsType DEF TypeOK, WorkersOK, LastKey
  <2>5. JobOK(h)'
    BY <1>1, <1>r, <2>3, <2>4, Zenon DEF BatchCommitRead, Goto, Control, JobOK,
       ResolveLabels, TypeOK, WorkersOK, NoJob
  <2>6. ClientsOK' /\ WorkersOK' /\ Control'
    <3>1. UNCHANGED <<clients, readers, copy, ttl, found>>
      BY <1>1, Zenon DEF BatchCommitRead
    <3> QED
      BY <2>2, <2>3, <2>4, <2>5, <3>1, MoveTypes, Zenon DEF TypeOK, WorkersOK, Labels
  <2> QED
    BY <1>1, <2>6, KeptStore, Zenon DEF BatchCommitRead, TypeOK
<1>2. CASE BatchCommitWrite(h)
  <2> DEFINE t == job[h].who
             K == {m.key : m \in staged[h]}
             op(k) == (CHOOSE m \in staged[h] : m.key = k).op
  <2>1. ClockOK' /\ data' = data
    BY <1>2 DEF BatchCommitWrite, TypeOK, ClockOK, clock
  <2>2. lock' \in [Keys -> Lock \cup {NoLock}]
    BY <1>2 DEF BatchCommitWrite, TypeOK, StoreOK
  <2>3. ASSUME NEW k \in K  PROVE op(k) \in Ops
    <3>1. \E m \in staged[h] : m.key = k
      OBVIOUS
    <3>2. (CHOOSE m \in staged[h] : m.key = k) \in staged[h]
      BY <3>1
    <3> QED
      BY <3>2 DEF TypeOK, WorkersOK
  <2>4. ASSUME NEW k \in Keys, k \in K
        PROVE  Insert(write[k], Rec(commitTs[t], start[t], op(k))) \in SUBSET WriteRecord
    <3>1. Rec(commitTs[t], start[t], op(k)) \in WriteRecord
      BY <1>k, <2>3, <2>4, Zenon DEF Rec, WriteRecord
    <3> QED
      BY <3>1, Zenon DEF Insert, TypeOK, StoreOK
  <2>5. write' \in [Keys -> SUBSET WriteRecord]
    BY <1>2, <2>4 DEF BatchCommitWrite, TypeOK, StoreOK
  <2>6. ClientsOK' /\ WorkersOK' /\ Control'
    BY <1>2, AnswerTypes, Zenon DEF BatchCommitWrite
  <2> QED
    BY <2>1, <2>2, <2>5, <2>6 DEF TypeOK, StoreOK
<1> QED
  BY <1>1, <1>2

\* rollback keeps types and control.
LEMMA RollbackTypes ==
  ASSUME TypeOK, Control, Begun, NEW h \in Workers,
         RollbackRead(h) \/ RollbackWrite(h)
  PROVE  TypeOK' /\ Control'
<1>r. pc[h] \in {"rb_lock", "rb_write"} /\ job[h].rpc = "rollback"
  BY Zenon DEF RollbackRead, RollbackWrite, Control, JobOK
<1>k. /\ CurKey(h) \in Keys
      /\ job[h].who \in Txns
      /\ start[job[h].who] \in Nat \ {0}
  BY <1>r, CurKeyType, JobsByRpc DEF TypeOK, ClientsOK, Begun
<1>1. CASE RollbackRead(h)
  <2>1. copy' \in [Workers -> Lock \cup {NoLock}]
    BY <1>1, <1>k, Zenon DEF RollbackRead, TypeOK, StoreOK, WorkersOK
  <2>2. JobOK(h)'
    BY <1>1, <1>r, Zenon DEF RollbackRead, Goto, Control, JobOK, ResolveLabels, TypeOK,
       WorkersOK
  <2>3. \A g \in Workers \ {h} : idx'[g] = idx[g] /\ copy'[g] = copy[g]
    BY <1>1, Zenon DEF RollbackRead, TypeOK, WorkersOK
  <2>4. ClientsOK' /\ WorkersOK' /\ Control'
    BY <1>1, <2>1, <2>2, <2>3, MoveTypes, Zenon DEF RollbackRead, TypeOK, WorkersOK,
       Labels
  <2> QED
    BY <1>1, <2>4, KeptStore DEF RollbackRead, TypeOK
<1>2. CASE RollbackWrite(h)
  <2> DEFINE s == start[job[h].who]
  <2>1. ClockOK'
    BY <1>2 DEF RollbackWrite, TypeOK, ClockOK, clock
  <2>2. ClientsOK' /\ WorkersOK' /\ Control'
    BY <1>2, <1>r, NextKeyTypes DEF RollbackWrite
  <2>3. CASE RollBackKey(CurKey(h), s)
    BY <1>k, <2>1, <2>2, <2>3, RollBackTypes DEF TypeOK
  <2>4. CASE /\ write' = [write EXCEPT ![CurKey(h)] = Insert(@, Rec(s, s, "Rollback"))]
             /\ UNCHANGED <<lock, data>>
    <3>1. Rec(s, s, "Rollback") \in WriteRecord
      BY <1>k DEF Rec, WriteRecord
    <3>2. Insert(write[CurKey(h)], Rec(s, s, "Rollback")) \in SUBSET WriteRecord
      BY <1>k, <3>1 DEF Insert, TypeOK, StoreOK
    <3>3. StoreOK'
      BY <2>4, <3>2, Zenon DEF TypeOK, StoreOK
    <3> QED
      BY <2>1, <2>2, <3>3 DEF TypeOK
  <2> QED
    BY <1>2, <2>3, <2>4, Zenon DEF RollbackWrite
<1> QED
  BY <1>1, <1>2

\* heartbeat keeps types and control.
LEMMA HeartbeatTypes ==
  ASSUME TypeOK, Control, Begun, NEW h \in Workers,
         HeartbeatRead(h) \/ HeartbeatWrite(h)
  PROVE  TypeOK' /\ Control'
<1>r. pc[h] \in {"hb_lock", "hb_write"} /\ job[h].rpc = "heartbeat"
  BY Zenon DEF HeartbeatRead, HeartbeatWrite, Control, JobOK
<1>k. /\ job[h].who \in Txns /\ Primary(job[h].who) \in Keys
      /\ start[job[h].who] \in Nat \ {0}
  BY <1>r, JobsByRpc, MutationsType DEF TypeOK, ClientsOK, Begun
<1>1. CASE HeartbeatRead(h)
  <2>1. CASE /\ Owns(Primary(job[h].who), start[job[h].who]) /\ Goto(h, "hb_write")
             /\ copy' = [copy EXCEPT ![h] = lock[Primary(job[h].who)]]
             /\ UNCHANGED <<idx, ttl, found, staged, clients, readers>>
    <3>1. lock[Primary(job[h].who)] \in Lock
      BY <1>k, <2>1 DEF Owns, TypeOK, StoreOK, NoLock
    <3>2. copy' \in [Workers -> Lock \cup {NoLock}] /\ copy'[h] \in Lock
      BY <2>1, <3>1, Zenon DEF TypeOK, WorkersOK
    <3>3. JobOK(h)'
      BY <1>r, <2>1, <3>2, Zenon DEF Goto, Control, JobOK, ResolveLabels, TypeOK,
         WorkersOK
    <3>4. ClientsOK' /\ WorkersOK' /\ Control'
      BY <2>1, <3>2, <3>3, MoveTypes, Zenon DEF TypeOK, WorkersOK, Labels
    <3> QED
      BY <1>1, <3>4, KeptStore DEF HeartbeatRead, TypeOK
  <2>2. CASE Answer(h, FALSE)
    BY <1>1, <2>2, AnswerTypes, KeptStore, Zenon DEF HeartbeatRead, TypeOK
  <2> QED
    BY <1>1, <2>1, <2>2, Zenon DEF HeartbeatRead
<1>2. CASE HeartbeatWrite(h)
  <2>1. copy[h] \in Lock
    BY <1>2 DEF HeartbeatWrite, Control, JobOK
  <2>2. [copy[h] EXCEPT !.ttl = HeartbeatTtl] \in Lock
    BY <2>1, ConstantsAssumption DEF Lock
  <2>3. StoreOK'
    BY <1>2, <2>2, Zenon DEF HeartbeatWrite, TypeOK, StoreOK
  <2>4. ClockOK'
    BY <1>2 DEF HeartbeatWrite, TypeOK, ClockOK, clock
  <2>5. ClientsOK' /\ WorkersOK' /\ Control'
    BY <1>2, AnswerTypes, Zenon DEF HeartbeatWrite
  <2> QED
    BY <2>3, <2>4, <2>5 DEF TypeOK
<1> QED
  BY <1>1, <1>2

\* Every step of a handler keeps types and control.
LEMMA StepTypes ==
  ASSUME TypeOK, Control, Begun, NEW h \in Workers, Step(h)
  PROVE  TypeOK' /\ Control'
BY GetTypes, ResolveTypes, PrewriteTypes, CommitTypes, BatchCommitTypes,
   RollbackTypes, HeartbeatTypes DEF Step

\* A worker that takes up a request.
LEMMA AcceptTypes ==
  ASSUME WorkersOK, Control, NEW h \in Workers, NEW rpc, NEW c, NEW k,
         NEW label \in Labels \ {"idle"},
         Accept(h, rpc, c, k, label),
         [rpc |-> rpc, who |-> c, key |-> k] \in Jobs \ {NoJob},
         UNCHANGED <<idx, ttl, found, staged>>,
         copy' \in [Workers -> Lock \cup {NoLock}],
         \A g \in Workers \ {h} : copy'[g] = copy[g],
         JobOK(h)'
  PROVE  WorkersOK' /\ Control'
<1>1. WorkersOK'
  BY Zenon DEF WorkersOK, Accept
<1>2. ASSUME NEW g \in Workers \ {h}  PROVE JobOK(g)'
  <2>1. pc'[g] = pc[g] /\ job'[g] = job[g] /\ idx'[g] = idx[g] /\ copy'[g] = copy[g]
    BY DEF Accept, WorkersOK
  <2> QED
    BY <2>1, Zenon DEF Control, JobOK
<1> QED
  BY <1>1, <1>2 DEF Control

\* A request of a transaction that is accepted keeps types and control.
LEMMA TxnCallTypes ==
  ASSUME WorkersOK, Control, NEW h \in Workers, NEW t \in Txns,
         NEW rpc, NEW label,
         \/ rpc = "prewrite" /\ label = "pw_conflict"
         \/ rpc = "commit" /\ label = "cm_primary" /\ t \notin BatchClients
         \/ rpc = "commit" /\ label = "bc_read" /\ t \in BatchClients
         \/ rpc = "rollback" /\ label = "rb_lock"
         \/ rpc = "heartbeat" /\ label = "hb_lock",
         Accept(h, rpc, t, "none", label), UNCHANGED locals
  PROVE  WorkersOK' /\ Control'
<1> DEFINE j == [rpc |-> rpc, who |-> t, key |-> "none"]
<1>1. j \in Jobs \ {NoJob} /\ label \in Labels \ {"idle"}
  BY DEF Jobs, NoJob, Labels
<1>2. job'[h] = j /\ pc'[h] = label /\ idx'[h] = 1 /\ idx' = idx
  BY DEF Accept, WorkersOK, Control, JobOK, locals
<1>3. 1 \in 1..Len(Mutations[t])
  BY MutationsType
<1>4. JobOK(h)'
  BY <1>1, <1>2, <1>3 DEF JobOK, ResolveLabels
<1> QED
  BY <1>1, <1>4, AcceptTypes DEF locals, WorkersOK

\* Every step of the client of a transaction keeps types and control.
LEMMA ClientTypes ==
  ASSUME TypeOK, Control, NEW t \in Txns, ClientStep(t)
  PROVE  TypeOK' /\ Control'
<1>n. NextTs \in Nat /\ now \in Nat
  BY DEF NextTs, TypeOK, ClockOK
<1>i. Issue /\ now' = now => ClockOK'
  BY <1>n DEF Issue, TypeOK, ClockOK
<1>1. CASE Begin(t)
  <2>1. ClientsOK'
    BY <1>1, <1>n DEF Begin, TypeOK, ClientsOK, Phases, readers
  <2>2. WorkersOK' /\ Control'
    BY <1>1 DEF Begin, TypeOK, WorkersOK, Control, JobOK, locals
  <2>3. StoreOK'
    BY <1>1 DEF Begin, TypeOK, StoreOK, store
  <2> QED
    BY <1>1, <1>i, <2>1, <2>2, <2>3 DEF Begin, TypeOK
<1>2. CASE DrawCommitTs(t)
  <2>1. ClientsOK'
    BY <1>2, <1>n DEF DrawCommitTs, TypeOK, ClientsOK, Phases, readers
  <2>2. WorkersOK' /\ Control'
    BY <1>2 DEF DrawCommitTs, TypeOK, WorkersOK, Control, JobOK, locals
  <2>3. StoreOK'
    BY <1>2 DEF DrawCommitTs, TypeOK, StoreOK, store
  <2> QED
    BY <1>2, <1>i, <2>1, <2>2, <2>3 DEF DrawCommitTs, TypeOK
<1>3. ASSUME NEW h \in Workers,
             \/ CallPrewrite(t, h) \/ CallBatchPrewrite(t, h)
             \/ CallCommit(t, h) \/ CallBatchCommit(t, h)
             \/ CallRollback(t, h) \/ CallHeartbeat(t, h)
      PROVE  TypeOK' /\ Control'
  <2>1. UNCHANGED <<store, clock>>
    BY <1>3 DEF CallPrewrite, CallBatchPrewrite, CallCommit, CallBatchCommit,
                CallRollback, CallHeartbeat, SendPrewrite, SendCommit
  <2>2. ClientsOK'
    BY <1>3 DEF CallPrewrite, CallBatchPrewrite, CallCommit, CallBatchCommit,
                CallRollback, CallHeartbeat, SendPrewrite, SendCommit,
                TypeOK, ClientsOK, Phases, clients, readers
  <2>3. WorkersOK' /\ Control'
    BY <1>3, TxnCallTypes, Zenon
       DEF CallPrewrite, CallBatchPrewrite, CallCommit, CallBatchCommit,
           CallRollback, CallHeartbeat, SendPrewrite, SendCommit, TypeOK
  <2> QED
    BY <2>1, <2>2, <2>3, KeptStore DEF TypeOK
<1>4. ASSUME NEW h \in Workers, CallCheckTxnStatus(t, h)
      PROVE  TypeOK' /\ Control'
  <2> DEFINE l == [primary |-> Primary(t), start |-> start[t], ttl |-> 0, op |-> "Put"]
             j == [rpc |-> "status", who |-> t, key |-> "none"]
  <2>1. l \in Lock
    BY <1>4, MutationsType DEF CallCheckTxnStatus, Lock, Ops, TypeOK, ClientsOK
  <2>2. j \in Jobs \ {NoJob}
    BY DEF Jobs, NoJob
  <2>3. /\ job'[h] = j /\ pc'[h] = "rs_scan" /\ idx'[h] = 1 /\ copy'[h] = l
        /\ copy' \in [Workers -> Lock \cup {NoLock}]
        /\ \A g \in Workers \ {h} : copy'[g] = copy[g]
    BY <1>4, <2>1 DEF CallCheckTxnStatus, Accept, TypeOK, WorkersOK, Control, JobOK
  <2>4. 1 \in 1..Len(Mutations[t])
    BY MutationsType
  <2>5. JobOK(h)'
    <3>1. job'[h].rpc = "status" /\ job'[h].who = t /\ job'[h] # NoJob
      BY <2>2, <2>3
    <3>2. copy'[h] \in Lock /\ pc'[h] = "rs_scan" /\ idx'[h] = 1
      BY <2>1, <2>3
    <3> HIDE DEF l, j
    <3> QED
      BY <2>4, <3>1, <3>2 DEF JobOK, ResolveLabels
  <2>6. WorkersOK' /\ Control'
    BY <1>4, <2>2, <2>3, <2>5, AcceptTypes, Zenon DEF CallCheckTxnStatus, TypeOK, Labels
  <2>7. ClientsOK'
    BY <1>4, Zenon DEF CallCheckTxnStatus, TypeOK, ClientsOK, clients, readers
  <2> QED
    BY <1>4, <2>6, <2>7, KeptStore, Zenon DEF CallCheckTxnStatus, TypeOK
<1>5. ASSUME NEW h \in Workers, GiveUp(t, h)
      PROVE  TypeOK' /\ Control'
  <2>1. ClientsOK'
    BY <1>5 DEF GiveUp, Unanswered, TypeOK, ClientsOK, Phases, readers
  <2>2. WorkersOK' /\ Control'
    BY <1>5, Zenon DEF GiveUp, TypeOK, WorkersOK, Control, JobOK, locals
  <2> QED
    BY <1>5, <2>1, <2>2, KeptStore, Zenon DEF GiveUp, TypeOK
<1> QED
  BY <1>1, <1>2, <1>3, <1>4, <1>5 DEF ClientStep

\* A get that is accepted keeps types and control.
LEMMA ReaderTypes ==
  ASSUME TypeOK, Control, NEW r \in Readers, NEW k \in Keys, ReaderStep(r, k)
  PROVE  TypeOK' /\ Control'
<1>1. PICK h \in Workers : CallGet(r, k, h)
  BY DEF ReaderStep
<1> DEFINE j == [rpc |-> "get", who |-> r, key |-> k]
<1>2. j \in Jobs \ {NoJob}
  BY DEF Jobs, NoJob
<1>3. job'[h] = j /\ pc'[h] = "get_lock" /\ idx'[h] = 1
  BY <1>1 DEF CallGet, Accept, TypeOK, WorkersOK, Control, JobOK, locals
<1>4. JobOK(h)'
  BY <1>2, <1>3 DEF JobOK, ResolveLabels
<1>5. WorkersOK' /\ Control'
  BY <1>1, <1>2, <1>4, AcceptTypes DEF CallGet, TypeOK, WorkersOK, Labels, locals
<1>6. NextTs \in Nat
  BY DEF NextTs, TypeOK, ClockOK
<1>7. ClientsOK' /\ ClockOK'
  <2>1. /\ readTs' = [readTs EXCEPT ![r] = NextTs] /\ Issue
        \/ UNCHANGED <<readTs, issuedAt>>
    BY <1>1 DEF CallGet
  <2>2. readTs' \in [Readers -> Nat]
    BY <1>6, <2>1 DEF TypeOK, ClientsOK
  <2>3. ClockOK'
    BY <1>1, <2>1 DEF CallGet, Issue, TypeOK, ClockOK
  <2> QED
    BY <1>1, <2>2, <2>3 DEF CallGet, TypeOK, ClientsOK, clients
<1>8. StoreOK'
  BY <1>1, Zenon DEF CallGet, TypeOK, StoreOK, store
<1> QED
  BY <1>5, <1>7, <1>8 DEF TypeOK

\* A crash leaves every worker idle.
LEMMA CrashTypes ==
  ASSUME TypeOK, Control, Crash
  PROVE  TypeOK' /\ Control'
<1>1. ClientsOK'
  BY DEF Crash, Unanswered, TypeOK, ClientsOK, Phases, readers
<1>2. WorkersOK'
  BY DEF Crash, TypeOK, WorkersOK, Labels, Jobs
<1>3. Control'
  BY Zenon DEF Crash, Control, JobOK, NoJob, ResolveLabels
<1> QED
  BY <1>1, <1>2, <1>3, KeptStore DEF Crash, TypeOK

\* The wall clock touches no other variable.
LEMMA TickTypes ==
  ASSUME TypeOK, Control, Tick
  PROVE  TypeOK' /\ Control'
BY DEF Tick, TypeOK, StoreOK, ClockOK, ClientsOK, WorkersOK, Control, JobOK,
       store, clients, readers, locals

\* Types and control are inductive, given that requests are of begun transactions.
LEMMA NextTypes ==
  ASSUME TypeOK, Control, Begun, [Next]_vars
  PROVE  TypeOK' /\ Control'
<1>1. CASE UNCHANGED vars
  BY <1>1, Zenon DEF vars, TypeOK, StoreOK, ClockOK, ClientsOK, WorkersOK, Control,
              JobOK, store, clock, clients, readers, locals
<1> QED
  BY <1>1, StepTypes, ClientTypes, ReaderTypes, CrashTypes, TickTypes DEF Next

=============================================================================
