-------------------- MODULE TransactionCoordinatorStore --------------------
(***************************************************************************)
(* The second part of the inductive invariant: clients draw each timestamp *)
(* once, every record and every lock belongs to a transaction that drew    *)
(* its timestamps, and an insert never destroys a committed version.       *)
(***************************************************************************)
EXTENDS TransactionCoordinatorControl

-----------------------------------------------------------------------------
(* Clients *)

\* What a step of a handler can do to clients: nothing, answer one of them,
\* or answer a reader.
LEMMA StepShape ==
  ASSUME NEW h \in Workers, Step(h)
  PROVE  /\ UNCHANGED clock
         /\ \/ UNCHANGED <<job, orphan, clients, readers>>
            \/ \E ok \in BOOLEAN : Answer(h, ok)
            \/ \E v : AnswerGet(h, v)
<1>1. CASE GetLock(h) \/ GetWrite(h) \/ GetData(h)
  BY <1>1, Zenon DEF GetLock, GetWrite, GetData, Goto
<1>2. CASE ResolveScan(h) \/ ResolvePrimary(h) \/ ResolveExpire(h)
  BY <1>2, Zenon DEF ResolveScan, ResolvePrimary, ResolveExpire, StatusIs, Goto
<1>3. CASE ResolveApply(h) \/ ResolveLocked(h)
  BY <1>3, Zenon DEF ResolveApply, ResolveLocked, Resolved, Goto
<1>4. CASE PrewriteConflict(h) \/ PrewriteLock(h) \/ PrewriteRecheck(h) \/ PrewriteWrite(h)
  BY <1>4, Zenon DEF PrewriteConflict, PrewriteLock, PrewriteRecheck, PrewriteWrite,
     NextKey, Goto
<1>5. CASE \/ CommitReadPrimary(h) \/ CommitWritePrimary(h)
           \/ CommitReadSecondary(h) \/ CommitWriteSecondary(h)
  BY <1>5, Zenon DEF CommitReadPrimary, CommitWritePrimary, CommitReadSecondary,
              CommitWriteSecondary, NextKey, Goto
<1>6. CASE BatchCommitRead(h) \/ BatchCommitWrite(h)
  BY <1>6, Zenon DEF BatchCommitRead, BatchCommitWrite, Goto
<1>7. CASE RollbackRead(h) \/ RollbackWrite(h) \/ HeartbeatRead(h) \/ HeartbeatWrite(h)
  BY <1>7, Zenon DEF RollbackRead, RollbackWrite, HeartbeatRead, HeartbeatWrite, NextKey,
     Goto
<1> QED
  BY <1>1, <1>2, <1>3, <1>4, <1>5, <1>6, <1>7 DEF Step

Clients == Begun /\ Protocol /\ Timestamps

\* No client has drawn a timestamp initially.
LEMMA InitClients == Init => Clients
BY DEF Init, Clients, Begun, Protocol, Timestamps, NoJob, ClientRpcs

\* Handlers move a client only by answering its one outstanding call.
LEMMA StepClients ==
  ASSUME TypeOK, Clients, NEW h \in Workers, Step(h)
  PROVE  Clients'
<1>1. UNCHANGED clock
  BY StepShape
<1>2. CASE UNCHANGED <<job, orphan, clients>>
  BY <1>1, <1>2, Zenon DEF Clients, Begun, Protocol, Timestamps, Waiting, clock, clients
<1>3. ASSUME UNCHANGED <<start, commitTs>>
      PROVE  Timestamps'
  BY <1>1, <1>3 DEF Clients, Timestamps, clock
<1>4. ASSUME Release(h), UNCHANGED <<start, commitTs>>
      PROVE  Begun'
  <2>1. \A g \in Workers : job'[g] = IF g = h THEN NoJob ELSE job[g]
    BY <1>4 DEF Release, TypeOK, WorkersOK
  <2> QED
    BY <1>4, <2>1 DEF Clients, Begun, NoJob
<1>5. CASE \E v : AnswerGet(h, v)
  <2>1. Release(h) /\ UNCHANGED clients
    BY <1>5 DEF AnswerGet
  <2>2. /\ \A g \in Workers : job'[g] = IF g = h THEN NoJob ELSE job[g]
        /\ \A g \in Workers \ {h} : g \in orphan' <=> g \in orphan
    BY <2>1 DEF Release, TypeOK, WorkersOK
  <2>3. Protocol'
    BY <2>1, <2>2 DEF Clients, Protocol, Waiting, NoJob, ClientRpcs, clients
  <2> QED
    BY <1>3, <1>4, <2>1, <2>3 DEF Clients, clients
<1>6. ASSUME NEW ok \in BOOLEAN, Answer(h, ok)
      PROVE  Clients'
  <2>1. Release(h) /\ UNCHANGED <<start, commitTs>>
    BY <1>6 DEF Answer
  <2>2. /\ \A g \in Workers : job'[g] = IF g = h THEN NoJob ELSE job[g]
        /\ \A g \in Workers \ {h} : g \in orphan' <=> g \in orphan
    BY <2>1 DEF Release, TypeOK, WorkersOK
  <2>3. CASE phase' = phase
    <3>1. Protocol'
      BY <2>1, <2>2, <2>3 DEF Clients, Protocol, Waiting, NoJob, ClientRpcs
    <3> QED
      BY <1>3, <1>4, <2>1, <3>1 DEF Clients
  <2>4. CASE /\ h \notin orphan /\ job[h].rpc \in ClientRpcs
             /\ phase' = [phase EXCEPT ![job[h].who] = AfterAnswer(job[h].rpc, ok)]
    <3> DEFINE t == job[h].who
    <3>1. /\ t \in Txns /\ phase[t] = Waiting(job[h].rpc)
          /\ start[t] # 0
          /\ job[h].rpc = "commit" => commitTs[t] # 0
      BY <2>4, JobsByRpc DEF TypeOK, Clients, Protocol, Begun, ClientRpcs
    <3>2. \A u \in Txns : phase'[u] = IF u = t THEN AfterAnswer(job[h].rpc, ok) ELSE phase[u]
      BY <2>4, <3>1 DEF TypeOK, ClientsOK
    <3>3. /\ AfterAnswer(job[h].rpc, ok) # "idle"
          /\ job[h].rpc = "prewrite" =>
               AfterAnswer(job[h].rpc, ok) \in {"prewritten", "prewrite_failed"}
          /\ job[h].rpc = "commit" =>
               AfterAnswer(job[h].rpc, ok) \in {"committed", "aborted"}
          /\ job[h].rpc = "rollback" => AfterAnswer(job[h].rpc, ok) = "closed"
      BY <2>4 DEF AfterAnswer, ClientRpcs
    <3>4. ASSUME NEW u \in Txns
          PROVE  /\ phase'[u] = "idle" <=> start[u] = 0
                 /\ phase'[u] \in {"idle", "begun", "prewriting", "prewrite_failed",
                                  "prewritten"} => commitTs[u] = 0
                 /\ phase'[u] \in {"ready", "committing", "commit_unknown",
                                  "committed", "aborted"} => commitTs[u] # 0
      <4>1. CASE u # t
        BY <3>2, <4>1 DEF Clients, Protocol
      <4>2. CASE u = t
        BY <2>4, <3>1, <3>2, <3>3, <4>2 DEF Clients, Protocol, Waiting, ClientRpcs
      <4> QED
        BY <4>1, <4>2
    <3>5. ASSUME NEW g \in Workers, job'[g].rpc \in ClientRpcs, g \notin orphan'
          PROVE  phase'[job'[g].who] = Waiting(job'[g].rpc)
      <4>1. g # h /\ job'[g] = job[g] /\ g \notin orphan
        BY <2>2, <3>5 DEF NoJob, ClientRpcs
      <4>2. job[g].who # t
        BY <2>4, <3>5, <4>1 DEF Clients, Protocol
      <4>3. job[g].who \in Txns /\ phase[job[g].who] = Waiting(job[g].rpc)
        BY <3>5, <4>1, JobsByRpc DEF TypeOK, Clients, Protocol, ClientRpcs
      <4> QED
        BY <3>2, <4>1, <4>2, <4>3
    <3>6. Protocol'
      BY <2>1, <2>2, <3>4, <3>5 DEF Clients, Protocol, NoJob, ClientRpcs
    <3> QED
      BY <1>3, <1>4, <2>1, <3>6 DEF Clients
  <2> QED
    BY <1>6, <2>3, <2>4 DEF Answer, ClientRpcs
<1> QED
  BY <1>2, <1>5, <1>6, StepShape

\* The HLC issues the timestamp after the last one.
LEMMA IssueLen ==
  ASSUME ClockOK, Issue
  PROVE  Len(issuedAt') = Len(issuedAt) + 1 /\ NextTs = Len(issuedAt')
         /\ Len(issuedAt) \in Nat
BY DEF ClockOK, Issue, NextTs

\* A client that draws a timestamp draws one nobody else has.
LEMMA DrawClients ==
  ASSUME TypeOK, Clients, NEW t \in Txns, Begin(t) \/ DrawCommitTs(t)
  PROVE  Clients'
<1>1. /\ Len(issuedAt') = Len(issuedAt) + 1 /\ NextTs = Len(issuedAt) + 1
      /\ Len(issuedAt) \in Nat
  BY IssueLen DEF TypeOK, Begin, DrawCommitTs
<1>2. UNCHANGED <<job, orphan>>
  BY DEF Begin, DrawCommitTs
<1>j. \A h \in Workers : job[h].rpc \notin {"none", "get"} => job[h].who \in Txns
  BY JobsByRpc DEF TypeOK
<1>3. CASE Begin(t)
  <2>1. /\ start[t] = 0 /\ phase[t] = "idle" /\ commitTs[t] = 0 /\ commitTs' = commitTs
        /\ \A u \in Txns : start'[u] = IF u = t THEN NextTs ELSE start[u]
        /\ \A u \in Txns : phase'[u] = IF u = t THEN "begun" ELSE phase[u]
    BY <1>3 DEF Begin, TypeOK, ClientsOK, Clients, Protocol
  <2>t. \A u \in Txns : /\ start[u] \in Nat /\ start[u] <= Len(issuedAt)
                        /\ commitTs[u] \in Nat /\ commitTs[u] <= Len(issuedAt)
    BY DEF Clients, Timestamps, TypeOK, ClientsOK
  <2>2. Timestamps'
    BY <1>1, <2>1, <2>t DEF Clients, Timestamps
  <2>3. \A h \in Workers : job[h].rpc \notin {"none", "get"} => job[h].who # t
    BY <2>1 DEF Clients, Begun
  <2>4. Begun'
    BY <1>1, <1>2, <1>j, <2>1, <2>3 DEF Clients, Begun
  <2>5. Protocol'
    BY <1>1, <1>2, <1>j, <2>1, <2>3 DEF Clients, Protocol, ClientRpcs, Waiting
  <2> QED
    BY <2>2, <2>4, <2>5 DEF Clients
<1>4. CASE DrawCommitTs(t)
  <2>1. /\ phase[t] = "prewritten" /\ commitTs[t] = 0 /\ start[t] # 0 /\ start' = start
        /\ \A u \in Txns : commitTs'[u] = IF u = t THEN NextTs ELSE commitTs[u]
        /\ \A u \in Txns : phase'[u] = IF u = t THEN "ready" ELSE phase[u]
    BY <1>4 DEF DrawCommitTs, TypeOK, ClientsOK, Clients, Protocol
  <2>t. \A u \in Txns : /\ start[u] \in Nat /\ start[u] <= Len(issuedAt)
                        /\ commitTs[u] \in Nat /\ commitTs[u] <= Len(issuedAt)
    BY DEF Clients, Timestamps, TypeOK, ClientsOK
  <2>2. Timestamps'
    BY <1>1, <2>1, <2>t DEF Clients, Timestamps
  <2>3. \A h \in Workers : job[h].rpc \in ClientRpcs /\ h \notin orphan => job[h].who # t
    BY <2>1 DEF Clients, Protocol, Waiting, ClientRpcs
  <2>4. Begun'
    BY <1>1, <1>2, <1>j, <2>1 DEF Clients, Begun
  <2>5. Protocol'
    BY <1>1, <1>2, <1>j, <2>1, <2>3 DEF Clients, Protocol, ClientRpcs, Waiting
  <2> QED
    BY <2>2, <2>4, <2>5 DEF Clients
<1> QED
  BY <1>3, <1>4

\* A client that sends a call of its protocol waits for no other.
LEMMA CallClients ==
  ASSUME TypeOK, Clients, NEW t \in Txns, NEW h \in Workers,
         \/ CallPrewrite(t, h) \/ CallBatchPrewrite(t, h)
         \/ CallCommit(t, h) \/ CallBatchCommit(t, h) \/ CallRollback(t, h)
  PROVE  Clients'
<1>1. PICK rpc \in ClientRpcs, label \in Labels :
        /\ Accept(h, rpc, t, "none", label)
        /\ phase' = [phase EXCEPT ![t] = Waiting(rpc)]
        /\ rpc = "prewrite" => phase[t] \in {"begun", "prewrite_failed"}
        /\ rpc = "commit" => phase[t] \in {"ready", "commit_unknown"}
        /\ phase[t] \in {"begun", "prewrite_failed", "prewritten", "ready",
                         "aborted", "commit_unknown"}
  BY DEF CallPrewrite, CallBatchPrewrite, CallCommit, CallBatchCommit,
         CallRollback, SendPrewrite, SendCommit, Waiting, ClientRpcs, Labels
<1>2. UNCHANGED <<start, commitTs, issuedAt>>
  BY DEF CallPrewrite, CallBatchPrewrite, CallCommit, CallBatchCommit,
         CallRollback, SendPrewrite, SendCommit, clock
<1>3. /\ \A g \in Workers : job'[g] = IF g = h THEN [rpc |-> rpc, who |-> t, key |-> "none"]
                                               ELSE job[g]
      /\ orphan' = orphan
      /\ \A u \in Txns : phase'[u] = IF u = t THEN Waiting(rpc) ELSE phase[u]
  BY <1>1 DEF Accept, TypeOK, WorkersOK, ClientsOK
<1>4. \A g \in Workers : job[g].rpc \notin {"none", "get"} => job[g].who \in Txns
  BY JobsByRpc DEF TypeOK
<1>5. \A g \in Workers : job[g].rpc \in ClientRpcs /\ g \notin orphan => job[g].who # t
  BY <1>1 DEF Clients, Protocol, Waiting, ClientRpcs
<1>6. Timestamps'
  BY <1>2 DEF Clients, Timestamps
<1>7. start[t] # 0 /\ (rpc = "commit" => commitTs[t] # 0)
      /\ (rpc = "prewrite" => commitTs[t] = 0)
  BY <1>1 DEF Clients, Protocol
<1>8. Begun'
  BY <1>2, <1>3, <1>7 DEF Clients, Begun
<1>9. ASSUME NEW u \in Txns
      PROVE  /\ phase'[u] = "idle" <=> start'[u] = 0
             /\ phase'[u] \in {"idle", "begun", "prewriting", "prewrite_failed",
                              "prewritten"} => commitTs'[u] = 0
             /\ phase'[u] \in {"ready", "committing", "commit_unknown",
                              "committed", "aborted"} => commitTs'[u] # 0
  BY <1>2, <1>3, <1>7 DEF Clients, Protocol, Waiting, ClientRpcs
<1>10. ASSUME NEW g \in Workers, job'[g].rpc \in ClientRpcs, g \notin orphan'
       PROVE  phase'[job'[g].who] = Waiting(job'[g].rpc)
  BY <1>3, <1>4, <1>5, <1>10 DEF Clients, Protocol, ClientRpcs
<1>11. ASSUME NEW f \in Workers, NEW g \in Workers,
              job'[f].rpc \in ClientRpcs, job'[g].rpc \in ClientRpcs,
              job'[f].who = job'[g].who, f \notin orphan', g \notin orphan'
       PROVE  f = g
  BY <1>3, <1>5, <1>11 DEF Clients, Protocol
<1>12. Protocol'
  BY <1>9, <1>10, <1>11 DEF Protocol
<1> QED
  BY <1>6, <1>8, <1>12 DEF Clients

\* Heartbeats, status queries and reads leave the clients of transactions be.
LEMMA OtherCallClients ==
  ASSUME TypeOK, Clients, NEW h \in Workers,
         \/ \E t \in Txns : CallHeartbeat(t, h) \/ CallCheckTxnStatus(t, h)
         \/ \E r \in Readers, k \in Keys : CallGet(r, k, h)
  PROVE  Clients'
<1>1. PICK j : /\ job' = [job EXCEPT ![h] = j] /\ orphan' = orphan
               /\ j.rpc \in {"heartbeat", "status", "get"}
               /\ j.rpc # "get" => start[j.who] # 0
  <2> DEFINE P(j) == /\ job' = [job EXCEPT ![h] = j] /\ orphan' = orphan
                     /\ j.rpc \in {"heartbeat", "status", "get"}
                     /\ j.rpc # "get" => start[j.who] # 0
  <2>1. ASSUME NEW t \in Txns, CallHeartbeat(t, h)
        PROVE  P([rpc |-> "heartbeat", who |-> t, key |-> "none"])
    BY <2>1 DEF CallHeartbeat, Accept, Clients, Protocol
  <2>2. ASSUME NEW t \in Txns, CallCheckTxnStatus(t, h)
        PROVE  P([rpc |-> "status", who |-> t, key |-> "none"])
    BY <2>2 DEF CallCheckTxnStatus, Accept
  <2>3. ASSUME NEW r \in Readers, NEW k \in Keys, CallGet(r, k, h)
        PROVE  P([rpc |-> "get", who |-> r, key |-> k])
    BY <2>3 DEF CallGet, Accept
  <2> HIDE DEF P
  <2>4. \E j : P(j)
    BY <2>1, <2>2, <2>3, Zenon
  <2> QED
    BY <2>4, Zenon DEF P
<1>2. \A g \in Workers : job'[g] = IF g = h THEN j ELSE job[g]
  BY <1>1 DEF TypeOK, WorkersOK
<1>3. UNCHANGED clients
  BY DEF CallHeartbeat, CallCheckTxnStatus, CallGet
<1>4. Len(issuedAt) \in Nat /\ (issuedAt' = issuedAt \/ Len(issuedAt') = Len(issuedAt) + 1)
  BY IssueLen DEF CallHeartbeat, CallCheckTxnStatus, CallGet, clock,
     TypeOK, ClockOK
<1>5. Timestamps'
  BY <1>3, <1>4 DEF Clients, Timestamps, clients, TypeOK, ClientsOK
<1>6. Begun'
  BY <1>1, <1>2, <1>3 DEF Clients, Begun, clients
<1>7. Protocol'
  BY <1>1, <1>2, <1>3 DEF Clients, Protocol, ClientRpcs, clients
<1> QED
  BY <1>5, <1>6, <1>7 DEF Clients

\* Clients that stop waiting, a crash and the clock keep the protocol.
LEMMA LeaveClients ==
  ASSUME TypeOK, Clients,
         Crash \/ Tick \/ \E t \in Txns, h \in Workers : GiveUp(t, h)
  PROVE  Clients'
<1>1. CASE Tick
  BY <1>1 DEF Tick, Clients, Begun, Protocol, Timestamps, clients
<1>2. CASE Crash
  <2>1. /\ \A g \in Workers : job'[g] = NoJob
        /\ \A u \in Txns : phase'[u] = Unanswered(phase[u])
        /\ UNCHANGED <<start, commitTs, issuedAt>>
    BY <1>2 DEF Crash, clock
  <2>2. Protocol'
    BY <2>1 DEF Clients, Protocol, NoJob, ClientRpcs, Unanswered
  <2> QED
    BY <2>1, <2>2 DEF Clients, Begun, Timestamps, NoJob
<1>3. ASSUME NEW t \in Txns, NEW h \in Workers, GiveUp(t, h)
      PROVE  Clients'
  <2>1. /\ UNCHANGED <<start, commitTs, issuedAt, job>>
        /\ orphan' = orphan \cup {h}
        /\ \A u \in Txns : phase'[u] = IF u = t THEN Unanswered(phase[t]) ELSE phase[u]
        /\ job[h].rpc \in ClientRpcs /\ job[h].who = t /\ h \notin orphan
        /\ phase[t] \in {"prewriting", "committing"}
    BY <1>3 DEF GiveUp, clock, TypeOK, ClientsOK, ClientRpcs
  <2>2. \A g \in Workers : job[g].rpc \in ClientRpcs => job[g].who \in Txns
    BY JobsByRpc DEF TypeOK, ClientRpcs
  <2>3. \A g \in Workers : job[g].rpc \in ClientRpcs /\ g \notin orphan' => job[g].who # t
    BY <2>1 DEF Clients, Protocol
  <2>4. Protocol'
    BY <2>1, <2>2, <2>3 DEF Clients, Protocol, Unanswered
  <2> QED
    BY <2>1, <2>4 DEF Clients, Begun, Timestamps
<1> QED
  BY <1>1, <1>2, <1>3

\* The protocol of the clients and their timestamps are inductive.
LEMMA NextClients ==
  ASSUME TypeOK, Clients, [Next]_vars
  PROVE  Clients'
<1>1. CASE UNCHANGED vars
  BY <1>1 DEF vars, Clients, Begun, Protocol, Timestamps, clock, clients
<1> QED
  BY <1>1, StepClients, DrawClients, CallClients, OtherCallClients, LeaveClients
     DEF Next, ClientStep, ReaderStep

\* A drawn timestamp is never changed.
Kept == \A t \in Txns : /\ start[t] # 0 => start'[t] = start[t]
                        /\ commitTs[t] # 0 => commitTs'[t] = commitTs[t]

\* No step changes a timestamp that was drawn.
LEMMA NextKept ==
  ASSUME TypeOK, Clients, [Next]_vars
  PROVE  Kept
<1>1. ASSUME UNCHANGED <<start, commitTs>>  PROVE Kept
  BY <1>1 DEF Kept
<1>2. ASSUME NEW h \in Workers, Step(h)  PROVE Kept
  <2>1. UNCHANGED <<start, commitTs>>
    BY <1>2, StepShape, Zenon DEF Answer, AnswerGet, clients
  <2> QED
    BY <1>1, <2>1
<1>3. ASSUME NEW t \in Txns, Begin(t)  PROVE Kept
  BY <1>3 DEF Begin, Kept, Clients, Protocol, TypeOK, ClientsOK
<1>4. ASSUME NEW t \in Txns, DrawCommitTs(t)  PROVE Kept
  BY <1>4 DEF DrawCommitTs, Kept, Clients, Protocol, TypeOK, ClientsOK
<1>5. ASSUME NEW t \in Txns, NEW h \in Workers,
             \/ CallPrewrite(t, h) \/ CallBatchPrewrite(t, h)
             \/ CallCommit(t, h) \/ CallBatchCommit(t, h)
             \/ CallRollback(t, h) \/ CallHeartbeat(t, h)
             \/ CallCheckTxnStatus(t, h) \/ GiveUp(t, h)
      PROVE  Kept
  BY <1>1, <1>5 DEF CallPrewrite, CallBatchPrewrite, CallCommit, CallBatchCommit,
     CallRollback, CallHeartbeat, CallCheckTxnStatus, GiveUp, SendPrewrite,
     SendCommit, clients
<1>6. ASSUME NEW r \in Readers, NEW k \in Keys, ReaderStep(r, k)  PROVE Kept
  BY <1>1, <1>6 DEF ReaderStep, CallGet, clients
<1>7. CASE Crash \/ Tick \/ UNCHANGED vars
  BY <1>1, <1>7 DEF Crash, Tick, vars, clients
<1> QED
  BY <1>2, <1>3, <1>4, <1>5, <1>6, <1>7 DEF Next, ClientStep

-----------------------------------------------------------------------------
(* Records *)

\* A record that may be inserted at key k: it is of some transaction, and if
\* it commits a secondary of a transaction that uses commit, the primary of
\* that transaction is committed already.
Justified(k, rec) ==
  /\ rec \in WriteRecord
  /\ RecordOK(rec)
  /\ \A t \in Txns \ BatchClients :
       rec.op # "Rollback" /\ start[t] = rec.start =>
         PrimaryCommitted(t) \/ k = Primary(t)

WriteStep ==
  \A k \in Keys :
    \/ write'[k] = write[k]
    \/ \E rec : Justified(k, rec) /\ write'[k] = Insert(write[k], rec)

\* A rollback record of a begun transaction may be inserted anywhere.
LEMMA RollbackJustified ==
  ASSUME TypeOK, NEW k \in Keys, NEW t \in Txns, start[t] # 0
  PROVE  Justified(k, Rec(start[t], start[t], "Rollback"))
BY DEF Justified, Rec, WriteRecord, RecordOK, TypeOK, ClientsOK

\* A commit record at the primary, or after the primary, may be inserted.
LEMMA CommitJustified ==
  ASSUME TypeOK, Timestamps, NEW k \in Keys, NEW t \in Txns, NEW op \in Ops,
         start[t] # 0, commitTs[t] # 0,
         t \in BatchClients \/ PrimaryCommitted(t) \/ k = Primary(t)
  PROVE  Justified(k, Rec(commitTs[t], start[t], op))
<1>1. Rec(commitTs[t], start[t], op) \in WriteRecord
  BY DEF Rec, WriteRecord, TypeOK, ClientsOK
<1>2. RecordOK(Rec(commitTs[t], start[t], op))
  BY DEF Rec, RecordOK, Ops
<1>3. \A u \in Txns : start[u] = start[t] => u = t
  BY DEF Timestamps
<1> QED
  BY <1>1, <1>2, <1>3 DEF Justified, Rec

\* Rolling a key back inserts a justified record.
LEMMA RollBackWrites ==
  ASSUME TypeOK, NEW k \in Keys, NEW s, NEW t \in Txns, start[t] = s, s # 0,
         RollBackKey(k, s)
  PROVE  WriteStep
BY RollbackJustified DEF RollBackKey, WriteStep, TypeOK, StoreOK

\* Committing a key inserts a justified record.
LEMMA CommitWrites ==
  ASSUME TypeOK, Timestamps, NEW k \in Keys, NEW t \in Txns, NEW op \in Ops,
         start[t] # 0, commitTs[t] # 0,
         t \in BatchClients \/ PrimaryCommitted(t) \/ k = Primary(t),
         CommitKey(k, start[t], commitTs[t], op)
  PROVE  WriteStep
BY CommitJustified DEF CommitKey, WriteStep, TypeOK, StoreOK

\* Whose lock a resolving worker holds.
LEMMA CopyOwner ==
  ASSUME TypeOK, Control, Locks, NEW h \in Workers, pc[h] \in ResolveLabels
  PROVE  \E t \in Txns : /\ start[t] = copy[h].start /\ start[t] # 0
                         /\ copy[h].primary = Primary(t)
<1>1. copy[h] \in Lock
  BY DEF Control, JobOK
<1>2. copy[h] # NoLock
  BY <1>1 DEF Lock, NoLock
<1> QED
  BY <1>2 DEF Locks, LockOK

\* Every step of a handler inserts at most justified records.
LEMMA StepWrites ==
  ASSUME TypeOK, Control, Clients, Locks, CommitPointKnown,
         NEW h \in Workers, Step(h)
  PROVE  WriteStep
<1>u. ASSUME UNCHANGED write  PROVE WriteStep
  BY <1>u DEF WriteStep
<1>s. ASSUME UNCHANGED store  PROVE WriteStep
  BY <1>s, <1>u DEF store
<1>1. CASE \/ GetLock(h) \/ GetWrite(h) \/ GetData(h)
           \/ ResolveScan(h) \/ ResolvePrimary(h)
           \/ PrewriteConflict(h) \/ PrewriteLock(h) \/ PrewriteRecheck(h)
           \/ CommitReadPrimary(h) \/ CommitReadSecondary(h)
           \/ BatchCommitRead(h) \/ RollbackRead(h) \/ HeartbeatRead(h)
  BY <1>1, <1>s, Zenon DEF GetLock, GetWrite, GetData, ResolveScan, ResolvePrimary,
     PrewriteConflict, PrewriteLock, PrewriteRecheck, CommitReadPrimary,
     CommitReadSecondary, BatchCommitRead, RollbackRead, HeartbeatRead
<1>2. CASE PrewriteWrite(h) \/ HeartbeatWrite(h)
  BY <1>2, <1>u, Zenon DEF PrewriteWrite, PrewriteKeys, HeartbeatWrite, store
<1>3. CASE ResolveExpire(h)
  <2>1. PICK t \in Txns : /\ start[t] = copy[h].start /\ start[t] # 0
                          /\ copy[h].primary = Primary(t)
    BY <1>3, CopyOwner DEF ResolveExpire, ResolveLabels
  <2>2. copy[h].primary \in Keys
    BY <2>1, MutationsType
  <2> QED
    BY <1>3, <1>s, <2>1, <2>2, RollBackWrites, Zenon DEF ResolveExpire, store
<1>4. CASE ResolveApply(h) \/ ResolveLocked(h)
  <2>1. PICK t \in Txns : start[t] = copy[h].start /\ start[t] # 0
    BY <1>4, CopyOwner, Zenon DEF ResolveApply, ResolveLocked, ResolveLabels
  <2>2. /\ CurKey(h) \in Keys /\ copy[h].op \in Ops
    BY <1>4, CurKeyType, Zenon DEF ResolveApply, ResolveLocked, Control, JobOK,
       ResolveLabels, Lock
  <2>3. CASE RollBackKey(CurKey(h), copy[h].start)
    BY <2>1, <2>2, <2>3, RollBackWrites
  <2>4. CASE /\ pc[h] = "rs_apply" /\ found[h] > 0
             /\ CommitKey(CurKey(h), copy[h].start, found[h], copy[h].op)
    <3>1. PICK u \in Txns : /\ start[u] = copy[h].start
                            /\ commitTs[u] = found[h] /\ commitTs[u] # 0
                            /\ PrimaryCommitted(u)
      BY <2>4 DEF CommitPointKnown
    <3>2. start[u] # 0
      BY <2>1, <3>1
    <3> QED
      BY <2>2, <2>4, <3>1, <3>2, CommitWrites DEF Clients
  <2> QED
    BY <1>4, <1>s, <2>3, <2>4, Zenon DEF ResolveApply, ResolveLocked
<1>5. CASE CommitWritePrimary(h) \/ CommitWriteSecondary(h)
  <2>1. /\ job[h].rpc = "commit"
        /\ pc[h] = "cm_write_primary" => idx[h] = 1
        /\ pc[h] \in {"cm_write_primary", "cm_write_secondary"}
    BY <1>5, Zenon DEF CommitWritePrimary, CommitWriteSecondary, Control, JobOK
  <2>2. /\ job[h].who \in Txns /\ CurKey(h) \in Keys
        /\ start[job[h].who] # 0 /\ commitTs[job[h].who] # 0
        /\ copy[h].op \in Ops
    BY <2>1, JobsByRpc, CurKeyType DEF TypeOK, WorkersOK, Clients, Begun, Lock, NoLock,
       Ops
  <2>3. PrimaryCommitted(job[h].who) \/ CurKey(h) = Primary(job[h].who)
    BY <2>1, Zenon DEF CommitPointKnown, CurKey, Primary
  <2> QED
    BY <1>5, <2>2, <2>3, CommitWrites DEF CommitWritePrimary, CommitWriteSecondary,
       Clients
<1>6. CASE BatchCommitWrite(h)
  <2> DEFINE t == job[h].who
             K == {m.key : m \in staged[h]}
             op(k) == (CHOOSE m \in staged[h] : m.key = k).op
  <2>1. /\ t \in Txns /\ t \in BatchClients /\ start[t] # 0 /\ commitTs[t] # 0
    BY <1>6, JobsByRpc DEF BatchCommitWrite, TypeOK, Control, JobOK, Clients, Begun
  <2>2. ASSUME NEW k \in K  PROVE op(k) \in Ops
    <3>1. \E m \in staged[h] : m.key = k
      OBVIOUS
    <3>2. (CHOOSE m \in staged[h] : m.key = k) \in staged[h]
      BY <3>1
    <3> QED
      BY <3>2 DEF TypeOK, WorkersOK
  <2>3. ASSUME NEW k \in Keys, k \in K
        PROVE  Justified(k, Rec(commitTs[t], start[t], op(k)))
    BY <2>1, <2>2, <2>3, CommitJustified DEF Clients
  <2>4. \A k \in Keys : write'[k] = IF k \in K
                          THEN Insert(write[k], Rec(commitTs[t], start[t], op(k)))
                          ELSE write[k]
    BY <1>6 DEF BatchCommitWrite
  <2> QED
    BY <2>3, <2>4 DEF WriteStep
<1>7. CASE RollbackWrite(h)
  <2>1. job[h].who \in Txns /\ CurKey(h) \in Keys /\ start[job[h].who] # 0
    BY <1>7, JobsByRpc, CurKeyType, Zenon DEF RollbackWrite, TypeOK, Control, JobOK,
       Clients, Begun
  <2>2. Justified(CurKey(h), Rec(start[job[h].who], start[job[h].who], "Rollback"))
    BY <2>1, RollbackJustified
  <2>3. write' = [write EXCEPT ![CurKey(h)] =
                    Insert(@, Rec(start[job[h].who], start[job[h].who], "Rollback"))]
    BY <1>7 DEF RollbackWrite, RollBackKey
  <2> QED
    BY <2>1, <2>2, <2>3 DEF WriteStep, TypeOK, StoreOK
<1> QED
  BY <1>1, <1>2, <1>3, <1>4, <1>5, <1>6, <1>7 DEF Step

\* Every step of the system inserts at most justified records.
LEMMA NextWrites ==
  ASSUME TypeOK, Control, Clients, Locks, CommitPointKnown, [Next]_vars
  PROVE  WriteStep
<1>1. ASSUME UNCHANGED write  PROVE WriteStep
  BY <1>1 DEF WriteStep
<1>2. ASSUME NEW t \in Txns, ClientStep(t)  PROVE UNCHANGED write
  BY <1>2, Zenon DEF ClientStep, Begin, DrawCommitTs, CallPrewrite, CallBatchPrewrite,
     CallCommit, CallBatchCommit, CallRollback, CallHeartbeat,
     CallCheckTxnStatus, GiveUp, SendPrewrite, SendCommit, store
<1>3. ASSUME NEW r \in Readers, NEW k \in Keys, ReaderStep(r, k)  PROVE UNCHANGED write
  BY <1>3 DEF ReaderStep, CallGet, store
<1>4. CASE Crash \/ Tick \/ UNCHANGED vars
  BY <1>1, <1>4 DEF Crash, Tick, vars, store
<1> QED
  BY <1>1, <1>2, <1>3, <1>4, StepWrites DEF Next

\* The transaction a record belongs to stays that transaction.
LEMMA RecordStays ==
  ASSUME TypeOK, Kept, NEW r, RecordOK(r)
  PROVE  RecordOK(r)'
BY Zenon DEF Kept, RecordOK

\* Every record in the WRITE partition belongs to a transaction.
LEMMA NextRecords ==
  ASSUME TypeOK, Records, Kept, WriteStep
  PROVE  Records'
<1> SUFFICES ASSUME NEW k \in Keys, NEW r \in write'[k]  PROVE RecordOK(r)'
  BY DEF Records
<1>1. RecordOK(r)
  BY DEF WriteStep, Justified, Records, Insert
<1> QED
  BY <1>1, RecordStays

\* An insert replaces a committed record at most by another commit record of
\* the same transaction, because timestamps are drawn once.
LEMMA CommitsStay ==
  ASSUME TypeOK, Timestamps, Records, WriteStep,
         NEW k \in Keys, NEW r \in write[k], r.op # "Rollback"
  PROVE  \E q \in write'[k] : /\ q.ts = r.ts /\ q.start = r.start
                              /\ q.op # "Rollback"
<1>1. CASE write'[k] = write[k]
  BY <1>1
<1>2. ASSUME NEW rec, Justified(k, rec), write'[k] = Insert(write[k], rec)
      PROVE  \E q \in write'[k] : /\ q.ts = r.ts /\ q.start = r.start
                                  /\ q.op # "Rollback"
  <2>1. CASE rec.ts # r.ts
    BY <1>2, <2>1 DEF Insert
  <2>2. CASE rec.ts = r.ts
    <3>1. PICK t \in Txns : /\ start[t] = r.start /\ start[t] # 0
                            /\ commitTs[t] = r.ts /\ commitTs[t] # 0
      BY DEF Records, RecordOK
    <3>2. PICK u \in Txns :
            /\ start[u] = rec.start /\ start[u] # 0
            /\ rec.op # "Rollback" => commitTs[u] = rec.ts /\ commitTs[u] # 0
            /\ rec.op = "Rollback" => rec.ts = rec.start
      BY <1>2 DEF Justified, RecordOK
    <3>3. rec.op # "Rollback"
      BY <2>2, <3>1, <3>2 DEF Timestamps
    <3>4. u = t
      BY <2>2, <3>1, <3>2, <3>3 DEF Timestamps
    <3> QED
      BY <1>2, <2>2, <3>1, <3>2, <3>3, <3>4 DEF Insert
  <2> QED
    BY <2>1, <2>2
<1> QED
  BY <1>1, <1>2 DEF WriteStep

\* A key that is committed for a transaction stays committed for it.
LEMMA CommittedStays ==
  ASSUME TypeOK, Timestamps, Records, Kept, WriteStep,
         NEW t \in Txns, start[t] # 0, NEW k \in Keys, CommittedOn(t, k)
  PROVE  CommittedOn(t, k)'
<1>1. PICK r \in write[k] : r.start = start[t] /\ r.op # "Rollback"
  BY DEF CommittedOn
<1>2. \E q \in write'[k] : q.start = r.start /\ q.op # "Rollback"
  BY <1>1, CommitsStay
<1> QED
  BY <1>1, <1>2 DEF CommittedOn, Kept

\* Only a begun transaction is committed anywhere.
LEMMA CommittedBegun ==
  ASSUME TypeOK, NEW t \in Txns, NEW k \in Keys, CommittedOn(t, k)
  PROVE  start[t] # 0
BY DEF CommittedOn, TypeOK, StoreOK, WriteRecord

\* The commit point is kept: a commit record that appears is of the primary,
\* or its primary is committed.
LEMMA NextCommitPoint ==
  ASSUME TypeOK, Timestamps, Timestamps', Records, Kept, WriteStep, CommitPointKnown,
         TypeOK', NEW t \in Txns \ BatchClients, NEW k \in Keys, CommittedOn(t, k)'
  PROVE  PrimaryCommitted(t)'
<1>1. PICK q \in write'[k] : q.start = start'[t] /\ q.op # "Rollback"
  BY DEF CommittedOn
<1>2. RecordOK(q)
  BY DEF WriteStep, Justified, Records, Insert
<1>3. PICK u \in Txns : start[u] = q.start /\ start[u] # 0
  BY <1>2 DEF RecordOK
<1>4. start'[u] = start[u]
  BY <1>3 DEF Kept
<1>5. start'[u] = start'[t] /\ start'[u] # 0
  BY <1>1, <1>3, <1>4
<1>6. u = t
  BY <1>5 DEF Timestamps
<1>7. start[t] = q.start /\ start[t] # 0 /\ Primary(t) \in Keys
  BY <1>3, <1>6, MutationsType
<1>8. ASSUME PrimaryCommitted(t)  PROVE PrimaryCommitted(t)'
  <2>1. CommittedOn(t, Primary(t))'
    BY <1>7, <1>8, CommittedStays DEF PrimaryCommitted
  <2> QED
    BY <2>1 DEF PrimaryCommitted
<1>9. CASE q \in write[k]
  <2>1. CommittedOn(t, k)
    BY <1>1, <1>7, <1>9 DEF CommittedOn
  <2> QED
    BY <1>8, <2>1 DEF CommitPointKnown
<1>10. CASE Justified(k, q)
  <2>1. PrimaryCommitted(t) \/ k = Primary(t)
    BY <1>1, <1>7, <1>10 DEF Justified
  <2>2. CASE k = Primary(t)
    BY <1>1, <2>2 DEF PrimaryCommitted, CommittedOn
  <2> QED
    BY <1>8, <2>1, <2>2
<1> QED
  BY <1>9, <1>10 DEF WriteStep, Insert

-----------------------------------------------------------------------------
(* Locks *)

LockStep ==
  /\ \A k \in Keys : LockOK(lock'[k])
  /\ \A h \in Workers : LockOK(copy'[h])

\* What a step of worker h leaves in the LOCK partition and in its hands.
LEMMA LocksFrom ==
  ASSUME TypeOK, Locks, NEW h \in Workers,
         \A k \in Keys : lock'[k] \in {lock[k], NoLock} \/ LockOK(lock'[k]),
         \/ copy' = copy
         \/ \E l : LockOK(l) /\ copy' = [copy EXCEPT ![h] = l]
  PROVE  LockStep
<1>1. LockOK(NoLock)
  BY DEF LockOK
<1>2. \A k \in Keys : LockOK(lock'[k])
  BY <1>1 DEF Locks
<1>3. ASSUME NEW g \in Workers  PROVE LockOK(copy'[g])
  <2>1. CASE copy' = copy
    BY <2>1 DEF Locks
  <2>2. ASSUME NEW l, LockOK(l), copy' = [copy EXCEPT ![h] = l]
        PROVE  LockOK(copy'[g])
    <3>1. copy'[g] = l \/ copy'[g] = copy[g]
      BY <2>2 DEF TypeOK, WorkersOK
    <3> QED
      BY <2>2, <3>1 DEF Locks
  <2> QED
    BY <2>1, <2>2
<1> QED
  BY <1>2, <1>3 DEF LockStep

\* A worker that takes a lock from the LOCK partition holds an owned one.
LEMMA LocksFromRead ==
  ASSUME TypeOK, Locks, NEW h \in Workers, UNCHANGED lock, NEW k \in Keys, NEW l,
         l = NoLock \/ (l # NoLock =>
                          lock[k] # NoLock /\ l.start = lock[k].start
                                           /\ l.primary = lock[k].primary),
         copy' = [copy EXCEPT ![h] = l]
  PROVE  LockStep
<1>1. LockOK(l)
  BY DEF Locks, LockOK
<1> QED
  BY <1>1, LocksFrom, Zenon

\* A worker that returns or moves on holds its lock or none.
LEMMA LocksFromMove ==
  ASSUME TypeOK, Locks, NEW h \in Workers,
         \A k \in Keys : lock'[k] \in {lock[k], NoLock} \/ LockOK(lock'[k]),
         \/ UNCHANGED copy \/ Resolved(h)
         \/ (\E ok : Answer(h, ok)) \/ (\E v : AnswerGet(h, v))
         \/ (\E label : NextKey(h, label)) \/ (\E c : StatusIs(h, c))
  PROVE  LockStep
<1>1. LockOK(NoLock)
  BY DEF LockOK
<1>2. copy' = copy \/ copy' = [copy EXCEPT ![h] = NoLock]
  BY Zenon DEF Resolved, Answer, AnswerGet, NextKey, StatusIs, Release
<1> QED
  BY <1>1, <1>2, LocksFrom

\* Every step of a handler leaves owned locks.
LEMMA StepLocks ==
  ASSUME TypeOK, Control, Clients, Locks, NEW h \in Workers, Step(h)
  PROVE  LockStep
<1>k. ASSUME UNCHANGED lock
      PROVE  \A k \in Keys : lock'[k] \in {lock[k], NoLock} \/ LockOK(lock'[k])
  BY <1>k
<1>1. CASE GetLock(h)
  <2> DEFINE l == lock[job[h].key]
  <2>1. job[h].key \in Keys /\ l \in Lock \cup {NoLock} /\ UNCHANGED lock
    BY <1>1, JobsByRpc DEF GetLock, TypeOK, StoreOK, Control, JobOK, store
  <2>2. CASE \/ UNCHANGED locals \/ Answer(h, FALSE)
    BY <1>k, <2>1, <2>2, LocksFromMove, Zenon DEF locals
  <2>3. CASE /\ Blocks(l, readTs[job[h].who])
             /\ copy' = [copy EXCEPT ![h] = [l EXCEPT !.ttl = ReadTtl, !.op = "Put"]]
    <3>1. l \in Lock /\ l # NoLock
      BY <2>1, <2>3 DEF Blocks
    <3> DEFINE f == [l EXCEPT !.ttl = ReadTtl, !.op = "Put"]
    <3>2. f.start = l.start /\ f.primary = l.primary
      BY <3>1 DEF Lock
    <3> HIDE DEF f
    <3> QED
      BY <2>1, <2>3, <3>1, <3>2, LocksFromRead, Zenon DEF f
  <2> QED
    BY <1>1, <2>2, <2>3, Zenon DEF GetLock
<1>2. CASE \/ GetWrite(h) \/ GetData(h) \/ ResolveScan(h) \/ ResolvePrimary(h)
           \/ PrewriteConflict(h) \/ PrewriteRecheck(h) \/ BatchCommitRead(h)
  <2>1. UNCHANGED lock
    BY <1>2, Zenon DEF GetWrite, GetData, ResolveScan, ResolvePrimary, PrewriteConflict,
       PrewriteRecheck, BatchCommitRead, store
  <2>2. \/ UNCHANGED copy \/ (\E ok : Answer(h, ok)) \/ (\E v : AnswerGet(h, v))
        \/ (\E c : StatusIs(h, c))
    BY <1>2, Zenon DEF GetWrite, GetData, ResolveScan, ResolvePrimary, PrewriteConflict,
       PrewriteRecheck, BatchCommitRead, locals
  <2> QED
    BY <1>k, <2>1, <2>2, LocksFromMove
<1>3. CASE ResolveExpire(h) \/ ResolveApply(h) \/ ResolveLocked(h)
  <2>1. \A k \in Keys : lock'[k] \in {lock[k], NoLock}
    BY <1>3, Zenon DEF ResolveExpire, ResolveApply, ResolveLocked, RollBackKey, CommitKey,
       store, TypeOK, StoreOK
  <2>2. \/ UNCHANGED copy \/ Resolved(h) \/ (\E ok : Answer(h, ok))
        \/ (\E c : StatusIs(h, c))
    BY <1>3, Zenon DEF ResolveExpire, ResolveApply, ResolveLocked, locals
  <2> QED
    BY <2>1, <2>2, LocksFromMove, Zenon
<1>4. CASE PrewriteLock(h) \/ CommitReadPrimary(h) \/ CommitReadSecondary(h)
           \/ RollbackRead(h)
  <2>1. CurKey(h) \in Keys /\ UNCHANGED lock
    BY <1>4, CurKeyType, Zenon DEF PrewriteLock, CommitReadPrimary, CommitReadSecondary,
       RollbackRead, store, Control, JobOK
  <2>2. CASE \/ copy' = [copy EXCEPT ![h] = lock[CurKey(h)]]
             \/ copy' = [copy EXCEPT ![h] = NoLock]
    BY <2>1, <2>2, LocksFromRead
  <2>3. CASE \/ UNCHANGED copy \/ Answer(h, FALSE) \/ NextKey(h, "cm_secondary")
    BY <1>k, <2>1, <2>3, LocksFromMove, Zenon
  <2> QED
    BY <1>4, <2>2, <2>3, Zenon DEF PrewriteLock, CommitReadPrimary, CommitReadSecondary,
       RollbackRead, locals
<1>5. CASE HeartbeatRead(h)
  <2>1. Primary(job[h].who) \in Keys /\ UNCHANGED lock
    BY <1>5, JobsByRpc, MutationsType, Zenon DEF HeartbeatRead, store, Control, JobOK,
       TypeOK
  <2> QED
    BY <1>5, <1>k, <2>1, LocksFromRead, LocksFromMove, Zenon DEF HeartbeatRead
<1>6. CASE PrewriteWrite(h)
  <2> DEFINE t == job[h].who
  <2>1. t \in Txns /\ start[t] # 0
    BY <1>6, JobsByRpc, Zenon DEF PrewriteWrite, TypeOK, Control, JobOK, Clients, Begun
  <2>2. ASSUME NEW K, NEW k \in Keys, PrewriteKeys(t, K)
        PROVE  lock'[k] \in {lock[k], NoLock} \/ LockOK(lock'[k])
    <3>1. CASE k \in K
      <4>1. lock'[k].start = start[t] /\ lock'[k].primary = Primary(t)
        BY <2>2, <3>1, Zenon DEF PrewriteKeys
      <4> QED
        BY <2>1, <4>1 DEF LockOK
    <3>2. CASE k \notin K
      BY <2>2, <3>2, Zenon DEF PrewriteKeys
    <3> QED
      BY <3>1, <3>2
  <2>3. \A k \in Keys : lock'[k] \in {lock[k], NoLock} \/ LockOK(lock'[k])
    BY <1>6, <1>k, <2>2 DEF PrewriteWrite, store
  <2> QED
    BY <1>6, <2>3, LocksFromMove, Zenon DEF PrewriteWrite
<1>7. CASE \/ CommitWritePrimary(h) \/ CommitWriteSecondary(h)
           \/ BatchCommitWrite(h) \/ RollbackWrite(h)
  <2>1. \A k \in Keys : lock'[k] \in {lock[k], NoLock}
    BY <1>7, Zenon DEF CommitWritePrimary, CommitWriteSecondary, BatchCommitWrite,
       RollbackWrite, RollBackKey, CommitKey, TypeOK, StoreOK
  <2>2. (\E ok : Answer(h, ok)) \/ (\E label : NextKey(h, label))
    BY <1>7, Zenon DEF CommitWritePrimary, CommitWriteSecondary, BatchCommitWrite,
       RollbackWrite
  <2> QED
    BY <2>1, <2>2, LocksFromMove, Zenon
<1>8. CASE HeartbeatWrite(h)
  <2> DEFINE l == [copy[h] EXCEPT !.ttl = HeartbeatTtl]
  <2>1. copy[h] \in Lock /\ copy[h] # NoLock
    BY <1>8 DEF HeartbeatWrite, Control, JobOK, Lock, NoLock
  <2>2. l.start = copy[h].start /\ l.primary = copy[h].primary
    BY <2>1 DEF Lock
  <2>3. LockOK(l)
    BY <2>1, <2>2 DEF Locks, LockOK
  <2>4. \A k \in Keys : lock'[k] = lock[k] \/ lock'[k] = l
    BY <1>8 DEF HeartbeatWrite, TypeOK, StoreOK
  <2> QED
    BY <1>8, <2>3, <2>4, LocksFromMove, Zenon DEF HeartbeatWrite
<1> QED
  BY <1>1, <1>2, <1>3, <1>4, <1>5, <1>6, <1>7, <1>8 DEF Step

\* Every lock, stored or in a handler's hands, is owned.
LEMMA NextLocks ==
  ASSUME TypeOK, Control, Clients, Locks, Kept, [Next]_vars
  PROVE  Locks'
<1>k. ASSUME UNCHANGED <<lock, copy>>  PROVE LockStep
  BY <1>k DEF Locks, LockStep
<1>1. ASSUME NEW t \in Txns, ClientStep(t)  PROVE LockStep
  <2>1. CASE UNCHANGED <<lock, copy>>
    BY <1>k, <2>1
  <2>2. ASSUME NEW h \in Workers, CallCheckTxnStatus(t, h)  PROVE LockStep
    <3> DEFINE l == [primary |-> Primary(t), start |-> start[t], ttl |-> 0, op |-> "Put"]
    <3>1. LockOK(l)
      BY <2>2, Zenon DEF CallCheckTxnStatus, LockOK
    <3> QED
      BY <2>2, <3>1, LocksFrom, Zenon DEF CallCheckTxnStatus, store
  <2> QED
    BY <1>1, <2>1, <2>2, Zenon DEF ClientStep, Begin, DrawCommitTs, CallPrewrite,
       CallBatchPrewrite, CallCommit, CallBatchCommit, CallRollback, CallHeartbeat,
       GiveUp, SendPrewrite, SendCommit, store, locals
<1>2. ASSUME NEW r \in Readers, NEW k \in Keys, ReaderStep(r, k)  PROVE LockStep
  BY <1>k, <1>2 DEF ReaderStep, CallGet, store, locals
<1>3. ASSUME Tick \/ UNCHANGED vars  PROVE LockStep
  BY <1>k, <1>3 DEF Tick, vars, store, locals
<1>4. ASSUME Crash  PROVE LockStep
  <2>1. LockOK(NoLock)
    BY DEF LockOK
  <2>2. \A h \in Workers : copy'[h] = NoLock
    BY <1>4 DEF Crash
  <2>3. \A h \in Workers : LockOK(copy'[h])
    BY <2>1, <2>2
  <2> QED
    BY <1>4, <2>3 DEF Crash, LockStep, Locks, store
<1>5. LockStep
  BY <1>1, <1>2, <1>3, <1>4, StepLocks DEF Next
<1> QED
  BY <1>5 DEF LockStep, Locks, LockOK, Kept
=============================================================================
