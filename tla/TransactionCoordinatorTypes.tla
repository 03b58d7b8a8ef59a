-------------------- MODULE TransactionCoordinatorTypes --------------------
(***************************************************************************)
(* The inductive invariant of TransactionCoordinator, and the proof of its *)
(* first part (the types of the variables, and which request a worker      *)
(* handles at each access) for get and the lock resolver.                  *)
(***************************************************************************)
EXTENDS TransactionCoordinator, TLAPS

-----------------------------------------------------------------------------
(* The inductive invariant *)

ResolveLabels == {"rs_scan", "rs_primary", "rs_expire", "rs_locked", "rs_apply"}

\* Which request a worker at a label handles, and what its locals hold there.
JobOK(h) ==
  /\ job[h] = NoJob <=> pc[h] = "idle"
  /\ pc[h] \in {"get_lock", "get_write", "get_data"} => job[h].rpc = "get"
  /\ pc[h] \in ResolveLabels => /\ job[h].rpc \in {"get", "prewrite", "status"}
                                /\ copy[h] \in Lock
  /\ pc[h] \in {"rs_locked", "rs_apply"} => job[h].rpc # "status"
  /\ pc[h] \in {"pw_conflict", "pw_lock", "pw_recheck", "pw_write"} =>
       job[h].rpc = "prewrite"
  /\ pc[h] \in {"cm_primary", "cm_write_primary", "cm_secondary",
                "cm_write_secondary"} =>
       job[h].rpc = "commit" /\ job[h].who \notin BatchClients
  /\ pc[h] \in {"cm_primary", "cm_write_primary"} => idx[h] = 1
  /\ pc[h] \in {"bc_read", "bc_write"} =>
       job[h].rpc = "commit" /\ job[h].who \in BatchClients
  /\ pc[h] \in {"rb_lock", "rb_write"} => job[h].rpc = "rollback"
  /\ pc[h] \in {"hb_lock", "hb_write"} => job[h].rpc = "heartbeat"
  /\ pc[h] = "hb_write" => copy[h] \in Lock
  /\ job[h] = NoJob => idx[h] = 1
  /\ job[h].rpc = "get" => idx[h] \in {1, 2}
  /\ job[h].rpc \notin {"none", "get"} => idx[h] \in 1..Len(Mutations[job[h].who])

Control == \A h \in Workers : JobOK(h)

\* The phase a client is in while one of its calls is handled.
Waiting(rpc) ==
  CASE rpc = "prewrite" -> "prewriting"
    [] rpc = "commit"   -> "committing"
    [] rpc = "rollback" -> "rollingback"

ClientRpcs == {"prewrite", "commit", "rollback"}

\* A request of a transaction is handled only after the transaction began, a
\* commit only after its commit timestamp was drawn.
Begun ==
  \A h \in Workers :
    /\ job[h].rpc \notin {"none", "get"} => start[job[h].who] # 0
    /\ job[h].rpc = "commit" => commitTs[job[h].who] # 0

\* Where clients are, which timestamps they hold, and that the answer of at
\* most one handler can move a client.
Protocol ==
  /\ \A t \in Txns :
       /\ phase[t] = "idle" <=> start[t] = 0
       /\ phase[t] \in {"idle", "begun", "prewriting", "prewrite_failed",
                        "prewritten"} => commitTs[t] = 0
       /\ phase[t] \in {"ready", "committing", "commit_unknown", "committed",
                        "aborted"} => commitTs[t] # 0
  /\ \A h \in Workers : job[h].rpc \in ClientRpcs /\ h \notin orphan =>
       phase[job[h].who] = Waiting(job[h].rpc)
  /\ \A g, h \in Workers :
       /\ job[g].rpc \in ClientRpcs /\ job[h].rpc \in ClientRpcs
       /\ job[g].who = job[h].who /\ g \notin orphan /\ h \notin orphan
       => g = h

\* Timestamps are drawn once and are all different.
Timestamps ==
  /\ \A t \in Txns : start[t] <= Len(issuedAt) /\ commitTs[t] <= Len(issuedAt)
  /\ \A t, u \in Txns : start[t] = start[u] /\ start[t] # 0 => t = u
  /\ \A t, u \in Txns : commitTs[t] = commitTs[u] /\ commitTs[t] # 0 => t = u
  /\ \A t, u \in Txns : commitTs[t] # 0 => commitTs[t] # start[u]

\* A lock, in the LOCK partition or in a handler's hands, names a begun
\* transaction and that transaction's primary.
LockOK(l) ==
  l # NoLock => \E t \in Txns : /\ start[t] = l.start /\ start[t] # 0
                                /\ l.primary = Primary(t)

Locks ==
  /\ \A k \in Keys : LockOK(lock[k])
  /\ \A h \in Workers : LockOK(copy[h])

\* A record is a commit of some transaction at its commit timestamp, or a
\* rollback of one at its start timestamp.
RecordOK(r) ==
  \E t \in Txns :
    /\ start[t] = r.start /\ start[t] # 0
    /\ r.op # "Rollback" => commitTs[t] = r.ts /\ commitTs[t] # 0
    /\ r.op = "Rollback" => r.ts = r.start

Records == \A k \in Keys : \A r \in write[k] : RecordOK(r)

\* What a handler relies on when it commits a secondary or rolls forward.
CommitPointKnown ==
  /\ \A h \in Workers :
       pc[h] \in {"cm_secondary", "cm_write_secondary"} =>
         PrimaryCommitted(job[h].who)
  /\ \A h \in Workers :
       pc[h] = "rs_apply" /\ found[h] > 0 =>
         \E t \in Txns : /\ start[t] = copy[h].start
                         /\ commitTs[t] = found[h] /\ commitTs[t] # 0
                         /\ PrimaryCommitted(t)
  /\ \A t \in Txns \ BatchClients : \A k \in Keys :
       CommittedOn(t, k) => PrimaryCommitted(t)
  /\ AckedIsCommitted

\* A value on its way to a reader, or delivered, is committed in its snapshot.
ReadOK(k, s, ts) ==
  \E t \in Txns : /\ start[t] = s /\ CommittedOn(t, k)
                  /\ commitTs[t] # 0 /\ commitTs[t] <= ts

Reads ==
  /\ \A h \in Workers : pc[h] = "get_data" =>
       ReadOK(job[h].key, found[h], readTs[job[h].who])
  /\ \A r \in Readers, k \in Keys :
       seen[r][k] > 0 => ReadOK(k, seen[r][k], readTs[r])

IInv ==
  /\ TypeOK /\ Control /\ Begun /\ Protocol /\ Timestamps
  /\ Locks /\ Records /\ CommitPointKnown /\ Reads

-----------------------------------------------------------------------------
(* Constants *)

\* An element of a sequence over S is in S.
LEMMA SeqElement ==
  ASSUME NEW S, NEW s \in Seq(S), NEW i \in 1..Len(s)
  PROVE  s[i] \in S
OBVIOUS

\* The keys, the primary and the operations of a transaction's mutations.
LEMMA MutationsType ==
  ASSUME NEW t \in Txns
  PROVE  /\ Len(Mutations[t]) \in Nat \ {0}
         /\ \A i \in 1..Len(Mutations[t]) : Key(t, i) \in Keys
         /\ Primary(t) \in Keys
         /\ KeysOf(t) \subseteq Keys
         /\ \A k \in KeysOf(t) : OpOn(t, k) \in Ops
<1>1. Mutations[t] \in Seq([key : Keys, op : Ops]) /\ Mutations[t] # <<>>
  BY ConstantsAssumption, Zenon
<1>2. Len(Mutations[t]) \in Nat \ {0}
  BY <1>1
<1>3. \A i \in 1..Len(Mutations[t]) : Mutations[t][i] \in [key : Keys, op : Ops]
  BY <1>1, SeqElement, Zenon
<1>4. \A i \in 1..Len(Mutations[t]) : Key(t, i) \in Keys
  BY <1>3 DEF Key
<1>5. \A k \in KeysOf(t) : OpOn(t, k) \in Ops
  <2>1. TAKE k \in KeysOf(t)
  <2>2. \E i \in 1..Len(Mutations[t]) : Key(t, i) = k
    BY DEF KeysOf
  <2>3. (CHOOSE i \in 1..Len(Mutations[t]) : Key(t, i) = k) \in 1..Len(Mutations[t])
    BY <2>2
  <2> QED
    BY <1>3, <2>3, Zenon DEF OpOn
<1> QED
  BY <1>2, <1>4, <1>5 DEF KeysOf, Primary

-----------------------------------------------------------------------------
(* Types and control *)

\* The initial state has its types, and every worker is idle.
LEMMA InitTypes == Init => TypeOK /\ Control
BY DEF Init, TypeOK, StoreOK, ClockOK, ClientsOK, WorkersOK, Control, JobOK,
       ResolveLabels, NoJob, NoLock, Jobs, Labels, Phases, Unread

\* A worker that returns is idle again, and no other worker is touched.
LEMMA ReleaseTypes ==
  ASSUME WorkersOK, Control, NEW h \in Workers, Release(h)
  PROVE  WorkersOK' /\ Control'
<1>1. WorkersOK'
  BY DEF WorkersOK, Release, Labels, Jobs
<1>2. ASSUME NEW g \in Workers  PROVE JobOK(g)'
  <2>1. CASE g = h
    BY <2>1 DEF WorkersOK, Release, JobOK, ResolveLabels, NoJob
  <2>2. CASE g # h
    <3>1. pc'[g] = pc[g] /\ job'[g] = job[g] /\ idx'[g] = idx[g] /\ copy'[g] = copy[g]
      BY <2>2 DEF WorkersOK, Release
    <3> QED
      BY <3>1 DEF Control, JobOK
  <2> QED
    BY <2>1, <2>2
<1> QED
  BY <1>1, <1>2 DEF Control

\* Gets are requests of readers, the other requests are of transactions.
LEMMA JobsByRpc ==
  ASSUME WorkersOK, NEW h \in Workers
  PROVE  /\ job[h] = NoJob <=> job[h].rpc = "none"
         /\ job[h].rpc = "get" => job[h].who \in Readers /\ job[h].key \in Keys
         /\ job[h].rpc \notin {"none", "get"} => job[h].who \in Txns
BY DEF WorkersOK, Jobs, NoJob

\* A handler that returns to a client keeps types and control.
LEMMA AnswerTypes ==
  ASSUME TypeOK, Control, NEW h \in Workers, NEW ok \in BOOLEAN, Answer(h, ok)
  PROVE  ClientsOK' /\ WorkersOK' /\ Control'
<1>1. WorkersOK' /\ Control'
  BY ReleaseTypes DEF TypeOK, Answer
<1>2. job[h].rpc \in ClientRpcs => job[h].who \in Txns
  BY JobsByRpc DEF TypeOK, ClientRpcs
<1>3. job[h].rpc \in ClientRpcs => AfterAnswer(job[h].rpc, ok) \in Phases
  BY DEF ClientRpcs, AfterAnswer, Phases
<1>4. phase' \in [Txns -> Phases]
  BY <1>2, <1>3 DEF Answer, TypeOK, ClientsOK, ClientRpcs
<1> QED
  BY <1>1, <1>4 DEF Answer, TypeOK, ClientsOK, readers

\* A get that returns a value, or none, keeps types and control.
LEMMA AnswerGetTypes ==
  ASSUME TypeOK, Control, NEW h \in Workers, NEW v \in Nat, AnswerGet(h, v),
         job[h].rpc = "get"
  PROVE  ClientsOK' /\ WorkersOK' /\ Control'
<1>1. WorkersOK' /\ Control'
  BY ReleaseTypes DEF TypeOK, AnswerGet
<1>2. job[h].who \in Readers /\ job[h].key \in Keys
  BY JobsByRpc DEF TypeOK
<1>3. seen' \in [Readers -> [Keys -> Nat \cup {Unread}]]
  BY <1>2 DEF AnswerGet, TypeOK, ClientsOK
<1> QED
  BY <1>1, <1>3 DEF AnswerGet, TypeOK, ClientsOK, clients

\* A worker that moves on to another label of the same request.
LEMMA GotoTypes ==
  ASSUME TypeOK, Control, NEW h \in Workers, NEW label \in Labels,
         Goto(h, label),
         \A g \in Workers \ {h} : idx'[g] = idx[g] /\ copy'[g] = copy[g],
         JobOK(h)'
  PROVE  /\ pc' \in [Workers -> Labels] /\ job' \in [Workers -> Jobs]
         /\ orphan' \subseteq Workers
         /\ Control'
<1>1. ASSUME NEW g \in Workers \ {h}  PROVE JobOK(g)'
  <2>1. pc'[g] = pc[g] /\ job'[g] = job[g] /\ idx'[g] = idx[g] /\ copy'[g] = copy[g]
    BY DEF Goto, TypeOK, WorkersOK
  <2> QED
    BY <2>1 DEF Control, JobOK
<1> QED
  BY <1>1 DEF Control, Goto, TypeOK, WorkersOK

\* The same, for a step whose effect on the worker's locals is known.
LEMMA MoveTypes ==
  ASSUME TypeOK, Control, NEW h \in Workers, NEW label \in Labels,
         Goto(h, label), UNCHANGED <<clients, readers>>,
         idx' \in [Workers -> Nat \ {0}],
         copy' \in [Workers -> Lock \cup {NoLock}],
         ttl' \in [Workers -> Nat],
         found' \in [Workers -> Nat],
         staged' \in [Workers -> SUBSET [key : Keys, op : Ops]],
         \A g \in Workers \ {h} : idx'[g] = idx[g] /\ copy'[g] = copy[g],
         JobOK(h)'
  PROVE  ClientsOK' /\ WorkersOK' /\ Control'
<1>1. /\ pc' \in [Workers -> Labels] /\ job' \in [Workers -> Jobs]
      /\ orphan' \subseteq Workers
      /\ Control'
  BY GotoTypes
<1> QED
  BY <1>1 DEF TypeOK, ClientsOK, WorkersOK, clients, readers

\* What a worker that stays at its request must keep of its locals.
LEMMA StayTypes ==
  ASSUME TypeOK, Control, NEW h \in Workers, NEW label \in Labels,
         Goto(h, label), UNCHANGED <<locals, clients, readers>>,
         JobOK(h)'
  PROVE  ClientsOK' /\ WorkersOK' /\ Control'
BY MoveTypes DEF TypeOK, WorkersOK, locals

\* A step that leaves store and clock alone keeps their types.
LEMMA KeptStore ==
  ASSUME TypeOK, UNCHANGED <<store, clock>>
  PROVE  StoreOK' /\ ClockOK'
BY DEF TypeOK, StoreOK, ClockOK, store, clock

\* MvccReader::get keeps types and control.
LEMMA GetTypes ==
  ASSUME TypeOK, Control, NEW h \in Workers,
         GetLock(h) \/ GetWrite(h) \/ GetData(h)
  PROVE  TypeOK' /\ Control'
<1>0. StoreOK' /\ ClockOK'
  BY KeptStore, Zenon DEF GetLock, GetWrite, GetData
<1>r. pc[h] \in {"get_lock", "get_write", "get_data"} /\ job[h].rpc = "get"
  BY Zenon DEF GetLock, GetWrite, GetData, Control, JobOK
<1>k. job[h].who \in Readers /\ job[h].key \in Keys
  BY <1>r, JobsByRpc DEF TypeOK
<1>1. CASE GetLock(h)
  <2> DEFINE l == lock[job[h].key]
  <2>1. CASE Goto(h, "get_write") /\ UNCHANGED <<locals, clients, readers>>
    <3>1. JobOK(h)'
      BY <1>1, <1>r, <2>1 DEF GetLock, Goto, locals, Control, JobOK, ResolveLabels,
         TypeOK, WorkersOK
    <3> QED
      BY <1>0, <2>1, <3>1, StayTypes DEF TypeOK, Labels
  <2>2. CASE /\ Blocks(l, readTs[job[h].who]) /\ Goto(h, "rs_scan")
             /\ copy' = [copy EXCEPT ![h] = [l EXCEPT !.ttl = ReadTtl, !.op = "Put"]]
             /\ UNCHANGED <<idx, ttl, found, staged, clients, readers>>
    <3>1. l \in Lock
      BY <1>k, <2>2 DEF Blocks, TypeOK, StoreOK
    <3>2. [l EXCEPT !.ttl = ReadTtl, !.op = "Put"] \in Lock
      BY <3>1, ConstantsAssumption, Zenon DEF Lock, Ops
    <3>3. copy' \in [Workers -> Lock \cup {NoLock}] /\ copy'[h] \in Lock
      BY <2>2, <3>2 DEF TypeOK, WorkersOK
    <3>4. JobOK(h)'
      BY <1>r, <2>2, <3>3 DEF Goto, Control, JobOK, ResolveLabels, TypeOK, WorkersOK
    <3> QED
      BY <1>0, <2>2, <3>3, <3>4, MoveTypes, Zenon DEF TypeOK, WorkersOK, Labels
  <2>3. CASE Answer(h, FALSE)
    BY <1>0, <2>3, AnswerTypes, Zenon DEF TypeOK
  <2> QED
    BY <1>1, <2>1, <2>2, <2>3, Zenon DEF GetLock
<1>2. CASE GetWrite(h)
  <2> DEFINE V == Visible(job[h].key, readTs[job[h].who])
  <2>1. ASSUME NEW r \in V, Goto(h, "get_data"),
               found' = [found EXCEPT ![h] = r.start],
               UNCHANGED <<idx, copy, ttl, staged, clients, readers>>
        PROVE  TypeOK' /\ Control'
    <3>1. r.start \in Nat
      BY <1>k DEF Visible, TypeOK, StoreOK, WriteRecord
    <3>2. found' \in [Workers -> Nat]
      BY <2>1, <3>1 DEF TypeOK, WorkersOK
    <3>3. JobOK(h)'
      BY <1>r, <2>1 DEF Goto, Control, JobOK, ResolveLabels, TypeOK, WorkersOK
    <3> QED
      BY <1>0, <2>1, <3>2, <3>3, MoveTypes DEF TypeOK, WorkersOK, Labels
  <2>2. CASE AnswerGet(h, 0)
    BY <1>0, <1>r, <2>2, AnswerGetTypes DEF TypeOK
  <2> QED
    BY <1>2, <2>1, <2>2 DEF GetWrite
<1>3. CASE GetData(h)
  <2>1. CASE AnswerGet(h, found[h])
    BY <1>0, <1>r, <2>1, AnswerGetTypes DEF TypeOK, WorkersOK
  <2>2. CASE Answer(h, FALSE)
    BY <1>0, <2>2, AnswerTypes, Zenon DEF TypeOK
  <2> QED
    BY <1>3, <2>1, <2>2, Zenon DEF GetData
<1> QED
  BY <1>1, <1>2, <1>3

\* The key a handler is at is one of its request's keys.
LEMMA CurKeyType ==
  ASSUME TypeOK, Control, NEW h \in Workers, job[h].rpc # "none"
  PROVE  /\ CurKey(h) \in Keys
         /\ job[h].rpc # "get" => CurKey(h) \in KeysOf(job[h].who)
<1>1. CASE job[h].rpc = "get"
  BY <1>1, JobsByRpc DEF TypeOK, CurKey
<1>2. CASE job[h].rpc # "get"
  <2>1. job[h].who \in Txns /\ idx[h] \in 1..Len(Mutations[job[h].who])
    BY <1>2, JobsByRpc DEF TypeOK, Control, JobOK
  <2> QED
    BY <1>2, <2>1, MutationsType DEF CurKey, KeysOf
<1> QED
  BY <1>1, <1>2

\* The batch that rolls a key back keeps the types of the store.
LEMMA RollBackTypes ==
  ASSUME TypeOK, NEW k \in Keys, NEW s \in Nat \ {0}, RollBackKey(k, s)
  PROVE  StoreOK'
<1>1. Rec(s, s, "Rollback") \in WriteRecord
  BY DEF Rec, WriteRecord
<1>2. Insert(write[k], Rec(s, s, "Rollback")) \in SUBSET WriteRecord
  BY <1>1 DEF Insert, TypeOK, StoreOK
<1> QED
  BY <1>2 DEF RollBackKey, TypeOK, StoreOK

\* The batch that commits a key keeps the types of the store.
LEMMA CommitKeyTypes ==
  ASSUME TypeOK, NEW k \in Keys, NEW s \in Nat \ {0}, NEW c \in Nat \ {0},
         NEW op \in Ops, CommitKey(k, s, c, op)
  PROVE  StoreOK'
<1>1. Rec(c, s, op) \in WriteRecord
  BY DEF Rec, WriteRecord
<1>2. Insert(write[k], Rec(c, s, op)) \in SUBSET WriteRecord
  BY <1>1 DEF Insert, TypeOK, StoreOK
<1> QED
  BY <1>2 DEF CommitKey, TypeOK, StoreOK

\* The result of check_txn_status is handed on with its type.
LEMMA StatusTypes ==
  ASSUME TypeOK, Control, NEW h \in Workers, pc[h] \in ResolveLabels,
         NEW c \in Nat, StatusIs(h, c)
  PROVE  ClientsOK' /\ WorkersOK' /\ Control'
<1>1. CASE Answer(h, TRUE)
  BY <1>1, AnswerTypes, Zenon
<1>2. CASE /\ job[h].rpc # "status" /\ Goto(h, "rs_apply")
           /\ found' = [found EXCEPT ![h] = c]
           /\ UNCHANGED <<idx, copy, ttl, staged, clients, readers>>
  <2>1. JobOK(h)'
    BY <1>2 DEF Goto, Control, JobOK, ResolveLabels, TypeOK, WorkersOK
  <2> QED
    BY <1>2, <2>1, MoveTypes DEF TypeOK, WorkersOK, Labels
<1> QED
  BY <1>1, <1>2, Zenon DEF StatusIs

\* The return from resolve_lock goes on with the request that met the lock.
LEMMA ResolvedTypes ==
  ASSUME TypeOK, Control, NEW h \in Workers,
         pc[h] \in {"rs_apply", "rs_locked"}, Resolved(h)
  PROVE  ClientsOK' /\ WorkersOK' /\ Control'
<1>1. job[h].rpc \in {"get", "prewrite"}
  BY DEF Control, JobOK, ResolveLabels
<1>2. PICK label \in {"get_lock", "pw_write", "pw_recheck"} :
        /\ Goto(h, label)
        /\ label = "get_lock" <=> job[h].rpc = "get"
  BY <1>1 DEF Resolved
<1>3. /\ idx' \in [Workers -> Nat \ {0}]
      /\ copy' \in [Workers -> Lock \cup {NoLock}]
      /\ ttl' \in [Workers -> Nat]
      /\ found' \in [Workers -> Nat]
      /\ staged' \in [Workers -> SUBSET [key : Keys, op : Ops]]
      /\ \A g \in Workers \ {h} : idx'[g] = idx[g] /\ copy'[g] = copy[g]
      /\ idx'[h] = IF job[h].rpc = "get" THEN 2 ELSE idx[h]
  BY DEF Resolved, TypeOK, WorkersOK
<1>4. JobOK(h)'
  BY <1>1, <1>2, <1>3 DEF Goto, Control, JobOK, ResolveLabels, TypeOK, WorkersOK
<1>5. UNCHANGED <<clients, readers>>
  BY DEF Resolved
<1> QED
  BY <1>2, <1>3, <1>4, <1>5, MoveTypes DEF Labels

\* check_txn_status and resolve_lock keep types and control.
LEMMA ResolveTypes ==
  ASSUME TypeOK, Control, NEW h \in Workers,
         \/ ResolveScan(h) \/ ResolvePrimary(h) \/ ResolveExpire(h)
         \/ ResolveApply(h) \/ ResolveLocked(h)
  PROVE  TypeOK' /\ Control'
<1>r. pc[h] \in ResolveLabels /\ copy[h] \in Lock /\ job[h].rpc # "none"
  BY Zenon DEF ResolveScan, ResolvePrimary, ResolveExpire, ResolveApply,
         ResolveLocked, Control, JobOK, ResolveLabels
<1>l. /\ copy[h].primary \in Keys /\ copy[h].start \in Nat \ {0}
      /\ copy[h].ttl \in Nat /\ copy[h].op \in Ops
  BY <1>r DEF Lock
<1>k. CurKey(h) \in Keys
  BY <1>r, CurKeyType
<1>1. CASE ResolveScan(h)
  <2>0. StoreOK' /\ ClockOK'
    BY <1>1, KeptStore DEF ResolveScan
  <2>1. ASSUME NEW r \in write[copy[h].primary], StatusIs(h, StatusOf(r))
        PROVE  ClientsOK' /\ WorkersOK' /\ Control'
    <3>1. StatusOf(r) \in Nat
      BY <1>l DEF StatusOf, TypeOK, StoreOK, WriteRecord
    <3> QED
      BY <1>r, <2>1, <3>1, StatusTypes
  <2>2. CASE Goto(h, "rs_primary") /\ UNCHANGED <<locals, clients, readers>>
    <3>1. JobOK(h)'
      BY <1>r, <2>2 DEF Goto, locals, Control, JobOK, ResolveLabels, TypeOK, WorkersOK
    <3> QED
      BY <2>0, <2>2, <3>1, StayTypes DEF Labels, TypeOK
  <2> QED
    BY <1>1, <2>0, <2>1, <2>2, Zenon DEF ResolveScan, TypeOK
<1>2. CASE ResolvePrimary(h)
  <2>0. StoreOK' /\ ClockOK'
    BY <1>2, KeptStore DEF ResolvePrimary
  <2>1. CASE /\ Goto(h, "rs_expire")
             /\ ttl' = [ttl EXCEPT ![h] = lock[copy[h].primary].ttl]
             /\ UNCHANGED <<idx, copy, found, staged, clients, readers>>
    <3>1. lock[copy[h].primary].ttl \in Nat
      BY <1>l DEF TypeOK, StoreOK, Lock, NoLock
    <3>2. JobOK(h)'
      BY <1>r, <2>1 DEF Goto, Control, JobOK, ResolveLabels, TypeOK, WorkersOK
    <3>3. ClientsOK' /\ WorkersOK' /\ Control'
      BY <2>1, <3>1, <3>2, MoveTypes, Zenon DEF TypeOK, WorkersOK, Labels
    <3> QED
      BY <2>0, <3>3 DEF TypeOK
  <2>2. CASE StatusIs(h, 0)
    BY <1>r, <2>0, <2>2, StatusTypes DEF TypeOK
  <2> QED
    BY <1>2, <2>1, <2>2 DEF ResolvePrimary
<1>3. CASE ResolveExpire(h)
  <2>0. ClockOK'
    BY <1>3, Zenon DEF ResolveExpire, TypeOK, ClockOK, clock
  <2>1. CASE RollBackKey(copy[h].primary, copy[h].start) /\ StatusIs(h, 0)
    BY <1>r, <1>l, <2>0, <2>1, StatusTypes, RollBackTypes DEF TypeOK
  <2>2. CASE Answer(h, TRUE) /\ UNCHANGED store
    BY <2>0, <2>2, AnswerTypes, Zenon DEF TypeOK, StoreOK, store
  <2>3. CASE /\ job[h].rpc # "status" /\ Goto(h, "rs_locked")
             /\ UNCHANGED <<store, locals, clients, readers>>
    <3>1. JobOK(h)'
      BY <1>r, <2>3 DEF Goto, locals, Control, JobOK, ResolveLabels, TypeOK, WorkersOK
    <3> QED
      BY <2>0, <2>3, <3>1, StayTypes DEF Labels, TypeOK, StoreOK, store
  <2> QED
    BY <1>3, <2>1, <2>2, <2>3, Zenon DEF ResolveExpire
<1>4. CASE ResolveApply(h)
  <2>0. ClockOK' /\ found[h] \in Nat
    BY <1>4 DEF ResolveApply, TypeOK, ClockOK, WorkersOK, clock
  <2>1. StoreOK'
    <3>1. CASE found[h] > 0
      <4>1. found[h] \in Nat \ {0}
        BY <2>0, <3>1
      <4> QED
        BY <1>4, <1>l, <1>k, <3>1, <4>1, CommitKeyTypes DEF ResolveApply
    <3>2. CASE ~(found[h] > 0)
      BY <1>4, <1>l, <1>k, <3>2, RollBackTypes DEF ResolveApply
    <3> QED
      BY <3>1, <3>2
  <2> QED
    BY <1>4, <2>0, <2>1, ResolvedTypes DEF ResolveApply, TypeOK
<1>5. CASE ResolveLocked(h)
  <2>0. ClockOK'
    BY <1>5 DEF ResolveLocked, TypeOK, ClockOK, clock
  <2>1. CASE RollBackKey(CurKey(h), copy[h].start) /\ Resolved(h)
    BY <1>5, <1>l, <1>k, <2>0, <2>1, RollBackTypes, ResolvedTypes DEF ResolveLocked,
       TypeOK
  <2>2. CASE Answer(h, FALSE) /\ UNCHANGED store
    BY <2>0, <2>2, AnswerTypes, Zenon DEF TypeOK, StoreOK, store
  <2> QED
    BY <1>5, <2>1, <2>2, Zenon DEF ResolveLocked
<1> QED
  BY <1>1, <1>2, <1>3, <1>4, <1>5
=============================================================================
