----------------------------- MODULE MvccStore -----------------------------
(***************************************************************************)
(* The three partitions at the level of encoded keys: a version of a user  *)
(* key is stored under the key's bytes followed by the inverted timestamp  *)
(* (storage/src/mvcc/key.rs), and every loop that looks for versions walks *)
(* these byte strings in their order and stops, or starts anew, where the  *)
(* decoded user key changes.  Nothing separates key and timestamp, so this *)
(* order is the order of user keys only if no key extends another.         *)
(*                                                                         *)
(* Calls run one after the other: TransactionCoordinator has their         *)
(* interleavings.  A call may be cut off by a crash between two keys.      *)
(* Time is left out: a lock may be found expired, or not, at any call.     *)
(* One digit stands for the eight bytes of a timestamp.                    *)
(***************************************************************************)
EXTENDS Integers, Sequences, SequencesExt, FiniteSetsExt

CONSTANTS Keys,        \* user keys, sequences of bytes
          Workloads,   \* sets of writes: keys, primary first, and operation
          Scans,       \* ranges lo, hi that are scanned, and limits; <<>> and 0 are none
          MaxByte,     \* the largest byte; as a timestamp, u64::MAX
          MaxTs,       \* timestamps are issued up to this one
          MaxTxns,     \* so many transactions are begun
          SplitKeys,   \* keys at which a split is recommended: 10000 in the code
          SplitBytes   \* bytes at which a split is recommended: 64 MB in the code

Bounds == Keys \cup {<<>>}

ASSUME StoreAssumption ==
  /\ {MaxByte, MaxTs, MaxTxns, SplitKeys, SplitBytes} \subseteq Nat
  /\ Keys \subseteq Seq(0 .. MaxByte)
  /\ <<>> \notin Keys
  /\ \A w \in UNION Workloads :
       /\ w.keys \in Seq(Keys) /\ Len(w.keys) \in 1 .. 2 /\ IsInjective(w.keys)
       /\ w.op \in {"put", "delete"}
  /\ Scans \subseteq [lo : Bounds, hi : Bounds, limit : Nat]
  /\ MaxTs < MaxByte

VARIABLES
  clock,      \* the timestamp issued last
  begun,      \* transactions: what they write, and their start timestamp
  db,         \* the partitions LOCK, WRITE (records) and DEFAULT ((key, start_ts) pairs)
  rolled,     \* (key, start_ts) pairs that were rolled back
  unchecked   \* <<key, start_ts, start_ts'>>: prewrite of the second transaction
              \* has committed the first after its conflict check

vars == <<clock, begun, db, rolled, unchecked>>

NoLock == [start |-> 0, op |-> "none", primary |-> <<>>]

Rec(k, t, s, o) == [key |-> k, ts |-> t, start |-> s, op |-> o]

-----------------------------------------------------------------------------
(* KeyEncoder and the order of byte strings.                               *)

\* The order of Vec<u8>: the first difference decides, a prefix comes first.
Less(a, b) ==
  \E i \in 1 .. Len(b) :
    /\ i = Len(a) + 1 \/ (i <= Len(a) /\ a[i] < b[i])
    /\ \A j \in 1 .. i - 1 : a[j] = b[j]

\* A bug: the timestamp is not inverted.
EncodeUpward(k, t) == Append(k, t)

Encode(k, t) == Append(k, MaxByte - t)

EncodedKey(w) == Encode(w.key, w.ts)

AllEncoded == {Encode(k, t) : k \in Keys, t \in 0 .. MaxByte}

\* The place of an encoded key in the order of the partition.
Place ==
  [k \in Keys |-> [t \in 0 .. MaxByte |->
     Cardinality({e \in AllEncoded : Less(e, Encode(k, t))})]]

PlaceOf(w) == Place[w.key][w.ts]

Before(v, w) == PlaceOf(v) < PlaceOf(w)

\* The records of W that a range scan from Encode(k, t) meets.
From(W, k, t) == LET p == Place[k][t] IN {w \in W : PlaceOf(w) >= p}

\* Of the records in F, the ones that a loop over key k reaches: it ends at the
\* first record of another key.
BeforeOthers(F, k) == {w \in F : w.key = k /\ \A v \in F : v.key = k \/ Before(w, v)}

Reached(W, k, t) == BeforeOthers(From(W, k, t), k)

First(W) == CHOOSE w \in W : \A v \in W : v = w \/ Before(w, v)

\* v and w are in one stretch of records of the same key.
SameStretch(W, v, w) ==
  v.key = w.key /\ \A u \in W : u.key = w.key \/ Before(u, v) \/ Before(w, u)

\* The first records of the stretches in W: where a loop that remembers the last
\* user key sees another one.
Heads(W) == {w \in W : ~ \E v \in W : v.key = w.key /\ Before(v, w)
                                    /\ ~ \E u \in W : Before(v, u) /\ Before(u, w)}

\* A record is stored under its encoded key and replaces what is there.
Insert(W, w) == {v \in W : EncodedKey(v) # EncodedKey(w)} \cup {w}

-----------------------------------------------------------------------------
(* MvccReader::get.                                                        *)

\* The records that get returns a value or a deletion for: the first of them
\* does.
Get(W, k, t) == {w \in Reached(W, k, t) : w.ts <= t /\ w.op # "rollback"}

Blocked(d, k, t) == d.lock[k] # NoLock /\ d.lock[k].start <= t

\* What get makes of these records: None, a value, or CorruptedState for a version
\* whose value is missing.
Answer(G, D) ==
  IF G = {} \/ First(G).op = "delete" THEN "none"
  ELSE IF <<First(G).key, First(G).start>> \in D THEN "value" ELSE "corrupted"

\* get fails with KeyIsLocked before it looks at records.
Read(d, k, t) ==
  IF Blocked(d, k, t) THEN "locked" ELSE Answer(Get(d.write, k, t), d.data)

-----------------------------------------------------------------------------
(* LockResolver.  The locks on the keys in late have outlived the TTL they *)
(* are judged by.                                                          *)

\* A bug: the search begins at the newest timestamp but one.
SeekOlder == IF clock = 0 THEN 0 ELSE clock - 1

\* Where prewrite and check_txn_status begin to search: u64::MAX.
SeekNewest == MaxByte

\* check_txn_status: the first of these records tells the outcome.
Found(W, k, s) == {w \in Reached(W, k, SeekNewest) : w.start = s}

\* What the records in F say, and what is assumed when there is none.
OutcomeIn(F, otherwise) ==
  IF F = {} THEN otherwise
  ELSE IF First(F).op = "rollback" THEN "rolled_back" ELSE "committed"

Status(W, k, s) == OutcomeIn(Found(W, k, s), "unknown")

RollBackKey(d, k, s) ==
  [d EXCEPT !.write = Insert(@, Rec(k, s, s, "rollback")), !.lock[k] = NoLock]

CommitKey(d, k, c, s, o) ==
  [d EXCEPT !.write = Insert(@, Rec(k, c, s, o)), !.lock[k] = NoLock]

\* The primary lock is there.
Held(d, l) == d.lock[l.primary].start = l.start

\* The status of the transaction of lock l, whose records at the primary are F.
TxnStatus(d, l, F) == OutcomeIn(F, IF Held(d, l) THEN "locked" ELSE "rolled_back")

\* check_txn_status rolls an expired primary back.
Checked(d, l, late, F) ==
  IF F = {} /\ Held(d, l) /\ l.primary \in late THEN RollBackKey(d, l.primary, l.start)
  ELSE d

VerdictOn(status, expired) ==
  CASE status = "committed" -> "forward"
    [] status = "rolled_back" -> "back"
    [] status = "locked" -> IF expired THEN "back" ELSE "wait"

ResolvedTo(d, k, l, late, F, verdict) ==
  CASE verdict = "forward" -> CommitKey(d, k, First(F).ts, l.start, l.op)
    [] verdict = "back" -> RollBackKey(Checked(d, l, late, F), k, l.start)
    [] verdict = "wait" -> d

Expired(k, l, late) == k \in late \/ l.primary \in late

ResolvedBy(d, k, l, late, F) ==
  ResolvedTo(d, k, l, late, F, VerdictOn(TxnStatus(d, l, F), Expired(k, l, late)))

\* What resolve_lock does with lock l on key k, and the store it leaves behind.
Verdict(d, k, l, late) ==
  VerdictOn(TxnStatus(d, l, Found(d.write, l.primary, l.start)), Expired(k, l, late))

Resolved(d, k, l, late) == ResolvedBy(d, k, l, late, Found(d.write, l.primary, l.start))

-----------------------------------------------------------------------------
(* TransactionCoordinator::get and scan: what they answer, and the store   *)
(* they leave behind.                                                      *)

AnswerOf(d, k, t) == [answer |-> Read(d, k, t), db |-> d]

\* A lock in the way is resolved, as one of a put, and the key read again.
GetResult(d, k, t, late) ==
  AnswerOf(IF Blocked(d, k, t) THEN Resolved(d, k, [d.lock[k] EXCEPT !.op = "put"], late)
           ELSE d,
           k, t)

\* A bug: the end of the range is part of it.
PastEndIncluded(k, hi) == hi # <<>> /\ Less(hi, k)

PastEnd(k, hi) == hi # <<>> /\ ~Less(k, hi)

\* The records at which scan turns to a key.  It passes over keys before lo and
\* ends at the first key past hi.
Visited(W, lo, hi, t) ==
  LET met == IF lo = <<>> THEN W ELSE {w \in From(W, lo, t) : ~Less(w.key, lo)}
      past == {w \in met : PastEnd(w.key, hi)}
  IN  Heads({w \in met : \A v \in past : Before(w, v)})

\* The result r of scan, with what get has returned for the next key.
WithKey(r, k, g) ==
  [db    |-> g.db,
   keys  |-> IF g.answer = "value" THEN Append(r.keys, k) ELSE r.keys,
   error |-> g.answer \in {"locked", "corrupted"}]

\* One turn of scan's loop, which ends with an error or at the limit.
ScanKey(r, k, limit, t, late) ==
  IF r.error \/ (limit > 0 /\ Len(r.keys) >= limit) THEN r
  ELSE WithKey(r, k, GetResult(r.db, k, t, late))

\* The iterator of scan does not see what scan itself writes.
ScanResult(d, lo, hi, limit, t, late) ==
  LET turn(r, w) == ScanKey(r, w.key, limit, t, late)
  IN  FoldLeft(turn, [db |-> d, keys |-> <<>>, error |-> FALSE],
               SetToSortSeq(Visited(d.write, lo, hi, t), Before))

-----------------------------------------------------------------------------
(* Regions.                                                                *)

\* The keys from lo up to hi, where <<>> is no bound.
KeysFrom ==
  [lo \in Bounds |-> [hi \in Bounds |->
     {k \in Keys : (lo = <<>> \/ ~Less(k, lo)) /\ (hi = <<>> \/ Less(k, hi))}]]

InRange(k, lo, hi) == k \in KeysFrom[lo][hi]

RecordsIn(lo, hi) == {w \in db.write : InRange(w.key, lo, hi)}

\* get_keys_in_range.
KeysInRange(lo, hi) == SetToSortSeq({w.key : w \in RecordsIn(lo, hi)}, Less)

\* A bug: one key too early.
MiddleBefore(n) == n \div 2

\* The place of the median among n sorted keys, counted from 1.
Middle(n) == n \div 2 + 1

FindMedianKey(lo, hi) ==
  LET ks == KeysInRange(lo, hi)
  IN  IF Len(ks) < 2 THEN <<>> ELSE ks[Middle(Len(ks))]

\* calculate_region_stats: stretches of records, and the bytes of their encoded
\* keys and values.
KeyCount(lo, hi) == Cardinality(Heads(RecordsIn(lo, hi)))

RecordBytes(w) == Len(EncodedKey(w)) + 1

TotalBytes(lo, hi) == MapThenSumSet(RecordBytes, RecordsIn(lo, hi))

\* KvService::report_region_stats of a region [lo, hi).
SplitRecommended(lo, hi) ==
  KeyCount(lo, hi) >= SplitKeys \/ TotalBytes(lo, hi) >= SplitBytes

SuggestedSplitKey(lo, hi) ==
  IF SplitRecommended(lo, hi) THEN FindMedianKey(lo, hi) ELSE <<>>

-----------------------------------------------------------------------------
(* The calls that change the store.                                        *)

\* What a transaction writes.
Writes(x) == [keys |-> x.keys, op |-> x.op]

Begin(w) ==
  /\ clock < MaxTs /\ Cardinality(begun) < MaxTxns
  /\ \E load \in Workloads : {w} \cup {Writes(x) : x \in begun} \subseteq load
  /\ clock' = clock + 1
  /\ begun' = begun \cup {[keys |-> w.keys, op |-> w.op, start |-> clock']}
  /\ UNCHANGED <<db, rolled, unchecked>>

\* The store becomes d, by a call in which only the resolver writes records.
Resolves(d) ==
  /\ db' = d
  /\ rolled' = rolled \cup
       {<<w.key, w.start>> : w \in {v \in d.write \ db.write : v.op = "rollback"}}
  /\ UNCHANGED <<clock, begun>>

\* A get or scan that meets no lock changes nothing.
GetCall(k, t, late) ==
  /\ Blocked(db, k, t)
  /\ Resolves(GetResult(db, k, t, late).db)
  /\ UNCHANGED unchecked

ScanCall(lo, hi, limit, t, late) ==
  /\ \E k \in Keys : Blocked(db, k, t)
  /\ Resolves(ScanResult(db, lo, hi, limit, t, late).db)
  /\ UNCHANGED unchecked

\* A bug: when the other transaction began decides, not when it committed.
IsConflictByStart(w, s) == w.start >= s

\* A version that prewrite at start timestamp s may not overwrite.
IsConflict(w, s) == w.ts >= s \/ (w.start = s /\ w.op = "rollback")

Conflicts(W, k, s) == {w \in Reached(W, k, SeekNewest) : IsConflict(w, s)}

Foreign(d, k, s) == d.lock[k] # NoLock /\ d.lock[k].start # s

\* prewrite of one key: conflicts first, then the lock of another transaction.
MayPrewrite(d, k, s, late) ==
  /\ Conflicts(d.write, k, s) = {}
  /\ Foreign(d, k, s) => Verdict(d, k, d.lock[k], late) # "wait"

PrewriteKey(d, k, x, late) ==
  LET free == IF Foreign(d, k, x.start) THEN Resolved(d, k, d.lock[k], late) ELSE d
  IN  [free EXCEPT !.lock[k] = [start |-> x.start, op |-> x.op, primary |-> x.keys[1]],
                   !.data = IF x.op = "put" THEN @ \cup {<<k, x.start>>} ELSE @]

\* prewrite of the second key, in the store that the first one leaves behind.
PrewriteSecond(d, x, late) ==
  /\ MayPrewrite(d, x.keys[2], x.start, late)
  /\ Resolves(PrewriteKey(d, x.keys[2], x, late))

\* prewrite of the first n keys, which may be repeated and may come after a
\* rollback: all keys, or those before one it may not lock, or before a crash.
Prewrite(x, n, late) ==
  /\ MayPrewrite(db, x.keys[1], x.start, late)
  /\ \/ n = 1 /\ Resolves(PrewriteKey(db, x.keys[1], x, late))
     \/ n = 2 /\ PrewriteSecond(PrewriteKey(db, x.keys[1], x, late), x, late)
  /\ unchecked' = unchecked \cup
       {<<w.key, w.start, x.start>> :
          w \in {v \in db'.write \ db.write : v.op # "rollback"}}

\* commit of the primary, and of the secondary if its lock is still there and the
\* node does not crash in between.
Commit(x, n) ==
  LET d == CommitKey(db, x.keys[1], clock + 1, x.start, db.lock[x.keys[1]].op)
  IN  /\ db.lock[x.keys[1]].start = x.start
      /\ clock < MaxTs
      /\ clock' = clock + 1
      /\ db' = IF n = 2 /\ d.lock[x.keys[2]].start = x.start
               THEN CommitKey(d, x.keys[2], clock', x.start, d.lock[x.keys[2]].op)
               ELSE d
      /\ UNCHANGED <<begun, rolled, unchecked>>

\* A bug: only a lock is taken away.
RolledBackUnrecorded(d, k, s) ==
  IF d.lock[k].start = s THEN [d EXCEPT !.lock[k] = NoLock] ELSE d

\* rollback of one key removes its own lock only.
RolledBack(d, k, s) ==
  IF d.lock[k].start = s THEN RollBackKey(d, k, s)
  ELSE [d EXCEPT !.write = Insert(@, Rec(k, s, s, "rollback"))]

\* rollback of the first n keys, which may come before the prewrite and after the
\* commit.
Rollback(x, n) ==
  LET d == RolledBack(db, x.keys[1], x.start)
  IN  /\ db' = IF n = 2 THEN RolledBack(d, x.keys[2], x.start) ELSE d
      /\ rolled' = rolled \cup {<<x.keys[i], x.start>> : i \in 1 .. n}
      /\ UNCHANGED <<clock, begun, unchecked>>

IsOld(w, sp) == w.ts < sp

\* A bug: no old version is kept.
GarbageAll(W, sp) == {w \in W : IsOld(w, sp)}

\* The old records that have an old record before them in their stretch.
Garbage(W, sp) ==
  {w \in W : IsOld(w, sp)
     /\ \E v \in W : IsOld(v, sp) /\ Before(v, w) /\ SameStretch(W, v, w)}

\* gc_keys_older_than: the record goes, and the value under its start timestamp.
Gc(sp) ==
  LET G == Garbage(db.write, sp)
  IN  /\ G # {}
      /\ db' = [db EXCEPT !.write = @ \ G,
                          !.data = @ \ {<<w.key, w.start>> : w \in G}]
      /\ UNCHANGED <<clock, begun, rolled, unchecked>>

Stamps == 1 .. MaxTs

SafePoints == 2 .. MaxTs + 1

Lates == SUBSET {k \in Keys : db.lock[k] # NoLock}

Init ==
  /\ clock = 0
  /\ begun = {}
  /\ db = [lock |-> [k \in Keys |-> NoLock], write |-> {}, data |-> {}]
  /\ rolled = {}
  /\ unchecked = {}

Next ==
  \/ \E w \in UNION Workloads : Begin(w)
  \/ \E x \in begun : \E n \in 1 .. Len(x.keys) :
       \/ \E late \in Lates : Prewrite(x, n, late)
       \/ Commit(x, n)
       \/ Rollback(x, n)
  \/ \E late \in Lates, t \in 1 .. clock :
       \/ \E k \in Keys : GetCall(k, t, late)
       \/ \E c \in Scans : ScanCall(c.lo, c.hi, c.limit, t, late)
  \/ \E sp \in SafePoints : Gc(sp)

Spec == Init /\ [][Next]_vars

-----------------------------------------------------------------------------
(* Reference definitions: the versions of a key as a set.                  *)

Versions(d, k) == {w \in d.write : w.key = k}

Newest(W) == CHOOSE w \in W : \A v \in W : v.ts <= w.ts

Visible(d, k, t) == {w \in Versions(d, k) : w.ts <= t /\ w.op # "rollback"}

ValueAt(d, k, t) ==
  LET V == Visible(d, k, t)
  IN  IF V = {} \/ Newest(V).op = "delete" THEN 0 ELSE Newest(V).start

Recorded == {w.key : w \in db.write}

Outcome(k, s) ==
  {IF w.op = "rollback" THEN "rolled_back" ELSE "committed" :
     w \in {v \in Versions(db, k) : v.start = s}}

\* The keys that extend a key.
Extensions == [k \in Keys |-> {j \in Keys : IsStrictPrefix(k, j)}]

Extended(k) == \E w \in db.write : w.key \in Extensions[k]

\* No recorded key is a proper prefix of another one.
PrefixFree == \A k \in Recorded : ~Extended(k)

\* A recorded key that goes on after k with a byte of the range of timestamps
\* from t down: its versions lie between those of k.
Interleaved(k, t) ==
  \E w \in db.write : w.key \in Extensions[k] /\ w.key[Len(k) + 1] >= MaxByte - t

-----------------------------------------------------------------------------
(* Properties.                                                             *)

\* MvccReader::get returns the newest version of its key at its timestamp, also
\* next to keys that extend it, as long as they go on with a byte that is
\* smaller than any inverted timestamp (text does: the first byte of a present
\* timestamp inverts to 254).
ReadsNewest ==
  \A k \in Keys, t \in Stamps : ~Interleaved(k, t) =>
    LET G == Get(db.write, k, t)
        V == Visible(db, k, t)
    IN  IF V = {} THEN G = {} ELSE G # {} /\ First(G) = Newest(V)

\* prewrite finds every conflict, and check_txn_status an outcome that is
\* recorded, on a key that no other recorded key extends.  (Their search begins
\* before every longer key, and ends there.)
SearchesAreExact ==
  \A k \in Keys, s \in Stamps : ~Extended(k) =>
    /\ Conflicts(db.write, k, s) =
         {w \in Versions(db, k) : w.ts >= s \/ (w.start = s /\ w.op = "rollback")}
    /\ IF Outcome(k, s) = {} THEN Status(db.write, k, s) = "unknown"
       ELSE Status(db.write, k, s) \in Outcome(k, s)

\* Two committed versions of a key do not overlap, over late and repeated calls,
\* lock resolution and garbage collection, on keys that no key in use extends:
\* the second transaction began after the first had committed.  The exception
\* is a prewrite that has itself rolled the first forward, which it does after
\* its conflict check.
NoLostVersion ==
  \A k \in Keys : Extensions[k] = {} =>
    \A v, w \in {u \in Versions(db, k) : u.op # "rollback"} :
      v.ts < w.ts => v.ts < w.start \/ <<k, v.start, w.start>> \in unchecked

\* The versions of different transactions do not overlap on any key: prewrite is
\* to "Check write conflict & permanent rollback record".
NoLostVersionOfAnyKey ==
  \A k \in Keys : \A v, w \in {u \in Versions(db, k) : u.op # "rollback"} :
    v.ts < w.ts /\ v.start # w.start => v.ts < w.start

\* A transaction that was rolled back on a key, by its client or by a resolver,
\* is not committed there afterwards, by its commit or by a resolver, although
\* its prewrite may arrive late and garbage collection may have removed the
\* rollback record.
RolledBackStaysOut ==
  [][\A w \in db'.write \ db.write :
       w.op # "rollback" => <<w.key, w.start>> \notin rolled \/ Extensions[w.key] # {}]_vars

\* The keys between lo and hi that have a value at time t, and the first of them.
Valued(d, lo, hi, t) == {k \in KeysFrom[lo][hi] : ValueAt(d, k, t) # 0}

FirstKeys(K, limit) ==
  LET ks == SetToSortSeq(K, Less)
  IN  IF limit = 0 THEN ks ELSE SubSeq(ks, 1, IF limit < Len(ks) THEN limit ELSE Len(ks))

\* Why scan may fail: a lock of a living transaction that has not expired, or a
\* version whose value is gone.
MayFail(d, lo, hi, t, late) ==
  \E k \in KeysFrom[lo][hi] :
    LET l == d.lock[k]
        V == Visible(d, k, t)
    IN  \/ Blocked(d, k, t) /\ d.lock[l.primary].start = l.start /\ {k, l.primary} \cap late = {}
        \/ V # {} /\ Newest(V).op = "put" /\ <<k, Newest(V).start>> \notin d.data

\* The answer of scan is right for the store that scan leaves behind.
Exact(scan, c, t, late) ==
  IF scan.error THEN MayFail(scan.db, c.lo, c.hi, t, late)
  ELSE /\ scan.keys = FirstKeys(Valued(scan.db, c.lo, c.hi, t), c.limit)
       /\ c.limit = 0 => \A k \in KeysFrom[c.lo][c.hi] :
            Blocked(scan.db, k, t) => \A w \in Versions(scan.db, k) : w.ts > t

\* A scan that succeeds returns the keys of the range that have a value at its
\* timestamp in the store it leaves behind, in order and up to the limit; it has
\* resolved the lock of every key of the range that has a record at or before
\* its timestamp.  It fails only at the lock of a living transaction, or at a
\* version that has no value.  Both provided that no recorded key extends
\* another one or the start of the range.
ScanIsExact ==
  PrefixFree =>
    \A c \in {b \in Scans : b.lo = <<>> \/ ~Extended(b.lo)},
       t \in 1 .. clock, late \in Lates :
      Exact(ScanResult(db, c.lo, c.hi, c.limit, t, late), c, t, late)

\* A step of garbage collection, which always removes records.
Collects(sp) == ~(db.write \subseteq db'.write) /\ Gc(sp)

\* Garbage collection does not change what is read at or after its safe point,
\* unless the newest record before it is a rollback (which is kept in place of
\* the newest committed version), and it keeps the value of a version that is
\* left, unless the transaction has another record on the key: a rollback that
\* came after its commit has the start timestamp of the value too.
GcKeepsReads ==
  [][\A sp \in SafePoints : Collects(sp) => \A k \in Keys :
       LET old == {w \in Versions(db, k) : w.ts < sp}
       IN  /\ old # {} /\ Newest(old).op # "rollback" =>
                \A t \in sp .. MaxTs : ValueAt(db', k, t) = ValueAt(db, k, t)
           /\ \A w \in Versions(db', k) :
                w.op = "put" /\ {v \in Versions(db, k) : v.start = w.start} = {w}
                  => (<<k, w.start>> \in db.data => <<k, w.start>> \in db'.data)]_vars

\* Garbage collection changes what a resolver will do with a pending lock in one
\* case only: it has removed the commit record of a primary on which a newer
\* record exists before the safe point, and then the lock is rolled back.  The
\* lock of a transaction that is alive stays, and one of a transaction that was
\* rolled back is never rolled forward, with or without its rollback record.
GcKeepsVerdicts ==
  [][\A sp \in SafePoints : Collects(sp) => \A k \in {j \in Keys : db.lock[j] # NoLock} :
       LET l == db.lock[k]
           own == {v \in Versions(db, l.primary) : v.start = l.start}
           verdict == Verdict(db, k, l, {})
       IN  \/ Verdict(db', k, l, {}) = verdict
           \/ /\ verdict = "forward" /\ Verdict(db', k, l, {}) = "back"
              /\ \E w \in Versions(db, l.primary) : w.ts > Newest(own).ts /\ w.ts < sp]_vars

\* A split key that report_region_stats suggests leaves recorded keys on both
\* sides, whatever the order of the encoded keys; and its count is the number of
\* keys unless one extends another.
SuggestionSplits ==
  \A c \in Scans :
    LET m == SuggestedSplitKey(c.lo, c.hi)
        R == {k \in Recorded : InRange(k, c.lo, c.hi)}
    IN  /\ m # <<>> => (\E k \in R : Less(k, m)) /\ m \in R
        /\ PrefixFree => KeyCount(c.lo, c.hi) = Cardinality(R)

=============================================================================
