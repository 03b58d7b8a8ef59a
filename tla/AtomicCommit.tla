---------------------------- MODULE AtomicCommit ----------------------------
(***************************************************************************)
(* What the node promises to its clients, without locks, handlers, TTLs or *)
(* crashes: timestamps come from one clock; a transaction takes effect at  *)
(* its root key first and never loses a key on which it has taken effect;  *)
(* it is acknowledged only after that; a snapshot is answered only with    *)
(* what has taken effect by its timestamp.                                 *)
(*                                                                         *)
(* TransactionCoordinator implements this specification: see Atomic there. *)
(***************************************************************************)
EXTENDS Naturals

CONSTANTS
  Keys,     \* user keys
  Txns,     \* transactions
  Readers,  \* clients that read a snapshot
  Rooted,   \* transactions that promise to take effect at their root first
  Root(_),  \* the root key of a transaction
  Unread    \* a reader's answer before it has one; 0 is "not found"

VARIABLES
  clock,      \* the last timestamp handed out
  start,      \* start timestamp of each transaction, 0 before it has one
  stamp,      \* commit timestamp of each transaction, 0 before it has one
  snapshot,   \* timestamp of each reader, 0 before it has one
  published,  \* keys on which each transaction has taken effect
  acked,      \* transactions whose client knows that they are committed
  answer      \* what each reader was answered for each key

stamps == <<clock, start, stamp, snapshot>>
effects == <<published, acked>>
vars == <<stamps, effects, answer>>

Init ==
  /\ clock = 0
  /\ start = [t \in Txns |-> 0]
  /\ stamp = [t \in Txns |-> 0]
  /\ snapshot = [r \in Readers |-> 0]
  /\ published = [t \in Txns |-> {}]
  /\ acked = {}
  /\ answer = [r \in Readers |-> [k \in Keys |-> Unread]]

Begin(t) ==
  /\ start[t] = 0
  /\ clock' = clock + 1
  /\ start' = [start EXCEPT ![t] = clock + 1]
  /\ UNCHANGED <<stamp, snapshot, effects, answer>>

Stamp(t) ==
  /\ start[t] # 0 /\ stamp[t] = 0
  /\ clock' = clock + 1
  /\ stamp' = [stamp EXCEPT ![t] = clock + 1]
  /\ UNCHANGED <<start, snapshot, effects, answer>>

TakeSnapshot(r) ==
  /\ snapshot[r] = 0
  /\ clock' = clock + 1
  /\ snapshot' = [snapshot EXCEPT ![r] = clock + 1]
  /\ UNCHANGED <<start, stamp, effects, answer>>

\* t takes effect on the keys K, and its client may learn that it is committed.
Publish(t, K) ==
  /\ stamp[t] # 0
  /\ published' = [published EXCEPT ![t] = @ \cup K]
  /\ t \in Rooted => Root(t) \in published'[t]
  /\ acked' \in {acked, acked \cup {t}}
  /\ UNCHANGED <<stamps, answer>>

\* A transaction that reader r may be answered with on key k.
Readable(r, k, t) ==
  /\ k \in published[t]
  /\ stamp[t] # 0 /\ stamp[t] <= snapshot[r]
  /\ t \in Rooted => Root(t) \in published[t]

\* A reader is answered once for every key.
Read(r, k) ==
  /\ answer[r][k] = Unread
  /\ \E v \in {0} \cup {start[t] : t \in {u \in Txns : Readable(r, k, u)}} :
       answer' = [answer EXCEPT ![r][k] = v]
  /\ UNCHANGED <<stamps, effects>>

Next ==
  \/ \E t \in Txns : Begin(t) \/ Stamp(t)
  \/ \E r \in Readers : TakeSnapshot(r)
  \/ \E t \in Txns, K \in SUBSET Keys : Publish(t, K)
  \/ \E r \in Readers, k \in Keys : Read(r, k)

Spec == Init /\ [][Next]_vars
=============================================================================
