------------------------- MODULE HybridLogicalClock -------------------------
(***************************************************************************)
(* HybridLogicalClock of crates/txn-coordinator: the clock every timestamp *)
(* of a node comes from.  Threads call now and update; both read the wall  *)
(* clock first and take the mutex afterwards, so the time a thread brings  *)
(* to the critical section may be stale.  A timestamp is encoded with the  *)
(* physical part above a logical part of 16 bits (LogicalRange values).    *)
(***************************************************************************)
EXTENDS Integers, FiniteSets

CONSTANTS
  Threads,
  LogicalRange,  \* 0xFFFF + 1: what encode keeps of the logical part
  Remotes,       \* encoded timestamps that arrive from other nodes
  MayStepBack,   \* whether the wall clock may be set back
  MayRestart,    \* whether the node may restart
  MaxWall,       \* bound on the wall clock, in milliseconds
  MaxLogical     \* bound on the logical counter, below the 2^32 of its u32

ASSUME ClockAssumption ==
  /\ LogicalRange \in Nat \ {0}
  /\ Remotes \subseteq Nat
  /\ MayStepBack \in BOOLEAN /\ MayRestart \in BOOLEAN
  /\ MaxWall \in Nat /\ MaxLogical \in Nat

VARIABLES
  wall,      \* SystemTime::now(), in milliseconds
  latest,    \* HlcInner.latest_physical
  logical,   \* HlcInner.logical
  pc,        \* of each thread: idle, or the call that waits for the mutex
  read,      \* of each thread: physical_now
  remote,    \* of each thread: the argument of update
  last,      \* the timestamp now returned last, in the order of the mutex
  heard,     \* the largest timestamp update has taken in
  lost       \* what restarts may have lost: "order", "millisecond"

vars == <<wall, latest, logical, pc, read, remote, last, heard, lost>>

-----------------------------------------------------------------------------
(* Timestamp *)

Encode(p, l) == (p * LogicalRange) + (l % LogicalRange)
PhysicalOf(ts) == ts \div LogicalRange
LogicalOf(ts) == ts % LogicalRange

Larger(a, b) == IF a >= b THEN a ELSE b

-----------------------------------------------------------------------------
(* Calls *)

CallNow(t) ==
  /\ pc[t] = "idle"
  /\ pc' = [pc EXCEPT ![t] = "now"]
  /\ read' = [read EXCEPT ![t] = wall]
  /\ UNCHANGED <<wall, latest, logical, remote, last, heard, lost>>

CallUpdate(t, r) ==
  /\ pc[t] = "idle"
  /\ pc' = [pc EXCEPT ![t] = "update"]
  /\ read' = [read EXCEPT ![t] = wall]
  /\ remote' = [remote EXCEPT ![t] = r]
  /\ UNCHANGED <<wall, latest, logical, last, heard, lost>>

AdvancesOrNot(p) == p # latest  \* mutant: a stale reading sets the clock back
Advances(p) == p > latest

BumpedLater == logical  \* mutant: one timestamp for two calls
Bumped == logical + 1

Now(t) ==
  /\ pc[t] = "now"
  /\ \/ /\ Advances(read[t])
        /\ latest' = read[t]
        /\ logical' = 0
     \/ /\ ~Advances(read[t])
        /\ logical < MaxLogical
        /\ logical' = Bumped
        /\ UNCHANGED latest
  /\ last' = Encode(latest', logical')
  /\ pc' = [pc EXCEPT ![t] = "idle"]
  /\ UNCHANGED <<wall, read, remote, heard, lost>>

MaxPhysicalLocal(p, r) == Larger(p, latest)  \* mutant
MaxPhysical(p, r) == Larger(Larger(p, latest), PhysicalOf(r))

\* The logical part after update, for the new physical part m.
NextLogical(m, r) ==
  CASE m = latest /\ m = PhysicalOf(r) -> Larger(logical, LogicalOf(r)) + 1
    [] m = latest /\ m # PhysicalOf(r) -> Bumped
    [] m # latest /\ m = PhysicalOf(r) -> LogicalOf(r) + 1
    [] m # latest /\ m # PhysicalOf(r) -> 0

Update(t) ==
  /\ pc[t] = "update"
  /\ LET m == MaxPhysical(read[t], remote[t])
     IN  /\ NextLogical(m, remote[t]) <= MaxLogical
         /\ latest' = m
         /\ logical' = NextLogical(m, remote[t])
  /\ heard' = Larger(heard, remote[t])
  /\ pc' = [pc EXCEPT ![t] = "idle"]
  /\ UNCHANGED <<wall, read, remote, last, lost>>

-----------------------------------------------------------------------------
(* Environment *)

WallTick ==
  /\ wall < MaxWall
  /\ wall' = wall + 1
  /\ UNCHANGED <<latest, logical, pc, read, remote, last, heard, lost>>

WallStepBack ==
  /\ MayStepBack
  /\ wall > 0
  /\ wall' \in 0..(wall - 1)
  /\ UNCHANGED <<latest, logical, pc, read, remote, last, heard, lost>>

\* The node restarts with HybridLogicalClock::new: nothing was persisted.  When
\* the wall clock is not past the old clock, the order of the timestamps is
\* lost; when it is behind, that of their milliseconds too.
Restart ==
  /\ MayRestart
  /\ latest' = wall
  /\ logical' = 0
  /\ pc' = [t \in Threads |-> "idle"]
  /\ lost' = lost \cup {x \in {"order"} : wall <= latest}
                  \cup {x \in {"millisecond"} : wall < latest}
  /\ UNCHANGED <<wall, read, remote, last, heard>>

Init ==
  /\ wall \in 0..MaxWall
  /\ latest = wall
  /\ logical = 0
  /\ pc = [t \in Threads |-> "idle"]
  /\ read = [t \in Threads |-> 0]
  /\ remote = [t \in Threads |-> 0]
  /\ last = 0
  /\ heard = 0
  /\ lost = {}

Next ==
  \/ \E t \in Threads : \/ CallNow(t) \/ Now(t) \/ Update(t)
                        \/ \E r \in Remotes : CallUpdate(t, r)
  \/ WallTick
  \/ WallStepBack
  \/ Restart

Spec == Init /\ [][Next]_vars

-----------------------------------------------------------------------------
(* Properties *)

\* Every variable has its type; the logical counter keeps to its bound.
TypeOK ==
  /\ wall \in Nat /\ latest \in Nat /\ logical \in 0..MaxLogical
  /\ pc \in [Threads -> {"idle", "now", "update"}]
  /\ read \in [Threads -> Nat] /\ remote \in [Threads -> Nat]
  /\ last \in Nat /\ heard \in Nat /\ lost \subseteq {"order", "millisecond"}

\* now returns "a strictly increasing monotonic timestamp", larger than that of
\* every earlier call of any thread, even with a stale wall clock in hand or a
\* wall clock set back, as long as the logical counter fits the 16 bits that
\* encode keeps of it and every restart finds the wall clock past the clock it
\* replaces.
IncreasesUntilWrap ==
  [][\A t \in Threads :
       Now(t) /\ logical' < LogicalRange /\ "order" \notin lost
       => last' > last]_vars

\* After update(ts) has returned, now returns timestamps larger than ts (with
\* the same provisos): what happens after a message is ordered after it.
AheadOfRemote ==
  [][\A t \in Threads :
       Now(t) /\ logical' < LogicalRange /\ "order" \notin lost
       => last' > heard]_vars

\* Wraps of the logical part, and restarts that do not find the wall clock
\* behind the clock they replace, reorder timestamps of the same millisecond
\* only: the physical part that now returns never decreases.
MillisecondsInOrder ==
  [][\A t \in Threads :
       Now(t) /\ "millisecond" \notin lost
       => PhysicalOf(last') >= PhysicalOf(last)]_vars
=============================================================================
