---------------------- MODULE HybridLogicalClockProofs ----------------------
(***************************************************************************)
(* Proofs about HybridLogicalClock, for any number of threads, any width   *)
(* of the logical part and any remote timestamps.                          *)
(***************************************************************************)
EXTENDS HybridLogicalClock, TLAPS

\* The clock stands at or after v, and v is not in a later millisecond.
AheadOf(v) ==
  /\ v <= latest * LogicalRange + logical
  /\ v < latest * LogicalRange + LogicalRange

\* The clock is never behind what it has returned or taken in, unless a
\* restart has lost the order.
Ahead == "order" \notin lost => AheadOf(last) /\ AheadOf(heard)

\* A step moves the clock forward.
Advanced ==
  latest < latest' \/ (latest = latest' /\ logical <= logical')

\* A later millisecond outweighs every logical part.
LEMMA LaterMillisecond ==
  ASSUME NEW p \in Nat, NEW q \in Nat, p < q
  PROVE  p * LogicalRange + LogicalRange <= q * LogicalRange
<1>1. LogicalRange \in Nat BY ClockAssumption
<1>2. PICK d \in Nat : q = p + 1 + d
  <2>1. q - p - 1 \in Nat OBVIOUS
  <2> QED BY <2>1
<1>3. d * LogicalRange \in Nat BY <1>1
<1>4. q * LogicalRange = p * LogicalRange + LogicalRange + d * LogicalRange
  BY <1>1, <1>2
<1> QED BY <1>1, <1>3, <1>4

\* The start of a millisecond, as a timestamp.
LEMMA MillisecondStart ==
  ASSUME NEW p \in Nat
  PROVE  p * LogicalRange \in Nat
BY ClockAssumption

\* What is at most c + l, and less than c + w, is so after a step forward.
LEMMA StepForward ==
  ASSUME NEW v \in Nat, NEW c \in Nat, NEW d \in Nat,
         NEW l \in Nat, NEW m \in Nat, NEW w \in Nat,
         v <= c + l, v < c + w
  PROVE  /\ c + w <= d => v <= d + m /\ v < d + w
         /\ c = d /\ l <= m => v <= d + m /\ v < d + w
         /\ c + w <= d => d + m > v
         /\ c = d /\ l < m => d + m > v
OBVIOUS

\* encode keeps the physical part and the logical part that fits.
LEMMA EncodeFits ==
  ASSUME NEW p \in Nat, NEW l \in Nat
  PROVE  /\ Encode(p, l) \in Nat
         /\ Encode(p, l) <= p * LogicalRange + l
         /\ Encode(p, l) < p * LogicalRange + LogicalRange
         /\ l < LogicalRange => Encode(p, l) = p * LogicalRange + l
         /\ p * LogicalRange <= Encode(p, l)
<1>1. LogicalRange \in Nat /\ LogicalRange > 0 BY ClockAssumption
<1>2. p * LogicalRange \in Nat BY <1>1
<1>3. l % LogicalRange \in 0..(LogicalRange - 1) BY <1>1
<1>4. l % LogicalRange <= l BY <1>1
<1>5. l < LogicalRange => l % LogicalRange = l BY <1>1
<1> QED BY <1>1, <1>2, <1>3, <1>4, <1>5 DEF Encode

\* decode splits a timestamp into its two parts and loses nothing.
LEMMA DecodeFits ==
  ASSUME NEW ts \in Nat
  PROVE  /\ PhysicalOf(ts) \in Nat /\ LogicalOf(ts) \in 0..(LogicalRange - 1)
         /\ ts = PhysicalOf(ts) * LogicalRange + LogicalOf(ts)
<1>1. LogicalRange \in Nat /\ LogicalRange > 0 BY ClockAssumption
<1> QED BY <1>1 DEF PhysicalOf, LogicalOf

-----------------------------------------------------------------------------
(* Strictly increasing until the logical part wraps *)

\* Every call keeps the types.
LEMMA NextTypes == TypeOK /\ [Next]_vars => TypeOK'
<1> SUFFICES ASSUME TypeOK, [Next]_vars PROVE TypeOK'
  OBVIOUS
<1> USE ClockAssumption DEF TypeOK
<1>1. ASSUME NEW t \in Threads, CallNow(t) PROVE TypeOK'
  BY <1>1 DEF CallNow
<1>2. ASSUME NEW t \in Threads, NEW r \in Remotes, CallUpdate(t, r) PROVE TypeOK'
  BY <1>2 DEF CallUpdate
<1>3. ASSUME NEW t \in Threads, Now(t) PROVE TypeOK'
  <2>1. latest' \in Nat /\ logical' \in 0..MaxLogical
    BY <1>3 DEF Now, Bumped
  <2>2. last' \in Nat BY <1>3, <2>1, EncodeFits DEF Now
  <2> QED BY <1>3, <2>1, <2>2 DEF Now
<1>4. ASSUME NEW t \in Threads, Update(t) PROVE TypeOK'
  <2>1. remote[t] \in Nat /\ read[t] \in Nat OBVIOUS
  <2>2. PhysicalOf(remote[t]) \in Nat /\ LogicalOf(remote[t]) \in Nat
    BY <2>1, DecodeFits
  <2>3. MaxPhysical(read[t], remote[t]) \in Nat
    BY <2>1, <2>2 DEF MaxPhysical, Larger
  <2>4. NextLogical(latest', remote[t]) \in Nat
    BY <1>4, <2>2, <2>3 DEF Update, NextLogical, Larger, Bumped
  <2>5. latest' \in Nat /\ logical' \in 0..MaxLogical
    BY <1>4, <2>3, <2>4 DEF Update
  <2> QED BY <1>4, <2>1, <2>5 DEF Update, Larger
<1>5. CASE WallTick BY <1>5 DEF WallTick
<1>6. CASE WallStepBack BY <1>6 DEF WallStepBack
<1>7. CASE Restart
  <2>1. lost' \subseteq {"order", "millisecond"}
    BY <1>7, Zenon DEF Restart
  <2>2. (pc \in [Threads -> {"idle", "now", "update"}])' BY <1>7 DEF Restart
  <2>3. latest' \in Nat /\ logical' \in 0..MaxLogical BY <1>7 DEF Restart
  <2>4. UNCHANGED <<wall, read, remote, last, heard>> BY <1>7 DEF Restart
  <2> QED BY <2>1, <2>2, <2>3, <2>4
<1>8. CASE UNCHANGED vars BY <1>8 DEF vars
<1> QED BY <1>1, <1>2, <1>3, <1>4, <1>5, <1>6, <1>7, <1>8 DEF Next

\* The clock after update(r) is at least r and at least what it was.
LEMMA UpdateAhead ==
  ASSUME TypeOK, NEW t \in Threads, Update(t)
  PROVE  /\ remote[t] <= latest' * LogicalRange + logical'
         /\ remote[t] < latest' * LogicalRange + LogicalRange
         /\ Advanced
<1> DEFINE r == remote[t]
           m == MaxPhysical(read[t], r)
<1>1. r \in Nat /\ read[t] \in Nat /\ latest \in Nat /\ logical \in Nat
  BY DEF TypeOK
<1>2. /\ PhysicalOf(r) \in Nat /\ LogicalOf(r) \in Nat
      /\ LogicalOf(r) < LogicalRange
      /\ r = PhysicalOf(r) * LogicalRange + LogicalOf(r)
  BY <1>1, DecodeFits, ClockAssumption
<1>3. m \in Nat /\ m >= latest /\ m >= PhysicalOf(r)
  BY <1>1, <1>2 DEF MaxPhysical, Larger
<1>4. latest' = m /\ logical' = NextLogical(m, r)
  BY DEF Update
<1>5. logical' \in Nat
  BY <1>1, <1>2, <1>3, <1>4 DEF NextLogical, Larger, Bumped
<1>6. m = latest => logical' > logical
  BY <1>1, <1>2, <1>4 DEF NextLogical, Larger, Bumped
<1>7. m = PhysicalOf(r) => logical' > LogicalOf(r)
  BY <1>1, <1>2, <1>4 DEF NextLogical, Larger, Bumped
<1>8. r <= m * LogicalRange + logical'
  <2>1. CASE m = PhysicalOf(r)
    <3>1. m * LogicalRange \in Nat BY <1>3, ClockAssumption
    <3> QED BY <1>2, <1>5, <1>7, <2>1, <3>1
  <2>2. CASE PhysicalOf(r) < m
    <3>1. PhysicalOf(r) * LogicalRange + LogicalRange <= m * LogicalRange
      BY <1>2, <1>3, <2>2, LaterMillisecond
    <3>2. m * LogicalRange \in Nat /\ PhysicalOf(r) * LogicalRange \in Nat
      BY <1>2, <1>3, ClockAssumption
    <3> QED BY <1>2, <1>5, <3>1, <3>2, ClockAssumption
  <2> QED BY <1>2, <1>3, <2>1, <2>2
<1>9. r < m * LogicalRange + LogicalRange
  <2>1. CASE m = PhysicalOf(r)
    <3>1. m * LogicalRange \in Nat BY <1>3, ClockAssumption
    <3> QED BY <1>2, <2>1, <3>1, ClockAssumption
  <2>2. CASE PhysicalOf(r) < m
    <3>1. PhysicalOf(r) * LogicalRange + LogicalRange <= m * LogicalRange
      BY <1>2, <1>3, <2>2, LaterMillisecond
    <3>2. m * LogicalRange \in Nat /\ PhysicalOf(r) * LogicalRange \in Nat
      BY <1>2, <1>3, ClockAssumption
    <3> QED BY <1>2, <3>1, <3>2, ClockAssumption
  <2> QED BY <1>2, <1>3, <2>1, <2>2
<1> QED BY <1>1, <1>3, <1>4, <1>5, <1>6, <1>8, <1>9 DEF Advanced

\* What the clock was ahead of, it stays ahead of.
LEMMA StaysAhead ==
  ASSUME TypeOK, TypeOK', Advanced, NEW v \in Nat, AheadOf(v)
  PROVE  AheadOf(v)'
<1>1. /\ latest \in Nat /\ latest' \in Nat /\ logical \in Nat /\ logical' \in Nat
      /\ LogicalRange \in Nat
  BY ClockAssumption DEF TypeOK
<1>2. PICK c \in Nat : c = latest * LogicalRange
  BY <1>1, MillisecondStart
<1>3. PICK d \in Nat : d = latest' * LogicalRange
  BY <1>1, MillisecondStart
<1>4. c \in Nat /\ d \in Nat /\ v <= c + logical /\ v < c + LogicalRange
  BY <1>2, <1>3 DEF AheadOf
<1>5. v <= d + logical' /\ v < d + LogicalRange
  <2>1. CASE latest < latest'
    <3>1. c + LogicalRange <= d
      BY <1>1, <1>2, <1>3, <2>1, LaterMillisecond
    <3> QED BY <1>1, <1>4, <3>1, StepForward
  <2>2. CASE latest = latest' /\ logical <= logical'
    <3>1. c = d BY <1>2, <1>3, <2>2
    <3> QED BY <1>1, <1>4, <2>2, <3>1, StepForward
  <2> QED BY <2>1, <2>2 DEF Advanced
<1> QED BY <1>3, <1>5 DEF AheadOf

\* now leaves the clock at the timestamp it returns, ahead of what it was.
LEMMA NowAhead ==
  ASSUME TypeOK, TypeOK', NEW t \in Threads, Now(t)
  PROVE  Advanced /\ AheadOf(last)' /\ logical' \in Nat /\ latest' \in Nat
<1>1. Advanced /\ logical' \in Nat /\ latest' \in Nat
  BY DEF Now, Bumped, Advances, Advanced, TypeOK
<1>2. last' = Encode(latest', logical')
  BY DEF Now
<1>3. AheadOf(last)'
  BY <1>1, <1>2, EncodeFits DEF AheadOf
<1> QED BY <1>1, <1>3

\* Every step keeps the clock ahead; a restart does if the wall clock has
\* moved on, and otherwise records the loss.
LEMMA NextAhead ==
  ASSUME TypeOK, Ahead, [Next]_vars
  PROVE  Ahead'
<1> SUFFICES ASSUME "order" \notin lost'
             PROVE  AheadOf(last)' /\ AheadOf(heard)'
  BY DEF Ahead
<1>1. TypeOK' BY NextTypes
<1>2. last \in Nat /\ heard \in Nat BY DEF TypeOK
<1>3. PICK v \in Nat : v = last BY <1>2
<1>4. PICK h \in Nat : h = heard BY <1>2
<1>5. "order" \notin lost
  BY DEF Next, CallNow, CallUpdate, Now, Update, WallTick, WallStepBack,
         Restart, vars
<1>6. AheadOf(v) /\ AheadOf(h) BY <1>3, <1>4, <1>5 DEF Ahead
<1>7. Advanced => AheadOf(v)' /\ AheadOf(h)'
  BY <1>1, <1>6, StaysAhead
<1>8. ASSUME NEW t \in Threads, Now(t) PROVE AheadOf(last)' /\ AheadOf(heard)'
  <2>1. heard' = h BY <1>4, <1>8 DEF Now
  <2>2. Advanced /\ AheadOf(last)' BY <1>1, <1>8, NowAhead
  <2> QED BY <1>7, <2>1, <2>2 DEF AheadOf
<1>9. ASSUME NEW t \in Threads, Update(t) PROVE AheadOf(last)' /\ AheadOf(heard)'
  <2>1. last' = v /\ heard' = Larger(h, remote[t]) BY <1>3, <1>4, <1>9 DEF Update
  <2>2. /\ Advanced
        /\ remote[t] <= latest' * LogicalRange + logical'
        /\ remote[t] < latest' * LogicalRange + LogicalRange
    BY <1>9, UpdateAhead
  <2>3. AheadOf(v)' /\ AheadOf(h)' BY <1>7, <2>2
  <2>4. AheadOf(last)' BY <2>1, <2>3 DEF AheadOf
  <2>5. AheadOf(heard)' BY <2>1, <2>2, <2>3 DEF AheadOf, Larger
  <2> QED BY <2>4, <2>5
<1>10. CASE Restart
  <2>1. last' = v /\ heard' = h BY <1>3, <1>4, <1>10 DEF Restart
  <2>2. latest < latest' BY <1>10 DEF Restart, TypeOK
  <2>3. AheadOf(v)' /\ AheadOf(h)' BY <1>7, <2>2 DEF Advanced
  <2> QED BY <2>1, <2>3 DEF AheadOf
<1>11. ASSUME UNCHANGED <<latest, logical, last, heard>>
       PROVE  AheadOf(last)' /\ AheadOf(heard)'
  BY <1>5, <1>11 DEF Ahead, AheadOf
<1>12. ASSUME ~Restart, ~\E t \in Threads : Now(t) \/ Update(t)
       PROVE  UNCHANGED <<latest, logical, last, heard>>
  BY <1>12 DEF Next, CallNow, CallUpdate, WallTick, WallStepBack, vars
<1> QED BY <1>8, <1>9, <1>10, <1>11, <1>12

\* The initial clock has returned nothing yet.
LEMMA InitAhead == Init => TypeOK /\ Ahead
<1> SUFFICES ASSUME Init PROVE TypeOK /\ Ahead
  OBVIOUS
<1>1. TypeOK BY ClockAssumption DEF Init, TypeOK
<1>2. latest * LogicalRange \in Nat BY <1>1, ClockAssumption DEF TypeOK
<1>3. Ahead BY <1>2, ClockAssumption DEF Init, Ahead, AheadOf
<1> QED BY <1>1, <1>3

\* A call of now returns more than everything the clock was ahead of, unless
\* the logical part no longer fits.
LEMMA NowIncreases ==
  ASSUME TypeOK, Ahead, NEW t \in Threads, Now(t), logical' < LogicalRange,
         "order" \notin lost
  PROVE  last' > last /\ last' > heard
<1>1. TypeOK' BY NextTypes DEF Next
<1>2. /\ latest \in Nat /\ latest' \in Nat /\ logical \in Nat /\ logical' \in Nat
      /\ last \in Nat /\ heard \in Nat /\ LogicalRange \in Nat
  BY <1>1, ClockAssumption DEF TypeOK
<1>3. PICK c \in Nat : c = latest * LogicalRange
  BY <1>2, MillisecondStart
<1>4. PICK d \in Nat : d = latest' * LogicalRange
  BY <1>2, MillisecondStart
<1>5. last' = d + logical'
  BY <1>2, <1>4, EncodeFits DEF Now
<1>6. /\ c \in Nat /\ d \in Nat
      /\ last <= c + logical /\ last < c + LogicalRange
      /\ heard <= c + logical /\ heard < c + LogicalRange
  BY <1>3, <1>4 DEF Ahead, AheadOf
<1>7. CASE latest < latest'
  <2>1. c + LogicalRange <= d
    BY <1>2, <1>3, <1>4, <1>7, LaterMillisecond
  <2> QED BY <1>2, <1>5, <1>6, <2>1, StepForward
<1>8. CASE latest = latest' /\ logical < logical'
  <2>1. c = d BY <1>3, <1>4, <1>8
  <2> QED BY <1>2, <1>5, <1>6, <1>8, <2>1, StepForward
<1> QED BY <1>2, <1>7, <1>8 DEF Now, Bumped, Advances

\* now returns strictly increasing timestamps to all threads, whatever the wall
\* clock does, until the logical part outgrows its 16 bits or a restart finds
\* the wall clock not past the old clock.
THEOREM TimestampsIncrease == Spec => IncreasesUntilWrap
<1>1. TypeOK /\ Ahead /\ [Next]_vars => TypeOK' /\ Ahead'
  BY NextTypes, NextAhead
<1>2. TypeOK /\ Ahead /\ [Next]_vars
      => [\A t \in Threads :
            Now(t) /\ logical' < LogicalRange /\ "order" \notin lost
            => last' > last]_vars
  BY NowIncreases
<1> QED BY <1>1, <1>2, InitAhead, PTL DEF Spec, IncreasesUntilWrap

\* And they exceed every remote timestamp that update has taken in.
THEOREM RemoteTimestampsPrecede == Spec => AheadOfRemote
<1>1. TypeOK /\ Ahead /\ [Next]_vars => TypeOK' /\ Ahead'
  BY NextTypes, NextAhead
<1>2. TypeOK /\ Ahead /\ [Next]_vars
      => [\A t \in Threads :
            Now(t) /\ logical' < LogicalRange /\ "order" \notin lost
            => last' > heard]_vars
  BY NowIncreases
<1> QED BY <1>1, <1>2, InitAhead, PTL DEF Spec, AheadOfRemote

-----------------------------------------------------------------------------
(* Milliseconds in order, across wraps and restarts *)

\* The physical part returned last is not ahead of the clock, unless a restart
\* has lost it.
NotBehind == "millisecond" \notin lost => PhysicalOf(last) <= latest

\* decode undoes encode on the physical part.
LEMMA DecodeEncode ==
  ASSUME NEW p \in Nat, NEW l \in Nat
  PROVE  PhysicalOf(Encode(p, l)) = p
<1>1. PICK ts \in Nat : ts = Encode(p, l)
  BY EncodeFits
<1>2. PICK q \in Nat : q = PhysicalOf(ts)
  BY <1>1, DecodeFits
<1>3. PICK c \in Nat : c = p * LogicalRange
  BY MillisecondStart
<1>4. PICK d \in Nat : d = q * LogicalRange
  BY <1>2, MillisecondStart
<1>5. /\ c \in Nat /\ d \in Nat /\ q \in Nat /\ ts \in Nat
      /\ LogicalRange \in Nat
  BY <1>1, <1>2, <1>3, <1>4, ClockAssumption
<1>6. c <= ts /\ ts < c + LogicalRange
  BY <1>1, <1>3, EncodeFits
<1>7. d <= ts /\ ts < d + LogicalRange
  <2>1. PICK m \in 0..(LogicalRange - 1) : m = LogicalOf(ts) BY <1>5, DecodeFits
  <2>2. ts = d + m BY <1>2, <1>4, <1>5, <2>1, DecodeFits
  <2> QED BY <1>5, <2>1, <2>2
<1>8. ~(p < q)
  <2> SUFFICES ASSUME p < q PROVE FALSE
    OBVIOUS
  <2>1. c + LogicalRange <= d BY <1>3, <1>4, <1>5, LaterMillisecond
  <2> QED BY <1>5, <1>6, <1>7, <2>1
<1>9. ~(q < p)
  <2> SUFFICES ASSUME q < p PROVE FALSE
    OBVIOUS
  <2>1. d + LogicalRange <= c BY <1>3, <1>4, <1>5, LaterMillisecond
  <2> QED BY <1>5, <1>6, <1>7, <2>1
<1> QED BY <1>1, <1>2, <1>5, <1>8, <1>9

\* now returns the physical part it leaves the clock at, which is not earlier.
LEMMA NowPhysical ==
  ASSUME TypeOK, NEW t \in Threads, Now(t)
  PROVE  latest' >= latest /\ PhysicalOf(last') = latest'
<1>1. TypeOK' BY NextTypes DEF Next
<1>2. latest' \in Nat /\ logical' \in Nat BY <1>1, ClockAssumption DEF TypeOK
<1>3. PhysicalOf(last') = latest' BY <1>2, DecodeEncode DEF Now
<1> QED BY <1>3 DEF Now, Advances, TypeOK

\* update moves the physical part forward too.
LEMMA UpdatePhysical ==
  ASSUME TypeOK, NEW t \in Threads, Update(t)
  PROVE  latest' >= latest
BY UpdateAhead, NextTypes DEF Advanced, TypeOK, Next

\* Every step keeps the clock at or after the millisecond it returned last.
LEMMA NextNotBehind ==
  ASSUME TypeOK, NotBehind, [Next]_vars
  PROVE  NotBehind'
<1> SUFFICES ASSUME "millisecond" \notin lost'
             PROVE  PhysicalOf(last') <= latest'
  BY DEF NotBehind
<1>1. TypeOK' BY NextTypes
<1>2. latest \in Nat /\ latest' \in Nat BY <1>1 DEF TypeOK
<1>3. PICK p \in Nat : p = PhysicalOf(last) BY DecodeFits DEF TypeOK
<1>4. "millisecond" \notin lost
  BY DEF Next, CallNow, CallUpdate, Now, Update, WallTick, WallStepBack,
         Restart, vars
<1>5. p <= latest BY <1>3, <1>4 DEF NotBehind
<1>6. ASSUME NEW t \in Threads, Now(t) PROVE PhysicalOf(last') <= latest'
  BY <1>2, <1>6, NowPhysical
<1>7. ASSUME last' = last, latest' >= latest PROVE PhysicalOf(last') <= latest'
  BY <1>2, <1>3, <1>5, <1>7
<1>8. ASSUME NEW t \in Threads, Update(t) PROVE last' = last /\ latest' >= latest
  BY <1>8, UpdatePhysical DEF Update
<1>9. ASSUME Restart PROVE last' = last /\ latest' >= latest
  BY <1>9 DEF Restart, TypeOK
<1>10. ASSUME ~Restart, ~\E t \in Threads : Now(t) \/ Update(t)
       PROVE  last' = last /\ latest' >= latest
  BY <1>2, <1>10 DEF Next, CallNow, CallUpdate, WallTick, WallStepBack, vars
<1> QED BY <1>6, <1>7, <1>8, <1>9, <1>10

\* The initial clock has returned no millisecond yet.
LEMMA InitNotBehind == Init => NotBehind
<1> SUFFICES ASSUME Init PROVE NotBehind
  OBVIOUS
<1>1. TypeOK BY InitAhead
<1>2. PhysicalOf(0) = 0
  <2>1. 0 % LogicalRange = 0 BY ClockAssumption
  <2>2. Encode(0, 0) = 0 BY <2>1, ClockAssumption DEF Encode
  <2> QED BY <2>2, DecodeEncode
<1> QED BY <1>1, <1>2 DEF Init, NotBehind, TypeOK

\* The physical part of the timestamps never decreases, across wraps, remote
\* timestamps, clocks set back, and restarts that do not find the wall clock
\* behind the old clock.
THEOREM MillisecondsNeverDecrease == Spec => MillisecondsInOrder
<1>1. TypeOK /\ NotBehind /\ [Next]_vars => TypeOK' /\ NotBehind'
  BY NextTypes, NextNotBehind
<1>2. TypeOK /\ NotBehind /\ [Next]_vars
      => [\A t \in Threads :
            Now(t) /\ "millisecond" \notin lost
            => PhysicalOf(last') >= PhysicalOf(last)]_vars
  <2> SUFFICES ASSUME TypeOK, NotBehind, NEW t \in Threads, Now(t),
                      "millisecond" \notin lost
               PROVE  PhysicalOf(last') >= PhysicalOf(last)
    OBVIOUS
  <2>1. TypeOK' BY NextTypes DEF Next
  <2>2. PhysicalOf(last) \in Nat BY DecodeFits DEF TypeOK
  <2> QED BY <2>1, <2>2, NowPhysical DEF NotBehind, TypeOK
<1>3. Init => TypeOK /\ NotBehind BY InitAhead, InitNotBehind
<1> QED BY <1>1, <1>2, <1>3, PTL DEF Spec, MillisecondsInOrder
=============================================================================
