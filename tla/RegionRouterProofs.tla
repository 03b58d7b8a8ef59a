------------------------- MODULE RegionRouterProofs -------------------------
(***************************************************************************)
(* Proofs about RegionRouter, for any number of threads, keys and ids.     *)
(***************************************************************************)
EXTENDS RegionRouter, FiniteSetTheorems, TLAPS

\* Every key is in exactly one region, and no region is empty.
Tiling ==
  /\ \A k \in Keys : \E i \in Ids : byId[i] # NoRegion /\ ContainsKey(byId[i], k)
  /\ \A k \in Keys : \A i, j \in Ids :
       /\ byId[i] # NoRegion /\ ContainsKey(byId[i], k)
       /\ byId[j] # NoRegion /\ ContainsKey(byId[j], k)
       => i = j
  /\ \A i \in Ids : byId[i] # NoRegion => ContainsKey(byId[i], byId[i].start)

\* Ids in use have been handed out; a handler that is about to split holds an
\* id of its own that no region has, and the region it read still exists.
Handlers ==
  /\ \A i \in Ids : byId[i] # NoRegion => i < nextId
  /\ \A w \in Workers : pc[w] # "idle" =>
       region[w] \in Region /\ byId[region[w].id] # NoRegion
  /\ \A w \in Workers : pc[w] \in {"split", "raft"} => newId[w] \in Ids
  /\ \A w \in Workers : pc[w] = "split" => byId[newId[w]] = NoRegion
  /\ \A w, u \in Workers : pc[w] = "split" /\ pc[u] = "split" /\ w # u =>
       newId[w] # newId[u]

RInv == TypeOK /\ MapsAgree /\ Tiling /\ Handlers

-----------------------------------------------------------------------------
(* Regions *)

\* A region is not the absence of one.
LEMMA RealRegion == \A r \in Region : r # NoRegion /\ r.id # 0
BY DEF Region, NoRegion, Ids

\* What split_region makes of a region: two regions that divide its keys.
LEMMA SplitParts ==
  ASSUME NEW r \in Region, NEW k \in Keys, NEW n \in Ids, SplitAllowed(r, k)
  PROVE  /\ LeftOf(r, k) \in Region /\ RightOf(r, k, n) \in Region
         /\ LeftOf(r, k).id = r.id /\ LeftOf(r, k).start = r.start
         /\ LeftOf(r, k).version = r.version + 1
         /\ RightOf(r, k, n).id = n /\ RightOf(r, k, n).start = k
         /\ \A x \in Keys : ContainsKey(LeftOf(r, k), x)
                            <=> ContainsKey(r, x) /\ x < k
         /\ \A x \in Keys : ContainsKey(RightOf(r, k, n), x)
                            <=> ContainsKey(r, x) /\ x >= k
         /\ r.start < k
<1>0. /\ r.id \in Ids /\ r.start \in Keys /\ r.end \in Keys
      /\ r.version \in Nat /\ k \in Keys
  BY DEF Region
<1>1. r.start \in Nat /\ r.end \in Nat /\ k \in Nat /\ r.version \in Nat
  BY <1>0, RouterAssumption DEF Keys
<1>2. r.start < k /\ k > 0
  BY <1>1 DEF SplitAllowed, ContainsKey, EmptyKey
<1>3. LeftOf(r, k) = [id |-> r.id, start |-> r.start, end |-> k,
                      version |-> r.version + 1]
  BY DEF LeftOf
<1>4. RightOf(r, k, n) = [id |-> n, start |-> k, end |-> r.end, version |-> 1]
  BY DEF RightOf, NewRegion
<1>5. LeftOf(r, k) \in Region /\ RightOf(r, k, n) \in Region
  BY <1>0, <1>1, <1>3, <1>4 DEF Region
<1>6. \A x \in Keys : ContainsKey(LeftOf(r, k), x)
                      <=> ContainsKey(r, x) /\ x < k
  BY <1>1, <1>2, <1>3 DEF ContainsKey, SplitAllowed, EmptyKey, Keys
<1>7. \A x \in Keys : ContainsKey(RightOf(r, k, n), x)
                      <=> ContainsKey(r, x) /\ x >= k
  BY <1>1, <1>2, <1>4 DEF ContainsKey, SplitAllowed, EmptyKey, Keys
<1> QED BY <1>2, <1>3, <1>4, <1>5, <1>6, <1>7

-----------------------------------------------------------------------------
(* The split of a region *)

\* What the maps are after Split(w) has split region o at k for the new id n.
SplitStep(o, k, n) ==
  /\ byId[o] \in Region /\ byId[n] = NoRegion /\ o # n
  /\ byId[o].id = o
  /\ SplitAllowed(byId[o], k)
  /\ SplitRegion(byId[o], k, n)

\* The regions of the two maps after a split.
LEMMA SplitMaps ==
  ASSUME RInv, NEW o \in Ids, NEW k \in Keys, NEW n \in Ids, SplitStep(o, k, n),
         NEW r, r = byId[o]
  PROVE  /\ r \in Region /\ r.id = o /\ SplitAllowed(r, k) /\ r.start \in Keys
         /\ byId'[o] = LeftOf(r, k) /\ byId'[n] = RightOf(r, k, n)
         /\ \A i \in Ids : i # o /\ i # n => byId'[i] = byId[i]
         /\ byKey'[r.start] = LeftOf(r, k) /\ byKey'[k] = RightOf(r, k, n)
         /\ \A s \in Keys : s # r.start /\ s # k => byKey'[s] = byKey[s]
         /\ byKey[r.start] = r /\ byKey[k] = NoRegion
<1>1. r \in Region /\ r.id = o /\ SplitAllowed(r, k) /\ r.start \in Keys
  BY DEF SplitStep, Region
<1>2. r.start < k BY <1>1, SplitParts
<1>3. r.start # k BY <1>1, <1>2, RouterAssumption DEF Keys
<1>4. byId'[o] = LeftOf(r, k) /\ byId'[n] = RightOf(r, k, n)
  BY <1>1 DEF SplitStep, SplitRegion, RInv, TypeOK
<1>5. \A i \in Ids : i # o /\ i # n => byId'[i] = byId[i]
  BY <1>1 DEF SplitStep, SplitRegion, RInv, TypeOK
<1>6. byKey'[r.start] = LeftOf(r, k) /\ byKey'[k] = RightOf(r, k, n)
  BY <1>1, <1>3 DEF SplitStep, SplitRegion, RInv, TypeOK
<1>7. \A s \in Keys : s # r.start /\ s # k => byKey'[s] = byKey[s]
  BY <1>1 DEF SplitStep, SplitRegion, RInv, TypeOK
<1>8. byKey[r.start] = r
  BY <1>1, RealRegion DEF RInv, MapsAgree
<1>9. byKey[k] = NoRegion
  <2> SUFFICES ASSUME byKey[k] # NoRegion PROVE FALSE
    OBVIOUS
  <2>1. PICK x : x = byKey[k] OBVIOUS
  <2>2. x \in Region BY <2>1 DEF RInv, TypeOK
  <2>3. x.id \in Ids BY <2>2 DEF Region
  <2>4. x.start = k /\ byId[x.id] = x BY <2>1 DEF RInv, MapsAgree
  <2>5. ContainsKey(byId[x.id], k)
    BY <2>2, <2>3, <2>4, RealRegion DEF RInv, Tiling
  <2>6. ContainsKey(byId[o], k) BY <1>1 DEF SplitAllowed
  <2>7. x.id = o BY <1>1, <2>2, <2>3, <2>4, <2>5, <2>6, RealRegion DEF RInv, Tiling
  <2> QED BY <1>3, <2>4, <2>7
<1> QED BY <1>1, <1>4, <1>5, <1>6, <1>7, <1>8, <1>9

\* A split keeps the two maps in agreement.
LEMMA SplitMapsAgree ==
  ASSUME RInv, NEW o \in Ids, NEW k \in Keys, NEW n \in Ids, SplitStep(o, k, n)
  PROVE  MapsAgree'
<1>1. PICK r : r = byId[o] OBVIOUS
<1>2. /\ r \in Region /\ r.id = o /\ SplitAllowed(r, k) /\ r.start \in Keys
      /\ byId'[o] = LeftOf(r, k) /\ byId'[n] = RightOf(r, k, n)
      /\ \A i \in Ids : i # o /\ i # n => byId'[i] = byId[i]
      /\ byKey'[r.start] = LeftOf(r, k) /\ byKey'[k] = RightOf(r, k, n)
      /\ \A s \in Keys : s # r.start /\ s # k => byKey'[s] = byKey[s]
      /\ byKey[r.start] = r /\ byKey[k] = NoRegion
  BY <1>1, SplitMaps
<1>3. /\ LeftOf(r, k).id = o /\ LeftOf(r, k).start = r.start
      /\ RightOf(r, k, n).id = n /\ RightOf(r, k, n).start = k
  BY <1>2, SplitParts
<1>4. ASSUME NEW i \in Ids, byId'[i] # NoRegion
      PROVE  byId'[i].id = i /\ byKey'[byId'[i].start] = byId'[i]
  <2>1. CASE i = o BY <1>2, <1>3, <2>1
  <2>2. CASE i = n BY <1>2, <1>3, <2>2
  <2>3. CASE i # o /\ i # n
    <3>1. byId'[i] = byId[i] /\ byId[i] # NoRegion BY <1>2, <1>4, <2>3
    <3>2. byId[i].id = i /\ byKey[byId[i].start] = byId[i]
      BY <3>1 DEF RInv, MapsAgree
    <3>3. byId[i] \in Region BY <3>1 DEF RInv, TypeOK
    <3>4. byId[i].start \in Keys BY <3>3 DEF Region
    <3>5. byId[i].start # r.start
      BY <1>1, <1>2, <2>3, <3>2
    <3>6. byId[i].start # k BY <1>2, <3>1, <3>2
    <3> QED BY <1>2, <3>1, <3>2, <3>4, <3>5, <3>6
  <2> QED BY <2>1, <2>2, <2>3
<1>5. ASSUME NEW s \in Keys, byKey'[s] # NoRegion
      PROVE  byKey'[s].start = s /\ byId'[byKey'[s].id] = byKey'[s]
  <2>1. CASE s = r.start BY <1>2, <1>3, <2>1
  <2>2. CASE s = k BY <1>2, <1>3, <2>2
  <2>3. CASE s # r.start /\ s # k
    <3>1. byKey'[s] = byKey[s] /\ byKey[s] # NoRegion BY <1>2, <1>5, <2>3
    <3>2. byKey[s].start = s /\ byId[byKey[s].id] = byKey[s]
      BY <3>1 DEF RInv, MapsAgree
    <3>3. byKey[s] \in Region BY <3>1 DEF RInv, TypeOK
    <3>4. byKey[s].id \in Ids BY <3>3 DEF Region
    <3>5. byKey[s].id # o BY <1>1, <2>3, <3>2
    <3>6. byKey[s].id # n BY <3>1, <3>2 DEF SplitStep
    <3> QED BY <1>2, <3>1, <3>2, <3>4, <3>5, <3>6
  <2> QED BY <2>1, <2>2, <2>3
<1> QED BY <1>4, <1>5 DEF MapsAgree

\* A split divides the keys of one region between two.
LEMMA SplitTiles ==
  ASSUME RInv, NEW o \in Ids, NEW k \in Keys, NEW n \in Ids, SplitStep(o, k, n)
  PROVE  Tiling'
<1>1. PICK r : r = byId[o] OBVIOUS
<1>2. /\ r \in Region /\ r.id = o /\ SplitAllowed(r, k) /\ r.start \in Keys
      /\ byId'[o] = LeftOf(r, k) /\ byId'[n] = RightOf(r, k, n)
      /\ \A i \in Ids : i # o /\ i # n => byId'[i] = byId[i]
  BY <1>1, SplitMaps
<1>3. PICK a : a = LeftOf(r, k) OBVIOUS
<1>4. PICK b : b = RightOf(r, k, n) OBVIOUS
<1>5. /\ a \in Region /\ b \in Region
      /\ a.start = r.start /\ b.start = k /\ r.start < k
      /\ \A x \in Keys : ContainsKey(a, x) <=> ContainsKey(r, x) /\ x < k
      /\ \A x \in Keys : ContainsKey(b, x) <=> ContainsKey(r, x) /\ x >= k
  BY <1>2, <1>3, <1>4, SplitParts
<1>6. a # NoRegion /\ b # NoRegion /\ r # NoRegion BY <1>2, <1>5, RealRegion
<1>7. byId'[o] = a /\ byId'[n] = b BY <1>2, <1>3, <1>4
<1>8. o # n /\ byId[n] = NoRegion BY DEF SplitStep
\* The region a key was in before the split.
<1>9. ASSUME NEW x \in Keys, NEW i \in Ids,
             byId'[i] # NoRegion, ContainsKey(byId'[i], x)
      PROVE  \/ i = o /\ ContainsKey(r, x) /\ x < k
             \/ i = n /\ ContainsKey(r, x) /\ x >= k
             \/ i # o /\ i # n /\ byId[i] # NoRegion /\ ContainsKey(byId[i], x)
  <2>1. CASE i = o BY <1>5, <1>7, <1>9, <2>1
  <2>2. CASE i = n BY <1>5, <1>7, <1>9, <2>2
  <2>3. CASE i # o /\ i # n BY <1>2, <1>9, <2>3
  <2> QED BY <2>1, <2>2, <2>3
<1>10. ASSUME NEW x \in Keys
       PROVE  \E i \in Ids : byId'[i] # NoRegion /\ ContainsKey(byId'[i], x)
  <2>1. PICK i \in Ids : byId[i] # NoRegion /\ ContainsKey(byId[i], x)
    BY DEF RInv, Tiling
  <2>2. CASE i # o
    <3>1. i # n BY <1>8, <2>1
    <3> QED BY <1>2, <2>1, <2>2, <3>1
  <2>3. CASE i = o
    <3>1. ContainsKey(r, x) BY <1>1, <2>1, <2>3
    <3>2. x < k \/ x >= k BY RouterAssumption DEF Keys
    <3>3. CASE x < k BY <1>5, <1>6, <1>7, <3>1, <3>3
    <3>4. CASE x >= k BY <1>5, <1>6, <1>7, <3>1, <3>4
    <3> QED BY <3>2, <3>3, <3>4
  <2> QED BY <2>2, <2>3
<1>11. ASSUME NEW x \in Keys, NEW i \in Ids, NEW j \in Ids,
              byId'[i] # NoRegion, ContainsKey(byId'[i], x),
              byId'[j] # NoRegion, ContainsKey(byId'[j], x)
       PROVE  i = j
  <2>1. ASSUME NEW m \in Ids, m # o, byId[m] # NoRegion, ContainsKey(byId[m], x)
        PROVE  ~ContainsKey(r, x)
    BY <1>1, <1>6, <2>1 DEF RInv, Tiling
  <2>2. ~(x < k /\ x >= k) BY RouterAssumption DEF Keys
  <2>3. \/ i = o /\ ContainsKey(r, x) /\ x < k
        \/ i = n /\ ContainsKey(r, x) /\ x >= k
        \/ i # o /\ i # n /\ byId[i] # NoRegion /\ ContainsKey(byId[i], x)
    BY <1>9, <1>11
  <2>4. \/ j = o /\ ContainsKey(r, x) /\ x < k
        \/ j = n /\ ContainsKey(r, x) /\ x >= k
        \/ j # o /\ j # n /\ byId[j] # NoRegion /\ ContainsKey(byId[j], x)
    BY <1>9, <1>11
  <2>5. CASE i \in {o, n} \/ j \in {o, n} BY <2>1, <2>2, <2>3, <2>4, <2>5
  <2>6. CASE i \notin {o, n} /\ j \notin {o, n}
    BY <2>3, <2>4, <2>6 DEF RInv, Tiling
  <2> QED BY <2>5, <2>6
<1>12. ASSUME NEW i \in Ids, byId'[i] # NoRegion
       PROVE  ContainsKey(byId'[i], byId'[i].start)
  <2>1. ContainsKey(r, r.start) BY <1>1, <1>6 DEF RInv, Tiling
  <2>2. ContainsKey(r, k) BY <1>2 DEF SplitAllowed
  <2>3. k >= k BY RouterAssumption DEF Keys
  <2>4. CASE i = o BY <1>2, <1>5, <1>7, <2>1, <2>4
  <2>5. CASE i = n BY <1>5, <1>7, <2>2, <2>3, <2>5
  <2>6. CASE i # o /\ i # n BY <1>2, <1>12, <2>6 DEF RInv, Tiling
  <2> QED BY <2>4, <2>5, <2>6
<1> QED BY <1>10, <1>11, <1>12 DEF Tiling

-----------------------------------------------------------------------------
(* The inductive invariant *)

\* The handler that splits has everything a SplitStep needs.
LEMMA SplitIsStep ==
  ASSUME RInv, NEW w \in Workers, Split(w), pc'[w] = "raft",
         NEW o, o = region[w].id, NEW k, k = splitKey[w], NEW n, n = newId[w]
  PROVE  o \in Ids /\ k \in Keys /\ n \in Ids /\ SplitStep(o, k, n)
<1>1. pc[w] = "split" /\ region[w] \in Region /\ newId[w] \in Ids
      /\ splitKey[w] \in Keys /\ w \in DOMAIN pc
  BY DEF Split, RInv, Handlers, TypeOK
<1>2. o \in Ids /\ k \in Keys /\ n \in Ids BY <1>1 DEF Region
<1>3. byId[o] # NoRegion /\ byId[n] = NoRegion
  BY <1>1 DEF RInv, Handlers
<1>4. byId[o] \in Region /\ byId[o].id = o
  BY <1>2, <1>3 DEF RInv, TypeOK, MapsAgree
<1>5. ~Answer(w) BY <1>1 DEF Answer
<1>6. SplitAllowed(byId[o], k) /\ SplitRegion(byId[o], k, n)
  BY <1>5 DEF Split
<1> QED BY <1>2, <1>3, <1>4, <1>6 DEF SplitStep

\* A split leaves regions in both maps.
LEMMA SplitTypes ==
  ASSUME RInv, NEW o \in Ids, NEW k \in Keys, NEW n \in Ids, SplitStep(o, k, n)
  PROVE  /\ byId' \in [Ids -> Region \cup {NoRegion}]
         /\ byKey' \in [Keys -> Region \cup {NoRegion}]
<1>1. PICK r \in Region : r = byId[o] BY DEF SplitStep
<1>2. LeftOf(r, k) \in Region /\ RightOf(r, k, n) \in Region
  BY <1>1, SplitParts DEF SplitStep
<1> QED BY <1>1, <1>2 DEF SplitStep, SplitRegion, RInv, TypeOK

\* Answering a request frees the handler.
LEMMA AnswerTypes ==
  ASSUME TypeOK, NEW w \in Workers, Answer(w)
  PROVE  /\ pc' \in [Workers -> {"idle", "median", "alloc", "split", "raft"}]
         /\ region' \in [Workers -> Region \cup {NoRegion}]
         /\ splitKey' \in [Workers -> Keys]
         /\ newId' \in [Workers -> 0..MaxId]
         /\ median' \in [Workers -> BOOLEAN]
         /\ pc'[w] = "idle"
         /\ \A u \in Workers : u # w =>
              pc'[u] = pc[u] /\ region'[u] = region[u] /\ newId'[u] = newId[u]
              /\ splitKey'[u] = splitKey[u] /\ median'[u] = median[u]
<1>1. EmptyKey \in Keys /\ 0 \in 0..MaxId
  BY RouterAssumption DEF EmptyKey, Keys
<1> QED BY <1>1 DEF Answer, TypeOK

\* Region 1 is a region that covers every key.
LEMMA FirstRegion ==
  /\ NewRegion(1, EmptyKey, EmptyKey) \in Region
  /\ \A k \in Keys : ContainsKey(NewRegion(1, EmptyKey, EmptyKey), k)
  /\ NewRegion(1, EmptyKey, EmptyKey).id = 1
  /\ NewRegion(1, EmptyKey, EmptyKey).start = EmptyKey
  /\ 1 \in Ids /\ EmptyKey \in Keys /\ 0 \in 0..MaxId
BY RouterAssumption DEF NewRegion, Region, Ids, Keys, EmptyKey, ContainsKey

\* A node that has just started; only what is stored is older.
Fresh ==
  /\ byId = InitialById /\ byKey = InitialByKey
  /\ nextId = 2 /\ raftNodes = {1}
  /\ written \subseteq Keys
  /\ pc = [w \in Workers |-> "idle"]
  /\ region = [w \in Workers |-> NoRegion]
  /\ splitKey = [w \in Workers |-> EmptyKey]
  /\ newId = [w \in Workers |-> 0]
  /\ median = [w \in Workers |-> FALSE]

\* A node that starts, or starts again, satisfies the invariant.
LEMMA FreshNode == Fresh => RInv /\ SplitHasRaftNode /\ MedianSplits
<1> SUFFICES ASSUME Fresh PROVE RInv /\ SplitHasRaftNode /\ MedianSplits
  OBVIOUS
<1> USE DEF Fresh
<1>1. PICK r : r = NewRegion(1, EmptyKey, EmptyKey) OBVIOUS
<1>2. /\ r \in Region /\ (\A k \in Keys : ContainsKey(r, k))
      /\ r.id = 1 /\ r.start = EmptyKey /\ r # NoRegion
      /\ 1 \in Ids /\ EmptyKey \in Keys /\ 0 \in 0..MaxId
  BY <1>1, FirstRegion, RealRegion
<1>3. /\ \A i \in Ids : byId[i] = IF i = 1 THEN r ELSE NoRegion
      /\ \A k \in Keys : byKey[k] = IF k = EmptyKey THEN r ELSE NoRegion
  BY <1>1 DEF InitialById, InitialByKey
<1>4. TypeOK
  <2>1. byId \in [Ids -> Region \cup {NoRegion}]
    BY <1>1, <1>2 DEF InitialById
  <2>2. byKey \in [Keys -> Region \cup {NoRegion}]
    BY <1>1, <1>2 DEF InitialByKey
  <2>3. nextId \in 2..(MaxId + 1) BY RouterAssumption
  <2> QED BY <1>2, <2>1, <2>2, <2>3 DEF TypeOK
<1>5. MapsAgree BY <1>2, <1>3 DEF MapsAgree
<1>6. Tiling BY <1>2, <1>3 DEF Tiling
<1>7. Handlers BY <1>3 DEF Handlers
<1>8. SplitHasRaftNode BY <1>3 DEF SplitHasRaftNode
<1>9. MedianSplits BY DEF MedianSplits
<1> QED BY <1>4, <1>5, <1>6, <1>7, <1>8, <1>9 DEF RInv

\* The same for the state after a step.
LEMMA FreshNodeNext == Fresh' => (RInv /\ SplitHasRaftNode /\ MedianSplits)'
BY FreshNode, PTL

\* Every step keeps the types.
LEMMA NextTypes ==
  ASSUME RInv, [Next]_vars
  PROVE  TypeOK'
<1> USE DEF TypeOK
<1>0. TypeOK BY DEF RInv
<1>1. ASSUME NEW w \in Workers, NEW i \in Ids, NEW k \in Keys, AskSplit(w, i, k)
      PROVE  TypeOK'
  BY <1>0, <1>1 DEF AskSplit, router
<1>2. ASSUME NEW w \in Workers, FindMedian(w) PROVE TypeOK'
  <2>1. CASE Answer(w)
    <3>1. UNCHANGED <<byId, byKey, nextId, raftNodes, written>>
      BY <1>2 DEF FindMedian, router
    <3> QED BY <1>0, <2>1, <3>1, AnswerTypes
  <2>2. CASE ~Answer(w)
    <3>1. KeysInRange(region[w]) \subseteq Keys BY <1>0 DEF KeysInRange
    <3>2. PICK k \in Keys : splitKey' = [splitKey EXCEPT ![w] = k]
      BY <1>2, <2>2, <3>1 DEF FindMedian
    <3>3. /\ pc' = [pc EXCEPT ![w] = "alloc"]
          /\ UNCHANGED <<byId, byKey, nextId, raftNodes, written, region, newId,
                         median>>
      BY <1>2, <2>2 DEF FindMedian, router
    <3> QED BY <1>0, <3>2, <3>3
  <2> QED BY <2>1, <2>2
<1>3. ASSUME NEW w \in Workers, AllocRegionId(w) PROVE TypeOK'
  <2>1. nextId \in Nat /\ nextId <= MaxId /\ nextId > 0 /\ nextId' = nextId + 1
    BY <1>0, <1>3, RouterAssumption DEF AllocRegionId
  <2>2. nextId' \in 2..(MaxId + 1) /\ nextId \in 0..MaxId
    BY <1>0, <2>1, RouterAssumption
  <2>3. newId' \in [Workers -> 0..MaxId] /\ newId'[w] = nextId
        /\ \A u \in Workers : u # w => newId'[u] = newId[u] /\ pc'[u] = pc[u]
    BY <1>0, <1>3, <2>2 DEF AllocRegionId, AllocatedId
  <2>4. \A u \in Workers : pc'[u] \in {"split", "raft"} => newId'[u] < nextId'
    <3> SUFFICES ASSUME NEW u \in Workers, pc'[u] \in {"split", "raft"}
                 PROVE  newId'[u] < nextId'
      OBVIOUS
    <3>1. CASE u = w BY <2>1, <2>3, <3>1
    <3>2. CASE u # w
      <4>1. newId'[u] = newId[u] /\ newId[u] < nextId /\ newId[u] \in 0..MaxId
        BY <1>0, <2>3, <3>2
      <4> QED BY <2>1, <4>1, RouterAssumption
    <3> QED BY <3>1, <3>2
  <2> QED BY <1>0, <1>3, <2>2, <2>3, <2>4 DEF AllocRegionId, router
<1>4. ASSUME NEW w \in Workers, Split(w) PROVE TypeOK'
  <2>0. UNCHANGED <<nextId, raftNodes, written>> BY <1>4 DEF Split
  <2>1. CASE pc'[w] = "raft"
    <3>1. /\ byId' \in [Ids -> Region \cup {NoRegion}]
          /\ byKey' \in [Keys -> Region \cup {NoRegion}]
      BY <1>4, <2>1, SplitIsStep, SplitTypes
    <3>2. ~Answer(w) BY <1>0, <2>1 DEF Answer
    <3>3. /\ pc' = [pc EXCEPT ![w] = "raft"] /\ pc[w] = "split"
          /\ UNCHANGED <<region, splitKey, newId, median>>
      BY <1>4, <3>2 DEF Split, locals
    <3> QED BY <1>0, <2>0, <3>1, <3>3
  <2>2. CASE pc'[w] # "raft"
    <3>1. Answer(w) /\ UNCHANGED <<byId, byKey>>
      BY <1>0, <1>4, <2>2 DEF Split, router
    <3> QED BY <1>0, <2>0, <3>1, AnswerTypes
  <2> QED BY <2>1, <2>2
<1>5. ASSUME NEW w \in Workers, CreateRaftNode(w) PROVE TypeOK'
  <2>1. Answer(w) /\ UNCHANGED <<byId, byKey, nextId, written>>
    BY <1>5 DEF CreateRaftNode, router
  <2>2. raftNodes' \subseteq Ids
    BY <1>0, <1>5 DEF CreateRaftNode, NodeOf, RInv, Handlers
  <2> QED BY <1>0, <2>1, <2>2, AnswerTypes
<1>6. ASSUME NEW k \in Keys, WriteKey(k) PROVE TypeOK'
  BY <1>0, <1>6 DEF WriteKey, router, handler
<1>7. CASE Restart
  <2>1. Fresh' BY <1>0, <1>7 DEF Restart, Fresh
  <2> QED BY <2>1, FreshNodeNext DEF RInv
<1>8. CASE UNCHANGED vars
  BY <1>0, <1>8 DEF vars, handler
<1> QED BY <1>1, <1>2, <1>3, <1>4, <1>5, <1>6, <1>7, <1>8 DEF Next, Handle

\* The maps change only when a handler splits or the node restarts.
LEMMA RouterChanges ==
  ASSUME RInv, [Next]_vars
  PROVE  \/ Fresh' /\ Restart
         \/ \E w \in Workers : Split(w) /\ pc'[w] = "raft"
         \/ UNCHANGED <<byId, byKey>>
<1>1. ASSUME NEW w \in Workers, Handle(w), ~Split(w) PROVE UNCHANGED <<byId, byKey>>
  BY <1>1 DEF Handle, AskSplit, FindMedian, AllocRegionId, CreateRaftNode, router
<1>2. ASSUME NEW w \in Workers, Split(w), pc'[w] # "raft"
      PROVE  UNCHANGED <<byId, byKey>>
  <2>1. pc' # [pc EXCEPT ![w] = "raft"] BY <1>2 DEF RInv, TypeOK
  <2> QED BY <1>2, <2>1 DEF Split, router
<1>3. ASSUME NEW k \in Keys, WriteKey(k) PROVE UNCHANGED <<byId, byKey>>
  BY <1>3 DEF WriteKey, router
<1>4. CASE Restart
  BY <1>4 DEF Restart, Fresh, RInv, TypeOK
<1>5. CASE UNCHANGED vars BY <1>5 DEF vars
<1> QED BY <1>1, <1>2, <1>3, <1>4, <1>5 DEF Next

\* Every step keeps the maps in agreement and the regions a tiling.
LEMMA NextRouter ==
  ASSUME RInv, [Next]_vars
  PROVE  MapsAgree' /\ Tiling'
<1>1. CASE Fresh' BY <1>1, FreshNodeNext DEF RInv
<1>2. CASE \E w \in Workers : Split(w) /\ pc'[w] = "raft"
  <2>1. PICK w \in Workers : Split(w) /\ pc'[w] = "raft" BY <1>2
  <2>2. PICK o : o = region[w].id OBVIOUS
  <2>3. PICK k : k = splitKey[w] OBVIOUS
  <2>4. PICK n : n = newId[w] OBVIOUS
  <2>5. o \in Ids /\ k \in Keys /\ n \in Ids /\ SplitStep(o, k, n)
    BY <2>1, <2>2, <2>3, <2>4, SplitIsStep
  <2> QED BY <2>5, SplitMapsAgree, SplitTiles
<1>3. CASE UNCHANGED <<byId, byKey>>
  BY <1>3 DEF RInv, MapsAgree, Tiling
<1> QED BY <1>1, <1>2, <1>3, RouterChanges

\* Regions stay, and a split adds only the region with the id it was given.
LEMMA RegionsStay ==
  ASSUME RInv, NEW w \in Workers, Split(w), pc'[w] = "raft"
  PROVE  /\ newId[w] \in Ids
         /\ \A i \in Ids : byId[i] # NoRegion => byId'[i] # NoRegion
         /\ \A i \in Ids : byId'[i] # NoRegion => byId[i] # NoRegion \/ i = newId[w]
<1>2. PICK o : o = region[w].id OBVIOUS
<1>3. PICK k : k = splitKey[w] OBVIOUS
<1>4. PICK n : n = newId[w] OBVIOUS
<1>5. o \in Ids /\ k \in Keys /\ n \in Ids /\ SplitStep(o, k, n)
  BY <1>2, <1>3, <1>4, SplitIsStep
<1>6. PICK r : r = byId[o] OBVIOUS
<1>7. /\ r \in Region /\ SplitAllowed(r, k)
      /\ byId'[o] = LeftOf(r, k) /\ byId'[n] = RightOf(r, k, n)
      /\ \A i \in Ids : i # o /\ i # n => byId'[i] = byId[i]
  BY <1>5, <1>6, SplitMaps
<1>8. LeftOf(r, k) # NoRegion /\ RightOf(r, k, n) # NoRegion /\ r # NoRegion
  BY <1>5, <1>7, SplitParts, RealRegion
<1> QED BY <1>4, <1>5, <1>6, <1>7, <1>8

\* Every step keeps what the handlers rely on.
LEMMA NextHandlers ==
  ASSUME RInv, [Next]_vars
  PROVE  Handlers'
<1>0. TypeOK /\ TypeOK' BY NextTypes DEF RInv
<1>1. ASSUME NEW w \in Workers, NEW i \in Ids, NEW k \in Keys, AskSplit(w, i, k)
      PROVE  Handlers'
  <2>1. byId[i] # NoRegion /\ byId[i] \in Region /\ byId[i].id = i
    BY <1>1 DEF AskSplit, RInv, TypeOK, MapsAgree
  <2>2. UNCHANGED <<byId, byKey, nextId, newId>> BY <1>1 DEF AskSplit, router
  <2>3. /\ pc'[w] \in {"median", "alloc"} /\ region'[w] = byId[i]
        /\ \A u \in Workers : u # w => pc'[u] = pc[u] /\ region'[u] = region[u]
    BY <1>0, <1>1 DEF AskSplit, TypeOK
  <2> QED BY <2>1, <2>2, <2>3 DEF RInv, Handlers
<1>2. ASSUME NEW w \in Workers, FindMedian(w) PROVE Handlers'
  <2>1. UNCHANGED <<byId, byKey, nextId>> BY <1>2 DEF FindMedian, router
  <2>2. CASE Answer(w)
    BY <1>0, <2>1, <2>2, AnswerTypes DEF RInv, Handlers
  <2>3. CASE pc' = [pc EXCEPT ![w] = "alloc"] /\ UNCHANGED <<region, newId>>
    <3>1. /\ pc'[w] = "alloc" /\ pc[w] = "median"
          /\ \A u \in Workers : u # w => pc'[u] = pc[u]
      BY <1>0, <1>2, <2>3 DEF TypeOK, FindMedian
    <3> QED BY <2>1, <2>3, <3>1 DEF RInv, Handlers
  <2> QED BY <1>2, <2>2, <2>3 DEF FindMedian
<1>3. ASSUME NEW w \in Workers, AllocRegionId(w) PROVE Handlers'
  <2>1. /\ UNCHANGED <<byId, byKey, region>> /\ nextId' = nextId + 1
        /\ pc'[w] = "split" /\ newId'[w] = nextId /\ pc[w] = "alloc"
        /\ nextId <= MaxId
        /\ \A u \in Workers : u # w => pc'[u] = pc[u] /\ newId'[u] = newId[u]
    BY <1>0, <1>3 DEF AllocRegionId, AllocatedId, router, TypeOK
  <2>2. nextId \in Ids /\ ~(nextId < nextId)
    BY <1>0, <2>1, RouterAssumption DEF TypeOK, Ids
  <2>3. byId[nextId] = NoRegion BY <2>2 DEF RInv, Handlers
  <2>4. \A i \in Ids : i < nextId => i < nextId'
    BY <1>0, <2>1, RouterAssumption DEF TypeOK, Ids
  <2>5. \A u \in Workers : pc[u] = "split" => newId[u] # nextId
    BY <1>0, <2>2 DEF TypeOK
  <2> QED BY <2>1, <2>2, <2>3, <2>4, <2>5 DEF RInv, Handlers
<1>4. ASSUME NEW w \in Workers, Split(w) PROVE Handlers'
  <2>0. nextId' = nextId /\ pc[w] = "split" BY <1>4 DEF Split
  <2>1. CASE pc'[w] = "raft"
    <3>1. ~Answer(w) BY <1>0, <2>1 DEF Answer, TypeOK
    <3>2. /\ UNCHANGED <<region, newId>>
          /\ \A u \in Workers : u # w => pc'[u] = pc[u]
      BY <1>0, <1>4, <3>1 DEF Split, locals, TypeOK
    <3>3. /\ newId[w] \in Ids
          /\ \A i \in Ids : byId[i] # NoRegion => byId'[i] # NoRegion
          /\ \A i \in Ids : byId'[i] # NoRegion => byId[i] # NoRegion \/ i = newId[w]
      BY <1>4, <2>1, RegionsStay
    <3>4. newId[w] < nextId BY <1>0, <2>0 DEF TypeOK
    <3>5. \A r \in Region : r.id \in Ids BY DEF Region
    <3>6. (\A i \in Ids : byId[i] # NoRegion => i < nextId)'
      BY <2>0, <3>3, <3>4 DEF RInv, Handlers
    <3>7. (\A u \in Workers : pc[u] # "idle" =>
             region[u] \in Region /\ byId[region[u].id] # NoRegion)'
      BY <2>0, <3>2, <3>3, <3>5 DEF RInv, Handlers
    <3>8. (\A u \in Workers : pc[u] \in {"split", "raft"} => newId[u] \in Ids)'
      BY <2>0, <3>2 DEF RInv, Handlers
    <3>9. (\A u \in Workers : pc[u] = "split" => byId[newId[u]] = NoRegion)'
      BY <2>0, <2>1, <3>2, <3>3 DEF RInv, Handlers
    <3>10. (\A v, u \in Workers : pc[v] = "split" /\ pc[u] = "split" /\ v # u =>
              newId[v] # newId[u])'
      BY <2>0, <2>1, <3>2 DEF RInv, Handlers
    <3> QED BY <3>6, <3>7, <3>8, <3>9, <3>10 DEF Handlers
  <2>2. CASE pc'[w] # "raft"
    <3>1. Answer(w) /\ UNCHANGED <<byId, byKey>>
      BY <1>0, <1>4, <2>2 DEF Split, router, TypeOK
    <3> QED BY <1>0, <2>0, <3>1, AnswerTypes DEF RInv, Handlers
  <2> QED BY <2>1, <2>2
<1>5. ASSUME NEW w \in Workers, CreateRaftNode(w) PROVE Handlers'
  <2>1. Answer(w) /\ UNCHANGED <<byId, byKey, nextId>>
    BY <1>5 DEF CreateRaftNode, router
  <2> QED BY <1>0, <2>1, AnswerTypes DEF RInv, Handlers
<1>6. ASSUME NEW k \in Keys, WriteKey(k) PROVE Handlers'
  BY <1>6 DEF WriteKey, router, handler, RInv, Handlers
<1>7. CASE Restart
  <2>1. Fresh' BY <1>0, <1>7 DEF Restart, Fresh, TypeOK
  <2> QED BY <2>1, FreshNodeNext DEF RInv
<1>8. CASE UNCHANGED vars
  BY <1>8 DEF vars, handler, RInv, Handlers
<1> QED BY <1>1, <1>2, <1>3, <1>4, <1>5, <1>6, <1>7, <1>8 DEF Next, Handle

\* The invariant is inductive.
LEMMA NextInv == RInv /\ [Next]_vars => RInv'
BY NextTypes, NextRouter, NextHandlers DEF RInv

\* The initial node is fresh.
LEMMA InitFresh == Init => Fresh
BY DEF Init, Fresh

\* The invariant holds in every reachable state.
LEMMA Invariance == Spec => []RInv
<1>1. Init => RInv BY InitFresh, FreshNode
<1> QED BY <1>1, NextInv, PTL DEF Spec

-----------------------------------------------------------------------------
(* Theorems *)

\* The types hold for any number of threads, keys and ids.
THEOREM TypeCorrect == Spec => []TypeOK
<1>1. RInv => TypeOK BY DEF RInv
<1> QED BY <1>1, Invariance, PTL

\* The two maps of the router never disagree.
THEOREM MapsAlwaysAgree == Spec => []MapsAgree
<1>1. RInv => MapsAgree BY DEF RInv
<1> QED BY <1>1, Invariance, PTL

\* In a tiling route_key finds the region that contains the key.
LEMMA RouteFinds ==
  ASSUME RInv, NEW k \in Keys, NEW i \in Ids,
         byId[i] # NoRegion, ContainsKey(byId[i], k)
  PROVE  RouteKey(k) = byId[i]
<1> DEFINE starts == {s \in Keys : byKey[s] # NoRegion /\ ContainsKey(byKey[s], k)}
<1>1. PICK r : r = byId[i] OBVIOUS
<1>2. r \in Region BY <1>1 DEF RInv, TypeOK
<1>3. r.start \in Keys BY <1>2 DEF Region
<1>4. byKey[r.start] = r BY <1>1 DEF RInv, MapsAgree
<1>5. r.start \in starts BY <1>1, <1>3, <1>4
<1>6. ASSUME NEW s \in starts PROVE s = r.start
  <2>1. byKey[s] \in Region BY <1>6 DEF RInv, TypeOK
  <2>2. byKey[s].id \in Ids BY <2>1 DEF Region
  <2>3. byKey[s].start = s /\ byId[byKey[s].id] = byKey[s]
    BY <1>6 DEF RInv, MapsAgree
  <2>4. byKey[s].id = i BY <1>6, <2>2, <2>3 DEF RInv, Tiling
  <2> QED BY <1>1, <2>3, <2>4
<1>7. r.start <= r.start BY <1>3, RouterAssumption DEF Keys
<1>8. (CHOOSE s \in starts : \A o \in starts : o <= s) = r.start
  <2>1. \E s \in starts : \A o \in starts : o <= s BY <1>5, <1>6, <1>7
  <2>2. (CHOOSE s \in starts : \A o \in starts : o <= s) \in starts
    BY <2>1
  <2> QED BY <1>6, <2>2
<1>9. starts # {} BY <1>5
<1> HIDE DEF starts
<1>10. RouteKey(k) = IF starts = {} THEN NoRegion
                     ELSE byKey[CHOOSE s \in starts : \A o \in starts : o <= s]
  BY DEF RouteKey, starts
<1> QED BY <1>1, <1>4, <1>8, <1>9, <1>10

\* However splits interleave, the regions partition the keys and route_key
\* answers every key with the one region that contains it.
THEOREM EveryKeyHasOneRegion == Spec => []RoutedToOwner
<1>1. RInv => RoutedToOwner
  <2> SUFFICES ASSUME RInv, NEW k \in Keys
               PROVE  /\ RouteKey(k) # NoRegion
                      /\ \A i \in Ids : byId[i] # NoRegion =>
                           (ContainsKey(byId[i], k) <=> byId[i] = RouteKey(k))
    BY DEF RoutedToOwner
  <2>1. PICK j \in Ids : byId[j] # NoRegion /\ ContainsKey(byId[j], k)
    BY DEF RInv, Tiling
  <2>2. RouteKey(k) = byId[j] BY <2>1, RouteFinds
  <2> QED BY <2>1, <2>2, RouteFinds
<1> QED BY <1>1, Invariance, PTL

\* A step leaves no region without a Raft node or a handler that creates it.
LEMMA NextRaftNode ==
  ASSUME RInv, SplitHasRaftNode, [Next]_vars
  PROVE  SplitHasRaftNode'
<1>0. TypeOK BY DEF RInv
<1>1. ASSUME NEW w \in Workers, pc[w] # "raft",
             UNCHANGED <<byId, byKey, raftNodes>>,
             \A u \in Workers : u # w => pc'[u] = pc[u] /\ newId'[u] = newId[u]
      PROVE  SplitHasRaftNode'
  BY <1>1 DEF SplitHasRaftNode
<1>2. ASSUME NEW w \in Workers, NEW i \in Ids, NEW k \in Keys, AskSplit(w, i, k)
      PROVE  SplitHasRaftNode'
  BY <1>0, <1>1, <1>2 DEF AskSplit, router, TypeOK
<1>3. ASSUME NEW w \in Workers, FindMedian(w) PROVE SplitHasRaftNode'
  <2>1. UNCHANGED <<byId, byKey, raftNodes>> /\ pc[w] # "raft"
    BY <1>3 DEF FindMedian, router
  <2>2. \A u \in Workers : u # w => pc'[u] = pc[u] /\ newId'[u] = newId[u]
    BY <1>0, <1>3, AnswerTypes DEF FindMedian, TypeOK
  <2> QED BY <1>1, <2>1, <2>2
<1>4. ASSUME NEW w \in Workers, AllocRegionId(w) PROVE SplitHasRaftNode'
  BY <1>0, <1>1, <1>4 DEF AllocRegionId, router, TypeOK
<1>5. ASSUME NEW w \in Workers, Split(w) PROVE SplitHasRaftNode'
  <2>1. CASE pc'[w] = "raft"
    <3>1. ~Answer(w) BY <1>0, <2>1 DEF Answer, TypeOK
    <3>2. /\ UNCHANGED <<raftNodes, newId>>
          /\ \A u \in Workers : u # w => pc'[u] = pc[u]
      BY <1>0, <1>5, <3>1 DEF Split, locals, TypeOK
    <3>3. \A i \in Ids : byId'[i] # NoRegion => byId[i] # NoRegion \/ i = newId[w]
      BY <1>5, <2>1, RegionsStay
    <3>4. pc[w] = "split" BY <1>5 DEF Split
    <3> QED BY <2>1, <3>2, <3>3, <3>4 DEF SplitHasRaftNode
  <2>2. CASE pc'[w] # "raft"
    <3>1. Answer(w) /\ UNCHANGED <<byId, byKey, raftNodes>> /\ pc[w] = "split"
      BY <1>0, <1>5, <2>2 DEF Split, router, TypeOK
    <3> QED BY <1>0, <1>1, <3>1, AnswerTypes
  <2> QED BY <2>1, <2>2
<1>6. ASSUME NEW w \in Workers, CreateRaftNode(w) PROVE SplitHasRaftNode'
  <2>1. Answer(w) /\ UNCHANGED <<byId, byKey>>
        /\ raftNodes' = raftNodes \cup {newId[w]}
    BY <1>6 DEF CreateRaftNode, router, NodeOf
  <2> QED BY <1>0, <2>1, AnswerTypes DEF SplitHasRaftNode
<1>7. ASSUME NEW k \in Keys, WriteKey(k) PROVE SplitHasRaftNode'
  BY <1>7 DEF WriteKey, router, handler, SplitHasRaftNode
<1>8. CASE Restart
  <2>1. Fresh' BY <1>0, <1>8 DEF Restart, Fresh, TypeOK
  <2> QED BY <2>1, FreshNodeNext
<1>9. CASE UNCHANGED vars
  BY <1>9 DEF vars, handler, SplitHasRaftNode
<1> QED
  BY <1>2, <1>3, <1>4, <1>5, <1>6, <1>7, <1>8, <1>9 DEF Next, Handle

\* Once its split is answered, every region has a Raft node.
THEOREM EveryRegionHasRaftNode == Spec => []SplitHasRaftNode
<1>1. Init => SplitHasRaftNode BY InitFresh, FreshNode
<1>2. RInv /\ SplitHasRaftNode /\ [Next]_vars => SplitHasRaftNode'
  BY NextRaftNode
<1> QED BY <1>1, <1>2, Invariance, PTL DEF Spec

\* A step that is not a restart changes a region only by a split, which makes it
\* smaller and raises its version.
LEMMA StepEpoch ==
  ASSUME RInv, [Next]_vars, ~Restart, NEW i \in Ids, byId[i] # NoRegion
  PROVE  /\ byId'[i].start = byId[i].start
         /\ \A x \in Keys : ContainsKey(byId'[i], x) => ContainsKey(byId[i], x)
         /\ byId'[i] = byId[i] \/ byId'[i].version > byId[i].version
<1>1. CASE byId' = byId BY <1>1
<1>2. CASE \E w \in Workers : Split(w) /\ pc'[w] = "raft"
  <2>1. PICK w \in Workers : Split(w) /\ pc'[w] = "raft" BY <1>2
  <2>2. PICK o : o = region[w].id OBVIOUS
  <2>3. PICK k : k = splitKey[w] OBVIOUS
  <2>4. PICK n : n = newId[w] OBVIOUS
  <2>5. o \in Ids /\ k \in Keys /\ n \in Ids /\ SplitStep(o, k, n)
    BY <2>1, <2>2, <2>3, <2>4, SplitIsStep
  <2>6. PICK r : r = byId[o] OBVIOUS
  <2>7. /\ r \in Region /\ SplitAllowed(r, k) /\ byId'[o] = LeftOf(r, k)
        /\ \A j \in Ids : j # o /\ j # n => byId'[j] = byId[j]
    BY <2>5, <2>6, SplitMaps
  <2>8. i # n BY <2>5 DEF SplitStep
  <2>9. CASE i = o
    <3>1. /\ LeftOf(r, k).start = r.start /\ LeftOf(r, k).version = r.version + 1
          /\ \A x \in Keys : ContainsKey(LeftOf(r, k), x) => ContainsKey(r, x)
      BY <2>5, <2>7, SplitParts
    <3>2. r.version \in Nat BY <2>7 DEF Region
    <3>3. r.version + 1 > r.version BY <3>2
    <3> QED BY <2>6, <2>7, <2>9, <3>1, <3>3
  <2>10. CASE i # o BY <2>7, <2>8, <2>10
  <2> QED BY <2>9, <2>10
<1> QED BY <1>1, <1>2, RouterChanges

\* Between restarts a region only shrinks, and each change raises its version.
THEOREM EpochsGrow == Spec => EpochGrows
<1>1. RInv /\ [Next]_vars =>
      [\/ Restart
       \/ \A i \in Ids : byId[i] # NoRegion =>
            /\ byId'[i].start = byId[i].start
            /\ \A k \in Keys : ContainsKey(byId'[i], k) => ContainsKey(byId[i], k)
            /\ \/ byId'[i] = byId[i]
               \/ byId'[i].version > byId[i].version]_vars
  BY StepEpoch
<1> QED BY <1>1, Invariance, PTL DEF Spec, EpochGrows

\* The median of a range with two keys is inside it, past its first key.
LEMMA MedianInside ==
  ASSUME NEW r \in Region, written \subseteq Keys,
         Cardinality(KeysInRange(r)) >= 2,
         NEW k \in KeysInRange(r), IsMedian(k, KeysInRange(r))
  PROVE  SplitAllowed(r, k)
<1>0. /\ k \in Keys /\ KeysInRange(r) \subseteq Keys
      /\ r.start \in Keys /\ r.end \in Keys
  BY DEF KeysInRange, Region
<1>1. /\ k \in Keys /\ KeysInRange(r) \subseteq Keys
      /\ r.start \in Nat /\ r.end \in Nat
      /\ Keys \subseteq Nat
  BY <1>0, RouterAssumption DEF Keys
<1>2. \A x \in KeysInRange(r) : ContainsKey(r, x) /\ x >= r.start /\ x \in Nat
  <2> SUFFICES ASSUME NEW x \in KeysInRange(r)
               PROVE  ContainsKey(r, x) /\ x >= r.start /\ x \in Nat
    OBVIOUS
  <2>1. x \in Nat BY <1>1
  <2> QED BY <1>1, <2>1 DEF KeysInRange, ContainsKey, EmptyKey
<1>3. IsFiniteSet(Keys) BY FS_Interval, RouterAssumption DEF Keys
<1>4. IsFiniteSet(KeysInRange(r)) BY <1>1, <1>3, FS_Subset
<1>5. Cardinality(KeysInRange(r)) \in Nat BY <1>4, FS_CardinalityType
<1>6. {o \in KeysInRange(r) : o < k} # {}
  <2>1. Cardinality(KeysInRange(r)) \div 2 # 0 BY <1>5
  <2> QED BY <2>1, FS_EmptySet DEF IsMedian
<1>7. PICK o \in KeysInRange(r) : o < k BY <1>6
<1>8. r.start < k
  <2>1. k \in Nat /\ o \in Nat /\ o >= r.start BY <1>2
  <2> QED BY <1>1, <1>7, <2>1
<1>9. k # r.start BY <1>1, <1>8
<1> QED BY <1>2, <1>9 DEF SplitAllowed

\* A step of one handler leaves the key of another alone.
LEMMA NextMedian ==
  ASSUME RInv, MedianSplits, [Next]_vars
  PROVE  MedianSplits'
<1>0. TypeOK BY DEF RInv
<1>1. ASSUME NEW w \in Workers,
             \A u \in Workers : u # w =>
               pc'[u] = pc[u] /\ region'[u] = region[u]
               /\ splitKey'[u] = splitKey[u] /\ median'[u] = median[u],
             pc'[w] \in {"alloc", "split"} /\ median'[w] =>
               SplitAllowed(region'[w], splitKey'[w])
      PROVE  MedianSplits'
  BY <1>1 DEF MedianSplits
<1>2. ASSUME NEW w \in Workers, NEW i \in Ids, NEW k \in Keys, AskSplit(w, i, k)
      PROVE  MedianSplits'
  <2>1. /\ pc'[w] = (IF k # EmptyKey THEN "alloc" ELSE "median")
        /\ median'[w] = (k = EmptyKey)
    BY <1>0, <1>2 DEF AskSplit, TypeOK
  <2>2. ~(pc'[w] \in {"alloc", "split"} /\ median'[w])
    BY <2>1
  <2>3. \A u \in Workers : u # w =>
          pc'[u] = pc[u] /\ region'[u] = region[u]
          /\ splitKey'[u] = splitKey[u] /\ median'[u] = median[u]
    BY <1>0, <1>2 DEF AskSplit, TypeOK
  <2> QED BY <1>1, <2>2, <2>3
<1>3. ASSUME NEW w \in Workers, FindMedian(w) PROVE MedianSplits'
  <2>1. CASE Answer(w)
    <3>1. pc'[w] = "idle" BY <1>0, <2>1, AnswerTypes
    <3>2. \A u \in Workers : u # w =>
            pc'[u] = pc[u] /\ region'[u] = region[u]
            /\ splitKey'[u] = splitKey[u] /\ median'[u] = median[u]
      BY <1>0, <2>1, AnswerTypes
    <3> QED BY <1>1, <3>1, <3>2
  <2>2. CASE ~Answer(w)
    <3>1. region[w] \in Region BY <1>3 DEF FindMedian, RInv, Handlers
    <3>2. PICK r \in Region : r = region[w] BY <3>1
    <3>3. /\ Cardinality(KeysInRange(r)) >= 2
          /\ \E k \in KeysInRange(r) : /\ IsMedian(k, KeysInRange(r))
                                       /\ splitKey' = [splitKey EXCEPT ![w] = k]
          /\ pc' = [pc EXCEPT ![w] = "alloc"] /\ UNCHANGED <<region, median>>
      BY <1>3, <2>2, <3>2 DEF FindMedian
    <3>4. PICK k \in KeysInRange(r) : /\ IsMedian(k, KeysInRange(r))
                                      /\ splitKey' = [splitKey EXCEPT ![w] = k]
      BY <3>3
    <3>5. SplitAllowed(r, k)
      BY <1>0, <3>3, <3>4, MedianInside DEF TypeOK
    <3>6. splitKey'[w] = k /\ region'[w] = r
      BY <1>0, <3>2, <3>3, <3>4 DEF TypeOK
    <3>7. \A u \in Workers : u # w =>
            pc'[u] = pc[u] /\ region'[u] = region[u]
            /\ splitKey'[u] = splitKey[u] /\ median'[u] = median[u]
      BY <1>0, <3>3, <3>4 DEF TypeOK
    <3> QED BY <1>1, <3>5, <3>6, <3>7
  <2> QED BY <2>1, <2>2
<1>4. ASSUME NEW w \in Workers, AllocRegionId(w) PROVE MedianSplits'
  BY <1>0, <1>4 DEF AllocRegionId, MedianSplits, TypeOK
<1>5. ASSUME NEW w \in Workers, Split(w) \/ CreateRaftNode(w) PROVE MedianSplits'
  <2>1. CASE Answer(w)
    <3>1. pc'[w] = "idle" BY <1>0, <2>1, AnswerTypes
    <3>2. \A u \in Workers : u # w =>
            pc'[u] = pc[u] /\ region'[u] = region[u]
            /\ splitKey'[u] = splitKey[u] /\ median'[u] = median[u]
      BY <1>0, <2>1, AnswerTypes
    <3> QED BY <1>1, <3>1, <3>2
  <2>2. CASE ~Answer(w)
    <3>1. /\ pc' = [pc EXCEPT ![w] = "raft"]
          /\ UNCHANGED <<region, splitKey, median>>
      BY <1>5, <2>2 DEF Split, CreateRaftNode, locals
    <3> QED BY <1>0, <3>1 DEF MedianSplits, TypeOK
  <2> QED BY <2>1, <2>2
<1>6. ASSUME NEW k \in Keys, WriteKey(k) PROVE MedianSplits'
  BY <1>6 DEF WriteKey, handler, MedianSplits
<1>7. CASE Restart
  <2>1. Fresh' BY <1>0, <1>7 DEF Restart, Fresh, TypeOK
  <2> QED BY <2>1, FreshNodeNext
<1>8. CASE UNCHANGED vars
  BY <1>8 DEF vars, handler, MedianSplits
<1> QED BY <1>2, <1>3, <1>4, <1>5, <1>6, <1>7, <1>8 DEF Next, Handle

\* A median that find_median_key chose can always split the region it is of.
THEOREM MedianAlwaysSplits == Spec => []MedianSplits
<1>1. Init => MedianSplits BY InitFresh, FreshNode
<1>2. RInv /\ MedianSplits /\ [Next]_vars => MedianSplits'
  BY NextMedian
<1> QED BY <1>1, <1>2, Invariance, PTL DEF Spec
=============================================================================
