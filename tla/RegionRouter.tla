---------------------------- MODULE RegionRouter ----------------------------
(***************************************************************************)
(* Regions of a node: the RegionRouter of crates/raft-engine with its two  *)
(* maps, and the AskSplit handler of crates/node that splits a region.     *)
(* The handler takes locks only inside its calls: between reading the      *)
(* region, choosing the key, drawing the new id, splitting and creating    *)
(* the Raft node, other AskSplit requests run and keys are committed.      *)
(*                                                                         *)
(* User keys are the numbers 0..MaxKey in byte order; 0 is the empty key,  *)
(* which as an end_key means that the region has no upper end.             *)
(***************************************************************************)
EXTENDS Integers, FiniteSets

CONSTANTS
  Workers,  \* threads that serve AskSplit requests
  MaxKey,   \* bound on the keys
  MaxId     \* bound on the region ids handed out

ASSUME RouterAssumption == MaxKey \in Nat \ {0} /\ MaxId \in Nat \ {0}

Keys == 0..MaxKey
Ids == 1..MaxId
EmptyKey == 0

Region == [id : Ids, start : Keys, end : Keys, version : Nat]
NoRegion == [id |-> 0, start |-> EmptyKey, end |-> EmptyKey, version |-> 0]

VARIABLES
  byId,       \* regions_by_id
  byKey,      \* regions_by_key: the region that starts at each key
  nextId,     \* next_region_id
  raftNodes,  \* the keys of raft_nodes
  written,    \* user keys that have a record in the write partition
  pc,         \* of each worker: where its AskSplit handler is
  region,     \* of each worker: the region it read
  splitKey,   \* of each worker: split_key
  newId,      \* of each worker: new_region_id
  median      \* of each worker: whether find_median_key chose split_key

router == <<byId, byKey>>
handler == <<pc, region, splitKey, newId, median>>
locals == <<region, splitKey, newId, median>>
vars == <<byId, byKey, nextId, raftNodes, written, handler>>

-----------------------------------------------------------------------------
(* Region and RegionRouter *)

NewRegion(i, s, e) == [id |-> i, start |-> s, end |-> e, version |-> 1]

ContainsKey(r, k) ==
  /\ r.start = EmptyKey \/ k >= r.start
  /\ r.end = EmptyKey \/ k < r.end

\* route_key: of the regions that contain k the one that starts last.
RouteKey(k) ==
  LET starts == {s \in Keys : byKey[s] # NoRegion /\ ContainsKey(byKey[s], k)}
  IN  IF starts = {} THEN NoRegion
      ELSE byKey[CHOOSE s \in starts : \A o \in starts : o <= s]

SplitAllowedAnywhere(r, k) == k # r.start    \* mutant
SplitAllowedAtStart(r, k) == ContainsKey(r, k) \* mutant
SplitAllowed(r, k) == ContainsKey(r, k) /\ k # r.start

LeftOfSameEpoch(r, k) == [r EXCEPT !.end = k]  \* mutant
LeftOf(r, k) ==
  [id |-> r.id, start |-> r.start, end |-> k, version |-> r.version + 1]

RightOf(r, k, i) == NewRegion(i, k, r.end)

\* split_region after its checks, under the write locks of both maps.
SplitRegion(r, k, i) ==
  /\ byId' = [byId EXCEPT ![r.id] = LeftOf(r, k), ![i] = RightOf(r, k, i)]
  /\ byKey' = [byKey EXCEPT ![r.start] = LeftOf(r, k), ![k] = RightOf(r, k, i)]

-----------------------------------------------------------------------------
(* StorageEngine: the keys of a range and their median *)

KeysInRangeClosed(r) ==  \* mutant
  {k \in written : (r.start = EmptyKey \/ k >= r.start)
                   /\ (r.end = EmptyKey \/ k <= r.end)}
KeysInRange(r) ==
  {k \in written : ~(r.start # EmptyKey /\ k < r.start)
                   /\ ~(r.end # EmptyKey /\ k >= r.end)}

\* k is keys[mid] of the sorted keys ks, mid = len / 2.
IsMedian(k, ks) ==
  Cardinality({o \in ks : o < k}) = Cardinality(ks) \div 2

-----------------------------------------------------------------------------
(* AskSplit *)

\* The handler answers and its locals are gone.
Answer(w) ==
  /\ pc' = [pc EXCEPT ![w] = "idle"]
  /\ region' = [region EXCEPT ![w] = NoRegion]
  /\ splitKey' = [splitKey EXCEPT ![w] = EmptyKey]
  /\ newId' = [newId EXCEPT ![w] = 0]
  /\ median' = [median EXCEPT ![w] = FALSE]

\* The region is read and cloned; a region id that is unknown is answered
\* with an error, which changes nothing.
AskSplit(w, i, k) ==
  /\ pc[w] = "idle"
  /\ byId[i] # NoRegion
  /\ region' = [region EXCEPT ![w] = byId[i]]
  /\ splitKey' = [splitKey EXCEPT ![w] = k]
  /\ median' = [median EXCEPT ![w] = (k = EmptyKey)]
  /\ pc' = [pc EXCEPT ![w] = IF k # EmptyKey THEN "alloc" ELSE "median"]
  /\ UNCHANGED <<router, nextId, raftNodes, written, newId>>

\* No split_key in the request: find_median_key, or "Could not find split key".
FindMedian(w) ==
  /\ pc[w] = "median"
  /\ LET ks == KeysInRange(region[w])
     IN  \/ /\ Cardinality(ks) < 2
            /\ Answer(w)
         \/ /\ Cardinality(ks) >= 2
            /\ pc' = [pc EXCEPT ![w] = "alloc"]
            /\ \E k \in ks : /\ IsMedian(k, ks)
                             /\ splitKey' = [splitKey EXCEPT ![w] = k]
            /\ UNCHANGED <<region, newId, median>>
  /\ UNCHANGED <<router, nextId, raftNodes, written>>

AllocatedIdAfter == nextId + 1  \* mutant
AllocatedId == nextId

AllocRegionId(w) ==
  /\ pc[w] = "alloc"
  /\ nextId <= MaxId
  /\ newId' = [newId EXCEPT ![w] = AllocatedId]
  /\ nextId' = nextId + 1
  /\ pc' = [pc EXCEPT ![w] = "split"]
  /\ UNCHANGED <<router, raftNodes, written, region, splitKey, median>>

\* split_region checks the key against the region as it is now.
Split(w) ==
  LET r == byId[region[w].id]
  IN  /\ pc[w] = "split"
      /\ \/ /\ SplitAllowed(r, splitKey[w])
            /\ SplitRegion(r, splitKey[w], newId[w])
            /\ pc' = [pc EXCEPT ![w] = "raft"]
            /\ UNCHANGED locals
         \/ /\ ~SplitAllowed(r, splitKey[w])
            /\ Answer(w)
            /\ UNCHANGED router
      /\ UNCHANGED <<nextId, raftNodes, written>>

NodeOfLeft(w) == region[w].id  \* mutant
NodeOf(w) == newId[w]

\* MultiRaftNode::new for the right region, and the answer.
CreateRaftNode(w) ==
  /\ pc[w] = "raft"
  /\ raftNodes' = raftNodes \cup {NodeOf(w)}
  /\ Answer(w)
  /\ UNCHANGED <<router, nextId, written>>

-----------------------------------------------------------------------------
(* The rest of the node *)

\* A transaction commits or rolls back on k: a write record appears.
WriteKey(k) ==
  /\ k \notin written
  /\ written' = written \cup {k}
  /\ UNCHANGED <<router, nextId, raftNodes, handler>>

\* NodeState::new: region 1 covers every key, and has a Raft node.
InitialById == [i \in Ids |-> IF i = 1 THEN NewRegion(1, EmptyKey, EmptyKey)
                                       ELSE NoRegion]
InitialByKey == [k \in Keys |-> IF k = EmptyKey
                                THEN NewRegion(1, EmptyKey, EmptyKey)
                                ELSE NoRegion]

\* A restart keeps only what is stored: regions and ids start over.
Restart ==
  /\ byId' = InitialById
  /\ byKey' = InitialByKey
  /\ nextId' = 2
  /\ raftNodes' = {1}
  /\ pc' = [w \in Workers |-> "idle"]
  /\ region' = [w \in Workers |-> NoRegion]
  /\ splitKey' = [w \in Workers |-> EmptyKey]
  /\ newId' = [w \in Workers |-> 0]
  /\ median' = [w \in Workers |-> FALSE]
  /\ UNCHANGED written

Init ==
  /\ byId = InitialById
  /\ byKey = InitialByKey
  /\ nextId = 2
  /\ raftNodes = {1}
  /\ written = {}
  /\ pc = [w \in Workers |-> "idle"]
  /\ region = [w \in Workers |-> NoRegion]
  /\ splitKey = [w \in Workers |-> EmptyKey]
  /\ newId = [w \in Workers |-> 0]
  /\ median = [w \in Workers |-> FALSE]

Handle(w) ==
  \/ \E i \in Ids, k \in Keys : AskSplit(w, i, k)
  \/ FindMedian(w)
  \/ AllocRegionId(w)
  \/ Split(w)
  \/ CreateRaftNode(w)

Next ==
  \/ \E w \in Workers : Handle(w)
  \/ \E k \in Keys : WriteKey(k)
  \/ Restart

Spec == Init /\ [][Next]_vars

-----------------------------------------------------------------------------
(* Properties *)

\* Every variable has its type, and every id in use has been handed out.
TypeOK ==
  /\ byId \in [Ids -> Region \cup {NoRegion}]
  /\ byKey \in [Keys -> Region \cup {NoRegion}]
  /\ nextId \in 2..(MaxId + 1)
  /\ raftNodes \subseteq Ids
  /\ written \subseteq Keys
  /\ pc \in [Workers -> {"idle", "median", "alloc", "split", "raft"}]
  /\ region \in [Workers -> Region \cup {NoRegion}]
  /\ splitKey \in [Workers -> Keys]
  /\ newId \in [Workers -> 0..MaxId]
  /\ median \in [Workers -> BOOLEAN]
  /\ \A w \in Workers : pc[w] \in {"split", "raft"} => newId[w] < nextId

\* Concurrent splits keep the regions a partition of the keys: route_key finds
\* a region for every key, the one and only region that contains it.
RoutedToOwner ==
  \A k \in Keys :
    /\ RouteKey(k) # NoRegion
    /\ \A i \in Ids : byId[i] # NoRegion =>
         (ContainsKey(byId[i], k) <=> byId[i] = RouteKey(k))

\* The two maps of the router hold the same regions under their own keys.
MapsAgree ==
  /\ \A i \in Ids : byId[i] # NoRegion =>
       byId[i].id = i /\ byKey[byId[i].start] = byId[i]
  /\ \A s \in Keys : byKey[s] # NoRegion =>
       byKey[s].start = s /\ byId[byKey[s].id] = byKey[s]

\* A region without a Raft node has a handler that is about to create it: a
\* split that was answered never leaves a region that no message can reach.
SplitHasRaftNode ==
  \A i \in Ids : byId[i] # NoRegion /\ i \notin raftNodes =>
    \E w \in Workers : pc[w] = "raft" /\ newId[w] = i

\* As long as the node runs, a region keeps its start, only shrinks, and every
\* change of its range raises its version.
EpochGrows ==
  [][\/ Restart
     \/ \A i \in Ids : byId[i] # NoRegion =>
          /\ byId'[i].start = byId[i].start
          /\ \A k \in Keys : ContainsKey(byId'[i], k) => ContainsKey(byId[i], k)
          /\ \/ byId'[i] = byId[i]
             \/ byId'[i].version > byId[i].version]_vars

\* The key find_median_key chooses is a key at which the region it was asked
\* about can be split, so that only another split of the region in between can
\* make split_region refuse it.
MedianSplits ==
  \A w \in Workers :
    pc[w] \in {"alloc", "split"} /\ median[w] =>
      SplitAllowed(region[w], splitKey[w])
=============================================================================
