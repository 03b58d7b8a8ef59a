--------------------------- MODULE MultiRaftNode ---------------------------
(***************************************************************************)
(* The Raft node of one region: RaftStorage (raft-engine/src/store.rs),    *)
(* MultiRaftNode (raft-engine/src/node.rs) and the RaftService handlers    *)
(* that feed it.  The node is a follower for good: its ConfState is empty  *)
(* (set_conf_state has no caller), so the raft crate never lets it         *)
(* campaign.  The leaders of the group, and RawNode as far as it serves a  *)
(* follower, are external (raft 0.7).                                      *)
(*                                                                         *)
(* A message may be lost, delayed, duplicated and reordered: a leader's    *)
(* log only grows, so every message it ever sent can be read off the log   *)
(* it has now, and the node may be handed any of them at any time.         *)
(***************************************************************************)
EXTENDS Integers, Sequences, SequencesExt, FiniteSetsExt

CONSTANTS MaxTerm,      \* leaders are elected in terms 1 .. MaxTerm
          MaxIndex,     \* no leader's log is longer
          MaxAppends,   \* how many entries with data the leaders append
          MaxRestarts   \* how often the node is restarted

ASSUME BoundsAssumption ==
  /\ MaxTerm \in Nat \ {0}
  /\ MaxIndex \in Nat \ {0}
  /\ MaxAppends \in Nat
  /\ MaxRestarts \in Nat

VARIABLES
  leaders,   \* the leader of term t: its log and what it says is committed
  store,     \* RaftStorageCore: entries and hard_state in memory
  disk,      \* what RaftStorage has written to the DEFAULT partition
  raw,       \* RawNode: term, commit index, unstable entries and so on
  handed,    \* entries of ready.committed_entries() since the node was opened
  early,     \* entries of the log that were stored before they were known to be committed
  failed,    \* the raft crate has panicked
  misled,    \* a restart has brought entries, or a commit index, that the node did not have
  restarts

vars == <<leaders, store, disk, raw, handed, early, failed, misled, restarts>>

-----------------------------------------------------------------------------
(* Entries and the storage that RawNode reads.                             *)

Entry(i, t, d) == [index |-> i, term |-> t, data |-> d]

Dummy == Entry(0, 0, FALSE)

NoHardState == [term |-> 0, commit |-> 0]

NoEntries == [i \in {} |-> Dummy]

\* A bug: the range of the load leaves out its first key.
LoadedPastFirst(d) ==
  IF DOMAIN d.entries = {} THEN <<Dummy>>
  ELSE LET lo == Min(DOMAIN d.entries)
       IN  IF Cardinality(DOMAIN d.entries) = 1 THEN <<Dummy>>
           ELSE [n \in 1 .. Cardinality(DOMAIN d.entries) - 1 |-> d.entries[lo + n]]

\* The entries of RaftStorage::new: those on disk in the order of their
\* index, or the dummy entry, which is never written.
Loaded(d) ==
  IF DOMAIN d.entries = {} THEN <<Dummy>>
  ELSE LET lo == Min(DOMAIN d.entries)
       IN  [n \in 1 .. Cardinality(DOMAIN d.entries) |-> d.entries[lo + n - 1]]

FirstIndex(s) == s.entries[1].index + 1

LastIndex(s) == Last(s.entries).index

StoredEntry(s, i) == s.entries[i - s.entries[1].index + 1]

\* A bug: the truncation keeps one entry too many.
AppendedLate(s, new) ==
  IF new = <<>> THEN s
  ELSE [s EXCEPT !.entries =
          SubSeq(@, 1, Min({Len(@), new[1].index - @[1].index + 1})) \o new]

\* RaftStorage::append in memory: the entries from the first new index on are
\* dropped, the new ones added.
Appended(s, new) ==
  IF new = <<>> THEN s
  ELSE [s EXCEPT !.entries =
          SubSeq(@, 1, Min({Len(@), new[1].index - @[1].index})) \o new]

\* RaftStorage::append on disk: one batch that inserts the new entries.  The
\* entries the truncation dropped stay.
Inserted(d, new) ==
  [d EXCEPT !.entries =
     [i \in DOMAIN @ \cup {e.index : e \in Range(new)} |->
        IF new # <<>> /\ i \in new[1].index .. Last(new).index
        THEN new[i - new[1].index + 1] ELSE @[i]]]

-----------------------------------------------------------------------------
(* RawNode of a follower.                                                  *)

LogLast == raw.offset + Len(raw.unstable) - 1

LogEntry(i) == IF i >= raw.offset THEN raw.unstable[i - raw.offset + 1]
               ELSE StoredEntry(store, i)

\* RaftLog::term answers 0 outside of the log.
LogTerm(i) == IF i \in FirstIndex(store) - 1 .. LogLast THEN LogEntry(i).term ELSE 0

HardStateOf(r) == [term |-> r.term, commit |-> r.committed]

\* The committed and stored entries after since, from the storage s.
NextEntries(s, since, committed, persisted) ==
  LET lo == Max({since + 1, FirstIndex(s)})
      hi == Min({committed, persisted})
  IN  [n \in 1 .. Max({0, hi - lo + 1}) |-> StoredEntry(s, lo + n - 1)]

HasReady ==
  \/ raw.unstable # <<>>
  \/ HardStateOf(raw) # raw.prev
  \/ NextEntries(store, raw.since, raw.committed, raw.persisted) # <<>>

SinceAfter(since, es) == IF es = <<>> THEN since ELSE Last(es).index

\* The unstable part after new entries: truncate_and_append.
Unstable(r, new) ==
  IF new[1].index <= r.offset
  THEN [r EXCEPT !.offset = new[1].index, !.unstable = new]
  ELSE [r EXCEPT !.unstable = SubSeq(@, 1, new[1].index - r.offset) \o new]

-----------------------------------------------------------------------------
(* The leaders of the group.                                               *)

Committed == UNION {Range(SubSeq(leaders[t].log, 1, leaders[t].commit)) :
                      t \in DOMAIN leaders}

\* Leader of the next term: a node whose log has every committed entry and is
\* a prefix of an earlier leader's.  It appends an entry without data.
Elect ==
  /\ Len(leaders) < MaxTerm
  /\ \E l \in {<<>>} \cup UNION {Prefixes(leaders[t].log) : t \in DOMAIN leaders} :
       /\ Len(l) < MaxIndex
       /\ Committed \subseteq Range(l)
       /\ leaders' = Append(leaders,
            [log |-> Append(l, Entry(Len(l) + 1, Len(leaders) + 1, FALSE)),
             commit |-> Cardinality(Committed)])
  /\ UNCHANGED <<store, disk, raw, handed, early, failed, misled, restarts>>

Appends == {e \in UNION {Range(leaders[t].log) : t \in DOMAIN leaders} : e.data}

LeaderAppend ==
  /\ leaders # <<>>
  /\ Cardinality(Appends) < MaxAppends
  /\ LET t == Len(leaders)
         l == leaders[t].log
     IN  /\ Len(l) < MaxIndex
         /\ leaders' = [leaders EXCEPT ![t].log = Append(@, Entry(Len(l) + 1, t, TRUE))]
  /\ UNCHANGED <<store, disk, raw, handed, early, failed, misled, restarts>>

\* A quorum stores an entry of the leader's own term.
LeaderCommit ==
  /\ leaders # <<>>
  /\ LET t == Len(leaders)
     IN  \E c \in leaders[t].commit + 1 .. Len(leaders[t].log) :
           /\ leaders[t].log[c].term = t
           /\ leaders' = [leaders EXCEPT ![t].commit = c]
  /\ UNCHANGED <<store, disk, raw, handed, early, failed, misled, restarts>>

-----------------------------------------------------------------------------
(* The node.                                                               *)

\* RawNode::step of an append in term t, after entry p, with entries new and
\* commit index c.
Conflicts(new) == {n \in DOMAIN new : LogTerm(new[n].index) # new[n].term}

StepAppend(t, p, pt, new, c) ==
  LET followed == [raw EXCEPT !.term = t]
      rest == IF Conflicts(new) = {} THEN <<>>
              ELSE SubSeq(new, Min(Conflicts(new)), Len(new))
      grown == IF rest = <<>> THEN followed
               ELSE [Unstable(followed, rest) EXCEPT
                       !.persisted = Min({@, rest[1].index - 1})]
      matches == p >= raw.committed /\ LogTerm(p) = pt
      clashes == \E e \in Range(rest) : e.index <= raw.committed
  IN  \/ /\ ~matches
         /\ raw' = followed
         /\ UNCHANGED failed
      \/ /\ matches /\ clashes
         /\ failed' = TRUE
         /\ UNCHANGED raw
      \/ /\ matches /\ ~clashes
         /\ raw' = [grown EXCEPT !.committed = Max({@, Min({c, p + Len(new)})})]
         /\ UNCHANGED failed

\* RaftService::send_message and step: a message of the leader of term t, for
\* the region's node, under the lock of raft_nodes; the outcome is ignored.  A
\* message of an older term than the node's changes nothing; a commit index that
\* the node has passed counts as 0, one past the last entry sent as that entry.
SendMessage ==
  /\ ~failed
  /\ \E t \in {u \in DOMAIN leaders : u >= raw.term} :
       LET l == leaders[t].log
       IN  \E p \in 0 .. Len(l) : \E e \in p .. Len(l) :
             \E c \in {0} \cup (raw.committed + 1 .. Min({e, leaders[t].commit})) :
               StepAppend(t, p, IF p = 0 THEN 0 ELSE l[p].term, SubSeq(l, p + 1, e), c)
  /\ early' = {e \in early : e.index <= raw'.persisted}
  /\ UNCHANGED <<leaders, store, disk, handed, misled, restarts>>

\* The two writes of process_ready: first the entries, then the hard state.
SaveEntries(d) == Inserted(d, raw.unstable)

SaveHardState(d) ==
  IF HardStateOf(raw) # raw.prev THEN [d EXCEPT !.hs = HardStateOf(raw)] ELSE d

\* RawNode::ready: the unstable entries, and the committed ones after since.
Ready == [entries |-> raw.unstable,
          committed |-> NextEntries(store, raw.since, raw.committed, raw.persisted)]

\* A bug: the entries to store are returned, committed or not.
HandedBeforeCommit(rd) == rd.entries

\* The entries whose data process_ready returns.
HandedOut(rd) == rd.committed

\* MultiRaftNode::process_ready.  append cannot answer Compacted, by
\* LogIsContiguous.  advance releases the entries that this Ready has stored
\* and that were committed already, in a LightReady that is ignored.
ProcessReady ==
  /\ ~failed
  /\ HasReady
  /\ LET stored == Appended(store, Ready.entries)
         written == IF Ready.entries = <<>> THEN raw.persisted ELSE LogLast
         since == SinceAfter(raw.since, Ready.committed)
         light == NextEntries(stored, since, raw.committed, written)
     IN  /\ store' = SaveHardState(stored)
         /\ disk' = SaveHardState(SaveEntries(disk))
         /\ handed' = handed \o HandedOut(Ready)
         /\ raw' = [raw EXCEPT !.offset = LogLast + 1, !.unstable = <<>>,
                               !.persisted = written, !.prev = HardStateOf(raw),
                               !.since = SinceAfter(since, light)]
         /\ early' = early \cup {e \in Range(stored.entries) : e.index > raw.committed}
  /\ UNCHANGED <<leaders, failed, misled, restarts>>

\* A bug: what was committed is taken to have been applied.
AppliedIsCommitted(d) == d.hs.commit

\* The field applied of the raft configuration.
Applied(d) == 0

\* MultiRaftNode::new over what is on disk.  RaftLog starts with the entry before
\* first_index as committed, and refuses a stored commit index outside of the
\* log.
Opened(d) ==
  LET es == Loaded(d)
      c == IF d.hs = NoHardState THEN es[1].index ELSE d.hs.commit
  IN  /\ store' = [entries |-> es, hs |-> d.hs]
      /\ disk' = d
      /\ raw' = [term |-> d.hs.term, committed |-> c, persisted |-> Last(es).index,
                 since |-> Applied(d), offset |-> Last(es).index + 1, unstable |-> <<>>,
                 prev |-> [term |-> d.hs.term, commit |-> c]]
      /\ failed' = (d.hs # NoHardState /\ c \notin es[1].index .. Last(es).index)
      /\ handed' = <<>>
      /\ early' = Range(es)

\* The process ends and the node is opened again.
Restart(d, before) ==
  /\ restarts < MaxRestarts
  /\ restarts' = restarts + 1
  /\ Opened(d)
  /\ misled' = (misled \/ raw'.committed > raw.committed
                       \/ ~ Range(Loaded(d)) \subseteq Range(before.entries) \cup {Dummy})
  /\ UNCHANGED leaders

RestartIdle == Restart(disk, store)

\* A bug: the hard state is written before the entries.
HalfSavedHardState(d) == SaveHardState(d)

\* What is on disk when the process ends between the writes of process_ready.
HalfSaved(d) == SaveEntries(d)

RestartInReady ==
  /\ ~failed
  /\ HasReady
  /\ Restart(HalfSaved(disk), Appended(store, raw.unstable))

Init ==
  /\ leaders = <<>>
  /\ store = [entries |-> <<Dummy>>, hs |-> NoHardState]
  /\ disk = [entries |-> NoEntries, hs |-> NoHardState]
  /\ raw = [term |-> 0, committed |-> 0, persisted |-> 0, since |-> 0, offset |-> 1,
            unstable |-> <<>>, prev |-> NoHardState]
  /\ handed = <<>>
  /\ early = {}
  /\ failed = FALSE
  /\ misled = FALSE
  /\ restarts = 0

Next ==
  \/ Elect \/ LeaderAppend \/ LeaderCommit
  \/ SendMessage \/ ProcessReady
  \/ RestartIdle \/ RestartInReady

Spec == Init /\ [][Next]_vars

-----------------------------------------------------------------------------
(* Properties.                                                             *)

\* The log in memory has no gap and no entry twice, over truncating appends,
\* crashes and restarts, and the unstable entries continue it: the offsets that
\* append, entries and term compute from entries[0] find the right entry.
LogIsContiguous ==
  /\ \A n \in DOMAIN store.entries : store.entries[n].index = store.entries[1].index + n - 1
  /\ \A n \in DOMAIN raw.unstable : raw.unstable[n].index = raw.offset + n - 1
  /\ raw.offset \in FirstIndex(store) .. LastIndex(store) + 1

\* What process_ready hands out is committed by the group, in the order of the
\* log and once per opening, as long as no restart has brought entries or a
\* commit index that the node did not have.
HandedAreCommitted ==
  /\ \A m, n \in DOMAIN handed : m < n => handed[m].index < handed[n].index
  /\ ~misled => Range(handed) \subseteq Committed

\* process_ready writes the entries before the hard state that counts them as
\* committed: whenever the process ends, the entries up to the commit index on
\* disk are on disk, and are the group's.
CommitIsCovered ==
  \A i \in 1 .. disk.hs.commit :
    /\ i \in DOMAIN disk.entries
    /\ ~misled => disk.entries[i] \in Committed

\* No command is lost but those that were committed when they arrived, with the
\* LightReady that process_ready ignores: an entry that was stored first and
\* known to be committed later, or that was on disk when the node was opened,
\* is handed out before the node moves past it.  The entry at which the loaded
\* log begins is taken for a compacted one and is not, but it is the one that
\* the first leader appended when it was elected, and carries no command.
StoredFirstIsHanded ==
  \A e \in early :
    (e \in Range(store.entries) /\ e.index <= raw.since)
      => e \in Range(handed) \/ (e = store.entries[1] /\ ~e.data)

\* The raft crate panics only in a node that was restarted before its disk knew
\* of a commit, or that was misled by a restart: from the first
\* stored commit index on, the node can be opened again and again.
FailsOnlyBeforeFirstCommit ==
  failed => misled \/ disk.hs.commit = 0

=============================================================================
