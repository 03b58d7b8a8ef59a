--------------------------- MODULE BatchCollector ---------------------------
(***************************************************************************)
(* BatchCollector of the client library (client/src/client.rs): submitters *)
(* put their prewrites and commits into two bounded channels, and one task *)
(* per channel collects items until a batch is full or its timer fires,    *)
(* then calls the server for one item after the other and hands each       *)
(* submitter its answer.  tokio's channels and tonic's calls are external. *)
(***************************************************************************)
EXTENDS Integers, Sequences, SequencesExt, FiniteSets

CONSTANTS Clients,     \* tasks of the application, each with a clone of the collector
          Capacity,    \* places in a channel: 1024 in the code
          BatchSize,   \* batch_size
          MaxTries     \* how many submissions a client makes

ASSUME SizesAssumption ==
  /\ Capacity \in Nat \ {0}
  /\ BatchSize \in Nat
  /\ MaxTries \in Nat

VARIABLES
  handles,   \* clients that still own their clone: the senders of both channels
  client,    \* what each client does: see Idle
  queue,     \* the channel of each lane
  items,     \* the items a lane's task has collected, the one it calls for first
  task,      \* where the lane's task is
  accepted,  \* items that were put into the channel, in order
  sent       \* items the task has called the server for, in order

vars == <<handles, client, queue, items, task, accepted, sent>>

Lanes == {"prewrite", "commit"}

\* A client has submitted `tries' times; `done' is what was answered Ok last; it
\* is idle, awaits a place in the channel, or awaits the answer.
Idle == [done |-> "none", at |-> "idle", tries |-> 0]

\* A transaction is prewritten, then committed.
LaneOf(c) == IF client[c].done = "none" THEN "prewrite" ELSE "commit"

Item(c) == <<c, client[c].tries>>

Owner(item) == item[1]

\* The submitter still awaits the answer to this item.
Awaits(item) == client[Owner(item)].at = "answer" /\ Item(Owner(item)) = item

-----------------------------------------------------------------------------
(* The submitters.                                                         *)

\* submit_prewrite or submit_commit is called.
Submit(c) ==
  /\ c \in handles
  /\ client[c].at = "idle"
  /\ client[c].done # "commit"
  /\ client[c].tries < MaxTries
  /\ client' = [client EXCEPT ![c].at = "place", ![c].tries = @ + 1]
  /\ UNCHANGED <<handles, queue, items, task, accepted, sent>>

\* Its send finds a place in the channel.
Enqueue(c) ==
  LET l == LaneOf(c)
  IN  /\ client[c].at = "place"
      /\ Len(queue[l]) < Capacity
      /\ queue' = [queue EXCEPT ![l] = Append(@, Item(c))]
      /\ accepted' = [accepted EXCEPT ![l] = Append(@, Item(c))]
      /\ client' = [client EXCEPT ![c].at = "answer"]
      /\ UNCHANGED <<handles, items, task, sent>>

\* The application drops the future of its submission: a deadline, a select.
Cancel(c) ==
  /\ client[c].at # "idle"
  /\ client' = [client EXCEPT ![c].at = "idle"]
  /\ UNCHANGED <<handles, queue, items, task, accepted, sent>>

\* A bug: a submission does not keep the collector alive.
MayDropAnytime(c) == TRUE

\* A submission borrows the collector (&self) until it is answered or dropped.
MayDrop(c) == client[c].at = "idle"

DropHandle(c) ==
  /\ c \in handles
  /\ MayDrop(c)
  /\ handles' = handles \ {c}
  /\ UNCHANGED <<client, queue, items, task, accepted, sent>>

-----------------------------------------------------------------------------
(* The task of a lane.                                                     *)

\* A bug: the newest item is flushed first.
CollectedFirst(batch, item) == <<item>> \o batch

Collected(batch, item) == Append(batch, item)

\* recv: an item, which may fill the batch.
Receive(l) ==
  /\ task[l] = "collect"
  /\ queue[l] # <<>>
  /\ queue' = [queue EXCEPT ![l] = Tail(@)]
  /\ items' = [items EXCEPT ![l] = Collected(@, Head(queue[l]))]
  /\ task' = [task EXCEPT ![l] = IF Len(items'[l]) >= BatchSize THEN "flush" ELSE @]
  /\ UNCHANGED <<handles, client, accepted, sent>>

\* A bug: the task waits for a full batch.
FlushesFull(batch) == Len(batch) >= BatchSize

\* An empty batch is not flushed, and the timer starts again.
Flushes(batch) == batch # <<>>

Timeout(l) ==
  /\ task[l] = "collect"
  /\ Flushes(items[l])
  /\ task' = [task EXCEPT ![l] = "flush"]
  /\ UNCHANGED <<handles, client, queue, items, accepted, sent>>

\* A bug: the task owns a clone of the collector and so a sender.
TaskHoldsSender == FALSE

NoSenders == handles = {}

\* recv: the channel is empty and has no sender left.  The task returns, and what
\* it had collected is dropped with it.
Closed(l) ==
  /\ task[l] = "collect"
  /\ queue[l] = <<>>
  /\ NoSenders
  /\ task' = [task EXCEPT ![l] = "done"]
  /\ items' = [items EXCEPT ![l] = <<>>]
  /\ UNCHANGED <<handles, client, queue, accepted, sent>>

\* KvClient::batch_prewrite or batch_commit for the next item.
Call(l) ==
  /\ task[l] = "flush"
  /\ task' = [task EXCEPT ![l] = "call"]
  /\ sent' = [sent EXCEPT ![l] = Append(@, Head(items[l]))]
  /\ UNCHANGED <<handles, client, queue, items, accepted>>

\* The server has answered, Ok or not; the answer goes to the submitter, who may
\* have gone.
Answered(l, ok) ==
  /\ task[l] = "call"
  /\ client' = [c \in Clients |->
       IF Owner(Head(items[l])) = c /\ Awaits(Head(items[l]))
       THEN [client[c] EXCEPT !.at = "idle", !.done = IF ok THEN l ELSE @]
       ELSE client[c]]
  /\ items' = [items EXCEPT ![l] = Tail(@)]
  /\ task' = [task EXCEPT ![l] = IF Len(items[l]) = 1 THEN "collect" ELSE "flush"]
  /\ UNCHANGED <<handles, queue, accepted, sent>>

-----------------------------------------------------------------------------
Init ==
  /\ handles = Clients
  /\ client = [c \in Clients |-> Idle]
  /\ queue = [l \in Lanes |-> <<>>]
  /\ items = [l \in Lanes |-> <<>>]
  /\ task = [l \in Lanes |-> "collect"]
  /\ accepted = [l \in Lanes |-> <<>>]
  /\ sent = [l \in Lanes |-> <<>>]

TaskStep(l) ==
  \/ Receive(l) \/ Timeout(l) \/ Closed(l) \/ Call(l)
  \/ \E ok \in BOOLEAN : Answered(l, ok)

Next ==
  \/ \E c \in Clients : Submit(c) \/ Enqueue(c) \/ Cancel(c) \/ DropHandle(c)
  \/ \E l \in Lanes : TaskStep(l)

Spec == Init /\ [][Next]_vars

\* A task is polled again and again, its timer fires and the server answers every
\* call; a place in a channel goes to the submitter that has waited longest.
Fairness ==
  /\ \A l \in Lanes : WF_vars(TaskStep(l)) /\ WF_vars(Timeout(l))
  /\ \A c \in Clients : SF_vars(Enqueue(c))

LiveSpec == Spec /\ Fairness

-----------------------------------------------------------------------------
(* Properties.                                                             *)

\* No item is lost, sent twice or overtaken on its way through channel, batch
\* and flush; when a task has ended, the items it dropped belong to submissions
\* nobody awaits.
NothingLost ==
  \A l \in Lanes :
    LET inCall == IF task[l] = "call" THEN Tail(items[l]) ELSE items[l]
    IN  IF task[l] # "done" THEN accepted[l] = sent[l] \o inCall \o queue[l]
        ELSE /\ IsPrefix(sent[l], accepted[l])
             /\ \A i \in Range(accepted[l]) : ~Awaits(i)

\* When a commit is sent, every prewrite its client has ever submitted, also one
\* it cancelled and repeated, has been answered: none of them can reach the
\* server after the commit and lock its keys again.  The two lanes are not
\* synchronised with each other; this rests on each of them being sequential.
NoLatePrewrite ==
  \A i \in Range(sent["commit"]) :
    \A j \in Range(items["prewrite"]) \cup Range(queue["prewrite"]) :
      Owner(i) # Owner(j)

\* Every submission is answered, unless it is cancelled: no order of full
\* channels, timers, cancelled items and dropped clones leaves it waiting.
SubmissionsEnd ==
  \A c \in Clients : client[c].at # "idle" ~> client[c].at = "idle"

\* When every clone of the collector is gone, both tasks end.
TasksEnd == (handles = {}) ~> (\A l \in Lanes : task[l] = "done")

=============================================================================
