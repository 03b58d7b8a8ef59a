------------------------ MODULE BatchCollectorProofs ------------------------
(***************************************************************************)
(* Proof that the two lanes of a BatchCollector keep a client's prewrites  *)
(* before its commit and lose nothing, for any number of clients, channel  *)
(* capacity, batch size and number of submissions.                         *)
(***************************************************************************)
EXTENDS BatchCollector, SequenceTheorems, TLAPS

-----------------------------------------------------------------------------
(* The inductive invariant *)

Items == Clients \X Nat

ClientStates == [done : {"none"} \cup Lanes, at : {"idle", "place", "answer"}, tries : Nat]

Types ==
  /\ client \in [Clients -> ClientStates]
  /\ queue \in [Lanes -> Seq(Items)]
  /\ items \in [Lanes -> Seq(Items)]
  /\ sent \in [Lanes -> Seq(Items)]
  /\ task \in [Lanes -> {"collect", "flush", "call", "done"}]
  /\ \A l \in Lanes : task[l] \in {"flush", "call"} => items[l] # <<>>

\* The items of a client are numbered upwards along a lane.
Rising(s) ==
  \A m, n \in DOMAIN s : m < n /\ s[m][1] = s[n][1] => s[m][2] < s[n][2]

Before(s, t) ==
  \A m \in DOMAIN s, n \in DOMAIN t : s[m][1] = t[n][1] => s[m][2] < t[n][2]

\* A client's items have numbers it has used, and one that waits for a place in
\* the channel has a number that none of them has.
Numbered(cl, s) ==
  \A n \in DOMAIN s :
    /\ s[n][2] <= cl[s[n][1]].tries
    /\ cl[s[n][1]].at = "place" => s[n][2] < cl[s[n][1]].tries

\* The clients of the items in s have, or have not, had a prewrite answered Ok.
Prewritten(cl, s) == \A n \in DOMAIN s : cl[s[n][1]].done # "none"

NotPrewritten(cl, s) == \A n \in DOMAIN s : cl[s[n][1]].done = "none"

InOrder ==
  /\ Rising(items["prewrite"]) /\ Rising(queue["prewrite"])
  /\ Before(items["prewrite"], queue["prewrite"])
  /\ Numbered(client, items["prewrite"]) /\ Numbered(client, queue["prewrite"])

LanesApart ==
  /\ NotPrewritten(client, items["prewrite"])
  /\ NotPrewritten(client, queue["prewrite"])
  /\ Prewritten(client, items["commit"]) /\ Prewritten(client, queue["commit"])
  /\ Prewritten(client, sent["commit"])

LaneInv == Types /\ InOrder /\ LanesApart

-----------------------------------------------------------------------------
(* Sequences *)

\* What Append, Head and Tail do to a sequence, element by element.
LEMMA Appending ==
  ASSUME NEW S, NEW s \in Seq(S), NEW e \in S
  PROVE  /\ Append(s, e) \in Seq(S)
         /\ DOMAIN Append(s, e) = 1 .. Len(s) + 1
         /\ Append(s, e)[Len(s) + 1] = e
         /\ \A n \in DOMAIN s : Append(s, e)[n] = s[n]
         /\ DOMAIN s = 1 .. Len(s)
         /\ Len(s) \in Nat
OBVIOUS

LEMMA Taking ==
  ASSUME NEW S, NEW s \in Seq(S), s # <<>>
  PROVE  /\ Tail(s) \in Seq(S)
         /\ Head(s) = s[1] /\ Head(s) \in S
         /\ 1 \in DOMAIN s
         /\ DOMAIN s = 1 .. Len(s) /\ Len(s) \in Nat
         /\ DOMAIN Tail(s) = 1 .. Len(s) - 1
         /\ \A n \in DOMAIN Tail(s) : n + 1 \in DOMAIN s /\ Tail(s)[n] = s[n + 1]
OBVIOUS

\* What a lane's order says of a sequence it says of its tail.
LEMMA TailKeeps ==
  ASSUME NEW cl, NEW s \in Seq(Items), s # <<>>
  PROVE  /\ Rising(s) => Rising(Tail(s))
         /\ NotPrewritten(cl, s) => NotPrewritten(cl, Tail(s))
         /\ Prewritten(cl, s) => Prewritten(cl, Tail(s))
         /\ Numbered(cl, s) => Numbered(cl, Tail(s))
         /\ \A t : Before(s, t) => Before(Tail(s), t)
         /\ \A t : Before(t, s) => Before(t, Tail(s))
<1>1. /\ DOMAIN Tail(s) = 1 .. Len(s) - 1 /\ Len(s) \in Nat
      /\ \A n \in DOMAIN Tail(s) : n + 1 \in DOMAIN s /\ Tail(s)[n] = s[n + 1]
  BY Taking
<1>2. \A m, n \in DOMAIN Tail(s) : m < n => m + 1 < n + 1
  BY <1>1
<1>3. Rising(s) => Rising(Tail(s))
  BY <1>1, <1>2 DEF Rising
<1>4. \A t : Before(s, t) => Before(Tail(s), t)
  BY <1>1 DEF Before
<1>5. \A t : Before(t, s) => Before(t, Tail(s))
  BY <1>1 DEF Before
<1>6. Numbered(cl, s) => Numbered(cl, Tail(s))
  BY <1>1 DEF Numbered
<1> QED
  BY <1>1, <1>3, <1>4, <1>5, <1>6 DEF NotPrewritten, Prewritten

\* And of a sequence with one more item, if the item fits.
LEMMA AppendKeeps ==
  ASSUME NEW cl, NEW s \in Seq(Items), NEW e \in Items
  PROVE  /\ Rising(s) /\ (\A n \in DOMAIN s : s[n][1] = e[1] => s[n][2] < e[2])
              => Rising(Append(s, e))
         /\ NotPrewritten(cl, s) /\ cl[e[1]].done = "none" => NotPrewritten(cl, Append(s, e))
         /\ Prewritten(cl, s) /\ cl[e[1]].done # "none" => Prewritten(cl, Append(s, e))
         /\ Numbered(cl, s) /\ Numbered(cl, <<e>>) => Numbered(cl, Append(s, e))
         /\ \A t : Before(s, t) /\ Before(<<e>>, t) => Before(Append(s, e), t)
         /\ \A t : Before(t, s) /\ Before(t, <<e>>) => Before(t, Append(s, e))
<1> DEFINE a == Append(s, e)
<1>1. /\ DOMAIN a = 1 .. Len(s) + 1 /\ a[Len(s) + 1] = e
      /\ \A n \in DOMAIN s : a[n] = s[n]
      /\ DOMAIN s = 1 .. Len(s) /\ Len(s) \in Nat
  BY Appending
<1>2. \A n \in DOMAIN a : n \in DOMAIN s \/ n = Len(s) + 1
  BY <1>1
<1>3. \A m, n \in DOMAIN a : m < n => m \in DOMAIN s
  BY <1>1
<1>4. DOMAIN <<e>> = {1} /\ <<e>>[1] = e
  OBVIOUS
<1> HIDE DEF a
<1>5. Rising(s) /\ (\A n \in DOMAIN s : s[n][1] = e[1] => s[n][2] < e[2]) => Rising(a)
  BY <1>1, <1>2, <1>3 DEF Rising
<1>6. \A t : Before(s, t) /\ Before(<<e>>, t) => Before(a, t)
  BY <1>1, <1>2, <1>4 DEF Before
<1>7. \A t : Before(t, s) /\ Before(t, <<e>>) => Before(t, a)
  BY <1>1, <1>2, <1>4 DEF Before
<1>8. Numbered(cl, s) /\ Numbered(cl, <<e>>) => Numbered(cl, a)
  BY <1>1, <1>2, <1>4 DEF Numbered
<1>9. /\ NotPrewritten(cl, s) /\ cl[e[1]].done = "none" => NotPrewritten(cl, a)
      /\ Prewritten(cl, s) /\ cl[e[1]].done # "none" => Prewritten(cl, a)
  BY <1>1, <1>2 DEF NotPrewritten, Prewritten
<1> QED
  BY <1>5, <1>6, <1>7, <1>8, <1>9 DEF a

\* What they say of its head.
LEMMA HeadFits ==
  ASSUME NEW cl, NEW s \in Seq(Items), s # <<>>
  PROVE  /\ Rising(s) => Before(<<Head(s)>>, Tail(s))
         /\ Numbered(cl, s) => Numbered(cl, <<Head(s)>>)
         /\ NotPrewritten(cl, s) => cl[Head(s)[1]].done = "none"
         /\ Prewritten(cl, s) => cl[Head(s)[1]].done # "none"
         /\ \A t : Before(t, s) =>
              \A n \in DOMAIN t : t[n][1] = Head(s)[1] => t[n][2] < Head(s)[2]
         /\ \A t : Before(s, t) => Before(<<Head(s)>>, t)
<1> DEFINE h == Head(s)
           r == Tail(s)
<1>1. /\ DOMAIN r = 1 .. Len(s) - 1 /\ Len(s) \in Nat
      /\ \A n \in DOMAIN r : n + 1 \in DOMAIN s /\ r[n] = s[n + 1]
      /\ h = s[1] /\ 1 \in DOMAIN s
  BY Taking
<1>2. DOMAIN <<h>> = {1} /\ <<h>>[1] = h
  OBVIOUS
<1>3. \A n \in DOMAIN r : 1 < n + 1
  BY <1>1
<1> HIDE DEF h, r
<1>4. Rising(s) => Before(<<h>>, r)
  BY <1>1, <1>2, <1>3 DEF Rising, Before
<1>5. Numbered(cl, s) => Numbered(cl, <<h>>)
  BY <1>1, <1>2 DEF Numbered
<1>6. /\ NotPrewritten(cl, s) => cl[h[1]].done = "none"
      /\ Prewritten(cl, s) => cl[h[1]].done # "none"
  BY <1>1 DEF NotPrewritten, Prewritten
<1>7. /\ \A t : Before(t, s) => \A n \in DOMAIN t : t[n][1] = h[1] => t[n][2] < h[2]
      /\ \A t : Before(s, t) => Before(<<h>>, t)
  BY <1>1, <1>2 DEF Before
<1> QED
  BY <1>4, <1>5, <1>6, <1>7 DEF h, r

\* They say nothing of no items.
LEMMA NoItems ==
  ASSUME NEW cl
  PROVE  /\ Rising(<<>>) /\ NotPrewritten(cl, <<>>) /\ Prewritten(cl, <<>>)
         /\ Numbered(cl, <<>>)
         /\ \A t : Before(<<>>, t) /\ Before(t, <<>>)
<1>1. DOMAIN <<>> = {}
  OBVIOUS
<1> QED
  BY <1>1 DEF Rising, NotPrewritten, Prewritten, Numbered, Before

\* The clients' numbers stay, and none begins to wait for a place.
LEMMA NumberedStays ==
  ASSUME NEW cl, NEW cm, NEW s \in Seq(Items), Numbered(cl, s),
         \A c \in Clients : /\ cm[c].tries = cl[c].tries
                            /\ cm[c].at = "place" => cl[c].at = "place"
  PROVE  Numbered(cm, s)
<1>1. \A n \in DOMAIN s : s[n][1] \in Clients
  BY DEF Items
<1> QED
  BY <1>1 DEF Numbered

LEMMA PrewrittenStays ==
  ASSUME NEW cl, NEW cm, NEW s \in Seq(Items),
         \A c \in Clients : cm[c].done = cl[c].done
  PROVE  /\ Prewritten(cl, s) => Prewritten(cm, s)
         /\ NotPrewritten(cl, s) => NotPrewritten(cm, s)
<1>1. \A n \in DOMAIN s : s[n][1] \in Clients
  BY DEF Items
<1> QED
  BY <1>1 DEF Prewritten, NotPrewritten

-----------------------------------------------------------------------------
(* The steps *)

\* What Types says of the items, by lane.
LEMMA Sequences ==
  ASSUME Types
  PROVE  /\ "prewrite" \in Lanes /\ "commit" \in Lanes
         /\ \A l \in Lanes : /\ items[l] \in Seq(Items) /\ queue[l] \in Seq(Items)
                             /\ sent[l] \in Seq(Items)
BY DEF Types, Lanes

\* submit_prewrite, submit_commit: a new number.
LEMMA SubmitInv ==
  ASSUME LaneInv, NEW c \in Clients, Submit(c)
  PROVE  LaneInv'
<1>1. Types /\ InOrder /\ LanesApart
  BY DEF LaneInv
<1>2. /\ client' = [client EXCEPT ![c].at = "place", ![c].tries = @ + 1]
      /\ UNCHANGED <<queue, items, task, sent>>
  BY DEF Submit
<1>3. Types'
  <2>1. client[c] \in ClientStates
    BY <1>1 DEF Types
  <2>2. [client[c] EXCEPT !.at = "place", !.tries = @ + 1] \in ClientStates
    <3>1. client[c].tries + 1 \in Nat
      BY <2>1 DEF ClientStates
    <3> QED
      BY <2>1, <3>1, Zenon DEF ClientStates
  <2>3. client' = [client EXCEPT ![c] = [client[c] EXCEPT !.at = "place", !.tries = @ + 1]]
    BY <1>1, <1>2, Zenon DEF Types
  <2> QED
    BY <1>1, <1>2, <2>2, <2>3 DEF Types
<1>4. ASSUME NEW s \in Seq(Items), Numbered(client, s)  PROVE Numbered(client', s)
  <2>1. \A n \in DOMAIN s : s[n][1] \in Clients /\ s[n][2] \in Nat
    BY DEF Items
  <2>2. \A d \in Clients : client[d].tries \in Nat
    BY <1>1 DEF Types, ClientStates
  <2>3. \A d \in Clients :
          client'[d] = client[d] \/ (d = c /\ client'[d].tries = client[d].tries + 1)
    BY <1>1, <1>2 DEF Types, ClientStates
  <2> QED
    BY <1>4, <2>1, <2>2, <2>3 DEF Numbered
<1>5. \A d \in Clients : client'[d].done = client[d].done
  BY <1>1, <1>2 DEF Types, ClientStates
<1>6. InOrder'
  BY <1>1, <1>2, <1>4, Sequences, Zenon DEF InOrder
<1>7. LanesApart'
  BY <1>1, <1>2, <1>5, Sequences, PrewrittenStays, Zenon DEF LanesApart
<1> QED
  BY <1>3, <1>6, <1>7 DEF LaneInv

\* The application drops a submission or a clone of the collector.
LEMMA LeaveInv ==
  ASSUME LaneInv, NEW c \in Clients, Cancel(c) \/ DropHandle(c)
  PROVE  LaneInv'
<1>1. Types /\ InOrder /\ LanesApart
  BY DEF LaneInv
<1>2. /\ client' = [client EXCEPT ![c].at = "idle"] \/ client' = client
      /\ UNCHANGED <<queue, items, task, sent>>
  BY DEF Cancel, DropHandle
<1>3. \A d \in Clients :
        /\ client[d] \in ClientStates
        /\ client'[d] = client[d] \/ client'[d] = [client[d] EXCEPT !.at = "idle"]
  BY <1>1, <1>2 DEF Types
<1>4. \A d \in Clients : /\ client'[d].tries = client[d].tries
                         /\ client'[d].at = "place" => client[d].at = "place"
                         /\ client'[d].done = client[d].done
                         /\ client'[d] \in ClientStates
  BY <1>3, Zenon DEF ClientStates
<1>5. InOrder'
  BY <1>1, <1>2, <1>4, Sequences, NumberedStays DEF InOrder
<1>6. LanesApart'
  BY <1>1, <1>2, <1>4, Sequences, PrewrittenStays, Zenon DEF LanesApart
<1>7. Types'
  <2>1. client' \in [Clients -> ClientStates]
    BY <1>1, <1>2, <1>4 DEF Types
  <2> QED
    BY <1>1, <1>2, <2>1 DEF Types
<1> QED
  BY <1>5, <1>6, <1>7 DEF LaneInv

\* send: the item has a number that no item of its client has, and goes to the
\* lane its client is at.
LEMMA EnqueueInv ==
  ASSUME LaneInv, NEW c \in Clients, Enqueue(c)
  PROVE  LaneInv'
<1>1. Types /\ InOrder /\ LanesApart
  BY DEF LaneInv
<1> DEFINE l == LaneOf(c)
           e == Item(c)
<1>2. /\ client[c].at = "place"
      /\ queue' = [queue EXCEPT ![l] = Append(@, e)]
      /\ client' = [client EXCEPT ![c].at = "answer"]
      /\ UNCHANGED <<items, task, sent>>
  BY DEF Enqueue
<1>3. /\ l \in Lanes /\ e \in Items /\ e[1] = c /\ e[2] = client[c].tries
      /\ l = "prewrite" <=> client[c].done = "none"
  BY <1>1, Zenon DEF Types, ClientStates, LaneOf, Item, Items, Lanes
<1>4. \A d \in Clients : /\ client'[d].tries = client[d].tries
                         /\ client'[d].at = "place" => client[d].at = "place"
                         /\ client'[d].done = client[d].done
  BY <1>1, <1>2 DEF Types, ClientStates
<1>5. client'[c].at = "answer" /\ client'[c].tries = client[c].tries /\ client[c].tries \in Nat
  BY <1>1, <1>2 DEF Types, ClientStates
<1> HIDE DEF l, e
<1>6. Types'
  <2>1. Append(queue[l], e) \in Seq(Items)
    BY <1>1, <1>3, Sequences
  <2>2. queue' \in [Lanes -> Seq(Items)]
    BY <1>1, <1>2, <1>3, <2>1 DEF Types
  <2>3. client[c] \in ClientStates
    BY <1>1 DEF Types
  <2>4. [client[c] EXCEPT !.at = "answer"] \in ClientStates
    BY <2>3 DEF ClientStates
  <2>5. client' = [client EXCEPT ![c] = [client[c] EXCEPT !.at = "answer"]]
    BY <1>1, <1>2 DEF Types
  <2>6. client' \in [Clients -> ClientStates]
    BY <1>1, <2>4, <2>5 DEF Types
  <2> QED
    BY <1>1, <1>2, <2>2, <2>6 DEF Types
<1>7. /\ queue'[l] = Append(queue[l], e)
      /\ \A k \in Lanes : k # l => queue'[k] = queue[k]
      /\ items' = items /\ sent' = sent
  BY <1>1, <1>2, <1>3 DEF Types
<1>8. InOrder'
  <2>1. CASE l = "commit"
    BY <1>1, <1>4, <1>7, <2>1, Sequences, NumberedStays DEF InOrder
  <2>2. CASE l = "prewrite"
    <3>1. \A s : Numbered(client, s) =>
            \A n \in DOMAIN s : s[n][1] = e[1] => s[n][2] < e[2]
      BY <1>2, <1>3 DEF Numbered
    <3>2. \A s : Numbered(client, s) => Before(s, <<e>>)
      BY <3>1 DEF Before
    <3>3. Numbered(client', <<e>>)
      BY <1>3, <1>5 DEF Numbered
    <3>4. Numbered(client', items["prewrite"]) /\ Numbered(client', queue["prewrite"])
      BY <1>1, <1>4, Sequences, NumberedStays DEF InOrder
    <3>5. /\ Rising(Append(queue["prewrite"], e))
          /\ Before(items["prewrite"], Append(queue["prewrite"], e))
          /\ Numbered(client', Append(queue["prewrite"], e))
      BY <1>1, <1>3, <3>1, <3>2, <3>3, <3>4, Sequences, AppendKeeps DEF InOrder
    <3> QED
      BY <1>1, <1>7, <2>2, <3>4, <3>5, Zenon DEF InOrder
  <2> QED
    BY <1>3, <2>1, <2>2 DEF Lanes
<1>9. LanesApart'
  <2>1. /\ NotPrewritten(client', items["prewrite"])
        /\ NotPrewritten(client', queue["prewrite"])
        /\ Prewritten(client', items["commit"]) /\ Prewritten(client', queue["commit"])
        /\ Prewritten(client', sent["commit"])
    BY <1>1, <1>4, Sequences, PrewrittenStays, Zenon DEF LanesApart
  <2>2. client'[e[1]].done = client[c].done
    BY <1>3, <1>4
  <2>3. CASE l = "commit"
    <3>1. Prewritten(client', Append(queue["commit"], e))
      <4>1. client'[e[1]].done # "none"
        BY <1>3, <2>2, <2>3
      <4> QED
        BY <1>1, <1>3, <2>1, <4>1, Sequences, AppendKeeps, Zenon
    <3>2. queue'["commit"] = Append(queue["commit"], e) /\ queue'["prewrite"] = queue["prewrite"]
      BY <1>7, <2>3 DEF Lanes
    <3> QED
      BY <1>7, <2>1, <3>1, <3>2 DEF LanesApart
  <2>4. CASE l = "prewrite"
    <3>1. NotPrewritten(client', Append(queue["prewrite"], e))
      <4>1. client'[e[1]].done = "none"
        BY <1>3, <2>2, <2>4
      <4> QED
        BY <1>1, <1>3, <2>1, <4>1, Sequences, AppendKeeps, Zenon
    <3>2. queue'["prewrite"] = Append(queue["prewrite"], e) /\ queue'["commit"] = queue["commit"]
      BY <1>7, <2>4 DEF Lanes
    <3> QED
      BY <1>7, <2>1, <3>1, <3>2 DEF LanesApart
  <2> QED
    BY <1>3, <2>3, <2>4 DEF Lanes
<1> QED
  BY <1>6, <1>8, <1>9 DEF LaneInv

\* recv moves the first item of the channel to the end of the batch.
LEMMA ReceiveInv ==
  ASSUME LaneInv, NEW l \in Lanes, Receive(l)
  PROVE  LaneInv'
<1>1. Types /\ InOrder /\ LanesApart
  BY DEF LaneInv
<1> DEFINE h == Head(queue[l])
           b == Append(items[l], h)
           q == Tail(queue[l])
<1>2. /\ queue[l] # <<>>
      /\ queue' = [queue EXCEPT ![l] = q] /\ items' = [items EXCEPT ![l] = b]
      /\ task' = [task EXCEPT ![l] = IF Len(items'[l]) >= BatchSize THEN "flush" ELSE @]
      /\ client' = client /\ sent' = sent
  BY DEF Receive, Collected
<1>3. /\ queue[l] \in Seq(Items) /\ items[l] \in Seq(Items)
      /\ h \in Items /\ q \in Seq(Items) /\ b \in Seq(Items) /\ b # <<>>
  <2>1. queue[l] \in Seq(Items) /\ items[l] \in Seq(Items)
    BY <1>1, Sequences
  <2>2. h \in Items /\ q \in Seq(Items)
    BY <1>2, <2>1, Taking
  <2> QED
    BY <2>1, <2>2
<1>4. /\ Rising(items[l]) /\ Rising(queue[l]) /\ Before(items[l], queue[l])
           /\ Numbered(client, items[l]) /\ Numbered(client, queue[l])
         => Rising(b) /\ Rising(q) /\ Before(b, q) /\ Numbered(client, b) /\ Numbered(client, q)
      /\ NotPrewritten(client, items[l]) /\ NotPrewritten(client, queue[l])
         => NotPrewritten(client, b) /\ NotPrewritten(client, q)
      /\ Prewritten(client, items[l]) /\ Prewritten(client, queue[l])
         => Prewritten(client, b) /\ Prewritten(client, q)
  BY <1>2, <1>3, HeadFits, TailKeeps, AppendKeeps, Zenon
<1> HIDE DEF h, b, q
<1>5. /\ queue'[l] = q /\ items'[l] = b
      /\ \A k \in Lanes : k # l => queue'[k] = queue[k] /\ items'[k] = items[k]
  BY <1>1, <1>2 DEF Types
<1>6. Types'
  <2>1. queue' \in [Lanes -> Seq(Items)] /\ items' \in [Lanes -> Seq(Items)]
    BY <1>1, <1>2, <1>3 DEF Types
  <2>2. task' \in [Lanes -> {"collect", "flush", "call", "done"}]
    BY <1>1, <1>2 DEF Types
  <2>3. \A k \in Lanes : task'[k] \in {"flush", "call"} => items'[k] # <<>>
    BY <1>1, <1>2, <1>3, <1>5 DEF Types
  <2> QED
    BY <1>1, <1>2, <2>1, <2>2, <2>3 DEF Types
<1>7. CASE l = "prewrite"
  <2>1. queue'["commit"] = queue["commit"] /\ items'["commit"] = items["commit"]
    BY <1>5, <1>7 DEF Lanes
  <2>2. InOrder'
    BY <1>1, <1>2, <1>4, <1>5, <1>7 DEF InOrder
  <2>3. LanesApart'
    BY <1>1, <1>2, <1>4, <1>5, <1>7, <2>1 DEF LanesApart
  <2> QED
    BY <1>6, <2>2, <2>3 DEF LaneInv
<1>8. CASE l = "commit"
  <2>1. queue'["prewrite"] = queue["prewrite"] /\ items'["prewrite"] = items["prewrite"]
    BY <1>5, <1>8 DEF Lanes
  <2>2. InOrder'
    BY <1>1, <1>2, <2>1 DEF InOrder
  <2>3. LanesApart'
    BY <1>1, <1>2, <1>4, <1>5, <1>8, <2>1 DEF LanesApart
  <2> QED
    BY <1>6, <2>2, <2>3 DEF LaneInv
<1> QED
  BY <1>7, <1>8 DEF Lanes

\* The timer fires on a batch that is not empty, or the task ends.
LEMMA TimeoutInv ==
  ASSUME LaneInv, NEW l \in Lanes, Timeout(l) \/ Closed(l)
  PROVE  LaneInv'
<1>1. Types /\ InOrder /\ LanesApart
  BY DEF LaneInv
<1>2. /\ \/ items[l] # <<>> /\ items' = items /\ task' = [task EXCEPT ![l] = "flush"]
         \/ items' = [items EXCEPT ![l] = <<>>] /\ task' = [task EXCEPT ![l] = "done"]
      /\ client' = client /\ queue' = queue /\ sent' = sent
  BY DEF Timeout, Closed, Flushes
<1>3. \A k \in Lanes : items'[k] = items[k] \/ items'[k] = <<>>
  BY <1>1, <1>2 DEF Types
<1>4. "prewrite" \in Lanes /\ "commit" \in Lanes
  BY DEF Lanes
<1>5. Types'
  <2>1. items' \in [Lanes -> Seq(Items)]
    <3>1. <<>> \in Seq(Items)
      OBVIOUS
    <3> QED
      BY <1>1, <1>2, <3>1, Zenon DEF Types
  <2>2. task' \in [Lanes -> {"collect", "flush", "call", "done"}]
    BY <1>1, <1>2 DEF Types
  <2>3. \A k \in Lanes : task'[k] \in {"flush", "call"} => items'[k] # <<>>
    BY <1>1, <1>2 DEF Types
  <2> QED
    BY <1>1, <1>2, <2>1, <2>2, <2>3 DEF Types
<1>6. InOrder'
  BY <1>1, <1>2, <1>3, <1>4, NoItems DEF InOrder
<1>7. LanesApart'
  BY <1>1, <1>2, <1>3, <1>4, NoItems DEF LanesApart
<1> QED
  BY <1>5, <1>6, <1>7 DEF LaneInv

\* The server is called for the first item of the batch.
LEMMA CallInv ==
  ASSUME LaneInv, NEW l \in Lanes, Call(l)
  PROVE  LaneInv'
<1>1. Types /\ InOrder /\ LanesApart
  BY DEF LaneInv
<1> DEFINE h == Head(items[l])
           a == Append(sent[l], h)
<1>2. /\ task[l] = "flush" /\ task' = [task EXCEPT ![l] = "call"]
      /\ sent' = [sent EXCEPT ![l] = a]
      /\ client' = client /\ queue' = queue /\ items' = items
  BY DEF Call
<1>3. /\ items[l] # <<>> /\ items[l] \in Seq(Items) /\ sent[l] \in Seq(Items)
      /\ h \in Items /\ a \in Seq(Items)
  <2>1. items[l] # <<>> /\ items[l] \in Seq(Items) /\ sent[l] \in Seq(Items)
    BY <1>1, <1>2, Sequences DEF Types
  <2>2. h \in Items
    BY <2>1, Taking
  <2> QED
    BY <2>1, <2>2
<1>4. Prewritten(client, items[l]) /\ Prewritten(client, sent[l]) => Prewritten(client, a)
  BY <1>3, HeadFits, AppendKeeps, Zenon
<1> HIDE DEF h, a
<1>5. Types'
  <2>1. sent' \in [Lanes -> Seq(Items)]
    BY <1>1, <1>2, <1>3 DEF Types
  <2>2. task' \in [Lanes -> {"collect", "flush", "call", "done"}]
    BY <1>1, <1>2 DEF Types
  <2>3. \A k \in Lanes : task'[k] \in {"flush", "call"} => items'[k] # <<>>
    BY <1>1, <1>2, <1>3 DEF Types
  <2> QED
    BY <1>1, <1>2, <2>1, <2>2, <2>3 DEF Types
<1>6. InOrder'
  BY <1>1, <1>2 DEF InOrder
<1>7. "commit" \in Lanes
      /\ sent'["commit"] = IF l = "commit" THEN a ELSE sent["commit"]
  BY <1>1, <1>2 DEF Types, Lanes
<1>8. LanesApart'
  BY <1>1, <1>2, <1>4, <1>7 DEF LanesApart
<1> QED
  BY <1>5, <1>6, <1>8 DEF LaneInv

\* The answer goes to the item's client, if it still awaits this item.  It then
\* has no other item with a number as large, and so, by the order of the lane,
\* no other item behind it: an Ok leaves no prewrite of the client in the lane.
LEMMA AnsweredInv ==
  ASSUME LaneInv, NEW l \in Lanes, NEW ok \in BOOLEAN, Answered(l, ok)
  PROVE  LaneInv'
<1>1. Types /\ InOrder /\ LanesApart
  BY DEF LaneInv
<1> DEFINE h == Head(items[l])
           r == Tail(items[l])
<1>2. /\ task[l] = "call" /\ items' = [items EXCEPT ![l] = r]
      /\ task' = [task EXCEPT ![l] = IF Len(items[l]) = 1 THEN "collect" ELSE "flush"]
      /\ client' = [c \in Clients |->
           IF h[1] = c /\ client[h[1]].at = "answer" /\ <<h[1], client[h[1]].tries>> = h
           THEN [client[c] EXCEPT !.at = "idle", !.done = IF ok THEN l ELSE @]
           ELSE client[c]]
      /\ queue' = queue /\ sent' = sent
  BY Zenon DEF Answered, Awaits, Owner, Item
<1>3. /\ items[l] # <<>> /\ items[l] \in Seq(Items)
      /\ h \in Items /\ r \in Seq(Items)
      /\ Len(items[l]) # 1 => r # <<>>
  <2>1. items[l] # <<>> /\ items[l] \in Seq(Items)
    BY <1>1, <1>2, Sequences, Zenon DEF Types
  <2>2. h \in Items /\ r \in Seq(Items)
    BY <2>1, Taking
  <2>3. Len(items[l]) # 1 => r # <<>>
    <3>1. DOMAIN r = 1 .. Len(items[l]) - 1 /\ Len(items[l]) \in Nat
          /\ DOMAIN items[l] = 1 .. Len(items[l]) /\ 1 \in DOMAIN items[l]
      BY <2>1, Taking
    <3> HIDE DEF r
    <3>2. \A n \in Nat : 1 \in 1 .. n /\ n # 1 => 1 \in 1 .. n - 1
      OBVIOUS
    <3>3. DOMAIN <<>> = {}
      OBVIOUS
    <3>4. Len(items[l]) # 1 => 1 \in DOMAIN r
      BY <3>1, <3>2, Zenon
    <3> QED
      BY <3>3, <3>4
  <2> QED
    BY <2>1, <2>2, <2>3
<1>4. /\ Rising(items[l]) => Rising(r) /\ Before(<<h>>, r)
      /\ \A t : Before(items[l], t) => Before(r, t) /\ Before(<<h>>, t)
      /\ Numbered(client, items[l]) => Numbered(client, r)
      /\ NotPrewritten(client, items[l]) => NotPrewritten(client, r)
      /\ Prewritten(client, items[l]) => Prewritten(client, r) /\ client[h[1]].done # "none"
  BY <1>3, HeadFits, TailKeeps, Zenon
<1> HIDE DEF h, r
<1>5. \A c \in Clients :
        /\ client[c] \in ClientStates
        /\ \/ client'[c] = client[c]
           \/ /\ c = h[1] /\ h = <<c, client[c].tries>>
              /\ client'[c] = [client[c] EXCEPT !.at = "idle", !.done = IF ok THEN l ELSE @]
  BY <1>1, <1>2, Zenon DEF Types
<1>6. \A c \in Clients :
        /\ client'[c] \in ClientStates
        /\ client'[c].tries = client[c].tries
        /\ client'[c].at = "place" => client[c].at = "place"
        /\ \/ client'[c].done = client[c].done
           \/ h = <<c, client[c].tries>> /\ client'[c].done = l
  <2> SUFFICES ASSUME NEW c \in Clients
               PROVE  /\ client'[c] \in ClientStates
                      /\ client'[c].tries = client[c].tries
                      /\ client'[c].at = "place" => client[c].at = "place"
                      /\ \/ client'[c].done = client[c].done
                         \/ h = <<c, client[c].tries>> /\ client'[c].done = l
    OBVIOUS
  <2>1. CASE client'[c] = client[c]
    BY <1>5, <2>1, Zenon
  <2>2. CASE /\ h = <<c, client[c].tries>>
             /\ client'[c] = [client[c] EXCEPT !.at = "idle", !.done = IF ok THEN l ELSE @]
    <3>1. ok => client'[c] = [client[c] EXCEPT !.at = "idle", !.done = l]
      BY <2>2
    <3>2. ~ok => client'[c] = [client[c] EXCEPT !.at = "idle", !.done = client[c].done]
      BY <2>2
    <3> QED
      BY <1>5, <2>2, <3>1, <3>2, Zenon DEF ClientStates
  <2> QED
    BY <1>5, <2>1, <2>2, Zenon
<1>7. Types'
  <2>1. client' \in [Clients -> ClientStates]
    BY <1>2, <1>6, Zenon
  <2>2. items' \in [Lanes -> Seq(Items)]
    <3>1. items \in [Lanes -> Seq(Items)] /\ items' = [items EXCEPT ![l] = r] /\ r \in Seq(Items)
      BY <1>1, <1>2, <1>3, Zenon DEF Types
    <3> QED
      BY <3>1
  <2>3. task' \in [Lanes -> {"collect", "flush", "call", "done"}]
    BY <1>1, <1>2, Zenon DEF Types
  <2>4. \A k \in Lanes : task'[k] \in {"flush", "call"} => items'[k] # <<>>
    <3>1. \A k \in Lanes : k # l => task'[k] = task[k] /\ items'[k] = items[k]
      BY <1>1, <1>2, Zenon DEF Types
    <3>2. items'[l] = r /\ task'[l] = IF Len(items[l]) = 1 THEN "collect" ELSE "flush"
      BY <1>1, <1>2, Zenon DEF Types
    <3>3. \A k \in Lanes : task[k] \in {"flush", "call"} => items[k] # <<>>
      BY <1>1 DEF Types
    <3>4. Len(items[l]) # 1 => r # <<>>
      BY <1>3
    <3>5. task'[l] \in {"flush", "call"} => items'[l] # <<>>
      BY <3>2, <3>4
    <3> QED
      BY <3>1, <3>3, <3>5
  <2> QED
    BY <1>1, <1>2, <2>1, <2>2, <2>3, <2>4, Zenon DEF Types
<1>8. /\ items'[l] = r
      /\ \A k \in Lanes : k # l => items'[k] = items[k]
  BY <1>1, <1>2, Zenon DEF Types
<1>9. InOrder'
  <2>1. /\ Rising(items'["prewrite"]) /\ Before(items'["prewrite"], queue["prewrite"])
        /\ Numbered(client, items'["prewrite"])
    BY <1>1, <1>4, <1>8, Sequences DEF InOrder
  <2>2. Numbered(client', items'["prewrite"]) /\ Numbered(client', queue["prewrite"])
    <3>1. items'["prewrite"] \in Seq(Items) /\ queue["prewrite"] \in Seq(Items)
      BY <1>1, <1>7, Sequences DEF Types
    <3> QED
      BY <1>1, <1>6, <2>1, <3>1, NumberedStays DEF InOrder
  <2> QED
    BY <1>1, <1>2, <2>1, <2>2, Zenon DEF InOrder
<1>10. ASSUME NEW s \in Seq(Items), Prewritten(client, s)  PROVE Prewritten(client', s)
  <2>1. \A n \in DOMAIN s : s[n][1] \in Clients
    BY DEF Items
  <2>2. l # "none"
    BY DEF Lanes
  <2> QED
    BY <1>6, <1>10, <2>1, <2>2 DEF Prewritten
<1>11. ASSUME NEW s \in Seq(Items), NotPrewritten(client, s), Numbered(client, s),
              l = "prewrite" => Before(<<h>>, s)
       PROVE  NotPrewritten(client', s)
  <2>1. \A n \in DOMAIN s : s[n][1] \in Clients /\ s[n][2] \in Nat
    BY DEF Items
  <2>2. l = "commit" => client[h[1]].done # "none"
    BY <1>1, <1>4 DEF LanesApart
  <2>3. ASSUME NEW n \in DOMAIN s, client'[s[n][1]].done # "none"  PROVE FALSE
    <3>1. client[s[n][1]].done = "none"
      BY <1>11 DEF NotPrewritten
    <3>2. h[1] = s[n][1] /\ h[2] = client[s[n][1]].tries
      BY <1>6, <2>1, <2>3, <3>1
    <3>3. l = "prewrite"
      BY <2>2, <3>1, <3>2 DEF Lanes
    <3>4. h[2] < s[n][2]
      <4>1. DOMAIN <<h>> = {1} /\ <<h>>[1] = h
        OBVIOUS
      <4> QED
        BY <1>11, <3>2, <3>3, <4>1 DEF Before
    <3>5. s[n][2] <= client[s[n][1]].tries
      BY <1>11 DEF Numbered
    <3>6. client[s[n][1]].tries \in Nat
      BY <1>5, <2>1, Zenon DEF ClientStates
    <3> QED
      BY <2>1, <3>2, <3>4, <3>5, <3>6
  <2> QED
    BY <2>3 DEF NotPrewritten
<1>12. LanesApart'
  <2>1. /\ \A k \in Lanes : items'[k] \in Seq(Items) /\ queue[k] \in Seq(Items)
                            /\ sent[k] \in Seq(Items)
        /\ "prewrite" \in Lanes /\ "commit" \in Lanes
    BY <1>1, <1>7, Sequences DEF Types
  <2>2. Prewritten(client, items'["commit"])
    BY <1>1, <1>4, <1>8, <2>1, Zenon DEF LanesApart
  <2>3. /\ Prewritten(client', items'["commit"]) /\ Prewritten(client', queue["commit"])
        /\ Prewritten(client', sent["commit"])
    BY <1>1, <1>10, <2>1, <2>2 DEF LanesApart
  <2>4. NotPrewritten(client, items'["prewrite"]) /\ Numbered(client, items'["prewrite"])
    BY <1>1, <1>4, <1>8, <2>1 DEF LanesApart, InOrder
  <2>5. l = "prewrite" => Before(<<h>>, items'["prewrite"]) /\ Before(<<h>>, queue["prewrite"])
    BY <1>1, <1>4, <1>8 DEF InOrder
  <2>6. NotPrewritten(client', items'["prewrite"])
    BY <1>11, <2>1, <2>4, <2>5
  <2>7. NotPrewritten(client', queue["prewrite"])
    BY <1>1, <1>11, <2>1, <2>5 DEF LanesApart, InOrder
  <2> QED
    BY <1>2, <2>3, <2>6, <2>7, Zenon DEF LanesApart
<1> QED
  BY <1>7, <1>9, <1>12 DEF LaneInv

-----------------------------------------------------------------------------
(* The theorem *)

LEMMA InitLane == Init => LaneInv
<1> SUFFICES ASSUME Init PROVE LaneInv
  OBVIOUS
<1>1. /\ "prewrite" \in Lanes /\ "commit" \in Lanes
      /\ queue = [l \in Lanes |-> <<>>] /\ items = [l \in Lanes |-> <<>>]
      /\ sent = [l \in Lanes |-> <<>>] /\ task = [l \in Lanes |-> "collect"]
      /\ client = [c \in Clients |-> Idle]
  BY DEF Init, Lanes
<1>2. Types
  <2>1. Idle \in ClientStates
    BY DEF Idle, ClientStates
  <2>2. <<>> \in Seq(Items)
    OBVIOUS
  <2> QED
    BY <1>1, <2>1, <2>2 DEF Types
<1>3. InOrder
  BY <1>1, NoItems DEF InOrder
<1>4. LanesApart
  BY <1>1, NoItems DEF LanesApart
<1> QED
  BY <1>2, <1>3, <1>4 DEF LaneInv

LEMMA NextLane == LaneInv /\ [Next]_vars => LaneInv'
<1> SUFFICES ASSUME LaneInv, [Next]_vars PROVE LaneInv'
  OBVIOUS
<1>1. ASSUME NEW c \in Clients, Submit(c) \/ Enqueue(c) \/ Cancel(c) \/ DropHandle(c)
      PROVE  LaneInv'
  BY <1>1, SubmitInv, EnqueueInv, LeaveInv
<1>2. ASSUME NEW l \in Lanes, TaskStep(l)  PROVE LaneInv'
  BY <1>2, ReceiveInv, TimeoutInv, CallInv, AnsweredInv DEF TaskStep
<1>3. CASE UNCHANGED vars
  BY <1>3 DEF vars, LaneInv, Types, InOrder, LanesApart
<1> QED
  BY <1>1, <1>2, <1>3 DEF Next

\* A client that has an item in the prewrite lane has had no prewrite answered Ok,
\* and one that a commit was sent for has.
LEMMA LaneInvEnough == LaneInv => NoLatePrewrite
<1> SUFFICES ASSUME LaneInv PROVE NoLatePrewrite
  OBVIOUS
<1>1. /\ NotPrewritten(client, items["prewrite"]) /\ NotPrewritten(client, queue["prewrite"])
      /\ Prewritten(client, sent["commit"])
  BY DEF LaneInv, LanesApart
<1>2. \A i \in Range(sent["commit"]) : client[i[1]].done # "none"
  BY <1>1 DEF Prewritten, Range
<1>3. \A j \in Range(items["prewrite"]) \cup Range(queue["prewrite"]) :
        client[j[1]].done = "none"
  BY <1>1 DEF NotPrewritten, Range
<1> QED
  BY <1>2, <1>3 DEF NoLatePrewrite, Owner

\* When a commit has been sent, no prewrite of its client is left in the channel
\* or the batch of the prewrite lane, for any number of clients, submissions and
\* cancellations and any capacity and batch size.
THEOREM PrewritesComeFirst == Spec => []NoLatePrewrite
<1>1. Spec => []LaneInv
  BY InitLane, NextLane, PTL DEF Spec
<1> QED
  BY <1>1, LaneInvEnough, PTL

-----------------------------------------------------------------------------
(* Nothing is lost                                                         *)

\* The items of a lane that are still to be sent, but for those in the channel.
Rest(l) == IF task[l] = "call" THEN Tail(items[l]) ELSE items[l]

\* A lane's task ends only when no clone of the collector is left, and a client
\* that awaits something has its clone.
Kept ==
  /\ accepted \in [Lanes -> Seq(Items)]
  /\ \A c \in Clients : client[c].at # "idle" => c \in handles
  /\ \A l \in Lanes :
       IF task[l] = "done" THEN handles = {} /\ IsPrefix(sent[l], accepted[l])
       ELSE accepted[l] = sent[l] \o Rest(l) \o queue[l]

\* An item goes to the end of three sequences in a row, or over a joint.
LEMMA Associative ==
  ASSUME NEW S, NEW a \in Seq(S), NEW b \in Seq(S), NEW c \in Seq(S)
  PROVE  (a \o b) \o c = a \o (b \o c) /\ a \o b \in Seq(S) /\ b \o c \in Seq(S)
OBVIOUS

LEMMA HeadFirst ==
  ASSUME NEW S, NEW v \in Seq(S), v # <<>>
  PROVE  /\ Head(v) \in S /\ Tail(v) \in Seq(S) /\ <<Head(v)>> \in Seq(S)
         /\ v = <<Head(v)>> \o Tail(v)
<1>1. Head(v) \in S /\ Tail(v) \in Seq(S) /\ <<Head(v)>> \in Seq(S)
  OBVIOUS
<1> QED
  BY <1>1

LEMMA AppendLast ==
  ASSUME NEW s \in Seq(Items), NEW t \in Seq(Items), NEW u \in Seq(Items), NEW e \in Items
  PROVE  Append(s \o t \o u, e) = s \o t \o Append(u, e)
<1> DEFINE p == s \o t
<1>1. <<e>> \in Seq(Items) /\ p \in Seq(Items) /\ p \o u \in Seq(Items)
  BY Associative
<1> HIDE DEF p
<1>2. (p \o u) \o <<e>> = p \o (u \o <<e>>)
  BY <1>1, Associative
<1>3. Append(p \o u, e) = (p \o u) \o <<e>> /\ Append(u, e) = u \o <<e>>
  BY <1>1, AppendIsConcat
<1> QED
  BY <1>2, <1>3, Zenon DEF p

LEMMA OverSecondJoint ==
  ASSUME NEW S, NEW s \in Seq(S), NEW t \in Seq(S), NEW u \in Seq(S), u # <<>>
  PROVE  s \o t \o u = s \o Append(t, Head(u)) \o Tail(u)
<1> DEFINE h == <<Head(u)>>
           r == Tail(u)
           p == s \o t
<1>1. h \in Seq(S) /\ r \in Seq(S) /\ p \in Seq(S)
  BY HeadFirst, Associative
<1>2. u = h \o r /\ Append(t, Head(u)) = t \o h
  BY HeadFirst, AppendIsConcat
<1> HIDE DEF h, r, p
<1>3. p \o (h \o r) = (p \o h) \o r
  BY <1>1
<1>4. (s \o t) \o h = s \o (t \o h)
  BY <1>1
<1> QED
  BY <1>2, <1>3, <1>4, Zenon DEF r, p

LEMMA OverFirstJoint ==
  ASSUME NEW S, NEW s \in Seq(S), NEW t \in Seq(S), NEW u \in Seq(S), t # <<>>
  PROVE  s \o t \o u = Append(s, Head(t)) \o Tail(t) \o u
<1> DEFINE h == <<Head(t)>>
           r == Tail(t)
<1>1. h \in Seq(S) /\ r \in Seq(S)
  BY HeadFirst
<1>2. t = h \o r /\ Append(s, Head(t)) = s \o h
  BY HeadFirst, AppendIsConcat
<1> HIDE DEF h, r
<1>3. s \o (h \o r) = (s \o h) \o r
  BY <1>1
<1> QED
  BY <1>2, <1>3, Zenon DEF r

LEMMA FirstIsPrefix ==
  ASSUME NEW S, NEW s \in Seq(S), NEW t \in Seq(S), NEW u \in Seq(S)
  PROVE  IsPrefix(s, s \o t \o u)
<1> DEFINE w == t \o u
<1>1. s \o t \o u = s \o w /\ w \in Seq(S)
  BY Associative
<1> HIDE DEF w
<1>2. Len(s) <= Len(s \o w) /\ s \o w \in Seq(S)
  BY <1>1
<1>3. SubSeq(s, 1, Len(s)) = SubSeq(s \o w, 1, Len(s))
  BY <1>1
<1> QED
  BY <1>1, <1>2, <1>3 DEF IsPrefix

LEMMA RestSeq ==
  ASSUME Types, NEW l \in Lanes
  PROVE  Rest(l) \in Seq(Items)
<1>1. items[l] \in Seq(Items) /\ (task[l] = "call" => items[l] # <<>>)
  BY DEF Types
<1> QED
  BY <1>1, Taking DEF Rest

\* The steps of the clients.  One that submits owns its clone, and keeps it until
\* the submission is answered or dropped.
LEMMA ClientKeeps ==
  ASSUME LaneInv, LaneInv', Kept, NEW c \in Clients,
         Submit(c) \/ Enqueue(c) \/ Cancel(c) \/ DropHandle(c)
  PROVE  Kept'
<1>1. Types
  BY DEF LaneInv
<1>2. items' = items /\ task' = task /\ sent' = sent
  BY DEF Submit, Enqueue, Cancel, DropHandle
<1>3. \A d \in Clients : client'[d].at # "idle" => d \in handles'
  <2>1. \A d \in Clients : client[d] \in ClientStates /\ (client[d].at # "idle" => d \in handles)
    BY <1>1 DEF Types, Kept
  <2>2. CASE Submit(c) \/ Enqueue(c) \/ Cancel(c)
    <3>1. handles' = handles /\ (client[c].at # "idle" \/ c \in handles)
      BY <2>2 DEF Submit, Enqueue, Cancel
    <3>2. \A d \in Clients : d # c => client'[d] = client[d]
      BY <1>1, <2>2 DEF Submit, Enqueue, Cancel, Types
    <3> QED
      BY <2>1, <3>1, <3>2
  <2>3. CASE DropHandle(c)
    BY <2>1, <2>3 DEF DropHandle, MayDrop
  <2> QED
    BY <2>2, <2>3
<1>4. CASE Enqueue(c)
  <2> DEFINE m == LaneOf(c)
             e == Item(c)
  <2>1. /\ queue' = [queue EXCEPT ![m] = Append(@, e)]
        /\ accepted' = [accepted EXCEPT ![m] = Append(@, e)]
        /\ handles' = handles
        /\ client[c].at = "place"
    BY <1>4 DEF Enqueue
  <2>2. m \in Lanes /\ e \in Items
    BY <1>1 DEF Types, ClientStates, LaneOf, Item, Items, Lanes
  <2> HIDE DEF m, e
  <2>3. /\ c \in handles
        /\ accepted \in [Lanes -> Seq(Items)] /\ queue \in [Lanes -> Seq(Items)]
    BY <1>1, <2>1 DEF Kept, Types
  <2>4. accepted' \in [Lanes -> Seq(Items)]
    <3>1. Append(accepted[m], e) \in Seq(Items)
      BY <2>2, <2>3
    <3> QED
      BY <2>1, <2>3, <3>1, Zenon
  <2>5. ASSUME NEW l \in Lanes
        PROVE  task[l] # "done" /\ accepted'[l] = sent[l] \o Rest(l) \o queue'[l]
    <3>1. task[l] # "done" /\ accepted[l] = sent[l] \o Rest(l) \o queue[l]
      BY <2>3 DEF Kept
    <3>2. CASE l # m
      BY <2>1, <2>3, <3>1, <3>2
    <3>3. CASE l = m
      <4>1. accepted'[l] = Append(accepted[l], e) /\ queue'[l] = Append(queue[l], e)
        BY <2>1, <2>2, <2>3, <3>3
      <4>2. sent[l] \in Seq(Items) /\ Rest(l) \in Seq(Items) /\ queue[l] \in Seq(Items)
        BY <1>1, RestSeq, Sequences
      <4>3. Append(sent[l] \o Rest(l) \o queue[l], e) = sent[l] \o Rest(l) \o Append(queue[l], e)
        <5> DEFINE s == sent[l]
                   t == Rest(l)
                   u == queue[l]
        <5>1. s \in Seq(Items) /\ t \in Seq(Items) /\ u \in Seq(Items) /\ e \in Items
          BY <2>2, <4>2
        <5> HIDE DEF s, t, u
        <5>2. Append(s \o t \o u, e) = s \o t \o Append(u, e)
          BY <5>1, AppendLast, Zenon
        <5> QED
          BY <5>2, Zenon DEF s, t, u
      <4> QED
        BY <3>1, <4>1, <4>3, Zenon
    <3> QED
      BY <3>2, <3>3, Zenon
  <2> QED
    BY <1>2, <1>3, <2>4, <2>5, Zenon DEF Kept, Rest
<1>5. CASE Submit(c) \/ Cancel(c) \/ DropHandle(c)
  <2>1. queue' = queue /\ accepted' = accepted /\ (handles = {} => handles' = {})
    BY <1>5 DEF Submit, Cancel, DropHandle
  <2> QED
    BY <1>2, <1>3, <2>1, Zenon DEF Kept, Rest
<1> QED
  BY <1>4, <1>5

\* The steps of a lane's task move an item over a joint, or end the lane.
LEMMA TaskKeeps ==
  ASSUME LaneInv, LaneInv', Kept, NEW m \in Lanes, TaskStep(m)
  PROVE  Kept'
<1>1. Types /\ Types'
  BY DEF LaneInv
<1>2. accepted' = accepted /\ handles' = handles
  BY Zenon DEF TaskStep, Receive, Timeout, Closed, Call, Answered
<1>3. \A c \in Clients : client'[c].at # "idle" => client[c].at # "idle"
  <2>1. CASE client' = client
    BY <2>1
  <2>2. ASSUME NEW ok \in BOOLEAN, Answered(m, ok)
        PROVE  \A c \in Clients : client'[c].at # "idle" => client[c].at # "idle"
    <3>1. \A c \in Clients :
            \/ client'[c] = client[c]
            \/ ok /\ client'[c] = [client[c] EXCEPT !.at = "idle", !.done = m]
            \/ ~ok /\ client'[c] = [client[c] EXCEPT !.at = "idle", !.done = client[c].done]
      BY <2>2, Zenon DEF Answered
    <3>2. \A c \in Clients : client[c] \in ClientStates
      BY <1>1 DEF Types
    <3> QED
      BY <3>1, <3>2, Zenon DEF ClientStates
  <2> QED
    BY <2>1, <2>2 DEF TaskStep, Receive, Timeout, Closed, Call
<1>4. /\ \A l \in Lanes : l # m => /\ task'[l] = task[l] /\ items'[l] = items[l]
                                  /\ queue'[l] = queue[l] /\ sent'[l] = sent[l]
      /\ task[m] # "done"
  BY <1>1, Zenon DEF TaskStep, Receive, Timeout, Closed, Call, Answered, Types
<1> DEFINE a == accepted[m]
           s == sent[m]
           t == items[m]
           u == queue[m]
<1>5. s \in Seq(Items) /\ t \in Seq(Items) /\ u \in Seq(Items)
  BY <1>1, Sequences
<1>6. a = s \o Rest(m) \o u
  BY <1>4, Zenon DEF Kept
<1>7. IF task'[m] = "done" THEN handles = {} /\ IsPrefix(sent'[m], a)
      ELSE a = sent'[m] \o (IF task'[m] = "call" THEN Tail(items'[m]) ELSE items'[m]) \o queue'[m]
  <2>1. CASE Receive(m)
    <3>1. /\ u # <<>> /\ task[m] = "collect" /\ task'[m] \in {"collect", "flush"}
          /\ queue'[m] = Tail(u) /\ items'[m] = Append(t, Head(u)) /\ sent'[m] = s
      BY <1>1, <2>1 DEF Receive, Collected, Types
    <3>2. s \o t \o u = s \o Append(t, Head(u)) \o Tail(u)
      <4>1. u # <<>>
        BY <3>1
      <4> HIDE DEF s, t, u
      <4> QED
        BY <1>5, <4>1, OverSecondJoint
    <3>3. a = s \o t \o u
      BY <1>6, <3>1 DEF Rest
    <3> HIDE DEF a, s, t, u
    <3> QED
      BY <3>1, <3>2, <3>3, Zenon
  <2>2. CASE Timeout(m)
    <3>1. /\ task[m] = "collect" /\ task'[m] = "flush"
          /\ queue'[m] = u /\ items'[m] = t /\ sent'[m] = s
      BY <1>1, <2>2 DEF Timeout, Types
    <3>2. a = s \o t \o u
      BY <1>6, <3>1 DEF Rest
    <3> HIDE DEF a, s, t, u
    <3> QED
      BY <3>1, <3>2
  <2>3. CASE Closed(m)
    <3>1. /\ task[m] = "collect" /\ task'[m] = "done" /\ handles = {} /\ sent'[m] = s
      BY <1>1, <2>3 DEF Closed, NoSenders, Types
    <3>2. a = s \o t \o u
      BY <1>6, <3>1 DEF Rest
    <3>3. IsPrefix(s, a)
      <4> HIDE DEF a, s, t, u
      <4>1. IsPrefix(s, s \o t \o u)
        BY <1>5, FirstIsPrefix
      <4> QED
        BY <3>2, <4>1, Zenon
    <3> HIDE DEF a, s, t, u
    <3> QED
      BY <3>1, <3>3
  <2>4. CASE Call(m)
    <3>1. /\ t # <<>> /\ task[m] = "flush" /\ task'[m] = "call"
          /\ queue'[m] = u /\ items'[m] = t /\ sent'[m] = Append(s, Head(t))
      BY <1>1, <2>4 DEF Call, Types
    <3>2. s \o t \o u = Append(s, Head(t)) \o Tail(t) \o u
      <4>1. t # <<>>
        BY <3>1
      <4> HIDE DEF s, t, u
      <4> QED
        BY <1>5, <4>1, OverFirstJoint
    <3>3. a = s \o t \o u
      BY <1>6, <3>1 DEF Rest
    <3> HIDE DEF a, s, t, u
    <3> QED
      BY <3>1, <3>2, <3>3
  <2>5. ASSUME NEW ok \in BOOLEAN, Answered(m, ok)
        PROVE  /\ task'[m] \in {"collect", "flush"}
               /\ a = sent'[m] \o items'[m] \o queue'[m]
    <3>1. /\ task[m] = "call" /\ task'[m] \in {"collect", "flush"}
          /\ queue'[m] = u /\ items'[m] = Tail(t) /\ sent'[m] = s
      BY <1>1, <2>5, Zenon DEF Answered, Types
    <3>2. a = s \o Tail(t) \o u
      BY <1>6, <3>1 DEF Rest
    <3> HIDE DEF a, s, t, u
    <3> QED
      BY <3>1, <3>2
  <2> QED
    BY <2>1, <2>2, <2>3, <2>4, <2>5, Zenon DEF TaskStep
<1>8. ASSUME NEW l \in Lanes, l # m
      PROVE  IF task'[l] = "done" THEN handles = {} /\ IsPrefix(sent'[l], accepted[l])
             ELSE accepted[l] =
                    sent'[l] \o (IF task'[l] = "call" THEN Tail(items'[l]) ELSE items'[l]) \o queue'[l]
  BY <1>4, <1>8, Zenon DEF Kept, Rest
<1> QED
  BY <1>2, <1>3, <1>7, <1>8, Zenon DEF Kept, Rest

LEMMA KeptEnough == LaneInv /\ Kept => NothingLost
<1> SUFFICES ASSUME LaneInv, Kept, NEW l \in Lanes, task[l] = "done",
                    NEW i \in Range(accepted[l])
             PROVE  ~Awaits(i)
  BY Zenon DEF Kept, Rest, NothingLost
<1>1. i[1] \in Clients
  BY DEF Kept, Range, Items
<1> QED
  BY <1>1, Zenon DEF Kept, Awaits, Owner

\* No item is lost, sent twice or overtaken on its way through a lane, for any
\* number of clients and submissions and any capacity and batch size; and an item
\* that a lane drops when it ends is one that nobody awaits.
THEOREM ItemsAreKept == Spec => []NothingLost
<1>1. Init => Kept
  <2> SUFFICES ASSUME Init PROVE Kept
    OBVIOUS
  <2>1. \A l \in Lanes : /\ accepted[l] = <<>> /\ sent[l] = <<>> /\ queue[l] = <<>>
                         /\ task[l] = "collect" /\ Rest(l) = <<>>
    BY DEF Init, Rest
  <2>2. accepted \in [Lanes -> Seq(Items)]
    <3>1. <<>> \in Seq(Items)
      OBVIOUS
    <3> QED
      BY <3>1 DEF Init
  <2>3. <<>> = <<>> \o <<>> \o <<>>
    OBVIOUS
  <2> QED
    BY <2>1, <2>2, <2>3 DEF Init, Kept, Idle
<1>2. LaneInv /\ LaneInv' /\ Kept /\ [Next]_vars => Kept'
  <2> SUFFICES ASSUME LaneInv, LaneInv', Kept, [Next]_vars PROVE Kept'
    OBVIOUS
  <2>1. CASE Next
    BY <2>1, ClientKeeps, TaskKeeps DEF Next
  <2>2. CASE UNCHANGED vars
    BY <2>2, Zenon DEF vars, Kept, Rest
  <2> QED
    BY <2>1, <2>2
<1>3. Spec => []LaneInv
  BY InitLane, NextLane, PTL DEF Spec
<1> QED
  BY <1>1, <1>2, <1>3, KeptEnough, PTL DEF Spec
=============================================================================
