---------------------- MODULE MCTransactionCoordinator ----------------------
(* Two transactions, two keys and a reader on a node with one or two workers. *)
EXTENDS TransactionCoordinator, TLC

CONSTANTS t1, t2, k1, k2, w1, w2

Put(k) == [key |-> k, op |-> "Put"]
Del(k) == [key |-> k, op |-> "Delete"]

\* t1 spans both keys, t2 writes t1's secondary only.
SpanAndSingle == (t1 :> <<Put(k1), Put(k2)>>) @@ (t2 :> <<Put(k2)>>)

\* Each transaction's primary is the other's secondary.
Crossing == (t1 :> <<Put(k1), Put(k2)>>) @@ (t2 :> <<Put(k2), Put(k1)>>)

\* Both transactions delete a key that the other one puts.
Deletes == (t1 :> <<Put(k1), Del(k2)>>) @@ (t2 :> <<Put(k2), Del(k1)>>)

\* t1 alone.
Alone == (t1 :> <<Put(k1), Put(k2)>>)

\* Worker threads are interchangeable.
WorkerSymmetry == Permutations({w1, w2})
=============================================================================
