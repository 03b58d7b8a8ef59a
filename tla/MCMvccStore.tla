---------------------------- MODULE MCMvccStore ----------------------------
(***************************************************************************)
(* Instances of MvccStore for TLC.  With MaxByte 9, timestamps 1 .. 5 are  *)
(* inverted to the bytes 8 .. 4.                                           *)
(***************************************************************************)
EXTENDS MvccStore

\* A key, one that extends it with a byte below the timestamps, and one that
\* extends it with a byte among them.
ThreeKeys == {<<1>>, <<1, 1>>, <<1, 6>>}

\* Transactions on one key each; and transactions on two keys that do not extend
\* each other, with deletions of the second.
OneOrTwoKeys ==
  {{[keys |-> <<k>>, op |-> "put"] : k \in ThreeKeys},
   {[keys |-> <<<<1, 6>>, <<1, 1>>>>, op |-> "put"], [keys |-> <<<<1, 1>>>>, op |-> "delete"]}}

\* Everything, the first key, from a key on, and up to a key.
FourScans ==
  {[lo |-> <<>>, hi |-> <<>>, limit |-> 0],
   [lo |-> <<>>, hi |-> <<>>, limit |-> 1],
   [lo |-> <<1, 1>>, hi |-> <<>>, limit |-> 0],
   [lo |-> <<>>, hi |-> <<1, 6>>, limit |-> 0]}

\* A key and one that extends it with a byte below the timestamps.
TwoKeys == {<<1>>, <<1, 1>>}

OneKeyPuts == {{[keys |-> <<k>>, op |-> "put"] : k \in TwoKeys}}

NoScans == {}
=============================================================================
