------------------------------ MODULE KeyStore ------------------------------
(***************************************************************************)
(* What a keybox file promises the processes that share it: a map from     *)
(* keys to key blocks in which an update or a deletion changes one key, as *)
(* a whole or not at all, whatever process dies when.  The promise lasts   *)
(* until a process writes at a place that it looked up in a file that has  *)
(* been replaced since, or goes on without the lock because the file had   *)
(* no name when it asked.  Module KeyBox implements this specification.    *)
(***************************************************************************)
CONSTANTS Keys, Sigs, None

VARIABLES
  store,   \* the key block of each key, or None
  spoiled  \* one of these happened

vars == <<store, spoiled>>

Stores == [Keys -> (SUBSET Sigs) \cup {None}]

Init == store \in Stores /\ spoiled = FALSE

Write(k, s) == /\ ~spoiled
               /\ store' = [store EXCEPT ![k] = s]
               /\ UNCHANGED spoiled

Remove(k) == /\ ~spoiled
             /\ store' = [store EXCEPT ![k] = None]
             /\ UNCHANGED spoiled

\* Nothing is promised any more.
Spoil == spoiled' = TRUE /\ store' \in Stores

Next == \/ \E k \in Keys : Remove(k) \/ \E s \in SUBSET Sigs : Write(k, s)
        \/ Spoil

Spec == Init /\ [][Next]_vars
=============================================================================
