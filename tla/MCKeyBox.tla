------------------------------ MODULE MCKeyBox ------------------------------
(* Instances of KeyBox for TLC. *)
EXTENDS KeyBox, TLC

CONSTANTS k1, k2

MCNodes == 1..6
MCKeys == {k1, k2}

\* A keybox with a blob of each of two keys.
MCFirst ==
  [blobs |-> {[off |-> 1, key |-> k1, sigs |-> {}, live |-> TRUE],
              [off |-> 2, key |-> k2, sigs |-> {}, live |-> TRUE]},
   end |-> 3]
=============================================================================
