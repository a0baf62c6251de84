----------------------------- MODULE MCDotLock -----------------------------
(***************************************************************************)
(* Small instances of DotLock: three processes on one node, or two on one  *)
(* node and a third on another node that happens to have the pid of the    *)
(* first.                                                                  *)
(***************************************************************************)
EXTENDS DotLock, TLC

CONSTANTS p1, p2, p3

OneNodePids == (p1 :> 101) @@ (p2 :> 102) @@ (p3 :> 103)
OneNode == [p \in {p1, p2, p3} |-> "alpha"]

TwoNodesPids == (p1 :> 101) @@ (p2 :> 102) @@ (p3 :> 101)
TwoNodes == (p1 :> "alpha") @@ (p2 :> "alpha") @@ (p3 :> "beta")

\* Callers in gpg and gpgsm wait forever; others try once or for a while.
WaitOrNot == {0, 250, -1}
Forever == {-1}

=============================================================================
