---------------------------- MODULE MCAgentCache ----------------------------
(***************************************************************************)
(* Small instances of AgentCache: keys used the way the agent's commands   *)
(* use them.                                                               *)
(***************************************************************************)
EXTENDS AgentCache, TLC

Call(k, x, m) == [key |-> k, restricted |-> x, mode |-> m]

\* A key grip: its passphrase is preset, or stored by the agent for signing
\* or for SSH, and deleted by gpg-preset-passphrase --forget (in USER mode);
\* a secret that a restricted connection stores under the same
\* string; a card PIN; and a caller that bypasses the cache.
MixedPuts == {Call("grip", 0, "NORMAL"), Call("grip", 0, "SSH"),
              Call("grip", 0, "ANY"), Call("grip", 1, "DATA"),
              Call("card", -1, "PIN"), Call("grip", 0, "IGNORE")}
MixedGets == {Call("grip", 0, "NORMAL"), Call("grip", 1, "DATA"),
              Call("card", -1, "PIN")}
MixedClears == {Call("grip", 0, "USER"), Call("card", -1, "PIN")}

ASSUME UsesAssumption == KeysApart

DefaultOrEver == {0, -1}

\* The cache never looks into a value.
Symmetry == Permutations(Values)

=============================================================================
