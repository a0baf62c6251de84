----------------------------- MODULE MCTrustDb -----------------------------
(* Instances of TrustDb for TLC. *)
EXTENDS TrustDb, TLC

MCRecs == 0..8
MCBucket == "a" :> 1 @@ "b" :> 1 @@ "c" :> 1
=============================================================================
