----------------------------- MODULE MCImdbScan -----------------------------
(* Instances of ImdbScan for TLC. *)
EXTENDS ImdbScan, TLC

CONSTANTS h1, h2, p1, p2

TwoProcesses == (h1 :> p1) @@ (h2 :> p2)

TwoAndOne    == (h1 :> 2) @@ (h2 :> 1)
=============================================================================
