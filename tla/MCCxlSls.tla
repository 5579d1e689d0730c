------------------------------ MODULE MCCxlSls ------------------------------
(* Instances of CxlSls for TLC. *)
EXTENDS CxlSls, TLC

CONSTANTS h1, h2, p1, p2, u1, u2

TwoProcesses == (h1 :> p1) @@ (h2 :> p2)

PairShape    == {<<2, 1>>}

OverlappingPacks == {{u1}, {u1, u2}}
=============================================================================
