---------------------------- MODULE MCAxdimmSls ----------------------------
(* Instances of AxdimmSls for TLC. *)
EXTENDS AxdimmSls, TLC

CONSTANTS h1, h2, h3, p1, p2, u1, u2

SharedProcess == (h1 :> p1) @@ (h2 :> p1) @@ (h3 :> p2)
OneProcess   == (h1 :> p1) @@ (h2 :> p1)

\* Executions with fewer and more rows in turn; three wrap the double buffer.
MixedShapes  == {<<2>>, <<1, 3>>, <<3, 1, 3>>}
ShortShapes  == {<<2>>, <<1, 2>>}
PairShape    == {<<1, 2>>}

OnePack      == {{u1}}
=============================================================================
