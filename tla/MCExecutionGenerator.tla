------------------------ MODULE MCExecutionGenerator ------------------------
(* Instances of ExecutionGenerator for TLC: packs 1 and 2 are single ranks,  *)
(* pack 3 is both of them.                                                   *)
EXTENDS ExecutionGenerator

TwoTableLayouts == {<< <<0>>, <<1>>, <<>> >>}
=============================================================================
