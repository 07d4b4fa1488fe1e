--------------------------- MODULE MCRosLiveCache ---------------------------
(***************************************************************************)
(* Two builders, each refreshing one generation at an early or a late      *)
(* instant, or the other generation, with two faults between them.         *)
(***************************************************************************)
EXTENDS RosLiveCache

CONSTANTS g1, g2

MCRefreshes ==
    {[generation |-> g1, asOf |-> 1], [generation |-> g1, asOf |-> 2],
     [generation |-> g2, asOf |-> 1]}
=============================================================================
