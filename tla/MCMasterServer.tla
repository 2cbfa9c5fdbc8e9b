--------------------------- MODULE MCMasterServer ---------------------------
(* Instances of MasterServer for TLC.                                       *)
EXTENDS MasterServer

CONSTANTS r1, r2, p1

MCSymmetry == Permutations({r1, r2})

MCOneZone   == {<<1000, 0>>}
MCTwoZones  == {<<0, 0>>, <<1000, 0>>}
MCCapOne    == [m \in Maps |-> 1]
MCCapTwo    == [m \in Maps |-> 2]
=============================================================================
