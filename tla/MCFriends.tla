------------------------------ MODULE MCFriends ------------------------------
(* Instances of Friends for TLC.                                             *)
EXTENDS Friends

CONSTANTS a, b, c

MCFriends == {<<a, c>>, <<c, b>>}

MCNoFriends == {}

MCSymmetry == Permutations(Players)
=============================================================================
