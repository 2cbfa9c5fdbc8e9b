------------------------------ MODULE MCSpawner ------------------------------
(* An instance of Spawner for TLC: a node for one and a node for two.        *)
EXTENDS Spawner

MCNodeMax == <<1, 2>>
MCLimits  == {Unlimited, 3}
=============================================================================
