------------------------------- MODULE MCTeams -------------------------------
(* An instance of Teams for TLC.                                             *)
EXTENDS Teams

CONSTANTS a, b, c, w

(* A world and an activity elsewhere.                                       *)
MCHomeZone   == [map |-> 1, clone |-> 1]
MCPartyZones == {[map |-> 2, clone |-> 2]}
MCZones      == {MCHomeZone} \cup MCPartyZones

(* m_PlayerCount, a uint32_t with fewer values.                              *)
MCCountRange == 16

MCSymmetry == Permutations(Players)
=============================================================================
