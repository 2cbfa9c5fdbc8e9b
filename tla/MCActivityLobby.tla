--------------------------- MODULE MCActivityLobby ---------------------------
(* An instance of ActivityLobby for TLC.                                     *)
EXTENDS ActivityLobby

CONSTANTS x, y, z, nobody

(* One of them can pay, once.                                                *)
MCHeld == [p \in Players |-> IF p = x THEN 1 ELSE 0]
=============================================================================
