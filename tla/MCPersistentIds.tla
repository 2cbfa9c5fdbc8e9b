--------------------------- MODULE MCPersistentIds ---------------------------
(* An instance of PersistentIds for TLC.                                     *)
EXTENDS PersistentIds
=============================================================================
