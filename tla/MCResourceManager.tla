------------------------- MODULE MCResourceManager -------------------------
(* Small instances of ResourceManager for TLC.                             *)
EXTENDS ResourceManager
=============================================================================
