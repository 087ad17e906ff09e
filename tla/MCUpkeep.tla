-------------------------------- MODULE MCUpkeep --------------------------------
(* A data directory of two files, two releases past the installed one. *)
EXTENDS Upkeep
=================================================================================
