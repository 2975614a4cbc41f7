------------------------------ MODULE MCMacDl ------------------------------
(* Small instances of the downlink. *)
EXTENDS MacDl

MCBlock == 0 .. NofBlocks - 1
=============================================================================
