----------------------------- MODULE MCRlcAmRx -----------------------------
(* Small instances of the receiver: four or six sequence numbers, so that  *)
(* the window wraps, and PDUs of two bytes, so that they can be segmented. *)
EXTENDS RlcAmRx

MCPayload == SN
=============================================================================
