----------------------------- MODULE MCRlcAmTx -----------------------------
(* Small instances of the sender: four sequence numbers and PDUs of two    *)
(* bytes, so that the window wraps and PDUs are resegmented.               *)
EXTENDS RlcAmTx
=============================================================================
