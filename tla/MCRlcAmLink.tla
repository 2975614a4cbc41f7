---------------------------- MODULE MCRlcAmLink ----------------------------
(* Small instances of the bearer.  A PDU's content is its number.          *)
EXTENDS RlcAmLink

MCPayload == 0 .. MaxPdus - 1
=============================================================================
