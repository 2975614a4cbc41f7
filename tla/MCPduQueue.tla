----------------------------- MODULE MCPduQueue -----------------------------
(* Two rings of two or three slots. *)
EXTENDS PduQueue
=============================================================================
