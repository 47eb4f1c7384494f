--------------------------- MODULE MCEmbeddedProxy ---------------------------
(* EmbeddedProxy on one node with two workers, and two threads of the console *)
(* that make a request each.                                                 *)
EXTENDS EmbeddedProxy
=============================================================================
