----------------------------- MODULE MCXaiOAuth -----------------------------
(* XaiOAuth with budgets of two clicks, one solve and one reset, and a page  *)
(* that does something of its own a few times.                               *)
EXTENDS XaiOAuth
=============================================================================
