----------------------------- MODULE MCMailPool -----------------------------
(* MailPool on small instances: addresses and workers are interchangeable. *)
EXTENDS MailPool, TLC

PoolSymmetry == Permutations(Emails) \cup Permutations(Workers)
=============================================================================
