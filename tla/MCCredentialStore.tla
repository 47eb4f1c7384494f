-------------------------- MODULE MCCredentialStore --------------------------
(* CredentialStore with pages of one credential and at most one conversion.  *)
EXTENDS CredentialStore, TLC

MCInit == Init /\ Cardinality({a \in Accounts : At(a, "sidecar")}) <= 1
MCSpec == MCInit /\ [][Next]_vars

\* Only for runs without liveness properties.
Same == Permutations(Accounts) \cup Permutations(Exports)
=============================================================================
