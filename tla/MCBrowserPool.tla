---------------------------- MODULE MCBrowserPool ----------------------------
(* BrowserPool on small instances: threads and affinities are never        *)
(* compared.  Only for runs without liveness properties.              *)
EXTENDS BrowserPool, TLC

PoolSymmetry == Permutations(Threads) \cup Permutations(Kinds)
=============================================================================
