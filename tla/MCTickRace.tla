----------------------------- MODULE MCTickRace -----------------------------
EXTENDS TickRace, TLC

\* Pollers run the same code and are never compared.
PollerSymmetry == Permutations(Pollers)
=============================================================================
