--------------------------- MODULE MCBatchRunner ---------------------------
EXTENDS BatchRunner, TLC

\* The scheduler never compares routes.  Only for runs without liveness
\* properties.
ExitSymmetry == Permutations(Exits)

CountPlan(n, egress, entries, convert) ==
  [continuous |-> FALSE, count |-> n, target |-> 0, limited |-> FALSE,
   convert |-> convert, egress |-> egress, entries |-> entries]
OpenPlan(n, egress, entries, convert, limited) ==
  [continuous |-> TRUE, count |-> 1, target |-> n, limited |-> limited,
   convert |-> convert, egress |-> egress, entries |-> entries]

\* Every kind of egress in count mode, with and without conversions, and a
\* continuous batch with a target and a time limit.
SafePlans ==
  {CountPlan(3, "embedded", {}, TRUE), CountPlan(3, "pool", Exits, FALSE),
   OpenPlan(2, "embedded", {}, FALSE, TRUE), CountPlan(3, "sticky", Exits, FALSE),
   CountPlan(2, "none", {}, TRUE)}
  \cup {CountPlan(3, "hybrid", {e}, FALSE) : e \in Exits}

\* Plans of each mode, small enough for the liveness checks.
FewPlans ==
  {CountPlan(2, "embedded", {}, TRUE), CountPlan(2, "pool", Exits, FALSE),
   OpenPlan(1, "embedded", {}, FALSE, FALSE)}
=============================================================================
