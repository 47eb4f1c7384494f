----------------------------- MODULE PermitGate -----------------------------
(***************************************************************************)
(* What SubmitPermitRegistry promises to the registration clients: at most *)
(* Workers unexpired permits exist at a time, a permit id is granted at    *)
(* most once, a revoked permit never comes back, and a closed gate is      *)
(* empty and stays so.  Nothing is said about semaphores, locks or         *)
(* threads; SubmitPermits implements this specification.                   *)
(***************************************************************************)
EXTENDS Naturals, FiniteSets

CONSTANTS Permits,   \* the permit ids the registry ever hands out
          Workers    \* the number of submissions admitted at once

VARIABLES holding,   \* permits granted and neither released nor expired
          spent,     \* permits that were granted once and are gone
          shut       \* the gate has been closed

vars == <<holding, spent, shut>>

Init == holding = {} /\ spent = {} /\ shut = FALSE

Grant(p) ==
  /\ ~shut
  /\ p \notin holding \cup spent
  /\ Cardinality(holding) < Workers
  /\ holding' = holding \cup {p}
  /\ UNCHANGED spent
  /\ UNCHANGED shut

\* A release gives up one permit, a sweep every permit that has expired.
Revoke(S) ==
  /\ S # {}
  /\ holding' = holding \ S
  /\ spent' = spent \cup S
  /\ UNCHANGED shut

Close ==
  /\ shut' = TRUE
  /\ holding' = {}
  /\ spent' = spent \cup holding

Next == \/ \E p \in Permits : Grant(p)
        \/ \E S \in SUBSET holding : Revoke(S)
        \/ Close

Spec == Init /\ [][Next]_vars
=============================================================================
