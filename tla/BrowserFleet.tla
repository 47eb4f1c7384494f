---------------------------- MODULE BrowserFleet ----------------------------
(***************************************************************************)
(* What PersistentBrowserPool promises to the solver: a browser in service *)
(* is ready or in use by exactly one request, a request uses one browser   *)
(* at a time, no more than MaxConcurrency browsers are in service, one     *)
(* taken out of service is quit and never comes back, and a shut pool has  *)
(* nothing in service.  Nothing is said about affinities, waiting, retries *)
(* or threads; BrowserPool implements this specification.                  *)
(***************************************************************************)
EXTENDS Integers, FiniteSets

CONSTANTS Slots,           \* the browsers the pool ever starts
          Threads,         \* the solve requests
          MaxConcurrency,
          Absent, Ready, Doomed

VARIABLES status,  \* Absent, Ready, Doomed, or the request using the browser
          shut

vars == <<status, shut>>

InService == {s \in Slots : status[s] \in Threads \cup {Ready}}

Init == status = [s \in Slots |-> Absent] /\ shut = FALSE

\* A new or a ready browser is given to a request that has none.
Lend(s, t) ==
  /\ ~shut
  /\ status[s] = Ready \/ (status[s] = Absent /\ Cardinality(InService) < MaxConcurrency)
  /\ \A r \in Slots : status[r] # t
  /\ status' = [status EXCEPT ![s] = t]
  /\ UNCHANGED shut

Return(s) ==
  /\ ~shut /\ status[s] \in Threads
  /\ status' = [status EXCEPT ![s] = Ready]
  /\ UNCHANGED shut

\* Recycling, eviction or idle clean-up.
Condemn(S) ==
  /\ S \subseteq InService
  /\ status' = [s \in Slots |-> IF s \in S THEN Doomed ELSE status[s]]
  /\ UNCHANGED shut

Quit(s) ==
  /\ status[s] = Doomed
  /\ status' = [status EXCEPT ![s] = Absent]
  /\ UNCHANGED shut

Shut ==
  /\ ~shut /\ shut' = TRUE
  /\ status' = [s \in Slots |-> IF s \in InService THEN Doomed ELSE status[s]]

Next == \/ \E s \in Slots, t \in Threads : Lend(s, t)
        \/ \E s \in Slots : Return(s) \/ Quit(s)
        \/ \E S \in SUBSET Slots : Condemn(S)
        \/ Shut

Spec == Init /\ [][Next]_vars
=============================================================================
