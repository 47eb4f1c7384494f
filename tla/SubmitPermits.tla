---------------------------- MODULE SubmitPermits ----------------------------
(***************************************************************************)
(* SubmitPermitRegistry (turnstile_solver/src/submit_permits.py): the gate *)
(* that bounds how many registration processes submit at once.  A bounded  *)
(* semaphore counts the free slots and a dictionary under a lock holds the *)
(* leases, but the two are never changed together: a slot is taken before  *)
(* its lease is registered, and a lease is popped before its slot is given *)
(* back.  Every operation is therefore split here at the points where the  *)
(* code leaves the lock.                                                   *)
(*                                                                         *)
(* A permit id is identified with the acquire call that may obtain it; its *)
(* client may crash, so releasing is never required of it.                 *)
(***************************************************************************)
EXTENDS Integers, FiniteSets

CONSTANTS Acquirers,  \* server threads running acquire; also the permit ids
          Others,     \* server threads running release, stats or close
          Workers,    \* the size of the semaphore
          None        \* no permit, no thread

ASSUME PermitAssumption ==
  /\ IsFiniteSet(Acquirers)
  /\ Acquirers \cap Others = {}
  /\ Workers \in Nat \ {0}
  /\ None \notin Acquirers \cup Others

Threads == Acquirers \cup Others

VARIABLES sem,      \* free slots of _semaphore
          slot,     \* where the slot of each permit is
          popper,   \* the thread that popped the lease and owes its slot
          due,      \* active permits whose expires_at_ms has passed
          closed,   \* _closed
          pc,       \* what each server thread is about to do
          target    \* the permit id a release call was given

vars == <<sem, slot, popper, due, closed, pc, target>>

\* "got": taken from the semaphore, not registered yet; "active": in _active;
\* "popped": out of _active, not back in the semaphore yet.
SlotState == {"none", "got", "active", "popped", "returned"}

Active == {p \in Acquirers : slot[p] = "active"}
Charged == {p \in Acquirers : slot[p] \in {"got", "active", "popped"}}
Owed(t) == {p \in Acquirers : slot[p] = "popped" /\ popper[p] = t}

\* BoundedSemaphore.release: above its initial value it raises ValueError
\* and leaves the count alone.
GivenBack == IF sem < Workers THEN sem + 1 ELSE sem

Init ==
  /\ sem = Workers
  /\ slot = [p \in Acquirers |-> "none"]
  /\ popper = [p \in Acquirers |-> None]
  /\ due = {}
  /\ closed = FALSE
  /\ pc = [t \in Threads |-> "idle"]
  /\ target = [t \in Others |-> None]

Goto(t, l) == pc' = [pc EXCEPT ![t] = l]

\* Under the lock: leases in S leave _active, thread t owes their slots.
PopAll(t, S) ==
  /\ slot' = [p \in Acquirers |-> IF p \in S THEN "popped" ELSE slot[p]]
  /\ popper' = [p \in Acquirers |-> IF p \in S THEN t ELSE popper[p]]
  /\ due' = due \ S

\* The lease time of an active permit passes.
LeaseRunsOut(p) ==
  /\ slot[p] = "active"
  /\ p \notin due
  /\ due' = due \cup {p}
  /\ UNCHANGED <<sem, slot, popper, closed, pc, target>>

-----------------------------------------------------------------------------
(* The calls.  Each of acquire, release and stats starts with reap_expired. *)

CallAcquire(r) ==
  /\ pc[r] = "idle"
  /\ Goto(r, "reap")
  /\ UNCHANGED <<sem, slot, popper, due, closed, target>>

\* A client knows the ids it was given; it may release one twice.
CallRelease(t, p) ==
  /\ pc[t] = "idle"
  /\ pc[p] = "granted"
  /\ target' = [target EXCEPT ![t] = p]
  /\ Goto(t, "reap")
  /\ UNCHANGED <<sem, slot, popper, due, closed>>

CallStats(t) ==
  /\ pc[t] = "idle"
  /\ Goto(t, "reap")
  /\ UNCHANGED <<sem, slot, popper, due, closed, target>>

\* close under the lock: the flag, then every lease leaves _active.
CallClose(t) ==
  /\ pc[t] = "idle"
  /\ closed' = TRUE
  /\ IF closed
       THEN Goto(t, "done") /\ UNCHANGED <<slot, popper, due>>
       ELSE PopAll(t, Active) /\ Goto(t, "giveback")
  /\ UNCHANGED <<sem, target>>

-----------------------------------------------------------------------------
(* reap_expired *)

ReapExpired(t) ==
  /\ pc[t] = "reap"
  /\ PopAll(t, due \cap Active)
  /\ Goto(t, "giveback")
  /\ UNCHANGED <<sem, closed, target>>

\* Outside the lock, one slot at a time.
GiveBack(t) ==
  /\ pc[t] = "giveback"
  /\ \E p \in Owed(t) : slot' = [slot EXCEPT ![p] = "returned"]
  /\ sem' = GivenBack
  /\ UNCHANGED <<popper, due, closed, pc, target>>

Reaped(t) ==
  /\ pc[t] = "giveback"
  /\ Owed(t) = {}
  /\ Goto(t, IF t \in Acquirers THEN "check"
             ELSE IF target[t] # None THEN "pop" ELSE "done")
  /\ UNCHANGED <<sem, slot, popper, due, closed, target>>

-----------------------------------------------------------------------------
(* The rest of acquire *)

CheckClosed(r) ==
  /\ pc[r] = "check"
  /\ Goto(r, IF closed THEN "refused" ELSE "try")
  /\ UNCHANGED <<sem, slot, popper, due, closed, target>>

\* Mutant of TakeSlot: the semaphore does not block.
TakeSlotUnbounded(r) ==
  /\ pc[r] = "try"
  /\ sem' = sem - 1
  /\ slot' = [slot EXCEPT ![r] = "got"]
  /\ Goto(r, "got")
  /\ UNCHANGED <<popper, due, closed, target>>

TakeSlot(r) ==
  /\ pc[r] = "try"
  /\ sem > 0
  /\ sem' = sem - 1
  /\ slot' = [slot EXCEPT ![r] = "got"]
  /\ Goto(r, "got")
  /\ UNCHANGED <<popper, due, closed, target>>

\* Mutant of Retry: the wait loop does not sweep expired leases.
RetryWithoutReap(r) ==
  /\ pc[r] = "try"
  /\ sem = 0
  /\ Goto(r, "check")
  /\ UNCHANGED <<sem, slot, popper, due, closed, target>>

\* The wait slice (at most 0.25 s) ends without a slot: the loop reaps again.
Retry(r) ==
  /\ pc[r] = "try"
  /\ sem = 0
  /\ Goto(r, "reap")
  /\ UNCHANGED <<sem, slot, popper, due, closed, target>>

\* The deadline has passed, or a non-blocking call found no slot.
GiveUp(r) ==
  /\ pc[r] = "try"
  /\ Goto(r, "refused")
  /\ UNCHANGED <<sem, slot, popper, due, closed, target>>

\* Mutants of Register: a slot taken before close is lost, or leased after it.
RegisterKeepsSlot(r) ==
  /\ pc[r] = "got"
  /\ IF closed
       THEN /\ slot' = [slot EXCEPT ![r] = "returned"]
            /\ Goto(r, "refused")
       ELSE /\ slot' = [slot EXCEPT ![r] = "active"]
            /\ Goto(r, "granted")
  /\ UNCHANGED <<sem, popper, due, closed, target>>

RegisterAfterClose(r) ==
  /\ pc[r] = "got"
  /\ slot' = [slot EXCEPT ![r] = "active"]
  /\ Goto(r, "granted")
  /\ UNCHANGED <<sem, popper, due, closed, target>>

\* Back under the lock with the slot in hand.
Register(r) ==
  /\ pc[r] = "got"
  /\ IF closed
       THEN /\ sem' = GivenBack
            /\ slot' = [slot EXCEPT ![r] = "returned"]
            /\ Goto(r, "refused")
       ELSE /\ slot' = [slot EXCEPT ![r] = "active"]
            /\ Goto(r, "granted")
            /\ UNCHANGED sem
  /\ UNCHANGED <<popper, due, closed, target>>

-----------------------------------------------------------------------------
(* The rest of release *)

\* Mutant of Pop: the lease goes, its slot does not.
PopForgets(t) ==
  /\ pc[t] = "pop"
  /\ IF target[t] \in Active
       THEN PopAll(t, {target[t]})
       ELSE UNCHANGED <<slot, popper, due>>
  /\ Goto(t, "done")
  /\ UNCHANGED <<sem, closed, target>>

Pop(t) ==
  /\ pc[t] = "pop"
  /\ IF target[t] \in Active
       THEN PopAll(t, {target[t]}) /\ Goto(t, "hand")
       ELSE Goto(t, "refused") /\ UNCHANGED <<slot, popper, due>>
  /\ UNCHANGED <<sem, closed, target>>

HandBack(t) ==
  /\ pc[t] = "hand"
  /\ slot' = [slot EXCEPT ![target[t]] = "returned"]
  /\ sem' = GivenBack
  /\ Goto(t, "done")
  /\ UNCHANGED <<popper, due, closed, target>>

-----------------------------------------------------------------------------
Reap(t) == ReapExpired(t) \/ GiveBack(t) \/ Reaped(t)
AcquireStep(r) == \/ CheckClosed(r) \/ TakeSlot(r) \/ Retry(r) \/ Register(r)
ReleaseStep(t) == Pop(t) \/ HandBack(t)
Settled(t) == pc[t] \in {"idle", "granted", "refused", "done"}

Next ==
  \/ \E r \in Acquirers : CallAcquire(r) \/ AcquireStep(r) \/ GiveUp(r)
                          \/ LeaseRunsOut(r)
  \/ \E t \in Others : \/ \E p \in Acquirers : CallRelease(t, p)
                       \/ CallStats(t) \/ CallClose(t) \/ ReleaseStep(t)
  \/ \E t \in Threads : Reap(t)

Spec == Init /\ [][Next]_vars

\* Server threads run and time passes; clients and deadlines owe nothing.
Fairness ==
  /\ \A r \in Acquirers : WF_vars(AcquireStep(r)) /\ WF_vars(LeaseRunsOut(r))
  /\ \A t \in Others : WF_vars(ReleaseStep(t))
  /\ \A t \in Threads : WF_vars(Reap(t))

FairSpec == Spec /\ Fairness

-----------------------------------------------------------------------------
Label == {"idle", "reap", "giveback", "check", "try", "got", "granted",
          "pop", "hand", "refused", "done"}

\* The values the registry and its callers' threads range over.
TypeOK ==
  /\ sem \in 0..Workers
  /\ slot \in [Acquirers -> SlotState]
  /\ popper \in [Acquirers -> Threads \cup {None}]
  /\ due \subseteq Active
  /\ closed \in BOOLEAN
  /\ pc \in [Threads -> Label]
  /\ target \in [Others -> Acquirers \cup {None}]

\* Slots are conserved across the unlocked gaps of every operation: the free
\* slots and the slots taken, leased or on their way back are Workers at all
\* times, so BoundedSemaphore.release never raises and no slot is lost.
SlotsConserved == sem + Cardinality(Charged) = Workers

\* A slot outside the semaphore and without a lease is in the hands of a
\* thread that is about to register it or to give it back.
NoSlotAdrift ==
  \A p \in Acquirers :
    /\ slot[p] = "got" => pc[p] = "got"
    /\ slot[p] = "popped" => pc[popper[p]] \in {"giveback", "hand"}

\* What the clients see: SubmitPermits implements PermitGate.
Gate == INSTANCE PermitGate WITH
          Permits <- Acquirers,
          holding <- Active,
          spent <- {p \in Acquirers : pc[p] = "granted" /\ slot[p] # "active"},
          shut <- closed
GateImplemented == Gate!Spec

\* Every acquire call ends, by a grant or a refusal, although clients may
\* crash while holding permits: the wait loop itself reaps the leases that
\* expire, so a waiter does not depend on anybody else's call.
AcquireSettles ==
  \A r \in Acquirers : pc[r] = "reap" ~> Settled(r)

\* What acquire, release, reap_expired and close keep between any two of their
\* steps: no slot is lost, doubled or left to nobody.
SlotsSafe ==
  /\ TypeOK
  /\ SlotsConserved
  /\ NoSlotAdrift
=============================================================================
