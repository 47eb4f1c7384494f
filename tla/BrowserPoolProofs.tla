-------------------------- MODULE BrowserPoolProofs --------------------------
(***************************************************************************)
(* For every number of requests, slots, affinities, attempts and tasks.    *)
(***************************************************************************)
EXTENDS BrowserPool, FiniteSetTheorems, TLAPS

\* The places at which a request has a slot.
Holding == {"retire", "start", "started", "solve", "give", "dispose"}

\* A call has a slot at exactly those places, knows its affinity as long as it
\* runs, and has another attempt in sight only while attempts are left.
CallOK(c) ==
  /\ c.pc \in Holding <=> c.slot # None
  /\ c.pc \notin {"idle", "done"} => c.kind \in Kinds
  /\ c.again \/ c.pc = "backoff" => c.attempt < MaxAttempts
  /\ c.again => c.pc \in {"give", "dispose"}
ShapeOK == \A t \in Threads : CallOK(call[t])

\* A reused record of a call, and what the updates of the actions make of it.
LEMMA CallTypes ==
  ASSUME TypeOK, NEW t \in Threads
  PROVE  /\ call[t] \in Call /\ NotCalled \in Call /\ Ended \in Call
         /\ \A l \in Label : [call[t] EXCEPT !.pc = l] \in Call
  <1>1. call[t] \in Call
    BY DEF TypeOK
  <1>2. 0 \in 0 .. MaxAttempts
    BY PoolAssumption DEF PoolAssumption
  <1>3. NotCalled \in Call
    BY <1>2 DEF NotCalled, Call, Label
  <1>4. Ended \in Call
    BY <1>3 DEF Ended, Call, Label
  <1>5. ASSUME NEW l \in Label PROVE [call[t] EXCEPT !.pc = l] \in Call
    BY <1>1 DEF Call
  <1>6. QED
    BY <1>1, <1>3, <1>4, <1>5

LEMMA Labels ==
  /\ {"idle", "acquire", "wait", "retire", "start", "started"} \subseteq Label
  /\ {"solve", "give", "dispose", "backoff", "done"} \subseteq Label
  BY DEF Label

LEMMA SlotUpdate ==
  ASSUME NEW c \in Call, NEW l \in Label, NEW s \in Slots \cup {None}
  PROVE  [c EXCEPT !.pc = l, !.slot = s] \in Call
  BY DEF Call

LEMMA WokenUpdate ==
  ASSUME NEW c \in Call, NEW l \in Label
  PROVE  [c EXCEPT !.pc = l, !.woken = FALSE] \in Call
  BY DEF Call

LEMMA AttemptUpdate ==
  ASSUME NEW c \in Call, NEW l \in Label, NEW n \in 0 .. MaxAttempts
  PROVE  /\ [c EXCEPT !.pc = l, !.attempt = n] \in Call
         /\ \A k \in Kinds : [c EXCEPT !.pc = l, !.kind = k, !.attempt = n] \in Call
  BY DEF Call

LEMMA EndUpdate ==
  ASSUME NEW c \in Call, NEW l \in Label, NEW a \in BOOLEAN, NEW b \in BOOLEAN
  PROVE  /\ [c EXCEPT !.pc = l, !.again = a, !.recycle = b] \in Call
         /\ [c EXCEPT !.slot = None, !.recycle = FALSE, !.again = FALSE, !.pc = l] \in Call
  BY DEF Call

LEMMA LateUpdate == ASSUME NEW c \in Call PROVE [c EXCEPT !.late = TRUE] \in Call
  BY DEF Call

LEMMA SlotTypes ==
  ASSUME TypeOK, NEW s \in Slots
  PROVE  /\ slot[s] \in Slot /\ Empty \in Slot
         /\ [slot[s] EXCEPT !.worn = TRUE] \in Slot
         /\ \A k \in Kinds : [Empty EXCEPT !.live = TRUE, !.kind = k] \in Slot
         /\ slot[s].tasks < MaxTasks => Worked(slot[s]) \in Slot
         /\ ~slot[s].live => Worked(slot[s]) \in Slot
  <1>1. slot[s] \in Slot
    BY DEF TypeOK
  <1>2. 0 \in 0 .. MaxTasks
    BY PoolAssumption DEF PoolAssumption
  <1>3. Empty \in Slot
    BY <1>2 DEF Empty, Slot
  <1>4. \A k \in Kinds : [Empty EXCEPT !.live = TRUE, !.kind = k] \in Slot
    BY <1>3 DEF Slot
  <1>5. [slot[s] EXCEPT !.worn = TRUE] \in Slot
    BY <1>1 DEF Slot
  <1>6. ASSUME slot[s].tasks < MaxTasks PROVE slot[s].tasks + 1 \in 0 .. MaxTasks
    BY <1>1, <1>6, PoolAssumption DEF Slot, PoolAssumption
  <1>7. ASSUME NEW n \in 0 .. MaxTasks PROVE [slot[s] EXCEPT !.tasks = n] \in Slot
    BY <1>1 DEF Slot
  <1>8. slot[s].tasks < MaxTasks => Worked(slot[s]) \in Slot
    BY <1>1, <1>6, <1>7 DEF Worked
  <1>9. ~slot[s].live => Worked(slot[s]) \in Slot
    BY <1>1 DEF Worked
  <1>10. QED
    BY <1>1, <1>3, <1>4, <1>5, <1>8, <1>9

\* Waking everybody keeps the type, and everything but woken.
LEMMA NotifyTypes ==
  ASSUME TypeOK, NEW u \in Threads
  PROVE  Woken(u) \in Call
  <1>1. call[u] \in Call
    BY DEF TypeOK
  <1>2. (call[u].woken \/ At(u, "wait")) \in BOOLEAN
    OBVIOUS
  <1>3. ASSUME NEW b \in BOOLEAN PROVE [call[u] EXCEPT !.woken = b] \in Call
    BY <1>1 DEF Call
  <1>4. [call[u] EXCEPT !.woken = call[u].woken \/ At(u, "wait")] \in Call
    BY <1>2, <1>3
  <1>5. QED
    BY <1>4 DEF Woken

LEMMA CallSteps ==
  ASSUME TypeOK, NEW t \in Threads, NEW c \in Call
  PROVE  /\ Becomes(t, c) => call' \in [Threads -> Call]
         /\ AndNotify(t, c) \in [Threads -> Call]
         /\ NotifyAll \in [Threads -> Call]
  <1>1. \A u \in Threads : Woken(u) \in Call
    BY NotifyTypes
  <1>2. Becomes(t, c) => call' \in [Threads -> Call]
    BY DEF Becomes, TypeOK
  <1>3. QED
    BY <1>1, <1>2 DEF AndNotify, NotifyAll

\* Where a call is, it has a slot.
LEMMA MineTypes ==
  ASSUME TypeOK, ShapeOK, NEW t \in Threads
  PROVE  /\ Mine(t) \in Slots \cup {None}
         /\ call[t].pc \in Holding => Mine(t) \in Slots
         /\ call[t].kind \in Kinds \cup {None}
         /\ call[t].attempt \in Nat
  BY PoolAssumption DEF TypeOK, ShapeOK, CallOK, Call, Mine, PoolAssumption

LEMMA TypeStep == TypeOK /\ ShapeOK /\ CapacityKept /\ WithinTaskLimit /\ [Next]_vars => TypeOK'
  <1> SUFFICES ASSUME TypeOK, ShapeOK, CapacityKept, WithinTaskLimit, [Next]_vars
               PROVE  TypeOK'
    OBVIOUS
  <1>f. Fault => faults' \in 0 .. MaxFaults
    BY PoolAssumption DEF Fault, TypeOK, PoolAssumption
  <1>1. ASSUME NEW t \in Threads, NEW k \in Kinds, CallSolve(t, k) PROVE TypeOK'
    <2>1. 1 \in 0 .. MaxAttempts
      BY PoolAssumption DEF PoolAssumption
    <2>2. [NotCalled EXCEPT !.pc = "acquire", !.kind = k, !.attempt = 1] \in Call
      BY <2>1, CallTypes, Labels, AttemptUpdate
    <2>3. call' \in [Threads -> Call]
      BY <1>1, <2>2, CallTypes, CallSteps DEF CallSolve
    <2>4. QED
      BY <1>1, <2>3 DEF CallSolve, TypeOK
  <1>2. ASSUME NEW t \in Threads, AcquireRefused(t) PROVE TypeOK'
    BY <1>2, CallTypes, CallSteps DEF AcquireRefused, TypeOK
  <1>3. ASSUME NEW t \in Threads, NEW s \in Slots, Reuse(t, s) PROVE TypeOK'
    <2>1. [call[t] EXCEPT !.pc = "solve", !.slot = s] \in Call
      BY CallTypes, Labels, SlotUpdate
    <2>2. QED
      BY <1>3, <2>1, CallSteps DEF Reuse, TypeOK
  <1>4. ASSUME NEW t \in Threads, NEW s \in Slots, Retire(t, s) PROVE TypeOK'
    <2>1. [call[t] EXCEPT !.pc = "retire", !.slot = s] \in Call
      BY CallTypes, Labels, SlotUpdate
    <2>2. QED
      BY <1>4, <2>1, CallSteps DEF Retire, TypeOK
  <1>5. ASSUME NEW t \in Threads, NEW s \in Slots, Create(t, s) PROVE TypeOK'
    <2>1. [call[t] EXCEPT !.pc = "start", !.slot = s] \in Call
      BY CallTypes, Labels, SlotUpdate
    <2>2. creating' \in Nat
      BY <1>5 DEF Create, TypeOK
    <2>3. QED
      BY <1>5, <2>1, <2>2, CallSteps DEF Create, TypeOK
  <1>6. ASSUME NEW t \in Threads, WaitForSlot(t) PROVE TypeOK'
    <2>1. [call[t] EXCEPT !.pc = "wait", !.woken = FALSE] \in Call
      BY CallTypes, Labels, WokenUpdate
    <2>2. QED
      BY <1>6, <2>1, CallSteps DEF WaitForSlot, TypeOK
  <1>7. ASSUME NEW t \in Threads, AcquireTimesOut(t) PROVE TypeOK'
    BY <1>7, CallTypes, CallSteps DEF AcquireTimesOut, TypeOK
  <1>8. ASSUME NEW t \in Threads, Wake(t) PROVE TypeOK'
    <2>1. [call[t] EXCEPT !.pc = "acquire", !.woken = FALSE] \in Call
      BY CallTypes, Labels, WokenUpdate
    <2>2. QED
      BY <1>8, <2>1, CallSteps DEF Wake, TypeOK
  <1>9. ASSUME NEW t \in Threads, CloseRetired(t) PROVE TypeOK'
    <2>1. [call[t] EXCEPT !.pc = "acquire", !.slot = None] \in Call
      BY CallTypes, Labels, SlotUpdate
    <2>2. slot' \in [Slots -> Slot]
      BY <1>9, MineTypes, SlotTypes DEF CloseRetired, CloseSlot, TypeOK
    <2>3. QED
      BY <1>9, <2>1, <2>2, CallSteps DEF CloseRetired, TypeOK
  <1>10. ASSUME NEW t \in Threads, StartSucceeds(t) PROVE TypeOK'
    <2>0. call[t].kind \in Kinds
      BY <1>10 DEF StartSucceeds, At, ShapeOK, CallOK
    <2>1. "started" \in Label
      BY DEF Label
    <2>2. slot' \in [Slots -> Slot]
      BY <1>10, <2>0, SlotTypes DEF StartSucceeds, TypeOK
    <2>3. QED
      BY <1>10, <2>1, <2>2, CallTypes, CallSteps DEF StartSucceeds, Goto, TypeOK
  <1>11. ASSUME NEW t \in Threads, StartFails(t) \/ Install(t) PROVE creating' \in Nat
    <2>1. t \in {u \in Threads : call[u].pc \in {"start", "started"}}
      BY <1>11 DEF StartFails, Install, At
    <2>2. creating # 0
      BY <2>1, FS_EmptySet, FS_Subset, PoolAssumption DEF CapacityKept, PoolAssumption
    <2>3. QED
      BY <1>11, <2>2 DEF StartFails, Install, TypeOK
  <1>12. ASSUME NEW t \in Threads, StartFails(t) PROVE TypeOK'
    BY <1>11, <1>12, <1>f, CallTypes, CallSteps DEF StartFails, TypeOK
  <1>13. ASSUME NEW t \in Threads, Install(t) PROVE TypeOK'
    <2>1. Mine(t) \in Slots
      BY <1>13, MineTypes DEF Install, At, Holding
    <2>2. "solve" \in Label
      BY DEF Label
    <2>3. call' \in [Threads -> Call]
      BY <1>13, <2>2, CallTypes, CallSteps DEF Install, Goto
    <2>4. slot' \in [Slots -> Slot]
      BY <1>13, <2>1, SlotTypes DEF Install, CloseSlot, TypeOK
    <2>5. QED
      BY <1>11, <1>13, <2>1, <2>3, <2>4 DEF Install, TypeOK
  <1>14. ASSUME NEW t \in Threads, NEW r \in BOOLEAN, NEW a \in BOOLEAN, AttemptEnds(t, r, a)
         PROVE  TypeOK'
    <2>1. Mine(t) \in Slots
      BY <1>14, MineTypes DEF AttemptEnds, At, Holding
    <2>2. Worked(slot[Mine(t)]) \in Slot
      BY <1>14, <2>1, SlotTypes DEF AttemptEnds, WithinTaskLimit
    <2>3. ASSUME NEW b \in BOOLEAN
          PROVE  [call[t] EXCEPT !.pc = "give", !.again = a, !.recycle = b] \in Call
      BY CallTypes, Labels, EndUpdate
    <2>4. (r \/ MustRecycle(Worked(slot[Mine(t)]))) \in BOOLEAN
      OBVIOUS
    <2>5. call' \in [Threads -> Call]
      BY <1>14, <2>3, <2>4, CallSteps DEF AttemptEnds
    <2>6. QED
      BY <1>14, <2>2, <2>5 DEF AttemptEnds, TypeOK
  <1>15. ASSUME NEW t \in Threads PROVE Left(call[t]) \in Call
    <2>1. ASSUME NEW l \in {"backoff", "done"}
          PROVE  [call[t] EXCEPT !.slot = None, !.recycle = FALSE, !.again = FALSE, !.pc = l]
                   \in Call
      BY CallTypes, Labels, EndUpdate
    <2>2. QED
      BY <2>1, CallTypes DEF Left, Released
  <1>16. ASSUME NEW t \in Threads, GiveBack(t) PROVE TypeOK'
    <2>1. "dispose" \in Label
      BY DEF Label
    <2>4. [call[t] EXCEPT !.pc = "dispose"] \in Call /\ Left(call[t]) \in Call
      BY <1>15, <2>1, CallTypes
    <2>5. /\ AndNotify(t, [call[t] EXCEPT !.pc = "dispose"]) \in [Threads -> Call]
          /\ AndNotify(t, Left(call[t])) \in [Threads -> Call]
      BY <2>4, CallSteps
    <2>2. call' \in [Threads -> Call]
      BY <1>16, <2>5 DEF GiveBack
    <2>3. QED
      BY <1>16, <2>2 DEF GiveBack, TypeOK
  <1>17. ASSUME NEW t \in Threads, Dispose(t) PROVE TypeOK'
    <2>1. slot' \in [Slots -> Slot]
      BY <1>17, MineTypes, SlotTypes DEF Dispose, CloseSlot, TypeOK
    <2>2. QED
      BY <1>15, <1>17, <2>1, CallSteps DEF Dispose, TypeOK
  <1>18. ASSUME NEW t \in Threads, BackoffEnds(t) PROVE TypeOK'
    <2>1. At(t, "backoff") => call[t].attempt + 1 \in 0 .. MaxAttempts
      BY CallTypes, PoolAssumption DEF ShapeOK, CallOK, At, Call, PoolAssumption
    <2>2. ASSUME NEW n \in 0 .. MaxAttempts
          PROVE  [call[t] EXCEPT !.pc = "acquire", !.attempt = n] \in Call
      BY CallTypes, Labels, AttemptUpdate
    <2>3. call' \in [Threads -> Call]
      BY <1>18, <2>1, <2>2, CallTypes, CallSteps DEF BackoffEnds
    <2>4. QED
      BY <1>18, <2>3 DEF BackoffEnds, TypeOK
  <1>19. ASSUME NEW t \in Threads, Deadline(t) PROVE TypeOK'
    <2>1. [call[t] EXCEPT !.late = TRUE] \in Call
      BY CallTypes, LateUpdate
    <2>2. QED
      BY <1>19, <1>f, <2>1, CallSteps DEF Deadline, TypeOK
  <1>20. ASSUME NEW S \in SUBSET Slots, Reap(S) PROVE TypeOK'
    <2>1. call' \in [Threads -> Call]
      BY <1>20, NotifyTypes DEF Reap, NotifyAll
    <2>2. QED
      BY <1>20, <2>1 DEF Reap, TypeOK
  <1>21. ASSUME Close PROVE TypeOK'
    <2>1. call' \in [Threads -> Call]
      BY <1>21, NotifyTypes DEF Close, NotifyAll
    <2>2. QED
      BY <1>21, <2>1 DEF Close, TypeOK
  <1>22. ASSUME NEW s \in Slots, CloseReaped(s) \/ CloseTaken(s) PROVE TypeOK'
    <2>1. slot' \in [Slots -> Slot]
      BY <1>22, SlotTypes DEF CloseReaped, CloseTaken, CloseSlot, TypeOK
    <2>2. QED
      BY <1>22, <2>1 DEF CloseReaped, CloseTaken, TypeOK
  <1>23. ASSUME NEW s \in Slots, WearsOut(s) PROVE TypeOK'
    <2>1. slot' \in [Slots -> Slot]
      BY <1>23, SlotTypes DEF WearsOut, TypeOK
    <2>2. QED
      BY <1>23, <1>f, <2>1 DEF WearsOut, TypeOK
  <1>24. ASSUME UNCHANGED vars PROVE TypeOK'
    BY <1>24 DEF vars, TypeOK
  <1>25. ASSUME NEW t \in Threads, Finish(t) \/ FailRebuild(t) PROVE TypeOK'
    BY <1>14, <1>25 DEF Finish, FailRebuild
  <1>26. ASSUME NEW t \in Threads, NEW r \in BOOLEAN, Retry(t, r) PROVE TypeOK'
    BY <1>14, <1>26 DEF Retry
  <1>27. ASSUME NEW t \in Threads, Progress(t) PROVE TypeOK'
    BY <1>2, <1>3, <1>4, <1>5, <1>6, <1>7, <1>8, <1>9, <1>10, <1>12, <1>13, <1>16,
       <1>17, <1>18, <1>25, <1>26, <1>27
       DEF Progress, Acquire, Start, Solve
  <1>28. QED
    BY <1>1, <1>19, <1>20, <1>21, <1>22, <1>23, <1>24, <1>27 DEF Next

----------------------------------------------------------------------------
(* Where the slots are.                                                    *)

\* What is known of the slot a call has, by where the call is.
HeldOK(t) ==
  /\ call[t].pc \in Holding => Mine(t) \notin reaping
  /\ call[t].pc \in {"retire", "start", "started"} => Mine(t) \notin table \cup closing
  /\ call[t].pc = "dispose" => Mine(t) \notin table
  /\ call[t].pc = "start" => ~slot[Mine(t)].live
  /\ call[t].pc = "started" => /\ slot[Mine(t)].live /\ slot[Mine(t)].tasks = 0
                               /\ slot[Mine(t)].kind = call[t].kind
  /\ call[t].pc \in Using =>
       closed \/ (Mine(t) \in busy /\ slot[Mine(t)].kind = call[t].kind)

DistinctOK == \A t, u \in Threads : Mine(t) = Mine(u) /\ Mine(t) # None => t = u

TablesOK ==
  /\ busy \subseteq table /\ table \cap reaping = {}
  /\ closed => table = {}
  /\ ~closed => closing = {}
  /\ \A s \in table : slot[s].live
  /\ \A s \in busy : \E t \in Threads : call[t].pc \in Using /\ Mine(t) = s

PlacesOK == /\ ShapeOK /\ DistinctOK /\ TablesOK /\ NoBrowserLost
            /\ \A t \in Threads : HeldOK(t)

\* Call t goes to l with slot s; the others keep all but woken.
Moves(t, l, s) ==
  /\ call'[t].pc = l /\ call'[t].slot = s
  /\ \A u \in Threads \ {t} :
       /\ call'[u].pc = call[u].pc /\ call'[u].slot = call[u].slot
       /\ call'[u].kind = call[u].kind
       /\ call'[u].again = call[u].again /\ call'[u].attempt = call[u].attempt

LEMMA BecomesMoves ==
  ASSUME TypeOK, NEW t \in Threads, NEW c, Becomes(t, c)
  PROVE  Moves(t, c.pc, c.slot) /\ call'[t] = c
  BY DEF TypeOK, Becomes, Moves

LEMMA WokenFields ==
  ASSUME TypeOK, NEW u \in Threads
  PROVE  /\ Woken(u).pc = call[u].pc /\ Woken(u).slot = call[u].slot
         /\ Woken(u).kind = call[u].kind
         /\ Woken(u).again = call[u].again /\ Woken(u).attempt = call[u].attempt
         /\ call[u].pc = "wait" => Woken(u).woken
  BY DEF TypeOK, Call, At, Woken

LEMMA NotifyMoves ==
  ASSUME TypeOK, NEW t \in Threads, NEW c, call' = AndNotify(t, c)
  PROVE  Moves(t, c.pc, c.slot) /\ call'[t] = c
  <1>1. call'[t] = c
    BY DEF AndNotify
  <1>2. \A u \in Threads \ {t} : call'[u] = Woken(u)
    BY DEF AndNotify
  <1>3. QED
    BY <1>1, <1>2, WokenFields DEF Moves

\* What the updates leave.
LEMMA Fields ==
  ASSUME NEW c \in Call, NEW l, NEW s, NEW a, NEW b
  PROVE  /\ [c EXCEPT !.pc = l].pc = l /\ [c EXCEPT !.pc = l].slot = c.slot
         /\ [c EXCEPT !.pc = l].kind = c.kind /\ [c EXCEPT !.pc = l].again = c.again
         /\ [c EXCEPT !.pc = l].attempt = c.attempt
         /\ [c EXCEPT !.pc = l, !.slot = s].pc = l /\ [c EXCEPT !.pc = l, !.slot = s].slot = s
         /\ [c EXCEPT !.pc = l, !.slot = s].kind = c.kind
         /\ [c EXCEPT !.pc = l, !.slot = s].again = c.again
         /\ [c EXCEPT !.pc = l, !.slot = s].attempt = c.attempt
         /\ [c EXCEPT !.pc = l, !.woken = a].pc = l
         /\ [c EXCEPT !.pc = l, !.woken = a].slot = c.slot
         /\ [c EXCEPT !.pc = l, !.woken = a].kind = c.kind
         /\ [c EXCEPT !.pc = l, !.woken = a].again = c.again
         /\ [c EXCEPT !.pc = l, !.woken = a].attempt = c.attempt
         /\ [c EXCEPT !.pc = l, !.again = a, !.recycle = b].pc = l
         /\ [c EXCEPT !.pc = l, !.again = a, !.recycle = b].slot = c.slot
         /\ [c EXCEPT !.pc = l, !.again = a, !.recycle = b].kind = c.kind
         /\ [c EXCEPT !.pc = l, !.again = a, !.recycle = b].again = a
         /\ [c EXCEPT !.pc = l, !.again = a, !.recycle = b].attempt = c.attempt
  BY DEF Call

\* Every call that is over.
LEMMA EndedFields == Ended.pc = "done" /\ Ended.slot = None /\ CallOK(Ended)
  BY DEF Ended, NotCalled, CallOK, Holding

\* A call without a slot goes on without one.
LEMMA QuietStep ==
  ASSUME TypeOK, PlacesOK, NEW t \in Threads, NEW l, Moves(t, l, None), CallOK(call[t])',
         call[t].pc \notin Holding, l \notin Holding,
         UNCHANGED <<table, busy, closed, slot, reaping, closing>>
  PROVE  PlacesOK'
  <1>1. Mine(t) = None
    BY DEF PlacesOK, ShapeOK, CallOK, Mine
  <1>2. ShapeOK'
    BY DEF PlacesOK, ShapeOK, CallOK, Moves
  <1>3. DistinctOK'
    BY <1>1 DEF PlacesOK, DistinctOK, Mine, Moves
  <1>4. TablesOK'
    BY <1>1 DEF PlacesOK, TablesOK, Mine, Moves, Using, Holding
  <1>5. NoBrowserLost'
    BY DEF PlacesOK, NoBrowserLost, Apart, Mine, Moves, Holding
  <1>6. \A u \in Threads : HeldOK(u)'
    BY DEF PlacesOK, HeldOK, Mine, Moves, Holding, Using
  <1>7. QED
    BY <1>2, <1>3, <1>4, <1>5, <1>6 DEF PlacesOK

\* Leaving the solve, for good or for another attempt.
LEMMA LeftFields ==
  ASSUME TypeOK, PlacesOK, NEW t \in Threads, call[t].pc \in {"give", "dispose"}
  PROVE  /\ Left(call[t]).pc \in {"backoff", "done"} /\ Left(call[t]).slot = None
         /\ CallOK(Left(call[t]))
  <1>1. CASE call[t].again
    <2> DEFINE c == Released(call[t])
    <2>1. /\ c.pc = "backoff" /\ c.slot = None /\ c.kind = call[t].kind
          /\ c.attempt = call[t].attempt
      BY <1>1, CallTypes DEF Released, Call
    <2>2. CallOK(call[t])
      BY DEF PlacesOK, ShapeOK
    <2>3. c.again = FALSE
      BY <1>1, CallTypes DEF Released, Call
    <2>4. Left(call[t]) = c
      BY <1>1 DEF Left
    <2>5. CallOK(c)
      BY <1>1, <2>1, <2>2, <2>3 DEF CallOK, Holding
    <2>6. QED
      BY <2>1, <2>4, <2>5
  <1>2. CASE ~call[t].again
    BY <1>2, EndedFields DEF Left
  <1>3. QED
    BY <1>1, <1>2

----------------------------------------------------------------------------
(* What each action does to the calls.                                     *)

\* The actions of a call that has no slot and gets none.
Quiet(t) ==
  \/ \E k \in Kinds : CallSolve(t, k)
  \/ AcquireRefused(t) \/ AcquireTimesOut(t)
  \/ WaitForSlot(t) \/ Wake(t) \/ BackoffEnds(t)

\* Call t moves and keeps its affinity and its attempts; or nothing moves.
Keeps(t, l, s) ==
  /\ Moves(t, l, s) /\ call'[t].kind = call[t].kind
  /\ call'[t].again = call[t].again /\ call'[t].attempt = call[t].attempt
Still == \A u \in Threads : Keeps(u, call[u].pc, call[u].slot)

LEMMA QuietMoves ==
  ASSUME TypeOK, PlacesOK, NEW t \in Threads, Quiet(t)
  PROVE  /\ call[t].pc \notin Holding
         /\ \E l \in {"acquire", "wait", "done"} : Moves(t, l, None) /\ CallOK(call[t])'
         /\ UNCHANGED <<table, busy, creating, closed, slot, reaping, closing>>
  <1> DEFINE Goal == /\ call[t].pc \notin Holding
                     /\ \E l \in {"acquire", "wait", "done"} :
                          Moves(t, l, None) /\ CallOK(call[t])'
  <1>0. CallOK(call[t])
    BY DEF PlacesOK, ShapeOK
  <1>1. ASSUME NEW k \in Kinds, CallSolve(t, k) PROVE Goal
    <2>1. CASE closed
      BY <1>1, <2>1, BecomesMoves, EndedFields DEF CallSolve, At, Holding
    <2>2. CASE ~closed
      <3> DEFINE c == [NotCalled EXCEPT !.pc = "acquire", !.kind = k, !.attempt = 1]
      <3>1. c.pc = "acquire" /\ c.slot = None /\ c.kind = k /\ ~c.again
        BY DEF NotCalled
      <3>2. Becomes(t, c) /\ call[t].pc \notin Holding
        BY <1>1, <2>2 DEF CallSolve, At, Holding
      <3>3. Moves(t, "acquire", None) /\ call'[t] = c
        BY <3>1, <3>2, BecomesMoves
      <3>4. QED
        BY <3>1, <3>2, <3>3 DEF CallOK, Holding
    <2>3. QED
      BY <2>1, <2>2
  <1>2. ASSUME AcquireRefused(t) \/ AcquireTimesOut(t) PROVE Goal
    BY <1>2, BecomesMoves, EndedFields
       DEF AcquireRefused, AcquireTimesOut, NothingFree, MayAcquire, At, Holding
  <1>3. ASSUME NEW l \in {"acquire", "wait"},
               Becomes(t, [call[t] EXCEPT !.pc = l, !.woken = FALSE]),
               call[t].pc \in {"acquire", "wait"}
        PROVE  Goal
    <2> DEFINE c == [call[t] EXCEPT !.pc = l, !.woken = FALSE]
    <2>1. /\ c.pc = l /\ c.slot = call[t].slot /\ c.kind = call[t].kind
          /\ c.again = call[t].again /\ c.attempt = call[t].attempt
      BY CallTypes, Fields
    <2>2. Moves(t, c.pc, c.slot) /\ call'[t] = c
      BY <1>3, BecomesMoves
    <2>3. call[t].slot = None /\ call[t].kind \in Kinds /\ ~call[t].again
      BY <1>0, <1>3 DEF CallOK, Holding
    <2>4. Moves(t, l, None) /\ call[t].pc \notin Holding
      BY <1>3, <2>1, <2>2, <2>3 DEF Holding
    <2>5. CallOK(call[t])'
      BY <2>1, <2>2, <2>3 DEF CallOK, Holding
    <2>6. QED
      BY <2>4, <2>5
  <1>4. ASSUME WaitForSlot(t) \/ Wake(t) PROVE Goal
    BY <1>3, <1>4 DEF WaitForSlot, Wake, NothingFree, MayAcquire, At
  <1>5. ASSUME BackoffEnds(t) PROVE Goal
    <2>1. CASE closed
      BY <1>5, <2>1, BecomesMoves, EndedFields DEF BackoffEnds, At, Holding
    <2>2. CASE ~closed
      <3> DEFINE c == [call[t] EXCEPT !.pc = "acquire", !.attempt = @ + 1]
      <3>1. /\ c.pc = "acquire" /\ c.slot = call[t].slot /\ c.kind = call[t].kind
            /\ c.again = call[t].again
        BY CallTypes DEF Call
      <3>2. Becomes(t, c)
        BY <1>5, <2>2 DEF BackoffEnds
      <3>3. call[t].slot = None /\ call[t].kind \in Kinds /\ ~call[t].again
        BY <1>0, <1>5 DEF BackoffEnds, At, CallOK, Holding
      <3>4. Moves(t, "acquire", None) /\ call'[t] = c
        BY <3>1, <3>2, <3>3, BecomesMoves
      <3>5. CallOK(c)
        BY <3>1, <3>3 DEF CallOK, Holding
      <3>6. QED
        BY <1>5, <3>4, <3>5 DEF BackoffEnds, At, Holding
    <2>3. QED
      BY <2>1, <2>2
  <1>6. UNCHANGED <<table, busy, creating, closed, slot, reaping, closing>>
    BY DEF Quiet, CallSolve, AcquireRefused, AcquireTimesOut, WaitForSlot, Wake, BackoffEnds
  <1>7. QED
    BY <1>1, <1>2, <1>4, <1>5, <1>6 DEF Quiet

LEMMA SlotMoves ==
  ASSUME TypeOK, NEW t \in Threads
  PROVE  /\ \A s \in Slots : Reuse(t, s) => Keeps(t, "solve", s)
         /\ \A s \in Slots : Retire(t, s) => Keeps(t, "retire", s)
         /\ \A s \in Slots : Create(t, s) => Keeps(t, "start", s)
         /\ CloseRetired(t) => Keeps(t, "acquire", None)
  <1>1. ASSUME NEW l, NEW s, Becomes(t, [call[t] EXCEPT !.pc = l, !.slot = s])
        PROVE  Keeps(t, l, s)
    <2> DEFINE c == [call[t] EXCEPT !.pc = l, !.slot = s]
    <2>1. /\ c.pc = l /\ c.slot = s /\ c.kind = call[t].kind
          /\ c.again = call[t].again /\ c.attempt = call[t].attempt
      BY CallTypes, Fields
    <2>2. Moves(t, c.pc, c.slot) /\ call'[t] = c
      BY <1>1, BecomesMoves
    <2>3. QED
      BY <2>1, <2>2 DEF Keeps
  <1>2. QED
    BY <1>1 DEF Reuse, Retire, Create, CloseRetired

LEMMA PlaceMoves ==
  ASSUME TypeOK, NEW t \in Threads
  PROVE  /\ StartSucceeds(t) => Keeps(t, "started", Mine(t))
         /\ Install(t) /\ ~closed => Keeps(t, "solve", Mine(t))
         /\ GiveBack(t) /\ call[t].recycle => Keeps(t, "dispose", Mine(t))
  <1>1. ASSUME NEW l, NEW c, c = [call[t] EXCEPT !.pc = l], Becomes(t, c) \/ call' = AndNotify(t, c)
        PROVE  Keeps(t, l, Mine(t))
    <2>1. /\ c.pc = l /\ c.slot = call[t].slot /\ c.kind = call[t].kind
          /\ c.again = call[t].again /\ c.attempt = call[t].attempt
      BY <1>1, CallTypes, Fields
    <2>2. Moves(t, c.pc, c.slot) /\ call'[t] = c
      BY <1>1, BecomesMoves, NotifyMoves
    <2>3. QED
      BY <2>1, <2>2 DEF Keeps, Mine
  <1>2. QED
    BY <1>1 DEF StartSucceeds, Install, GiveBack, Goto

LEMMA EndMoves ==
  ASSUME TypeOK, PlacesOK, NEW t \in Threads
  PROVE  /\ StartFails(t) \/ (Install(t) /\ closed) => Moves(t, "done", None) /\ CallOK(call[t])'
         /\ (GiveBack(t) /\ ~call[t].recycle) \/ Dispose(t) =>
              /\ \E l \in {"backoff", "done"} : Moves(t, l, None)
              /\ CallOK(call[t])'
  <1>1. StartFails(t) \/ (Install(t) /\ closed) => Moves(t, "done", None) /\ CallOK(call[t])'
    BY BecomesMoves, NotifyMoves, EndedFields DEF StartFails, Install
  <1>2. (GiveBack(t) /\ ~call[t].recycle) \/ Dispose(t) =>
          /\ \E l \in {"backoff", "done"} : Moves(t, l, None)
          /\ CallOK(call[t])'
    BY LeftFields, BecomesMoves, NotifyMoves DEF GiveBack, Dispose, At
  <1>3. QED
    BY <1>1, <1>2

LEMMA AttemptMoves ==
  ASSUME TypeOK, NEW t \in Threads, NEW r \in BOOLEAN, NEW a \in BOOLEAN, AttemptEnds(t, r, a)
  PROVE  /\ Moves(t, "give", Mine(t)) /\ call'[t].kind = call[t].kind
         /\ call'[t].again = a /\ call'[t].attempt = call[t].attempt
  <1> DEFINE c == [call[t] EXCEPT !.pc = "give", !.again = a,
                                  !.recycle = r \/ MustRecycle(Worked(slot[Mine(t)]))]
  <1>1. Becomes(t, c)
    BY DEF AttemptEnds
  <1>2. /\ c.pc = "give" /\ c.slot = call[t].slot /\ c.kind = call[t].kind
        /\ c.again = a /\ c.attempt = call[t].attempt
    BY CallTypes, Fields
  <1>3. Moves(t, c.pc, c.slot) /\ call'[t] = c
    BY <1>1, BecomesMoves
  <1>4. QED
    BY <1>2, <1>3 DEF Mine

LEMMA StillMoves ==
  ASSUME TypeOK,
         \/ \E t \in Threads : Deadline(t)
         \/ \E S \in SUBSET Slots : Reap(S)
         \/ \E s \in Slots : CloseReaped(s) \/ CloseTaken(s) \/ WearsOut(s)
         \/ Close
         \/ UNCHANGED vars
  PROVE  Still
  <1>1. ASSUME NEW t \in Threads, Deadline(t) PROVE Still
    <2> DEFINE c == [call[t] EXCEPT !.late = TRUE]
    <2>1. Becomes(t, c)
      BY <1>1 DEF Deadline
    <2>2. /\ c.pc = call[t].pc /\ c.slot = call[t].slot /\ c.kind = call[t].kind
          /\ c.again = call[t].again /\ c.attempt = call[t].attempt
      BY CallTypes DEF Call
    <2>3. Moves(t, c.pc, c.slot) /\ call'[t] = c
      BY <2>1, BecomesMoves
    <2>4. QED
      BY <2>2, <2>3 DEF Still, Keeps, Moves
  <1>2. ASSUME call' = NotifyAll PROVE Still
    BY <1>2, WokenFields DEF NotifyAll, Still, Keeps, Moves
  <1>3. ASSUME call' = call PROVE Still
    BY <1>3 DEF Still, Keeps, Moves
  <1>4. QED
    BY <1>1, <1>2, <1>3 DEF Reap, CloseReaped, CloseTaken, WearsOut, Close, vars

\* Every step is one of these.
LEMMA NextCases ==
  ASSUME [Next]_vars
  PROVE  \/ \E t \in Threads : Quiet(t)
         \/ \E t \in Threads, s \in Slots : Reuse(t, s) \/ Retire(t, s) \/ Create(t, s)
         \/ \E t \in Threads : CloseRetired(t) \/ StartSucceeds(t) \/ StartFails(t) \/ Install(t)
         \/ \E t \in Threads, r \in BOOLEAN, a \in BOOLEAN :
              AttemptEnds(t, r, a) /\ (a => call[t].attempt < MaxAttempts)
         \/ \E t \in Threads : GiveBack(t) \/ Dispose(t) \/ Deadline(t)
         \/ \E S \in SUBSET Slots : Reap(S)
         \/ \E s \in Slots : CloseReaped(s) \/ CloseTaken(s) \/ WearsOut(s)
         \/ Close
         \/ UNCHANGED vars
  BY DEF Next, Progress, Acquire, Start, Solve, Quiet, Finish, FailRebuild, Retry

LEMMA PlacesStep == TypeOK /\ PlacesOK /\ [Next]_vars => PlacesOK'
  <1> SUFFICES ASSUME TypeOK, PlacesOK, [Next]_vars PROVE PlacesOK'
    OBVIOUS
  <1>s. /\ table \subseteq Slots
        /\ \A u \in Threads : call[u].pc \in Holding => Mine(u) \in Slots
    BY MineTypes DEF TypeOK, PlacesOK
  <1>p. \A u \in Threads : CallOK(call[u])
    BY DEF PlacesOK, ShapeOK
  <1>1. ASSUME NEW t \in Threads, Quiet(t) PROVE PlacesOK'
    <2>1. \E l \in {"acquire", "wait", "done"} : Moves(t, l, None) /\ CallOK(call[t])'
      BY <1>1, QuietMoves
    <2>2. QED
      BY <1>1, <2>1, QuietMoves, QuietStep DEF Holding
  <1>2. ASSUME NEW t \in Threads, NEW s \in Slots, Reuse(t, s) PROVE PlacesOK'
    <2>1. s # None
      BY PoolAssumption DEF PoolAssumption
    <2>2. Keeps(t, "solve", s)
      BY <1>2, SlotMoves
    <2>3. CallOK(call[t])'
      BY <1>2, <2>2, <2>1, <1>p DEF Reuse, MayAcquire, At, CallOK, Holding, Moves, Keeps, Mine
    <2>4. ShapeOK'
      BY <2>2, <2>3 DEF PlacesOK, ShapeOK, CallOK, Moves, Keeps
    <2>5. DistinctOK'
      BY <1>2, <1>s, <2>2, <2>1
       DEF Reuse, MayAcquire, Matching, Idle, PlacesOK, HeldOK, TablesOK, DistinctOK,
           ShapeOK, CallOK, Mine, Moves, Keeps, Holding, Using, At
    <2>6. TablesOK'
      BY <1>2, <1>s, <2>2, <2>1
       DEF Reuse, MayAcquire, Matching, Idle, PlacesOK, HeldOK, TablesOK, DistinctOK,
           ShapeOK, CallOK, Mine, Moves, Keeps, Holding, Using, At
    <2>7. NoBrowserLost'
      BY <1>2, <1>s, <2>2, <2>1
       DEF Reuse, MayAcquire, Matching, Idle, PlacesOK, HeldOK, TablesOK, DistinctOK,
           ShapeOK, CallOK, Mine, Moves, Keeps, Holding, Using, At, NoBrowserLost, Apart
    <2>8. \A u \in Threads : HeldOK(u)'
      BY <1>2, <1>s, <2>2, <2>1
       DEF Reuse, MayAcquire, Matching, Idle, PlacesOK, HeldOK, TablesOK, DistinctOK,
           ShapeOK, CallOK, Mine, Moves, Keeps, Holding, Using, At
    <2>9. QED
      BY <2>4, <2>5, <2>6, <2>7, <2>8 DEF PlacesOK
  <1>3. ASSUME NEW t \in Threads, NEW s \in Slots, Retire(t, s) PROVE PlacesOK'
    <2>1. s # None
      BY PoolAssumption DEF PoolAssumption
    <2>2. Keeps(t, "retire", s)
      BY <1>3, SlotMoves
    <2>3. CallOK(call[t])'
      BY <1>3, <2>2, <2>1, <1>p DEF Retire, MayAcquire, At, CallOK, Holding, Moves, Keeps, Mine
    <2>4. ShapeOK'
      BY <2>2, <2>3 DEF PlacesOK, ShapeOK, CallOK, Moves, Keeps
    <2>5. DistinctOK'
      BY <1>3, <1>s, <2>2, <2>1
       DEF Retire, MayAcquire, Matching, Idle, PlacesOK, HeldOK, TablesOK, DistinctOK,
           ShapeOK, CallOK, Mine, Moves, Keeps, Holding, Using, At
    <2>6. TablesOK'
      BY <1>3, <1>s, <2>2, <2>1
       DEF Retire, MayAcquire, Matching, Idle, PlacesOK, HeldOK, TablesOK, DistinctOK,
           ShapeOK, CallOK, Mine, Moves, Keeps, Holding, Using, At
    <2>7. NoBrowserLost'
      BY <1>3, <1>s, <2>2, <2>1
       DEF Retire, MayAcquire, Matching, Idle, PlacesOK, HeldOK, TablesOK, DistinctOK,
           ShapeOK, CallOK, Mine, Moves, Keeps, Holding, Using, At, NoBrowserLost, Apart
    <2>8. \A u \in Threads : HeldOK(u)'
      BY <1>3, <1>s, <2>2, <2>1
       DEF Retire, MayAcquire, Matching, Idle, PlacesOK, HeldOK, TablesOK, DistinctOK,
           ShapeOK, CallOK, Mine, Moves, Keeps, Holding, Using, At
    <2>9. QED
      BY <2>4, <2>5, <2>6, <2>7, <2>8 DEF PlacesOK
  <1>4. ASSUME NEW t \in Threads, NEW s \in Slots, Create(t, s) PROVE PlacesOK'
    <2>1. s # None
      BY PoolAssumption DEF PoolAssumption
    <2>2. Keeps(t, "start", s)
      BY <1>4, SlotMoves
    <2>3. CallOK(call[t])'
      BY <1>4, <2>2, <2>1, <1>p DEF Create, MayAcquire, At, CallOK, Holding, Moves, Keeps, Mine
    <2>4. ShapeOK'
      BY <2>2, <2>3 DEF PlacesOK, ShapeOK, CallOK, Moves, Keeps
    <2>5. DistinctOK'
      BY <1>4, <1>s, <2>2, <2>1
       DEF Create, MayAcquire, Unreferenced, PlacesOK, HeldOK, TablesOK, DistinctOK,
           ShapeOK, CallOK, Mine, Moves, Keeps, Holding, Using, At
    <2>6. TablesOK'
      BY <1>4, <1>s, <2>2, <2>1
       DEF Create, MayAcquire, Unreferenced, PlacesOK, HeldOK, TablesOK, DistinctOK,
           ShapeOK, CallOK, Mine, Moves, Keeps, Holding, Using, At
    <2>7. NoBrowserLost'
      BY <1>4, <1>s, <2>2, <2>1
       DEF Create, MayAcquire, Unreferenced, PlacesOK, HeldOK, TablesOK, DistinctOK,
           ShapeOK, CallOK, Mine, Moves, Keeps, Holding, Using, At, NoBrowserLost, Apart
    <2>8. \A u \in Threads : HeldOK(u)'
      BY <1>4, <1>s, <2>2, <2>1
       DEF Create, MayAcquire, Unreferenced, PlacesOK, HeldOK, TablesOK, DistinctOK,
           ShapeOK, CallOK, Mine, Moves, Keeps, Holding, Using, At
    <2>9. QED
      BY <2>4, <2>5, <2>6, <2>7, <2>8 DEF PlacesOK
  <1>5. ASSUME NEW t \in Threads, CloseRetired(t) PROVE PlacesOK'
    <2>1. /\ slot'[Mine(t)] = Empty /\ ~Empty.live
          /\ \A r \in Slots : r # Mine(t) => slot'[r] = slot[r]
      BY <1>5, <1>s DEF CloseRetired, CloseSlot, TypeOK, Empty, At, Holding
    <2>2. Keeps(t, "acquire", None)
      BY <1>5, SlotMoves
    <2>3. CallOK(call[t])'
      BY <1>5, <2>2, <2>1, <1>p DEF CloseRetired, MayAcquire, At, CallOK, Holding, Moves, Keeps, Mine
    <2>4. ShapeOK'
      BY <2>2, <2>3 DEF PlacesOK, ShapeOK, CallOK, Moves, Keeps
    <2>5. DistinctOK'
      BY <1>5, <1>s, <2>2, <2>1
       DEF CloseRetired, PlacesOK, HeldOK, TablesOK, DistinctOK, ShapeOK, CallOK, Mine,
           Moves, Keeps, Holding, Using, At
    <2>6. TablesOK'
      BY <1>5, <1>s, <2>2, <2>1
       DEF CloseRetired, PlacesOK, HeldOK, TablesOK, DistinctOK, ShapeOK, CallOK, Mine,
           Moves, Keeps, Holding, Using, At
    <2>7. NoBrowserLost'
      BY <1>5, <1>s, <2>2, <2>1
       DEF CloseRetired, PlacesOK, HeldOK, TablesOK, DistinctOK, ShapeOK, CallOK, Mine,
           Moves, Keeps, Holding, Using, At, NoBrowserLost, Apart
    <2>8. \A u \in Threads : HeldOK(u)'
      BY <1>5, <1>s, <2>2, <2>1
       DEF CloseRetired, PlacesOK, HeldOK, TablesOK, DistinctOK, ShapeOK, CallOK, Mine,
           Moves, Keeps, Holding, Using, At
    <2>9. QED
      BY <2>4, <2>5, <2>6, <2>7, <2>8 DEF PlacesOK
  <1>6. ASSUME NEW t \in Threads, StartSucceeds(t) PROVE PlacesOK'
    <2>1. /\ slot'[Mine(t)].live /\ slot'[Mine(t)].tasks = 0 /\ slot'[Mine(t)].kind = call[t].kind
          /\ \A r \in Slots : r # Mine(t) => slot'[r] = slot[r]
      BY <1>6, <1>s DEF StartSucceeds, TypeOK, Empty, At, Holding
    <2>2. Keeps(t, "started", Mine(t))
      BY <1>6, PlaceMoves
    <2>3. CallOK(call[t])'
      BY <1>6, <2>2, <2>1, <1>p DEF StartSucceeds, MayAcquire, At, CallOK, Holding, Moves, Keeps, Mine
    <2>4. ShapeOK'
      BY <2>2, <2>3 DEF PlacesOK, ShapeOK, CallOK, Moves, Keeps
    <2>5. DistinctOK'
      BY <1>6, <1>s, <2>2, <2>1
       DEF StartSucceeds, PlacesOK, HeldOK, TablesOK, DistinctOK, ShapeOK, CallOK, Mine,
           Moves, Keeps, Holding, Using, At
    <2>6. TablesOK'
      BY <1>6, <1>s, <2>2, <2>1
       DEF StartSucceeds, PlacesOK, HeldOK, TablesOK, DistinctOK, ShapeOK, CallOK, Mine,
           Moves, Keeps, Holding, Using, At
    <2>7. NoBrowserLost'
      BY <1>6, <1>s, <2>2, <2>1
       DEF StartSucceeds, PlacesOK, HeldOK, TablesOK, DistinctOK, ShapeOK, CallOK, Mine,
           Moves, Keeps, Holding, Using, At, NoBrowserLost, Apart
    <2>8. \A u \in Threads : HeldOK(u)'
      BY <1>6, <1>s, <2>2, <2>1
       DEF StartSucceeds, PlacesOK, HeldOK, TablesOK, DistinctOK, ShapeOK, CallOK, Mine,
           Moves, Keeps, Holding, Using, At
    <2>9. QED
      BY <2>4, <2>5, <2>6, <2>7, <2>8 DEF PlacesOK
  <1>7. ASSUME NEW t \in Threads, StartFails(t) PROVE PlacesOK'
    <2>1. Moves(t, "done", None) /\ CallOK(call[t])'
      BY <1>7, EndMoves
    <2>2. CallOK(call[t])'
      BY <1>7, <2>1, EndMoves
    <2>3. ShapeOK'
      BY <2>1, <2>2 DEF PlacesOK, ShapeOK, CallOK, Moves, Keeps
    <2>4. DistinctOK'
      BY <1>7, <1>s, <2>1
       DEF StartFails, PlacesOK, HeldOK, TablesOK, DistinctOK, ShapeOK, CallOK, Mine,
           Moves, Keeps, Holding, Using, At
    <2>5. TablesOK'
      BY <1>7, <1>s, <2>1
       DEF StartFails, PlacesOK, HeldOK, TablesOK, DistinctOK, ShapeOK, CallOK, Mine,
           Moves, Keeps, Holding, Using, At
    <2>6. NoBrowserLost'
      BY <1>7, <1>s, <2>1
       DEF StartFails, PlacesOK, HeldOK, TablesOK, DistinctOK, ShapeOK, CallOK, Mine,
           Moves, Keeps, Holding, Using, At, NoBrowserLost, Apart
    <2>7. \A u \in Threads : HeldOK(u)'
      BY <1>7, <1>s, <2>1
       DEF StartFails, PlacesOK, HeldOK, TablesOK, DistinctOK, ShapeOK, CallOK, Mine,
           Moves, Keeps, Holding, Using, At
    <2>8. QED
      BY <2>3, <2>4, <2>5, <2>6, <2>7 DEF PlacesOK
  <1>8. ASSUME NEW t \in Threads, Install(t), closed PROVE PlacesOK'
    <2>1. /\ slot'[Mine(t)] = Empty /\ ~Empty.live
          /\ \A r \in Slots : r # Mine(t) => slot'[r] = slot[r]
      BY <1>8, <1>s DEF Install, CloseSlot, TypeOK, Empty, At, Holding
    <2>2. Moves(t, "done", None) /\ CallOK(call[t])'
      BY <1>8, EndMoves
    <2>3. CallOK(call[t])'
      BY <1>8, <2>2, <2>1, EndMoves
    <2>4. ShapeOK'
      BY <2>2, <2>3 DEF PlacesOK, ShapeOK, CallOK, Moves, Keeps
    <2>5. DistinctOK'
      BY <1>8, <1>s, <2>2, <2>1
       DEF Install, PlacesOK, HeldOK, TablesOK, DistinctOK, ShapeOK, CallOK, Mine, Moves,
           Keeps, Holding, Using, At
    <2>6. TablesOK'
      BY <1>8, <1>s, <2>2, <2>1
       DEF Install, PlacesOK, HeldOK, TablesOK, DistinctOK, ShapeOK, CallOK, Mine, Moves,
           Keeps, Holding, Using, At
    <2>7. NoBrowserLost'
      BY <1>8, <1>s, <2>2, <2>1
       DEF Install, PlacesOK, HeldOK, TablesOK, DistinctOK, ShapeOK, CallOK, Mine, Moves,
           Keeps, Holding, Using, At, NoBrowserLost, Apart
    <2>8. \A u \in Threads : HeldOK(u)'
      BY <1>8, <1>s, <2>2, <2>1
       DEF Install, PlacesOK, HeldOK, TablesOK, DistinctOK, ShapeOK, CallOK, Mine, Moves,
           Keeps, Holding, Using, At
    <2>9. QED
      BY <2>4, <2>5, <2>6, <2>7, <2>8 DEF PlacesOK
  <1>9. ASSUME NEW t \in Threads, Install(t), ~closed PROVE PlacesOK'
    <2>1. Keeps(t, "solve", Mine(t))
      BY <1>9, PlaceMoves
    <2>2. CallOK(call[t])'
      BY <1>9, <2>1, <1>p DEF Install, MayAcquire, At, CallOK, Holding, Moves, Keeps, Mine
    <2>3. ShapeOK'
      BY <2>1, <2>2 DEF PlacesOK, ShapeOK, CallOK, Moves, Keeps
    <2>4. DistinctOK'
      BY <1>9, <1>s, <2>1
       DEF Install, PlacesOK, HeldOK, TablesOK, DistinctOK, ShapeOK, CallOK, Mine, Moves,
           Keeps, Holding, Using, At
    <2>5. TablesOK'
      BY <1>9, <1>s, <2>1
       DEF Install, PlacesOK, HeldOK, TablesOK, DistinctOK, ShapeOK, CallOK, Mine, Moves,
           Keeps, Holding, Using, At
    <2>6. NoBrowserLost'
      BY <1>9, <1>s, <2>1
       DEF Install, PlacesOK, HeldOK, TablesOK, DistinctOK, ShapeOK, CallOK, Mine, Moves,
           Keeps, Holding, Using, At, NoBrowserLost, Apart
    <2>7. \A u \in Threads : HeldOK(u)'
      BY <1>9, <1>s, <2>1
       DEF Install, PlacesOK, HeldOK, TablesOK, DistinctOK, ShapeOK, CallOK, Mine, Moves,
           Keeps, Holding, Using, At
    <2>8. QED
      BY <2>3, <2>4, <2>5, <2>6, <2>7 DEF PlacesOK
  <1>10. ASSUME NEW t \in Threads, NEW r \in BOOLEAN, NEW a \in BOOLEAN, AttemptEnds(t, r, a),
                a => call[t].attempt < MaxAttempts PROVE PlacesOK'
    <2>1. /\ slot'[Mine(t)].live = slot[Mine(t)].live /\ slot'[Mine(t)].kind = slot[Mine(t)].kind
          /\ \A q \in Slots : q # Mine(t) => slot'[q] = slot[q]
      <3>1. Mine(t) \in Slots /\ slot[Mine(t)] \in Slot
        BY <1>10, <1>s, SlotTypes DEF AttemptEnds, At, Holding
      <3>2. /\ Worked(slot[Mine(t)]).live = slot[Mine(t)].live
            /\ Worked(slot[Mine(t)]).kind = slot[Mine(t)].kind
        BY <3>1 DEF Worked, Slot
      <3>3. slot' = [slot EXCEPT ![Mine(t)] = Worked(slot[Mine(t)])]
        BY <1>10 DEF AttemptEnds
      <3>4. QED
        BY <3>1, <3>2, <3>3 DEF TypeOK
    <2>2. /\ Moves(t, "give", Mine(t)) /\ call'[t].kind = call[t].kind
          /\ call'[t].again = a /\ call'[t].attempt = call[t].attempt
      BY <1>10, AttemptMoves
    <2>3. CallOK(call[t])'
      BY <1>10, <2>2, <2>1, <1>p DEF AttemptEnds, MayAcquire, At, CallOK, Holding, Moves, Keeps, Mine
    <2>4. ShapeOK'
      BY <2>2, <2>3 DEF PlacesOK, ShapeOK, CallOK, Moves, Keeps
    <2>5. DistinctOK'
      BY <1>10, <1>s, <2>2, <2>1
       DEF AttemptEnds, PlacesOK, HeldOK, TablesOK, DistinctOK, ShapeOK, CallOK, Mine,
           Moves, Keeps, Holding, Using, At
    <2>6. TablesOK'
      BY <1>10, <1>s, <2>2, <2>1
       DEF AttemptEnds, PlacesOK, HeldOK, TablesOK, DistinctOK, ShapeOK, CallOK, Mine,
           Moves, Keeps, Holding, Using, At
    <2>7. NoBrowserLost'
      BY <1>10, <1>s, <2>2, <2>1
       DEF AttemptEnds, PlacesOK, HeldOK, TablesOK, DistinctOK, ShapeOK, CallOK, Mine,
           Moves, Keeps, Holding, Using, At, NoBrowserLost, Apart
    <2>8. \A u \in Threads : HeldOK(u)'
      BY <1>10, <1>s, <2>2, <2>1
       DEF AttemptEnds, PlacesOK, HeldOK, TablesOK, DistinctOK, ShapeOK, CallOK, Mine,
           Moves, Keeps, Holding, Using, At
    <2>9. QED
      BY <2>4, <2>5, <2>6, <2>7, <2>8 DEF PlacesOK
  <1>11. ASSUME NEW t \in Threads, GiveBack(t), call[t].recycle PROVE PlacesOK'
    <2>1. Keeps(t, "dispose", Mine(t))
      BY <1>11, PlaceMoves
    <2>2. CallOK(call[t])'
      BY <1>11, <2>1, <1>p DEF GiveBack, MayAcquire, At, CallOK, Holding, Moves, Keeps, Mine
    <2>3. ShapeOK'
      BY <2>1, <2>2 DEF PlacesOK, ShapeOK, CallOK, Moves, Keeps
    <2>4. DistinctOK'
      BY <1>11, <1>s, <2>1
       DEF GiveBack, PlacesOK, HeldOK, TablesOK, DistinctOK, ShapeOK, CallOK, Mine, Moves,
           Keeps, Holding, Using, At
    <2>5. TablesOK'
      BY <1>11, <1>s, <2>1
       DEF GiveBack, PlacesOK, HeldOK, TablesOK, DistinctOK, ShapeOK, CallOK, Mine, Moves,
           Keeps, Holding, Using, At
    <2>6. NoBrowserLost'
      BY <1>11, <1>s, <2>1
       DEF GiveBack, PlacesOK, HeldOK, TablesOK, DistinctOK, ShapeOK, CallOK, Mine, Moves,
           Keeps, Holding, Using, At, NoBrowserLost, Apart
    <2>7. \A u \in Threads : HeldOK(u)'
      BY <1>11, <1>s, <2>1
       DEF GiveBack, PlacesOK, HeldOK, TablesOK, DistinctOK, ShapeOK, CallOK, Mine, Moves,
           Keeps, Holding, Using, At
    <2>8. QED
      BY <2>3, <2>4, <2>5, <2>6, <2>7 DEF PlacesOK
  <1>12. ASSUME NEW t \in Threads, GiveBack(t), ~call[t].recycle PROVE PlacesOK'
    <2>1. (\E l \in {"backoff", "done"} : Moves(t, l, None)) /\ CallOK(call[t])'
      BY <1>12, EndMoves
    <2>2. CallOK(call[t])'
      BY <1>12, <2>1, EndMoves
    <2>3. ShapeOK'
      BY <2>1, <2>2 DEF PlacesOK, ShapeOK, CallOK, Moves, Keeps
    <2>4. DistinctOK'
      BY <1>12, <1>s, <2>1
       DEF GiveBack, PlacesOK, HeldOK, TablesOK, DistinctOK, ShapeOK, CallOK, Mine, Moves,
           Keeps, Holding, Using, At
    <2>5. TablesOK'
      BY <1>12, <1>s, <2>1
       DEF GiveBack, PlacesOK, HeldOK, TablesOK, DistinctOK, ShapeOK, CallOK, Mine, Moves,
           Keeps, Holding, Using, At
    <2>6. NoBrowserLost'
      BY <1>12, <1>s, <2>1
       DEF GiveBack, PlacesOK, HeldOK, TablesOK, DistinctOK, ShapeOK, CallOK, Mine, Moves,
           Keeps, Holding, Using, At, NoBrowserLost, Apart
    <2>7. \A u \in Threads : HeldOK(u)'
      BY <1>12, <1>s, <2>1
       DEF GiveBack, PlacesOK, HeldOK, TablesOK, DistinctOK, ShapeOK, CallOK, Mine, Moves,
           Keeps, Holding, Using, At
    <2>8. QED
      BY <2>3, <2>4, <2>5, <2>6, <2>7 DEF PlacesOK
  <1>13. ASSUME NEW t \in Threads, Dispose(t) PROVE PlacesOK'
    <2>1. /\ slot'[Mine(t)] = Empty /\ ~Empty.live
          /\ \A r \in Slots : r # Mine(t) => slot'[r] = slot[r]
      BY <1>13, <1>s DEF Dispose, CloseSlot, TypeOK, Empty, At, Holding
    <2>2. (\E l \in {"backoff", "done"} : Moves(t, l, None)) /\ CallOK(call[t])'
      BY <1>13, EndMoves
    <2>3. CallOK(call[t])'
      BY <1>13, <2>2, <2>1, EndMoves
    <2>4. ShapeOK'
      BY <2>2, <2>3 DEF PlacesOK, ShapeOK, CallOK, Moves, Keeps
    <2>5. DistinctOK'
      BY <1>13, <1>s, <2>2, <2>1
       DEF Dispose, PlacesOK, HeldOK, TablesOK, DistinctOK, ShapeOK, CallOK, Mine, Moves,
           Keeps, Holding, Using, At
    <2>6. TablesOK'
      BY <1>13, <1>s, <2>2, <2>1
       DEF Dispose, PlacesOK, HeldOK, TablesOK, DistinctOK, ShapeOK, CallOK, Mine, Moves,
           Keeps, Holding, Using, At
    <2>7. NoBrowserLost'
      BY <1>13, <1>s, <2>2, <2>1
       DEF Dispose, PlacesOK, HeldOK, TablesOK, DistinctOK, ShapeOK, CallOK, Mine, Moves,
           Keeps, Holding, Using, At, NoBrowserLost, Apart
    <2>8. \A u \in Threads : HeldOK(u)'
      BY <1>13, <1>s, <2>2, <2>1
       DEF Dispose, PlacesOK, HeldOK, TablesOK, DistinctOK, ShapeOK, CallOK, Mine, Moves,
           Keeps, Holding, Using, At
    <2>9. QED
      BY <2>4, <2>5, <2>6, <2>7, <2>8 DEF PlacesOK
  <1>14. ASSUME NEW t \in Threads, Deadline(t) PROVE PlacesOK'
    <2>1. Still
      BY <1>14, StillMoves
    <2>2. ShapeOK'
      BY <2>1
       DEF PlacesOK, ShapeOK, CallOK, Still, Keeps, Moves
    <2>3. DistinctOK'
      BY <2>1
       DEF PlacesOK, DistinctOK, Mine, Still, Keeps, Moves
    <2>4. TablesOK'
      BY <1>14, <1>s, <2>1
       DEF Deadline, PlacesOK, TablesOK, Idle, Mine, Using, Still, Keeps, Moves
    <2>5. NoBrowserLost'
      BY <1>14, <1>s, <2>1
       DEF Deadline, PlacesOK, NoBrowserLost, TablesOK, Apart, Mine, Still, Keeps, Moves
    <2>6. \A u \in Threads : HeldOK(u)'
      BY <1>14, <1>s, <2>1
       DEF Deadline, PlacesOK, HeldOK, TablesOK, Idle, Mine, Holding, Using, Still, Keeps, Moves
    <2>7. QED
      BY <2>2, <2>3, <2>4, <2>5, <2>6 DEF PlacesOK
  <1>15. ASSUME NEW S \in SUBSET Slots, Reap(S) PROVE PlacesOK'
    <2>1. Still
      BY <1>15, StillMoves
    <2>2. ShapeOK'
      BY <2>1
       DEF PlacesOK, ShapeOK, CallOK, Still, Keeps, Moves
    <2>3. DistinctOK'
      BY <2>1
       DEF PlacesOK, DistinctOK, Mine, Still, Keeps, Moves
    <2>4. TablesOK'
      BY <1>15, <1>s, <2>1
       DEF Reap, PlacesOK, TablesOK, Idle, Mine, Using, Still, Keeps, Moves
    <2>5. NoBrowserLost'
      BY <1>15, <1>s, <2>1
       DEF Reap, PlacesOK, NoBrowserLost, TablesOK, Apart, Mine, Still, Keeps, Moves
    <2>6. \A u \in Threads : HeldOK(u)'
      BY <1>15, <1>s, <2>1
       DEF Reap, PlacesOK, HeldOK, TablesOK, Idle, Mine, Holding, Using, Still, Keeps, Moves
    <2>7. QED
      BY <2>2, <2>3, <2>4, <2>5, <2>6 DEF PlacesOK
  <1>16. ASSUME NEW s \in Slots, CloseReaped(s) PROVE PlacesOK'
    <2>1. /\ slot'[s] = Empty /\ ~Empty.live
          /\ \A r \in Slots : r # s => slot'[r] = slot[r]
      BY <1>16 DEF CloseReaped, CloseSlot, TypeOK, Empty
    <2>2. Still
      BY <1>16, StillMoves
    <2>3. ShapeOK'
      BY <2>2
       DEF PlacesOK, ShapeOK, CallOK, Still, Keeps, Moves
    <2>4. DistinctOK'
      BY <2>2
       DEF PlacesOK, DistinctOK, Mine, Still, Keeps, Moves
    <2>5. TablesOK'
      BY <1>16, <1>s, <2>2, <2>1
       DEF CloseReaped, PlacesOK, TablesOK, Idle, Mine, Using, Still, Keeps, Moves
    <2>6. NoBrowserLost'
      BY <1>16, <1>s, <2>2, <2>1
       DEF CloseReaped, PlacesOK, NoBrowserLost, TablesOK, Apart, Mine, Still, Keeps, Moves
    <2>7. \A u \in Threads : HeldOK(u)'
      BY <1>16, <1>s, <2>2, <2>1
       DEF CloseReaped, PlacesOK, HeldOK, TablesOK, Idle, Mine, Holding, Using, Still, Keeps, Moves
    <2>8. QED
      BY <2>3, <2>4, <2>5, <2>6, <2>7 DEF PlacesOK
  <1>17. ASSUME NEW s \in Slots, CloseTaken(s) PROVE PlacesOK'
    <2>1. /\ slot'[s] = Empty /\ ~Empty.live
          /\ \A r \in Slots : r # s => slot'[r] = slot[r]
      BY <1>17 DEF CloseTaken, CloseSlot, TypeOK, Empty
    <2>2. Still
      BY <1>17, StillMoves
    <2>3. ShapeOK'
      BY <2>2
       DEF PlacesOK, ShapeOK, CallOK, Still, Keeps, Moves
    <2>4. DistinctOK'
      BY <2>2
       DEF PlacesOK, DistinctOK, Mine, Still, Keeps, Moves
    <2>5. TablesOK'
      BY <1>17, <1>s, <2>2, <2>1
       DEF CloseTaken, PlacesOK, TablesOK, Idle, Mine, Using, Still, Keeps, Moves
    <2>6. NoBrowserLost'
      BY <1>17, <1>s, <2>2, <2>1
       DEF CloseTaken, PlacesOK, NoBrowserLost, TablesOK, Apart, Mine, Still, Keeps, Moves
    <2>7. \A u \in Threads : HeldOK(u)'
      BY <1>17, <1>s, <2>2, <2>1
       DEF CloseTaken, PlacesOK, HeldOK, TablesOK, Idle, Mine, Holding, Using, Still, Keeps, Moves
    <2>8. QED
      BY <2>3, <2>4, <2>5, <2>6, <2>7 DEF PlacesOK
  <1>18. ASSUME NEW s \in Slots, WearsOut(s) PROVE PlacesOK'
    <2>1. /\ slot'[s].live = slot[s].live /\ slot'[s].kind = slot[s].kind
          /\ slot'[s].tasks = slot[s].tasks /\ \A r \in Slots : r # s => slot'[r] = slot[r]
      BY <1>18, SlotTypes DEF WearsOut, Slot, TypeOK
    <2>2. Still
      BY <1>18, StillMoves
    <2>3. ShapeOK'
      BY <2>2
       DEF PlacesOK, ShapeOK, CallOK, Still, Keeps, Moves
    <2>4. DistinctOK'
      BY <2>2
       DEF PlacesOK, DistinctOK, Mine, Still, Keeps, Moves
    <2>5. TablesOK'
      BY <1>18, <1>s, <2>2, <2>1
       DEF WearsOut, PlacesOK, TablesOK, Idle, Mine, Using, Still, Keeps, Moves
    <2>6. NoBrowserLost'
      BY <1>18, <1>s, <2>2, <2>1
       DEF WearsOut, PlacesOK, NoBrowserLost, TablesOK, Apart, Mine, Still, Keeps, Moves
    <2>7. \A u \in Threads : HeldOK(u)'
      BY <1>18, <1>s, <2>2, <2>1
       DEF WearsOut, PlacesOK, HeldOK, TablesOK, Idle, Mine, Holding, Using, Still, Keeps, Moves
    <2>8. QED
      BY <2>3, <2>4, <2>5, <2>6, <2>7 DEF PlacesOK
  <1>19. ASSUME Close PROVE PlacesOK'
    <2>1. Still
      BY <1>19, StillMoves
    <2>2. ShapeOK'
      BY <2>1
       DEF PlacesOK, ShapeOK, CallOK, Still, Keeps, Moves
    <2>3. DistinctOK'
      BY <2>1
       DEF PlacesOK, DistinctOK, Mine, Still, Keeps, Moves
    <2>4. TablesOK'
      BY <1>19, <1>s, <2>1
       DEF Close, PlacesOK, TablesOK, Idle, Mine, Using, Still, Keeps, Moves
    <2>5. NoBrowserLost'
      BY <1>19, <1>s, <2>1
       DEF Close, PlacesOK, NoBrowserLost, TablesOK, Apart, Mine, Still, Keeps, Moves
    <2>6. \A u \in Threads : HeldOK(u)'
      BY <1>19, <1>s, <2>1
       DEF Close, PlacesOK, HeldOK, TablesOK, Idle, Mine, Holding, Using, Still, Keeps, Moves
    <2>7. QED
      BY <2>2, <2>3, <2>4, <2>5, <2>6 DEF PlacesOK
  <1>20. ASSUME UNCHANGED vars PROVE PlacesOK'
    BY <1>20
       DEF vars, PlacesOK, ShapeOK, CallOK, DistinctOK, TablesOK, NoBrowserLost, HeldOK, Mine
  <1>21. ASSUME NEW t \in Threads, Install(t) \/ GiveBack(t) PROVE PlacesOK'
    BY <1>8, <1>9, <1>11, <1>12, <1>21
  <1>22. QED
    BY <1>1, <1>2, <1>3, <1>4, <1>5, <1>6, <1>7, <1>10, <1>13, <1>14, <1>15, <1>16,
       <1>17, <1>18, <1>19, <1>20, <1>21, NextCases

----------------------------------------------------------------------------
(* Counting.                                                               *)

Starting == {t \in Threads : call[t].pc \in {"start", "started"}}

LEMMA StartingMoves ==
  ASSUME TypeOK, NEW t \in Threads, NEW l, NEW s, Moves(t, l, s)
  PROVE  Starting' = IF l \in {"start", "started"} THEN Starting \cup {t} ELSE Starting \ {t}
  BY DEF Moves, Starting

LEMMA Sizes ==
  ASSUME TypeOK
  PROVE  /\ IsFiniteSet(Starting) /\ Cardinality(Starting) \in Nat
         /\ IsFiniteSet(table) /\ Cardinality(table) \in Nat
  BY FS_Subset, FS_CardinalityType, PoolAssumption DEF TypeOK, Starting, PoolAssumption

\* A step that starts nothing and takes nothing in keeps the capacity.
LEMMA SmallerStep ==
  ASSUME TypeOK, CapacityKept, Starting' = Starting, creating' = creating,
         table' \subseteq table, closed => closed', closed' => table' = {}, closed' \in BOOLEAN
  PROVE  CapacityKept'
  <1>1. Cardinality(table') <= Cardinality(table) /\ Cardinality(table') \in Nat
    BY Sizes, FS_Subset, FS_CardinalityType
  <1>2. (IF closed' THEN 0 ELSE creating') <= (IF closed THEN 0 ELSE creating)
    BY DEF TypeOK
  <1>3. Cardinality(table') + (IF closed' THEN 0 ELSE creating') <= MaxConcurrency
    BY <1>1, <1>2, Sizes, PoolAssumption DEF TypeOK, CapacityKept, PoolAssumption
  <1>4. creating' = Cardinality(Starting')
    BY DEF CapacityKept, Starting
  <1>5. QED
    BY <1>3, <1>4 DEF CapacityKept, Starting

LEMMA CapacityStep ==
  TypeOK /\ PlacesOK /\ CapacityKept /\ [Next]_vars => CapacityKept'
  <1> SUFFICES ASSUME TypeOK, PlacesOK, CapacityKept, [Next]_vars PROVE CapacityKept'
    OBVIOUS
  <1>c. closed => table = {}
    BY DEF CapacityKept
  <1>n. creating = Cardinality(Starting)
    BY DEF CapacityKept, Starting
  <1>t. creating \in Nat /\ closed \in BOOLEAN /\ MaxConcurrency \in Nat
    BY PoolAssumption DEF TypeOK, PoolAssumption
  <1>1. ASSUME NEW t \in Threads, Quiet(t) PROVE CapacityKept'
    <2>1. Starting' = Starting
      BY <1>1, QuietMoves, StartingMoves DEF Starting, Holding
    <2>2. QED
      BY <1>1, <1>c, <1>t, <2>1, QuietMoves, SmallerStep
  <1>2. ASSUME NEW t \in Threads, NEW s \in Slots, Reuse(t, s) \/ Retire(t, s)
        PROVE  CapacityKept'
    <2>1. \E l \in {"solve", "retire"} : Moves(t, l, s)
      BY <1>2, SlotMoves DEF Keeps
    <2>2. t \notin Starting
      BY <1>2 DEF Starting, Reuse, Retire, MayAcquire, At
    <2>3. Starting' = Starting
      BY <2>1, <2>2, StartingMoves
    <2>4. QED
      BY <1>2, <1>c, <1>t, <2>3, SmallerStep DEF Reuse, Retire
  <1>3. ASSUME NEW t \in Threads, NEW s \in Slots, Create(t, s) PROVE CapacityKept'
    <2>1. Starting' = Starting \cup {t} /\ t \notin Starting
      BY <1>3, SlotMoves, StartingMoves DEF Keeps, Starting, Create, MayAcquire, At
    <2>2. Cardinality(Starting') = creating + 1
      BY <1>n, <2>1, Sizes, FS_AddElement
    <2>3. creating' = creating + 1 /\ table' = table /\ closed' = closed /\ ~closed
      BY <1>3 DEF Create, MayAcquire
    <2>4. Cardinality(table) + (creating + 1) <= MaxConcurrency
      BY <1>3, <1>t, Sizes DEF Create, Room
    <2>5. QED
      BY <1>c, <2>2, <2>3, <2>4 DEF CapacityKept, Starting
  <1>4. ASSUME NEW t \in Threads, CloseRetired(t) \/ GiveBack(t) \/ Dispose(t)
        PROVE  CapacityKept'
    <2>1. CASE CloseRetired(t)
      <3>1. Moves(t, "acquire", None)
        BY <2>1, SlotMoves DEF Keeps
      <3>2. Starting' = Starting
        BY <2>1, <3>1, StartingMoves DEF Starting, CloseRetired, At
      <3>3. QED
        BY <1>c, <1>t, <2>1, <3>2, SmallerStep DEF CloseRetired
    <2>2. CASE GiveBack(t) \/ Dispose(t)
      <3>1. \E l, s : Moves(t, l, s) /\ l \in {"dispose", "backoff", "done"}
        BY <2>2, PlaceMoves, EndMoves DEF Keeps
      <3>2. Starting' = Starting
        BY <2>2, <3>1, StartingMoves DEF Starting, GiveBack, Dispose, At
      <3>3. QED
        BY <1>c, <1>t, <2>2, <3>2, SmallerStep DEF GiveBack, Dispose
    <2>3. QED
      BY <1>4, <2>1, <2>2
  <1>5. ASSUME NEW t \in Threads, StartSucceeds(t) PROVE CapacityKept'
    <2>1. Starting' = Starting
      BY <1>5, PlaceMoves, StartingMoves DEF Keeps, Starting, StartSucceeds, At
    <2>2. QED
      BY <1>5, <1>c, <1>t, <2>1, SmallerStep DEF StartSucceeds
  <1>6. ASSUME NEW t \in Threads, StartFails(t) \/ Install(t)
        PROVE  /\ creating' = Cardinality(Starting') /\ creating' = creating - 1
               /\ creating' \in Nat
    <2>1. \E l, s : Moves(t, l, s) /\ l \notin {"start", "started"}
      BY <1>6, PlaceMoves, EndMoves DEF Keeps
    <2>2. Starting' = Starting \ {t} /\ t \in Starting
      BY <1>6, <2>1, StartingMoves DEF Starting, StartFails, Install, At
    <2>3. Cardinality(Starting') = creating - 1
      BY <1>n, <2>2, Sizes, FS_RemoveElement
    <2>4. IsFiniteSet(Starting')
      BY <2>2, Sizes, FS_RemoveElement
    <2>5. QED
      BY <1>6, <2>3, <2>4, FS_CardinalityType DEF StartFails, Install
  <1>7. ASSUME NEW t \in Threads, StartFails(t) \/ (Install(t) /\ closed) PROVE CapacityKept'
    <2>1. table' = table /\ closed' = closed
      BY <1>7 DEF StartFails, Install
    <2>2. (IF closed' THEN 0 ELSE creating') <= (IF closed THEN 0 ELSE creating)
      BY <1>6, <1>7, <1>t, <2>1
    <2>3. Cardinality(table') + (IF closed' THEN 0 ELSE creating') <= MaxConcurrency
      BY <1>6, <1>7, <1>t, <2>1, <2>2, Sizes DEF CapacityKept
    <2>4. QED
      BY <1>6, <1>7, <1>c, <2>1, <2>3 DEF CapacityKept, Starting
  <1>8. ASSUME NEW t \in Threads, Install(t), ~closed PROVE CapacityKept'
    <2>1. Mine(t) \notin table
      BY <1>8 DEF Install, At, PlacesOK, HeldOK
    <2>2. table' = table \cup {Mine(t)} /\ closed' = closed
      BY <1>8 DEF Install
    <2>3. Cardinality(table') = Cardinality(table) + 1
      BY <2>1, <2>2, Sizes, FS_AddElement
    <2>4. Cardinality(table') + creating' <= MaxConcurrency
      <3>1. creating' = creating - 1
        BY <1>6, <1>8
      <3>2. Cardinality(table) + creating <= MaxConcurrency
        BY <1>8 DEF CapacityKept
      <3>3. QED
        BY <1>t, <2>3, <3>1, <3>2, Sizes
    <2>5. QED
      BY <1>6, <1>8, <2>2, <2>4 DEF CapacityKept, Starting
  <1>9. ASSUME NEW t \in Threads, NEW r \in BOOLEAN, NEW a \in BOOLEAN, AttemptEnds(t, r, a)
        PROVE  CapacityKept'
    <2>1. Moves(t, "give", Mine(t)) /\ t \notin Starting
      BY <1>9, AttemptMoves DEF Starting, AttemptEnds, At
    <2>2. Starting' = Starting
      BY <2>1, StartingMoves
    <2>3. QED
      BY <1>9, <1>c, <1>t, <2>2, SmallerStep DEF AttemptEnds
  <1>10. ASSUME Still, UNCHANGED <<creating, closed>>, table' \subseteq table PROVE CapacityKept'
    <2>1. Starting' = Starting
      BY <1>10 DEF Starting, Still, Keeps, Moves
    <2>2. QED
      BY <1>10, <1>c, <1>t, <2>1, SmallerStep
  <1>11. ASSUME Close PROVE CapacityKept'
    <2>1. Starting' = Starting
      BY <1>11, StillMoves DEF Starting, Still, Keeps, Moves
    <2>2. QED
      BY <1>11, <2>1, SmallerStep DEF Close
  <1>12. ASSUME NEW t \in Threads, Deadline(t) PROVE CapacityKept'
    BY <1>10, <1>12, StillMoves DEF Deadline
  <1>13. ASSUME NEW S \in SUBSET Slots, Reap(S) PROVE CapacityKept'
    BY <1>10, <1>13, StillMoves DEF Reap
  <1>14. ASSUME NEW s \in Slots, CloseReaped(s) \/ CloseTaken(s) \/ WearsOut(s)
         PROVE  CapacityKept'
    BY <1>10, <1>14, StillMoves DEF CloseReaped, CloseTaken, WearsOut
  <1>15. ASSUME UNCHANGED vars PROVE CapacityKept'
    BY <1>10, <1>15, StillMoves DEF vars
  <1>16. QED
    BY <1>1, <1>2, <1>3, <1>4, <1>5, <1>7, <1>8, <1>9, <1>11, <1>12, <1>13, <1>14, <1>15,
       NextCases

----------------------------------------------------------------------------
(* Tasks.                                                                  *)

\* The browsers of the other calls keep their tasks, or are gone.
LEMMA TaskFrame ==
  ASSUME PlacesOK, WithinTaskLimit, NEW t \in Threads,
         \A u \in Threads \ {t} : At(u, "solve")' => At(u, "solve") /\ Mine(u)' = Mine(u),
         \A u \in Threads \ {t} : At(u, "solve") =>
           \/ slot'[Mine(u)] = slot[Mine(u)]
           \/ ~slot'[Mine(u)].live,
         At(t, "solve")' /\ slot'[Mine(t)'].live => slot'[Mine(t)'].tasks < MaxTasks
  PROVE  WithinTaskLimit'
  BY DEF WithinTaskLimit, At, Mine

LEMMA TaskStep ==
  TypeOK /\ PlacesOK /\ WithinTaskLimit /\ [Next]_vars => WithinTaskLimit'
  <1> SUFFICES ASSUME TypeOK, PlacesOK, WithinTaskLimit, [Next]_vars PROVE WithinTaskLimit'
    OBVIOUS
  <1>s. \A u \in Threads : At(u, "solve") => Mine(u) \in Slots
    BY MineTypes DEF PlacesOK, At, Holding
  <1>d. \A t, u \in Threads : At(u, "solve") /\ Mine(t) = Mine(u) => t = u
    BY PoolAssumption, <1>s DEF PlacesOK, DistinctOK, PoolAssumption
  <1>1. ASSUME NEW t \in Threads, NEW l, NEW s, Moves(t, l, s), l # "solve",
               UNCHANGED slot \/ (\E b : slot' = [slot EXCEPT ![Mine(t)] = b])
        PROVE  WithinTaskLimit'
    <2>1. \A u \in Threads \ {t} : At(u, "solve") => slot'[Mine(u)] = slot[Mine(u)]
      BY <1>1, <1>s, <1>d DEF TypeOK
    <2>2. QED
      BY <1>1, <2>1, TaskFrame DEF Moves, At, Mine
  <1>2. ASSUME NEW t \in Threads, Quiet(t) PROVE WithinTaskLimit'
    BY <1>1, <1>2, QuietMoves
  <1>3. ASSUME NEW t \in Threads, NEW s \in Slots, Reuse(t, s) PROVE WithinTaskLimit'
    <2>1. Moves(t, "solve", s) /\ slot' = slot
      BY <1>3, SlotMoves DEF Keeps, Reuse
    <2>2. slot[s].live => slot[s].tasks < MaxTasks
      <3>1. slot[s] \in Slot
        BY SlotTypes
      <3>2. slot[s].tasks \in 0 .. MaxTasks
        BY <3>1 DEF Slot
      <3>3. ~(slot[s].tasks >= MaxTasks)
        BY <1>3 DEF Reuse, MustRecycle
      <3>4. QED
        BY <3>2, <3>3, PoolAssumption DEF PoolAssumption
    <2>3. QED
      BY <2>1, <2>2, TaskFrame DEF Moves, At, Mine
  <1>4. ASSUME NEW t \in Threads, NEW s \in Slots, Retire(t, s) \/ Create(t, s)
        PROVE  WithinTaskLimit'
    <2>1. \E l \in {"retire", "start"} : Moves(t, l, s)
      BY <1>4, SlotMoves DEF Keeps
    <2>2. QED
      BY <1>1, <1>4, <2>1 DEF Retire, Create
  <1>5. ASSUME NEW t \in Threads,
               \/ CloseRetired(t) \/ StartSucceeds(t) \/ StartFails(t)
               \/ (Install(t) /\ closed) \/ GiveBack(t) \/ Dispose(t)
        PROVE  WithinTaskLimit'
    <2>1. \E l, s : Moves(t, l, s) /\ l # "solve"
      BY <1>5, SlotMoves, PlaceMoves, EndMoves DEF Keeps
    <2>2. UNCHANGED slot \/ (\E b : slot' = [slot EXCEPT ![Mine(t)] = b])
      BY <1>5 DEF CloseRetired, StartSucceeds, StartFails, Install, GiveBack, Dispose, CloseSlot
    <2>3. QED
      BY <1>1, <2>1, <2>2
  <1>6. ASSUME NEW t \in Threads, Install(t), ~closed PROVE WithinTaskLimit'
    <2>1. Moves(t, "solve", Mine(t)) /\ slot' = slot
      BY <1>6, PlaceMoves DEF Keeps, Install
    <2>2. slot[Mine(t)].tasks < MaxTasks
      BY <1>6, PoolAssumption DEF Install, At, PlacesOK, HeldOK, PoolAssumption
    <2>3. QED
      BY <2>1, <2>2, TaskFrame DEF Moves, At, Mine
  <1>7. ASSUME NEW t \in Threads, NEW r \in BOOLEAN, NEW a \in BOOLEAN, AttemptEnds(t, r, a)
        PROVE  WithinTaskLimit'
    <2>1. Moves(t, "give", Mine(t))
      BY <1>7, AttemptMoves
    <2>2. slot' = [slot EXCEPT ![Mine(t)] = Worked(slot[Mine(t)])]
      BY <1>7 DEF AttemptEnds
    <2>3. QED
      BY <1>1, <2>1, <2>2
  <1>8. ASSUME Still,
               \A s \in Slots : ~slot'[s].live \/ slot'[s].tasks = slot[s].tasks,
               \A s \in Slots : slot'[s].live => slot[s].live
        PROVE  WithinTaskLimit'
    BY <1>8, <1>s DEF WithinTaskLimit, Still, Keeps, Moves, At, Mine
  <1>9. ASSUME NEW s \in Slots, CloseReaped(s) \/ CloseTaken(s) PROVE WithinTaskLimit'
    <2>1. \A r \in Slots : ~slot'[r].live \/ slot'[r] = slot[r]
      BY <1>9 DEF CloseReaped, CloseTaken, CloseSlot, Empty, TypeOK
    <2>2. QED
      BY <1>8, <1>9, <2>1, StillMoves
  <1>10. ASSUME NEW s \in Slots, WearsOut(s) PROVE WithinTaskLimit'
    <2>1. \A r \in Slots : slot'[r].live = slot[r].live /\ slot'[r].tasks = slot[r].tasks
      BY <1>10, SlotTypes DEF WearsOut, Slot, TypeOK
    <2>2. QED
      BY <1>8, <1>10, <2>1, StillMoves
  <1>11. ASSUME slot' = slot, Still PROVE WithinTaskLimit'
    BY <1>8, <1>11
  <1>12. ASSUME NEW t \in Threads, Deadline(t) PROVE WithinTaskLimit'
    BY <1>11, <1>12, StillMoves DEF Deadline
  <1>13. ASSUME (\E S \in SUBSET Slots : Reap(S)) \/ Close \/ UNCHANGED vars
         PROVE  WithinTaskLimit'
    BY <1>11, <1>13, StillMoves DEF Reap, Close, vars
  <1>14. QED
    BY <1>2, <1>3, <1>4, <1>5, <1>6, <1>7, <1>9, <1>10, <1>12, <1>13, NextCases

----------------------------------------------------------------------------
(* Waiting.                                                                *)

\* Why request u may sleep on.
Sleeps(u) == At(u, "wait") /\ ~call[u].woken
Full == ~closed /\ Idle = {} /\ ~Room

LEMMA OthersStay ==
  ASSUME TypeOK, NEW t \in Threads, NEW c, Becomes(t, c)
  PROVE  \A u \in Threads \ {t} : call'[u] = call[u]
  BY DEF Becomes, TypeOK

LEMMA NobodySleeps ==
  ASSUME TypeOK, NEW u \in Threads, call'[u] = Woken(u)
  PROVE  ~Sleeps(u)'
  BY WokenFields DEF Sleeps, At

LEMMA WakeFrame ==
  ASSUME NoLostWakeup, NEW t \in Threads,
         \A u \in Threads \ {t} : call'[u] = call[u],
         ~Sleeps(t)' \/ Full',
         (\E u \in Threads \ {t} : Sleeps(u)) => (Full => Full')
  PROVE  NoLostWakeup'
  BY DEF NoLostWakeup, Sleeps, Full, At

LEMMA WakeStep ==
  TypeOK /\ PlacesOK /\ CapacityKept /\ NoLostWakeup /\ [Next]_vars => NoLostWakeup'
  <1> SUFFICES ASSUME TypeOK, PlacesOK, CapacityKept, NoLostWakeup, [Next]_vars
               PROVE  NoLostWakeup'
    OBVIOUS
  <1>w. (\E u \in Threads : Sleeps(u)) => Full
    BY DEF NoLostWakeup, Sleeps, Full
  <1>1. ASSUME NEW t \in Threads, NEW c, Becomes(t, c), call'[t].pc # "wait",
               UNCHANGED <<table, busy, creating, closed>>
        PROVE  NoLostWakeup'
    <2>1. Full => Full'
      BY <1>1 DEF Full, Idle, Room
    <2>2. \A u \in Threads \ {t} : call'[u] = call[u]
      BY <1>1, OthersStay
    <2>3. ~Sleeps(t)'
      BY <1>1 DEF Sleeps, At
    <2>4. QED
      BY <2>1, <2>2, <2>3, WakeFrame
  <1>2. ASSUME NEW t \in Threads, WaitForSlot(t) PROVE NoLostWakeup'
    <2>1. \A u \in Threads \ {t} : call'[u] = call[u]
      BY <1>2, OthersStay DEF WaitForSlot
    <2>2. Full /\ Full'
      BY <1>2 DEF WaitForSlot, NothingFree, MayAcquire, Full, Idle, Room
    <2>3. QED
      BY <2>1, <2>2, WakeFrame
  <1>3. ASSUME NEW t \in Threads,
               \/ (\E k \in Kinds : CallSolve(t, k))
               \/ AcquireRefused(t) \/ AcquireTimesOut(t) \/ Wake(t) \/ BackoffEnds(t)
        PROVE  NoLostWakeup'
    <2>1. \E c : Becomes(t, c)
      BY <1>3 DEF CallSolve, AcquireRefused, AcquireTimesOut, Wake, BackoffEnds
    <2>2. call'[t].pc # "wait"
      <3>1. Ended.pc = "done"
        BY EndedFields
      <3>2. \A k : [NotCalled EXCEPT !.pc = "acquire", !.kind = k, !.attempt = 1].pc = "acquire"
        BY DEF NotCalled
      <3>3. /\ [call[t] EXCEPT !.pc = "acquire", !.woken = FALSE].pc = "acquire"
            /\ [call[t] EXCEPT !.pc = "acquire", !.attempt = @ + 1].pc = "acquire"
        BY CallTypes DEF Call
      <3>4. QED
        BY <1>3, <3>1, <3>2, <3>3
           DEF CallSolve, AcquireRefused, AcquireTimesOut, Wake, BackoffEnds, Becomes, TypeOK
    <2>3. UNCHANGED <<table, busy, creating, closed>>
      BY <1>3 DEF CallSolve, AcquireRefused, AcquireTimesOut, Wake, BackoffEnds
    <2>4. QED
      BY <1>1, <2>1, <2>2, <2>3
  <1>4. ASSUME NEW t \in Threads, NEW s \in Slots, Reuse(t, s) \/ Retire(t, s) \/ Create(t, s)
        PROVE  NoLostWakeup'
    <2>1. ~Full
      BY <1>4 DEF Reuse, Retire, Create, Matching, Full
    <2>2. \A u \in Threads \ {t} : call'[u] = call[u]
      BY <1>4, OthersStay DEF Reuse, Retire, Create
    <2>3. ~Sleeps(t)'
      BY <1>4, SlotMoves DEF Keeps, Moves, Sleeps, At
    <2>4. QED
      BY <1>w, <2>1, <2>2, <2>3, WakeFrame
  <1>5. ASSUME NEW t \in Threads, CloseRetired(t) \/ StartSucceeds(t) PROVE NoLostWakeup'
    <2>1. (\E c : Becomes(t, c)) /\ UNCHANGED <<table, busy, creating, closed>>
      BY <1>5 DEF CloseRetired, StartSucceeds, Goto
    <2>2. call'[t].pc # "wait"
      BY <1>5, SlotMoves, PlaceMoves DEF Keeps, Moves
    <2>3. QED
      BY <1>1, <2>1, <2>2
  <1>6. ASSUME NEW t \in Threads, Install(t), closed PROVE NoLostWakeup'
    <2>1. (\E c : Becomes(t, c)) /\ closed' = closed
      BY <1>6 DEF Install
    <2>2. call'[t].pc # "wait" /\ ~Full
      BY <1>6, EndMoves DEF Moves, Full
    <2>3. QED
      BY <1>w, <2>1, <2>2, OthersStay, WakeFrame DEF Sleeps, At
  <1>7. ASSUME NEW t \in Threads, Install(t), ~closed PROVE NoLostWakeup'
    <2>1. /\ \E c : Becomes(t, c)
          /\ table' = table \cup {Mine(t)} /\ busy' = busy \cup {Mine(t)}
          /\ creating' = creating - 1 /\ closed' = closed
      BY <1>7 DEF Install, Goto
    <2>2. Mine(t) \notin table
      BY <1>7 DEF Install, At, PlacesOK, HeldOK
    <2>3. Cardinality(table') = Cardinality(table) + 1
      BY <2>1, <2>2, Sizes, FS_AddElement
    <2>4. Room' <=> Room
      BY <2>1, <2>3, Sizes DEF Room, TypeOK
    <2>5. Full => Full'
      BY <2>1, <2>4 DEF Full, Idle
    <2>6. call'[t].pc # "wait"
      BY <1>7, PlaceMoves DEF Keeps, Moves
    <2>7. QED
      BY <2>1, <2>5, <2>6, OthersStay, WakeFrame DEF Sleeps, At
  <1>8. ASSUME NEW t \in Threads, NEW r \in BOOLEAN, NEW a \in BOOLEAN, AttemptEnds(t, r, a)
        PROVE  NoLostWakeup'
    <2>1. (\E c : Becomes(t, c)) /\ UNCHANGED <<table, busy, creating, closed>>
      BY <1>8 DEF AttemptEnds
    <2>2. call'[t].pc # "wait"
      BY <1>8, AttemptMoves DEF Moves
    <2>3. QED
      BY <1>1, <2>1, <2>2
  <1>9. ASSUME NEW t \in Threads, StartFails(t) \/ GiveBack(t) PROVE NoLostWakeup'
    <2>1. \A u \in Threads \ {t} : ~Sleeps(u)'
      BY <1>9, NobodySleeps DEF StartFails, GiveBack, AndNotify
    <2>2. ~Sleeps(t)'
      BY <1>9, PlaceMoves, EndMoves DEF Keeps, Moves, Sleeps, At
    <2>3. QED
      BY <2>1, <2>2 DEF NoLostWakeup, Sleeps
  <1>10. ASSUME NEW t \in Threads, Dispose(t) PROVE NoLostWakeup'
    <2>1. (\E c : Becomes(t, c)) /\ UNCHANGED <<table, busy, creating, closed>>
      BY <1>10 DEF Dispose
    <2>2. call'[t].pc # "wait"
      BY <1>10, EndMoves DEF Moves
    <2>3. QED
      BY <1>1, <2>1, <2>2
  <1>11. ASSUME NEW t \in Threads, Deadline(t) PROVE NoLostWakeup'
    <2>1. Becomes(t, [call[t] EXCEPT !.late = TRUE]) /\ UNCHANGED <<table, busy, creating, closed>>
      BY <1>11 DEF Deadline
    <2>2. Sleeps(t)' => Sleeps(t)
      BY <2>1, CallTypes DEF Becomes, TypeOK, Call, Sleeps, At
    <2>3. Full => Full'
      BY <2>1 DEF Full, Idle, Room
    <2>4. QED
      BY <1>w, <2>1, <2>2, <2>3, OthersStay, WakeFrame
  <1>12. ASSUME (\E S \in SUBSET Slots : Reap(S)) \/ Close PROVE NoLostWakeup'
    <2>1. \A u \in Threads : call'[u] = Woken(u)
      BY <1>12 DEF Reap, Close, NotifyAll
    <2>2. QED
      BY <2>1, NobodySleeps DEF NoLostWakeup, Sleeps
  <1>13. ASSUME UNCHANGED <<call, table, busy, creating, closed>> PROVE NoLostWakeup'
    BY <1>13 DEF NoLostWakeup, At, Idle, Room
  <1>14. ASSUME NEW s \in Slots, CloseReaped(s) \/ CloseTaken(s) \/ WearsOut(s)
         PROVE  NoLostWakeup'
    BY <1>13, <1>14 DEF CloseReaped, CloseTaken, WearsOut
  <1>15. ASSUME UNCHANGED vars PROVE NoLostWakeup'
    BY <1>13, <1>15 DEF vars
  <1>16. QED
    BY <1>2, <1>3, <1>4, <1>5, <1>6, <1>7, <1>8, <1>9, <1>10, <1>11, <1>12, <1>14, <1>15,
       NextCases DEF Quiet

----------------------------------------------------------------------------
(* The inductive invariant and the theorems.                               *)

PoolInv == TypeOK /\ PlacesOK /\ CapacityKept /\ WithinTaskLimit /\ NoLostWakeup

LEMMA InitHolds == Init => PoolInv
  <1> SUFFICES ASSUME Init PROVE PoolInv
    OBVIOUS
  <1>1. /\ NotCalled.pc = "idle" /\ NotCalled.slot = None /\ NotCalled.kind = None
        /\ ~NotCalled.again /\ ~Empty.live
    BY DEF NotCalled, Empty
  <1>2. 0 \in 0 .. MaxAttempts /\ 0 \in 0 .. MaxTasks /\ 0 \in 0 .. MaxFaults
    BY PoolAssumption DEF PoolAssumption
  <1>3. NotCalled \in Call /\ Empty \in Slot
    BY <1>2 DEF NotCalled, Call, Label, Empty, Slot
  <1>4. TypeOK
    BY <1>2, <1>3 DEF Init, TypeOK
  <1>5. \A t \in Threads : CallOK(call[t]) /\ HeldOK(t) /\ Mine(t) = None
    BY <1>1 DEF Init, CallOK, Holding, HeldOK, Using, Mine
  <1>6. TablesOK /\ NoBrowserLost
    BY <1>1 DEF Init, TablesOK, NoBrowserLost
  <1>7. PlacesOK
    BY <1>5, <1>6 DEF PlacesOK, ShapeOK, DistinctOK
  <1>8. Starting = {}
    BY <1>1 DEF Init, Starting
  <1>9. CapacityKept
    BY <1>8, FS_EmptySet, PoolAssumption DEF Init, CapacityKept, Starting, PoolAssumption
  <1>10. WithinTaskLimit /\ NoLostWakeup
    BY <1>1 DEF Init, WithinTaskLimit, NoLostWakeup, At
  <1>11. QED
    BY <1>4, <1>7, <1>9, <1>10 DEF PoolInv

LEMMA StepHolds == PoolInv /\ [Next]_vars => PoolInv'
  <1> SUFFICES ASSUME PoolInv, [Next]_vars PROVE PoolInv'
    OBVIOUS
  <1>1. TypeOK /\ PlacesOK /\ ShapeOK /\ CapacityKept /\ WithinTaskLimit /\ NoLostWakeup
    BY DEF PoolInv, PlacesOK
  <1>2. QED
    BY <1>1, TypeStep, PlacesStep, CapacityStep, TaskStep, WakeStep DEF PoolInv

LEMMA Inductive == Spec => []PoolInv
  BY InitHolds, StepHolds, PTL DEF Spec

\* The pool's state is what its declarations say, under every interleaving.
THEOREM PoolTypeCorrect == Spec => []TypeOK
  BY Inductive, PTL DEF PoolInv

\* No browser process is forgotten between the lock's critical sections.
THEOREM NothingIsLost == Spec => []NoBrowserLost
  <1>1. PoolInv => NoBrowserLost
    BY DEF PoolInv, PlacesOK
  <1>2. QED
    BY <1>1, Inductive, PTL

\* A browser is used by one request at a time and busy has no stale entry.
THEOREM OneUserEach == Spec => []OneUserPerBrowser
  <1>1. ASSUME PoolInv PROVE OneUserPerBrowser
    <2>1. \A t \in Threads : call[t].pc \in Using => Mine(t) # None
      BY <1>1 DEF PoolInv, PlacesOK, ShapeOK, CallOK, Using, Holding, Mine
    <2>2. QED
      BY <1>1, <2>1 DEF PoolInv, PlacesOK, DistinctOK, HeldOK, TablesOK, OneUserPerBrowser
  <1>2. QED
    BY <1>1, Inductive, PTL

\* max_concurrency bounds the browsers kept and being started, for any size.
THEOREM CapacityIsKept == Spec => []CapacityKept
  BY Inductive, PTL DEF PoolInv

\* No notification is missed: a request sleeps only while nothing is free.
THEOREM WakeupsArrive == Spec => []NoLostWakeup
  BY Inductive, PTL DEF PoolInv

\* browser_max_tasks is never exceeded.
THEOREM TasksAreLimited == Spec => []WithinTaskLimit
  BY Inductive, PTL DEF PoolInv

\* Together, what the pool keeps between its critical sections.
THEOREM BrowsersAreSafe == Spec => []BrowsersSafe
  <1>1. PoolInv /\ NoBrowserLost /\ OneUserPerBrowser => BrowsersSafe
    BY DEF PoolInv, BrowsersSafe
  <1>2. QED
    BY <1>1, Inductive, NothingIsLost, OneUserEach, PTL

----------------------------------------------------------------------------
(* The pool implements the fleet.                                          *)

Pending(s) == \E t \in Threads : At(t, "started") /\ Mine(t) = s
Quitting(s) == s \notin table /\ slot[s].live /\ ~Pending(s)

\* What the abstract status of a browser says.
StatusFacts == \A s \in Slots :
  /\ Status[s] \in Threads \cup {"ready", "doomed", None}
  /\ \A t \in Threads : Status[s] = t <=> InUseBy(s, t)
  /\ Status[s] = "ready" <=> s \in table /\ ~\E t \in Threads : InUseBy(s, t)
  /\ Status[s] = "doomed" <=> Quitting(s)

LEMMA StatusIs == PoolInv => StatusFacts
  <1> SUFFICES ASSUME PoolInv, NEW s \in Slots
      PROVE  /\ Status[s] \in Threads \cup {"ready", "doomed", None}
             /\ \A t \in Threads : Status[s] = t <=> InUseBy(s, t)
             /\ Status[s] = "ready" <=> s \in table /\ ~\E t \in Threads : InUseBy(s, t)
             /\ Status[s] = "doomed" <=> Quitting(s)
    BY DEF StatusFacts
  <1>0. None \notin Threads /\ {"ready", "doomed"} \cap (Threads \cup {None}) = {}
    BY PoolAssumption DEF PoolAssumption
  <1>1. CASE \E t \in Threads : InUseBy(s, t)
    <2>1. PICK t \in Threads : InUseBy(s, t)
      BY <1>1
    <2>2. \A u \in Threads : InUseBy(s, u) => u = t
      BY <2>1, PoolAssumption
         DEF InUseBy, PoolInv, PlacesOK, DistinctOK, ShapeOK, CallOK, Mine, Using, Holding
    <2>3. Status[s] = (CHOOSE u \in Threads : InUseBy(s, u))
      BY <2>1 DEF Status, InUseBy
    <2>4. Status[s] \in Threads /\ InUseBy(s, Status[s])
      BY <2>1, <2>3
    <2>5. Status[s] = t /\ s \in table
      BY <2>1, <2>2, <2>4 DEF InUseBy
    <2>6. QED
      BY <1>0, <2>1, <2>2, <2>5 DEF Quitting
  <1>2. CASE s \in table /\ ~\E t \in Threads : InUseBy(s, t)
    <2>1. Status[s] = "ready"
      BY <1>2 DEF Status
    <2>2. QED
      BY <1>0, <1>2, <2>1 DEF Quitting
  <1>3. CASE s \notin table
    <2>1. Status[s] = IF Quitting(s) THEN "doomed" ELSE None
      BY <1>3 DEF Status, Quitting, Pending
    <2>2. QED
      BY <1>0, <1>3, <2>1 DEF InUseBy
  <1>4. QED
    BY <1>1, <1>2, <1>3

\* Nothing that the status depends on changes for browser s.
Same(s) ==
  /\ s \in table' <=> s \in table
  /\ \A t \in Threads : InUseBy(s, t)' <=> InUseBy(s, t)
  /\ Quitting(s)' <=> Quitting(s)

LEMMA SameStatus ==
  ASSUME StatusFacts, StatusFacts', NEW s \in Slots, Same(s)
  PROVE  Status'[s] = Status[s]
  <1>1. CASE Status[s] \in Threads
    BY <1>1 DEF StatusFacts, Same
  <1>2. CASE Status[s] = "ready"
    BY <1>2 DEF StatusFacts, Same
  <1>3. CASE Status[s] = "doomed"
    BY <1>3 DEF StatusFacts, Same
  <1>4. CASE Status[s] = None
    <2>1. Status'[s] \notin Threads
      BY <1>4, PoolAssumption DEF StatusFacts, Same, PoolAssumption
    <2>2. Status'[s] # "ready" /\ Status'[s] # "doomed"
      BY <1>4, PoolAssumption DEF StatusFacts, Same, PoolAssumption
    <2>3. QED
      BY <1>4, <2>1, <2>2 DEF StatusFacts
  <1>5. QED
    BY <1>1, <1>2, <1>3, <1>4 DEF StatusFacts

LEMMA StatusIsFunction ==
  /\ Status = [s \in Slots |-> Status[s]]
  /\ Status' = [s \in Slots |-> Status'[s]]
  BY DEF Status

\* A step that leaves every browser alone stutters.
LEMMA AllSame ==
  ASSUME StatusFacts, StatusFacts', closed' = closed, \A s \in Slots : Same(s)
  PROVE  UNCHANGED Fleet!vars
  <1>1. \A s \in Slots : Status'[s] = Status[s]
    BY SameStatus
  <1>2. Status' = Status
    BY <1>1, StatusIsFunction
  <1>3. QED
    BY <1>2 DEF Fleet!vars

\* One that touches a single browser.
LEMMA OneChanged ==
  ASSUME StatusFacts, StatusFacts', NEW s \in Slots, \A r \in Slots \ {s} : Same(r)
  PROVE  Status' = [Status EXCEPT ![s] = Status'[s]]
  <1>1. \A r \in Slots \ {s} : Status'[r] = Status[r]
    BY SameStatus
  <1>2. QED
    BY <1>1, StatusIsFunction

LEMMA ServiceIsTable == PoolInv => Fleet!InService = table
  <1> SUFFICES ASSUME PoolInv PROVE Fleet!InService = table
    OBVIOUS
  <1>1. StatusFacts /\ table \subseteq Slots
    BY StatusIs DEF PoolInv, TypeOK
  <1>2. \A s \in Slots : s \in table <=> Status[s] \in Threads \cup {"ready"}
    BY <1>1 DEF StatusFacts, InUseBy
  <1>3. QED
    BY <1>1, <1>2 DEF Fleet!InService

\* Where call t neither comes from nor goes to, the status is as before.
LEMMA MoveSame ==
  ASSUME NEW t \in Threads, NEW l, NEW s, Moves(t, l, s), NEW r \in Slots,
         r \in table' <=> r \in table, slot'[r].live <=> slot[r].live,
         \/ /\ Mine(t) = r => call[t].pc \notin Using \cup {"started"}
            /\ s = r => l \notin Using \cup {"started"}
         \/ call[t].pc \in Using /\ l \in Using /\ s = Mine(t)
  PROVE  Same(r)
  <1>1. \A u \in Threads : InUseBy(r, u)' <=> InUseBy(r, u)
    BY DEF Moves, InUseBy, Mine, Using
  <1>2. Pending(r)' <=> Pending(r)
    BY DEF Moves, Pending, At, Mine, Using
  <1>3. QED
    BY <1>1, <1>2 DEF Same, Quitting

LEMMA StillSame ==
  ASSUME Still, NEW r \in Slots, r \in table' <=> r \in table, slot'[r].live <=> slot[r].live
  PROVE  Same(r)
  BY DEF Still, Keeps, Moves, Same, Quitting, Pending, InUseBy, At, Mine

\* Every step of the pool is one of the fleet, or none.
LEMMA FleetStep ==
  PoolInv /\ PoolInv' /\ [Next]_vars => [Fleet!Next]_Fleet!vars
  <1> SUFFICES ASSUME PoolInv, PoolInv', [Next]_vars PROVE [Fleet!Next]_Fleet!vars
    OBVIOUS
  <1>i. /\ TypeOK /\ PlacesOK /\ ShapeOK /\ DistinctOK /\ TablesOK /\ CapacityKept
        /\ \A t \in Threads : HeldOK(t) /\ CallOK(call[t])
    BY DEF PoolInv, PlacesOK, ShapeOK
  <1>f. StatusFacts /\ StatusFacts'
    BY StatusIs, PTL
  <1>v. Fleet!InService = table
    BY ServiceIsTable
  <1>s. /\ table \subseteq Slots
        /\ \A u \in Threads : call[u].pc \in Holding => Mine(u) \in Slots
    BY <1>i, MineTypes DEF TypeOK
  <1>d. \A t, u \in Threads : call[t].pc \in Holding /\ Mine(t) = Mine(u) => t = u
    BY <1>i, <1>s, PoolAssumption DEF DistinctOK, PoolAssumption
  \* What quitting a browser or leaving it alone comes to.
  <1>q. ASSUME NEW s \in Slots, \A r \in Slots \ {s} : Same(r), s \notin table, s \notin table',
               ~Quitting(s)', Status[s] = "doomed" \/ ~Quitting(s), closed' = closed
        PROVE  [Fleet!Next]_Fleet!vars
    <2>1. CASE Quitting(s)
      <3>1. Status[s] = "doomed"
        BY <1>f, <2>1 DEF StatusFacts
      <3>2. Status'[s] = None
        BY <1>f, <1>q DEF StatusFacts, InUseBy
      <3>3. Status' = [Status EXCEPT ![s] = None]
        BY <1>f, <1>q, <3>2, OneChanged
      <3>4. Fleet!Quit(s)
        BY <1>q, <3>1, <3>3 DEF Fleet!Quit
      <3>5. QED
        BY <3>4 DEF Fleet!Next
    <2>2. CASE ~Quitting(s)
      <3>1. Same(s)
        BY <1>q, <2>2 DEF Same, InUseBy
      <3>2. \A r \in Slots : Same(r)
        BY <1>q, <3>1
      <3>3. QED
        BY <1>f, <1>q, <3>2, AllSame
    <2>3. QED
      BY <2>1, <2>2
  <1>k. ASSUME NEW S \in SUBSET table, \A r \in Slots \ S : Same(r),
               \A r \in S : r \notin table' /\ Quitting(r)', closed' = closed
        PROVE  [Fleet!Next]_Fleet!vars
    <2>1. \A r \in Slots : Status'[r] = IF r \in S THEN "doomed" ELSE Status[r]
      BY <1>f, <1>k, <1>s, SameStatus DEF StatusFacts
    <2>2. Status' = [r \in Slots |-> IF r \in S THEN "doomed" ELSE Status[r]]
      BY <2>1, StatusIsFunction
    <2>3. Fleet!Condemn(S)
      BY <1>k, <1>v, <2>2 DEF Fleet!Condemn
    <2>4. S \in SUBSET Slots
      BY <1>k, <1>s
    <2>5. QED
      BY <2>3, <2>4 DEF Fleet!Next
  <1>a. ASSUME \A r \in Slots : Same(r), closed' = closed PROVE [Fleet!Next]_Fleet!vars
    BY <1>f, <1>a, AllSame
  <1>1. ASSUME NEW t \in Threads, Quiet(t) PROVE [Fleet!Next]_Fleet!vars
    <2>1. PICK l \in {"acquire", "wait", "done"} : Moves(t, l, None)
      BY <1>1, <1>i, QuietMoves
    <2>2. call[t].pc \notin Holding /\ UNCHANGED <<table, slot, closed>>
      BY <1>1, <1>i, QuietMoves
    <2>3. \A r \in Slots : Same(r)
      BY <2>1, <2>2, MoveSame DEF Holding, Using
    <2>4. QED
      BY <1>a, <2>2, <2>3
  <1>2. ASSUME NEW t \in Threads, NEW s \in Slots, Reuse(t, s) PROVE [Fleet!Next]_Fleet!vars
    <2>1. /\ Moves(t, "solve", s) /\ UNCHANGED <<table, slot, closed>> /\ ~closed
          /\ s \in table \ busy /\ call[t].pc = "acquire"
      BY <1>2, <1>i, SlotMoves DEF Keeps, Reuse, Matching, Idle, MayAcquire, At
    <2>2. Status[s] = "ready"
      BY <1>f, <1>i, <2>1 DEF StatusFacts, InUseBy, HeldOK
    <2>3. \A r \in Slots : Status[r] # t
      BY <1>f, <2>1 DEF StatusFacts, InUseBy, Using
    <2>4. \A r \in Slots \ {s} : Same(r)
      BY <2>1, MoveSame DEF Using
    <2>5. Status'[s] = t
      BY <1>f, <2>1 DEF StatusFacts, InUseBy, Moves, Mine, Using
    <2>6. Status' = [Status EXCEPT ![s] = t]
      BY <1>f, <2>4, <2>5, OneChanged
    <2>7. Fleet!Lend(s, t)
      BY <2>1, <2>2, <2>3, <2>6 DEF Fleet!Lend
    <2>8. QED
      BY <2>7 DEF Fleet!Next
  <1>3. ASSUME NEW t \in Threads, NEW s \in Slots, Retire(t, s) PROVE [Fleet!Next]_Fleet!vars
    <2>1. /\ Moves(t, "retire", s) /\ UNCHANGED <<slot, closed>>
          /\ s \in table /\ table' = table \ {s} /\ s \notin busy /\ call[t].pc = "acquire"
      BY <1>3, <1>i, SlotMoves DEF Keeps, Retire, Matching, Idle, MayAcquire, At
    <2>2. \A r \in Slots \ {s} : Same(r)
      BY <2>1, MoveSame DEF Using
    <2>3. slot[s].live /\ ~Pending(s)
      BY <1>i, <2>1 DEF TablesOK, Pending, HeldOK, At
    <2>4. Quitting(s)'
      BY <2>1, <2>3 DEF Quitting, Pending, Moves, At, Mine
    <2>5. {s} \in SUBSET table /\ \A r \in {s} : r \notin table' /\ Quitting(r)'
      BY <2>1, <2>4
    <2>6. QED
      BY <1>k, <2>1, <2>2, <2>5
  <1>4. ASSUME NEW t \in Threads, NEW s \in Slots, Create(t, s) PROVE [Fleet!Next]_Fleet!vars
    <2>1. Moves(t, "start", s) /\ UNCHANGED <<table, slot, closed>> /\ call[t].pc = "acquire"
      BY <1>4, <1>i, SlotMoves DEF Keeps, Create, MayAcquire, At
    <2>2. \A r \in Slots : Same(r)
      BY <2>1, MoveSame DEF Using
    <2>3. QED
      BY <1>a, <2>1, <2>2
  <1>5. ASSUME NEW t \in Threads, CloseRetired(t) \/ Dispose(t) PROVE [Fleet!Next]_Fleet!vars
    <2>0. PICK s \in Slots : s = Mine(t)
      BY <1>5, <1>s
         DEF CloseRetired, Dispose, StartSucceeds, Install, GiveBack, At, Holding
    <2>1. \E l, b : Moves(t, l, b) /\ l \in {"acquire", "backoff", "done"}
      BY <1>5, <1>i, SlotMoves, EndMoves DEF Keeps
    <2>2. /\ call[t].pc \in {"retire", "dispose"} /\ s \in Slots /\ s \notin table
          /\ UNCHANGED <<table, closed>> /\ slot' = [slot EXCEPT ![s] = Empty]
      BY <2>0, <1>5, <1>i, <1>s DEF CloseRetired, Dispose, CloseSlot, HeldOK, At, Holding
    <2>3. /\ slot'[s] = Empty /\ ~Empty.live
          /\ \A r \in Slots : r # s => slot'[r] = slot[r]
      BY <1>i, <2>2 DEF TypeOK, Empty
    <2>4. \A r \in Slots \ {s} : Same(r)
      BY <2>1, <2>2, <2>3, MoveSame DEF Using
    <2>5. ~Quitting(s)'
      BY <2>3 DEF Quitting
    <2>6. Status[s] = "doomed" \/ ~Quitting(s)
      BY <1>f, <2>2 DEF StatusFacts
    <2>7. QED
      BY <1>q, <2>2, <2>4, <2>5, <2>6
  <1>6. ASSUME NEW t \in Threads, StartSucceeds(t) PROVE [Fleet!Next]_Fleet!vars
    <2>0. PICK s \in Slots : s = Mine(t)
      BY <1>6, <1>s
         DEF CloseRetired, Dispose, StartSucceeds, Install, GiveBack, At, Holding
    <2>1. /\ Moves(t, "started", s) /\ call[t].pc = "start" /\ s \in Slots /\ s \notin table
          /\ UNCHANGED <<table, closed>> /\ ~slot[s].live
      BY <2>0, <1>6, <1>i, <1>s, PlaceMoves DEF Keeps, StartSucceeds, HeldOK, At, Holding
    <2>2. \A r \in Slots : r # s => slot'[r] = slot[r]
      BY <2>0, <1>6, <1>i DEF StartSucceeds, TypeOK
    <2>3. \A r \in Slots \ {s} : Same(r)
      BY <2>0, <2>1, <2>2, MoveSame
    <2>4. ~Quitting(s) /\ ~Quitting(s)'
      BY <2>1 DEF Quitting, Pending, Moves, At, Mine
    <2>5. QED
      BY <1>q, <2>1, <2>3, <2>4
  <1>7. ASSUME NEW t \in Threads, StartFails(t) PROVE [Fleet!Next]_Fleet!vars
    <2>1. Moves(t, "done", None) /\ call[t].pc = "start" /\ UNCHANGED <<table, slot, closed>>
      BY <1>7, <1>i, EndMoves DEF StartFails, At
    <2>2. \A r \in Slots : Same(r)
      BY <2>1, MoveSame DEF Using
    <2>3. QED
      BY <1>a, <2>1, <2>2
  <1>8. ASSUME NEW t \in Threads, Install(t), closed PROVE [Fleet!Next]_Fleet!vars
    <2>0. PICK s \in Slots : s = Mine(t)
      BY <1>8, <1>s
         DEF CloseRetired, Dispose, StartSucceeds, Install, GiveBack, At, Holding
    <2>1. /\ Moves(t, "done", None) /\ call[t].pc = "started" /\ s \in Slots /\ s \notin table
          /\ UNCHANGED <<table, closed>> /\ slot' = [slot EXCEPT ![s] = Empty]
      BY <2>0, <1>8, <1>i, <1>s, EndMoves DEF Install, CloseSlot, HeldOK, At, Holding
    <2>2. ~slot'[s].live /\ \A r \in Slots : r # s => slot'[r] = slot[r]
      BY <1>i, <2>1 DEF TypeOK, Empty
    <2>3. \A r \in Slots \ {s} : Same(r)
      BY <2>0, <2>1, <2>2, MoveSame DEF Using
    <2>4. ~Quitting(s) /\ ~Quitting(s)'
      BY <2>0, <2>1, <2>2 DEF Quitting, Pending, At
    <2>5. QED
      BY <1>q, <2>1, <2>3, <2>4
  <1>9. ASSUME NEW t \in Threads, Install(t), ~closed PROVE [Fleet!Next]_Fleet!vars
    <2>0. PICK s \in Slots : s = Mine(t)
      BY <1>9, <1>s
         DEF CloseRetired, Dispose, StartSucceeds, Install, GiveBack, At, Holding
    <2>1. /\ Moves(t, "solve", s) /\ call[t].pc = "started" /\ s \in Slots /\ s \notin table
          /\ UNCHANGED <<slot, closed>> /\ table' = table \cup {s}
      BY <2>0, <1>9, <1>i, <1>s, PlaceMoves DEF Keeps, Install, HeldOK, At, Holding
    <2>2. Cardinality(Fleet!InService) < MaxConcurrency
      <3>1. t \in Starting
        BY <2>1 DEF Starting
      <3>2. Cardinality(Starting) # 0
        BY <1>i, <3>1, Sizes, FS_EmptySet
      <3>3. creating = Cardinality(Starting) /\ Cardinality(table) + creating <= MaxConcurrency
        BY <1>9, <1>i DEF CapacityKept, Starting
      <3>4. QED
        BY <1>i, <1>v, <3>2, <3>3, Sizes, PoolAssumption DEF PoolAssumption
    <2>3. Status[s] = None
      <3>1. Status[s] \notin Threads /\ Status[s] # "ready" /\ Status[s] # "doomed"
        BY <2>0, <1>f, <2>1 DEF StatusFacts, InUseBy, Quitting, Pending, At
      <3>2. QED
        BY <1>f, <2>1, <3>1 DEF StatusFacts
    <2>4. \A r \in Slots : Status[r] # t
      BY <1>f, <2>1 DEF StatusFacts, InUseBy, Using
    <2>5. \A r \in Slots \ {s} : Same(r)
      BY <2>0, <2>1, MoveSame DEF Using
    <2>6. Status'[s] = t
      BY <1>f, <2>1 DEF StatusFacts, InUseBy, Moves, Mine, Using
    <2>7. Status' = [Status EXCEPT ![s] = t]
      BY <1>f, <2>1, <2>5, <2>6, OneChanged
    <2>8. Fleet!Cardinality(Fleet!InService) = Cardinality(Fleet!InService)
      BY DEF Fleet!Cardinality, Cardinality
    <2>9. Fleet!Lend(s, t)
      BY <1>9, <2>1, <2>2, <2>3, <2>4, <2>7, <2>8 DEF Fleet!Lend
    <2>10. QED
      BY <2>9 DEF Fleet!Next
  <1>10. ASSUME NEW t \in Threads, NEW r \in BOOLEAN, NEW a \in BOOLEAN, AttemptEnds(t, r, a)
         PROVE  [Fleet!Next]_Fleet!vars
    <2>1. /\ Moves(t, "give", Mine(t)) /\ call[t].pc = "solve"
          /\ UNCHANGED <<table, closed>> /\ Mine(t) \in Slots
          /\ slot' = [slot EXCEPT ![Mine(t)] = Worked(slot[Mine(t)])]
      BY <1>10, <1>i, <1>s, AttemptMoves DEF AttemptEnds, At, Holding
    <2>2. slot[Mine(t)] \in Slot
      BY <1>i, <2>1, SlotTypes
    <2>3. Worked(slot[Mine(t)]).live = slot[Mine(t)].live
      BY <2>2 DEF Worked, Slot
    <2>4. \A q \in Slots : slot'[q].live = slot[q].live
      BY <1>i, <2>1, <2>3 DEF TypeOK
    <2>5. \A q \in Slots : Same(q)
      BY <2>1, <2>4, MoveSame DEF Using
    <2>6. QED
      BY <1>a, <2>1, <2>5
  <1>11. ASSUME NEW t \in Threads, GiveBack(t) PROVE [Fleet!Next]_Fleet!vars
    <2>0. PICK s \in Slots : s = Mine(t)
      BY <1>11, <1>s
         DEF CloseRetired, Dispose, StartSucceeds, Install, GiveBack, At, Holding
    <2>m. PICK l, b : Moves(t, l, b) /\ l \in {"dispose", "backoff", "done"}
      BY <1>11, <1>i, PlaceMoves, EndMoves DEF Keeps
    <2>1. /\ call[t].pc = "give" /\ s \in Slots /\ UNCHANGED <<slot, closed>>
          /\ table' = (IF call[t].recycle THEN table \ {s} ELSE table)
      BY <2>0, <1>11, <1>s DEF GiveBack, At, Holding
    <2>2. \A r \in Slots \ {s} : Same(r)
      BY <2>0, <2>m, <2>1, MoveSame DEF Using
    <2>3. CASE s \notin table
      <3>1. table' = table
        BY <2>1, <2>3
      <3>2. Pending(s)' <=> Pending(s)
        BY <2>m, <2>1 DEF Pending, Moves, At, Mine
      <3>3. Same(s)
        BY <2>1, <2>3, <3>1, <3>2 DEF Same, InUseBy, Quitting
      <3>4. QED
        BY <1>a, <2>1, <2>2, <3>3
    <2>4. CASE s \in table /\ call[t].recycle
      <3>1. slot[s].live /\ ~Pending(s)
        BY <1>i, <2>4 DEF TablesOK, Pending, HeldOK, At
      <3>2. Quitting(s)'
        BY <2>m, <2>1, <2>4, <3>1 DEF Quitting, Pending, Moves, At, Mine
      <3>3. {s} \in SUBSET table /\ \A r \in {s} : r \notin table' /\ Quitting(r)'
        BY <2>1, <2>4, <3>2
      <3>4. QED
        BY <1>k, <2>1, <2>2, <3>3
    <2>5. CASE s \in table /\ ~call[t].recycle
      <3>1. ~closed
        BY <1>i, <2>5 DEF TablesOK
      <3>2. Status[s] = t
        BY <2>0, <1>f, <2>1, <2>5 DEF StatusFacts, InUseBy, Using
      <3>3. \A u \in Threads : ~InUseBy(s, u)'
        BY <2>0, <1>d, <2>m, <2>1 DEF InUseBy, Moves, Mine, Using, Holding
      <3>4. Status'[s] = "ready"
        BY <1>f, <2>1, <2>5, <3>3 DEF StatusFacts
      <3>5. Status' = [Status EXCEPT ![s] = "ready"]
        BY <1>f, <2>1, <2>2, <3>4, OneChanged
      <3>6. Fleet!Return(s)
        BY <2>1, <3>1, <3>2, <3>5 DEF Fleet!Return
      <3>7. QED
        BY <2>1, <3>6 DEF Fleet!Next
    <2>6. QED
      BY <2>3, <2>4, <2>5
  <1>12. ASSUME NEW S \in SUBSET Slots, Reap(S) PROVE [Fleet!Next]_Fleet!vars
    <2>1. /\ Still /\ S \subseteq table /\ table' = table \ S /\ UNCHANGED <<slot, closed>>
      BY <1>12, <1>i, StillMoves DEF Reap, Idle
    <2>2. \A r \in Slots \ S : Same(r)
      BY <2>1, StillSame
    <2>3. \A r \in S : slot[r].live /\ ~Pending(r)
      BY <1>i, <2>1 DEF TablesOK, Pending, HeldOK, At
    <2>4. \A r \in S : r \notin table' /\ Quitting(r)'
      BY <2>1, <2>3 DEF Quitting, Pending, Still, Keeps, Moves, At, Mine
    <2>5. QED
      BY <1>k, <2>1, <2>2, <2>4
  <1>13. ASSUME NEW s \in Slots, CloseReaped(s) \/ CloseTaken(s) PROVE [Fleet!Next]_Fleet!vars
    <2>1. /\ Still /\ UNCHANGED <<table, closed>> /\ slot' = [slot EXCEPT ![s] = Empty]
          /\ s \in reaping \cup closing
      BY <1>13, <1>i, StillMoves DEF CloseReaped, CloseTaken, CloseSlot
    <2>2. ~slot'[s].live /\ \A r \in Slots : r # s => slot'[r] = slot[r]
      BY <1>i, <2>1 DEF TypeOK, Empty
    <2>3. \A r \in Slots \ {s} : Same(r)
      BY <2>1, <2>2, StillSame
    <2>4. s \notin table
      BY <1>i, <2>1 DEF TablesOK
    <2>5. ~Quitting(s)'
      BY <2>2 DEF Quitting
    <2>6. Status[s] = "doomed" \/ ~Quitting(s)
      BY <1>f DEF StatusFacts
    <2>7. QED
      BY <1>q, <2>1, <2>3, <2>4, <2>5, <2>6
  <1>14. ASSUME Close PROVE [Fleet!Next]_Fleet!vars
    <2>1. Still /\ ~closed /\ closed' /\ table' = {} /\ UNCHANGED slot
      BY <1>14, <1>i, StillMoves DEF Close
    <2>2. \A r \in Slots \ table : Status'[r] = Status[r]
      BY <1>f, <2>1, StillSame, SameStatus
    <2>3. \A r \in table : slot[r].live /\ ~Pending(r)
      BY <1>i DEF TablesOK, Pending, HeldOK, At
    <2>4. \A r \in table : Quitting(r)'
      BY <2>1, <2>3 DEF Quitting, Pending, Still, Keeps, Moves, At, Mine
    <2>5. \A r \in Slots : Status'[r] = IF r \in table THEN "doomed" ELSE Status[r]
      BY <1>f, <1>s, <2>2, <2>4 DEF StatusFacts
    <2>6. Status' = [r \in Slots |-> IF r \in Fleet!InService THEN "doomed" ELSE Status[r]]
      BY <1>v, <2>5, StatusIsFunction
    <2>7. closed' = TRUE
      BY <1>14 DEF Close
    <2>8. Fleet!Shut
      BY <2>1, <2>6, <2>7 DEF Fleet!Shut
    <2>9. QED
      BY <2>8 DEF Fleet!Next
  <1>15. ASSUME NEW t \in Threads, Deadline(t) PROVE [Fleet!Next]_Fleet!vars
    <2>1. Still /\ UNCHANGED <<table, slot, closed>>
      BY <1>15, <1>i, StillMoves DEF Deadline
    <2>2. QED
      BY <1>a, <2>1, StillSame
  <1>16. ASSUME NEW s \in Slots, WearsOut(s) PROVE [Fleet!Next]_Fleet!vars
    <2>1. Still /\ UNCHANGED <<table, closed>>
      BY <1>16, <1>i, StillMoves DEF WearsOut
    <2>2. \A r \in Slots : slot'[r].live = slot[r].live
      BY <1>16, <1>i, SlotTypes DEF WearsOut, Slot, TypeOK
    <2>3. QED
      BY <1>a, <2>1, <2>2, StillSame
  <1>17. ASSUME UNCHANGED vars PROVE [Fleet!Next]_Fleet!vars
    <2>1. Still /\ UNCHANGED <<table, slot, closed>>
      BY <1>17, <1>i, StillMoves DEF vars
    <2>2. QED
      BY <1>a, <2>1, StillSame
  <1>18. QED
    BY <1>1, <1>2, <1>3, <1>4, <1>5, <1>6, <1>7, <1>8, <1>9, <1>10, <1>11, <1>12, <1>13,
       <1>14, <1>15, <1>16, <1>17, NextCases

LEMMA FleetInit == Init => Fleet!Init
  <1> SUFFICES ASSUME Init PROVE Fleet!Init
    OBVIOUS
  <1>1. ~Empty.live
    BY DEF Empty
  <1>2. Status = [s \in Slots |-> None]
    BY <1>1 DEF Status, Init
  <1>3. QED
    BY <1>2 DEF Fleet!Init, Init

\* The condition variable, the table, the busy set and the count of starts
\* together keep the promise of BrowserFleet.
THEOREM PoolImplementsFleet == Spec => FleetImplemented
  <1>1. Spec => Fleet!Init
    BY FleetInit DEF Spec
  <1>2. PoolInv /\ PoolInv' /\ [Next]_vars => [Fleet!Next]_Fleet!vars
    BY FleetStep
  <1>3. QED
    BY <1>1, <1>2, Inductive, PTL DEF Spec, FleetImplemented, Fleet!Spec
=============================================================================
