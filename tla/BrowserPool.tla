----------------------------- MODULE BrowserPool -----------------------------
(***************************************************************************)
(* PersistentBrowserPool (turnstile_solver/src/browser_runtime.py): the    *)
(* browsers the solver keeps.  One condition variable guards the table of  *)
(* slots; everything slow (starting, solving, quitting a browser) happens  *)
(* outside it, so a slot leaves the table before its browser is quit and   *)
(* enters it after its browser was started, with close, the idle reaper    *)
(* and the other requests in between.                                      *)
(*                                                                         *)
(* The pool is started before the first request (api.py, lifespan).  A     *)
(* slot id is reused here once nothing refers to it.  Age, idle time,      *)
(* memory, consecutive failures and a lost connection are one flag that    *)
(* may be raised at any time; completed_tasks is counted.                  *)
(***************************************************************************)
EXTENDS Integers, FiniteSets

CONSTANTS Threads,         \* server threads, each running one solve
          Slots,           \* slot ids, numbers
          Kinds,           \* browser affinities
          MaxConcurrency,  \* stats.max_concurrency
          MaxAttempts,     \* browser_solve_max_attempts
          MaxTasks,        \* browser_max_tasks
          MaxFaults,       \* bound: passed deadlines, worn browsers, failed starts
          None

ASSUME PoolAssumption ==
  /\ IsFiniteSet(Threads) /\ None \notin Threads
  /\ {"ready", "doomed"} \cap (Threads \cup {None}) = {}
  /\ Slots \subseteq Nat /\ IsFiniteSet(Slots) /\ None \notin Slots \cup Kinds
  /\ MaxConcurrency \in Nat \ {0}
  /\ MaxAttempts \in Nat \ {0}
  /\ MaxTasks \in Nat \ {0}
  /\ MaxFaults \in Nat

VARIABLES table,     \* _slots
          busy,      \* _busy
          creating,  \* _creating
          closed,    \* _closed
          slot,      \* the BrowserSlot objects
          call,      \* the solve call of each thread
          reaping,   \* slots _reap_idle_slots has popped and not yet closed
          closing,   \* slots close has taken and not yet closed
          faults     \* how much of MaxFaults the environment has used

vars == <<table, busy, creating, closed, slot, call, reaping, closing, faults>>

\* live is false before start has succeeded and once close has run; worn
\* stands for the recycle reasons that are not counted here.
Slot == [live : BOOLEAN, kind : Kinds \cup {None}, tasks : 0 .. MaxTasks, worn : BOOLEAN]
Empty == [live |-> FALSE, kind |-> None, tasks |-> 0, worn |-> FALSE]

Label == {"idle", "acquire", "wait", "retire", "start", "started", "solve",
          "give", "dispose", "backoff", "done"}

\* late: the deadline has passed.  woken: notified while waiting.  recycle:
\* the release has a recycle reason.  again: the release precedes a retry.
Call == [pc : Label, kind : Kinds \cup {None}, slot : Slots \cup {None},
         attempt : 0 .. MaxAttempts, late : BOOLEAN, woken : BOOLEAN,
         recycle : BOOLEAN, again : BOOLEAN]
NotCalled == [pc |-> "idle", kind |-> None, slot |-> None, attempt |-> 0,
              late |-> FALSE, woken |-> FALSE, recycle |-> FALSE, again |-> FALSE]
Ended == [NotCalled EXCEPT !.pc = "done"]

At(t, l) == call[t].pc = l
Mine(t) == call[t].slot
Idle == table \ busy
Using == {"solve", "give"}

Init ==
  /\ table = {} /\ busy = {} /\ creating = 0 /\ closed = FALSE
  /\ slot = [s \in Slots |-> Empty]
  /\ call = [t \in Threads |-> NotCalled]
  /\ reaping = {} /\ closing = {}
  /\ faults = 0

----------------------------------------------------------------------------
\* notify_all wakes every waiting thread; with AndNotify, t goes on as c.
Woken(u) == [call[u] EXCEPT !.woken = @ \/ At(u, "wait")]
NotifyAll == [u \in Threads |-> Woken(u)]
AndNotify(t, c) == [u \in Threads |-> IF u = t THEN c ELSE Woken(u)]

Becomes(t, c) == call' = [call EXCEPT ![t] = c]
Goto(t, l) == Becomes(t, [call[t] EXCEPT !.pc = l])

Fault == faults < MaxFaults /\ faults' = faults + 1

\* BrowserSlot.close.
CloseSlot(s) == slot' = [slot EXCEPT ![s] = Empty]

\* BrowserSlot.recycle_reason, off by one: a mutant.
MustRecycleLate(b) == ~b.live \/ b.worn \/ b.tasks > MaxTasks
\* BrowserSlot.recycle_reason.
MustRecycle(b) == ~b.live \/ b.worn \/ b.tasks >= MaxTasks

\* solve: a call on a closed pool raises in start.
CallSolve(t, k) ==
  /\ At(t, "idle")
  /\ Becomes(t, IF closed THEN Ended
                ELSE [NotCalled EXCEPT !.pc = "acquire", !.kind = k, !.attempt = 1])
  /\ UNCHANGED <<table, busy, creating, closed, slot, reaping, closing, faults>>

----------------------------------------------------------------------------
(* _acquire: one pass of its loop under the lock.                          *)

Matching(t) == {s \in Idle : slot[s].kind = call[t].kind}
\* Browsers being started do not count: a mutant.
RoomForgetsCreating == Cardinality(table) < MaxConcurrency
Room == Cardinality(table) + creating < MaxConcurrency
MayAcquire(t) == At(t, "acquire") /\ ~closed

AcquireRefused(t) ==
  /\ At(t, "acquire") /\ closed
  /\ Becomes(t, Ended)
  /\ UNCHANGED <<table, busy, creating, closed, slot, reaping, closing, faults>>

\* A reused slot is not marked busy: a mutant.
ReuseUnmarked(t, s) ==
  /\ MayAcquire(t) /\ s \in Matching(t) /\ ~MustRecycle(slot[s])
  /\ Becomes(t, [call[t] EXCEPT !.pc = "solve", !.slot = s])
  /\ UNCHANGED <<table, busy, creating, closed, slot, reaping, closing, faults>>

Reuse(t, s) ==
  /\ MayAcquire(t) /\ s \in Matching(t) /\ ~MustRecycle(slot[s])
  /\ busy' = busy \cup {s}
  /\ Becomes(t, [call[t] EXCEPT !.pc = "solve", !.slot = s])
  /\ UNCHANGED <<table, creating, closed, slot, reaping, closing, faults>>

\* A matching slot that has a recycle reason, or any idle slot when the pool
\* is full of other affinities, leaves the table.  Which idle slot was used
\* least recently is left open.
Retire(t, s) ==
  /\ MayAcquire(t)
  /\ \/ s \in Matching(t) /\ MustRecycle(slot[s])
     \/ Matching(t) = {} /\ ~Room /\ s \in Idle
  /\ table' = table \ {s}
  /\ Becomes(t, [call[t] EXCEPT !.pc = "retire", !.slot = s])
  /\ UNCHANGED <<busy, creating, closed, slot, reaping, closing, faults>>

Unreferenced(s) ==
  /\ ~slot[s].live /\ s \notin table \cup reaping \cup closing
  /\ \A u \in Threads : Mine(u) # s

Create(t, s) ==
  /\ MayAcquire(t) /\ Matching(t) = {} /\ Room
  /\ Unreferenced(s) /\ \A r \in Slots : Unreferenced(r) => s <= r
  /\ creating' = creating + 1
  /\ Becomes(t, [call[t] EXCEPT !.pc = "start", !.slot = s])
  /\ UNCHANGED <<table, busy, closed, slot, reaping, closing, faults>>

NothingFree(t) == MayAcquire(t) /\ Idle = {} /\ ~Room

WaitForSlot(t) ==
  /\ NothingFree(t) /\ ~call[t].late
  /\ Becomes(t, [call[t] EXCEPT !.pc = "wait", !.woken = FALSE])
  /\ UNCHANGED <<table, busy, creating, closed, slot, reaping, closing, faults>>

AcquireTimesOut(t) ==
  /\ NothingFree(t) /\ call[t].late
  /\ Becomes(t, Ended)
  /\ UNCHANGED <<table, busy, creating, closed, slot, reaping, closing, faults>>

Wake(t) ==
  /\ At(t, "wait") /\ (call[t].woken \/ call[t].late)
  /\ Becomes(t, [call[t] EXCEPT !.pc = "acquire", !.woken = FALSE])
  /\ UNCHANGED <<table, busy, creating, closed, slot, reaping, closing, faults>>

CloseRetired(t) ==
  /\ At(t, "retire")
  /\ CloseSlot(Mine(t))
  /\ Becomes(t, [call[t] EXCEPT !.pc = "acquire", !.slot = None])
  /\ UNCHANGED <<table, busy, creating, closed, reaping, closing, faults>>

----------------------------------------------------------------------------
(* _acquire: starting a browser, outside the lock, and installing it.      *)

StartSucceeds(t) ==
  /\ At(t, "start")
  /\ slot' = [slot EXCEPT ![Mine(t)] = [Empty EXCEPT !.live = TRUE, !.kind = call[t].kind]]
  /\ Goto(t, "started")
  /\ UNCHANGED <<table, busy, creating, closed, reaping, closing, faults>>

\* The failure is not announced: a mutant.
StartFailsSilently(t) ==
  /\ At(t, "start")
  /\ Fault
  /\ creating' = creating - 1
  /\ Becomes(t, Ended)
  /\ UNCHANGED <<table, busy, closed, slot, reaping, closing>>

\* start closes what it has of the browser and raises.  Chromium() that raises
\* after its Chrome was spawned gives no handle: that Chrome is no slot's.
StartFails(t) ==
  /\ At(t, "start")
  /\ Fault
  /\ creating' = creating - 1
  /\ call' = AndNotify(t, Ended)
  /\ UNCHANGED <<table, busy, closed, slot, reaping, closing>>

\* The pool was closed meanwhile and the slot is installed all the same: a
\* mutant.
InstallAnyway(t) ==
  /\ At(t, "started")
  /\ creating' = creating - 1
  /\ table' = table \cup {Mine(t)}
  /\ busy' = busy \cup {Mine(t)}
  /\ Goto(t, "solve")
  /\ UNCHANGED <<closed, slot, reaping, closing, faults>>

\* The slot of a pool closed meanwhile is dropped but not closed: a mutant.
InstallDrops(t) ==
  /\ At(t, "started")
  /\ creating' = creating - 1
  /\ IF closed
     THEN Becomes(t, Ended) /\ UNCHANGED <<table, busy, faults>>
     ELSE /\ table' = table \cup {Mine(t)}
          /\ busy' = busy \cup {Mine(t)}
          /\ Goto(t, "solve")
  /\ UNCHANGED <<closed, slot, reaping, closing, faults>>

Install(t) ==
  /\ At(t, "started")
  /\ creating' = creating - 1
  /\ IF closed
     THEN CloseSlot(Mine(t)) /\ Becomes(t, Ended) /\ UNCHANGED <<table, busy, faults>>
     ELSE /\ table' = table \cup {Mine(t)}
          /\ busy' = busy \cup {Mine(t)}
          /\ Goto(t, "solve")
          /\ UNCHANGED slot
  /\ UNCHANGED <<closed, reaping, closing, faults>>

----------------------------------------------------------------------------
(* One attempt, and _release up to its lock: the task is counted and the   *)
(* recycle reason is read.                                                 *)

\* A slot that close took away counts on, but is Empty here.
Worked(b) == IF b.live THEN [b EXCEPT !.tasks = @ + 1] ELSE b

AttemptEnds(t, rebuild, again) ==
  LET b == Worked(slot[Mine(t)]) IN
  /\ At(t, "solve")
  /\ slot' = [slot EXCEPT ![Mine(t)] = b]
  /\ Becomes(t, [call[t] EXCEPT !.pc = "give", !.again = again,
                                !.recycle = rebuild \/ MustRecycle(b)])
  /\ UNCHANGED <<table, busy, creating, closed, reaping, closing, faults>>

\* A token, a failure not worth a retry, or too little time left to begin.
Finish(t) == AttemptEnds(t, FALSE, FALSE)

\* A failure that asks for a new browser, with no retry left.
FailRebuild(t) == ~call[t].late /\ AttemptEnds(t, TRUE, FALSE)

\* One attempt too many: a mutant.
RetryOneMore(t, rebuild) ==
  /\ ~call[t].late /\ call[t].attempt <= MaxAttempts
  /\ AttemptEnds(t, rebuild, TRUE)

Retry(t, rebuild) ==
  /\ ~call[t].late /\ call[t].attempt < MaxAttempts
  /\ AttemptEnds(t, rebuild, TRUE)

Released(c) == [c EXCEPT !.slot = None, !.recycle = FALSE, !.again = FALSE,
                         !.pc = IF c.again THEN "backoff" ELSE "done"]
Left(c) == IF c.again THEN Released(c) ELSE Ended

\* Nobody is woken: a mutant.
GiveBackSilently(t) ==
  /\ At(t, "give")
  /\ busy' = busy \ {Mine(t)}
  /\ IF call[t].recycle
     THEN table' = table \ {Mine(t)} /\ Goto(t, "dispose")
     ELSE Becomes(t, Left(call[t])) /\ UNCHANGED table
  /\ UNCHANGED <<creating, closed, slot, reaping, closing, faults>>

\* _release under the lock.
GiveBack(t) ==
  /\ At(t, "give")
  /\ busy' = busy \ {Mine(t)}
  /\ IF call[t].recycle
     THEN /\ table' = table \ {Mine(t)}
          /\ call' = AndNotify(t, [call[t] EXCEPT !.pc = "dispose"])
     ELSE /\ call' = AndNotify(t, Left(call[t]))
          /\ UNCHANGED table
  /\ UNCHANGED <<creating, closed, slot, reaping, closing, faults>>

Dispose(t) ==
  /\ At(t, "dispose")
  /\ CloseSlot(Mine(t))
  /\ Becomes(t, Left(call[t]))
  /\ UNCHANGED <<table, busy, creating, closed, reaping, closing, faults>>

\* The wait between two attempts ends early when the pool is closed.
BackoffEnds(t) ==
  /\ At(t, "backoff")
  /\ Becomes(t, IF closed THEN Ended
                ELSE [call[t] EXCEPT !.pc = "acquire", !.attempt = @ + 1])
  /\ UNCHANGED <<table, busy, creating, closed, slot, reaping, closing, faults>>

----------------------------------------------------------------------------
(* The maintenance thread, close, and what happens on its own.             *)

\* Any idle slots may be past their time to live.
Reap(S) ==
  /\ ~closed /\ reaping = {} /\ S \subseteq Idle /\ S # {}
  /\ table' = table \ S
  /\ reaping' = S
  /\ call' = NotifyAll
  /\ UNCHANGED <<busy, creating, closed, slot, closing, faults>>

CloseReaped(s) ==
  /\ s \in reaping
  /\ CloseSlot(s)
  /\ reaping' = reaping \ {s}
  /\ UNCHANGED <<table, busy, creating, closed, call, closing, faults>>

\* Only the idle slots are taken along: a mutant.
CloseIdleOnly ==
  /\ ~closed
  /\ closed' = TRUE
  /\ closing' = Idle
  /\ table' = {} /\ busy' = {}
  /\ call' = NotifyAll
  /\ UNCHANGED <<creating, slot, reaping, faults>>

\* The slots in use are taken along: their browsers are quit under the solves.
Close ==
  /\ ~closed
  /\ closed' = TRUE
  /\ closing' = table
  /\ table' = {} /\ busy' = {}
  /\ call' = NotifyAll
  /\ UNCHANGED <<creating, slot, reaping, faults>>

CloseTaken(s) ==
  /\ s \in closing
  /\ CloseSlot(s)
  /\ closing' = closing \ {s}
  /\ UNCHANGED <<table, busy, creating, closed, call, reaping, faults>>

Deadline(t) ==
  /\ ~At(t, "idle") /\ ~At(t, "done") /\ ~call[t].late
  /\ Fault
  /\ Becomes(t, [call[t] EXCEPT !.late = TRUE])
  /\ UNCHANGED <<table, busy, creating, closed, slot, reaping, closing>>

WearsOut(s) ==
  /\ slot[s].live /\ ~slot[s].worn
  /\ Fault
  /\ slot' = [slot EXCEPT ![s].worn = TRUE]
  /\ UNCHANGED <<table, busy, creating, closed, call, reaping, closing>>

----------------------------------------------------------------------------
Acquire(t) ==
  \/ AcquireRefused(t) \/ WaitForSlot(t) \/ AcquireTimesOut(t) \/ Wake(t)
  \/ \E s \in Slots : Reuse(t, s) \/ Retire(t, s) \/ Create(t, s)
  \/ CloseRetired(t)

Start(t) == StartSucceeds(t) \/ StartFails(t) \/ Install(t)

Solve(t) ==
  \/ Finish(t)
  \/ FailRebuild(t)
  \/ \E rebuild \in BOOLEAN : Retry(t, rebuild)
  \/ GiveBack(t) \/ Dispose(t) \/ BackoffEnds(t)

Progress(t) == Acquire(t) \/ Start(t) \/ Solve(t)

Next ==
  \/ \E t \in Threads : Progress(t) \/ Deadline(t) \/ \E k \in Kinds : CallSolve(t, k)
  \/ \E S \in SUBSET Slots : Reap(S)
  \/ \E s \in Slots : CloseReaped(s) \/ CloseTaken(s) \/ WearsOut(s)
  \/ Close

Spec == Init /\ [][Next]_vars

\* Every thread runs, a browser starts or fails to, a solve ends (its own
\* timeout) and a quit returns.  Nobody must call or close, and no deadline
\* need ever pass.
Fairness ==
  /\ \A t \in Threads : WF_vars(Progress(t))
  /\ \A s \in Slots : WF_vars(CloseReaped(s)) /\ WF_vars(CloseTaken(s))

FairSpec == Spec /\ Fairness

----------------------------------------------------------------------------
(* Properties *)

TypeOK ==
  /\ table \subseteq Slots /\ busy \subseteq Slots
  /\ reaping \subseteq Slots /\ closing \subseteq Slots
  /\ creating \in Nat /\ closed \in BOOLEAN /\ faults \in 0 .. MaxFaults
  /\ slot \in [Slots -> Slot]
  /\ call \in [Threads -> Call]

\* The threads that hold a slot which is not, or no longer, in the table.
Apart == {"retire", "started", "dispose"}

\* No Chrome the pool was given is ever forgotten: while it runs its slot is in the
\* table, or exactly somebody is about to install or to close it, whatever
\* close, the reaper and the requests do between each other's steps.
NoBrowserLost ==
  \A s \in Slots : slot[s].live =>
    \/ s \in table \cup reaping \cup closing
    \/ \E t \in Threads : call[t].pc \in Apart /\ Mine(t) = s

\* A browser is used by one request at a time, one of its own affinity (or by
\* one whose pool is being closed), and a busy slot has a user: no slot stays
\* marked busy after its request has gone.
OneUserPerBrowser ==
  /\ \A t, u \in Threads :
       call[t].pc \in Using /\ call[u].pc \in Using /\ Mine(t) = Mine(u) => t = u
  /\ \A t \in Threads : call[t].pc \in Using =>
       closed \/ (Mine(t) \in busy /\ slot[Mine(t)].kind = call[t].kind)
  /\ \A s \in busy : \E t \in Threads : call[t].pc \in Using /\ Mine(t) = s

\* Slots and browsers being started never exceed max_concurrency together, the
\* count of starts is what it should be, and a closed pool keeps no slot.
CapacityKept ==
  /\ creating = Cardinality({t \in Threads : call[t].pc \in {"start", "started"}})
  /\ Cardinality(table) + (IF closed THEN 0 ELSE creating) <= MaxConcurrency
  /\ closed => table = {}

\* A request sleeps only while the pool is full of busy slots: everything that
\* frees one, or room for one, has woken it.
NoLostWakeup ==
  \A t \in Threads : At(t, "wait") /\ ~call[t].woken =>
    ~closed /\ Idle = {} /\ ~Room

\* No browser is given more tasks than browser_max_tasks.
WithinTaskLimit ==
  \A t \in Threads : At(t, "solve") /\ slot[Mine(t)].live =>
    slot[Mine(t)].tasks < MaxTasks

\* What the pool promises.
InUseBy(s, t) == s \in table /\ call[t].pc \in Using /\ Mine(t) = s
Status == [s \in Slots |->
  IF s \in table
  THEN IF \E t \in Threads : InUseBy(s, t)
       THEN CHOOSE t \in Threads : InUseBy(s, t) ELSE "ready"
  ELSE IF slot[s].live /\ ~\E t \in Threads : At(t, "started") /\ Mine(t) = s
       THEN "doomed" ELSE None]

Fleet == INSTANCE BrowserFleet WITH
  status <- Status, shut <- closed, Absent <- None, Ready <- "ready", Doomed <- "doomed"

\* The table, the busy set and the threads implement the abstract fleet.
FleetImplemented == Fleet!Spec

\* A request ends although its deadline never passes: it is served or refused
\* once the others have ended, because every release wakes it.
EveryCallEnds == \A t \in Threads : At(t, "acquire") ~> At(t, "done")

\* When close has run, every browser the pool was given is quit in the end,
\* those in use and those being started included.
CloseLeavesNoBrowser == closed ~> \A s \in Slots : ~slot[s].live

\* What the pool keeps between its critical sections: browsers are not lost,
\* shared, too many or overused, and nobody sleeps beside a free one.
BrowsersSafe ==
  /\ TypeOK
  /\ NoBrowserLost
  /\ OneUserPerBrowser
  /\ CapacityKept
  /\ NoLostWakeup
  /\ WithinTaskLimit
=============================================================================
