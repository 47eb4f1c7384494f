------------------------------ MODULE TickRace ------------------------------
(***************************************************************************)
(* Who may run BatchRunner.tick at the same time.  In the terminal front   *)
(* ends one thread ticks and stops the batch.  In the web UI               *)
(* BatchService.poll takes no lock: the poller thread, every request that  *)
(* polls (webui_app.py) and stop_run tick the same runner concurrently.    *)
(*                                                                         *)
(* The thread switches are those of CPython 3.10 and later, at calls and   *)
(* loop heads: a test and the assignment next to it are one step, anything *)
(* separated by a call (process.poll, WorkerState(), Popen, a release) is  *)
(* not.  Proxies, pauses and failures are left out (BatchRunner has them): *)
(* a process ends well, a plan counts its tasks.                           *)
(***************************************************************************)
EXTENDS Integers, FiniteSets, FiniteSetsExt

CONSTANTS
  Pollers,      \* threads that call poll
  Stopper,      \* the thread that calls stop_run, once
  NumWorkers,   \* plan.workers
  Count,        \* plan.count
  MaxTasks      \* bound on the worker objects created

ASSUME RaceAssumption ==
  /\ IsFiniteSet(Pollers) /\ Stopper \notin Pollers
  /\ NumWorkers \in Nat \ {0} /\ Count \in Nat \ {0} /\ MaxTasks \in Nat \ {0}

Threads == Pollers \cup {Stopper}
Tasks == 1..MaxTasks

VARIABLES
  web,       \* the front end, fixed as well: a terminal has one thread, of
             \* which the pollers and the stopper stand for the calls
  convert,   \* run_mode = RUN_MODE_REGISTER_SSO, fixed when the batch starts
  st,        \* status of each worker object, in creation order
  index,     \* its index attribute; 0 before it exists
  proc,      \* worker.process is set
  alive,     \* processes that run, whoever still refers to them
  killed,    \* those of them that were sent terminate
  launched,  \* workers whose process was ever started
  convs,     \* conversion threads running for each index
  events,    \* __CONVERT_DONE__ events in the queue, by index
  byIndex,   \* worker_by_index
  nextIndex, started, succeeded, stopped, phase, stopping,
  pc, todo, cur, seen

shared == <<convert, st, index, proc, alive, killed, launched, convs, events,
            byIndex, nextIndex, started, succeeded, stopped, phase, stopping>>
vars == <<web, shared, pc, todo, cur, seen>>

Terminal == {"succeeded", "stopped"}
Created == {o \in Tasks : st[o] # "none"}
Active == {o \in Tasks : st[o] \in {"running", "converting"}}
\* Mutant of ShouldRefill: one task too many.
ShouldRefillOneMore == phase = "running" /\ ~stopping /\ started <= Count
ShouldRefill == phase = "running" /\ ~stopping /\ started < Count

Init ==
  /\ web \in BOOLEAN
  /\ convert \in BOOLEAN
  /\ st = [o \in Tasks |-> "none"]
  /\ index = [o \in Tasks |-> 0]
  /\ proc = [o \in Tasks |-> FALSE]
  /\ alive = {} /\ killed = {} /\ launched = {}
  /\ convs = [k \in Tasks |-> 0]
  /\ events = [k \in Tasks |-> 0]
  /\ byIndex = [k \in Tasks |-> 0]
  /\ nextIndex = 1 /\ started = 0 /\ succeeded = 0 /\ stopped = 0
  /\ phase = "running" /\ stopping = FALSE
  /\ pc = [t \in Threads |-> "idle"]
  /\ todo = [t \in Threads |-> {}]
  /\ cur = [t \in Threads |-> 0]
  /\ seen = [t \in Threads |-> 0]

Goto(t, l) == pc' = [pc EXCEPT ![t] = l]

\* The worker in hand is not used again.
Forget(t) == cur' = [cur EXCEPT ![t] = 0]

\* poll takes no lock; stop_run's lock excludes only start_run and itself.
MayEnter(t) == ~web => \A u \in Threads : pc[u] \in {"idle", "over"}

\* _mark_terminal: one uninterrupted test and update.
MarkTerminal(o, status) ==
  IF st[o] \in Terminal
    THEN st' = [st EXCEPT ![o] = status] /\ UNCHANGED <<succeeded, stopped>>
    ELSE /\ st' = [st EXCEPT ![o] = status]
         /\ succeeded' = succeeded + IF status = "succeeded" THEN 1 ELSE 0
         /\ stopped' = stopped + IF status = "stopped" THEN 1 ELSE 0

-----------------------------------------------------------------------------
(* tick: _drain_events and _check_processes *)

TickBegin(t) ==
  /\ pc[t] = "idle" /\ t # Stopper /\ phase # "done" /\ MayEnter(t)
  /\ Goto(t, "drain")
  /\ UNCHANGED <<shared, todo, cur, seen>>

DrainEvent(t, k) ==
  /\ pc[t] = "drain" /\ events[k] > 0
  /\ events' = [events EXCEPT ![k] = @ - 1]
  /\ MarkTerminal(byIndex[k], "succeeded")
  /\ UNCHANGED <<convert, index, proc, alive, killed, launched, convs, byIndex,
                 nextIndex, started, phase, stopping, pc, todo, cur, seen>>

DrainEnd(t) ==
  /\ pc[t] = "drain" /\ \A k \in Tasks : events[k] = 0
  /\ todo' = [todo EXCEPT ![t] = Created]
  /\ Goto(t, "check")
  /\ UNCHANGED <<shared, cur, seen>>

Pollable(t) == {o \in todo[t] : st[o] = "running" /\ proc[o]}

\* The status test, then the call of process.poll.
CheckNext(t) ==
  /\ pc[t] = "check" /\ Pollable(t) # {}
  /\ cur' = [cur EXCEPT ![t] = Min(Pollable(t))]
  /\ todo' = [todo EXCEPT ![t] = @ \ {Min(Pollable(t))}]
  /\ Goto(t, "poll")
  /\ UNCHANGED <<shared, seen>>

\* poll returns: nothing for a live process, else the reference is dropped.
PollReturns(t) ==
  /\ pc[t] = "poll"
  /\ IF cur[t] \in alive
       THEN Goto(t, "check") /\ Forget(t) /\ UNCHANGED proc
       ELSE /\ UNCHANGED cur
            /\ proc' = [proc EXCEPT ![cur[t]] = FALSE]
            /\ Goto(t, IF stopping THEN "markstop"
                       ELSE IF convert THEN "convert" ELSE "markok")
  /\ UNCHANGED <<convert, st, index, alive, killed, launched, convs, events, byIndex,
                 nextIndex, started, succeeded, stopped, phase, stopping,
                 todo, seen>>

MarkEnded(t) ==
  /\ pc[t] \in {"markstop", "markok"}
  /\ MarkTerminal(cur[t], IF pc[t] = "markstop" THEN "stopped" ELSE "succeeded")
  /\ Goto(t, "check") /\ Forget(t)
  /\ UNCHANGED <<convert, index, proc, alive, killed, launched, convs, events, byIndex,
                 nextIndex, started, phase, stopping, todo, seen>>

\* Mutant of StartConvert: the success is counted when the conversion starts.
StartConvertCounts(t) ==
  /\ pc[t] = "convert"
  /\ st' = [st EXCEPT ![cur[t]] = "converting"]
  /\ succeeded' = succeeded + 1
  /\ convs' = [convs EXCEPT ![index[cur[t]]] = @ + 1]
  /\ Goto(t, "check") /\ Forget(t)
  /\ UNCHANGED <<convert, index, proc, alive, killed, launched, events, byIndex,
                 nextIndex, started, stopped, phase, stopping, todo, seen>>

\* _start_sso_convert assigns the status whatever it was.
StartConvert(t) ==
  /\ pc[t] = "convert"
  /\ st' = [st EXCEPT ![cur[t]] = "converting"]
  /\ convs' = [convs EXCEPT ![index[cur[t]]] = @ + 1]
  /\ Goto(t, "check") /\ Forget(t)
  /\ UNCHANGED <<convert, index, proc, alive, killed, launched, events, byIndex,
                 nextIndex, started, succeeded, stopped, phase, stopping,
                 todo, seen>>

CheckEnd(t) ==
  /\ pc[t] = "check" /\ Pollable(t) = {}
  /\ todo' = [todo EXCEPT ![t] = {}]
  /\ phase' = IF phase = "running" /\ ~ShouldRefill THEN "draining" ELSE phase
  /\ Goto(t, "refill")
  /\ UNCHANGED <<convert, st, index, proc, alive, killed, launched, convs, events,
                 byIndex, nextIndex, started, succeeded, stopped, stopping, cur, seen>>

-----------------------------------------------------------------------------
(* tick: _spawn_available and _finalize *)

HasSlot == Cardinality(Active) < NumWorkers /\ Cardinality(Created) < MaxTasks

\* Mutant of Refill: the free slots are not looked at.
RefillUnbounded(t) ==
  /\ pc[t] = "refill" /\ ShouldRefill /\ Cardinality(Created) < MaxTasks
  /\ seen' = [seen EXCEPT ![t] = nextIndex]
  /\ Goto(t, "create")
  /\ UNCHANGED <<shared, todo, cur>>

\* The loop condition, then the call of WorkerState with the index read here.
Refill(t) ==
  /\ pc[t] = "refill" /\ ShouldRefill /\ HasSlot
  /\ seen' = [seen EXCEPT ![t] = nextIndex]
  /\ Goto(t, "create")
  /\ UNCHANGED <<shared, todo, cur>>

CreateWorker(t) ==
  /\ pc[t] = "create"
  /\ LET o == Cardinality(Created) + 1
     IN  IF o > MaxTasks
           THEN Goto(t, "refill") /\ UNCHANGED <<st, index, byIndex, nextIndex, cur>>
           ELSE /\ st' = [st EXCEPT ![o] = "queued"]
                /\ index' = [index EXCEPT ![o] = seen[t]]
                /\ byIndex' = [byIndex EXCEPT ![seen[t]] = o]
                /\ nextIndex' = nextIndex + 1
                /\ cur' = [cur EXCEPT ![t] = o]
                /\ Goto(t, "popen")
  /\ seen' = [seen EXCEPT ![t] = 0]
  /\ UNCHANGED <<convert, proc, alive, killed, launched, convs, events, started,
                 succeeded, stopped, phase, stopping, todo>>

\* Popen returned: _spawn_one assigns process and status whatever they were.
PopenReturns(t) ==
  /\ pc[t] = "popen"
  /\ st' = [st EXCEPT ![cur[t]] = "running"]
  /\ proc' = [proc EXCEPT ![cur[t]] = TRUE]
  /\ alive' = alive \cup {cur[t]}
  /\ launched' = launched \cup {cur[t]}
  /\ Goto(t, "count")
  /\ UNCHANGED <<convert, index, killed, convs, events, byIndex, nextIndex, started,
                 succeeded, stopped, phase, stopping, todo, cur, seen>>

\* Mutant of CountStart: started_tasks is not raised.
CountForgets(t) ==
  /\ pc[t] = "count"
  /\ Goto(t, "refill") /\ Forget(t)
  /\ UNCHANGED <<shared, todo, seen>>

CountStart(t) ==
  /\ pc[t] = "count"
  /\ started' = started + 1
  /\ Goto(t, "refill") /\ Forget(t)
  /\ UNCHANGED <<convert, st, index, proc, alive, killed, launched, convs, events,
                 byIndex, nextIndex, succeeded, stopped, phase, stopping,
                 todo, seen>>

TickEnd(t) ==
  /\ pc[t] = "refill" /\ ~(ShouldRefill /\ HasSlot)
  /\ phase' = IF Active = {} /\ ~ShouldRefill THEN "done" ELSE phase
  /\ Goto(t, IF t = Stopper THEN "over" ELSE "idle")
  /\ UNCHANGED <<convert, st, index, proc, alive, killed, launched, convs, events,
                 byIndex, nextIndex, started, succeeded, stopped, stopping,
                 todo, cur, seen>>

-----------------------------------------------------------------------------
(* stop_run: stop, then a tick of its own *)

StopBegin ==
  /\ pc[Stopper] = "idle" /\ phase # "done" /\ MayEnter(Stopper)
  /\ stopping' = TRUE
  /\ phase' = "draining"
  /\ Goto(Stopper, "stopall")
  /\ UNCHANGED <<convert, st, index, proc, alive, killed, launched, convs, events,
                 byIndex, nextIndex, started, succeeded, stopped, todo, cur, seen>>

\* The first pass over the workers: those that are queued end here.
StopQueued ==
  /\ pc[Stopper] = "stopall"
  /\ LET queued == {o \in Tasks : st[o] = "queued"}
     IN  /\ st' = [o \in Tasks |-> IF o \in queued THEN "stopped" ELSE st[o]]
         /\ stopped' = stopped + Cardinality(queued)
  /\ Goto(Stopper, "terminate")
  /\ UNCHANGED <<convert, index, proc, alive, killed, launched, convs, events, byIndex,
                 nextIndex, started, succeeded, phase, stopping, todo, cur, seen>>

\* Mutant of StopRunning: nothing is terminated.
StopKillsNobody ==
  /\ pc[Stopper] = "terminate"
  /\ Goto(Stopper, "drain")
  /\ UNCHANGED <<shared, todo, cur, seen>>

\* The second pass: those that run by then are sent terminate.
StopRunning ==
  /\ pc[Stopper] = "terminate"
  /\ killed' = killed \cup {o \in alive : st[o] = "running" /\ proc[o]}
  /\ Goto(Stopper, "drain")
  /\ UNCHANGED <<convert, st, index, proc, alive, launched, convs, events, byIndex,
                 nextIndex, started, succeeded, stopped, phase, stopping, todo, cur, seen>>

-----------------------------------------------------------------------------
ProcessExits(o) ==
  /\ o \in alive
  /\ alive' = alive \ {o} /\ killed' = killed \ {o}
  /\ UNCHANGED <<convert, st, index, proc, launched, convs, events, byIndex,
                 nextIndex, started, succeeded, stopped, phase, stopping,
                 pc, todo, cur, seen>>

ConvertEnds(k) ==
  /\ convs[k] > 0
  /\ convs' = [convs EXCEPT ![k] = @ - 1]
  /\ events' = [events EXCEPT ![k] = @ + 1]
  /\ UNCHANGED <<convert, st, index, proc, alive, killed, launched, byIndex, nextIndex,
                 started, succeeded, stopped, phase, stopping, pc, todo, cur, seen>>

Step(t) ==
  \/ TickBegin(t) \/ DrainEnd(t) \/ CheckNext(t) \/ PollReturns(t)
  \/ MarkEnded(t) \/ StartConvert(t) \/ CheckEnd(t) \/ Refill(t)
  \/ CreateWorker(t) \/ PopenReturns(t) \/ CountStart(t) \/ TickEnd(t)
  \/ \E k \in Tasks : DrainEvent(t, k)

Next ==
  /\ \/ \E t \in Threads : Step(t)
     \/ StopBegin \/ StopQueued \/ StopRunning
     \/ \E o \in Tasks : ProcessExits(o) \/ ConvertEnds(o)
  /\ UNCHANGED web

Spec == Init /\ [][Next]_vars

-----------------------------------------------------------------------------
Labels == {"idle", "drain", "check", "poll", "markstop", "markok", "convert",
           "refill", "create", "popen", "count", "stopall", "terminate", "over"}

\* The most that the other threads can have under way when one decides.
Others == IF web THEN Cardinality(Pollers) - 1 ELSE 0
InFlight == IF web THEN Cardinality(Pollers) ELSE 0

\* The values of the runner's fields and of the threads inside it.
TypeOK ==
  /\ {web, convert} \subseteq BOOLEAN
  /\ st \in [Tasks -> {"none", "queued", "running", "converting"} \cup Terminal]
  /\ index \in [Tasks -> 0..MaxTasks] /\ byIndex \in [Tasks -> 0..MaxTasks]
  /\ proc \in [Tasks -> BOOLEAN]
  /\ killed \subseteq alive /\ alive \subseteq launched
  /\ launched \subseteq Created
  /\ convs \in [Tasks -> Nat] /\ events \in [Tasks -> Nat]
  /\ pc \in [Threads -> Labels]
  /\ todo \in [Threads -> SUBSET Tasks] /\ cur \in [Threads -> 0..MaxTasks]
  /\ nextIndex \in 1..MaxTasks + 1
  /\ started \in 0..Count + Others /\ succeeded \in Nat /\ stopped \in Nat
  /\ phase \in {"running", "draining", "done"} /\ stopping \in BOOLEAN
  /\ seen \in [Threads -> 0..MaxTasks]

\* Never more live workers than worker slots, in the web UI up to one more for
\* every other thread that polls.
CapRespected == Cardinality(Active) <= NumWorkers + Others

\* A batch of plan.count tasks starts plan.count processes, in the web UI up to
\* one more for every other thread that polls, however often they do.
LaunchedWithinCount == Cardinality(launched) <= Count + Others

\* The counters count each ended worker exactly once.
CountedOnce ==
  ~web => succeeded + stopped = Cardinality({o \in Tasks : st[o] \in Terminal})

\* When the operator's stop has returned, no process of a worker that counts as
\* active runs on without having been told to terminate; in the web UI at most
\* one for every thread that polls.  A process whose worker was taken for ended
\* is not told, and that happens only when polls that overlap gave the number
\* of its worker to another one as well (3600, 3655): the end of a conversion
\* is booked under the number.
StopReachesAll ==
  /\ pc[Stopper] = "over" =>
       Cardinality({o \in alive \ killed : st[o] \notin Terminal}) <= InFlight
  /\ \A o \in alive : st[o] \in Terminal =>
       \E d \in Created \ {o} : index[d] = index[o]

\* However the polls overlap, slots and plan hold, exactly in a terminal and
\* with a slack of one for each other polling thread in the web UI.
WithinLimits ==
  /\ TypeOK
  /\ CapRespected
  /\ LaunchedWithinCount
=============================================================================
