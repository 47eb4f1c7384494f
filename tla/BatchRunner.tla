----------------------------- MODULE BatchRunner -----------------------------
(***************************************************************************)
(* BatchRunner (http_batch_service.py): the scheduler of one registration  *)
(* batch.  It starts with a test of the pool entries it is to stick to and *)
(* with a Turnstile broker; then a single thread calls tick over and over. *)
(* A tick drains the results of background conversions, polls the worker   *)
(* processes, keeps the refill gate (proxy health, failure circuit,        *)
(* pauses) up to date, refills free worker slots and finalizes the run.    *)
(* Processes, conversions, timers and proxies move on their own between    *)
(* any two of its steps.  The operator's stop comes between ticks.         *)
(*                                                                         *)
(* Worker indices, which only grow in the code, are abstracted to the      *)
(* worker slot a task occupies; a terminal worker survives only in the     *)
(* counters.  Exits stands for the egress routes of the plan: the nodes of *)
(* the embedded proxy, shared by workers, and the entries of the HTTP      *)
(* pool, leased exclusively (ProxyRotator, proxy_pool.py).  A hybrid plan  *)
(* has both; which of the two kinds it tries first is left open.           *)
(***************************************************************************)
EXTENDS Integers, Sequences, FiniteSets

CONSTANTS
  NumWorkers,     \* plan.workers
  Exits,          \* the routes the plan's egress offers
  MaxRetries,     \* embedded_proxy_max_node_retries
  CircuitWindow,  \* CIRCUIT_WINDOW_SIZE
  MaxFaults,      \* bound: failing exits, launch errors and route failures
  Plans,          \* the plans a batch may be started with
  None

\* The fields of RunPlan the scheduler reads: target_mode (continuous or
\* count), count for count mode, target_success (0 = no target) and whether
\* continuous_max_runtime_min is positive for continuous mode, whether
\* run_mode is RUN_MODE_REGISTER_SSO, the kind of egress, and which of its
\* routes are entries of the HTTP pool.
RunPlan ==
  [continuous : BOOLEAN, count : Nat \ {0}, target : Nat, limited : BOOLEAN,
   convert : BOOLEAN, egress : {"none", "embedded", "pool", "sticky", "hybrid"},
   entries : SUBSET Exits]

ASSUME BatchAssumption ==
  /\ NumWorkers \in Nat \ {0}
  /\ MaxRetries \in Nat \ {0} /\ CircuitWindow \in Nat \ {0}
  /\ MaxFaults \in Nat
  /\ Plans \subseteq RunPlan
  /\ IsFiniteSet(Exits) /\ None \notin Exits

Wids == 1..NumWorkers

VARIABLES
  plan,      \* plan, fixed when the batch starts
  w,         \* the live workers, by slot
  held,      \* what the proxy manager or rotator believes: who holds a route
  bad,       \* routes unhealthy or cooling down
  cooled,    \* nodes whose cooldown is over: bad until a probe finds them well
  tally,     \* started_tasks and the terminal counters
  outcomes,  \* _outcome_window
  gate,      \* the refill gate: see GateState
  retryQ,    \* _static_proxy_retry_queue
  phase,     \* phase; "done" is also done = TRUE
  stopping,  \* stopping
  at,        \* where the tick is; "idle" between ticks
  todo,      \* workers _check_processes has not polled yet in this sweep
  tries,     \* attempts made by this _spawn_available
  timeUp,    \* the maximum run time has passed
  stallDue,  \* CONTINUOUS_STALL_RECOVERY_SEC without progress or recovery
  faults     \* how much of MaxFaults the environment has used

vars == <<plan, w, held, bad, cooled, tally, outcomes, gate, retryQ, phase, stopping,
          at, todo, tries, timeUp, stallDue, faults>>
batch == <<plan, w, held, tally, outcomes, retryQ>>
place == <<phase, at, todo, tries>>
routes == <<bad, cooled>>

WorkerState ==
  [st : {"free", "running", "exited", "converting", "converted"},
   out : {"none", "ok", "fail", "egress", "solver"},
   attempt : 0..MaxRetries,      \* proxy_attempt
   route : Exits \cup {None},    \* proxy_node_id or manual_proxy
   tried : SUBSET Exits]         \* tried_node_ids

FreeSlot == [st |-> "free", out |-> "none", attempt |-> 0, route |-> None,
             tried |-> {}]

\* refill_paused and refill_pause_until ("hold" is the sentinel 24 h ahead,
\* beyond the horizon of the model); whether the reason names the embedded
\* proxy; circuit_open; _proxy_unhealthy; whether 15 s have passed since the
\* last health check.
GateState ==
  [pause : {"none", "timed", "expired", "hold"},
   why : {"", "embedded", "other"},
   circuit : BOOLEAN, unhealthy : BOOLEAN, due : BOOLEAN]

Continuous == plan.continuous
Egress == plan.egress
Embedded == Egress \in {"embedded", "hybrid"}
Entry(e) == e \in plan.entries
Active == {i \in Wids : w[i].st # "free"}
Ready == Exits \ (bad \cup plan.entries) # {}   \* a node is healthy
Ended == {"done", "refused"}

-----------------------------------------------------------------------------
(* Refill gate: functions from gate to gate, composed within a step. *)

PauseRefill(g, hold, why) ==
  [g EXCEPT !.pause = IF hold \/ @ = "hold" THEN "hold" ELSE "timed",
            !.why = why]

ClearPause(g) == [g EXCEPT !.pause = "none", !.why = ""]

Fails(win) == Cardinality({k \in DOMAIN win : ~win[k]})

\* rate >= CIRCUIT_FAIL_RATE (0.8) over a full window
TooManyFails(win) == Len(win) >= CircuitWindow /\ 5 * Fails(win) >= 4 * Len(win)

MaybeTripCircuit(g, win) ==
  IF TooManyFails(win)
    THEN [PauseRefill(g, FALSE, "other") EXCEPT !.circuit = TRUE]
  ELSE IF Len(win) >= CircuitWindow /\ 2 * Fails(win) <= Len(win)
    THEN [g EXCEPT !.circuit = FALSE]
  ELSE g

EvaluateProxyHealth(g, force) ==
  IF ~Embedded THEN [g EXCEPT !.unhealthy = FALSE]
  ELSE IF phase # "running" \/ ~(force \/ g.due) THEN g
  ELSE IF ~Ready /\ plan.entries = {}
    THEN PauseRefill([g EXCEPT !.due = FALSE, !.unhealthy = TRUE], TRUE, "embedded")
  ELSE IF ~g.unhealthy /\ g.why # "embedded"
    THEN [g EXCEPT !.due = FALSE]
  ELSE LET h == [g EXCEPT !.due = FALSE, !.unhealthy = FALSE]
       IN  IF h.circuit
             THEN [h EXCEPT !.why = IF @ = "embedded" /\ Ready THEN "other" ELSE @]
             ELSE ClearPause(h)

\* Mutant of RefillPause: an expired circuit pause is dropped without another
\* look at the outcomes.
RefillPauseForgetsCircuit(g0) ==
  LET g == EvaluateProxyHealth(g0, FALSE)
  IN  IF g.pause = "none" THEN [gate |-> g, on |-> FALSE]
      ELSE IF g.unhealthy \/ g.pause # "expired" THEN [gate |-> g, on |-> TRUE]
      ELSE [gate |-> ClearPause([g EXCEPT !.circuit = FALSE]), on |-> FALSE]

\* Mutant of RefillPause: a timed pause does not clear by itself.
RefillPauseSticks(g0) ==
  LET g == EvaluateProxyHealth(g0, FALSE) IN [gate |-> g, on |-> g.pause # "none"]

\* _refill_pause_active: the new gate and whether refilling must wait.
RefillPause(g0) ==
  LET g == EvaluateProxyHealth(g0, FALSE)
  IN  IF g.pause = "none" THEN [gate |-> g, on |-> FALSE]
      ELSE IF g.unhealthy \/ g.pause # "expired" THEN [gate |-> g, on |-> TRUE]
      ELSE IF g.circuit /\ TooManyFails(outcomes)
        THEN [gate |-> PauseRefill(g, FALSE, "other"), on |-> TRUE]
      ELSE [gate |-> ClearPause([g EXCEPT !.circuit = FALSE]), on |-> FALSE]

-----------------------------------------------------------------------------
(* Counters *)

\* Mutant of ShouldRefill: one task too many.
ShouldRefillOneMore ==
  /\ phase = "running"
  /\ ~stopping
  /\ IF Continuous
       THEN (plan.target = 0 \/ tally.succeeded < plan.target) /\ ~timeUp
       ELSE tally.started <= plan.count

ShouldRefill ==
  /\ phase = "running"
  /\ ~stopping
  /\ IF Continuous
       THEN (plan.target = 0 \/ tally.succeeded < plan.target) /\ ~timeUp
       ELSE tally.started < plan.count

\* Mutant of Bump: stopped tasks are not counted.
BumpSkipsStopped(t, status) ==
  CASE status = "succeeded" -> [t EXCEPT !.succeeded = @ + 1]
    [] status = "failed"    -> [t EXCEPT !.failed = @ + 1]
    [] status = "stopped"   -> t

Bump(t, status) ==
  CASE status = "succeeded" -> [t EXCEPT !.succeeded = @ + 1]
    [] status = "failed"    -> [t EXCEPT !.failed = @ + 1]
    [] status = "stopped"   -> [t EXCEPT !.stopped = @ + 1]

\* Mutant of Recorded: the window is never trimmed.
RecordedUntrimmed(status) ==
  IF status = "stopped" THEN outcomes ELSE Append(outcomes, status = "succeeded")

\* The outcome window after a terminal status; "stopped" is no outcome.
Recorded(status) ==
  IF status = "stopped" THEN outcomes
  ELSE LET win == Append(outcomes, status = "succeeded")
       IN  IF Len(win) > CircuitWindow THEN Tail(win) ELSE win

\* _mark_terminal of the worker in slot i; t is the tally it adds to.
MarkTerminal(i, status, t) ==
  /\ w' = [w EXCEPT ![i] = FreeSlot]
  /\ tally' = Bump(t, status)
  /\ outcomes' = Recorded(status)
  /\ stallDue' = FALSE

\* ... and what it does to the gate.
GateAfter(g, status) ==
  IF status = "stopped" THEN g ELSE MaybeTripCircuit(g, Recorded(status))

-----------------------------------------------------------------------------
(* Routes *)

\* Mutant of Leasable: an entry someone holds is offered again.
LeasableShared(h, b) == plan.entries \ b

\* acquire_lease: an entry that is healthy and not bound, or none.
Leasable(h, b) == {e \in plan.entries \ b : h[e] = {}}

\* What acquiring a route may come to for a worker that has tried some nodes,
\* when h says who holds the routes, b which are bad and d which have cooled.
\* Healthy nodes go first.  Without one the cooled nodes are probed, all of
\* them: those that do well are healthy, the others cool down again.  A hybrid
\* plan turns to its other kind of route before or after that.  The route may
\* be None; a round with a failing probe is one of the MaxFaults.
Acquired(h, b, d, tried) ==
  LET healthy == {e \in Exits \ (b \cup tried) : ~Entry(e)}
      Lent(wells) == IF wells \ tried # {} THEN wells \ tried
                     ELSE IF Leasable(h, b) # {} THEN Leasable(h, b) ELSE {None}
  IN  [route : healthy \cup Leasable(h, b), bad : {b}, cooled : {d}, cost : {0}]
      \cup IF healthy # {} THEN {}
           ELSE UNION {[route : Lent(wells), bad : {b \ wells}, cooled : {{}},
                        cost : {IF wells = d THEN 0 ELSE 1}] : wells \in SUBSET d}

\* Releasing slot i's route with a verdict on the route.
HeldWithout(i) == [e \in Exits |-> held[e] \ {i}]

\* A cooldown for the route, longer the more it has failed in a row.
MarkBad(route) == bad \cup ({route} \ {None})

BadAfter(i, verdict) ==
  IF verdict = "bad" THEN MarkBad(w[i].route)
  ELSE IF verdict = "good" /\ Entry(w[i].route) THEN bad \ {w[i].route}
  ELSE bad

\* A node that fails has to cool down anew.
CooledAfter(i, verdict) ==
  IF verdict = "bad" THEN cooled \ {w[i].route} ELSE cooled

Release(i, verdict) ==
  /\ held' = HeldWithout(i)
  /\ bad' = BadAfter(i, verdict)
  /\ cooled' = CooledAfter(i, verdict)

\* A shortage reason names the embedded proxy exactly when it is in use.
ShortageWhy == IF Embedded THEN "embedded" ELSE "other"

\* When a launch fails after the route was acquired, the code blames the
\* route or not, depending on the kind of route and on where it failed.
Blames(e) == IF Entry(e) THEN {"bad"} ELSE {"none", "bad"}

\* Failures come out of a bounded supply.
Spend(n) == faults + n <= MaxFaults /\ faults' = faults + n

Init ==
  /\ plan \in Plans
  /\ w = [i \in Wids |-> FreeSlot]
  /\ held = [e \in Exits |-> {}]
  /\ bad = {} /\ cooled = {}
  /\ tally = [started |-> 0, succeeded |-> 0, failed |-> 0, stopped |-> 0]
  /\ outcomes = <<>>
  /\ gate = [pause |-> "none", why |-> "", circuit |-> FALSE,
             unhealthy |-> FALSE, due |-> TRUE]
  /\ retryQ = <<>>
  /\ phase = "starting"
  /\ stopping = FALSE
  /\ at = "preflight"
  /\ todo = {}
  /\ tries = 0
  /\ timeUp = FALSE
  /\ stallDue = FALSE
  /\ faults = 0

-----------------------------------------------------------------------------
(* start *)

\* start raises, and the batch is as if it had never been.
Refuse ==
  /\ phase' = "refused"
  /\ at' = "idle"

\* The entries of a sticky pool, frozen for the batch.
Snapshot == IF Egress = "sticky" THEN plan.entries ELSE {}

\* Each of them is probed: it must reach the sign-up page and the token
\* service of Microsoft, in a few tries each.
FailedProbes == SUBSET Snapshot

\* What fails is isolated; with nothing left there is no batch.
Preflight ==
  /\ at = "preflight"
  /\ bad' \in FailedProbes
  /\ IF Snapshot # {} /\ bad' = Snapshot
       THEN Refuse
       ELSE at' = "broker" /\ UNCHANGED phase
  /\ UNCHANGED <<batch, cooled, gate, stopping, todo, tries, timeUp, stallDue, faults>>

\* The shared Turnstile broker, if the batch manages one, is up within 45 s
\* or killed.  start ends with a _spawn_available of its own.
StartBroker ==
  /\ at = "broker"
  /\ \/ phase' = "running" /\ at' = "spawn"
     \/ Refuse
  /\ UNCHANGED <<batch, routes, gate, stopping, todo, tries, timeUp, stallDue, faults>>

-----------------------------------------------------------------------------
(* tick, first half: _drain_events and _check_processes *)

TickBegin ==
  /\ at = "idle" /\ phase \notin Ended
  /\ at' = "drain"
  /\ UNCHANGED <<batch, routes, gate, phase, stopping, todo, tries, timeUp, stallDue, faults>>

\* One __CONVERT_DONE__ event.
DrainEvent(i) ==
  /\ at = "drain"
  /\ w[i].st = "converted"
  /\ LET status == IF w[i].out = "ok" THEN "succeeded"
                   ELSE IF stopping THEN "stopped" ELSE "failed"
     IN  /\ MarkTerminal(i, status, tally)
         /\ gate' = GateAfter(gate, status)
  /\ UNCHANGED <<plan, held, routes, retryQ, phase, stopping, at, todo, tries, timeUp,
                 faults>>

DrainEnd ==
  /\ at = "drain"
  /\ \A i \in Wids : w[i].st # "converted"
  /\ at' = "check"
  /\ todo' = {i \in Wids : w[i].st \in {"running", "exited"}}
  /\ UNCHANGED <<batch, routes, gate, phase, stopping, tries, timeUp, stallDue, faults>>

Polled(i) ==
  /\ at = "check"
  /\ i \in todo
  /\ w[i].st = "exited"
  /\ todo' = todo \ {i}
  /\ UNCHANGED <<plan, phase, stopping, at, tries, timeUp>>

CheckStopped(i) ==
  /\ Polled(i)
  /\ stopping
  /\ MarkTerminal(i, "stopped", tally)
  /\ Release(i, "none")
  /\ UNCHANGED <<gate, retryQ, faults>>

CheckSucceeded(i) ==
  /\ Polled(i)
  /\ ~stopping /\ w[i].out = "ok"
  /\ Release(i, "good")
  /\ IF plan.convert
       THEN /\ w' = [w EXCEPT ![i] = [FreeSlot EXCEPT !.st = "converting"]]
            /\ UNCHANGED <<tally, outcomes, gate, stallDue>>
       ELSE /\ MarkTerminal(i, "succeeded", tally)
            /\ gate' = GateAfter(gate, "succeeded")
  /\ UNCHANGED <<retryQ, faults>>

\* Mutants of EgressFailure (a stopped run retries too) and of BudgetLeft (one
\* attempt too many).
EgressFailureAnyway(i) == w[i].out = "egress"
BudgetLeftOneMore(i) == w[i].attempt <= MaxRetries

\* _maybe_retry_proxy_node takes the failure over only if it looks like an
\* egress failure and the attempt budget lasts.
EgressFailure(i) == ~stopping /\ w[i].out = "egress"
BudgetLeft(i) == w[i].attempt < MaxRetries

CheckFailed(i) ==
  /\ Polled(i)
  /\ ~stopping /\ w[i].out # "ok"
  /\ EgressFailure(i) => ~BudgetLeft(i)
  /\ MarkTerminal(i, "failed", tally)
  /\ gate' = GateAfter(gate, "failed")
  /\ \E verdict \in IF w[i].out = "egress" THEN {"bad"}
                     ELSE IF w[i].out = "fail"
                       THEN {IF Entry(w[i].route) THEN "bad" ELSE "none"}
                     ELSE {"none"} \cup IF Entry(w[i].route) THEN {} ELSE {"bad"} :
       Release(i, verdict)
  /\ UNCHANGED <<retryQ, faults>>

\* A sticky route is isolated; the task goes back to the refill loop with its
\* attempt budget.
RetrySticky(i) ==
  /\ Polled(i)
  /\ Egress = "sticky"
  /\ EgressFailure(i) /\ BudgetLeft(i)
  /\ Release(i, "bad")
  /\ retryQ' = Append(retryQ, w[i].attempt)
  /\ MarkTerminal(i, "stopped", [tally EXCEPT !.started = @ - 1])
  /\ UNCHANGED <<gate, faults>>

\* Otherwise the same worker moves to another route at once.
Respawns(i) ==
  /\ Polled(i)
  /\ Egress \in {"embedded", "pool", "hybrid"}
  /\ EgressFailure(i) /\ BudgetLeft(i)

TriedBy(i) == w[i].tried \cup ({w[i].route} \ plan.entries)
Elsewhere(i) ==
  Acquired(HeldWithout(i), BadAfter(i, "bad"), CooledAfter(i, "bad"), TriedBy(i))

RetryElsewhere(i) ==
  /\ Respawns(i)
  /\ \E o \in Elsewhere(i) :
       /\ o.route # None
       /\ Spend(o.cost)
       /\ held' = [HeldWithout(i) EXCEPT ![o.route] = @ \cup {i}]
       /\ w' = [w EXCEPT ![i] = [st |-> "running", out |-> "none", route |-> o.route,
                                 attempt |-> w[i].attempt + 1,
                                 tried |-> TriedBy(i)]]
       /\ bad' = o.bad /\ cooled' = o.cooled
  /\ UNCHANGED <<tally, outcomes, gate, retryQ, stallDue>>

RetryNowhere(i) ==
  /\ Respawns(i)
  /\ \E o \in Elsewhere(i) :
       /\ o.route = None
       /\ Spend(o.cost)
       /\ bad' = o.bad /\ cooled' = o.cooled
  /\ held' = HeldWithout(i)
  /\ MarkTerminal(i, "failed", tally)
  /\ gate' = PauseRefill(GateAfter(gate, "failed"), FALSE, ShortageWhy)
  /\ UNCHANGED retryQ

RetryLaunchError(i) ==
  /\ Respawns(i)
  /\ \E o \in Elsewhere(i) : \E blame \in Blames(o.route) :
       /\ o.route # None
       /\ Spend(o.cost + 1)
       /\ bad' = o.bad \cup IF blame = "bad" THEN {o.route} ELSE {}
       /\ cooled' = o.cooled
  /\ held' = HeldWithout(i)
  /\ MarkTerminal(i, "failed", tally)
  /\ gate' = PauseRefill(GateAfter(gate, "failed"), FALSE, "other")
  /\ UNCHANGED retryQ

CheckEnd ==
  /\ at = "check"
  /\ \A i \in todo : w[i].st # "exited"
  /\ at' = "upkeep"
  /\ todo' = {}
  /\ UNCHANGED <<batch, routes, gate, phase, stopping, tries, timeUp, stallDue, faults>>

-----------------------------------------------------------------------------
(* tick, second half: health, stall recovery, refill, finalize *)

\* _maybe_recover_continuous_stall, on the gate.
StallApplies == Continuous /\ phase = "running" /\ ~stopping
Stalled == StallApplies /\ Active = {} /\ ShouldRefill /\ stallDue

\* Mutant of RecoverStall: health is looked at again, the gate stays shut.
RecoverStallHealthOnly(g) == IF g.unhealthy THEN EvaluateProxyHealth(g, TRUE) ELSE g

RecoverStall(g) ==
  LET h == IF g.unhealthy THEN EvaluateProxyHealth(g, TRUE) ELSE g
  IN  IF h.unhealthy THEN h
      ELSE IF h.pause # "none" \/ h.circuit
        THEN ClearPause([h EXCEPT !.circuit = FALSE])
      ELSE h

Upkeep ==
  /\ at = "upkeep"
  /\ LET g == EvaluateProxyHealth(gate, FALSE)
     IN  gate' = IF Stalled THEN RecoverStall(g) ELSE g
  /\ stallDue' = (stallDue /\ ~Stalled /\ ~(StallApplies /\ Active # {}))
  /\ phase' = IF phase = "running" /\ ~ShouldRefill THEN "draining" ELSE phase
  /\ at' = "spawn"
  /\ UNCHANGED <<batch, routes, stopping, todo, tries, timeUp, faults>>

\* _spawn_available before its loop.
SpawnGate ==
  /\ at = "spawn"
  /\ IF ~ShouldRefill
       THEN /\ phase' = IF phase = "running" THEN "draining" ELSE phase
            /\ at' = "final"
            /\ UNCHANGED gate
       ELSE /\ gate' = RefillPause(gate).gate
            /\ at' = IF RefillPause(gate).on THEN "final" ELSE "loop"
            /\ UNCHANGED phase
  /\ tries' = 0
  /\ UNCHANGED <<batch, routes, stopping, todo, timeUp, stallDue, faults>>

\* _available_spawn_slots > 0
SlotsLeft ==
  /\ Active # Wids
  /\ Egress = "sticky" => Leasable(held, bad) # {}

MayTry == at = "loop" /\ SlotsLeft /\ tries < NumWorkers /\ ShouldRefill
MayLaunch == MayTry /\ ~RefillPause(gate).on

LoopEnd ==
  /\ at = "loop"
  /\ ~MayLaunch
  /\ gate' = IF MayTry THEN RefillPause(gate).gate ELSE gate
  /\ at' = "final"
  /\ tries' = 0
  /\ UNCHANGED <<batch, routes, phase, stopping, todo, timeUp, stallDue, faults>>

NextSlot == CHOOSE i \in Wids \ Active : \A j \in Wids \ Active : i <= j
PastAttempts == IF retryQ = <<>> THEN 0 ELSE Head(retryQ)
RestOfQ == IF retryQ = <<>> THEN <<>> ELSE Tail(retryQ)
Offers ==
  IF Egress = "none" THEN [route : {None}, bad : {bad}, cooled : {cooled}, cost : {0}]
  ELSE Acquired(held, bad, cooled, {})
Taken(o) == o.route # None \/ Egress = "none"

Launch ==
  /\ MayLaunch
  /\ \E o \in Offers :
       /\ Taken(o)
       /\ Spend(o.cost)
       /\ w' = [w EXCEPT ![NextSlot] =
                  [FreeSlot EXCEPT
                     !.st = "running", !.route = o.route,
                     !.attempt = IF o.route = None THEN 0 ELSE PastAttempts + 1]]
       /\ held' = [x \in Exits |-> IF x = o.route THEN held[x] \cup {NextSlot} ELSE held[x]]
       /\ bad' = o.bad /\ cooled' = o.cooled
  /\ tally' = [tally EXCEPT !.started = @ + 1]
  /\ retryQ' = RestOfQ
  /\ gate' = RefillPause(gate).gate
  /\ tries' = tries + 1
  /\ stallDue' = FALSE
  /\ UNCHANGED <<plan, outcomes, phase, stopping, at, todo, timeUp>>

\* No route: the task is withdrawn uncounted and refilling pauses.
LaunchShort ==
  /\ MayLaunch
  /\ \E o \in Offers :
       /\ ~Taken(o)
       /\ Spend(o.cost)
       /\ bad' = o.bad /\ cooled' = o.cooled
  /\ gate' = PauseRefill(RefillPause(gate).gate, FALSE, ShortageWhy)
  /\ at' = "final"
  /\ tries' = 0
  /\ UNCHANGED <<batch, phase, stopping, todo, timeUp, stallDue>>

\* The command cannot be built or the process cannot be started.  Only a
\* replacement of an isolated task is charged to started_tasks.
LaunchError ==
  /\ MayLaunch
  /\ \E o \in Offers : \E blame \in Blames(o.route) :
       /\ Taken(o)
       /\ Spend(o.cost + 1)
       /\ bad' = o.bad \cup IF blame = "bad" THEN {o.route} \ {None} ELSE {}
       /\ cooled' = o.cooled
  /\ MarkTerminal(NextSlot, "failed",
       [tally EXCEPT !.started = @ + (IF retryQ = <<>> THEN 0 ELSE 1)])
  /\ retryQ' = RestOfQ
  /\ gate' = PauseRefill(GateAfter(RefillPause(gate).gate, "failed"), FALSE, "other")
  /\ at' = "final"
  /\ tries' = 0
  /\ UNCHANGED <<plan, held, phase, stopping, todo, timeUp>>

\* Mutants of TickEnd: the run ends as soon as nothing is live, or only if it
\* was never told to drain.
TickEndEarly ==
  /\ at = "final"
  /\ at' = "idle"
  /\ IF Active = {}
       THEN phase' = "done" /\ held' = [e \in Exits |-> {}]
       ELSE UNCHANGED <<phase, held>>
  /\ UNCHANGED <<plan, w, tally, outcomes, retryQ, routes, gate, stopping, todo,
                 tries, timeUp, stallDue, faults>>
TickEndRunningOnly ==
  /\ at = "final"
  /\ at' = "idle"
  /\ IF Active = {} /\ ~ShouldRefill /\ ~stopping
       THEN phase' = "done" /\ held' = [e \in Exits |-> {}]
       ELSE UNCHANGED <<phase, held>>
  /\ UNCHANGED <<plan, w, tally, outcomes, retryQ, routes, gate, stopping, todo,
                 tries, timeUp, stallDue, faults>>

\* The run ends in the tick that finds it drained; _finalize returns whatever
\* a worker may still hold.
TickEnd ==
  /\ at = "final"
  /\ at' = "idle"
  /\ IF Active = {} /\ ~ShouldRefill
       THEN phase' = "done" /\ held' = [e \in Exits |-> {}]
       ELSE UNCHANGED <<phase, held>>
  /\ UNCHANGED <<plan, w, tally, outcomes, retryQ, routes, gate, stopping, todo,
                 tries, timeUp, stallDue, faults>>

-----------------------------------------------------------------------------
(* Everything that happens on its own *)

\* stop: processes are terminated, which ProcessExits covers.
Stop ==
  /\ at = "idle" /\ phase \notin Ended /\ ~stopping
  /\ stopping' = TRUE
  /\ phase' = "draining"
  /\ UNCHANGED <<batch, routes, gate, at, todo, tries, timeUp, stallDue, faults>>

ProcessExits(i, out) ==
  /\ w[i].st = "running"
  /\ out = "egress" => Egress # "none"
  /\ IF out = "ok" THEN UNCHANGED faults
                   ELSE faults < MaxFaults /\ faults' = faults + 1
  /\ w' = [w EXCEPT ![i].st = "exited", ![i].out = out]
  /\ UNCHANGED <<plan, held, routes, tally, outcomes, gate, retryQ, place, stopping,
                 timeUp, stallDue>>

ConvertEnds(i, out) ==
  /\ w[i].st = "converting"
  /\ IF out = "ok" THEN UNCHANGED faults
                   ELSE faults < MaxFaults /\ faults' = faults + 1
  /\ w' = [w EXCEPT ![i].st = "converted", ![i].out = out]
  /\ UNCHANGED <<plan, held, routes, tally, outcomes, gate, retryQ, place, stopping,
                 timeUp, stallDue>>

ExitDown(e) ==
  /\ Embedded /\ e \notin bad \cup plan.entries
  /\ Spend(1)
  /\ bad' = bad \cup {e}
  /\ UNCHANGED <<batch, cooled, gate, place, stopping, timeUp, stallDue>>

\* A cooldown ends.  An entry is offered again; a node is only marked for a
\* probe (revive_cooled_nodes), and the next worker that finds no healthy node
\* makes it.
Cools(e) ==
  /\ e \in bad \ cooled
  /\ IF Entry(e) THEN bad' = bad \ {e} /\ UNCHANGED cooled
                 ELSE cooled' = cooled \cup {e} /\ UNCHANGED bad
  /\ UNCHANGED <<batch, gate, place, stopping, timeUp, stallDue, faults>>

\* The operator has the console probe every node, this one with success.
Revived(e) ==
  /\ e \in bad /\ ~Entry(e)
  /\ bad' = bad \ {e} /\ cooled' = cooled \ {e}
  /\ UNCHANGED <<batch, gate, place, stopping, timeUp, stallDue, faults>>

PauseTimer ==
  /\ gate.pause = "timed"
  /\ gate' = [gate EXCEPT !.pause = "expired"]
  /\ UNCHANGED <<batch, routes, place, stopping, timeUp, stallDue, faults>>

HealthTimer ==
  /\ Embedded /\ ~gate.due
  /\ gate' = [gate EXCEPT !.due = TRUE]
  /\ UNCHANGED <<batch, routes, place, stopping, timeUp, stallDue, faults>>

StallTimer ==
  /\ Continuous /\ Active = {} /\ ~stallDue
  /\ stallDue' = TRUE
  /\ UNCHANGED <<batch, routes, gate, place, stopping, timeUp, faults>>

RuntimeTimer ==
  /\ Continuous /\ plan.limited /\ ~timeUp
  /\ timeUp' = TRUE
  /\ UNCHANGED <<batch, routes, gate, place, stopping, stallDue, faults>>

-----------------------------------------------------------------------------
CheckWorker(i) ==
  \/ CheckStopped(i) \/ CheckSucceeded(i) \/ CheckFailed(i) \/ RetrySticky(i)
  \/ RetryElsewhere(i) \/ RetryNowhere(i) \/ RetryLaunchError(i)

Start == Preflight \/ StartBroker

Tick ==
  \/ TickBegin \/ DrainEnd \/ CheckEnd \/ Upkeep \/ SpawnGate \/ LoopEnd
  \/ Launch \/ LaunchShort \/ LaunchError \/ TickEnd
  \/ \E i \in Wids : DrainEvent(i) \/ CheckWorker(i)

Exit(i) ==
  \/ \E out \in {"ok", "fail", "egress", "solver"} : ProcessExits(i, out)
  \/ \E out \in {"ok", "fail"} : ConvertEnds(i, out)

Timers == PauseTimer \/ HealthTimer \/ StallTimer \/ RuntimeTimer

Next ==
  \/ Start \/ Tick \/ Stop \/ Timers
  \/ \E i \in Wids : Exit(i)
  \/ \E e \in Exits : ExitDown(e) \/ Cools(e) \/ Revived(e)

Spec == Init /\ [][Next]_vars

\* start returns, the poller keeps ticking, processes and conversions end (both
\* run under time limits), and time passes: pauses, stalls and cooldowns end.
\* That a cooled node is ever probed is not assumed.
Fairness ==
  /\ WF_vars(Start) /\ WF_vars(Tick)
  /\ \A i \in Wids : WF_vars(Exit(i))
  /\ WF_vars(PauseTimer) /\ WF_vars(HealthTimer) /\ WF_vars(StallTimer)
  /\ \A e \in Exits : WF_vars(Cools(e))

FairSpec == Spec /\ Fairness

-----------------------------------------------------------------------------
Places == {"preflight", "broker", "idle", "drain", "check", "upkeep", "spawn", "loop", "final"}

\* The values the scheduler's state ranges over, with every counter in its
\* bounds.
TypeOK ==
  /\ plan \in Plans
  /\ w \in [Wids -> WorkerState]
  /\ held \in [Exits -> SUBSET Wids]
  /\ bad \subseteq Exits /\ cooled \subseteq Exits \ plan.entries
  /\ tally \in [started : Nat, succeeded : Nat, failed : Nat, stopped : Nat]
  /\ outcomes \in Seq(BOOLEAN) /\ Len(outcomes) <= CircuitWindow
  /\ gate \in GateState
  /\ retryQ \in Seq(1..MaxRetries)
  /\ phase \in {"starting", "running", "draining"} \cup Ended
  /\ stopping \in BOOLEAN /\ timeUp \in BOOLEAN /\ stallDue \in BOOLEAN
  /\ at \in Places
  /\ todo \subseteq Wids
  /\ tries \in 0..NumWorkers
  /\ faults \in 0..MaxFaults

\* Counters and workers tell one story: every launched task is live or has
\* ended in exactly one counter, and anything counted beyond the launches is
\* a launch error or a requeued attempt, each paid for by a fault.
EveryLaunchAccounted ==
  LET ended == tally.succeeded + tally.failed + tally.stopped + Cardinality(Active)
  IN  tally.started <= ended /\ ended <= tally.started + faults

\* What the proxy manager or rotator believes is what the workers hold: no
\* route is leaked by any exit path, a converting worker holds none, and a
\* pool entry never serves two workers.
LeasesMatchWorkers ==
  /\ \A e \in Exits : held[e] = {i \in Wids : w[i].route = e}
  /\ \A e \in plan.entries : Cardinality(held[e]) <= 1
  /\ \A i \in Wids : w[i].st \in {"converting", "converted"} => w[i].route = None

\* A retry never outlives its budget, whether the attempt is running or
\* waits in the requeue, and a requeued attempt still has one to go.
RetryBudgetKept ==
  /\ \A i \in Wids : w[i].attempt <= MaxRetries
  /\ \A k \in DOMAIN retryQ : retryQ[k] < MaxRetries

\* In count mode no more than plan.count tasks are ever charged at once.
NeverOverCount == ~Continuous => tally.started <= plan.count

\* No process is launched after the operator's stop, by the refill loop or by
\* an egress retry.
NoLaunchAfterStop ==
  [][stopping => \A i \in Wids :
       w'[i].st = "running" => w[i].st = "running"]_vars

\* The refill loop admits no task while the proxy is known to be down, nor,
\* in count mode, while the outcome window is bad enough to trip the circuit:
\* no pause that comes and goes meanwhile opens a way around the circuit.
RefillRespectsProtection ==
  [][\A i \in Wids : (w[i].st = "free" /\ w'[i].st = "running")
       => ~gate'.unhealthy /\ (Continuous \/ ~TooManyFails(outcomes))]_vars

\* A run that ended by itself has done its plan: in count mode every task has
\* an outcome, in continuous mode the target or the time limit was reached.
DoneMeansPlanDone ==
  phase = "done" /\ ~stopping =>
    IF Continuous
      THEN timeUp \/ (plan.target > 0 /\ tally.succeeded >= plan.target)
      ELSE tally.succeeded + tally.failed >= plan.count

\* The operator's stop always drains the run to its end.
StopDrains == stopping ~> phase = "done"

\* No worker is left, refilling waits for a healthy node, and no node is.  The
\* nodes that have cooled are not probed: only a worker that acquires a route
\* would have them probed.
Stranded == Active = {} /\ gate.unhealthy /\ ~Ready

\* A continuous run never sits idle for good: with no task running, it
\* refills again or ends, whatever pauses and open circuits it went through,
\* unless it is stranded without a healthy node.
IdleRunRefills ==
  \/ (Continuous /\ Active = {}) ~> (Active # {} \/ phase \in Ended)
  \/ <>[]Stranded

\* A batch in count mode finishes by itself, unless failures open the circuit
\* or it is stranded without a healthy node.
CountRunFinishes ==
  ~Continuous => (<>(phase \in Ended \/ gate.circuit) \/ <>[]Stranded)

\* The books of the batch after every step: launches and outcomes, and routes
\* lent and routes held, tell one story.
AccountsBalance ==
  /\ TypeOK
  /\ EveryLaunchAccounted
  /\ LeasesMatchWorkers

\* Neither requeues, retries nor launch errors carry a batch beyond its plan:
\* its count of tasks and its budget of attempts hold together.
WithinPlan ==
  /\ RetryBudgetKept
  /\ NeverOverCount

\* No path to a launch, refill or egress retry, gets past the stop or past the
\* protection that pauses the refill.
OnlyAllowedLaunches ==
  /\ NoLaunchAfterStop
  /\ RefillRespectsProtection

\* A run ends: when it is stopped, and in count mode by itself.
RunsEnd ==
  /\ StopDrains
  /\ CountRunFinishes
=============================================================================
