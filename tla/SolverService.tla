--------------------------- MODULE SolverService ---------------------------
(***************************************************************************)
(* The solver service: its request threads (turnstile_solver/src/api.py,   *)
(* service.py), the shared broker of an external provider that they solve  *)
(* through (turnstile_broker.py, external_providers.py) and the leases     *)
(* that keep a token until its one consumer asks for it.                   *)
(*                                                                         *)
(* A broker runs the solves as tasks of one event loop in a thread of its  *)
(* own; the request threads start that thread, schedule on the loop and    *)
(* wait.  Closing the service closes the broker under all of them, and a   *)
(* thread that asks for the broker afterwards makes another.               *)
(***************************************************************************)
EXTENDS Naturals, FiniteSets

CONSTANTS
  Requests,    \* bound: how many solve requests the service ever gets
  Slots,       \* external_provider_workers
  Queue        \* external_queue_limit

ASSUME ServiceAssumption ==
  {Requests, Slots, Queue} \subseteq Nat \ {0}

VARIABLES
  shared,    \* _SHARED: the broker in it, 0 for none
  broker,    \* of each broker its loop, _closed, _pending, its slots in use
  closing,   \* how far the close has come, and of which broker
  request,   \* where each request thread is and its broker
  task,      \* where the coroutine of each request is
  lease      \* the lease of each request in _leases

serviceVars == <<shared, broker, closing, request, task, lease>>

\* The service closes once: a broker is made before the close and after it.
Brokers == 1 .. 2
Calls == 1 .. Requests

\* "gone": run() has left the loop; _published_loop still names it.
Loop == {"none", "starting", "up", "gone"}
Broker == [loop : Loop, closed : BOOLEAN, published : BOOLEAN,
           pending : Nat, used : Nat]
FreshBroker == [loop |-> "none", closed |-> FALSE, published |-> FALSE,
                pending |-> 0, used |-> 0]

Request == [at : {"unused", "get", "ensure", "await", "schedule", "wait", "pool",
                  "issue", "ok", "failed"},
            broker : 0 .. 2]
Task == {"none", "queued", "waiting", "create", "poll", "token", "failed"}

\* Consumed, expired or swept is all the same to a caller: "gone", a 409.
Lease == {"none", "live", "gone"}

ServiceTypeOK ==
  /\ shared \in 0 .. 2
  /\ broker \in [Brokers -> Broker]
  /\ \A b \in Brokers : broker[b].pending <= Queue /\ broker[b].used <= Slots
  /\ closing \in [at : {"open", "brokers", "cancel", "closed"}, broker : 0 .. 2]
  /\ request \in [Calls -> Request]
  /\ task \in [Calls -> Task]
  /\ lease \in [Calls -> Lease]

ServiceInit ==
  /\ shared = 0
  /\ broker = [b \in Brokers |-> FreshBroker]
  /\ closing \in [at : {"open", "closed"}, broker : {0}]   \* "closed": no service is there
  /\ request = [r \in Calls |-> [at |-> "unused", broker |-> 0]]
  /\ task = [r \in Calls |-> "none"]
  /\ lease = [r \in Calls |-> "none"]

\* The coroutine has been scheduled and has not ended.
Live == {"queued", "waiting", "create", "poll"}

-----------------------------------------------------------------------------
(* Request threads *)

Of(r) == request[r].broker
At(r, where) == request[r].at = where
GoTo(r, where) == request' = [request EXCEPT ![r].at = where]

\* POST /v1/solve; the other end may have given up long before the answer.
Arrive(r) ==
  /\ closing.at = "open" /\ At(r, "unused") /\ \A q \in 1 .. r - 1 : ~At(q, "unused")
  /\ \E where \in {"get", "pool"} : GoTo(r, where)
  /\ UNCHANGED <<shared, broker, closing, task, lease>>

\* provider "local": the persistent browsers, module BrowserPool.
FromPool(r) ==
  /\ At(r, "pool")
  /\ GoTo(r, "issue") \/ GoTo(r, "failed")
  /\ UNCHANGED <<shared, broker, closing, task, lease>>

\* get_shared_broker: a closed broker is replaced.
GetBroker(r) ==
  /\ At(r, "get")
  /\ IF shared # 0 /\ ~broker[shared].closed
     THEN /\ request' = [request EXCEPT ![r] = [at |-> "ensure", broker |-> shared]]
          /\ UNCHANGED shared
     ELSE LET b == IF closing.at = "open" THEN 1 ELSE 2 IN
          shared' = b /\ request' = [request EXCEPT ![r] = [at |-> "ensure", broker |-> b]]
  /\ UNCHANGED <<broker, closing, task, lease>>

\* _ensure_loop, under the lock: start the thread once.
EnsureLoop(r) ==
  /\ At(r, "ensure")
  /\ LET b == Of(r) IN
     IF broker[b].closed THEN GoTo(r, "failed") /\ UNCHANGED broker
     ELSE IF broker[b].loop = "up" THEN GoTo(r, "schedule") /\ UNCHANGED broker
     ELSE /\ broker' = [broker EXCEPT ![b].loop = IF @ = "none" THEN "starting" ELSE @]
          /\ GoTo(r, "await")
  /\ UNCHANGED <<shared, closing, task, lease>>

\* Mutant of AwaitLoop: a wait without a time-out for a loop to be published.
AwaitPublished(r) ==
  /\ At(r, "await") /\ broker[Of(r)].published
  /\ GoTo(r, "schedule")
  /\ UNCHANGED <<shared, broker, closing, task, lease>>

\* _ready is set, or 5 s are over; the loop may have come and gone meanwhile.
AwaitLoop(r) ==
  /\ At(r, "await")
  /\ \/ broker[Of(r)].published /\ GoTo(r, "schedule")
     \/ ~broker[Of(r)].published /\ GoTo(r, "failed")
  /\ UNCHANGED <<shared, broker, closing, task, lease>>

\* Mutant of Schedule: the loop handed out earlier is taken to be alive.
ScheduleUnchecked(r) ==
  /\ At(r, "schedule")
  /\ task' = [task EXCEPT ![r] = "queued"]
  /\ GoTo(r, "wait")
  /\ UNCHANGED <<shared, broker, closing, lease>>

\* _submit: the closed check and the scheduling are one step of the lock.
Schedule(r) ==
  /\ At(r, "schedule")
  /\ IF broker[Of(r)].closed THEN GoTo(r, "failed") /\ UNCHANGED task
     ELSE GoTo(r, "wait") /\ task' = [task EXCEPT ![r] = "queued"]
  /\ UNCHANGED <<shared, broker, closing, lease>>

\* solve_sync returns; solve_external makes a result of an exception.
Collect(r) ==
  /\ At(r, "wait")
  /\ \E how \in {<<"token", "issue">>, <<"failed", "failed">>} :
       task[r] = how[1] /\ request' = [request EXCEPT ![r] = [at |-> how[2], broker |-> 0]]
  /\ task' = [task EXCEPT ![r] = "none"]
  /\ UNCHANGED <<shared, broker, closing, lease>>

\* What a task gives back when it ends, from wherever it was.
Ended(b, where) ==
  [b EXCEPT !.pending = IF where \in {"waiting", "create", "poll"} THEN @ - 1 ELSE @,
            !.used = IF where \in {"create", "poll"} THEN @ - 1 ELSE @]

\* Mutant of EndTask: a task that is cancelled does not run its finally.
EndTaskQuietly(r, how) ==
  /\ task' = [task EXCEPT ![r] = how]
  /\ broker' = [broker EXCEPT ![Of(r)] = IF how = "token" THEN Ended(@, task[r]) ELSE @]

EndTask(r, how) ==
  /\ task' = [task EXCEPT ![r] = how]
  /\ broker' = [broker EXCEPT ![Of(r)] = Ended(@, task[r])]

\* solve_sync waits longer than the task may take, yet not for ever: it
\* cancels its future and leaves, the task ends when the loop hears of it.
GiveUp(r) ==
  /\ At(r, "wait") /\ task[r] \in Live
  /\ GoTo(r, "failed")
  /\ UNCHANGED <<shared, broker, closing, task, lease>>

\* The token gets a lease, and the answer tells of it.
Issue(r) ==
  /\ At(r, "issue")
  /\ lease' = [lease EXCEPT ![r] = "live"]
  /\ GoTo(r, "ok")
  /\ UNCHANGED <<shared, broker, closing, task>>

-----------------------------------------------------------------------------
(* The broker's thread *)

\* Mutant of Publish: the thread does not look at _closed.
PublishAlways(b) ==
  /\ broker[b].loop = "starting"
  /\ broker' = [broker EXCEPT ![b].loop = "up", ![b].published = TRUE]
  /\ UNCHANGED <<shared, closing, request, task, lease>>

\* run(): publishes its loop unless the broker has been closed before.
Publish(b) ==
  /\ broker[b].loop = "starting"
  /\ broker' = [broker EXCEPT ![b].loop = IF broker[b].closed THEN "gone" ELSE "up",
                              ![b].published = ~broker[b].closed]
  /\ UNCHANGED <<shared, closing, request, task, lease>>

Running(r) == Of(r) # 0 /\ broker[Of(r)].loop = "up"

\* _solve_on_loop: admission.
Admit(r) ==
  /\ task[r] = "queued" /\ Running(r)
  /\ LET b == Of(r) IN
     IF broker[b].pending >= Queue
     THEN task' = [task EXCEPT ![r] = "failed"] /\ UNCHANGED broker
     ELSE /\ task' = [task EXCEPT ![r] = "waiting"]
          /\ broker' = [broker EXCEPT ![b].pending = @ + 1]
  /\ UNCHANGED <<shared, closing, request, lease>>

TakeSlot(r) ==
  /\ task[r] = "waiting" /\ Running(r)
  /\ broker[Of(r)].used < Slots
  /\ task' = [task EXCEPT ![r] = "create"]
  /\ broker' = [broker EXCEPT ![Of(r)].used = @ + 1]
  /\ UNCHANGED <<shared, closing, request, lease>>

\* The provider may refuse the task, or not be reached.
CreateTask(r) ==
  /\ task[r] = "create" /\ Running(r)
  /\ \/ task' = [task EXCEPT ![r] = "poll"] /\ UNCHANGED broker
     \/ EndTask(r, "failed")
  /\ UNCHANGED <<shared, closing, request, lease>>

\* getTaskResult every 2 s until it is neither "processing" nor "idle".
PollTask(r) ==
  /\ task[r] = "poll" /\ Running(r)
  /\ EndTask(r, "token") \/ EndTask(r, "failed")
  /\ UNCHANGED <<shared, closing, request, lease>>

\* The deadline, in the queue and during the solve.
Deadline(r) ==
  /\ task[r] \in {"waiting", "create", "poll"} /\ Running(r)
  /\ EndTask(r, "failed")
  /\ UNCHANGED <<shared, closing, request, lease>>

\* The cancellation of a future whose caller has left.
Abandon(r) ==
  /\ At(r, "failed") /\ task[r] \in Live /\ Running(r)
  /\ EndTask(r, "failed")
  /\ UNCHANGED <<shared, closing, request, lease>>

-----------------------------------------------------------------------------
(* Closing *)

\* SolverService.close; _SHARED is emptied, its broker closed.
Close ==
  /\ closing.at = "open"
  /\ closing' = [at |-> IF shared = 0 THEN "closed" ELSE "brokers", broker |-> shared]
  /\ shared' = 0
  /\ UNCHANGED <<broker, request, task, lease>>

\* TurnstileBroker.close, under the lock.
MarkClosed ==
  /\ closing.at = "brokers"
  /\ broker' = [broker EXCEPT ![closing.broker].closed = TRUE]
  /\ closing' = [closing EXCEPT !.at = IF broker[closing.broker].loop = "up" THEN "cancel"
                                       ELSE "closed"]
  /\ UNCHANGED <<shared, request, task, lease>>

Cancelled(b) == {r \in Calls : Of(r) = b /\ task[r] \in Live}

AllCancelled(b) ==
  /\ task' = [r \in Calls |-> IF r \in Cancelled(b) THEN "failed" ELSE task[r]]
  /\ broker' = [broker EXCEPT ![b].pending = 0, ![b].used = 0, ![b].loop = "gone"]

\* cancel_pending, then loop.stop and the finally of run(), which cancels
\* what is left.
CancelPending ==
  /\ closing.at = "cancel"
  /\ AllCancelled(closing.broker)
  /\ closing' = [closing EXCEPT !.at = "closed"]
  /\ UNCHANGED <<shared, request, lease>>

-----------------------------------------------------------------------------
(* Leases *)

\* consume_lease: found in _leases, not consumed, not expired.
Consume(r) ==
  /\ lease[r] = "live"
  /\ lease' = [lease EXCEPT ![r] = "gone"]
  /\ UNCHANGED <<shared, broker, closing, request, task>>

Expire(r) ==
  /\ lease[r] = "live"
  /\ lease' = [lease EXCEPT ![r] = "gone"]
  /\ UNCHANGED <<shared, broker, closing, request, task>>

-----------------------------------------------------------------------------
Thread(r) == FromPool(r) \/ GetBroker(r) \/ EnsureLoop(r) \/ AwaitLoop(r) \/ Schedule(r)
             \/ Collect(r) \/ Issue(r)
OnLoop(r) == Admit(r) \/ TakeSlot(r) \/ CreateTask(r) \/ PollTask(r) \/ Deadline(r) \/ Abandon(r)
Closes == MarkClosed \/ CancelPending

\* The steps that the service owes its callers: they need not rely on their
\* own time-out, GiveUp.
ServiceWork ==
  \/ \E r \in Calls : Thread(r) \/ OnLoop(r)
  \/ \E b \in Brokers : Publish(b)
  \/ Closes

-----------------------------------------------------------------------------
(* Properties *)

\* Each pending count and each provider slot belongs to a coroutine that is
\* still in the queue or at the provider: whatever way a solve ends -- an
\* answer, a refusal, its deadline, the caller's time-out, the close --
\* it gives back what it took (the finally of _solve_on_loop).
SlotsReturned ==
  \A b \in Brokers :
    LET Mine(S) == Cardinality({r \in Calls : request[r].broker = b /\ task[r] \in S})
    IN /\ broker[b].pending = Mine({"waiting", "create", "poll"})
       /\ broker[b].used = Mine({"create", "poll"})

\* A coroutine that has not ended is on a loop that runs: a caller that wakes
\* from the start-up of the loop while close() clears it schedules nothing on
\* the dead loop, where it would wait for its whole time-out.
NoTaskOnDeadLoop ==
  \A r \in Calls : task[r] \in Live => broker[request[r].broker].loop = "up"

\* When the close is over no closed broker has a loop that runs, also one
\* whose thread was starting when the close began.
ClosedBrokerStops ==
  closing.at = "closed" => \A b \in Brokers : broker[b].closed => broker[b].loop # "up"

\* Every request the service has taken is answered, also when the broker is
\* closed between any two steps of it.
RequestsEnd == <>[](\A r \in Calls : request[r].at \in {"unused", "ok", "failed"})

=============================================================================
