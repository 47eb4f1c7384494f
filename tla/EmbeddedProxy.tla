---------------------------- MODULE EmbeddedProxy ----------------------------
(***************************************************************************)
(* The embedded proxy: one mihomo process and its table of nodes           *)
(* (embedded_proxy_manager.py), what the console's requests do to it       *)
(* (BatchService.ensure_embedded_proxy, reload, stop, start_run; several   *)
(* threads, and nothing but start_run takes a lock), and the batch that    *)
(* leases nodes for its workers and pauses when none is healthy.           *)
(*                                                                         *)
(* A start is split where other threads can act: the stop of the old       *)
(* process, the kill of every mihomo of the project, the spawn, the wait   *)
(* for its first port, the new table, the probes.                          *)
(***************************************************************************)
EXTENDS Naturals, FiniteSets

CONSTANTS
  Nodes,       \* the ids of the cached nodes, the same after each start
  Workers,     \* workers of the batch, a lease for each
  Threads,     \* requests of the console, and the boot thread
  MaxOps,      \* bound: requests
  MaxSpawns,   \* bound: processes ever started
  MaxFlight,   \* bound: background probes of one node at a time
  None

ASSUME EmbeddedAssumption ==
  /\ IsFiniteSet(Nodes) /\ IsFiniteSet(Workers) /\ IsFiniteSet(Threads)
  /\ {MaxOps, MaxSpawns, MaxFlight} \subseteq Nat \ {0}
  /\ None \notin Nodes \cup Workers

VARIABLES
  node,      \* the table: a slot for each id
  mgr,       \* _proc and _running
  alive,     \* the mihomo processes there are
  flight,    \* background probes that have not ended
  boot,      \* the phase of _embedded_proxy_boot
  task,      \* what each thread is doing
  batch,     \* the run, without a manual pool, and its _proxy_unhealthy
  lease,     \* the node of each worker and the nodes it has tried
  asker,     \* the acquire that is probing: its worker, probes to come
  works,     \* the nodes and the network work from now on
  disturbed, \* a table was replaced while nodes of it were leased
  ops, spawns

slots == <<node, flight>>
service == <<boot, task, ops>>
run == <<batch, lease, asker>>
proxyVars == <<slots, mgr, alive, service, run, works, disturbed, spawns>>

\* "new" is not healthy and never timed; "cooling" before cooldown_until and
\* "due" after it; "pending" waits for a probe.  sick: it has failed and no
\* probe of it has ended well since.
Slot == [health : {"new", "healthy", "cooling", "due", "pending"},
         load : 0 .. Cardinality(Workers), sick : BOOLEAN]
NewSlot == [health |-> "new", load |-> 0, sick |-> FALSE]

Ops == {"start", "force", "reload", "stop", "run"}
Phase == {"idle", "starting", "ready", "error"}
Task == [at : {"idle", "ensure", "old", "clean", "spawn", "wait", "assign",
               "probe", "second", "launch", "stop"},
         op : Ops, mine : 0 .. MaxSpawns, unclean : BOOLEAN]
Rest == [at |-> "idle", op |-> "start", mine |-> 0, unclean |-> FALSE]
Free == [node |-> None, tried |-> {}]

ProxyTypeOK ==
  /\ node \in [Nodes -> Slot]
  /\ mgr \in [proc : 0 .. MaxSpawns, running : BOOLEAN]
  /\ alive \subseteq 1 .. MaxSpawns /\ flight \in [Nodes -> 0 .. MaxFlight]
  /\ boot \in Phase /\ task \in [Threads -> Task]
  /\ batch \in [at : {"none", "running", "done"}, unhealthy : BOOLEAN]
  /\ lease \in [Workers -> [node : Nodes \cup {None}, tried : SUBSET Nodes]]
  /\ asker \in [worker : Workers \cup {None}, left : SUBSET Nodes]
  /\ works \in BOOLEAN /\ disturbed \in BOOLEAN
  /\ ops \in 0 .. MaxOps /\ spawns \in 0 .. MaxSpawns

ProxyInit ==
  /\ node = [n \in Nodes |-> NewSlot]
  /\ mgr = [proc |-> 0, running |-> FALSE]
  /\ spawns \in {0, 1} /\ alive = 1 .. spawns   \* left by an earlier console
  /\ flight = [n \in Nodes |-> 0]
  /\ boot = "idle"
  /\ task = [t \in Threads |-> Rest]
  /\ batch = [at |-> "none", unhealthy |-> FALSE]
  /\ lease = [w \in Workers |-> Free]
  /\ asker = [worker |-> None, left |-> {}]
  /\ works = FALSE /\ disturbed = FALSE
  /\ ops = 0

-----------------------------------------------------------------------------
(* Nodes *)

Health(n, h) == node[n].health = h
Healthy == {n \in Nodes : Health(n, "healthy")}

\* Mutant of Revived: a node whose cooldown is over is healthy again.
RevivedHealthy ==
  [n \in Nodes |-> IF Health(n, "due") THEN [node[n] EXCEPT !.health = "healthy"] ELSE node[n]]

\* revive_cooled_nodes: after its cooldown a node waits for a probe.
Revived ==
  [n \in Nodes |-> IF Health(n, "due") THEN [node[n] EXCEPT !.health = "pending"] ELSE node[n]]

\* _apply_failure_cooldown, whatever the seconds.
Failed(s) == [s EXCEPT !.health = "cooling", !.sick = TRUE]
Passed(s) == [s EXCEPT !.health = "healthy", !.sick = FALSE]

\* Mutant of Returned: the load is not taken back from a node that failed.
ReturnedIfGood(s, failed) ==
  IF failed THEN Failed(s)
  ELSE [s EXCEPT !.load = IF @ = 0 THEN 0 ELSE @ - 1]

\* release: the id is looked up in the table of now.
Returned(s, failed) ==
  LET r == [s EXCEPT !.load = IF @ = 0 THEN 0 ELSE @ - 1]
  IN  IF failed THEN Failed(r) ELSE r

\* A probe reaches its target only through a process.
Answer(n, ok) ==
  /\ ok => alive # {}
  /\ works /\ alive # {} => ok
  /\ node' = [node EXCEPT ![n] = IF ok THEN Passed(@) ELSE Failed(@)]

\* probe_one of a background pool ends; the id may be of a later table.
ProbeEnds(n) ==
  /\ flight[n] > 0
  /\ \E ok \in BOOLEAN : Answer(n, ok)
  /\ flight' = [flight EXCEPT ![n] = @ - 1]
  /\ UNCHANGED <<mgr, alive, service, run, works, disturbed, spawns>>

\* Mutant of Probing: the pool of a start is not bounded.
ProbingUnbounded == [n \in Nodes |-> flight[n] + 1]

\* Nothing asks for the new probes to be later than what failed before.
Probing == [n \in Nodes |-> IF flight[n] < MaxFlight THEN flight[n] + 1 ELSE MaxFlight]

Cools(n) ==
  /\ Health(n, "cooling")
  /\ node' = [node EXCEPT ![n].health = "due"]
  /\ UNCHANGED <<flight, mgr, alive, service, run, works, disturbed, spawns>>

Mended ==
  /\ ~works /\ works' = TRUE
  /\ UNCHANGED <<slots, mgr, alive, service, run, disturbed, spawns>>

\* mihomo ends by itself; nothing polls it.
Crashes ==
  /\ ~works
  /\ \E p \in alive : alive' = alive \ {p}
  /\ UNCHANGED <<slots, mgr, service, run, works, disturbed, spawns>>

-----------------------------------------------------------------------------
(* Requests *)

Busy == batch.at = "running"
Go(t, at) == task' = [task EXCEPT ![t] = IF at = "idle" THEN Rest ELSE [@ EXCEPT !.at = at]]

\* start_run holds the lock of the service to its end; reload and stop are
\* refused while a batch runs, a forced start is not.
Request(t) ==
  /\ task[t].at = "idle" /\ ops < MaxOps
  /\ \E op \in Ops :
       /\ op \in {"reload", "stop", "run"} => ~Busy
       /\ op = "run" => \A u \in Threads : task[u].at = "idle" \/ task[u].op # "run"
       /\ task' = [task EXCEPT ![t] = [at |-> IF op = "stop" THEN "stop" ELSE "ensure",
                                       op |-> op, mine |-> 0, unclean |-> FALSE]]
  /\ ops' = ops + 1
  /\ UNCHANGED <<slots, mgr, alive, boot, run, works, disturbed, spawns>>

\* The request ends well: start_run goes on to create its runner.
Ready(t) ==
  /\ boot' = "ready"
  /\ Go(t, IF task[t].op = "run" THEN "launch" ELSE "idle")

\* Mutant of StartFails: an error is only raised.
StartFailsSilently(t) == Go(t, "idle") /\ UNCHANGED boot

StartFails(t) == Go(t, "idle") /\ boot' = "error"

Ensure(t) ==
  /\ task[t].at = "ensure"
  /\ \/ /\ mgr.running /\ task[t].op \notin {"force", "reload"}
        /\ Ready(t)
     \/ /\ ~(mgr.running /\ task[t].op \notin {"force", "reload"})
        /\ \/ Go(t, "old") /\ boot' = "starting"
           \/ StartFails(t)                     \* no cached nodes
  /\ UNCHANGED <<slots, mgr, alive, ops, run, works, disturbed, spawns>>

Halt ==
  /\ alive' = alive \ {mgr.proc}
  /\ mgr' = [proc |-> 0, running |-> FALSE]

StopOld(t) ==
  /\ task[t].at = "old"
  /\ Halt
  /\ Go(t, "clean")
  /\ UNCHANGED <<slots, boot, ops, run, works, disturbed, spawns>>

\* Mutant of CleanUp: leftovers of other starts are not looked for.
CleanNothing(t) ==
  /\ task[t].at = "clean"
  /\ Go(t, "spawn")
  /\ UNCHANGED <<slots, mgr, alive, boot, ops, run, works, disturbed, spawns>>

\* _cleanup_stale_project_mihomo: every mihomo with the runtime directory in
\* its command line, one that another thread has just started as well.
\* Without /proc, or when the scan or a kill fails, some or all of them stay
\* and the start goes on (unclean).
CleanUp(t) ==
  /\ task[t].at = "clean"
  /\ \/ alive' = {} /\ Go(t, "spawn")
     \/ /\ alive' \in SUBSET alive /\ alive' # {}
        /\ task' = [task EXCEPT ![t].at = "spawn", ![t].unclean = TRUE]
  /\ UNCHANGED <<slots, mgr, boot, ops, run, works, disturbed, spawns>>

Spawn(t) ==
  /\ task[t].at = "spawn"
  /\ \/ /\ spawns < MaxSpawns /\ spawns' = spawns + 1
        /\ alive' = alive \cup {spawns'}
        /\ task' = [task EXCEPT ![t].at = "wait", ![t].mine = spawns']
        /\ UNCHANGED boot
     \/ StartFails(t) /\ UNCHANGED <<alive, spawns>>
  /\ UNCHANGED <<slots, mgr, ops, run, works, disturbed>>

\* The port is open, whoever opened it, and the own process lives.
WaitPort(t) ==
  /\ task[t].at = "wait"
  /\ \/ task[t].mine \in alive /\ Go(t, "assign") /\ UNCHANGED <<alive, boot>>
     \/ alive' = alive \ {task[t].mine} /\ StartFails(t)
  /\ UNCHANGED <<slots, mgr, ops, run, works, disturbed, spawns>>

\* The new table, every node unprobed and unused.
Assign(t) ==
  /\ task[t].at = "assign"
  /\ mgr' = [proc |-> task[t].mine, running |-> TRUE]
  /\ node' = [n \in Nodes |-> NewSlot]
  /\ disturbed' = (disturbed \/ \E w \in Workers : lease[w].node # None)
  /\ flight' = Probing
  /\ Go(t, "probe")
  /\ UNCHANGED <<alive, boot, ops, run, works, spawns>>

\* probe_all with an early end: enough healthy nodes, or time is up and every
\* node is probed once more before the start fails.
EarlyReady(t) ==
  /\ task[t].at = "probe"
  /\ \/ Healthy # {} /\ Ready(t) /\ UNCHANGED flight
     \/ Healthy = {} /\ flight' = Probing /\ Go(t, "second") /\ UNCHANGED boot
  /\ UNCHANGED <<node, mgr, alive, ops, run, works, disturbed, spawns>>

SecondProbe(t) ==
  /\ task[t].at = "second"
  /\ \A n \in Nodes : flight[n] = 0
  /\ IF Healthy # {} THEN Ready(t) ELSE StartFails(t)
  /\ UNCHANGED <<slots, mgr, alive, ops, run, works, disturbed, spawns>>

StopEmbedded(t) ==
  /\ task[t].at = "stop"
  /\ Halt
  /\ Go(t, "idle")
  /\ UNCHANGED <<slots, boot, ops, run, works, disturbed, spawns>>

StartRun(t) ==
  /\ task[t].at = "launch"
  /\ batch' = [at |-> "running", unhealthy |-> FALSE]
  /\ Go(t, "idle")
  /\ UNCHANGED <<slots, mgr, alive, boot, ops, lease, asker, works, disturbed, spawns>>

-----------------------------------------------------------------------------
(* The batch *)

Idle == asker.worker = None

\* _evaluate_proxy_health: every 15 s, also while launches are paused.
CheckHealth ==
  /\ Busy /\ Idle
  /\ node' = Revived
  /\ batch' = [batch EXCEPT !.unhealthy = ~(mgr.running /\ Healthy # {})]
  /\ UNCHANGED <<flight, mgr, alive, service, lease, asker, works, disturbed, spawns>>

Least(S, tab) == {n \in S : \A m \in S : tab[n].load <= tab[m].load}

\* The least loaded node, of the preferred ones when there are such.
Grant(w, S, tab) ==
  \E n \in Least(S, tab) :
    /\ node' = [tab EXCEPT ![n].load = @ + 1]
    /\ lease' = [lease EXCEPT ![w].node = n]

\* A launch, or a worker that goes on to another node after a failure.
MayAsk(w) == lease[w].tried # {} \/ ~batch.unhealthy

\* Mutant of Over: the next worker of the slot inherits the nodes tried.
OverTried(w) == UNCHANGED lease

\* No node for it: the worker ends, and its slot is for another one.
Over(w) == lease' = [lease EXCEPT ![w] = Free]

\* acquire: a healthy node; if there is none, probe the pending ones first.
Acquire(w) ==
  /\ Busy /\ Idle /\ lease[w].node = None /\ MayAsk(w)
  /\ LET fit == Healthy \ lease[w].tried
         due == {n \in Nodes : Revived[n].health = "pending"}
     IN \/ fit # {} /\ Grant(w, fit, Revived) /\ UNCHANGED asker
        \/ /\ fit = {} /\ due # {}
           /\ node' = Revived
           /\ asker' = [worker |-> w, left |-> due]
           /\ UNCHANGED lease
        \/ /\ fit = {} /\ due = {} /\ lease[w].tried # {}
           /\ node' = Revived
           /\ Over(w)
           /\ UNCHANGED asker
  /\ UNCHANGED <<flight, mgr, alive, service, batch, works, disturbed, spawns>>

\* reprobe_due_nodes
Reprobe(n) ==
  /\ n \in asker.left
  /\ \E ok \in BOOLEAN : Answer(n, ok)
  /\ asker' = [asker EXCEPT !.left = @ \ {n}]
  /\ UNCHANGED <<flight, mgr, alive, service, batch, lease, works, disturbed, spawns>>

Select ==
  /\ ~Idle /\ asker.left = {}
  /\ LET w == asker.worker
         fit == Healthy \ lease[w].tried
     IN IF fit # {} THEN Grant(w, fit, node)
        ELSE Over(w) /\ UNCHANGED node
  /\ asker' = [worker |-> None, left |-> {}]
  /\ UNCHANGED <<flight, mgr, alive, service, batch, works, disturbed, spawns>>

\* The worker's attempt ends; after a failure it may try another node.
Release(w) ==
  /\ Idle /\ lease[w].node # None
  /\ \E failed \in BOOLEAN :
       /\ works /\ alive # {} => ~failed
       /\ LET n == lease[w].node IN
          /\ node' = [node EXCEPT ![n] = Returned(@, failed)]
          /\ lease' = [lease EXCEPT ![w] = IF failed THEN [Free EXCEPT !.tried = lease[w].tried \cup {n}]
                                           ELSE Free]
  /\ UNCHANGED <<flight, mgr, alive, service, batch, asker, works, disturbed, spawns>>

RunEnds ==
  /\ Busy /\ Idle /\ \A w \in Workers : lease[w] = Free
  /\ batch' = [at |-> "done", unhealthy |-> FALSE]
  /\ UNCHANGED <<slots, mgr, alive, service, lease, asker, works, disturbed, spawns>>

Step(t) == Ensure(t) \/ StopOld(t) \/ CleanUp(t) \/ Spawn(t) \/ WaitPort(t)
           \/ Assign(t) \/ EarlyReady(t) \/ SecondProbe(t) \/ StopEmbedded(t) \/ StartRun(t)

ProxyNext == (\E t \in Threads : Request(t) \/ Step(t))
        \/ (\E n \in Nodes : ProbeEnds(n) \/ Cools(n) \/ Reprobe(n))
        \/ (\E w \in Workers : Acquire(w) \/ Release(w))
        \/ Select \/ CheckHealth \/ RunEnds \/ Mended \/ Crashes

ProxySpec == ProxyInit /\ [][ProxyNext]_proxyVars

\* Threads run, probes have a time limit, cooldowns pass, the batch is polled
\* and its workers end.  Nobody need make a request or end the run.
FairProxy ==
  /\ ProxySpec
  /\ \A t \in Threads : WF_proxyVars(Step(t))
  /\ \A n \in Nodes : WF_proxyVars(ProbeEnds(n)) /\ WF_proxyVars(Cools(n)) /\ WF_proxyVars(Reprobe(n))
  /\ \A w \in Workers : WF_proxyVars(Acquire(w)) /\ WF_proxyVars(Release(w))
  /\ WF_proxyVars(Select) /\ WF_proxyVars(CheckHealth)

-----------------------------------------------------------------------------
(* Properties *)

\* The load of a node counts the leases of its table, whatever fails, cools
\* and is probed in between; a table replaced under its leases is the only
\* way to lose count (the old leases are returned on the new slots).
LoadIsLeases ==
  ~disturbed => \A n \in Nodes : node[n].load = Cardinality({w \in Workers : lease[w].node = n})

\* A node that failed is leased again only after a probe of it ended well: a
\* cooldown that is over is not enough, for none of the paths to a lease.
NoLeaseWhileSick ==
  [][\A w \in Workers : lease[w].node = None /\ lease'[w].node # None
       => ~node[lease'[w].node].sick]_proxyVars

\* A start takes over from an earlier console: as long as it is the only
\* request and its clean-up can do its work (it is left out where there is no
\* /proc, and its errors are only logged), the one process it has started is
\* the only mihomo that lives.
\* (Starts that overlap kill each other's processes or leave one behind.)
NothingLeftOver ==
  ops = 1 => \A t \in Threads :
    task[t].at \in {"wait", "assign", "probe", "second"} /\ ~task[t].unclean
      => alive \subseteq {task[t].mine}

\* The console does not show "starting" for ever.
BootSettles == boot = "starting" ~> boot # "starting"

\* When the nodes work and a process runs, a batch that runs on gets a node
\* again and again, even after every node had failed - unless its pause on proxy
\* health is never lifted: the pause keeps launches from the acquire that would
\* probe the nodes, and a batch without a manual pool can wait there for ever.
PoolRecovers ==
  <>[](works /\ Busy /\ mgr.running /\ alive # {}) /\ []<>(~batch.unhealthy)
    => []<>(\E w \in Workers : lease[w].node # None)

\* What the node table and the processes keep: leases are counted, and one
\* start leaves one mihomo.
NodesSafe ==
  /\ ProxyTypeOK
  /\ LoadIsLeases
  /\ NothingLeftOver

\* Neither a failed boot nor the failure of every node is for ever.
ProxyComesBack ==
  /\ BootSettles
  /\ PoolRecovers
=============================================================================
