-------------------------- MODULE BatchRunnerProofs --------------------------
(***************************************************************************)
(* For every number of workers, routes, retries and faults and every set   *)
(* of plans: the books of a batch balance, no batch goes beyond its plan,  *)
(* no launch gets past the stop or the protection, and a batch that ends   *)
(* by itself has done its plan, unless its routes are sticky.              *)
(*                                                                         *)
(* The books are not inductive: that a requeued attempt is paid for by a   *)
(* fault needs the failures that were not polled yet (Owed), that the      *)
(* count of launches can be taken back needs a launch for each live worker *)
(* (Books), and what a worker holds depends on where it is (Slot).  The    *)
(* protection holds because a window bad enough to trip the circuit keeps  *)
(* it open, and the pause with it (GateOK).                                *)
(***************************************************************************)
EXTENDS BatchRunner, FiniteSetTheorems, WellFoundedInduction, TLAPS

-----------------------------------------------------------------------------
(* The invariant *)

\* A free slot is blank, a conversion holds no route, and while the batch has
\* routes a process has one, and an attempt to count it by.
Slot ==
  {x \in WorkerState :
     /\ x.st = "free" => x = FreeSlot
     /\ x.st \in {"converting", "converted"} => x.route = None
     /\ x.st \in {"running", "exited"} /\ Egress # "none" => x.route # None
     /\ x.route # None => x.attempt # 0}

Tally == [started : Nat, succeeded : Nat, failed : Nat, stopped : Nat]

\* The attempts that failed on their route and were not looked at yet.
Owed == {i \in Wids : w[i].st = "exited" /\ w[i].out = "egress"}
NumActive == Cardinality(Active)
NumOwed == Cardinality(Owed)
Closed(t) == t.succeeded + t.failed + t.stopped

\* A launch for each live worker, an end or a live worker for each launch, and
\* a fault for each end beyond the launches and each failure to come.
Books ==
  /\ NumActive <= tally.started
  /\ tally.started <= Closed(tally) + NumActive
  /\ Closed(tally) + NumActive + NumOwed <= tally.started + faults

\* Who holds a route by the rotator's table, and by the workers themselves.
Lent ==
  /\ held \in [Exits -> SUBSET Wids]
  /\ \A e \in Exits : \A i \in Wids : i \in held[e] <=> w[i].route = e
  /\ \A e \in plan.entries : \A i, j \in held[e] : i = j

\* A gate is shut while the proxy is down, and in count mode also while the
\* window is bad enough to trip the circuit.
GateOK(g, win) ==
  /\ g \in GateState
  /\ g.unhealthy => g.pause = "hold"
  /\ ~Continuous /\ TooManyFails(win) => g.circuit /\ g.pause # "none"

Planned ==
  IF Continuous THEN timeUp \/ (plan.target > 0 /\ tally.succeeded >= plan.target)
  ELSE Egress # "sticky" => tally.started >= plan.count

\* Where the batch is, and what it has done when it drains or is over.
Ending ==
  /\ phase = "starting" => at \in {"preflight", "broker"}
  /\ phase \in Ended => at = "idle"
  /\ phase \in {"draining", "done"} /\ ~stopping => Planned
  /\ ~stopping /\ Egress # "sticky" => tally.stopped = 0
  /\ phase = "done" /\ ~stopping /\ ~Continuous /\ Egress # "sticky" =>
       tally.succeeded + tally.failed >= plan.count

Bounded ==
  /\ ~Continuous => tally.started <= plan.count
  /\ retryQ \in Seq(1 .. MaxRetries - 1)

Kinds ==
  /\ plan \in Plans
  /\ bad \subseteq Exits /\ cooled \subseteq Exits \ plan.entries
  /\ tally \in Tally
  /\ outcomes \in Seq(BOOLEAN) /\ Len(outcomes) <= CircuitWindow
  /\ phase \in {"starting", "running", "draining"} \cup Ended
  /\ stopping \in BOOLEAN /\ timeUp \in BOOLEAN /\ stallDue \in BOOLEAN
  /\ at \in Places
  /\ todo \subseteq Wids
  /\ tries \in 0 .. NumWorkers
  /\ faults \in 0 .. MaxFaults

IInv ==
  /\ Kinds
  /\ w \in [Wids -> Slot]
  /\ Books
  /\ Lent
  /\ GateOK(gate, outcomes)
  /\ Ending
  /\ Bounded

-----------------------------------------------------------------------------
(* Counting workers *)

LEMMA Counts ==
  ASSUME NEW S \in SUBSET Wids
  PROVE  IsFiniteSet(S) /\ Cardinality(S) \in Nat
  <1>1. IsFiniteSet(Wids)
    BY FS_Interval, BatchAssumption DEF BatchAssumption, Wids
  <1>2. QED
    BY <1>1, FS_Subset, FS_CardinalityType

LEMMA CountMoved ==
  ASSUME NEW S \in SUBSET Wids, NEW T \in SUBSET Wids, NEW i \in Wids,
         \A j \in Wids \ {i} : j \in S <=> j \in T
  PROVE  Cardinality(T) = Cardinality(S) + (IF i \in T THEN 1 ELSE 0) - (IF i \in S THEN 1 ELSE 0)
  <1> DEFINE R == S \ {i}
  <1>1. R \in SUBSET Wids /\ IsFiniteSet(R) /\ i \notin R
    BY Counts
  <1>2. /\ i \in S => S = R \cup {i}
        /\ i \notin S => S = R
        /\ i \in T => T = R \cup {i}
        /\ i \notin T => T = R
    OBVIOUS
  <1>3. Cardinality(R) \in Nat /\ Cardinality(R \cup {i}) = Cardinality(R) + 1
    BY <1>1, Counts, FS_AddElement
  <1> HIDE DEF R
  <1>4. Cardinality(S) = Cardinality(R) + (IF i \in S THEN 1 ELSE 0)
    BY <1>2, <1>3
  <1>5. Cardinality(T) = Cardinality(R) + (IF i \in T THEN 1 ELSE 0)
    BY <1>2, <1>3
  <1>6. QED
    BY <1>3, <1>4, <1>5

Owes(x) == x.st = "exited" /\ x.out = "egress"

\* What the move of one worker changes in the two counts.
LEMMA Recount ==
  ASSUME w \in [Wids -> Slot], NEW i \in Wids, NEW x, w' = [w EXCEPT ![i] = x]
  PROVE  /\ NumActive \in Nat /\ NumOwed \in Nat /\ NumActive' \in Nat /\ NumOwed' \in Nat
         /\ x.st = "free" /\ w[i].st # "free" => NumActive' = NumActive - 1
         /\ x.st # "free" /\ w[i].st = "free" => NumActive' = NumActive + 1
         /\ (x.st = "free" <=> w[i].st = "free") => NumActive' = NumActive
         /\ ~Owes(x) /\ Owes(w[i]) => NumOwed' = NumOwed - 1
         /\ Owes(x) /\ ~Owes(w[i]) => NumOwed' = NumOwed + 1
         /\ (Owes(x) <=> Owes(w[i])) => NumOwed' = NumOwed
  <1>1. w'[i] = x /\ \A j \in Wids \ {i} : w'[j] = w[j]
    OBVIOUS
  <1>2. Active \in SUBSET Wids /\ Owed \in SUBSET Wids
    BY DEF Active, Owed
  <1>3. Active' \in SUBSET Wids /\ Owed' \in SUBSET Wids
    BY DEF Active, Owed
  <1>4. (\A j \in Wids \ {i} : j \in Active <=> j \in Active') /\ (i \in Active' <=> x.st # "free")
        /\ (i \in Active <=> w[i].st # "free")
    BY <1>1 DEF Active
  <1>5. (\A j \in Wids \ {i} : j \in Owed <=> j \in Owed')
        /\ (i \in Owed' <=> Owes(x)) /\ (i \in Owed <=> Owes(w[i]))
    BY <1>1 DEF Owed, Owes
  <1>6. /\ NumActive' = NumActive + (IF i \in Active' THEN 1 ELSE 0)
                                  - (IF i \in Active THEN 1 ELSE 0)
        /\ NumOwed' = NumOwed + (IF i \in Owed' THEN 1 ELSE 0) - (IF i \in Owed THEN 1 ELSE 0)
    BY <1>2, <1>3, <1>4, <1>5, CountMoved DEF NumActive, NumOwed
  <1>7. NumActive \in Nat /\ NumOwed \in Nat /\ NumActive' \in Nat /\ NumOwed' \in Nat
    BY <1>2, <1>3, Counts DEF NumActive, NumOwed
  <1>8. QED
    BY <1>4, <1>5, <1>6, <1>7

LEMMA LiveCounts ==
  ASSUME w \in [Wids -> Slot], NEW i \in Wids, w[i].st # "free"
  PROVE  NumActive \in Nat /\ NumActive > 0
  <1>1. Active \in SUBSET Wids /\ i \in Active
    BY DEF Active
  <1>2. QED
    BY <1>1, Counts, FS_EmptySet DEF NumActive

-----------------------------------------------------------------------------
(* The gate *)

LEMMA Pausing ==
  ASSUME NEW g, NEW win, GateOK(g, win), NEW hold \in BOOLEAN, NEW why \in {"", "embedded", "other"}
  PROVE  /\ GateOK(PauseRefill(g, hold, why), win)
         /\ PauseRefill(g, hold, why).pause # "none"
         /\ PauseRefill(g, hold, why).circuit = g.circuit
         /\ PauseRefill(g, hold, why).unhealthy = g.unhealthy
  BY DEF GateOK, PauseRefill, GateState

\* The circuit follows the window whatever the gate was before.
LEMMA Tripping ==
  ASSUME NEW g, NEW old, GateOK(g, old), NEW win
  PROVE  GateOK(MaybeTripCircuit(g, win), win)

  <1> DEFINE p == PauseRefill(g, FALSE, "other")
             n == [p EXCEPT !.circuit = TRUE]
  <1>1. GateOK(p, old) /\ p.pause # "none"
    BY Pausing
  <1> HIDE DEF p
  <1>2. n \in GateState /\ n.pause # "none" /\ n.circuit /\ (n.unhealthy => n.pause = "hold")
    BY <1>1 DEF GateOK, GateState
  <1> HIDE DEF n
  <1>3. CASE TooManyFails(win)
    BY <1>2, <1>3 DEF MaybeTripCircuit, GateOK, n, p
  <1>4. CASE ~TooManyFails(win)
    BY <1>4 DEF MaybeTripCircuit, GateOK, GateState
  <1>5. QED
    BY <1>3, <1>4

LEMMA Marking ==
  ASSUME NEW g, NEW status, GateOK(g, outcomes)
  PROVE  GateOK(GateAfter(g, status), Recorded(status))
  <1>1. status = "stopped" => Recorded(status) = outcomes
    BY DEF Recorded
  <1>2. QED
    BY <1>1, Tripping DEF GateAfter

LEMMA Evaluating ==
  ASSUME NEW g, NEW win, GateOK(g, win), NEW force
  PROVE  GateOK(EvaluateProxyHealth(g, force), win)
  <1> DEFINE u == [g EXCEPT !.due = FALSE, !.unhealthy = TRUE]
             h == [g EXCEPT !.due = FALSE, !.unhealthy = FALSE]
  <1>1. GateOK([g EXCEPT !.unhealthy = FALSE], win) /\ GateOK([g EXCEPT !.due = FALSE], win)
    BY DEF GateOK, GateState
  <1>2. /\ u \in GateState /\ u.pause = g.pause /\ u.circuit = g.circuit
        /\ h \in GateState /\ ~h.unhealthy /\ h.pause = g.pause /\ h.circuit = g.circuit
    BY DEF GateOK, GateState
  <1> HIDE DEF u, h
  <1>3. GateOK(PauseRefill(u, TRUE, "embedded"), win)
    BY <1>2 DEF GateOK, GateState, PauseRefill
  <1>4. h.circuit => GateOK([h EXCEPT !.why = IF @ = "embedded" /\ Ready THEN "other" ELSE @], win)
    BY <1>2 DEF GateOK, GateState
  <1>5. ~h.circuit => GateOK(ClearPause(h), win)
    BY <1>2 DEF GateOK, GateState, ClearPause
  <1>6. QED
    BY <1>1, <1>3, <1>4, <1>5 DEF EvaluateProxyHealth, u, h

\* A gate that lets the refill through is not shut for any reason.
LEMMA Refilling ==
  ASSUME NEW g, GateOK(g, outcomes)
  PROVE  /\ GateOK(RefillPause(g).gate, outcomes)
         /\ ~RefillPause(g).on => /\ ~RefillPause(g).gate.unhealthy
                                  /\ Continuous \/ ~TooManyFails(outcomes)
  <1> DEFINE e == EvaluateProxyHealth(g, FALSE)
             c == [e EXCEPT !.circuit = FALSE]
  <1>1. GateOK(e, outcomes)
    BY Evaluating
  <1> HIDE DEF e
  <1>2. c \in GateState /\ c.unhealthy = e.unhealthy
    BY <1>1 DEF GateOK, GateState
  <1> HIDE DEF c
  <1>3. ClearPause(c) \in GateState /\ ClearPause(c).unhealthy = e.unhealthy
    BY <1>2 DEF ClearPause, GateState
  <1>4. CASE e.pause = "none"
    <2>1. RefillPause(g) = [gate |-> e, on |-> FALSE]
      BY <1>4 DEF RefillPause, e
    <2>2. QED
      BY <1>1, <1>4, <2>1 DEF GateOK
  <1>5. CASE e.pause # "none" /\ (e.unhealthy \/ e.pause # "expired")
    <2>1. RefillPause(g) = [gate |-> e, on |-> TRUE]
      BY <1>5 DEF RefillPause, e
    <2>2. QED
      BY <1>1, <2>1
  <1>6. CASE e.pause = "expired" /\ ~e.unhealthy /\ e.circuit /\ TooManyFails(outcomes)
    <2>1. RefillPause(g) = [gate |-> PauseRefill(e, FALSE, "other"), on |-> TRUE]
      BY <1>6 DEF RefillPause, e
    <2>2. GateOK(PauseRefill(e, FALSE, "other"), outcomes)
      BY <1>1, Pausing
    <2>3. RefillPause(g).gate = PauseRefill(e, FALSE, "other") /\ RefillPause(g).on = TRUE
      BY <2>1
    <2>4. QED
      BY <2>2, <2>3
  <1>7. CASE e.pause = "expired" /\ ~e.unhealthy /\ ~(e.circuit /\ TooManyFails(outcomes))
    <2>1. RefillPause(g) = [gate |-> ClearPause(c), on |-> FALSE]
      BY <1>7 DEF RefillPause, e, c
    <2>2. Continuous \/ ~TooManyFails(outcomes)
      BY <1>1, <1>7 DEF GateOK
    <2>3. QED
      BY <1>3, <1>7, <2>1, <2>2 DEF GateOK
  <1>8. QED
    BY <1>4, <1>5, <1>6, <1>7

LEMMA Recovering ==
  ASSUME NEW g, NEW win, GateOK(g, win), Continuous
  PROVE  GateOK(RecoverStall(g), win)
  <1> DEFINE h == IF g.unhealthy THEN EvaluateProxyHealth(g, TRUE) ELSE g
             c == [h EXCEPT !.circuit = FALSE]
  <1>1. GateOK(h, win)
    BY Evaluating
  <1> HIDE DEF h
  <1>2. c \in GateState /\ c.unhealthy = h.unhealthy
    BY <1>1 DEF GateOK, GateState
  <1> HIDE DEF c
  <1>3. ~h.unhealthy => GateOK(ClearPause(c), win)
    BY <1>2 DEF ClearPause, GateOK, GateState
  <1>4. RecoverStall(g) = IF h.unhealthy THEN h
                          ELSE IF h.pause # "none" \/ h.circuit THEN ClearPause(c) ELSE h
    BY DEF RecoverStall, h, c
  <1>5. QED
    BY <1>1, <1>3, <1>4

\* The slot of the next launch.
LEMMA LeastIn ==
  ASSUME NEW S \in SUBSET Wids, S # {}
  PROVE  \E i \in S : \A j \in S : i <= j
  <1> DEFINE Below(i) == {j \in S : j < i}
             T == {Below(i) : i \in S}
  <1>1. S \subseteq Int /\ IsFiniteSet(S)
    BY Counts DEF Wids
  <1>2. T \subseteq SUBSET S /\ T # {}
    OBVIOUS
  <1>3. \E x \in T : \A y \in T : ~ (<<y, x>> \in StrictSubsetOrdering(S))
    <2>1. IsWellFoundedOn(StrictSubsetOrdering(S), SUBSET S)
      BY <1>1, FS_StrictSubsetOrderingWellFounded, FS_FiniteSubsetsOfFinite
    <2> HIDE DEF T
    <2>2. QED
      BY <1>2, <2>1, WFMin
  <1>4. PICK i \in S : \A j \in S : ~ (<<Below(j), Below(i)>> \in StrictSubsetOrdering(S))
    BY <1>3
  <1>5. ASSUME NEW j \in S, j < i PROVE FALSE
    <2>1. Below(j) \subseteq Below(i)
      <3>1. \A k \in S : k < j => k < i
        BY <1>1, <1>5
      <3>2. QED
        BY <3>1
    <2>2. j \in Below(i) /\ j \notin Below(j)
      BY <1>1, <1>5
    <2>3. <<Below(j), Below(i)>> \in StrictSubsetOrdering(S)
      BY <2>1, <2>2 DEF StrictSubsetOrdering
    <2>4. QED
      BY <2>3, <1>4
  <1>6. QED
    BY <1>1, <1>5

LEMMA NextIsFree ==
  ASSUME Active # Wids
  PROVE  NextSlot \in Wids /\ NextSlot \notin Active
  <1>1. Wids \ Active \in SUBSET Wids /\ Wids \ Active # {}
    BY DEF Active
  <1>2. \E i \in Wids \ Active : \A j \in Wids \ Active : i <= j
    BY <1>1, LeastIn
  <1>3. QED
    BY <1>2 DEF NextSlot

-----------------------------------------------------------------------------
(* What the steps have in common *)

\* The steps that leave workers, routes and counters alone.
Quiet ==
  \/ Start \/ TickBegin \/ DrainEnd \/ CheckEnd \/ Upkeep \/ SpawnGate \/ LoopEnd
  \/ LaunchShort \/ Stop \/ Timers
  \/ \E e \in Exits : ExitDown(e) \/ Cools(e) \/ Revived(e)
  \/ UNCHANGED vars

LEMMA Spent ==
  ASSUME IInv, NEW n \in Nat, Spend(n)
  PROVE  faults' = faults + n /\ faults' \in faults .. MaxFaults
  <1>1. faults \in 0 .. MaxFaults /\ MaxFaults \in Nat
    BY BatchAssumption DEF IInv, Kinds, BatchAssumption
  <1>2. QED
    BY <1>1 DEF Spend

\* What a worker gets is a route or None; it leaves bad and cooled nodes sets
\* of routes, and an entry it gets is nobody else's.
LEMMA Acquiring ==
  ASSUME NEW h, NEW b \in SUBSET Exits, NEW d \in SUBSET (Exits \ plan.entries),
         NEW tried, plan.entries \subseteq Exits, None \notin Exits, NEW o \in Acquired(h, b, d, tried)
  PROVE  /\ o.route \in Exits \cup {None} /\ o.bad \subseteq Exits /\ o.cooled \subseteq Exits \ plan.entries
         /\ o.cost \in {0, 1}
         /\ o.route \in plan.entries => h[o.route] = {}
  <1> DEFINE healthy == {e \in Exits \ (b \cup tried) : ~Entry(e)}
             Lent1(wells) == IF wells \ tried # {} THEN wells \ tried
                             ELSE IF Leasable(h, b) # {} THEN Leasable(h, b) ELSE {None}
             atonce == [route : healthy \cup Leasable(h, b), bad : {b}, cooled : {d}, cost : {0}]
             probed(wells) == [route : Lent1(wells), bad : {b \ wells}, cooled : {{}},
                               cost : {IF wells = d THEN 0 ELSE 1}]
  <1>1. Leasable(h, b) \subseteq Exits /\ \A e \in Leasable(h, b) : h[e] = {}
    BY DEF Leasable
  <1>2. o \in atonce \/ \E wells \in SUBSET d : o \in probed(wells)
    BY DEF Acquired
  <1>3. CASE o \in atonce
    BY <1>1, <1>3 DEF Entry
  <1>4. ASSUME NEW wells \in SUBSET d, o \in probed(wells)
        PROVE  /\ o.route \in Exits \cup {None} /\ o.bad \subseteq Exits /\ o.cooled \subseteq Exits \ plan.entries
               /\ o.cost \in {0, 1}
               /\ o.route \in plan.entries => h[o.route] = {}
    <2>1. Lent1(wells) \subseteq (Exits \ plan.entries) \cup Leasable(h, b) \cup {None}
      OBVIOUS
    <2>2. /\ o.route \in Lent1(wells) /\ o.bad = b \ wells /\ o.cooled = {}
          /\ o.cost \in {0, 1}
      BY <1>4
    <2> HIDE DEF Lent1
    <2>3. QED
      BY <1>1, <2>1, <2>2
  <1>5. QED
    BY <1>2, <1>3, <1>4

LEMMA PlanFields ==
  ASSUME plan \in Plans
  PROVE  /\ plan.entries \subseteq Exits /\ plan.count \in Nat \ {0} /\ plan.target \in Nat
         /\ plan.egress \in {"none", "embedded", "pool", "sticky", "hybrid"}
         /\ plan.continuous \in BOOLEAN /\ plan.limited \in BOOLEAN /\ plan.convert \in BOOLEAN
  BY BatchAssumption DEF BatchAssumption, RunPlan

\* The same of what the refill and a retry get.
LEMMA Offered ==
  ASSUME IInv,
         NEW o, o \in Offers \/ \E i \in Wids : o \in Elsewhere(i)
  PROVE  /\ o.route \in Exits \cup {None} /\ o.bad \subseteq Exits /\ o.cooled \subseteq Exits \ plan.entries
         /\ o.cost \in {0, 1}
  <1>1. bad \subseteq Exits /\ cooled \subseteq Exits \ plan.entries /\ plan.entries \subseteq Exits
        /\ None \notin Exits
    BY PlanFields, BatchAssumption DEF IInv, Kinds, BatchAssumption
  <1>2. CASE o \in Offers /\ Egress = "none"
    BY <1>1, <1>2 DEF Offers
  <1>3. CASE o \in Offers /\ Egress # "none"
    <2>1. o \in Acquired(held, bad, cooled, {})
      BY <1>3 DEF Offers
    <2>2. QED
      BY <1>1, <2>1, Acquiring
  <1>4. ASSUME NEW i \in Wids, o \in Elsewhere(i)
        PROVE  /\ o.route \in Exits \cup {None} /\ o.bad \subseteq Exits
               /\ o.cooled \subseteq Exits \ plan.entries /\ o.cost \in {0, 1}
    <2>1. w[i].route \in Exits \cup {None}
      BY BatchAssumption DEF IInv, Slot, WorkerState
    <2>2. BadAfter(i, "bad") \subseteq Exits /\ CooledAfter(i, "bad") \subseteq Exits \ plan.entries
      BY <1>1, <2>1 DEF BadAfter, CooledAfter, MarkBad
    <2>3. o \in Acquired(HeldWithout(i), BadAfter(i, "bad"), CooledAfter(i, "bad"), TriedBy(i))
      BY <1>4 DEF Elsewhere
    <2>4. QED
      BY <1>1, <2>2, <2>3, Acquiring
  <1>5. QED
    BY <1>2, <1>3, <1>4

LEMMA MoreFaults == IInv => faults \in faults .. MaxFaults
  BY BatchAssumption DEF IInv, Kinds, BatchAssumption

LEMMA OfferPaid ==
  ASSUME IInv,
         NEW o, o \in Offers \/ \E i \in Wids : o \in Elsewhere(i),
         Spend(o.cost) \/ Spend(o.cost + 1)
  PROVE  /\ faults' \in faults .. MaxFaults
         /\ Spend(o.cost + 1) => faults < faults'
  <1>1. o.cost \in {0, 1} /\ o.cost \in Nat /\ o.cost + 1 \in Nat
    BY Offered
  <1>2. faults \in Nat /\ MaxFaults \in Nat
    BY BatchAssumption DEF IInv, Kinds, BatchAssumption
  <1>3. QED
    BY <1>1, <1>2, Spent

LEMMA QuietSame ==
  ASSUME IInv, Quiet
  PROVE  UNCHANGED batch /\ faults' \in faults .. MaxFaults
  <1>1. faults \in 0 .. MaxFaults /\ MaxFaults \in Nat
    BY BatchAssumption DEF IInv, Kinds, BatchAssumption
  <1>2. ASSUME NEW e \in Exits, ExitDown(e) \/ Cools(e) \/ Revived(e)
        PROVE  UNCHANGED batch /\ faults' \in faults .. MaxFaults
    <2>1. ExitDown(e) => UNCHANGED batch /\ Spend(1)
      BY DEF ExitDown
    <2>2. Cools(e) \/ Revived(e) => UNCHANGED batch /\ faults' = faults
      BY DEF Cools, Revived
    <2>3. QED
      BY <1>1, <1>2, <2>1, <2>2, Spent
  <1>3. CASE Start \/ TickBegin \/ DrainEnd \/ CheckEnd \/ Upkeep
    <2>1. UNCHANGED batch /\ faults' = faults
      BY <1>3 DEF Start, Preflight, StartBroker, TickBegin, DrainEnd, CheckEnd, Upkeep
    <2>2. QED
      BY <2>1, MoreFaults
  <1>4. CASE SpawnGate \/ LoopEnd \/ LaunchShort \/ Stop
    <2>1. CASE SpawnGate \/ LoopEnd \/ Stop
      BY <1>1, <2>1 DEF SpawnGate, LoopEnd, Stop
    <2>2. CASE LaunchShort
      <3>1. UNCHANGED batch /\ \E o \in Offers : Spend(o.cost)
        BY <2>2 DEF LaunchShort
      <3>2. QED
        BY <3>1, OfferPaid
    <2>3. QED
      BY <1>4, <2>1, <2>2
  <1>5. CASE Timers
    BY <1>1, <1>5 DEF Timers, PauseTimer, HealthTimer, StallTimer, RuntimeTimer
  <1>6. CASE UNCHANGED vars
    BY <1>1, <1>6 DEF vars, batch
  <1>7. QED
    BY <1>2, <1>3, <1>4, <1>5, <1>6 DEF Quiet

LEMMA BlankSlot ==
  /\ FreeSlot \in Slot /\ FreeSlot.st = "free" /\ FreeSlot.out = "none"
  /\ FreeSlot.route = None
  BY BatchAssumption DEF Slot, FreeSlot, WorkerState, BatchAssumption

LEMMA SlotsKept == plan' = plan => Slot' = Slot
  BY DEF Slot, Egress

LEMMA Held ==
  ASSUME IInv, NEW i \in Wids
  PROVE  /\ w \in [Wids -> Slot] /\ w[i] \in Slot /\ w[i] \in WorkerState
         /\ w[i].attempt \in Nat /\ w[i].route \in Exits \cup {None} /\ w[i].tried \subseteq Exits
         /\ w[i].st = "free" => w[i].route = None /\ w[i].out = "none"
         /\ w[i].st \in {"converting", "converted"} => w[i].route = None
         /\ w[i].st \in {"running", "exited"} /\ Egress # "none" =>
              w[i].attempt # 0 /\ w[i].route # None
  BY BatchAssumption, BlankSlot DEF IInv, Slot, WorkerState, BatchAssumption

\* What _mark_terminal adds to the counters.
LEMMA Marked ==
  ASSUME NEW i \in Wids, NEW status \in {"succeeded", "failed", "stopped"},
         NEW t \in Tally, MarkTerminal(i, status, t)
  PROVE  /\ w' = [w EXCEPT ![i] = FreeSlot]
         /\ tally' \in Tally /\ tally'.started = t.started
         /\ tally'.succeeded = t.succeeded + (IF status = "succeeded" THEN 1 ELSE 0)
         /\ tally'.failed = t.failed + (IF status = "failed" THEN 1 ELSE 0)
         /\ tally'.stopped = t.stopped + (IF status = "stopped" THEN 1 ELSE 0)
         /\ Closed(tally') = Closed(t) + 1
         /\ outcomes' = Recorded(status) /\ stallDue' = FALSE
  <1>1. w' = [w EXCEPT ![i] = FreeSlot] /\ outcomes' = Recorded(status) /\ stallDue' = FALSE
        /\ tally' = Bump(t, status)
    BY DEF MarkTerminal
  <1>2. /\ Bump(t, status) \in Tally /\ Bump(t, status).started = t.started
        /\ Bump(t, status).succeeded = t.succeeded + (IF status = "succeeded" THEN 1 ELSE 0)
        /\ Bump(t, status).failed = t.failed + (IF status = "failed" THEN 1 ELSE 0)
        /\ Bump(t, status).stopped = t.stopped + (IF status = "stopped" THEN 1 ELSE 0)
    BY DEF Bump, Tally
  <1>3. t.succeeded \in Nat /\ t.failed \in Nat /\ t.stopped \in Nat
    BY DEF Tally
  <1>4. QED
    BY <1>1, <1>2, <1>3 DEF Closed

LEMMA RecordedOK ==
  ASSUME IInv, NEW status
  PROVE  Recorded(status) \in Seq(BOOLEAN) /\ Len(Recorded(status)) <= CircuitWindow
  <1> DEFINE win == Append(outcomes, status = "succeeded")
  <1>1. outcomes \in Seq(BOOLEAN) /\ Len(outcomes) <= CircuitWindow /\ CircuitWindow \in Nat \ {0}
    BY BatchAssumption DEF IInv, Kinds, BatchAssumption
  <1>2. win \in Seq(BOOLEAN) /\ Len(win) = Len(outcomes) + 1 /\ Len(outcomes) \in Nat
    BY <1>1
  <1>3. Recorded(status) = IF status = "stopped" THEN outcomes
                           ELSE IF Len(win) > CircuitWindow THEN Tail(win) ELSE win
    BY DEF Recorded
  <1> HIDE DEF win
  <1>4. Tail(win) \in Seq(BOOLEAN) /\ Len(Tail(win)) = Len(outcomes)
    BY <1>2
  <1>5. CASE Recorded(status) = win /\ ~(Len(win) > CircuitWindow)
    BY <1>1, <1>2, <1>5
  <1>6. QED
    BY <1>1, <1>3, <1>4, <1>5

\* The tables agree when a worker gives up its route, keeps it, or takes one.
LEMMA GivesUp ==
  ASSUME Lent, w \in [Wids -> Slot], plan' = plan, plan.entries \subseteq Exits,
         NEW i \in Wids, NEW x, x.route = None,
         w' = [w EXCEPT ![i] = x], held' = HeldWithout(i)
  PROVE  Lent'
  <1>1. None \notin Exits
    BY BatchAssumption DEF BatchAssumption
  <1>2. w'[i] = x /\ \A j \in Wids \ {i} : w'[j] = w[j]
    OBVIOUS
  <1>3. held' \in [Exits -> SUBSET Wids] /\ \A e \in Exits : held'[e] = held[e] \ {i}
    BY DEF Lent, HeldWithout
  <1>4. plan'.entries = plan.entries
    OBVIOUS
  <1>5. \A e \in Exits : \A j \in Wids : j \in held'[e] <=> w'[j].route = e
    BY <1>1, <1>2, <1>3 DEF Lent
  <1>6. \A e \in plan'.entries : \A j, k \in held'[e] : j = k
    BY <1>3, <1>4 DEF Lent
  <1>7. QED
    BY <1>3, <1>5, <1>6 DEF Lent

LEMMA Keeps ==
  ASSUME Lent, w \in [Wids -> Slot], plan' = plan, NEW i \in Wids, NEW x, x.route = w[i].route,
         w' = [w EXCEPT ![i] = x], held' = held
  PROVE  Lent'
  <1>1. \A j \in Wids : w'[j].route = w[j].route
    OBVIOUS
  <1>2. QED
    BY <1>1 DEF Lent

LEMMA Takes ==
  ASSUME Lent, w \in [Wids -> Slot], plan' = plan, plan.entries \subseteq Exits,
         NEW i \in Wids, NEW x, NEW e \in Exits, x.route = e,
         w' = [w EXCEPT ![i] = x],
         e \in plan.entries => held[e] \subseteq {i},
         held' \in [Exits -> SUBSET Wids], held'[e] = held[e] \cup {i},
         \A f \in Exits \ {e} : held'[f] = held[f] \ {i}
  PROVE  Lent'
  <1>1. w'[i] = x /\ \A j \in Wids \ {i} : w'[j] = w[j]
    OBVIOUS
  <1>2. plan'.entries = plan.entries
    OBVIOUS
  <1>3. \A f \in Exits : \A j \in Wids : j \in held'[f] <=> w'[j].route = f
    <2>1. ASSUME NEW f \in Exits, NEW j \in Wids PROVE j \in held'[f] <=> w'[j].route = f
      <3>1. j \in held[f] <=> w[j].route = f
        BY DEF Lent
      <3>2. QED
        BY <1>1, <3>1
    <2>2. QED
      BY <2>1
  <1>4. \A f \in plan'.entries : \A j, k \in held'[f] : j = k
    <2>1. ASSUME NEW f \in plan.entries, NEW j \in held'[f], NEW k \in held'[f] PROVE j = k
      <3>1. CASE f = e
        BY <2>1, <3>1
      <3>2. CASE f # e
        <4>1. j \in held[f] /\ k \in held[f]
          BY <2>1, <3>2
        <4>2. QED
          BY <2>1, <4>1 DEF Lent
      <3>3. QED
        BY <3>1, <3>2
    <2>2. QED
      BY <1>2, <2>1
  <1>5. QED
    BY <1>3, <1>4 DEF Lent

-----------------------------------------------------------------------------
(* The books *)

Ledger == w \in [Wids -> Slot] /\ Books /\ Lent

LEMMA Numbers ==
  ASSUME IInv
  PROVE  /\ tally \in Tally /\ tally.started \in Nat /\ tally.succeeded \in Nat
         /\ tally.failed \in Nat /\ tally.stopped \in Nat /\ faults \in Nat
         /\ Closed(tally) \in Nat
  BY BatchAssumption DEF IInv, Kinds, Tally, Closed, BatchAssumption

\* A live worker ends in one counter.
LEMMA EndBooks ==
  ASSUME IInv, plan' = plan, NEW i \in Wids, w[i].st # "free",
         NEW status \in {"succeeded", "failed", "stopped"}, MarkTerminal(i, status, tally),
         faults' \in faults .. MaxFaults
  PROVE  Books' /\ (w \in [Wids -> Slot])'
  <1>1. w' = [w EXCEPT ![i] = FreeSlot] /\ Closed(tally') = Closed(tally) + 1
        /\ tally'.started = tally.started
    BY Marked, Numbers
  <1>2. w' \in [Wids -> Slot]
    BY <1>1, BlankSlot, Held
  <1>3. NumActive' = NumActive - 1 /\ NumOwed' <= NumOwed
        /\ NumActive \in Nat /\ NumOwed \in Nat /\ NumActive' \in Nat /\ NumOwed' \in Nat
    <2>1. ~Owes(FreeSlot) /\ FreeSlot.st = "free"
      BY BlankSlot DEF Owes
    <2>2. w \in [Wids -> Slot]
      BY Held
    <2>3. /\ NumActive \in Nat /\ NumOwed \in Nat /\ NumActive' \in Nat /\ NumOwed' \in Nat
          /\ NumActive' = NumActive - 1
          /\ NumOwed' = NumOwed - 1 \/ NumOwed' = NumOwed
      BY <1>1, <2>1, <2>2, Recount
    <2>4. QED
      BY <2>3
  <1>4. Books'
    BY <1>1, <1>3, Numbers, BatchAssumption DEF IInv, Books, BatchAssumption
  <1>5. QED
    BY <1>2, <1>4, SlotsKept

\* A live worker goes on: a new failure on a route costs a fault.
LEMMA TurnBooks ==
  ASSUME IInv, plan' = plan, NEW i \in Wids, w[i].st # "free",
         NEW x \in Slot, w' = [w EXCEPT ![i] = x], x.st # "free", tally' = tally,
         faults' \in faults .. MaxFaults,
         x.st = "exited" /\ x.out = "egress" => faults < faults' /\ w[i].st # "exited"
  PROVE  Books' /\ (w \in [Wids -> Slot])'
  <1>1. w' \in [Wids -> Slot]
    BY Held
  <1>2. /\ NumActive' = NumActive
        /\ NumOwed' <= NumOwed \/ (NumOwed' = NumOwed + 1 /\ faults < faults')
        /\ NumActive \in Nat /\ NumOwed \in Nat /\ NumActive' \in Nat /\ NumOwed' \in Nat
    <2>1. Owes(x) => faults < faults' /\ ~Owes(w[i])
      BY DEF Owes
    <2>2. w \in [Wids -> Slot]
      BY Held
    <2>3. /\ NumActive \in Nat /\ NumOwed \in Nat /\ NumActive' \in Nat /\ NumOwed' \in Nat
          /\ NumActive' = NumActive
          /\ NumOwed' = NumOwed - 1 \/ NumOwed' = NumOwed
               \/ (NumOwed' = NumOwed + 1 /\ faults < faults')
      BY <2>1, <2>2, Recount
    <2>4. QED
      BY <2>2, <2>3
  <1>3. Books'
    <2>1. Closed(tally') = Closed(tally) /\ tally'.started = tally.started /\ Books
      BY DEF IInv
    <2>2. CASE NumOwed' <= NumOwed
      <3>1. faults <= faults' /\ faults' \in Nat
        BY Numbers, BatchAssumption DEF BatchAssumption
      <3>2. QED
        BY <1>2, <2>1, <2>2, <3>1, Numbers DEF Books
    <2>3. CASE NumOwed' = NumOwed + 1 /\ faults < faults'
      BY <1>2, <2>1, <2>3, Numbers, BatchAssumption DEF Books, BatchAssumption
    <2>4. QED
      BY <1>2, <2>2, <2>3
  <1>4. QED
    BY <1>1, <1>3, SlotsKept

\* The result of a conversion.
LEMMA DrainEventLedger ==
  ASSUME IInv, NEW i \in Wids, DrainEvent(i)
  PROVE  Ledger'
  <1>1. PICK status \in {"succeeded", "failed", "stopped"} : MarkTerminal(i, status, tally)
    BY DEF DrainEvent
  <1>2. w[i].st = "converted" /\ plan' = plan /\ held' = held /\ faults' = faults
    BY DEF DrainEvent
  <1>3. Books' /\ (w \in [Wids -> Slot])'
    BY <1>1, <1>2, EndBooks, MoreFaults
  <1>4. w' = [w EXCEPT ![i] = FreeSlot]
    BY <1>1, Marked, Numbers
  <1>5. Lent'
    BY <1>2, <1>4, Keeps, BlankSlot, Held DEF IInv
  <1>6. QED
    BY <1>3, <1>5 DEF Ledger

\* The ends of a process that free its slot and its route.
LEMMA CheckEndsLedger ==
  ASSUME IInv, NEW i \in Wids,
         CheckStopped(i) \/ (CheckSucceeded(i) /\ ~plan.convert) \/ CheckFailed(i)
           \/ RetryNowhere(i) \/ RetryLaunchError(i)
  PROVE  Ledger'
  <1>1. PICK status \in {"succeeded", "failed", "stopped"} : MarkTerminal(i, status, tally)
    BY DEF CheckStopped, CheckSucceeded, CheckFailed, RetryNowhere, RetryLaunchError
  <1>2. w[i].st = "exited" /\ plan' = plan
    BY DEF CheckStopped, CheckSucceeded, CheckFailed, RetryNowhere, RetryLaunchError, Respawns,
           Polled
  <1>3. held' = HeldWithout(i)
    BY DEF CheckStopped, CheckSucceeded, CheckFailed, RetryNowhere, RetryLaunchError, Release
  <1>4. faults' \in faults .. MaxFaults
    <2>1. CASE CheckStopped(i) \/ CheckSucceeded(i) \/ CheckFailed(i)
      BY <2>1, Numbers, MoreFaults DEF CheckStopped, CheckSucceeded, CheckFailed
    <2>2. CASE RetryNowhere(i) \/ RetryLaunchError(i)
      <3>1. \E o \in Elsewhere(i) : Spend(o.cost) \/ Spend(o.cost + 1)
        BY <2>2 DEF RetryNowhere, RetryLaunchError
      <3>2. QED
        BY <3>1, OfferPaid
    <2>3. QED
      BY <2>1, <2>2
  <1>5. Books' /\ (w \in [Wids -> Slot])'
    BY <1>1, <1>2, <1>4, EndBooks
  <1>6. w' = [w EXCEPT ![i] = FreeSlot]
    BY <1>1, Marked, Numbers
  <1>7. Lent'
    BY <1>2, <1>3, <1>6, GivesUp, BlankSlot, PlanFields DEF IInv, Kinds
  <1>8. QED
    BY <1>5, <1>7 DEF Ledger

\* A conversion takes the slot over, without the route.
LEMMA ConvertingLedger ==
  ASSUME IInv, NEW i \in Wids, CheckSucceeded(i), plan.convert
  PROVE  Ledger'
  <1> DEFINE x == [FreeSlot EXCEPT !.st = "converting"]
  <1>1. x \in Slot /\ x.st = "converting" /\ x.route = None
    BY BatchAssumption DEF FreeSlot, Slot, WorkerState, BatchAssumption
  <1>2. w' = [w EXCEPT ![i] = x]
    BY DEF CheckSucceeded
  <1> HIDE DEF x
  <1>3. w[i].st = "exited" /\ plan' = plan /\ held' = HeldWithout(i) /\ tally' = tally
        /\ faults' = faults
    BY DEF CheckSucceeded, Polled, Release
  <1>4. Books' /\ (w \in [Wids -> Slot])'
    BY <1>1, <1>2, <1>3, TurnBooks, MoreFaults
  <1>5. Lent'
    BY <1>1, <1>2, <1>3, GivesUp, PlanFields DEF IInv, Kinds
  <1>6. QED
    BY <1>4, <1>5 DEF Ledger

\* A failure on a sticky route takes its launch back: the fault was paid when
\* the process ended.
LEMMA RetryStickyLedger ==
  ASSUME IInv, NEW i \in Wids, RetrySticky(i)
  PROVE  Ledger' /\ tally' \in Tally /\ tally'.started = tally.started - 1
         /\ tally'.succeeded = tally.succeeded
  <1> DEFINE t == [tally EXCEPT !.started = @ - 1]
  <1>1. w[i].st = "exited" /\ w[i].out = "egress" /\ plan' = plan /\ faults' = faults
        /\ held' = HeldWithout(i) /\ MarkTerminal(i, "stopped", t)
    BY DEF RetrySticky, Polled, EgressFailure, Release
  <1>2. tally.started - 1 \in Nat
    <2>1. NumActive > 0 /\ NumActive \in Nat
      BY <1>1, Held, LiveCounts
    <2>2. QED
      BY <2>1, Numbers DEF IInv, Books
  <1>3. t \in Tally /\ t.started = tally.started - 1 /\ Closed(t) = Closed(tally)
        /\ t.succeeded = tally.succeeded
    BY <1>2, Numbers DEF Tally, Closed
  <1> HIDE DEF t
  <1>4. /\ w' = [w EXCEPT ![i] = FreeSlot] /\ Closed(tally') = Closed(tally) + 1
        /\ tally' \in Tally /\ tally'.started = tally.started - 1
        /\ tally'.succeeded = tally.succeeded
    <2>1. /\ w' = [w EXCEPT ![i] = FreeSlot] /\ Closed(tally') = Closed(t) + 1
          /\ tally' \in Tally /\ tally'.started = t.started
          /\ tally'.succeeded = t.succeeded + 0
      BY <1>1, <1>3, Marked
    <2>2. QED
      BY <1>3, <2>1, Numbers
  <1>5. NumActive' = NumActive - 1 /\ NumOwed' = NumOwed - 1
        /\ NumActive \in Nat /\ NumOwed \in Nat /\ NumActive' \in Nat /\ NumOwed' \in Nat
    <2>1. ~Owes(FreeSlot) /\ Owes(w[i]) /\ FreeSlot.st = "free"
      BY <1>1, BlankSlot DEF Owes
    <2>2. QED
      BY <1>1, <1>4, <2>1, Recount, Held
  <1>6. Books'
    BY <1>1, <1>4, <1>5, Numbers DEF IInv, Books
  <1>7. w' \in [Wids -> Slot]
    BY <1>4, BlankSlot, Held
  <1>8. Lent'
    BY <1>1, <1>4, GivesUp, BlankSlot, PlanFields DEF IInv, Kinds
  <1>9. QED
    BY <1>1, <1>4, <1>6, <1>7, <1>8, SlotsKept DEF Ledger

\* The same worker moves to a route that nobody has a hold on, or to a node.
LEMMA RetryElsewhereLedger ==
  ASSUME IInv, NEW i \in Wids, RetryElsewhere(i)
  PROVE  Ledger'
  <1>1. PICK o \in Elsewhere(i) :
          /\ o.route # None /\ Spend(o.cost)
          /\ held' = [HeldWithout(i) EXCEPT ![o.route] = @ \cup {i}]
          /\ w' = [w EXCEPT ![i] = [st |-> "running", out |-> "none", route |-> o.route,
                                    attempt |-> w[i].attempt + 1, tried |-> TriedBy(i)]]
    BY DEF RetryElsewhere
  <1> DEFINE e == o.route
  <1> DEFINE x == [st |-> "running", out |-> "none", route |-> e,
                   attempt |-> w[i].attempt + 1, tried |-> TriedBy(i)]
  <1>2. w[i].st = "exited" /\ plan' = plan /\ tally' = tally
        /\ w[i].attempt < MaxRetries /\ Egress # "none" /\ faults' \in faults .. MaxFaults
    BY <1>1, OfferPaid DEF RetryElsewhere, Respawns, Polled, BudgetLeft
  <1>3. plan.entries \subseteq Exits /\ None \notin Exits /\ MaxRetries \in Nat
    BY PlanFields, BatchAssumption DEF IInv, Kinds, BatchAssumption
  <1>4. e \in Exits /\ (e \in plan.entries => HeldWithout(i)[e] = {})
    <2>1. w[i].route \in Exits \cup {None} /\ bad \subseteq Exits /\ cooled \subseteq Exits \ plan.entries
      BY Held DEF IInv, Kinds
    <2>2. BadAfter(i, "bad") \subseteq Exits /\ CooledAfter(i, "bad") \subseteq Exits \ plan.entries
      BY <1>3, <2>1 DEF BadAfter, CooledAfter, MarkBad
    <2>3. o \in Acquired(HeldWithout(i), BadAfter(i, "bad"), CooledAfter(i, "bad"), TriedBy(i))
      BY DEF Elsewhere
    <2>4. QED
      BY <1>1, <1>3, <2>2, <2>3, Acquiring
  <1>5. TriedBy(i) \subseteq Exits
    BY <1>2, Held DEF TriedBy
  <1>6. w[i].attempt + 1 \in 0 .. MaxRetries /\ w[i].attempt + 1 # 0
    BY <1>2, <1>3, Held
  <1>7. x \in Slot /\ x.st = "running" /\ x.route = e
    BY <1>3, <1>4, <1>5, <1>6 DEF Slot, WorkerState
  <1> HIDE DEF x, e
  <1>8. w' = [w EXCEPT ![i] = x]
    BY <1>1 DEF x, e
  <1>9. Books' /\ (w \in [Wids -> Slot])'
    BY <1>2, <1>7, <1>8, TurnBooks
  <1>10. Lent'
    <2>1. HeldWithout(i) \in [Exits -> SUBSET Wids]
          /\ \A f \in Exits : HeldWithout(i)[f] = held[f] \ {i}
      BY DEF HeldWithout, IInv, Lent
    <2>2. held' \in [Exits -> SUBSET Wids] /\ held'[e] = held[e] \cup {i}
          /\ \A f \in Exits \ {e} : held'[f] = held[f] \ {i}
      BY <1>1, <1>4, <2>1 DEF e
    <2>3. e \in plan.entries => held[e] \subseteq {i}
      BY <1>4, <2>1
    <2>4. Lent /\ w \in [Wids -> Slot]
      BY DEF IInv
    <2>5. QED
      BY <1>2, <1>3, <1>4, <1>7, <1>8, <2>2, <2>3, <2>4, Takes
  <1>11. QED
    BY <1>9, <1>10 DEF Ledger

LEMMA ExitLedger ==
  ASSUME IInv, NEW i \in Wids, Exit(i)
  PROVE  Ledger'
  <1>1. PICK out \in {"ok", "fail", "egress", "solver"} :
          ProcessExits(i, out) \/ (ConvertEnds(i, out) /\ out \in {"ok", "fail"})
    BY DEF Exit
  <1>2. PICK st \in {"exited", "converted"} : w' = [w EXCEPT ![i].st = st, ![i].out = out]
          /\ (st = "exited" <=> w[i].st = "running") /\ w[i].st \in {"running", "converting"}
    BY <1>1 DEF ProcessExits, ConvertEnds
  <1> DEFINE x == [w[i] EXCEPT !.st = st, !.out = out]
  <1>3. x \in WorkerState /\ x.st = st /\ x.out = out /\ x.route = w[i].route
        /\ x.attempt = w[i].attempt
    BY Held DEF WorkerState
  <1>4. w' = [w EXCEPT ![i] = x]
    BY <1>2
  <1> HIDE DEF x
  <1>5. x \in Slot
    <2>1. w[i] \in Slot
      BY Held
    <2>2. QED
      BY <1>2, <1>3, <2>1 DEF Slot
  <1>6. plan' = plan /\ tally' = tally /\ held' = held /\ faults' \in faults .. MaxFaults
        /\ (out = "egress" => faults < faults')
    <2>1. plan' = plan /\ tally' = tally /\ held' = held
          /\ \/ faults' = faults /\ out = "ok"
             \/ faults < MaxFaults /\ faults' = faults + 1
      <3>1. CASE ProcessExits(i, out)
        BY <3>1 DEF ProcessExits
      <3>2. CASE ConvertEnds(i, out)
        BY <3>2 DEF ConvertEnds
      <3>3. QED
        BY <1>1, <3>1, <3>2
    <2>2. faults \in Nat /\ MaxFaults \in Nat
      BY Numbers, BatchAssumption DEF BatchAssumption
    <2>3. CASE faults' = faults /\ out = "ok"
      BY <2>1, <2>3, MoreFaults
    <2>4. CASE faults < MaxFaults /\ faults' = faults + 1
      BY <2>1, <2>2, <2>4
    <2>5. QED
      BY <2>1, <2>3, <2>4
  <1>7. Books' /\ (w \in [Wids -> Slot])'
    BY <1>2, <1>3, <1>4, <1>5, <1>6, TurnBooks
  <1>8. Lent'
    BY <1>3, <1>4, <1>6, Keeps DEF IInv
  <1>9. QED
    BY <1>7, <1>8 DEF Ledger

LEMMA FreeSlotNext ==
  ASSUME IInv, MayLaunch
  PROVE  /\ NextSlot \in Wids /\ w[NextSlot].st = "free" /\ w[NextSlot].route = None
         /\ ~Owes(w[NextSlot]) /\ ~stopping /\ (~Continuous => tally.started < plan.count)
  <1>1. Active # Wids
    BY DEF MayLaunch, MayTry, SlotsLeft
  <1>2. NextSlot \in Wids /\ w[NextSlot].st = "free"
    BY <1>1, NextIsFree DEF Active
  <1>3. w[NextSlot].route = None
    BY <1>2, Held
  <1>4. QED
    BY <1>2, <1>3 DEF MayLaunch, MayTry, ShouldRefill, Owes

\* What the requeue holds for the next launch.
LEMMA NextAttempt ==
  ASSUME IInv
  PROVE  /\ PastAttempts \in 0 .. MaxRetries - 1
         /\ RestOfQ \in Seq(1 .. MaxRetries - 1)
  <1>1. retryQ \in Seq(1 .. MaxRetries - 1) /\ MaxRetries \in Nat \ {0}
    BY BatchAssumption DEF IInv, Bounded, BatchAssumption
  <1>2. CASE retryQ = <<>>
    BY <1>1, <1>2 DEF PastAttempts, RestOfQ
  <1>3. CASE retryQ # <<>>
    <2>1. Head(retryQ) \in 1 .. MaxRetries - 1 /\ Tail(retryQ) \in Seq(1 .. MaxRetries - 1)
      BY <1>1, <1>3
    <2>2. PastAttempts = Head(retryQ) /\ RestOfQ = Tail(retryQ)
      BY <1>3 DEF PastAttempts, RestOfQ
    <2>3. QED
      BY <1>1, <2>1, <2>2
  <1>4. QED
    BY <1>2, <1>3

LEMMA LaunchLedger ==
  ASSUME IInv, Launch
  PROVE  Ledger'
  <1> DEFINE i == NextSlot
  <1>1. PICK o \in Offers :
          /\ Taken(o) /\ Spend(o.cost)
          /\ w' = [w EXCEPT ![i] = [FreeSlot EXCEPT
                     !.st = "running", !.route = o.route,
                     !.attempt = IF o.route = None THEN 0 ELSE PastAttempts + 1]]
          /\ held' = [f \in Exits |-> IF f = o.route THEN held[f] \cup {i} ELSE held[f]]
    BY DEF Launch
  <1> DEFINE e == o.route
  <1>2. i \in Wids /\ w[i].st = "free" /\ w[i].route = None /\ ~Owes(w[i])
    BY FreeSlotNext DEF Launch
  <1>3. plan' = plan /\ tally' = [tally EXCEPT !.started = @ + 1]
        /\ faults' \in faults .. MaxFaults
    BY <1>1, OfferPaid DEF Launch
  <1> HIDE DEF i
  <1>4. plan.entries \subseteq Exits /\ None \notin Exits /\ MaxRetries \in Nat \ {0}
    BY PlanFields, BatchAssumption DEF IInv, Kinds, BatchAssumption
  <1>5. /\ e \in Exits \cup {None} /\ (Egress # "none" => e # None)
        /\ e \in plan.entries => held[e] = {}
    <2>1. bad \subseteq Exits /\ cooled \subseteq Exits \ plan.entries
      BY DEF IInv, Kinds
    <2>2. CASE Egress = "none"
      BY <1>1, <1>4, <2>2 DEF Offers
    <2>3. CASE Egress # "none"
      <3>1. o \in Acquired(held, bad, cooled, {})
        BY <2>3 DEF Offers
      <3>2. QED
        BY <1>1, <1>4, <2>1, <2>3, <3>1, Acquiring DEF Taken
    <2>4. QED
      BY <2>2, <2>3
  <1> DEFINE a == IF e = None THEN 0 ELSE PastAttempts + 1
             x == [FreeSlot EXCEPT !.st = "running", !.route = e, !.attempt = a]
  <1>6. a \in 0 .. MaxRetries /\ (e # None => a # 0)
    <2>1. PastAttempts \in 0 .. MaxRetries - 1
      BY NextAttempt
    <2> HIDE DEF PastAttempts
    <2>2. QED
      BY <1>4, <2>1
  <1>7. w' = [w EXCEPT ![i] = x]
    BY <1>1
  <1> HIDE DEF a, e
  <1>8. x \in WorkerState /\ x.st = "running" /\ x.route = e /\ x.attempt = a
    BY <1>5, <1>6 DEF FreeSlot, WorkerState
  <1> HIDE DEF x
  <1>9. x \in Slot /\ ~Owes(x)
    BY <1>4, <1>5, <1>6, <1>8 DEF Slot, Owes
  <1>10. w' \in [Wids -> Slot]
    BY <1>7, <1>9, <1>2, Held
  <1>11. Books'
    <2>1. w \in [Wids -> Slot]
      BY DEF IInv
    <2>2. /\ NumActive \in Nat /\ NumOwed \in Nat /\ NumActive' \in Nat /\ NumOwed' \in Nat
          /\ NumActive' = NumActive + 1 /\ NumOwed' = NumOwed
      BY <1>2, <1>7, <1>8, <1>9, <2>1, Recount
    <2>3. Closed(tally') = Closed(tally) /\ tally'.started = tally.started + 1
      BY <1>3, Numbers DEF Tally, Closed
    <2>4. Books
      BY DEF IInv
    <2>5. QED
      BY <1>3, <2>2, <2>3, <2>4, Numbers, BatchAssumption DEF Books, BatchAssumption
  <1>12. Lent'
    <2>1. Lent /\ w \in [Wids -> Slot] /\ held \in [Exits -> SUBSET Wids]
          /\ \A f \in Exits : i \notin held[f]
      BY <1>2, <1>4 DEF IInv, Lent
    <2>2. CASE e = None
      <3>1. held' = held
        BY <1>1, <1>4, <2>1, <2>2 DEF e
      <3>2. QED
        BY <1>2, <1>3, <1>7, <1>8, <2>1, <2>2, <3>1, Keeps
    <2>3. CASE e # None
      <3>1. held' \in [Exits -> SUBSET Wids] /\ held'[e] = held[e] \cup {i}
            /\ \A f \in Exits \ {e} : held'[f] = held[f] \ {i}
        BY <1>1, <1>2, <1>5, <2>1, <2>3 DEF e
      <3>2. QED
        BY <1>2, <1>3, <1>4, <1>5, <1>7, <1>8, <2>1, <2>3, <3>1, Takes
    <2>4. QED
      BY <2>2, <2>3
  <1>13. QED
    BY <1>3, <1>10, <1>11, <1>12, SlotsKept DEF Ledger

\* An error of a launch is a failed task without a worker.
LEMMA LaunchErrorLedger ==
  ASSUME IInv, LaunchError
  PROVE  /\ Ledger' /\ tally' \in Tally
         /\ tally'.started \in {tally.started, tally.started + 1}
         /\ tally'.succeeded = tally.succeeded /\ tally'.stopped = tally.stopped
  <1> DEFINE i == NextSlot
             n == IF retryQ = <<>> THEN 0 ELSE 1
             t == [tally EXCEPT !.started = @ + n]
  <1>1. i \in Wids /\ w[i].st = "free" /\ w[i].route = None /\ ~Owes(w[i])
    BY FreeSlotNext DEF LaunchError
  <1>2. MarkTerminal(i, "failed", t) /\ plan' = plan /\ held' = held
        /\ faults < faults' /\ faults' \in Nat
    <2>1. \E o \in Offers : Spend(o.cost + 1)
      BY DEF LaunchError
    <2>2. faults < faults' /\ faults' \in faults .. MaxFaults
      BY <2>1, OfferPaid
    <2>3. QED
      BY <2>2, Numbers, BatchAssumption DEF LaunchError, BatchAssumption
  <1>3. n \in {0, 1}
    OBVIOUS
  <1> HIDE DEF i, n
  <1>4. t \in Tally /\ t.started = tally.started + n /\ Closed(t) = Closed(tally)
        /\ t.succeeded = tally.succeeded /\ t.stopped = tally.stopped
    BY <1>3, Numbers DEF Tally, Closed
  <1> HIDE DEF t
  <1>5. /\ w' = [w EXCEPT ![i] = FreeSlot] /\ Closed(tally') = Closed(t) + 1
        /\ tally' \in Tally /\ tally'.started = t.started
        /\ tally'.succeeded = t.succeeded + 0 /\ tally'.stopped = t.stopped + 0
    BY <1>1, <1>2, <1>4, Marked
  <1>6. w \in [Wids -> Slot] /\ Books /\ Lent
    BY DEF IInv
  <1>7. /\ NumActive \in Nat /\ NumOwed \in Nat /\ NumActive' \in Nat /\ NumOwed' \in Nat
        /\ NumActive' = NumActive /\ NumOwed' = NumOwed
    <2>1. ~Owes(FreeSlot) /\ FreeSlot.st = "free"
      BY BlankSlot DEF Owes
    <2>2. QED
      BY <1>1, <1>5, <1>6, <2>1, Recount
  <1>8. Books'
    BY <1>2, <1>3, <1>4, <1>5, <1>6, <1>7, Numbers DEF Books
  <1>9. w' \in [Wids -> Slot]
    BY <1>5, <1>6, BlankSlot
  <1>10. Lent'
    BY <1>1, <1>2, <1>5, <1>6, BlankSlot, Keeps
  <1>11. QED
    BY <1>2, <1>3, <1>4, <1>5, <1>8, <1>9, <1>10, Numbers, SlotsKept DEF Ledger

\* _finalize returns what is still held, which is nothing.
LEMMA TickEndLedger ==
  ASSUME IInv, TickEnd
  PROVE  Ledger'
  <1>1. w' = w /\ plan' = plan /\ tally' = tally /\ faults' = faults
    BY DEF TickEnd
  <1>2. w \in [Wids -> Slot] /\ Books /\ Lent /\ None \notin Exits
    BY BatchAssumption DEF IInv, BatchAssumption
  <1>3. NumActive' = NumActive /\ NumOwed' = NumOwed
    BY <1>1 DEF NumActive, NumOwed, Active, Owed
  <1>4. Books' /\ (w \in [Wids -> Slot])'
    BY <1>1, <1>2, <1>3, SlotsKept DEF Books
  <1>5. Lent'
    <2>1. CASE held' = held
      BY <1>1, <1>2, <2>1 DEF Lent
    <2>2. CASE Active = {} /\ held' = [e \in Exits |-> {}]
      <3>1. \A j \in Wids : w[j].route = None
        BY <2>2, Held DEF Active
      <3>2. \A e \in Exits : held[e] = {}
        BY <1>2, <3>1 DEF Lent
      <3>3. held' = held
        BY <1>2, <2>2, <3>2 DEF Lent
      <3>4. QED
        BY <1>1, <1>2, <3>3 DEF Lent
    <2>3. QED
      BY <2>1, <2>2 DEF TickEnd
  <1>6. QED
    BY <1>4, <1>5 DEF Ledger

LEMMA Steps ==
  [Next]_vars => \/ Quiet \/ Launch \/ LaunchError \/ TickEnd
                 \/ \E i \in Wids : DrainEvent(i) \/ CheckWorker(i) \/ Exit(i)
  BY DEF Next, Tick, Quiet

LEMMA PlanKept ==
  ASSUME IInv, [Next]_vars
  PROVE  plan' = plan
  <1>1. Quiet => plan' = plan
    BY QuietSame DEF batch
  <1>2. Launch \/ LaunchError \/ TickEnd => plan' = plan
    BY DEF Launch, LaunchError, TickEnd
  <1>3. ASSUME NEW i \in Wids, DrainEvent(i) \/ CheckWorker(i) \/ Exit(i) PROVE plan' = plan
    BY <1>3 DEF DrainEvent, CheckWorker, CheckStopped, CheckSucceeded, CheckFailed, RetrySticky,
           RetryElsewhere, RetryNowhere, RetryLaunchError, Respawns, Polled, Exit, ProcessExits,
           ConvertEnds
  <1>4. QED
    BY <1>1, <1>2, <1>3, Steps

LEMMA LedgerStep == IInv /\ [Next]_vars => Ledger'
  <1> SUFFICES ASSUME IInv, [Next]_vars PROVE Ledger'
    OBVIOUS
  <1>1. CASE Quiet
    <2>1. plan' = plan /\ w' = w /\ held' = held /\ tally' = tally
          /\ faults' \in faults .. MaxFaults
      BY <1>1, QuietSame DEF batch
    <2>2. NumActive' = NumActive /\ NumOwed' = NumOwed
      BY <2>1 DEF NumActive, NumOwed, Active, Owed
    <2>3. NumActive \in Nat /\ NumOwed \in Nat
      <3>1. Active \in SUBSET Wids /\ Owed \in SUBSET Wids
        BY DEF Active, Owed
      <3>2. QED
        BY <3>1, Counts DEF NumActive, NumOwed
    <2>4. Books /\ Lent /\ w \in [Wids -> Slot]
      BY DEF IInv
    <2>5. Books'
      BY <2>1, <2>2, <2>3, <2>4, Numbers, BatchAssumption DEF Books, BatchAssumption
    <2>6. Lent'
      BY <2>1, <2>4 DEF Lent
    <2>7. QED
      BY <2>1, <2>4, <2>5, <2>6, SlotsKept DEF Ledger
  <1>2. ASSUME NEW i \in Wids, DrainEvent(i) \/ CheckWorker(i) \/ Exit(i) PROVE Ledger'
    BY <1>2, DrainEventLedger, CheckEndsLedger, ConvertingLedger, RetryStickyLedger,
       RetryElsewhereLedger, ExitLedger DEF CheckWorker
  <1>3. QED
    BY <1>1, <1>2, Steps, LaunchLedger, LaunchErrorLedger, TickEndLedger

-----------------------------------------------------------------------------
(* The gate, step by step *)

LEMMA GateStep == IInv /\ [Next]_vars => GateOK(gate, outcomes)'
  <1> SUFFICES ASSUME IInv, [Next]_vars PROVE GateOK(gate, outcomes)'
    OBVIOUS
  <1>1. GateOK(gate, outcomes)
    BY DEF IInv
  <1>2. \A g, win : GateOK(g, win) /\ gate' = g /\ outcomes' = win => GateOK(gate, outcomes)'
    BY PlanKept DEF GateOK, Continuous
  <1>3. ShortageWhy \in {"embedded", "other"}
    BY DEF ShortageWhy
  <1>4. GateOK(RefillPause(gate).gate, outcomes)
    BY <1>1, Refilling
  <1>5. \A status : GateOK(GateAfter(gate, status), Recorded(status))
    BY <1>1, Marking
  <1>6. \A g, win, why : GateOK(g, win) /\ why \in {"embedded", "other"}
                           => GateOK(PauseRefill(g, FALSE, why), win)
    BY Pausing
  <1>7. UNCHANGED <<gate, outcomes>> => GateOK(gate, outcomes)'
    BY <1>1, <1>2
  <1>8. CASE Upkeep
    <2> DEFINE g == EvaluateProxyHealth(gate, FALSE)
    <2>1. GateOK(g, outcomes)
      BY <1>1, Evaluating
    <2>2. Stalled => Continuous
      BY DEF Stalled, StallApplies
    <2>3. gate' = (IF Stalled THEN RecoverStall(g) ELSE g) /\ outcomes' = outcomes
      BY <1>8 DEF Upkeep, batch
    <2> HIDE DEF g
    <2>4. Stalled => GateOK(RecoverStall(g), outcomes)
      BY <2>1, <2>2, Recovering
    <2>5. QED
      BY <1>2, <2>1, <2>3, <2>4
  <1>9. CASE SpawnGate \/ LoopEnd \/ Launch
    <2>1. gate' \in {gate, RefillPause(gate).gate} /\ outcomes' = outcomes
      BY <1>9 DEF SpawnGate, LoopEnd, Launch, batch
    <2>2. QED
      BY <1>1, <1>2, <1>4, <2>1
  <1>10. CASE LaunchShort
    <2>1. gate' = PauseRefill(RefillPause(gate).gate, FALSE, ShortageWhy) /\ outcomes' = outcomes
      BY <1>10 DEF LaunchShort, batch
    <2>2. QED
      BY <1>2, <1>3, <1>4, <1>6, <2>1
  <1>11. CASE LaunchError
    <2>1. gate' = PauseRefill(GateAfter(RefillPause(gate).gate, "failed"), FALSE, "other")
          /\ outcomes' = Recorded("failed")
      BY <1>11 DEF LaunchError, MarkTerminal
    <2>2. GateOK(GateAfter(RefillPause(gate).gate, "failed"), Recorded("failed"))
      BY <1>4, Marking
    <2>3. QED
      BY <1>2, <1>6, <2>1, <2>2
  <1>12. CASE Timers
    <2>1. outcomes' = outcomes
      BY <1>12 DEF Timers, PauseTimer, HealthTimer, StallTimer, RuntimeTimer, batch
    <2>2. CASE PauseTimer
      <3>1. gate' = [gate EXCEPT !.pause = "expired"] /\ gate.pause = "timed"
        BY <2>2 DEF PauseTimer
      <3>2. GateOK([gate EXCEPT !.pause = "expired"], outcomes)
        BY <1>1, <3>1 DEF GateOK, GateState
      <3>3. QED
        BY <1>2, <2>1, <3>1, <3>2
    <2>3. CASE HealthTimer
      <3>1. gate' = [gate EXCEPT !.due = TRUE]
        BY <2>3 DEF HealthTimer
      <3>2. GateOK([gate EXCEPT !.due = TRUE], outcomes)
        BY <1>1 DEF GateOK, GateState
      <3>3. QED
        BY <1>2, <2>1, <3>1, <3>2
    <2>4. CASE StallTimer \/ RuntimeTimer
      BY <1>7, <2>1, <2>4 DEF StallTimer, RuntimeTimer
    <2>5. QED
      BY <1>12, <2>2, <2>3, <2>4 DEF Timers
  <1>13. ASSUME NEW i \in Wids, DrainEvent(i) PROVE GateOK(gate, outcomes)'
    BY <1>2, <1>5, <1>13 DEF DrainEvent, MarkTerminal
  <1>14. ASSUME NEW i \in Wids, CheckWorker(i) PROVE GateOK(gate, outcomes)'
    <2>1. CASE CheckStopped(i) \/ RetrySticky(i)
      <3>1. gate' = gate /\ outcomes' = Recorded("stopped")
        BY <2>1 DEF CheckStopped, RetrySticky, MarkTerminal
      <3>2. Recorded("stopped") = outcomes
        BY DEF Recorded
      <3>3. QED
        BY <1>7, <3>1, <3>2
    <2>2. CASE CheckSucceeded(i)
      BY <1>2, <1>5, <1>7, <2>2 DEF CheckSucceeded, MarkTerminal
    <2>3. CASE CheckFailed(i)
      BY <1>2, <1>5, <2>3 DEF CheckFailed, MarkTerminal
    <2>4. CASE RetryElsewhere(i)
      BY <1>7, <2>4 DEF RetryElsewhere
    <2>5. CASE RetryNowhere(i) \/ RetryLaunchError(i)
      <3>1. PICK why \in {"embedded", "other"} :
              gate' = PauseRefill(GateAfter(gate, "failed"), FALSE, why)
        BY <1>3, <2>5 DEF RetryNowhere, RetryLaunchError
      <3>2. outcomes' = Recorded("failed")
        BY <2>5 DEF RetryNowhere, RetryLaunchError, MarkTerminal
      <3>3. QED
        BY <1>2, <1>5, <1>6, <3>1, <3>2
    <2>6. QED
      BY <1>14, <2>1, <2>2, <2>3, <2>4, <2>5 DEF CheckWorker
  <1>15. ASSUME NEW i \in Wids, Exit(i) PROVE GateOK(gate, outcomes)'
    BY <1>7, <1>15 DEF Exit, ProcessExits, ConvertEnds
  <1>16. CASE Start \/ TickBegin \/ DrainEnd \/ CheckEnd \/ Stop \/ TickEnd \/ UNCHANGED vars
    BY <1>7, <1>16 DEF Start, Preflight, StartBroker, TickBegin, DrainEnd, CheckEnd, Stop, TickEnd,
           vars, batch
  <1>17. ASSUME NEW e \in Exits, ExitDown(e) \/ Cools(e) \/ Revived(e) PROVE GateOK(gate, outcomes)'
    BY <1>7, <1>17 DEF ExitDown, Cools, Revived, batch
  <1>18. QED
    BY <1>8, <1>9, <1>10, <1>11, <1>12, <1>13, <1>14, <1>15, <1>16, <1>17, Steps DEF Quiet

-----------------------------------------------------------------------------
(* Counters, phases and bounds *)

\* The counters only grow, but for a launch taken back on a sticky route.
Grows ==
  /\ tally' \in Tally /\ tally'.succeeded >= tally.succeeded
  /\ Egress # "sticky" => tally'.started >= tally.started
  /\ ~stopping /\ Egress # "sticky" => tally'.stopped = tally.stopped
  /\ ~Continuous => tally'.started <= plan.count
  /\ at = "idle" => tally' = tally

LEMMA TallyStep == IInv /\ [Next]_vars => Grows
  <1> SUFFICES ASSUME IInv, [Next]_vars PROVE Grows
    OBVIOUS
  <1>1. /\ ~Continuous => tally.started <= plan.count
        /\ plan.count \in Nat
    BY PlanFields DEF IInv, Bounded, Kinds
  <1>2. tally' = tally => Grows
    BY <1>1, Numbers DEF Grows
  <1>3. ASSUME NEW i \in Wids, NEW status \in {"succeeded", "failed", "stopped"},
               MarkTerminal(i, status, tally), status = "stopped" => stopping, at # "idle"
        PROVE  Grows
    <2>1. /\ tally' \in Tally /\ tally'.started = tally.started
          /\ tally'.succeeded = tally.succeeded + (IF status = "succeeded" THEN 1 ELSE 0)
          /\ tally'.stopped = tally.stopped + (IF status = "stopped" THEN 1 ELSE 0)
      BY <1>3, Marked, Numbers
    <2>2. tally'.succeeded >= tally.succeeded
      BY <2>1, Numbers
    <2>3. ~stopping => tally'.stopped = tally.stopped
      BY <1>3, <2>1, Numbers
    <2>4. QED
      BY <1>1, <1>3, <2>1, <2>2, <2>3, Numbers DEF Grows
  <1>4. CASE Quiet
    BY <1>2, <1>4, QuietSame DEF batch
  <1>5. CASE Launch
    <2>1. tally' = [tally EXCEPT !.started = @ + 1] /\ at # "idle"
          /\ (~Continuous => tally.started < plan.count)
      BY <1>5, FreeSlotNext DEF Launch, MayLaunch, MayTry
    <2>2. tally' \in Tally /\ tally'.started = tally.started + 1
          /\ tally'.succeeded = tally.succeeded /\ tally'.stopped = tally.stopped
      BY <2>1, Numbers DEF Tally
    <2>3. QED
      BY <1>1, <2>1, <2>2, Numbers DEF Grows
  <1>6. CASE LaunchError
    <2>1. at # "idle" /\ (~Continuous => tally.started < plan.count)
      BY <1>6, FreeSlotNext DEF LaunchError, MayLaunch, MayTry
    <2>2. QED
      BY <1>1, <1>6, <2>1, LaunchErrorLedger, Numbers DEF Grows
  <1>7. CASE TickEnd
    BY <1>2, <1>7 DEF TickEnd
  <1>8. ASSUME NEW i \in Wids, DrainEvent(i) PROVE Grows
    <2>1. PICK status \in {"succeeded", "failed", "stopped"} :
            MarkTerminal(i, status, tally) /\ (status = "stopped" => stopping)
      BY <1>8 DEF DrainEvent
    <2>2. at # "idle"
      BY <1>8 DEF DrainEvent
    <2>3. QED
      BY <1>3, <2>1, <2>2
  <1>9. ASSUME NEW i \in Wids, CheckWorker(i) PROVE Grows
    <2>1. at # "idle"
      BY <1>9 DEF CheckWorker, CheckStopped, CheckSucceeded, CheckFailed, RetrySticky,
             RetryElsewhere, RetryNowhere, RetryLaunchError, Respawns, Polled
    <2>2. CASE RetrySticky(i)
      <3>1. Egress = "sticky"
        BY <2>2 DEF RetrySticky
      <3>2. QED
        BY <1>1, <2>1, <2>2, <3>1, RetryStickyLedger, Numbers DEF Grows
    <2>3. CASE ~RetrySticky(i) /\ ~(tally' = tally)
      <3>1. PICK status \in {"succeeded", "failed", "stopped"} :
              MarkTerminal(i, status, tally) /\ (status = "stopped" => stopping)
        BY <1>9, <2>3 DEF CheckWorker, CheckStopped, CheckSucceeded, CheckFailed,
               RetryElsewhere, RetryNowhere, RetryLaunchError
      <3>2. QED
        BY <1>3, <2>1, <3>1
    <2>4. QED
      BY <1>2, <2>2, <2>3
  <1>10. ASSUME NEW i \in Wids, Exit(i) PROVE Grows
    BY <1>2, <1>10 DEF Exit, ProcessExits, ConvertEnds
  <1>11. QED
    BY <1>4, <1>5, <1>6, <1>7, <1>8, <1>9, <1>10, Steps

LEMMA QueueStep == IInv /\ [Next]_vars => Bounded'
  <1> SUFFICES ASSUME IInv, [Next]_vars PROVE Bounded'
    OBVIOUS
  <1>1. (~Continuous => tally.started <= plan.count)'
    BY TallyStep, PlanKept DEF Grows, Continuous
  <1>2. retryQ \in Seq(1 .. MaxRetries - 1) /\ MaxRetries \in Nat \ {0}
    BY BatchAssumption DEF IInv, Bounded, BatchAssumption
  <1>3. Quiet => retryQ' = retryQ
    BY QuietSame DEF batch
  <1>4. Launch \/ LaunchError => retryQ' \in Seq(1 .. MaxRetries - 1)
    BY NextAttempt DEF Launch, LaunchError
  <1>5. ASSUME NEW i \in Wids, CheckWorker(i) PROVE retryQ' \in Seq(1 .. MaxRetries - 1)
    <2>1. CASE RetrySticky(i)
      <3>1. retryQ' = Append(retryQ, w[i].attempt) /\ w[i].st = "exited" /\ Egress # "none"
            /\ w[i].attempt < MaxRetries
        BY <2>1 DEF RetrySticky, Polled, BudgetLeft
      <3>2. w[i].attempt \in 1 .. MaxRetries - 1
        BY <1>2, <3>1, Held
      <3>3. QED
        BY <1>2, <3>1, <3>2
    <2>2. CASE ~RetrySticky(i)
      BY <1>2, <1>5, <2>2 DEF CheckWorker, CheckStopped, CheckSucceeded, CheckFailed,
             RetryElsewhere, RetryNowhere, RetryLaunchError
    <2>3. QED
      BY <2>1, <2>2
  <1>6. ASSUME NEW i \in Wids, DrainEvent(i) \/ Exit(i) PROVE retryQ' = retryQ
    BY <1>6 DEF DrainEvent, Exit, ProcessExits, ConvertEnds
  <1>7. TickEnd => retryQ' = retryQ
    BY DEF TickEnd
  <1>8. QED
    BY <1>1, <1>2, <1>3, <1>4, <1>5, <1>6, <1>7, Steps DEF Bounded

\* What has been planned stays done.
LEMMA PlannedStays ==
  ASSUME IInv, [Next]_vars, Planned, timeUp => timeUp'
  PROVE  Planned'
  <1>1. tally'.succeeded >= tally.succeeded /\ (Egress # "sticky" => tally'.started >= tally.started)
        /\ tally' \in Tally
    BY TallyStep DEF Grows
  <1>2. plan.target \in Nat /\ plan.count \in Nat /\ plan' = plan
    BY PlanFields, PlanKept DEF IInv, Kinds
  <1>3. tally'.succeeded \in Nat /\ tally'.started \in Nat
    BY <1>1 DEF Tally
  <1>4. QED
    BY <1>1, <1>2, <1>3, Numbers DEF Planned, Continuous, Egress

LEMMA NothingToRefill ==
  ASSUME IInv, ~ShouldRefill, phase = "running", ~stopping
  PROVE  Planned
  BY Numbers, PlanFields DEF ShouldRefill, Planned, IInv, Kinds

\* A step that leaves the phase, and the place of a batch that is over.
LEMMA EndingKept ==
  ASSUME IInv, [Next]_vars, phase' = phase, stopping' = stopping, timeUp => timeUp',
         at' = at \/ (at \notin {"preflight", "broker"} /\ phase \notin Ended)
  PROVE  Ending'
  <1>1. plan' = plan
    BY PlanKept
  <1>2. Ending
    BY DEF IInv
  <1>3. Grows
    BY TallyStep
  <1>4. (phase = "starting" => at \in {"preflight", "broker"})'
    BY <1>2 DEF Ending
  <1>5. (phase \in Ended => at = "idle")'
    BY <1>2 DEF Ending, Ended
  <1>6. (phase \in {"draining", "done"} /\ ~stopping => Planned)'
    BY <1>2, PlannedStays DEF Ending
  <1>7. (~stopping /\ Egress # "sticky" => tally.stopped = 0)'
    BY <1>1, <1>2, <1>3 DEF Ending, Grows, Egress
  <1>8. phase = "done" => tally' = tally
    BY <1>2, <1>3 DEF Ending, Grows, Ended
  <1>9. (phase = "done" /\ ~stopping /\ ~Continuous /\ Egress # "sticky" =>
           tally.succeeded + tally.failed >= plan.count)'
    BY <1>1, <1>2, <1>8 DEF Ending, Egress, Continuous
  <1>10. QED
    BY <1>4, <1>5, <1>6, <1>7, <1>9 DEF Ending

LEMMA EndingStep == IInv /\ [Next]_vars => Ending'
  <1> SUFFICES ASSUME IInv, [Next]_vars PROVE Ending'
    OBVIOUS
  <1>1. Ending /\ plan' = plan /\ Grows
    BY PlanKept, TallyStep DEF IInv
  <1>2. at \notin {"idle", "preflight", "broker"} => phase \notin Ended \cup {"starting"}
    BY <1>1 DEF Ending
  <1>3. phase \in {"starting", "running", "draining"} \cup Ended
    BY DEF IInv, Kinds
  <1>4. CASE Start
    <2>1. /\ at \in {"preflight", "broker"} /\ UNCHANGED <<batch, stopping, timeUp>>
          /\ \/ phase' = "refused" /\ at' = "idle"
             \/ phase' = "running" /\ at' = "spawn"
             \/ phase' = phase /\ at' = "broker"
      BY <1>4 DEF Start, Preflight, StartBroker, Refuse
    <2>2. CASE phase' = phase /\ at' = "broker"
      <3>1. phase \notin Ended
        BY <1>1, <2>1 DEF Ending
      <3>2. Planned' = Planned /\ Continuous' = Continuous /\ Egress' = Egress
            /\ tally' = tally /\ stopping' = stopping
        BY <2>1 DEF batch, Planned, Continuous, Egress
      <3>3. QED
        BY <1>1, <2>2, <3>1, <3>2 DEF Ending, Ended
    <2>3. CASE phase' \in {"refused", "running"}
      <3>1. Egress' = Egress /\ tally' = tally /\ stopping' = stopping
        BY <2>1 DEF batch, Egress
      <3>2. QED
        BY <1>1, <2>1, <2>3, <3>1 DEF Ending, Ended
    <2>4. QED
      BY <2>1, <2>2, <2>3
  <1>5. CASE TickBegin \/ DrainEnd \/ CheckEnd \/ LoopEnd \/ LaunchShort
    <2>1. phase' = phase /\ stopping' = stopping /\ timeUp' = timeUp
          /\ (at \notin {"idle", "preflight", "broker"} \/ (at = "idle" /\ phase \notin Ended))
      BY <1>5 DEF TickBegin, DrainEnd, CheckEnd, LoopEnd, LaunchShort, MayLaunch, MayTry
    <2>2. QED
      BY <1>2, <2>1, EndingKept
  <1>6. CASE Upkeep \/ SpawnGate
    <2>1. /\ at \notin {"idle", "preflight", "broker"} /\ stopping' = stopping /\ timeUp' = timeUp
          /\ tally' = tally
          /\ \/ phase' = phase
             \/ phase = "running" /\ phase' = "draining" /\ ~ShouldRefill
      BY <1>6 DEF Upkeep, SpawnGate, batch
    <2>2. CASE phase' = phase
      BY <1>2, <2>1, <2>2, EndingKept
    <2>3. CASE phase = "running" /\ phase' = "draining" /\ ~ShouldRefill
      <3>1. ~stopping => Planned'
        BY <2>1, <2>3, NothingToRefill, PlannedStays
      <3>2. Egress' = Egress
        BY <1>1 DEF Egress
      <3>3. QED
        BY <1>1, <2>1, <2>3, <3>1, <3>2 DEF Ending, Ended
    <2>4. QED
      BY <2>1, <2>2, <2>3
  <1>7. CASE Stop
    BY <1>7 DEF Stop, Ending, Ended
  <1>8. CASE Timers \/ UNCHANGED vars
    <2>1. phase' = phase /\ stopping' = stopping /\ at' = at /\ (timeUp => timeUp')
      BY <1>8 DEF Timers, PauseTimer, HealthTimer, StallTimer, RuntimeTimer, place, vars
    <2>2. QED
      BY <2>1, EndingKept
  <1>9. ASSUME NEW e \in Exits, ExitDown(e) \/ Cools(e) \/ Revived(e) PROVE Ending'
    <2>1. phase' = phase /\ stopping' = stopping /\ at' = at /\ timeUp' = timeUp
      BY <1>9 DEF ExitDown, Cools, Revived, place
    <2>2. QED
      BY <2>1, EndingKept
  <1>10. CASE Launch \/ LaunchError
    <2>1. phase' = phase /\ stopping' = stopping /\ timeUp' = timeUp
          /\ at \notin {"idle", "preflight", "broker"}
      BY <1>10 DEF Launch, LaunchError, MayLaunch, MayTry
    <2>2. QED
      BY <1>2, <2>1, EndingKept
  <1>11. ASSUME NEW i \in Wids, DrainEvent(i) \/ CheckWorker(i) \/ Exit(i) PROVE Ending'
    <2>1. phase' = phase /\ stopping' = stopping /\ at' = at /\ timeUp' = timeUp
      BY <1>11 DEF DrainEvent, CheckWorker, CheckStopped, CheckSucceeded, CheckFailed, RetrySticky,
           RetryElsewhere, RetryNowhere, RetryLaunchError, Respawns, Polled, Exit, ProcessExits,
           ConvertEnds, place
    <2>2. QED
      BY <2>1, EndingKept
  <1>12. CASE TickEnd
    <2>1. /\ at = "final" /\ at' = "idle" /\ stopping' = stopping /\ timeUp' = timeUp
          /\ tally' = tally
          /\ \/ phase' = phase
             \/ Active = {} /\ ~ShouldRefill /\ phase' = "done"
      BY <1>12 DEF TickEnd
    <2>2. CASE phase' = phase
      BY <1>2, <2>1, <2>2, EndingKept
    <2>3. CASE Active = {} /\ ~ShouldRefill /\ phase' = "done"
      <3>1. phase \in {"running", "draining"}
        BY <1>2, <1>3, <2>1
      <3>2. ~stopping => Planned
        BY <1>1, <2>3, <3>1, NothingToRefill DEF Ending
      <3>3. ~stopping => Planned'
        BY <2>1, <3>2, PlannedStays
      <3>4. NumActive = 0
        BY <2>3, FS_EmptySet DEF NumActive
      <3>5. tally.started <= Closed(tally)
        BY <3>4, Numbers DEF IInv, Books
      <3>6. ~stopping /\ ~Continuous /\ Egress # "sticky" =>
              tally.succeeded + tally.failed >= plan.count
        <4>1. plan.count \in Nat
          BY PlanFields DEF IInv, Kinds
        <4>2. QED
          BY <1>1, <3>2, <3>5, <4>1, Numbers DEF Ending, Planned, Closed
      <3>7. Egress' = Egress /\ Continuous' = Continuous
        BY <1>1 DEF Egress, Continuous
      <3>8. QED
        BY <1>1, <2>1, <2>3, <3>3, <3>6, <3>7 DEF Ending, Ended
    <2>4. QED
      BY <2>1, <2>2, <2>3
  <1>13. QED
    BY <1>4, <1>5, <1>6, <1>7, <1>8, <1>9, <1>10, <1>11, <1>12, Steps DEF Quiet

-----------------------------------------------------------------------------
(* The kinds of the other variables *)

LEMMA RoutesStep == IInv /\ [Next]_vars => bad' \subseteq Exits /\ cooled' \subseteq Exits \ plan.entries
  <1> SUFFICES ASSUME IInv, [Next]_vars
               PROVE  bad' \subseteq Exits /\ cooled' \subseteq Exits \ plan.entries
    OBVIOUS
  <1> DEFINE RoutesOK == bad' \subseteq Exits /\ cooled' \subseteq Exits \ plan.entries
  <1>1. bad \subseteq Exits /\ cooled \subseteq Exits \ plan.entries /\ plan.entries \subseteq Exits
    BY PlanFields DEF IInv, Kinds
  <1>2. ASSUME NEW i \in Wids, NEW verdict
        PROVE  BadAfter(i, verdict) \subseteq Exits /\ CooledAfter(i, verdict) \subseteq Exits \ plan.entries
    BY <1>1, Held DEF BadAfter, CooledAfter, MarkBad
  <1>3. ASSUME NEW i \in Wids, CheckWorker(i) PROVE RoutesOK
    <2>1. CASE CheckStopped(i) \/ CheckSucceeded(i) \/ CheckFailed(i) \/ RetrySticky(i)
      <3>1. \E verdict : Release(i, verdict)
        BY <2>1 DEF CheckStopped, CheckSucceeded, CheckFailed, RetrySticky
      <3>2. QED
        BY <1>2, <3>1 DEF Release
    <2>2. CASE RetryElsewhere(i) \/ RetryNowhere(i)
      <3>1. \E o \in Elsewhere(i) : bad' = o.bad /\ cooled' = o.cooled
        BY <2>2 DEF RetryElsewhere, RetryNowhere
      <3>2. QED
        BY <3>1, Offered
    <2>3. CASE RetryLaunchError(i)
      <3>1. PICK o \in Elsewhere(i) : \E blame \in Blames(o.route) :
              /\ o.route # None
              /\ bad' = o.bad \cup IF blame = "bad" THEN {o.route} ELSE {}
              /\ cooled' = o.cooled
        BY <2>3 DEF RetryLaunchError
      <3>2. QED
        BY <3>1, Offered
    <2>4. QED
      BY <1>3, <2>1, <2>2, <2>3 DEF CheckWorker
  <1>4. CASE LaunchError
    <2>1. PICK o \in Offers : \E blame \in Blames(o.route) :
            /\ bad' = o.bad \cup IF blame = "bad" THEN {o.route} \ {None} ELSE {}
            /\ cooled' = o.cooled
      BY <1>4 DEF LaunchError
    <2>2. QED
      BY <2>1, Offered
  <1>5. CASE Launch \/ LaunchShort
    <2>1. \E o \in Offers : bad' = o.bad /\ cooled' = o.cooled
      BY <1>5 DEF Launch, LaunchShort
    <2>2. QED
      BY <2>1, Offered
  <1>6. ASSUME NEW i \in Wids, DrainEvent(i) \/ Exit(i) PROVE RoutesOK
    BY <1>1, <1>6 DEF DrainEvent, Exit, ProcessExits, ConvertEnds, RoutesOK, routes
  <1>7. CASE TickEnd \/ TickBegin \/ DrainEnd \/ CheckEnd \/ Upkeep \/ SpawnGate
               \/ LoopEnd \/ Stop \/ Timers \/ UNCHANGED vars
    BY <1>1, <1>7 DEF TickEnd, TickBegin, DrainEnd, CheckEnd, Upkeep, SpawnGate, LoopEnd,
           Stop, Timers, PauseTimer, HealthTimer, StallTimer, RuntimeTimer, vars, routes
  <1>8. CASE Start
    BY <1>1, <1>8 DEF Start, Preflight, StartBroker, FailedProbes, Snapshot, routes
  <1>9. ASSUME NEW e \in Exits, ExitDown(e) \/ Cools(e) \/ Revived(e) PROVE RoutesOK
    BY <1>1, <1>9 DEF ExitDown, Cools, Revived, Entry
  <1>10. QED
    BY <1>3, <1>4, <1>5, <1>6, <1>7, <1>8, <1>9, Steps DEF Quiet

LEMMA WindowStep ==
  IInv /\ [Next]_vars => outcomes' \in Seq(BOOLEAN) /\ Len(outcomes') <= CircuitWindow
  <1> SUFFICES ASSUME IInv, [Next]_vars
               PROVE  outcomes' \in Seq(BOOLEAN) /\ Len(outcomes') <= CircuitWindow
    OBVIOUS
  <1>1. outcomes' = outcomes \/ \E status : outcomes' = Recorded(status)
    <2>1. CASE Quiet
      BY <2>1, QuietSame DEF batch
    <2>2. CASE Launch \/ TickEnd
      BY <2>2 DEF Launch, TickEnd
    <2>3. CASE LaunchError
      BY <2>3 DEF LaunchError, MarkTerminal
    <2>4. ASSUME NEW i \in Wids, DrainEvent(i) \/ Exit(i)
          PROVE  outcomes' = outcomes \/ \E status : outcomes' = Recorded(status)
      BY <2>4 DEF DrainEvent, MarkTerminal, Exit, ProcessExits, ConvertEnds
    <2>5. ASSUME NEW i \in Wids, CheckWorker(i)
          PROVE  outcomes' = outcomes \/ \E status : outcomes' = Recorded(status)
      BY <2>5 DEF CheckWorker, CheckStopped, CheckSucceeded, CheckFailed, RetrySticky,
             RetryElsewhere, RetryNowhere, RetryLaunchError, MarkTerminal
    <2>6. QED
      BY <2>1, <2>2, <2>3, <2>4, <2>5, Steps
  <1>2. outcomes \in Seq(BOOLEAN) /\ Len(outcomes) <= CircuitWindow
    BY DEF IInv, Kinds
  <1>3. QED
    BY <1>1, <1>2, RecordedOK

LEMMA PlaceStep ==
  IInv /\ [Next]_vars => /\ phase' \in {"starting", "running", "draining"} \cup Ended
                         /\ at' \in Places /\ todo' \subseteq Wids /\ tries' \in 0 .. NumWorkers
  <1> SUFFICES ASSUME IInv, [Next]_vars
               PROVE  /\ phase' \in {"starting", "running", "draining"} \cup Ended
                      /\ at' \in Places /\ todo' \subseteq Wids /\ tries' \in 0 .. NumWorkers
    OBVIOUS
  <1> DEFINE OK == /\ phase' \in {"starting", "running", "draining"} \cup Ended
                   /\ at' \in Places /\ todo' \subseteq Wids /\ tries' \in 0 .. NumWorkers
  <1>1. /\ phase \in {"starting", "running", "draining"} \cup Ended
        /\ at \in Places /\ todo \subseteq Wids /\ tries \in 0 .. NumWorkers
        /\ NumWorkers \in Nat
    BY BatchAssumption DEF IInv, Kinds, BatchAssumption
  <1>2. UNCHANGED place => OK
    BY <1>1 DEF place
  <1>3. CASE Start
    BY <1>1, <1>3 DEF Start, Preflight, StartBroker, Refuse, Ended, Places
  <1>4. CASE TickBegin \/ DrainEnd \/ CheckEnd \/ TickEnd \/ Stop
    BY <1>1, <1>4 DEF TickBegin, DrainEnd, CheckEnd, TickEnd, Stop, Ended, Places
  <1>5. CASE Upkeep \/ SpawnGate \/ LoopEnd \/ LaunchShort \/ LaunchError
    <2>1. phase' \in {phase, "draining"} /\ at' \in Places /\ todo' = todo /\ tries' \in {tries, 0}
      BY <1>5 DEF Upkeep, SpawnGate, LoopEnd, LaunchShort, LaunchError, Places
    <2>2. QED
      BY <1>1, <2>1
  <1>6. CASE Launch
    <2>1. tries' = tries + 1 /\ tries < NumWorkers /\ phase' = phase /\ at' = at /\ todo' = todo
      BY <1>6 DEF Launch, MayLaunch, MayTry
    <2>2. QED
      BY <1>1, <2>1
  <1>7. CASE Timers \/ UNCHANGED vars
    BY <1>2, <1>7 DEF Timers, PauseTimer, HealthTimer, StallTimer, RuntimeTimer, place, vars
  <1>8. ASSUME NEW e \in Exits, ExitDown(e) \/ Cools(e) \/ Revived(e) PROVE OK
    BY <1>2, <1>8 DEF ExitDown, Cools, Revived
  <1>9. ASSUME NEW i \in Wids, CheckWorker(i)
        PROVE  phase' = phase /\ at' = at /\ tries' = tries /\ todo' = todo \ {i}
    BY <1>9 DEF CheckWorker, CheckStopped, CheckSucceeded, CheckFailed, RetrySticky,
           RetryElsewhere, RetryNowhere, RetryLaunchError, Respawns, Polled
  <1>10. ASSUME NEW i \in Wids, CheckWorker(i) PROVE OK
    BY <1>1, <1>9, <1>10
  <1>11. ASSUME NEW i \in Wids, DrainEvent(i) \/ Exit(i) PROVE OK
    BY <1>2, <1>11 DEF DrainEvent, Exit, ProcessExits, ConvertEnds, place
  <1>12. QED
    BY <1>3, <1>4, <1>5, <1>6, <1>7, <1>8, <1>10, <1>11, Steps DEF Quiet

LEMMA FlagStep ==
  IInv /\ [Next]_vars => /\ {stopping', timeUp', stallDue'} \subseteq BOOLEAN
                         /\ faults' \in 0 .. MaxFaults
  <1> SUFFICES ASSUME IInv, [Next]_vars
               PROVE  /\ {stopping', timeUp', stallDue'} \subseteq BOOLEAN
                      /\ faults' \in 0 .. MaxFaults
    OBVIOUS
  <1>1. stopping \in BOOLEAN /\ timeUp \in BOOLEAN /\ stallDue \in BOOLEAN
        /\ faults \in 0 .. MaxFaults /\ MaxFaults \in Nat
    BY BatchAssumption DEF IInv, Kinds, BatchAssumption
  <1>2. faults' = faults \/ (faults' = faults + 1 /\ faults < MaxFaults)
          \/ faults' \in faults .. MaxFaults
    <2>1. CASE Quiet
      BY <2>1, QuietSame
    <2>2. CASE Launch \/ LaunchError
      <3>1. \E o \in Offers : Spend(o.cost) \/ Spend(o.cost + 1)
        BY <2>2 DEF Launch, LaunchError
      <3>2. QED
        BY <3>1, OfferPaid
    <2>3. CASE TickEnd
      BY <2>3 DEF TickEnd
    <2>4. ASSUME NEW i \in Wids, DrainEvent(i) \/ Exit(i)
          PROVE  faults' = faults \/ (faults' = faults + 1 /\ faults < MaxFaults)
      BY <2>4 DEF DrainEvent, Exit, ProcessExits, ConvertEnds
    <2>5. ASSUME NEW i \in Wids, CheckWorker(i)
          PROVE  faults' = faults \/ \E o \in Elsewhere(i) : Spend(o.cost) \/ Spend(o.cost + 1)
      BY <2>5 DEF CheckWorker, CheckStopped, CheckSucceeded, CheckFailed, RetrySticky,
             RetryElsewhere, RetryNowhere, RetryLaunchError
    <2>6. QED
      BY <2>1, <2>2, <2>3, <2>4, <2>5, OfferPaid, Steps
  <1>3. faults' \in 0 .. MaxFaults
    BY <1>1, <1>2
  <1>4. stopping' \in {stopping, TRUE} /\ timeUp' \in {timeUp, TRUE}
    <2>1. CASE Quiet
      BY <2>1 DEF Quiet, Start, Preflight, StartBroker, TickBegin, DrainEnd, CheckEnd, Upkeep,
             SpawnGate, LoopEnd, LaunchShort, Stop, Timers, PauseTimer, HealthTimer, StallTimer,
             RuntimeTimer, ExitDown, Cools, Revived, vars
    <2>2. CASE Launch \/ LaunchError \/ TickEnd
      BY <2>2 DEF Launch, LaunchError, TickEnd
    <2>3. ASSUME NEW i \in Wids, DrainEvent(i) \/ CheckWorker(i) \/ Exit(i)
          PROVE  stopping' = stopping /\ timeUp' = timeUp
      BY <2>3 DEF DrainEvent, CheckWorker, CheckStopped, CheckSucceeded, CheckFailed, RetrySticky,
             RetryElsewhere, RetryNowhere, RetryLaunchError, Respawns, Polled, Exit, ProcessExits,
             ConvertEnds
    <2>4. QED
      BY <2>1, <2>2, <2>3, Steps
  <1>5. stallDue' \in BOOLEAN
    <2>1. CASE Upkeep
      BY <2>1 DEF Upkeep
    <2>2. CASE Quiet /\ ~Upkeep
      BY <1>1, <2>2 DEF Quiet, Start, Preflight, StartBroker, TickBegin, DrainEnd, CheckEnd,
             SpawnGate, LoopEnd, LaunchShort, Stop, Timers, PauseTimer, HealthTimer, StallTimer,
             RuntimeTimer, ExitDown, Cools, Revived, vars
    <2>3. CASE Launch \/ LaunchError \/ TickEnd
      BY <1>1, <2>3 DEF Launch, LaunchError, TickEnd, MarkTerminal
    <2>4. ASSUME NEW i \in Wids, DrainEvent(i) \/ CheckWorker(i) \/ Exit(i)
          PROVE  stallDue' \in {stallDue, FALSE}
      BY <2>4 DEF DrainEvent, CheckWorker, CheckStopped, CheckSucceeded, CheckFailed, RetrySticky,
             RetryElsewhere, RetryNowhere, RetryLaunchError, MarkTerminal, Exit, ProcessExits,
             ConvertEnds
    <2>5. QED
      BY <1>1, <2>1, <2>2, <2>3, <2>4, Steps
  <1>6. QED
    BY <1>1, <1>3, <1>4, <1>5

-----------------------------------------------------------------------------
(* The invariant holds *)

LEMMA IInvStep == IInv /\ [Next]_vars => IInv'
  <1> SUFFICES ASSUME IInv, [Next]_vars PROVE IInv'
    OBVIOUS
  <1>1. Ledger' /\ GateOK(gate, outcomes)' /\ Ending' /\ Bounded'
    BY LedgerStep, GateStep, EndingStep, QueueStep
  <1>2. Kinds'
    <2>1. plan' \in Plans
      BY PlanKept DEF IInv, Kinds
    <2>2. tally' \in Tally
      BY TallyStep DEF Grows
    <2>3. QED
      BY <2>1, <2>2, RoutesStep, WindowStep, PlaceStep, FlagStep, PlanKept DEF Kinds, Ended
  <1>3. QED
    BY <1>1, <1>2 DEF IInv, Ledger

LEMMA InitIInv == Init => IInv
  <1> SUFFICES ASSUME Init PROVE IInv
    OBVIOUS
  <1>1. /\ NumWorkers \in Nat /\ MaxFaults \in Nat /\ CircuitWindow \in Nat \ {0}
        /\ None \notin Exits
    BY BatchAssumption DEF BatchAssumption
  <1>2. plan \in Plans /\ plan.count \in Nat \ {0} /\ plan.entries \subseteq Exits
    BY PlanFields DEF Init
  <1>3. /\ tally \in Tally /\ tally.started = 0 /\ Closed(tally) = 0 /\ tally.stopped = 0
        /\ tally.succeeded = 0 /\ tally.failed = 0
    <2>1. tally = [started |-> 0, succeeded |-> 0, failed |-> 0, stopped |-> 0]
      BY DEF Init
    <2>2. /\ tally \in Tally /\ tally.started = 0 /\ tally.stopped = 0 /\ tally.succeeded = 0
          /\ tally.failed = 0
      BY <2>1 DEF Tally
    <2>3. QED
      BY <2>2 DEF Closed
  <1>4. Kinds
    <2>1. outcomes = <<>>
      BY DEF Init
    <2>2. outcomes \in Seq(BOOLEAN) /\ Len(outcomes) <= CircuitWindow
      BY <1>1, <2>1
    <2>3. tries = 0 /\ faults = 0
      BY DEF Init
    <2>4. tries \in 0 .. NumWorkers /\ faults \in 0 .. MaxFaults
      BY <1>1, <2>3
    <2>5. bad = {} /\ cooled = {} /\ todo = {} /\ phase = "starting" /\ at = "preflight" /\ stopping = FALSE
          /\ timeUp = FALSE /\ stallDue = FALSE
      BY DEF Init
    <2>6. QED
      BY <1>2, <1>3, <2>2, <2>4, <2>5 DEF Kinds, Places
  <1>5. w \in [Wids -> Slot] /\ \A i \in Wids : w[i] = FreeSlot
    BY BlankSlot DEF Init
  <1>6. Books
    <2>1. Active = {} /\ Owed = {}
      BY <1>5, BlankSlot DEF Active, Owed
    <2>2. NumActive = 0 /\ NumOwed = 0
      BY <2>1, FS_EmptySet DEF NumActive, NumOwed
    <2>3. faults = 0
      BY DEF Init
    <2>4. QED
      BY <1>3, <2>2, <2>3 DEF Books
  <1>7. Lent
    BY <1>1, <1>2, <1>5, BlankSlot DEF Init, Lent
  <1>8. GateOK(gate, outcomes)
    <2>1. ~TooManyFails(<<>>)
      BY <1>1 DEF TooManyFails
    <2>2. QED
      BY <2>1 DEF Init, GateOK, GateState
  <1>9. Ending
    BY <1>3 DEF Init, Ending, Ended
  <1>10. Bounded
    <2>1. retryQ = <<>>
      BY DEF Init
    <2>2. retryQ \in Seq(1 .. MaxRetries - 1) /\ 0 <= plan.count
      BY <1>2, <2>1
    <2>3. QED
      BY <1>3, <2>2 DEF Bounded
  <1>11. QED
    BY <1>4, <1>5, <1>6, <1>7, <1>8, <1>9, <1>10 DEF IInv

LEMMA Inductive == Spec => []IInv
  BY InitIInv, IInvStep, PTL DEF Spec

-----------------------------------------------------------------------------
(* The theorems *)

\* Launches and ends, and routes lent and routes held, tell one story at every
\* step of a tick (_mark_terminal, _spawn_worker, _release_worker_proxy and the
\* retries of BatchRunner).
THEOREM AccountsAlwaysBalance == Spec => []AccountsBalance
  <1>1. IInv => AccountsBalance
    <2> SUFFICES ASSUME IInv PROVE AccountsBalance
      OBVIOUS
    <2>1. MaxRetries \in Nat \ {0}
      BY BatchAssumption DEF BatchAssumption
    <2>2. retryQ \in Seq(1 .. MaxRetries)
      BY <2>1 DEF IInv, Bounded
    <2>3. w \in [Wids -> WorkerState]
      BY DEF IInv, Slot
    <2>4. TypeOK
      BY <2>2, <2>3 DEF IInv, Kinds, Lent, GateOK, TypeOK, Tally
    <2>5. EveryLaunchAccounted
      <3>1. NumOwed \in Nat /\ NumActive \in Nat
        <4>1. Active \in SUBSET Wids /\ Owed \in SUBSET Wids
          BY DEF Active, Owed
        <4>2. QED
          BY <4>1, Counts DEF NumActive, NumOwed
      <3>2. Books
        BY DEF IInv
      <3>3. /\ tally.started <= Closed(tally) + NumActive
            /\ Closed(tally) + NumActive <= tally.started + faults
        BY <3>1, <3>2, Numbers DEF Books
      <3>4. QED
        BY <3>3 DEF EveryLaunchAccounted, Closed, NumActive
    <2>6. LeasesMatchWorkers
      <3>1. held \in [Exits -> SUBSET Wids] /\ plan.entries \subseteq Exits
        BY PlanFields DEF IInv, Kinds, Lent
      <3>2. \A e \in Exits : held[e] = {i \in Wids : w[i].route = e}
        BY <3>1 DEF IInv, Lent
      <3>3. ASSUME NEW e \in plan.entries PROVE Cardinality(held[e]) <= 1
        <4>1. \A i, j \in held[e] : i = j
          BY DEF IInv, Lent
        <4>2. held[e] = {} \/ \E i : held[e] = {i}
          BY <4>1
        <4>3. Cardinality(held[e]) \in {0, 1}
          BY <4>2, FS_EmptySet, FS_Singleton
        <4>4. QED
          BY <4>3
      <3>4. \A i \in Wids : w[i].st \in {"converting", "converted"} => w[i].route = None
        BY Held
      <3>5. QED
        BY <3>2, <3>3, <3>4 DEF LeasesMatchWorkers
    <2>7. QED
      BY <2>4, <2>5, <2>6 DEF AccountsBalance
  <1>2. QED
    BY <1>1, Inductive, PTL

\* No requeue, retry or launch error carries a batch beyond its number of
\* tasks, or a task beyond its attempts (_should_refill, _maybe_retry_proxy_node).
THEOREM BatchesStayWithinPlan == Spec => []WithinPlan
  <1>1. IInv => WithinPlan
    <2> SUFFICES ASSUME IInv PROVE WithinPlan
      OBVIOUS
    <2>1. MaxRetries \in Nat \ {0}
      BY BatchAssumption DEF BatchAssumption
    <2>2. \A i \in Wids : w[i].attempt <= MaxRetries
      BY <2>1, Held DEF WorkerState
    <2>3. \A k \in DOMAIN retryQ : retryQ[k] < MaxRetries
      BY <2>1 DEF IInv, Bounded
    <2>4. QED
      BY <2>2, <2>3 DEF IInv, Bounded, WithinPlan, RetryBudgetKept, NeverOverCount
  <1>2. QED
    BY <1>1, Inductive, PTL

\* A batch in count mode that ends by itself has an outcome for each of its
\* tasks, a continuous one its target or its time, for every plan without
\* sticky routes (_finalize after _should_refill).
THEOREM PlansAreDone ==
  ASSUME \A p \in Plans : p.egress # "sticky"
  PROVE  Spec => []DoneMeansPlanDone
  <1>1. IInv => DoneMeansPlanDone
    <2> SUFFICES ASSUME IInv PROVE DoneMeansPlanDone
      OBVIOUS
    <2>1. Egress # "sticky"
      BY DEF IInv, Kinds, Egress
    <2>2. QED
      BY <2>1 DEF IInv, Ending, DoneMeansPlanDone, Planned
  <1>2. QED
    BY <1>1, Inductive, PTL

\* A process starts only in a retry or a launch.
LEMMA Starting ==
  ASSUME IInv, [Next]_vars, NEW i \in Wids, w'[i].st = "running", w[i].st # "running"
  PROVE  RetryElsewhere(i) \/ (Launch /\ i = NextSlot)
  <1>1. \A j \in Wids : w[j] \in Slot
    BY Held
  <1>2. ASSUME NEW j \in Wids, NEW x, w' = [w EXCEPT ![j] = x]
        PROVE  i = j /\ x.st = "running"
    BY <1>2, <1>1 DEF IInv
  <1>3. \A j \in Wids : \A status, t : ~MarkTerminal(j, status, t)
    BY <1>2, BlankSlot DEF MarkTerminal
  <1>4. w' # w
    OBVIOUS
  <1>5. ~Quiet
    BY <1>4, QuietSame DEF batch
  <1>6. ~TickEnd
    BY <1>4 DEF TickEnd
  <1>7. ~LaunchError
    BY <1>3, FreeSlotNext DEF LaunchError
  <1>8. ASSUME NEW j \in Wids PROVE ~DrainEvent(j)
    BY <1>3 DEF DrainEvent
  <1>9. ASSUME NEW j \in Wids, Exit(j) PROVE FALSE
    <2>1. PICK st \in {"exited", "converted"}, out \in {"ok", "fail", "egress", "solver"} :
            w' = [w EXCEPT ![j].st = st, ![j].out = out]
      BY <1>9 DEF Exit, ProcessExits, ConvertEnds
    <2>2. [w[j] EXCEPT !.st = st, !.out = out].st = st
      BY Held DEF WorkerState
    <2>3. w' = [w EXCEPT ![j] = [w[j] EXCEPT !.st = st, !.out = out]]
      BY <2>1
    <2>4. QED
      BY <1>2, <2>2, <2>3
  <1>10. ASSUME NEW j \in Wids, CheckWorker(j) PROVE RetryElsewhere(i)
    <2>1. ASSUME CheckSucceeded(j) PROVE FALSE
      <3>1. w' = [w EXCEPT ![j] = [FreeSlot EXCEPT !.st = "converting"]]
        BY <1>3, <2>1 DEF CheckSucceeded
      <3>2. [FreeSlot EXCEPT !.st = "converting"].st = "converting"
        BY DEF FreeSlot
      <3>3. QED
        BY <1>2, <3>1, <3>2
    <2>2. ASSUME NEW status, NEW t, MarkTerminal(j, status, t) PROVE FALSE
      BY <1>3, <2>2
    <2>3. RetryElsewhere(j)
      <3>1. ~CheckStopped(j) /\ ~CheckFailed(j) /\ ~RetryNowhere(j)
        BY <2>2 DEF CheckStopped, CheckFailed, RetryNowhere
      <3>2. ~RetrySticky(j) /\ ~RetryLaunchError(j)
        BY <2>2 DEF RetrySticky, RetryLaunchError
      <3>3. QED
        BY <1>10, <2>1, <3>1, <3>2 DEF CheckWorker
    <2>4. i = j
      BY <1>2, <2>3 DEF RetryElsewhere
    <2>5. QED
      BY <2>3, <2>4
  <1>11. ASSUME Launch PROVE i = NextSlot
    <2>1. NextSlot \in Wids
      BY <1>11, FreeSlotNext DEF Launch
    <2>2. QED
      BY <1>2, <1>11, <2>1 DEF Launch
  <1>12. QED
    BY <1>5, <1>6, <1>7, <1>8, <1>9, <1>10, <1>11, Steps

\* No path to a launch gets past the operator's stop, or past the protection
\* that pauses the refill (_spawn_available, _maybe_retry_proxy_node).
THEOREM LaunchesAreAllowed == Spec => OnlyAllowedLaunches
  <1>1. IInv /\ [Next]_vars =>
          (stopping => \A i \in Wids : w'[i].st = "running" => w[i].st = "running")
    <2> SUFFICES ASSUME IInv, [Next]_vars, stopping, NEW i \in Wids, w'[i].st = "running",
                        w[i].st # "running"
                 PROVE  FALSE
      OBVIOUS
    <2>1. RetryElsewhere(i) \/ Launch
      BY Starting
    <2>2. QED
      BY <2>1 DEF RetryElsewhere, Respawns, EgressFailure, Launch, MayLaunch, MayTry, ShouldRefill
  <1>2. IInv /\ [Next]_vars =>
          \A i \in Wids : (w[i].st = "free" /\ w'[i].st = "running")
            => ~gate'.unhealthy /\ (Continuous \/ ~TooManyFails(outcomes))
    <2> SUFFICES ASSUME IInv, [Next]_vars, NEW i \in Wids, w[i].st = "free",
                        w'[i].st = "running"
                 PROVE  ~gate'.unhealthy /\ (Continuous \/ ~TooManyFails(outcomes))
      OBVIOUS
    <2>1. Launch
      BY Starting DEF RetryElsewhere, Respawns, Polled
    <2>2. gate' = RefillPause(gate).gate /\ ~RefillPause(gate).on
      BY <2>1 DEF Launch, MayLaunch
    <2>3. QED
      BY <2>2, Refilling DEF IInv
  <1>3. QED
    BY <1>1, <1>2, Inductive, PTL
       DEF Spec, OnlyAllowedLaunches, NoLaunchAfterStop, RefillRespectsProtection

=============================================================================
