----------------------------- MODULE SignUpProofs -----------------------------
(***************************************************************************)
(* For every number of solve requests, provider slots, registrations,      *)
(* domains and tries: the solver service gives back every slot, leaves no  *)
(* solve on a dead loop and stops what it has closed; an sso cookie that a *)
(* registration has had outlives its failure; and the registrations keep   *)
(* the pace and the rejected domains they share.                           *)
(*                                                                         *)
(* The first three are not inductive: whether a solve may be scheduled     *)
(* depends on what its thread has read of the broker a while ago           *)
(* (RequestsOK), on how the loop of a broker and its closed flag are       *)
(* related (BrokersOK), and on which broker the close is about             *)
(* (ClosingOK).                                                            *)
(***************************************************************************)
EXTENDS SignUp, FiniteSetTheorems, TLAPS

-----------------------------------------------------------------------------
(* The service *)

\* A request past "get" has its broker, one that has a coroutine waits for it
\* or has left it, and one that is about to schedule has seen a loop published.
RequestsOK ==
  \A r \in Calls :
    /\ request[r].at \in {"ensure", "await", "schedule", "wait"} => Of(r) \in Brokers
    /\ task[r] # "none" => Of(r) \in Brokers /\ request[r].at \in {"wait", "failed"}
    /\ request[r].at = "schedule" => broker[Of(r)].published

\* A loop that was published runs until its broker is closed, and then only
\* while the close has still to stop it.
BrokersOK ==
  \A b \in Brokers :
    /\ broker[b].loop = "up" => broker[b].published
    /\ broker[b].published /\ ~broker[b].closed => broker[b].loop = "up"
    /\ broker[b].loop = "up" /\ broker[b].closed => closing.at = "cancel" /\ closing.broker = b
    /\ broker[b].loop \in {"none", "starting"} => ~broker[b].published

ClosingOK ==
  /\ closing.at \in {"brokers", "cancel"} => closing.broker \in Brokers
  /\ closing.at = "cancel" => broker[closing.broker].closed

ServiceInv ==
  /\ ServiceTypeOK
  /\ RequestsOK /\ BrokersOK /\ ClosingOK
  /\ SlotsReturned /\ NoTaskOnDeadLoop

\* Everything that may happen to the service.
ServiceNext ==
  \/ ServiceWork \/ Close
  \/ \E r \in Calls : Arrive(r) \/ GiveUp(r) \/ Expire(r)

LEMMA CallsFinite == IsFiniteSet(Calls)
  <1>1. Requests \in Nat
    BY ServiceAssumption DEF ServiceAssumption
  <1>2. QED
    BY <1>1, FS_Interval DEF Calls

\* What one element that comes or goes does to the size of a set.
LEMMA CountMoved ==
  ASSUME NEW A, IsFiniteSet(A), NEW B, NEW r, A \ {r} = B \ {r}
  PROVE  /\ Cardinality(A) \in Nat /\ Cardinality(B) \in Nat
         /\ r \in A /\ r \in B => Cardinality(B) = Cardinality(A)
         /\ r \notin A /\ r \notin B => Cardinality(B) = Cardinality(A)
         /\ r \in A /\ r \notin B => Cardinality(B) = Cardinality(A) - 1 /\ Cardinality(A) >= 1
         /\ r \notin A /\ r \in B => Cardinality(B) = Cardinality(A) + 1
  <1>1. CASE (r \in A) <=> (r \in B)
    <2>1. A = B
      BY <1>1
    <2>2. QED
      BY <1>1, <2>1, FS_CardinalityType
  <1>2. CASE r \in A /\ r \notin B
    <2>1. B = A \ {r}
      BY <1>2
    <2>2. IsFiniteSet(B) /\ Cardinality(B) = Cardinality(A) - 1
      BY <1>2, <2>1, FS_RemoveElement
    <2>3. Cardinality(A) \in Nat /\ Cardinality(B) \in Nat
      BY <2>2, FS_CardinalityType
    <2>4. QED
      BY <1>2, <2>2, <2>3
  <1>3. CASE r \notin A /\ r \in B
    <2>1. B = A \cup {r}
      BY <1>3
    <2>2. Cardinality(B) = Cardinality(A) + 1 /\ Cardinality(A) \in Nat
      BY <1>3, <2>1, FS_AddElement, FS_CardinalityType
    <2>3. QED
      BY <1>3, <2>2
  <1>4. QED
    BY <1>1, <1>2, <1>3

\* The requests of broker b whose coroutine is at a place of S.
Mine(b, S) == {r \in Calls : request[r].broker = b /\ task[r] \in S}

LEMMA MineFinite == \A b, S : IsFiniteSet(Mine(b, S))
  <1>1. ASSUME NEW b, NEW S PROVE IsFiniteSet(Mine(b, S))
    <2>1. Mine(b, S) \subseteq Calls
      BY DEF Mine
    <2>2. QED
      BY <2>1, CallsFinite, FS_Subset
  <1>2. QED
    BY <1>1

LEMMA ServiceBounds == Requests \in Nat \ {0} /\ Slots \in Nat \ {0} /\ Queue \in Nat \ {0}
  BY ServiceAssumption DEF ServiceAssumption

Holding == {"waiting", "create", "poll"}
AtProvider == {"create", "poll"}

LEMMA SlotsCounted ==
  SlotsReturned <=> \A b \in Brokers : /\ broker[b].pending = Cardinality(Mine(b, Holding))
                                       /\ broker[b].used = Cardinality(Mine(b, AtProvider))
  BY DEF SlotsReturned, Mine, Holding, AtProvider

\* How the count of a broker's coroutines changes with one of them.
LEMMA MineStep ==
  ASSUME NEW r \in Calls, NEW b, NEW S,
         \A q \in Calls : q # r => /\ request'[q].broker = request[q].broker
                                   /\ task'[q] = task[q]
  PROVE  /\ Cardinality(Mine(b, S)) \in Nat /\ Cardinality(Mine(b, S)') \in Nat
         /\ LET before == request[r].broker = b /\ task[r] \in S
                after == request'[r].broker = b /\ task'[r] \in S
            IN /\ (before <=> after) => Cardinality(Mine(b, S)') = Cardinality(Mine(b, S))
               /\ before /\ ~after => /\ Cardinality(Mine(b, S)') = Cardinality(Mine(b, S)) - 1
                                      /\ Cardinality(Mine(b, S)) >= 1
               /\ ~before /\ after => Cardinality(Mine(b, S)') = Cardinality(Mine(b, S)) + 1
  <1>1. Mine(b, S) \ {r} = Mine(b, S)' \ {r}
    BY DEF Mine
  <1>2. r \in Mine(b, S) <=> request[r].broker = b /\ task[r] \in S
    BY DEF Mine
  <1>3. r \in Mine(b, S)' <=> request'[r].broker = b /\ task'[r] \in S
    BY DEF Mine
  <1>4. QED
    BY <1>1, <1>2, <1>3, MineFinite, CountMoved

\* Nothing is counted differently: no task of a broker moves.
LEMMA MineSame ==
  ASSUME \A q \in Calls : task[q] # "none" \/ task'[q] # "none" =>
           request'[q].broker = request[q].broker /\ task'[q] = task[q],
         NEW b, NEW S, "none" \notin S
  PROVE  Cardinality(Mine(b, S)') = Cardinality(Mine(b, S))
  <1>1. Mine(b, S)' = Mine(b, S)
    BY DEF Mine
  <1>2. QED
    BY <1>1

\* A coroutine goes on, or ends, on its loop.
LEMMA TaskMoves ==
  ASSUME ServiceInv, NEW r \in Calls, task[r] \in Live, Running(r),
         NEW x \in Task \ {"none"}, task' = [task EXCEPT ![r] = x],
         broker' \in [Brokers -> Broker],
         \A b \in Brokers : /\ broker'[b].loop = broker[b].loop
                            /\ broker'[b].closed = broker[b].closed
                            /\ broker'[b].published = broker[b].published
                            /\ b # Of(r) => /\ broker'[b].pending = broker[b].pending
                                            /\ broker'[b].used = broker[b].used,
         LET b == broker[Of(r)]
             c == broker'[Of(r)]
         IN /\ c.pending <= Queue /\ c.used <= Slots
            /\ (task[r] \in Holding <=> x \in Holding) => c.pending = b.pending
            /\ task[r] \in Holding /\ x \notin Holding => c.pending = b.pending - 1
            /\ task[r] \notin Holding /\ x \in Holding => c.pending = b.pending + 1
            /\ (task[r] \in AtProvider <=> x \in AtProvider) => c.used = b.used
            /\ task[r] \in AtProvider /\ x \notin AtProvider => c.used = b.used - 1
            /\ task[r] \notin AtProvider /\ x \in AtProvider => c.used = b.used + 1,
         UNCHANGED <<shared, closing, request, lease>>
  PROVE  ServiceInv'
  <1>1. /\ task'[r] = x /\ \A q \in Calls : q # r => task'[q] = task[q]
        /\ request' = request /\ Of(r) \in Brokers
    BY DEF ServiceInv, ServiceTypeOK, RequestsOK, Live
  <1>2. ServiceTypeOK'
    BY <1>1 DEF ServiceInv, ServiceTypeOK
  <1>3. RequestsOK'
    <2>1. ASSUME NEW q \in Calls, task'[q] # "none" PROVE task[q] # "none"
      BY <1>1, <2>1 DEF Live
    <2>2. QED
      BY <1>1, <2>1 DEF ServiceInv, RequestsOK, Of
  <1>4. BrokersOK' /\ ClosingOK'
    BY DEF ServiceInv, BrokersOK, ClosingOK
  <1>5. SlotsReturned'
    <2>1. ASSUME NEW b \in Brokers PROVE broker'[b].pending = Cardinality(Mine(b, Holding)')
      <3>1. broker[b].pending = Cardinality(Mine(b, Holding))
        BY SlotsCounted DEF ServiceInv
      <3>2. QED
        BY <1>1, <3>1, MineStep DEF Of
    <2>2. ASSUME NEW b \in Brokers PROVE broker'[b].used = Cardinality(Mine(b, AtProvider)')
      <3>1. broker[b].used = Cardinality(Mine(b, AtProvider))
        BY SlotsCounted DEF ServiceInv
      <3>2. QED
        BY <1>1, <3>1, MineStep DEF Of
    <2>3. QED
      BY <2>1, <2>2 DEF SlotsReturned, Mine, Holding, AtProvider
  <1>6. NoTaskOnDeadLoop'
    <2>1. ASSUME NEW q \in Calls, task'[q] \in Live
          PROVE  request[q].broker \in Brokers /\ broker[request[q].broker].loop = "up"
      BY <1>1, <2>1 DEF ServiceInv, NoTaskOnDeadLoop, Running, Of, RequestsOK, Live
    <2>2. QED
      BY <1>1, <2>1 DEF NoTaskOnDeadLoop
  <1>7. QED
    BY <1>2, <1>3, <1>4, <1>5, <1>6 DEF ServiceInv

\* On the loop: at least what a coroutine gives back has been counted for it.
LEMMA CountedAtLeast ==
  ASSUME ServiceInv, NEW r \in Calls, Of(r) \in Brokers
  PROVE  /\ broker[Of(r)] \in Broker
         /\ task[r] \in Holding => broker[Of(r)].pending >= 1
         /\ task[r] \in AtProvider => broker[Of(r)].used >= 1
         /\ broker[Of(r)].pending <= Queue /\ broker[Of(r)].used <= Slots
  <1>1. /\ broker[Of(r)].pending = Cardinality(Mine(Of(r), Holding))
        /\ broker[Of(r)].used = Cardinality(Mine(Of(r), AtProvider))
    BY SlotsCounted DEF ServiceInv
  <1>2. /\ task[r] \in Holding => r \in Mine(Of(r), Holding)
        /\ task[r] \in AtProvider => r \in Mine(Of(r), AtProvider)
    BY DEF Mine, Of
  <1>3. ASSUME NEW S, IsFiniteSet(S), r \in S PROVE Cardinality(S) >= 1
    <2>1. Cardinality(S) \in Nat /\ Cardinality(S) # 0
      BY <1>3, FS_CardinalityType, FS_EmptySet
    <2>2. QED
      BY <2>1
  <1>4. QED
    BY <1>1, <1>2, <1>3, MineFinite DEF ServiceInv, ServiceTypeOK

\* What a coroutine gives back when it ends.
LEMMA EndedGives ==
  ASSUME NEW b \in Broker, NEW where,
         where \in Holding => b.pending >= 1, where \in AtProvider => b.used >= 1
  PROVE  LET c == Ended(b, where) IN
         /\ c \in Broker
         /\ c.loop = b.loop /\ c.closed = b.closed /\ c.published = b.published
         /\ c.pending = IF where \in Holding THEN b.pending - 1 ELSE b.pending
         /\ c.used = IF where \in AtProvider THEN b.used - 1 ELSE b.used
  <1>1. b.pending \in Nat /\ b.used \in Nat
    BY DEF Broker
  <1> DEFINE i == IF where \in Holding THEN b.pending - 1 ELSE b.pending
             j == IF where \in AtProvider THEN b.used - 1 ELSE b.used
  <1>2. i \in Nat /\ j \in Nat
    BY <1>1
  <1>3. Ended(b, where) = [b EXCEPT !.pending = i, !.used = j]
    BY DEF Ended, Holding, AtProvider
  <1> HIDE DEF i, j
  <1>4. LET c == [b EXCEPT !.pending = i, !.used = j] IN
        /\ c \in Broker /\ c.pending = i /\ c.used = j
        /\ c.loop = b.loop /\ c.closed = b.closed /\ c.published = b.published
    BY <1>2 DEF Broker
  <1>5. QED
    BY <1>3, <1>4 DEF i, j

LEMMA EndTaskInv ==
  ASSUME ServiceInv, NEW r \in Calls, task[r] \in Live, Running(r),
         NEW how \in {"token", "failed"}, EndTask(r, how),
         UNCHANGED <<shared, closing, request, lease>>
  PROVE  ServiceInv'
  <1>1. Of(r) \in Brokers
    BY DEF ServiceInv, RequestsOK, Live
  <1> DEFINE b == broker[Of(r)]
             c == Ended(b, task[r])
  <1>2. /\ b \in Broker
        /\ task[r] \in Holding => b.pending >= 1
        /\ task[r] \in AtProvider => b.used >= 1
        /\ b.pending <= Queue /\ b.used <= Slots
    BY <1>1, CountedAtLeast
  <1>3. /\ c \in Broker
        /\ c.loop = b.loop /\ c.closed = b.closed /\ c.published = b.published
        /\ c.pending = IF task[r] \in Holding THEN b.pending - 1 ELSE b.pending
        /\ c.used = IF task[r] \in AtProvider THEN b.used - 1 ELSE b.used
    BY <1>2, EndedGives
  <1>4. broker' = [broker EXCEPT ![Of(r)] = c] /\ task' = [task EXCEPT ![r] = how]
    BY DEF EndTask
  <1> HIDE DEF c
  <1>5. broker \in [Brokers -> Broker]
    BY DEF ServiceInv, ServiceTypeOK
  <1>6. broker'[Of(r)] = c /\ broker' \in [Brokers -> Broker]
        /\ \A d \in Brokers : d # Of(r) => broker'[d] = broker[d]
    BY <1>1, <1>3, <1>4, <1>5
  <1>7. how \in Task \ {"none"} /\ how \notin Holding /\ how \notin AtProvider
    BY DEF Task, Holding, AtProvider
  <1>8. c.pending <= Queue /\ c.used <= Slots
    BY <1>2, <1>3, ServiceBounds DEF Broker
  <1>9. QED
    BY <1>3, <1>4, <1>6, <1>7, <1>8, TaskMoves

\* One request and its coroutine change together, neither of them counted.
LEMMA BothMove ==
  ASSUME ServiceInv, NEW r \in Calls, NEW q \in Request, NEW x \in Task,
         request' = [request EXCEPT ![r] = q], task' = [task EXCEPT ![r] = x],
         task[r] \notin Holding, x \notin Holding,
         q.at \notin {"ensure", "await", "schedule"}, q.at = "wait" => q.broker \in Brokers,
         x # "none" => q.broker \in Brokers /\ q.at = "wait",
         x \in Live => broker[q.broker].loop = "up",
         UNCHANGED <<shared, broker, closing, lease>>
  PROVE  ServiceInv'
  <1>1. /\ request'[r] = q /\ \A p \in Calls : p # r => request'[p] = request[p]
        /\ task'[r] = x /\ \A p \in Calls : p # r => task'[p] = task[p]
    BY DEF ServiceInv, ServiceTypeOK
  <1>2. ServiceTypeOK'
    BY <1>1 DEF ServiceInv, ServiceTypeOK
  <1>3. RequestsOK'
    BY <1>1 DEF ServiceInv, RequestsOK, Of
  <1>4. BrokersOK' /\ ClosingOK'
    BY DEF ServiceInv, BrokersOK, ClosingOK
  <1>5. SlotsReturned'
    <2>1. ASSUME NEW b, NEW S, S \subseteq Holding
          PROVE  Cardinality(Mine(b, S)') = Cardinality(Mine(b, S))
      BY <1>1, <2>1, MineStep
    <2>2. Holding \subseteq Holding /\ AtProvider \subseteq Holding
      BY DEF Holding, AtProvider
    <2>3. ASSUME NEW b \in Brokers
          PROVE  /\ broker'[b].pending = Cardinality(Mine(b, Holding)')
                 /\ broker'[b].used = Cardinality(Mine(b, AtProvider)')
      BY <2>1, <2>2, SlotsCounted DEF ServiceInv
    <2>4. QED
      BY <2>3 DEF SlotsReturned, Mine, Holding, AtProvider
  <1>6. NoTaskOnDeadLoop'
    BY <1>1 DEF ServiceInv, NoTaskOnDeadLoop
  <1>7. QED
    BY <1>2, <1>3, <1>4, <1>5, <1>6 DEF ServiceInv

\* A thread goes on, and its broker stays as it is.
LEMMA RequestMoves ==
  ASSUME ServiceInv, NEW r \in Calls, NEW q \in Request,
         request' = [request EXCEPT ![r] = q],
         q.at \in {"ensure", "await", "schedule", "wait"} => q.broker \in Brokers,
         q.at = "schedule" => broker[q.broker].published,
         \/ task[r] = "none"
         \/ q.broker = request[r].broker /\ q.at \in {"wait", "failed"},
         UNCHANGED <<broker, closing, task>>,
         shared' \in 0 .. 2, lease' \in [Calls -> Lease]
  PROVE  ServiceInv'
  <1>1. request'[r] = q /\ \A p \in Calls : p # r => request'[p] = request[p]
    BY DEF ServiceInv, ServiceTypeOK
  <1>2. ServiceTypeOK'
    BY <1>1 DEF ServiceInv, ServiceTypeOK
  <1>3. RequestsOK'
    BY <1>1 DEF ServiceInv, RequestsOK, Of
  <1>4. BrokersOK' /\ ClosingOK'
    BY DEF ServiceInv, BrokersOK, ClosingOK
  <1>5. SlotsReturned'
    <2>1. ASSUME NEW p \in Calls, task[p] # "none" \/ task'[p] # "none"
          PROVE  request'[p].broker = request[p].broker /\ task'[p] = task[p]
      BY <1>1, <2>1
    <2>2. \A b, S : "none" \notin S => Cardinality(Mine(b, S)') = Cardinality(Mine(b, S))
      BY <2>1, MineSame
    <2>3. ASSUME NEW b \in Brokers
          PROVE  /\ broker'[b].pending = Cardinality(Mine(b, Holding)')
                 /\ broker'[b].used = Cardinality(Mine(b, AtProvider)')
      BY <2>2, SlotsCounted DEF ServiceInv, Holding, AtProvider
    <2>4. QED
      BY <2>3 DEF SlotsReturned, Mine, Holding, AtProvider
  <1>6. NoTaskOnDeadLoop'
    BY <1>1 DEF ServiceInv, NoTaskOnDeadLoop, Live
  <1>7. QED
    BY <1>2, <1>3, <1>4, <1>5, <1>6 DEF ServiceInv

\* The loop of a broker starts, or comes up, or the broker is closed: no count
\* changes, and no loop that runs ends.
LEMMA LoopMoves ==
  ASSUME ServiceInv, NEW b \in Brokers, NEW c \in Broker,
         broker' = [broker EXCEPT ![b] = c],
         c.pending = broker[b].pending, c.used = broker[b].used,
         broker[b].loop = "up" => c.loop = "up",
         broker[b].published => c.published,
         UNCHANGED <<task, lease>>, shared' \in 0 .. 2,
         closing' \in [at : {"open", "brokers", "cancel", "closed"}, broker : 0 .. 2],
         request' \in [Calls -> Request],
         \A r \in Calls : request'[r].broker = request[r].broker,
         RequestsOK', BrokersOK', ClosingOK'
  PROVE  ServiceInv'
  <1>1. broker'[b] = c /\ \A d \in Brokers : d # b => broker'[d] = broker[d]
    BY DEF ServiceInv, ServiceTypeOK
  <1>2. ServiceTypeOK'
    BY <1>1 DEF ServiceInv, ServiceTypeOK
  <1>3. SlotsReturned'
    <2>1. \A d, S : Mine(d, S)' = Mine(d, S)
      BY DEF Mine
    <2>2. ASSUME NEW d \in Brokers
          PROVE  /\ broker'[d].pending = Cardinality(Mine(d, Holding)')
                 /\ broker'[d].used = Cardinality(Mine(d, AtProvider)')
      BY <1>1, <2>1, SlotsCounted DEF ServiceInv
    <2>3. QED
      BY <2>2 DEF SlotsReturned, Mine, Holding, AtProvider
  <1>4. NoTaskOnDeadLoop'
    <2>1. ASSUME NEW r \in Calls, task'[r] \in Live
          PROVE  request[r].broker \in Brokers /\ broker[request[r].broker].loop = "up"
      BY <2>1 DEF ServiceInv, NoTaskOnDeadLoop, Of, RequestsOK, Live
    <2>2. QED
      BY <1>1, <2>1 DEF NoTaskOnDeadLoop
  <1>5. QED
    BY <1>2, <1>3, <1>4 DEF ServiceInv

LEMMA RequestTypes ==
  ASSUME ServiceInv, NEW r \in Calls
  PROVE  /\ request[r] \in Request /\ shared \in 0 .. 2 /\ lease \in [Calls -> Lease]
         /\ request \in [Calls -> Request] /\ broker \in [Brokers -> Broker]
         /\ task \in [Calls -> Task]
         /\ \A w \in {"ensure", "await", "schedule", "wait", "pool", "get", "issue", "ok", "failed"} :
              /\ [request[r] EXCEPT !.at = w] \in Request
              /\ [request[r] EXCEPT !.at = w].at = w
              /\ [request[r] EXCEPT !.at = w].broker = request[r].broker
         /\ task[r] # "none" => request[r].at \in {"wait", "failed"}
         /\ request[r].at \in {"ensure", "await", "schedule", "wait"} => request[r].broker \in Brokers
  BY DEF ServiceInv, ServiceTypeOK, RequestsOK, Of, Request

\* A thread that has seen the loop published and finds the broker open
\* schedules on a loop that runs.
LEMMA ScheduleInv ==
  ASSUME ServiceInv, NEW r \in Calls, Schedule(r), ~broker[Of(r)].closed
  PROVE  ServiceInv'
  <1> DEFINE q == [request[r] EXCEPT !.at = "wait"]
  <1>1. /\ request[r].at = "schedule" /\ request' = [request EXCEPT ![r] = q]
        /\ task' = [task EXCEPT ![r] = "queued"]
        /\ UNCHANGED <<shared, broker, closing, lease>>
    BY DEF Schedule, At, GoTo
  <1>2. q \in Request /\ q.at = "wait" /\ q.broker = request[r].broker
    BY RequestTypes
  <1>3. request[r].broker \in Brokers /\ task[r] = "none"
    BY <1>1, RequestTypes
  <1>4. broker[request[r].broker].loop = "up"
    BY <1>1, <1>3 DEF ServiceInv, RequestsOK, BrokersOK, Of
  <1> HIDE DEF q
  <1>5. "queued" \in Task /\ "queued" \notin Holding /\ "none" \notin Holding
    BY DEF Task, Holding
  <1>6. QED
    BY <1>1, <1>2, <1>3, <1>4, <1>5, BothMove

LEMMA CollectInv ==
  ASSUME ServiceInv, NEW r \in Calls, Collect(r)
  PROVE  ServiceInv'
  <1>1. PICK w \in {"issue", "failed"} :
          /\ task[r] \in {"token", "failed"}
          /\ request' = [request EXCEPT ![r] = [at |-> w, broker |-> 0]]
          /\ task' = [task EXCEPT ![r] = "none"]
          /\ UNCHANGED <<shared, broker, closing, lease>>
    <2>1. PICK how \in {<<"token", "issue">>, <<"failed", "failed">>} :
            task[r] = how[1] /\ request' = [request EXCEPT ![r] = [at |-> how[2], broker |-> 0]]
      BY DEF Collect
    <2>2. how[1] \in {"token", "failed"} /\ how[2] \in {"issue", "failed"}
      OBVIOUS
    <2>3. QED
      BY <2>1, <2>2 DEF Collect
  <1> DEFINE q == [at |-> w, broker |-> 0]
  <1>2. q \in Request /\ q.at = w
    BY DEF Request
  <1> HIDE DEF q
  <1>3. request' = [request EXCEPT ![r] = q]
    BY <1>1 DEF q
  <1>4. "none" \in Task /\ "none" \notin Holding /\ task[r] \notin Holding /\ "none" \notin Live
    BY <1>1 DEF Task, Holding, Live
  <1>5. QED
    BY <1>1, <1>2, <1>3, <1>4, BothMove

LEMMA ThreadInv ==
  ASSUME ServiceInv, NEW r \in Calls, Thread(r) \/ Arrive(r) \/ GiveUp(r)
  PROVE  ServiceInv'
  <1>0. /\ request[r] \in Request /\ shared \in 0 .. 2 /\ lease \in [Calls -> Lease]
        /\ request \in [Calls -> Request] /\ broker \in [Brokers -> Broker]
        /\ task \in [Calls -> Task]
    BY RequestTypes
  <1>1. ASSUME NEW w \in {"pool", "get", "issue", "ok", "failed"}, GoTo(r, w),
               task[r] = "none" \/ w = "failed",
               UNCHANGED <<shared, broker, closing, task>>, lease' \in [Calls -> Lease]
        PROVE  ServiceInv'
    <2> DEFINE q == [request[r] EXCEPT !.at = w]
    <2>1. /\ request' = [request EXCEPT ![r] = q] /\ q \in Request
          /\ q.at = w /\ q.broker = request[r].broker
      <3>1. request' = [request EXCEPT ![r] = q]
        BY <1>1 DEF GoTo
      <3>2. w \in {"ensure", "await", "schedule", "wait", "pool", "get", "issue", "ok", "failed"}
        BY <1>1
      <3>3. QED
        BY <3>1, <3>2, RequestTypes
    <2> HIDE DEF q
    <2>2. QED
      BY <1>0, <1>1, <2>1, RequestMoves
  <1>2. CASE Arrive(r) \/ FromPool(r) \/ Issue(r) \/ GiveUp(r)
    <2>1. CASE Arrive(r)
      BY <1>0, <1>1, <2>1, RequestTypes DEF Arrive, At
    <2>2. CASE FromPool(r)
      BY <1>0, <1>1, <2>2, RequestTypes DEF FromPool, At
    <2>3. CASE Issue(r)
      <3>1. lease' \in [Calls -> Lease]
        BY <1>0, <2>3 DEF Issue, Lease
      <3>2. QED
        BY <1>1, <2>3, <3>1, RequestTypes DEF Issue, At
    <2>4. CASE GiveUp(r)
      BY <1>0, <1>1, <2>4 DEF GiveUp
    <2>5. QED
      BY <1>2, <2>1, <2>2, <2>3, <2>4
  <1>3. CASE GetBroker(r)
    <2>1. PICK b \in Brokers : /\ request' = [request EXCEPT ![r] = [at |-> "ensure", broker |-> b]]
                               /\ shared' \in 0 .. 2
      BY <1>0, <1>3 DEF GetBroker, Brokers
    <2> DEFINE q == [at |-> "ensure", broker |-> b]
    <2>2. q \in Request /\ q.at = "ensure" /\ q.broker = b
      BY DEF Request, Brokers
    <2> HIDE DEF q
    <2>3. task[r] = "none"
      BY <1>3, RequestTypes DEF GetBroker, At
    <2>4. request' = [request EXCEPT ![r] = q] /\ UNCHANGED <<broker, closing, task, lease>>
      BY <1>3, <2>1 DEF GetBroker, q
    <2>5. QED
      BY <1>0, <2>1, <2>2, <2>3, <2>4, RequestMoves
  <1>4. CASE EnsureLoop(r)
    <2>1. task[r] = "none" /\ Of(r) \in Brokers /\ Of(r) = request[r].broker
      BY <1>4, RequestTypes DEF EnsureLoop, At, Of
    <2>2. CASE GoTo(r, "failed") /\ UNCHANGED broker
      BY <1>0, <1>1, <1>4, <2>2 DEF EnsureLoop
    <2>3. CASE broker[Of(r)].loop = "up" /\ GoTo(r, "schedule") /\ UNCHANGED broker
      <3> DEFINE q == [request[r] EXCEPT !.at = "schedule"]
      <3>1. /\ request' = [request EXCEPT ![r] = q] /\ q \in Request
            /\ q.at = "schedule" /\ q.broker = request[r].broker
        BY <2>3, RequestTypes DEF GoTo
      <3>2. broker[Of(r)].published
        BY <2>1, <2>3 DEF ServiceInv, BrokersOK
      <3> HIDE DEF q
      <3>3. QED
        BY <1>0, <1>4, <2>1, <2>3, <3>1, <3>2, RequestMoves DEF EnsureLoop
    <2>4. CASE /\ ~broker[Of(r)].closed /\ broker[Of(r)].loop # "up"
               /\ broker' = [broker EXCEPT ![Of(r)].loop = IF @ = "none" THEN "starting" ELSE @]
               /\ GoTo(r, "await")
      <3> DEFINE b == broker[Of(r)]
                 c == [b EXCEPT !.loop = IF @ = "none" THEN "starting" ELSE @]
                 q == [request[r] EXCEPT !.at = "await"]
      <3>1. b \in Broker
        BY <1>0, <2>1
      <3>2. /\ c \in Broker /\ c.pending = b.pending /\ c.used = b.used
            /\ c.published = b.published /\ c.closed = b.closed /\ c.loop # "up"
            /\ b.loop = "gone" => c.loop = "gone"
        <4> HIDE DEF b
        <4>1. b.loop # "up"
          BY <2>4 DEF b
        <4>2. QED
          BY <3>1, <4>1 DEF Broker, Loop
      <3>3. broker' = [broker EXCEPT ![Of(r)] = c]
        BY <2>4
      <3>4. /\ request' = [request EXCEPT ![r] = q] /\ q \in Request
            /\ q.at = "await" /\ q.broker = request[r].broker
        BY <2>4, RequestTypes DEF GoTo
      <3> HIDE DEF c, q
      <3>5. /\ broker'[Of(r)] = c /\ \A d \in Brokers : d # Of(r) => broker'[d] = broker[d]
            /\ request'[r] = q /\ \A p \in Calls : p # r => request'[p] = request[p]
            /\ request' \in [Calls -> Request]
        BY <1>0, <2>1, <3>3, <3>4
      <3>6. UNCHANGED <<shared, closing, task, lease>>
        BY <1>4 DEF EnsureLoop
      <3>7. RequestsOK'
        BY <2>1, <3>2, <3>4, <3>5, <3>6 DEF ServiceInv, RequestsOK, Of
      <3>8. BrokersOK' /\ ClosingOK'
        <4>1. ~broker[Of(r)].published
          BY <2>1, <2>4 DEF ServiceInv, BrokersOK
        <4>2. /\ broker'[Of(r)].loop # "up" /\ ~broker'[Of(r)].published
              /\ broker'[Of(r)].closed = broker[Of(r)].closed
          BY <3>2, <3>5, <4>1
        <4>3. ASSUME NEW d \in Brokers
              PROVE  /\ broker'[d].loop = "up" => broker'[d].published
                     /\ broker'[d].published /\ ~broker'[d].closed => broker'[d].loop = "up"
                     /\ broker'[d].loop = "up" /\ broker'[d].closed =>
                          closing'.at = "cancel" /\ closing'.broker = d
                     /\ broker'[d].loop \in {"none", "starting"} => ~broker'[d].published
          <5>1. CASE d = Of(r)
            BY <4>2, <5>1
          <5>2. CASE d # Of(r)
            <6>1. broker'[d] = broker[d] /\ closing' = closing
              BY <3>5, <3>6, <5>2
            <6>2. QED
              BY <6>1 DEF ServiceInv, BrokersOK
          <5>3. QED
            BY <5>1, <5>2
        <4>4. BrokersOK'
          BY <4>3 DEF BrokersOK
        <4>5. ASSUME closing'.at = "cancel" PROVE broker'[closing'.broker].closed
          <5>1. closing' = closing
            BY <3>6
          <5>2. closing.broker \in Brokers /\ broker[closing.broker].closed
            BY <4>5, <5>1 DEF ServiceInv, ClosingOK
          <5>3. QED
            BY <3>5, <4>2, <5>1, <5>2
        <4>6. ClosingOK'
          BY <3>6, <4>5 DEF ServiceInv, ClosingOK
        <4>7. QED
          BY <4>4, <4>6
      <3>9. \A p \in Calls : request'[p].broker = request[p].broker
        BY <3>4, <3>5
      <3>10. closing \in [at : {"open", "brokers", "cancel", "closed"}, broker : 0 .. 2]
        BY DEF ServiceInv, ServiceTypeOK
      <3>11. /\ c.pending = broker[Of(r)].pending /\ c.used = broker[Of(r)].used
             /\ broker[Of(r)].loop # "up"
             /\ broker[Of(r)].published => c.published
        BY <2>4, <3>2
      <3>12. QED
        BY <1>0, <2>1, <3>2, <3>3, <3>5, <3>6, <3>7, <3>8, <3>9, <3>10, <3>11, LoopMoves
    <2>5. QED
      BY <1>4, <2>2, <2>3, <2>4 DEF EnsureLoop
  <1>5. CASE AwaitLoop(r)
    <2>1. task[r] = "none" /\ Of(r) \in Brokers /\ Of(r) = request[r].broker
      BY <1>5, RequestTypes DEF AwaitLoop, At, Of
    <2>2. CASE GoTo(r, "failed")
      BY <1>0, <1>1, <1>5, <2>2 DEF AwaitLoop
    <2>3. CASE broker[Of(r)].published /\ GoTo(r, "schedule")
      <3> DEFINE q == [request[r] EXCEPT !.at = "schedule"]
      <3>1. /\ request' = [request EXCEPT ![r] = q] /\ q \in Request
            /\ q.at = "schedule" /\ q.broker = request[r].broker
        BY <2>3, RequestTypes DEF GoTo
      <3> HIDE DEF q
      <3>2. QED
        BY <1>0, <1>5, <2>1, <2>3, <3>1, RequestMoves DEF AwaitLoop
    <2>4. QED
      BY <1>5, <2>2, <2>3 DEF AwaitLoop
  <1>6. CASE Schedule(r)
    <2>1. task[r] = "none" /\ Of(r) \in Brokers /\ Of(r) = request[r].broker
      BY <1>6, RequestTypes DEF Schedule, At, Of
    <2>2. CASE GoTo(r, "failed") /\ UNCHANGED task
      BY <1>0, <1>1, <1>6, <2>2 DEF Schedule
    <2>3. CASE ~broker[Of(r)].closed /\ GoTo(r, "wait") /\ task' = [task EXCEPT ![r] = "queued"]
      BY <1>6, <2>1, <2>3, ScheduleInv
    <2>4. QED
      BY <1>6, <2>2, <2>3 DEF Schedule
  <1>7. CASE Collect(r)
    BY <1>7, CollectInv
  <1>8. QED
    BY <1>2, <1>3, <1>4, <1>5, <1>6, <1>7 DEF Thread

\* A coroutine on its loop.
LEMMA OnLoopInv ==
  ASSUME ServiceInv, NEW r \in Calls, OnLoop(r)
  PROVE  ServiceInv'
  <1>0. /\ task[r] \in Live /\ Running(r) /\ UNCHANGED <<shared, closing, request, lease>>
    BY DEF OnLoop, Admit, TakeSlot, CreateTask, PollTask, Deadline, Abandon, Live
  <1>1. /\ Of(r) \in Brokers /\ broker \in [Brokers -> Broker]
    BY <1>0 DEF ServiceInv, RequestsOK, ServiceTypeOK, Live
  <1> DEFINE b == broker[Of(r)]
  <1>2. b \in Broker /\ b.pending \in Nat /\ b.used \in Nat
    BY <1>1 DEF Broker
  <1>3. /\ b.pending <= Queue /\ b.used <= Slots
    BY <1>1, CountedAtLeast
  <1>4. ASSUME NEW x \in Task \ {"none"}, task' = [task EXCEPT ![r] = x], UNCHANGED broker,
               task[r] \in Holding <=> x \in Holding,
               task[r] \in AtProvider <=> x \in AtProvider
        PROVE  ServiceInv'
    BY <1>0, <1>1, <1>3, <1>4, TaskMoves
  <1>5. ASSUME NEW x \in Task \ {"none"}, task' = [task EXCEPT ![r] = x], NEW c \in Broker,
               broker' = [broker EXCEPT ![Of(r)] = c],
               c.loop = b.loop, c.closed = b.closed, c.published = b.published,
               /\ c.pending <= Queue /\ c.used <= Slots,
               /\ (task[r] \in Holding <=> x \in Holding) => c.pending = b.pending
               /\ task[r] \in Holding /\ x \notin Holding => c.pending = b.pending - 1
               /\ task[r] \notin Holding /\ x \in Holding => c.pending = b.pending + 1
               /\ (task[r] \in AtProvider <=> x \in AtProvider) => c.used = b.used
               /\ task[r] \in AtProvider /\ x \notin AtProvider => c.used = b.used - 1
               /\ task[r] \notin AtProvider /\ x \in AtProvider => c.used = b.used + 1
        PROVE  ServiceInv'
    <2>1. broker'[Of(r)] = c /\ broker' \in [Brokers -> Broker]
          /\ \A d \in Brokers : d # Of(r) => broker'[d] = broker[d]
      BY <1>1, <1>5
    <2>2. QED
      BY <1>0, <1>5, <2>1, TaskMoves
  <1>6. CASE Admit(r)
    <2>1. task[r] = "queued" /\ task[r] \notin Holding /\ task[r] \notin AtProvider
      BY <1>6 DEF Admit, Holding, AtProvider
    <2>2. CASE task' = [task EXCEPT ![r] = "failed"] /\ UNCHANGED broker
      BY <1>4, <2>1, <2>2 DEF Task, Holding, AtProvider
    <2>3. CASE /\ b.pending < Queue /\ task' = [task EXCEPT ![r] = "waiting"]
               /\ broker' = [broker EXCEPT ![Of(r)].pending = @ + 1]
      <3> DEFINE c == [b EXCEPT !.pending = b.pending + 1]
      <3>1. broker' = [broker EXCEPT ![Of(r)] = c]
        BY <2>3
      <3>2. /\ c \in Broker /\ c.loop = b.loop /\ c.closed = b.closed
            /\ c.published = b.published /\ c.pending = b.pending + 1 /\ c.used = b.used
        <4> HIDE DEF b
        <4>1. QED
          BY <1>2 DEF Broker
      <3> HIDE DEF c
      <3>3. c.pending <= Queue /\ c.used <= Slots
        BY <1>2, <1>3, <2>3, <3>2, ServiceBounds
      <3>4. "waiting" \in Task \ {"none"} /\ "waiting" \in Holding /\ "waiting" \notin AtProvider
        BY DEF Task, Holding, AtProvider
      <3>5. QED
        BY <1>5, <2>1, <2>3, <3>1, <3>2, <3>3, <3>4
    <2>4. broker[Of(r)].pending >= Queue \/ b.pending < Queue
      BY <1>2, ServiceBounds
    <2>5. QED
      BY <1>6, <2>2, <2>3, <2>4 DEF Admit
  <1>7. CASE TakeSlot(r)
    <2>1. /\ task[r] = "waiting" /\ task[r] \in Holding /\ task[r] \notin AtProvider
          /\ b.used < Slots /\ task' = [task EXCEPT ![r] = "create"]
          /\ broker' = [broker EXCEPT ![Of(r)].used = @ + 1]
      BY <1>7 DEF TakeSlot, Holding, AtProvider
    <2> DEFINE c == [b EXCEPT !.used = b.used + 1]
    <2>2. broker' = [broker EXCEPT ![Of(r)] = c]
      BY <2>1
    <2>3. /\ c \in Broker /\ c.loop = b.loop /\ c.closed = b.closed
          /\ c.published = b.published /\ c.pending = b.pending /\ c.used = b.used + 1
      <3> HIDE DEF b
      <3>1. QED
        BY <1>2 DEF Broker
    <2> HIDE DEF c
    <2>4. c.pending <= Queue /\ c.used <= Slots
      BY <1>2, <1>3, <2>1, <2>3, ServiceBounds
    <2>5. "create" \in Task \ {"none"} /\ "create" \in Holding /\ "create" \in AtProvider
      BY DEF Task, Holding, AtProvider
    <2>6. QED
      BY <1>5, <2>1, <2>2, <2>3, <2>4, <2>5
  <1>8. CASE task[r] = "create" /\ task' = [task EXCEPT ![r] = "poll"] /\ UNCHANGED broker
    BY <1>4, <1>8 DEF Task, Holding, AtProvider
  <1>9. CASE EndTask(r, "token") \/ EndTask(r, "failed")
    BY <1>0, <1>9, EndTaskInv
  <1>10. QED
    BY <1>6, <1>7, <1>8, <1>9 DEF OnLoop, CreateTask, PollTask, Deadline, Abandon

LEMMA PublishInv ==
  ASSUME ServiceInv, NEW b \in Brokers, Publish(b)
  PROVE  ServiceInv'
  <1> DEFINE c == [broker[b] EXCEPT !.loop = IF broker[b].closed THEN "gone" ELSE "up",
                                    !.published = ~broker[b].closed]
  <1>1. /\ broker \in [Brokers -> Broker] /\ broker[b] \in Broker /\ broker[b].loop = "starting"
        /\ shared \in 0 .. 2 /\ request \in [Calls -> Request]
        /\ closing \in [at : {"open", "brokers", "cancel", "closed"}, broker : 0 .. 2]
        /\ UNCHANGED <<shared, closing, request, task, lease>>
    BY DEF Publish, ServiceInv, ServiceTypeOK
  <1>2. broker' = [broker EXCEPT ![b] = c]
    BY DEF Publish
  <1>3. /\ c \in Broker /\ c.pending = broker[b].pending /\ c.used = broker[b].used
        /\ c.closed = broker[b].closed /\ c.published = ~c.closed
        /\ c.loop = IF c.closed THEN "gone" ELSE "up"
    BY <1>1 DEF Broker, Loop
  <1> HIDE DEF c
  <1>4. broker'[b] = c /\ \A d \in Brokers : d # b => broker'[d] = broker[d]
    BY <1>1, <1>2
  <1>5. ~broker[b].published
    BY <1>1 DEF ServiceInv, BrokersOK
  <1>6. RequestsOK'
    BY <1>1, <1>4, <1>5 DEF ServiceInv, RequestsOK, Of
  <1>7. BrokersOK' /\ ClosingOK'
    <2>1. ASSUME NEW d \in Brokers
          PROVE  /\ broker'[d].loop = "up" => broker'[d].published
                 /\ broker'[d].published /\ ~broker'[d].closed => broker'[d].loop = "up"
                 /\ broker'[d].loop = "up" /\ broker'[d].closed
                      => closing.at = "cancel" /\ closing.broker = d
                 /\ broker'[d].loop \in {"none", "starting"} => ~broker'[d].published
                 /\ broker'[d].closed = broker[d].closed
      <3>1. CASE d = b
        BY <1>3, <1>4, <3>1
      <3>2. CASE d # b
        BY <1>4, <3>2 DEF ServiceInv, BrokersOK
      <3>3. QED
        BY <3>1, <3>2
    <2>2. QED
      BY <1>1, <2>1 DEF ServiceInv, BrokersOK, ClosingOK
  <1>8. broker[b].loop # "up" /\ \A r \in Calls : request'[r].broker = request[r].broker
    BY <1>1
  <1>9. QED
    BY <1>1, <1>2, <1>3, <1>5, <1>6, <1>7, <1>8, LoopMoves

LEMMA MarkClosedInv ==
  ASSUME ServiceInv, MarkClosed
  PROVE  ServiceInv'
  <1> DEFINE b == closing.broker
             c == [broker[b] EXCEPT !.closed = TRUE]
             k == [closing EXCEPT !.at = IF broker[b].loop = "up" THEN "cancel" ELSE "closed"]
  <1>1. /\ broker \in [Brokers -> Broker] /\ b \in Brokers
        /\ shared \in 0 .. 2 /\ request \in [Calls -> Request] /\ closing.at = "brokers"
        /\ closing \in [at : {"open", "brokers", "cancel", "closed"}, broker : 0 .. 2]
        /\ UNCHANGED <<shared, request, task, lease>>
    BY DEF MarkClosed, ServiceInv, ServiceTypeOK, ClosingOK
  <1>2. broker' = [broker EXCEPT ![b] = c] /\ closing' = k
    BY DEF MarkClosed
  <1>3. /\ c \in Broker /\ c.pending = broker[b].pending /\ c.used = broker[b].used
        /\ c.closed /\ c.published = broker[b].published /\ c.loop = broker[b].loop
    BY <1>1 DEF Broker
  <1>4. /\ k \in [at : {"open", "brokers", "cancel", "closed"}, broker : 0 .. 2]
        /\ k.broker = b /\ k.at = IF broker[b].loop = "up" THEN "cancel" ELSE "closed"
    BY <1>1
  <1> HIDE DEF c, k
  <1>5. broker'[b] = c /\ \A d \in Brokers : d # b => broker'[d] = broker[d]
    BY <1>1, <1>2
  <1>6. RequestsOK'
    <2>1. \A d \in Brokers : broker'[d].published = broker[d].published
      BY <1>3, <1>5
    <2>2. QED
      BY <1>1, <2>1 DEF ServiceInv, RequestsOK, Of
  <1>7. BrokersOK'
    <2>1. \A d \in Brokers : broker[d].loop = "up" => ~broker[d].closed
      BY <1>1 DEF ServiceInv, BrokersOK
    <2>2. ASSUME NEW d \in Brokers
          PROVE  /\ broker'[d].loop = "up" => broker'[d].published
                 /\ broker'[d].published /\ ~broker'[d].closed => broker'[d].loop = "up"
                 /\ broker'[d].loop = "up" /\ broker'[d].closed
                      => closing'.at = "cancel" /\ closing'.broker = d
                 /\ broker'[d].loop \in {"none", "starting"} => ~broker'[d].published
      <3>1. CASE d = b
        BY <1>2, <1>3, <1>4, <1>5, <3>1 DEF ServiceInv, BrokersOK
      <3>2. CASE d # b
        BY <1>5, <2>1, <3>2 DEF ServiceInv, BrokersOK
      <3>3. QED
        BY <3>1, <3>2
    <2>3. QED
      BY <2>2 DEF BrokersOK
  <1>8. ClosingOK'
    BY <1>1, <1>2, <1>3, <1>4, <1>5 DEF ClosingOK
  <1>9. \A r \in Calls : request'[r].broker = request[r].broker
    BY <1>1
  <1>10. QED
    BY <1>1, <1>2, <1>3, <1>4, <1>6, <1>7, <1>8, <1>9, LoopMoves

\* The close ends every coroutine of its broker, and the counts with them.
LEMMA CancelPendingInv ==
  ASSUME ServiceInv, CancelPending
  PROVE  ServiceInv'
  <1> DEFINE b == closing.broker
             c == [broker[b] EXCEPT !.pending = 0, !.used = 0, !.loop = "gone"]
             k == [closing EXCEPT !.at = "closed"]
  <1>1. /\ broker \in [Brokers -> Broker] /\ b \in Brokers /\ broker[b].closed
        /\ task \in [Calls -> Task] /\ closing.at = "cancel"
        /\ closing \in [at : {"open", "brokers", "cancel", "closed"}, broker : 0 .. 2]
        /\ UNCHANGED <<shared, request, lease>>
    BY DEF CancelPending, ServiceInv, ServiceTypeOK, ClosingOK
  <1>2. broker' = [broker EXCEPT ![b] = c] /\ closing' = k
        /\ task' = [r \in Calls |-> IF r \in Cancelled(b) THEN "failed" ELSE task[r]]
    BY DEF CancelPending, AllCancelled
  <1>3. /\ c \in Broker /\ c.pending = 0 /\ c.used = 0
        /\ c.closed /\ c.published = broker[b].published /\ c.loop = "gone"
    BY <1>1 DEF Broker, Loop
  <1>4. /\ k \in [at : {"open", "brokers", "cancel", "closed"}, broker : 0 .. 2]
        /\ k.broker = b /\ k.at = "closed"
    BY <1>1
  <1> HIDE DEF c, k
  <1>5. broker'[b] = c /\ \A d \in Brokers : d # b => broker'[d] = broker[d]
    BY <1>1, <1>2
  <1>6. ASSUME NEW r \in Calls
        PROVE  /\ request[r].broker = b /\ task[r] \in Live => task'[r] = "failed"
               /\ ~(request[r].broker = b /\ task[r] \in Live) => task'[r] = task[r]
    BY <1>2 DEF Cancelled, Of
  <1>7. ServiceTypeOK'
    <2>1. broker' \in [Brokers -> Broker]
      BY <1>1, <1>2, <1>3
    <2>2. task' \in [Calls -> Task]
      BY <1>1, <1>2 DEF Task
    <2>3. \A d \in Brokers : broker'[d].pending <= Queue /\ broker'[d].used <= Slots
      BY <1>3, <1>5, ServiceBounds DEF ServiceInv, ServiceTypeOK
    <2>4. QED
      BY <1>1, <1>2, <1>4, <2>1, <2>2, <2>3 DEF ServiceInv, ServiceTypeOK
  <1>8. RequestsOK'
    <2>1. \A d \in Brokers : broker'[d].published = broker[d].published
      BY <1>3, <1>5
    <2>2. \A r \in Calls : task'[r] # "none" => task[r] # "none"
      BY <1>6 DEF Live
    <2>3. QED
      BY <1>1, <2>1, <2>2 DEF ServiceInv, RequestsOK, Of
  <1>9. BrokersOK' /\ ClosingOK'
    <2>1. ASSUME NEW d \in Brokers
          PROVE  /\ broker'[d].loop = "up" => broker'[d].published
                 /\ broker'[d].published /\ ~broker'[d].closed => broker'[d].loop = "up"
                 /\ ~(broker'[d].loop = "up" /\ broker'[d].closed)
                 /\ broker'[d].loop \in {"none", "starting"} => ~broker'[d].published
      BY <1>3, <1>5 DEF ServiceInv, BrokersOK
    <2>2. QED
      BY <1>2, <1>4, <2>1 DEF BrokersOK, ClosingOK
  <1>10. SlotsReturned'
    <2>1. ASSUME NEW d, d = b, NEW S, S \subseteq Holding PROVE Mine(d, S)' = {}
      <3>1. ASSUME NEW r \in Calls, request[r].broker = d PROVE task'[r] \notin S
        <4>1. task'[r] \notin Live
          BY <1>6, <2>1, <3>1 DEF Live
        <4>2. QED
          BY <2>1, <4>1 DEF Holding, Live
      <3>2. QED
        BY <1>1, <3>1 DEF Mine
    <2>2. ASSUME NEW d \in Brokers, d # b, NEW S PROVE Mine(d, S)' = Mine(d, S)
      BY <1>1, <1>6, <2>2 DEF Mine
    <2>3. Holding \subseteq Holding /\ AtProvider \subseteq Holding
      BY DEF Holding, AtProvider
    <2>4. ASSUME NEW d \in Brokers
          PROVE  /\ broker'[d].pending = Cardinality(Mine(d, Holding)')
                 /\ broker'[d].used = Cardinality(Mine(d, AtProvider)')
      <3>1. CASE d = b
        <4>1. Mine(d, Holding)' = {} /\ Mine(d, AtProvider)' = {}
          BY <2>1, <2>3, <3>1
        <4>2. QED
          BY <1>3, <1>5, <3>1, <4>1, FS_EmptySet
      <3>2. CASE d # b
        BY <1>5, <2>2, <3>2, SlotsCounted DEF ServiceInv
      <3>3. QED
        BY <3>1, <3>2
    <2>5. QED
      BY <2>4 DEF SlotsReturned, Mine, Holding, AtProvider
  <1>11. NoTaskOnDeadLoop'
    <2>1. ASSUME NEW r \in Calls, task'[r] \in Live
          PROVE  /\ request[r].broker # b /\ request[r].broker \in Brokers
                 /\ broker[request[r].broker].loop = "up"
      <3>1. task[r] \in Live /\ request[r].broker # b
        BY <1>6, <2>1 DEF Live
      <3>2. QED
        BY <3>1 DEF ServiceInv, NoTaskOnDeadLoop, RequestsOK, Of, Live
    <2>2. QED
      BY <1>1, <1>5, <2>1 DEF NoTaskOnDeadLoop
  <1>12. QED
    BY <1>7, <1>8, <1>9, <1>10, <1>11 DEF ServiceInv

LEMMA CloseInv ==
  ASSUME ServiceInv, Close
  PROVE  ServiceInv'
  <1> DEFINE k == [at |-> IF shared = 0 THEN "closed" ELSE "brokers", broker |-> shared]
  <1>1. /\ closing.at = "open" /\ closing' = k /\ shared' = 0 /\ shared \in 0 .. 2
        /\ UNCHANGED <<broker, request, task, lease>>
    BY DEF Close, ServiceInv, ServiceTypeOK
  <1>2. /\ k \in [at : {"open", "brokers", "cancel", "closed"}, broker : 0 .. 2]
        /\ k.at = "brokers" => k.broker \in Brokers
        /\ k.at # "cancel"
    BY <1>1 DEF Brokers
  <1> HIDE DEF k
  <1>3. ServiceTypeOK'
    BY <1>1, <1>2 DEF ServiceInv, ServiceTypeOK
  <1>4. RequestsOK' /\ BrokersOK' /\ ClosingOK'
    BY <1>1, <1>2 DEF ServiceInv, RequestsOK, BrokersOK, ClosingOK, Of
  <1>5. SlotsReturned' /\ NoTaskOnDeadLoop'
    BY <1>1 DEF ServiceInv, SlotsReturned, NoTaskOnDeadLoop
  <1>6. QED
    BY <1>3, <1>4, <1>5 DEF ServiceInv

LEMMA LeaseInv ==
  ASSUME ServiceInv, lease' \in [Calls -> Lease],
         UNCHANGED <<shared, broker, closing, request, task>>
  PROVE  ServiceInv'
  <1>1. ServiceTypeOK'
    BY DEF ServiceInv, ServiceTypeOK
  <1>2. RequestsOK' /\ BrokersOK' /\ ClosingOK'
    BY DEF ServiceInv, RequestsOK, BrokersOK, ClosingOK, Of
  <1>3. SlotsReturned' /\ NoTaskOnDeadLoop'
    BY DEF ServiceInv, SlotsReturned, NoTaskOnDeadLoop
  <1>4. QED
    BY <1>1, <1>2, <1>3 DEF ServiceInv

LEMMA ServiceStep == ServiceInv /\ [ServiceNext]_serviceVars => ServiceInv'
  <1> SUFFICES ASSUME ServiceInv, [ServiceNext]_serviceVars PROVE ServiceInv'
    OBVIOUS
  <1>1. ASSUME NEW r \in Calls, Expire(r) PROVE ServiceInv'
    <2>1. lease' \in [Calls -> Lease]
      BY <1>1 DEF Expire, ServiceInv, ServiceTypeOK, Lease
    <2>2. QED
      BY <1>1, <2>1, LeaseInv DEF Expire
  <1>2. CASE UNCHANGED serviceVars
    <2>1. lease' \in [Calls -> Lease]
      BY <1>2 DEF serviceVars, ServiceInv, ServiceTypeOK
    <2>2. QED
      BY <1>2, <2>1, LeaseInv DEF serviceVars
  <1>3. QED
    BY <1>1, <1>2, ThreadInv, OnLoopInv, PublishInv, MarkClosedInv, CancelPendingInv, CloseInv
       DEF ServiceNext, ServiceWork, Closes

LEMMA ServiceStart == ServiceInit => ServiceInv
  <1> SUFFICES ASSUME ServiceInit PROVE ServiceInv
    OBVIOUS
  <1>1. /\ \A r \in Calls : request[r].at = "unused" /\ request[r].broker = 0 /\ task[r] = "none"
        /\ \A b \in Brokers : broker[b] = FreshBroker
        /\ closing.at \in {"open", "closed"}
    BY DEF ServiceInit
  <1>2. /\ FreshBroker \in Broker /\ FreshBroker.loop = "none" /\ ~FreshBroker.closed
        /\ ~FreshBroker.published /\ FreshBroker.pending = 0 /\ FreshBroker.used = 0
    BY DEF FreshBroker, Broker, Loop
  <1>3. ServiceTypeOK
    <2>1. broker \in [Brokers -> Broker] /\ request \in [Calls -> Request]
      BY <1>2 DEF ServiceInit, Request
    <2>2. QED
      BY <1>1, <1>2, <2>1, ServiceBounds DEF ServiceTypeOK, ServiceInit, Task, Lease
  <1>4. RequestsOK /\ BrokersOK /\ ClosingOK /\ NoTaskOnDeadLoop
    BY <1>1, <1>2 DEF RequestsOK, BrokersOK, ClosingOK, NoTaskOnDeadLoop, Live
  <1>5. SlotsReturned
    <2>1. \A b, S : "none" \notin S => Mine(b, S) = {}
      BY <1>1 DEF Mine
    <2>2. QED
      BY <1>1, <1>2, <2>1, FS_EmptySet, SlotsCounted DEF Holding, AtProvider
  <1>6. QED
    BY <1>3, <1>4, <1>5 DEF ServiceInv

-----------------------------------------------------------------------------
(* The choice of a domain *)

\* Of n places one has each number of places before it.
LEMMA NthExists ==
  ASSUME NEW S \in SUBSET Nat, IsFiniteSet(S), NEW n \in 0 .. Cardinality(S) - 1
  PROVE  Nth(S, n) \in S
  <1> DEFINE Below(i) == {j \in S : j < i}
             rank == [i \in S |-> Cardinality(Below(i))]
             N == Cardinality(S)
  <1>1. N \in Nat /\ \A i \in S : IsFiniteSet(Below(i)) /\ Cardinality(Below(i)) \in Nat
    <2>1. \A i \in S : Below(i) \subseteq S
      OBVIOUS
    <2>2. QED
      BY <2>1, FS_Subset, FS_CardinalityType
  <1>2. ASSUME NEW T \in SUBSET S, NEW U \in SUBSET S, T \subseteq U, T # U
        PROVE  Cardinality(T) < Cardinality(U)
    <2>1. IsFiniteSet(U) /\ IsFiniteSet(T)
      BY FS_Subset
    <2>2. Cardinality(T) \in Nat /\ Cardinality(U) \in Nat
      BY <2>1, FS_CardinalityType
    <2>3. Cardinality(T) <= Cardinality(U) /\ (Cardinality(U) = Cardinality(T) => U = T)
      BY <1>2, <2>1, FS_Subset
    <2>4. QED
      BY <1>2, <2>2, <2>3
  <1>3. rank \in [S -> 0 .. N - 1]
    <2>1. ASSUME NEW i \in S PROVE Cardinality(Below(i)) \in 0 .. N - 1
      <3>1. Below(i) \subseteq S /\ Below(i) # S
        BY <2>1
      <3>2. Cardinality(Below(i)) < N
        BY <3>1, <1>2
      <3>3. QED
        BY <1>1, <3>2
    <2> HIDE DEF Below
    <2>2. QED
      BY <2>1
  <1>4. \A i, k \in S : rank[i] = rank[k] => i = k
    <2>1. ASSUME NEW i \in S, NEW k \in S, i < k PROVE Cardinality(Below(i)) < Cardinality(Below(k))
      <3>1. Below(i) \subseteq Below(k)
        <4>1. \A j \in S : j < i => j < k
          BY <2>1
        <4>2. QED
          BY <4>1
      <3>2. i \in Below(k) /\ i \notin Below(i)
        BY <2>1
      <3>3. Below(i) # Below(k) /\ Below(i) \subseteq S /\ Below(k) \subseteq S
        BY <3>2
      <3>4. QED
        BY <3>1, <3>3, <1>2
    <2>2. ASSUME NEW i \in S, NEW k \in S, i # k PROVE rank[i] # rank[k]
      <3>1. i < k \/ k < i
        BY <2>2
      <3> HIDE DEF Below
      <3>2. rank[i] = Cardinality(Below(i)) /\ rank[k] = Cardinality(Below(k))
        OBVIOUS
      <3>3. QED
        BY <3>1, <3>2, <2>1, <1>1
    <2>3. QED
      BY <2>2
  <1> HIDE DEF rank
  <1>5. rank \in Injection(S, 0 .. N - 1)
    BY <1>3, <1>4 DEF Injection, IsInjective
  <1>6. IsFiniteSet(0 .. N - 1) /\ Cardinality(0 .. N - 1) = N
    <2>1. N - 1 \in Int /\ (IF 0 > N - 1 THEN 0 ELSE (N - 1) - 0 + 1) = N
      BY <1>1
    <2> HIDE DEF N
    <2>2. QED
      BY <2>1, FS_Interval
  <1>7. rank \in Surjection(S, 0 .. N - 1)
    BY <1>5, <1>6, FS_Injection
  <1>8. \E i \in S : rank[i] = n
    BY <1>7 DEF Surjection
  <1>9. \E i \in S : Cardinality({j \in S : j < i}) = n
    BY <1>8 DEF rank
  <1>10. QED
    BY <1>9 DEF Nth

LEMMA DomainList ==
  /\ DOMAIN Domains = 1 .. Len(Domains) /\ Len(Domains) \in Nat \ {0}
  /\ DomainSet = {Domains[i] : i \in DOMAIN Domains} /\ DOMAIN Domains # {}
  /\ Cycle \in Nat \ {0} /\ CreateTries \in Nat \ {0} /\ MintTries \in Nat \ {0}
  /\ SolveTries \in Nat \ {0} /\ SubmitWorkers \in Nat \ {0}
  <1>1. Domains \in Seq(STRING) /\ Domains # <<>>
    BY SignUpAssumption DEF SignUpAssumption
  <1>2. DOMAIN Domains = 1 .. Len(Domains) /\ Len(Domains) \in Nat \ {0}
    BY <1>1
  <1>3. QED
    BY <1>2, SignUpAssumption DEF SignUpAssumption, DomainSet

\* The pool has a place for each index; a rejected domain is in it only when
\* every domain that was not tried yet is rejected.
LEMMA ChosenDomain ==
  ASSUME NEW used, NEW f, f.index \in Nat
  PROVE  /\ Chosen(f, used) \in DomainSet
         /\ Chosen(f, used) \in f.rejected => DomainSet \subseteq used \cup f.rejected
  <1> DEFINE S == Pool(f, used)
  <1>1. S \subseteq DOMAIN Domains /\ S # {}
    BY DomainList DEF Pool, Unused
  <1>2. \A i \in S : Domains[i] \in f.rejected =>
          DomainSet \subseteq used \cup f.rejected
    BY DomainList DEF Pool, Unused
  <1>3. S \in SUBSET Nat /\ IsFiniteSet(S)
    <2>1. S \subseteq 1 .. Len(Domains) /\ IsFiniteSet(1 .. Len(Domains))
      BY <1>1, DomainList, FS_Interval
    <2>2. QED
      BY <2>1, FS_Subset, DomainList
  <1>4. Cardinality(S) \in Nat /\ Cardinality(S) # 0
    BY <1>1, <1>3, FS_CardinalityType, FS_EmptySet
  <1> HIDE DEF S
  <1>5. f.index % Cardinality(S) \in 0 .. Cardinality(S) - 1
    BY <1>4
  <1>6. Nth(S, f.index % Cardinality(S)) \in S
    BY <1>3, <1>5, NthExists
  <1>7. Chosen(f, used) = Domains[Nth(S, f.index % Cardinality(S))]
    BY DEF Chosen, S
  <1>8. QED
    BY <1>1, <1>2, <1>6, <1>7, DomainList

-----------------------------------------------------------------------------
(* The registrations *)

Early == {"create", "pick", "guard", "pace", "post", "closed domain", "open", "ask",
          "refused domain", "code", "verify"}

\* What a registration counts, by where it is: a mailbox is asked for while
\* tries are left, a token while solves are left; what it asked the service is
\* known until it is used; and an sso cookie in memory is about to be saved, as
\* the file of its own or as part of the records of the account.
Fits(q, where) ==
  /\ where = "pick" => q.creates < CreateTries
  /\ where \in {"create", "open", "ask", "refused domain"} => q.creates = 0
  /\ where \in Early => q.solves = 0
  /\ where = "solve" => q.solves < SolveTries
  /\ where \in {"solving", "permit", "consume"} => q.request \in Calls
  /\ q.got = "sso" => where \in {"release", "sso", "account"}
  /\ q.got = "unwritten" => where = "over"

Good == {q \in Process : Fits(q, q.at)}

Moves(p) == \E q \in Good : process' = [process EXCEPT ![p] = q]

LEMMA Places ==
  ASSUME NEW q \in Process, NEW w \in Place, Fits(q, w)
  PROVE  [q EXCEPT !.at = w] \in Good
  <1> DEFINE n == [q EXCEPT !.at = w]
  <1>1. n \in Process /\ n.at = w
    BY DEF Process
  <1>2. /\ n.creates = q.creates /\ n.solves = q.solves /\ n.request = q.request
        /\ n.got = q.got
    BY DEF Process
  <1> HIDE DEF n
  <1>3. Fits(n, n.at)
    BY <1>1, <1>2 DEF Fits
  <1>4. n \in Good
    BY <1>1, <1>3 DEF Good
  <1>5. QED
    BY <1>4 DEF n

LEMMA ToMoves ==
  ASSUME process \in [Processes -> Good], NEW p \in Processes, NEW w \in Place, To(p, w),
         Fits(process[p], w)
  PROVE  Moves(p)
  <1>1. process[p] \in Process
    BY DEF Good
  <1>2. process' = [process EXCEPT ![p] = [process[p] EXCEPT !.at = w]]
    BY DEF To
  <1>3. [process[p] EXCEPT !.at = w] \in Good
    BY <1>1, Places
  <1>4. QED
    BY <1>2, <1>3 DEF Moves

LEMMA Tries ==
  /\ CreateTries \in Nat /\ 0 < CreateTries /\ SolveTries \in Nat /\ 0 < SolveTries
  /\ MintTries \in Nat /\ 0 < MintTries
  BY DomainList

\* How every registration starts.
LEMMA Starts == {Start, Given, Cloudflare, Credential} \subseteq Good
  <1>1. Start \in Process
    BY DomainList DEF Start, Process, Place, None, NoRequest
  <1>2. Start.creates = 0 /\ Start.solves = 0 /\ Start.got = "nothing" /\ Start.at = "pick"
    BY DEF Start
  <1>3. Start \in Good
    BY <1>1, <1>2, Tries DEF Good, Fits
  <1>4. Cloudflare \in Good
    BY <1>1, <1>2, Places, DomainList DEF Cloudflare, Fits, Place
  <1>5. Credential \in Good
    BY <1>1, <1>2, Places, DomainList DEF Credential, Fits, Place, Early
  <1>6. Given \in Good
    <2> DEFINE n == [Start EXCEPT !.at = "open", !.mints = 0]
    <2>1. /\ n \in Process /\ n.at = "open" /\ n.creates = 0 /\ n.solves = 0
          /\ n.got = "nothing"
      <3>1. "open" \in Place /\ 0 \in 0 .. MintTries
        BY Tries DEF Place
      <3>2. QED
        BY <1>1, <1>2, <3>1 DEF Process
    <2> HIDE DEF n
    <2>2. n \in Good
      BY <2>1 DEF Good, Fits
    <2>3. QED
      BY <2>2 DEF n, Given
  <1>7. QED
    BY <1>3, <1>4, <1>5, <1>6

LEMMA OverIsGood ==
  ASSUME NEW q \in Process, NEW w \in {"over", "release", "cookies"},
         q.got = "sso" => w = "release"
  PROVE  Over(q, w) \in Good
  <1> DEFINE g == IF q.got = "sso" THEN "sso" ELSE "nothing"
             n == [Start EXCEPT !.at = w, !.got = g]
  <1>1. Start \in Process
    BY Starts DEF Good
  <1>2. g \in {"nothing", "sso"} /\ (g = "sso" => w = "release")
    OBVIOUS
  <1>3. Over(q, w) = n
    BY DEF Over
  <1> HIDE DEF g
  <1>4. n \in Process /\ n.at = w /\ n.got = g
    <2>1. w \in Place
      BY DEF Place
    <2>2. QED
      BY <1>1, <1>2, <2>1 DEF Process
  <1> HIDE DEF n
  <1>5. n \in Good
    BY <1>2, <1>4 DEF Good, Fits, Early
  <1>6. QED
    BY <1>3, <1>5

LEMMA FailMoves ==
  ASSUME process \in [Processes -> Good], NEW p \in Processes, process[p].got # "sso",
         Fail(p) \/ Leave(p)
  PROVE  Moves(p)
  <1>1. process[p] \in Process
    BY DEF Good
  <1>2. Over(process[p], "over") \in Good /\ Over(process[p], "release") \in Good
    BY <1>1, OverIsGood
  <1>3. QED
    BY <1>2 DEF Fail, Leave, Moves

\* The state of the registrations and of what they share: the last create that
\* was let through less than a spacing ago is stamped, or could not be.
SharedOK ==
  /\ process \in [Processes -> Good]
  /\ guard \in Processes \cup {None}
  /\ {stamped, recent, unstamped, shut} \subseteq BOOLEAN /\ unread \in 0 .. MaxUnread
  /\ rotation \in [index : 0 .. Cycle - 1, rejected : SUBSET DomainSet]
  /\ holding \cup spent \subseteq Processes
  /\ recent => stamped \/ unstamped

LEMMA Known ==
  ASSUME SharedOK, NEW p \in Processes
  PROVE  /\ process \in [Processes -> Good] /\ process[p] \in Process
         /\ Fits(process[p], process[p].at)
         /\ process[p].creates \in Nat /\ process[p].solves \in Nat /\ process[p].mints \in Nat
         /\ process[p].domain \in DomainSet \cup {None} /\ process[p].used \subseteq DomainSet
         /\ rotation.index \in Nat /\ rotation.rejected \subseteq DomainSet
         /\ NewFile.index \in Nat /\ NewFile.rejected \subseteq DomainSet
  BY Tries DEF SharedOK, Good, Process, NewFile

LEMMA PickMoves ==
  ASSUME SharedOK, NEW p \in Processes, Pick(p)
  PROVE  Moves(p)
  <1>1. process[p] \in Process /\ Fits(process[p], "pick") /\ process[p].got # "sso"
        /\ process \in [Processes -> Good] /\ process[p].creates \in Nat
    BY Known DEF Pick, In, Fits
  <1>2. CASE Fail(p)
    BY <1>1, <1>2, FailMoves
  <1>3. ASSUME NEW f \in {rotation, NewFile},
               process' = [process EXCEPT ![p].at = "guard", ![p].domain = Chosen(f, process[p].used),
                             ![p].used = @ \cup {Chosen(f, process[p].used)}, ![p].creates = @ + 1]
        PROVE  Moves(p)
    <2> DEFINE d == Chosen(f, process[p].used)
               n == [process[p] EXCEPT !.at = "guard", !.domain = d, !.used = @ \cup {d},
                                       !.creates = @ + 1]
    <2>1. d \in DomainSet /\ process[p].used \in SUBSET DomainSet
      BY Known, ChosenDomain
    <2>2. process[p].creates + 1 \in 0 .. CreateTries /\ process[p].solves = 0
      BY <1>1, Tries DEF Fits, Early
    <2>3. "guard" \in Place
      BY DEF Place
    <2>4. process' = [process EXCEPT ![p] = n]
      BY <1>3
    <2> HIDE DEF d
    <2>5. /\ n \in Process /\ n.at = "guard" /\ n.solves = 0
          /\ n.got # "sso" /\ n.got # "unwritten"
      BY <1>1, <2>1, <2>2, <2>3 DEF Process, Fits
    <2> HIDE DEF n
    <2>6. n \in Good
      BY <2>5 DEF Good, Fits
    <2>7. QED
      BY <2>4, <2>6 DEF Moves
  <1>4. QED
    BY <1>2, <1>3 DEF Pick

LEMMA CreateMoves ==
  ASSUME SharedOK, NEW p \in Processes,
         TakeGuard(p) \/ Pace(p) \/ Created(p) \/ MarkClosedDomain(p) \/ CreateElsewhere(p)
  PROVE  Moves(p)
  <1>1. process[p] \in Process /\ Fits(process[p], process[p].at)
        /\ process \in [Processes -> Good]
    BY Known
  <1>2. process[p].at \in Early \ {"pick", "code", "verify", "open", "ask", "refused domain"}
    BY DEF TakeGuard, Pace, Created, MarkClosedDomain, CreateElsewhere, In, Early
  <1>3. process[p].solves = 0 /\ process[p].got # "sso" /\ process[p].got # "unwritten"
    BY <1>1, <1>2 DEF Fits, Early
  <1>4. CASE Fail(p)
    BY <1>1, <1>3, <1>4, FailMoves
  <1>5. ASSUME NEW w \in {"pace", "post", "closed domain"}, To(p, w) PROVE Moves(p)
    <2>1. w \in Place /\ Fits(process[p], w)
      BY <1>3 DEF Place, Fits
    <2>2. QED
      BY <1>1, <1>5, <2>1, ToMoves
  <1>6. CASE Again(p)
    <2>1. CASE process[p].creates < CreateTries /\ To(p, "pick")
      <3>1. "pick" \in Place /\ Fits(process[p], "pick")
        BY <1>3, <2>1 DEF Place, Fits
      <3>2. QED
        BY <1>1, <2>1, <3>1, ToMoves
    <2>2. QED
      BY <1>4, <1>6, <2>1 DEF Again
  <1>7. CASE process' = [process EXCEPT ![p].at = "open", ![p].used = {}, ![p].creates = 0]
    <2> DEFINE n == [process[p] EXCEPT !.at = "open", !.used = {}, !.creates = 0]
    <2>1. "open" \in Place /\ 0 \in 0 .. CreateTries /\ {} \in SUBSET DomainSet
      BY Tries DEF Place
    <2>2. n \in Process /\ n.at = "open" /\ n.creates = 0 /\ n.solves = 0 /\ n.got # "sso" /\ n.got # "unwritten"
      BY <1>1, <1>3, <2>1 DEF Process
    <2>3. process' = [process EXCEPT ![p] = n]
      BY <1>7
    <2> HIDE DEF n
    <2>4. n \in Good
      BY <2>2 DEF Good, Fits
    <2>5. QED
      BY <2>3, <2>4 DEF Moves
  <1>8. CASE In(p, "create") /\ To(p, "open")
    <2>1. "open" \in Place /\ Fits(process[p], "open")
      BY <1>1, <1>3, <1>8 DEF Place, Fits, In
    <2>2. QED
      BY <1>1, <1>8, <2>1, ToMoves
  <1>9. QED
    BY <1>4, <1>5, <1>6, <1>7, <1>8
       DEF TakeGuard, Pace, Created, MarkClosedDomain, CreateElsewhere

LEMMA CodeMoves ==
  ASSUME SharedOK, NEW p \in Processes,
         OpenSignup(p) \/ AskForCode(p) \/ NextMailbox(p) \/ CodeArrives(p) \/ VerifyCode(p)
  PROVE  Moves(p)
  <1>1. process[p] \in Process /\ Fits(process[p], process[p].at)
        /\ process \in [Processes -> Good] /\ process[p].mints \in Nat
    BY Known
  <1>2. process[p].at \in {"open", "ask", "refused domain", "code", "verify"}
    BY DEF OpenSignup, AskForCode, NextMailbox, CodeArrives, VerifyCode, In
  <1>3. /\ process[p].solves = 0 /\ process[p].got # "sso" /\ process[p].got # "unwritten"
        /\ process[p].at \in {"open", "ask", "refused domain"} => process[p].creates = 0
    BY <1>1, <1>2 DEF Fits, Early
  <1>4. CASE Fail(p)
    BY <1>1, <1>3, <1>4, FailMoves
  <1>5. ASSUME NEW w \in {"ask", "refused domain", "verify", "solve"}, To(p, w),
               w \in {"ask", "refused domain"} => process[p].creates = 0
        PROVE  Moves(p)
    <2>1. w \in Place /\ Fits(process[p], w)
      BY <1>3, <1>5, Tries DEF Place, Fits
    <2>2. QED
      BY <1>1, <1>5, <2>1, ToMoves
  <1>6. CASE process' = [process EXCEPT ![p].at = "code", ![p].domain = None, ![p].mints = 0]
    <2> DEFINE n == [process[p] EXCEPT !.at = "code", !.domain = None, !.mints = 0]
    <2>1. "code" \in Place /\ 0 \in 0 .. MintTries
      BY Tries DEF Place
    <2>2. n \in Process /\ n.at = "code" /\ n.solves = 0 /\ n.got # "sso" /\ n.got # "unwritten"
      BY <1>1, <1>3, <2>1 DEF Process
    <2>3. process' = [process EXCEPT ![p] = n]
      BY <1>6
    <2> HIDE DEF n
    <2>4. n \in Good
      BY <2>2 DEF Good, Fits
    <2>5. QED
      BY <2>3, <2>4 DEF Moves
  <1>7. CASE NextMailbox(p)
    <2>1. process[p].creates = 0
      BY <1>3, <1>7 DEF NextMailbox, In
    <2>2. ASSUME process[p].mints < MintTries, NEW w \in {"create", "pick"},
                 process' = [process EXCEPT ![p].mints = @ + 1, ![p].at = w]
          PROVE  Moves(p)
      <3> DEFINE n == [process[p] EXCEPT !.mints = process[p].mints + 1, !.at = w]
      <3>n. process[p].mints + 1 \in 0 .. MintTries
        BY <1>1, <2>2, Tries
      <3>1. w \in Place /\ process[p].mints + 1 \in 0 .. MintTries
        BY <3>n DEF Place
      <3>2. n \in Process /\ n.at = w /\ n.solves = 0 /\ n.got \notin {"sso", "unwritten"} /\ n.creates = 0
        BY <1>1, <1>3, <2>1, <3>1 DEF Process
      <3>3. process' = [process EXCEPT ![p] = n]
        BY <2>2
      <3> HIDE DEF n
      <3>4. n \in Good
        BY <2>2, <3>2, Tries DEF Good, Fits
      <3>5. QED
        BY <3>3, <3>4 DEF Moves
    <2>3. QED
      BY <1>4, <1>7, <2>2 DEF NextMailbox, Minted
  <1>8. QED
    BY <1>3, <1>4, <1>5, <1>6, <1>7 DEF OpenSignup, AskForCode, CodeArrives, VerifyCode, In

LEMMA SolveMoves ==
  ASSUME SharedOK, NEW p \in Processes,
         AskForToken(p) \/ SolveRefused(p) \/ Solved(p) \/ AcquirePermit(p) \/ ConsumeToken(p)
  PROVE  Moves(p)
  <1>1. process[p] \in Process /\ Fits(process[p], process[p].at)
        /\ process \in [Processes -> Good] /\ process[p].solves \in Nat
    BY Known
  <1>2. process[p].at \in {"solve", "solving", "permit", "consume"}
    BY DEF AskForToken, SolveRefused, Solved, AcquirePermit, ConsumeToken, In
  <1>3. process[p].got # "sso" /\ process[p].got # "unwritten"
    BY <1>1, <1>2 DEF Fits
  <1>4. CASE Fail(p) \/ Leave(p)
    BY <1>1, <1>3, <1>4, FailMoves
  <1>5. CASE AskForToken(p)
    <2>1. PICK r \in Calls : process' = [process EXCEPT ![p].at = "solving", ![p].request = r,
                                                        ![p].solves = @ + 1]
      BY <1>5 DEF AskForToken
    <2> DEFINE n == [process[p] EXCEPT !.at = "solving", !.request = r,
                                       !.solves = process[p].solves + 1]
    <2>n. process[p].solves < SolveTries
      BY <1>1, <1>5 DEF AskForToken, In, Fits
    <2>2. "solving" \in Place /\ process[p].solves + 1 \in 0 .. SolveTries
      BY <1>1, <2>n, Tries DEF Place
    <2>3. n \in Process /\ n.at = "solving" /\ n.request = r /\ n.got # "sso" /\ n.got # "unwritten"
      BY <1>1, <1>3, <2>2 DEF Process
    <2>4. process' = [process EXCEPT ![p] = n]
      BY <2>1
    <2> HIDE DEF n
    <2>5. n \in Good
      BY <2>3 DEF Good, Fits, Early
    <2>6. QED
      BY <2>4, <2>5 DEF Moves
  <1>6. CASE SolveRefused(p)
    <2>1. CASE process[p].solves + 1 < SolveTries
               /\ process' = [process EXCEPT ![p].solves = @ + 1]
      <3> DEFINE n == [process[p] EXCEPT !.solves = process[p].solves + 1]
      <3>1. process[p].solves + 1 \in 0 .. SolveTries /\ process[p].at = "solve"
        BY <1>1, <1>6, <2>1, Tries DEF SolveRefused, In
      <3>2. n \in Process /\ n.at = "solve" /\ n.solves < SolveTries /\ n.got # "sso" /\ n.got # "unwritten"
        BY <1>1, <1>3, <2>1, <3>1 DEF Process
      <3>3. process' = [process EXCEPT ![p] = n]
        BY <2>1
      <3> HIDE DEF n
      <3>4. n \in Good
        BY <3>2 DEF Good, Fits, Early
      <3>5. QED
        BY <3>3, <3>4 DEF Moves
    <2>2. QED
      BY <1>4, <1>6, <2>1 DEF SolveRefused
  <1>7. CASE Unsolved(p)
    <2>1. CASE /\ process[p].solves < SolveTries
               /\ process' = [process EXCEPT ![p].at = "solve", ![p].request = NoRequest]
      <3> DEFINE n == [process[p] EXCEPT !.at = "solve", !.request = NoRequest]
      <3>1. "solve" \in Place
        BY DEF Place
      <3>2. n \in Process /\ n.at = "solve" /\ n.solves < SolveTries /\ n.got # "sso" /\ n.got # "unwritten"
        BY <1>1, <1>3, <2>1, <3>1 DEF Process
      <3>3. process' = [process EXCEPT ![p] = n]
        BY <2>1
      <3> HIDE DEF n
      <3>4. n \in Good
        BY <3>2 DEF Good, Fits, Early
      <3>5. QED
        BY <3>3, <3>4 DEF Moves
    <2>2. QED
      BY <1>4, <1>7, <2>1 DEF Unsolved
  <1>8. ASSUME NEW w \in {"permit", "consume", "submit"}, To(p, w),
               process[p].at \in {"solving", "permit", "consume"}
        PROVE  Moves(p)
    <2>1. w \in Place /\ Fits(process[p], w)
      BY <1>1, <1>3, <1>8 DEF Place, Fits, Early
    <2>2. QED
      BY <1>1, <1>8, <2>1, ToMoves
  <1>9. QED
    BY <1>4, <1>5, <1>6, <1>7, <1>8 DEF Solved, AcquirePermit, ConsumeToken, In

LEMMA KeepMoves ==
  ASSUME SharedOK, NEW p \in Processes,
         \/ Submit(p) \/ GetSso(p) \/ ReleasePermit(p) \/ SignIn(p) \/ LogIn(p)
         \/ SaveSso(p) \/ Authorize(p) \/ SaveAccount(p)
  PROVE  Moves(p)
  <1>1. process[p] \in Process /\ Fits(process[p], process[p].at)
        /\ process \in [Processes -> Good]
    BY Known
  <1>2. CASE process[p].got # "sso" /\ (Fail(p) \/ Leave(p))
    BY <1>1, <1>2, FailMoves
  <1>3. CASE Submit(p)
    <2>1. process[p].got # "sso"
      BY <1>1, <1>3 DEF Submit, In, Fits
    <2>2. Over(process[p], "cookies") \in Good
      BY <1>1, <2>1, OverIsGood
    <2>3. QED
      BY <1>2, <1>3, <2>1, <2>2 DEF Submit, Moves
  <1>4. ASSUME NEW w \in {"release", "sso", "oauth", "login", "account"}, To(p, w),
               w \in {"release", "sso", "account"} \/ process[p].got # "sso", ~In(p, "over")
        PROVE  Moves(p)
    <2>1. w \in Place /\ Fits(process[p], w)
      BY <1>1, <1>4 DEF Place, Fits, Early, In
    <2>2. QED
      BY <1>1, <1>4, <2>1, ToMoves
  <1>u. CASE Unwritten(p)
    <2> DEFINE n == [Start EXCEPT !.at = "over", !.got = "unwritten"]
    <2>1. Start \in Process /\ "over" \in Place
      BY Starts DEF Good, Place
    <2>2. n \in Process /\ n.at = "over" /\ n.got = "unwritten"
      BY <2>1 DEF Process
    <2>3. process' = [process EXCEPT ![p] = n]
      BY <1>u DEF Unwritten
    <2> HIDE DEF n
    <2>4. n \in Good
      BY <2>2 DEF Good, Fits, Early
    <2>5. QED
      BY <2>3, <2>4 DEF Moves
  <1>5. ASSUME NEW w \in Place, NEW g \in {"sso", "saved"},
               w = "release" \/ (g = "saved" /\ w = "oauth"),
               process' = [process EXCEPT ![p].at = w, ![p].got = g]
        PROVE  Moves(p)
    <2> DEFINE n == [process[p] EXCEPT !.at = w, !.got = g]
    <2>1. n \in Process /\ n.at = w /\ n.got = g
      BY <1>1 DEF Process
    <2>2. process' = [process EXCEPT ![p] = n]
      BY <1>5
    <2> HIDE DEF n
    <2>3. n \in Good
      BY <1>5, <2>1 DEF Good, Fits, Early
    <2>4. QED
      BY <2>2, <2>3 DEF Moves
  <1>6. CASE GetSso(p) \/ SaveSso(p)
    <2>1. "release" \in Place /\ "oauth" \in Place
      BY DEF Place
    <2>2. QED
      BY <1>4, <1>5, <1>6, <1>u, <2>1 DEF GetSso, SaveSso, In
  <1>7. CASE ReleasePermit(p)
    BY <1>2, <1>4, <1>7 DEF ReleasePermit, In
  <1>8. CASE SignIn(p) \/ LogIn(p) \/ Authorize(p)
    <2>1. process[p].got # "sso"
      BY <1>1, <1>8 DEF SignIn, LogIn, Authorize, In, Fits
    <2>2. QED
      BY <1>2, <1>4, <1>8, <2>1 DEF SignIn, LogIn, Authorize, In
  <1>9. CASE SaveAccount(p)
    <2>1. CASE process' = [process EXCEPT ![p] = [Start EXCEPT !.at = "over"]]
      <3>1. Start \in Process /\ Start.got = "nothing" /\ Fits(Start, "over") /\ "over" \in Place
        BY Starts DEF Good, Start, Fits, Early, Place
      <3>2. [Start EXCEPT !.at = "over"] \in Good
        BY <3>1, Places
      <3>3. QED
        BY <2>1, <3>2 DEF Moves
    <2>2. CASE process[p].got = "saved" /\ Fail(p)
      BY <1>2, <2>2
    <2>3. QED
      BY <1>9, <1>u, <2>1, <2>2 DEF SaveAccount
  <1>10. QED
    BY <1>3, <1>6, <1>7, <1>8, <1>9

LEMMA KillMoves ==
  ASSUME SharedOK, NEW p \in Processes, Kill(p)
  PROVE  Moves(p)
  <1>1. Start \in Process /\ Start.got = "nothing" /\ "over" \in Place
    BY Starts DEF Good, Start, Place
  <1>2. Fits(Start, "over")
    BY <1>1 DEF Fits, Early
  <1>3. [Start EXCEPT !.at = "over"] \in Good
    BY <1>1, <1>2, Places
  <1>4. QED
    BY <1>3 DEF Kill, Moves

-----------------------------------------------------------------------------
(* The steps *)

IInv == ServiceInv /\ SharedOK

LEMMA RegistrationMoves ==
  ASSUME SharedOK, NEW p \in Processes, Registration(p) \/ Kill(p)
  PROVE  Moves(p)
  BY PickMoves, CreateMoves, CodeMoves, SolveMoves, KeepMoves, KillMoves DEF Registration

\* What a step does to the service is a step of the service.
LEMMA ServicePart == SharedOK /\ [Next]_vars => [ServiceNext]_serviceVars
  <1> SUFFICES ASSUME SharedOK, [Next]_vars PROVE [ServiceNext]_serviceVars
    OBVIOUS
  <1>1. ASSUME NEW p \in Processes, ConsumeToken(p) PROVE [ServiceNext]_serviceVars
    <2>1. process[p].request \in Calls
      BY <1>1, Known DEF ConsumeToken, In, Fits
    <2>2. Consume(process[p].request) => Expire(process[p].request)
      BY DEF Consume, Expire
    <2>3. QED
      BY <1>1, <2>1, <2>2 DEF ConsumeToken, ServiceNext
  <1>2. ASSUME NEW p \in Processes, AskForToken(p) PROVE ServiceNext
    BY <1>2 DEF AskForToken, ServiceNext
  <1>3. ASSUME NEW p \in Processes, Registration(p), ~ConsumeToken(p), ~AskForToken(p)
        PROVE  UNCHANGED serviceVars
    BY <1>3 DEF Registration, CreateElsewhere, Pick, TakeGuard, Pace, Created, MarkClosedDomain,
           OpenSignup, AskForCode, NextMailbox, CodeArrives, VerifyCode, SolveRefused, Solved,
           AcquirePermit, Submit, GetSso, ReleasePermit, SignIn, LogIn, SaveSso, Authorize,
           SaveAccount, Alone
  <1>4. CASE UNCHANGED vars
    BY <1>4 DEF vars
  <1>5. QED
    BY <1>1, <1>2, <1>3, <1>4
       DEF Next, Work, Kill, SpacingPasses, PermitExpires, CloseService, ServiceNext

\* What a process writes is what it has read, with the next index or one more
\* domain: the file where it could be read.
LEMMA Written ==
  ASSUME SharedOK, NEW p \in Processes, NEW f \in {rotation, NewFile}, ReadAs(f)
  PROVE  LET File == [index : 0 .. Cycle - 1, rejected : SUBSET DomainSet] IN
         \A g \in {Advanced(f), Rejected(f, p)} :
           /\ Writes(g) => rotation' \in File
           /\ Writes(g) /\ unread' = unread => rotation.rejected \subseteq rotation'.rejected
           /\ unread' \in 0 .. MaxUnread
  <1> DEFINE File == [index : 0 .. Cycle - 1, rejected : SUBSET DomainSet]
  <1>1. rotation \in File /\ NewFile \in File /\ unread \in 0 .. MaxUnread /\ MaxUnread \in Nat
    BY DomainList, SignUpAssumption DEF SharedOK, NewFile, SignUpAssumption
  <1>2. f \in File
    BY <1>1
  <1>3. Advanced(f) \in File /\ Advanced(f).rejected = f.rejected
    <2>1. (f.index + 1) % Cycle \in 0 .. Cycle - 1
      BY <1>2, DomainList
    <2>2. QED
      BY <1>2, <2>1 DEF Advanced
  <1>4. Rejected(f, p) \in File /\ f.rejected \subseteq Rejected(f, p).rejected
    <2>1. {process[p].domain} \ {None} \subseteq DomainSet
      BY Known
    <2>2. QED
      BY <1>2, <2>1 DEF Rejected
  <1>5. f = rotation \/ unread' = unread + 1
    BY DEF ReadAs, Unread
  <1>6. unread' \in 0 .. MaxUnread
    BY <1>1 DEF ReadAs, Unread
  <1>7. unread' = unread => f = rotation
    BY <1>1, <1>5
  <1>8. QED
    BY <1>1, <1>3, <1>4, <1>6, <1>7 DEF Writes

\* The domains that are rejected stay in the file, unless it cannot be read.
LEMMA RotationStep ==
  SharedOK /\ [Next]_vars => /\ rotation' \in [index : 0 .. Cycle - 1, rejected : SUBSET DomainSet]
                             /\ unread' \in 0 .. MaxUnread
                             /\ unread' = unread => rotation.rejected \subseteq rotation'.rejected
  <1> DEFINE File == [index : 0 .. Cycle - 1, rejected : SUBSET DomainSet]
             Kept == /\ rotation' \in File
                     /\ unread' \in 0 .. MaxUnread
                     /\ unread' = unread => rotation.rejected \subseteq rotation'.rejected
  <1> SUFFICES ASSUME SharedOK, [Next]_vars PROVE Kept
    OBVIOUS
  <1>1. rotation \in File /\ unread \in 0 .. MaxUnread /\ MaxUnread \in Nat
    BY SignUpAssumption DEF SharedOK, SignUpAssumption
  <1>2. rotation' = rotation /\ unread' = unread => Kept
    BY <1>1
  <1>3. ASSUME NEW p \in Processes, Pick(p) PROVE Kept
    BY <1>2, <1>3, Written DEF Pick
  <1>4. ASSUME NEW p \in Processes, MarkClosedDomain(p) \/ NextMailbox(p) PROVE Kept
    BY <1>4, Written DEF MarkClosedDomain, NextMailbox, MarkRejected
  <1>5. ASSUME NEW p \in Processes, Pace(p) PROVE Kept
    BY <1>1, <1>5 DEF Pace, Unread
  <1>6. ASSUME NEW p \in Processes, Registration(p), ~Pick(p), ~MarkClosedDomain(p),
               ~NextMailbox(p), ~Pace(p)
        PROVE  rotation' = rotation /\ unread' = unread
    BY <1>6 DEF Registration, CreateElsewhere, TakeGuard, Created,
           OpenSignup, AskForCode, CodeArrives, VerifyCode, AskForToken, SolveRefused, Solved,
           AcquirePermit, ConsumeToken, Submit, GetSso, ReleasePermit, SignIn, LogIn, SaveSso,
           Authorize, SaveAccount, Alone, SharedUnchanged
  <1>7. ASSUME NEW p \in Processes, Registration(p) PROVE Kept
    BY <1>2, <1>3, <1>4, <1>5, <1>6, <1>7
  <1>8. (\E p \in Processes : Registration(p)) \/ (rotation' = rotation /\ unread' = unread)
    BY DEF Next, Work, Kill, SpacingPasses, PermitExpires, CloseService, vars, clientVars
  <1>9. QED
    BY <1>2, <1>7, <1>8

\* The lock, the spacing and the permits.
LEMMA OthersStep ==
  SharedOK /\ [Next]_vars => /\ guard' \in Processes \cup {None}
                             /\ {stamped', recent', unstamped', shut'} \subseteq BOOLEAN
                             /\ holding' \cup spent' \subseteq Processes
                             /\ recent' => stamped' \/ unstamped'
  <1> SUFFICES ASSUME SharedOK, [Next]_vars
               PROVE  /\ guard' \in Processes \cup {None}
                      /\ {stamped', recent', unstamped', shut'} \subseteq BOOLEAN
                      /\ holding' \cup spent' \subseteq Processes
                      /\ recent' => stamped' \/ unstamped'
    OBVIOUS
  <1> DEFINE Lock == guard' \in Processes \cup {None}
             Space == /\ {stamped', recent', unstamped'} \subseteq BOOLEAN
                      /\ recent' => stamped' \/ unstamped'
             Permits == holding' \cup spent' \subseteq Processes /\ shut' \in BOOLEAN
  <1>1. /\ guard \in Processes \cup {None} /\ {stamped, recent, unstamped, shut} \subseteq BOOLEAN
        /\ holding \cup spent \subseteq Processes /\ (recent => stamped \/ unstamped)
    BY DEF SharedOK
  <1>2. /\ guard' = guard => Lock
        /\ UNCHANGED pace => Space
        /\ UNCHANGED gateVars => Permits
    BY <1>1 DEF gateVars, pace
  <1>3. ASSUME NEW p \in Processes, Pick(p) \/ TakeGuard(p) \/ Pace(p) \/ Created(p)
                                     \/ MarkClosedDomain(p) \/ NextMailbox(p)
        PROVE  Lock /\ Space /\ Permits
    <2>1. Lock
      BY <1>1, <1>3 DEF Pick, TakeGuard, Pace, Created, MarkClosedDomain, NextMailbox
    <2>2. Space
      <3>1. CASE Pace(p)
        <4>1. CASE recent' = TRUE /\ stamped' = TRUE /\ unstamped' = FALSE
          BY <4>1
        <4>2. CASE recent' = TRUE /\ unstamped' = TRUE /\ stamped' = stamped
          BY <1>1, <4>2
        <4>3. QED
          BY <1>2, <3>1, <4>1, <4>2 DEF Pace
      <3>2. CASE ~Pace(p)
        BY <1>2, <1>3, <3>2 DEF Pick, TakeGuard, Created, MarkClosedDomain, NextMailbox
      <3>3. QED
        BY <3>1, <3>2
    <2>3. Permits
      BY <1>2, <1>3 DEF Pick, TakeGuard, Pace, Created, MarkClosedDomain, NextMailbox
    <2>4. QED
      BY <2>1, <2>2, <2>3
  <1>4. ASSUME NEW p \in Processes, AcquirePermit(p) \/ ReleasePermit(p)
        PROVE  Lock /\ Space /\ Permits
    <2>1. Permits
      BY <1>1, <1>2, <1>4 DEF AcquirePermit, ReleasePermit, Gate!Grant, Gate!Revoke
    <2>2. QED
      BY <1>2, <1>4, <2>1 DEF AcquirePermit, ReleasePermit, SharedUnchanged
  <1>5. ASSUME NEW p \in Processes, Registration(p),
               ~(Pick(p) \/ TakeGuard(p) \/ Pace(p) \/ Created(p)
                 \/ MarkClosedDomain(p) \/ NextMailbox(p)),
               ~(AcquirePermit(p) \/ ReleasePermit(p))
        PROVE  UNCHANGED <<guard, pace>> /\ UNCHANGED gateVars
    BY <1>5 DEF Registration, CreateElsewhere, OpenSignup, AskForCode, CodeArrives, VerifyCode,
           AskForToken, SolveRefused, Solved, ConsumeToken, Submit, GetSso, SignIn, LogIn,
           SaveSso, Authorize, SaveAccount, Alone, SharedUnchanged
  <1>6. ASSUME NEW p \in Processes, Kill(p) PROVE Lock /\ Space /\ Permits
    BY <1>1, <1>2, <1>6 DEF Kill
  <1>7. CASE SpacingPasses
    BY <1>1, <1>2, <1>7 DEF SpacingPasses
  <1>8. CASE PermitExpires \/ CloseService
    <2>1. Permits
      BY <1>1, <1>8 DEF PermitExpires, CloseService, Gate!Revoke, Gate!Close
    <2>2. QED
      BY <1>2, <1>8, <2>1 DEF PermitExpires, CloseService, clientVars
  <1>9. CASE UNCHANGED <<clientVars, gateVars>>
    BY <1>2, <1>9 DEF clientVars
  <1>10. Lock /\ Space /\ Permits
    <2>1. ASSUME NEW p \in Processes, Registration(p) PROVE Lock /\ Space /\ Permits
      BY <1>2, <1>3, <1>4, <1>5, <2>1
    <2>2. QED
      BY <2>1, <1>6, <1>7, <1>8, <1>9 DEF Next, Work, vars
  <1>11. QED
    BY <1>10

LEMMA ProcessStep == SharedOK /\ [Next]_vars => process' \in [Processes -> Good]
  <1> SUFFICES ASSUME SharedOK, [Next]_vars PROVE process' \in [Processes -> Good]
    OBVIOUS
  <1>1. process \in [Processes -> Good]
    BY DEF SharedOK
  <1>2. ASSUME NEW p \in Processes, Moves(p) PROVE process' \in [Processes -> Good]
    BY <1>1, <1>2 DEF Moves
  <1>3. (\E p \in Processes : Registration(p) \/ Kill(p)) \/ process' = process
    BY DEF Next, Work, SpacingPasses, PermitExpires, CloseService, vars, clientVars
  <1>4. QED
    BY <1>1, <1>2, <1>3, RegistrationMoves

LEMMA IInvStep == IInv /\ [Next]_vars => IInv'
  <1> SUFFICES ASSUME IInv, [Next]_vars PROVE IInv'
    OBVIOUS
  <1>1. ServiceInv'
    BY ServicePart, ServiceStep DEF IInv
  <1>2. SharedOK'
    BY ProcessStep, OthersStep, RotationStep DEF IInv, SharedOK
  <1>3. QED
    BY <1>1, <1>2 DEF IInv

LEMMA InitIInv == Init => IInv
  <1> SUFFICES ASSUME Init PROVE IInv
    OBVIOUS
  <1>1. ServiceInv
    BY ServiceStart DEF Init
  <1>2. process \in [Processes -> Good]
    BY Starts DEF Init
  <1>3. rotation \in [index : 0 .. Cycle - 1, rejected : SUBSET DomainSet]
    BY DomainList DEF Init, NewFile
  <1>4. unread \in 0 .. MaxUnread
    BY SignUpAssumption DEF Init, SignUpAssumption
  <1>5. QED
    BY <1>1, <1>2, <1>3, <1>4 DEF Init, IInv, SharedOK, Gate!Init

LEMMA Inductive == Spec => []IInv
  BY InitIInv, IInvStep, PTL DEF Spec

-----------------------------------------------------------------------------
(* The theorems *)

\* Whatever ends a solve -- an answer, its deadline, the time-out of its caller,
\* the close of the service -- its slot and its place in the queue are given
\* back; no coroutine is left on a dead loop; and a closed broker's loop ends
\* (_solve_on_loop, _submit and close of TurnstileBroker).
THEOREM ServiceIsSafe == Spec => []ServiceSafe
  <1>1. IInv => ServiceSafe
    <2> SUFFICES ASSUME IInv PROVE ServiceSafe
      OBVIOUS
    <2>1. process \in [Processes -> Process]
      BY DEF IInv, SharedOK, Good
    <2>2. TypeOK
      BY <2>1 DEF IInv, SharedOK, ServiceInv, TypeOK
    <2>3. ClosedBrokerStops
      BY DEF IInv, ServiceInv, BrokersOK, ClosedBrokerStops
    <2>4. QED
      BY <2>2, <2>3 DEF IInv, ServiceInv, ServiceSafe
  <1>2. QED
    BY <1>1, Inductive, PTL

\* A registration that ends, with whatever error, has saved the sso cookie it
\* had, or it ends with the error of that very write: _run_registration_impl
\* saves it before the other steps that may fail.
THEOREM SsoIsKept == Spec => []SsoOutlivesFailure
  <1>1. IInv => SsoOutlivesFailure
    <2> SUFFICES ASSUME IInv, NEW p \in Processes, In(p, "over") PROVE process[p].got # "sso"
      BY DEF SsoOutlivesFailure
    <2>1. Fits(process[p], "over")
      BY Known DEF IInv, In
    <2>2. QED
      BY <2>1 DEF Fits
  <1>2. QED
    BY <1>1, Inductive, PTL

\* Only a process that has waited goes on to its request, and only one that has
\* picked a domain waits for the lock.
LEMMA WhereTo ==
  ASSUME SharedOK, NEW p \in Processes, Registration(p)
  PROVE  /\ process'[p].at = "post" => Pace(p)
         /\ process'[p].at = "guard" => Pick(p)
  <1> DEFINE Elsewhere == process'[p].at \notin {"post", "guard"}
  <1>1. process \in [Processes -> Good] /\ process[p] \in Process
    BY Known
  <1>2. ASSUME NEW w, To(p, w) PROVE process'[p].at = w
    BY <1>1, <1>2 DEF To, Process
  <1>3. ASSUME Fail(p) \/ Leave(p) PROVE Elsewhere
    <2>1. process'[p] \in {Over(process[p], "over"), Over(process[p], "release")}
      BY <1>1, <1>3 DEF Fail, Leave
    <2>2. Start \in Process
      BY Starts DEF Good
    <2>3. Over(process[p], "over").at = "over" /\ Over(process[p], "release").at = "release"
      BY <2>2 DEF Over, Process
    <2>4. QED
      BY <2>1, <2>3
  <1>4. ASSUME Again(p) PROVE Elsewhere
    BY <1>2, <1>3, <1>4 DEF Again
  <1>5. ASSUME Created(p) \/ MarkClosedDomain(p) \/ CreateElsewhere(p) \/ TakeGuard(p)
        PROVE  Elsewhere
    <2>1. process' = [process EXCEPT ![p].at = "open", ![p].used = {}, ![p].creates = 0]
            => process'[p].at = "open"
      BY <1>1 DEF Process
    <2>2. QED
      BY <1>2, <1>3, <1>4, <1>5, <2>1 DEF Created, MarkClosedDomain, CreateElsewhere, TakeGuard
  <1>6. ASSUME OpenSignup(p) \/ CodeArrives(p) \/ VerifyCode(p) \/ AcquirePermit(p)
                 \/ ConsumeToken(p) \/ SignIn(p) \/ LogIn(p) \/ ReleasePermit(p) \/ Authorize(p)
        PROVE  Elsewhere
    BY <1>2, <1>3, <1>6
       DEF OpenSignup, CodeArrives, VerifyCode, AcquirePermit, ConsumeToken, SignIn, LogIn,
           ReleasePermit, Authorize
  <1>7. ASSUME AskForCode(p) \/ NextMailbox(p) PROVE Elsewhere
    <2>1. process' = [process EXCEPT ![p].at = "code", ![p].domain = None, ![p].mints = 0]
            => process'[p].at = "code"
      BY <1>1 DEF Process
    <2>2. ASSUME NEW w, process' = [process EXCEPT ![p].mints = @ + 1, ![p].at = w]
          PROVE  process'[p].at = w
      BY <1>1, <2>2 DEF Process
    <2>3. QED
      BY <1>2, <1>3, <1>7, <2>1, <2>2 DEF AskForCode, NextMailbox, Minted
  <1>8. ASSUME AskForToken(p) \/ SolveRefused(p) \/ Solved(p) PROVE Elsewhere
    <2>1. ASSUME NEW r \in Calls,
                 process' = [process EXCEPT ![p].at = "solving", ![p].request = r,
                                            ![p].solves = @ + 1]
          PROVE  process'[p].at = "solving"
      BY <1>1, <2>1 DEF Process
    <2>2. process' = [process EXCEPT ![p].at = "solve", ![p].request = NoRequest]
            => process'[p].at = "solve"
      BY <1>1 DEF Process
    <2>3. process' = [process EXCEPT ![p].solves = @ + 1] => process'[p].at = process[p].at
      BY <1>1 DEF Process
    <2>4. CASE AskForToken(p)
      BY <2>1, <2>4 DEF AskForToken
    <2>5. CASE SolveRefused(p)
      BY <1>3, <2>3, <2>5 DEF SolveRefused, In
    <2>6. CASE Solved(p)
      BY <1>2, <1>3, <2>2, <2>6 DEF Solved, Unsolved
    <2>7. QED
      BY <1>8, <2>4, <2>5, <2>6
  <1>9. ASSUME Submit(p) \/ GetSso(p) \/ SaveSso(p) \/ SaveAccount(p) PROVE Elsewhere
    <2>1. Start \in Process
      BY Starts DEF Good
    <2>2. ASSUME NEW w \in {"cookies", "over"}, process' = [process EXCEPT ![p] = Over(@, w)]
          PROVE  process'[p].at = w
      <3>1. process'[p] = Over(process[p], w)
        BY <1>1, <2>2
      <3>2. QED
        BY <2>1, <3>1 DEF Over, Process
    <2>3. ASSUME NEW w \in {"release", "oauth"}, NEW g \in {"sso", "saved"},
                 process' = [process EXCEPT ![p].at = w, ![p].got = g]
          PROVE  process'[p].at = w
      BY <1>1, <2>3 DEF Process
    <2>4. ASSUME NEW g \in {"nothing", "unwritten"},
                 process' = [process EXCEPT ![p] = [Start EXCEPT !.at = "over", !.got = g]]
          PROVE  process'[p].at = "over"
      BY <1>1, <2>1, <2>4 DEF Process
    <2>5. process' = [process EXCEPT ![p] = [Start EXCEPT !.at = "over"]] => process'[p].at = "over"
      BY <1>1, <2>1 DEF Process
    <2>6. QED
      BY <1>2, <1>3, <1>9, <2>2, <2>3, <2>4, <2>5
         DEF Submit, GetSso, SaveSso, SaveAccount, Unwritten
  <1>10. Pick(p) => process'[p].at # "post"
    <2>1. ASSUME NEW d, process' = [process EXCEPT ![p].at = "guard", ![p].domain = d,
                                      ![p].used = @ \cup {d}, ![p].creates = @ + 1]
          PROVE  process'[p].at = "guard"
      BY <1>1, <2>1 DEF Process
    <2>2. QED
      BY <1>3, <2>1 DEF Pick
  <1>11. Pace(p) => process'[p].at # "guard"
    BY <1>2, <1>3 DEF Pace
  <1>12. QED
    BY <1>5, <1>6, <1>7, <1>8, <1>9, <1>10, <1>11 DEF Registration

\* What moves a registration to another place is a step of its own.
LEMMA OwnStep ==
  ASSUME SharedOK, [Next]_vars, NEW p \in Processes, process'[p] # process[p]
  PROVE  Registration(p) \/ Kill(p)
  <1>1. (\E q \in Processes : Registration(q) \/ Kill(q)) \/ process' = process
    BY DEF Next, Work, SpacingPasses, PermitExpires, CloseService, vars, clientVars
  <1>2. PICK q \in Processes : Registration(q) \/ Kill(q)
    BY <1>1
  <1>3. Moves(q)
    BY <1>2, RegistrationMoves
  <1>4. q = p
    BY <1>3, Known DEF Moves
  <1>5. QED
    BY <1>2, <1>4

LEMMA KilledIsOver ==
  ASSUME SharedOK, NEW p \in Processes, Kill(p)
  PROVE  process'[p].at = "over"
  <1>1. process'[p] = [Start EXCEPT !.at = "over"]
    BY Known DEF Kill
  <1>2. Start \in Process
    BY Starts DEF Good
  <1>3. QED
    BY <1>1, <1>2 DEF Process

LEMMA Paced ==
  ASSUME SharedOK, [Next]_vars, NEW p \in Processes,
         process[p].at # "post", process'[p].at = "post"
  PROVE  ~recent \/ unstamped \/ unread' > unread
  <1>1. Pace(p)
    BY OwnStep, KilledIsOver, WhereTo
  <1>2. CASE Fail(p)
    <2>1. Start \in Process
      BY Starts DEF Good
    <2>2. process'[p].at = "over"
      BY <1>2, <2>1, Known DEF Fail, Over, Process
    <2>3. QED
      BY <2>2
  <1>3. CASE ~stamped
    BY <1>3 DEF SharedOK
  <1>4. CASE Unread
    BY <1>4 DEF Unread, SharedOK
  <1>5. QED
    BY <1>1, <1>2, <1>3, <1>4 DEF Pace

LEMMA Picked ==
  ASSUME SharedOK, [Next]_vars, NEW p \in Processes,
         In(p, "pick"), process'[p].at = "guard", unread' = unread
  PROVE  \/ process'[p].domain \notin rotation.rejected
         \/ DomainSet \subseteq process[p].used \cup rotation.rejected
  <1> DEFINE d == Chosen(rotation, process[p].used)
  <1>1. Pick(p)
    BY OwnStep, KilledIsOver, WhereTo DEF In
  <1>2. Fail(p) => process'[p].at = "over"
    <2>1. Start \in Process
      BY Starts DEF Good
    <2>2. QED
      BY <2>1, Known DEF Fail, Over, Process
  <1>3. d \in rotation.rejected => DomainSet \subseteq process[p].used \cup rotation.rejected
    BY Known, ChosenDomain
  <1>4. ~Unread
    BY DEF Unread, SharedOK
  <1>5. process' = [process EXCEPT ![p].at = "guard", ![p].domain = d,
                                   ![p].used = @ \cup {d}, ![p].creates = @ + 1]
    BY <1>1, <1>2, <1>4 DEF Pick, ReadAs
  <1> HIDE DEF d
  <1>6. process'[p].domain = d
    BY <1>5, Known DEF Process
  <1>7. QED
    BY <1>3, <1>6

\* Mailboxes are asked for a spacing apart, by whatever processes, also when
\* one is killed between its time stamp and its answer, unless that stamp could
\* not be written or read; and no process that could read the file takes a
\* domain another one has seen rejected while there is a better one
\* (_yyds_create_guard, _yyds_next_round_robin_domain).
THEOREM MailboxesAreShared == Spec => MailboxesShared
  <1>1. IInv /\ [Next]_vars =>
          \A p \in Processes : process[p].at # "post" /\ process'[p].at = "post" =>
            ~recent \/ unstamped \/ unread' > unread
    BY Paced DEF IInv
  <1>2. IInv /\ [Next]_vars => (unread' = unread =>
          /\ rotation.rejected \subseteq rotation'.rejected
          /\ \A p \in Processes : In(p, "pick") /\ process'[p].at = "guard" =>
               \/ process'[p].domain \notin rotation.rejected
               \/ DomainSet \subseteq process[p].used \cup rotation.rejected)
    BY Picked, RotationStep DEF IInv
  <1>3. QED
    BY <1>1, <1>2, Inductive, PTL DEF Spec, MailboxesShared, PacedCreates, RejectedAvoided

===============================================================================
