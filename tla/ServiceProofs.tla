--------------------------- MODULE ServiceProofs -----------------------------
(***************************************************************************)
(* The runners of batches: the polling threads of the service (TickRace)   *)
(* and the supervisor that runs epochs of them (MailSupervisor).           *)
(*                                                                         *)
(* TickRace: for every number of polling threads, worker slots and tasks,  *)
(* however the ticks of one runner overlap, slots and plan are exceeded    *)
(* by no more than the polls that decided before the others had launched;  *)
(* with one thread at a time the counters are exact; and the stop reaches  *)
(* every process but those that such polls were about to start.  A thread  *)
(* that has decided to create a worker, or that holds an ended process     *)
(* whose worker another thread has booked meanwhile, will make a worker    *)
(* active later.  The slots are therefore counted together with these      *)
(* threads (Cap): the workers they hold as a set, since two threads may    *)
(* hold the same one.  What runs on after the stop is counted together     *)
(* with the threads that are about to launch (Reach).                      *)
(*                                                                         *)
(* MailSupervisor: for every list of addresses and every number of         *)
(* registration processes no token is lost, nobody registers twice and an  *)
(* orderly end leaves no process.  That an epoch's two writes lose nothing *)
(* follows from what the reconciliation before them left in the master     *)
(* (Rewritten), and that nobody is offered twice from each reservation     *)
(* being one process's and in the ledger (HeldOnce, OnlyNew).              *)
(***************************************************************************)
EXTENDS TickRace, MailSupervisor, FiniteSetTheorems, FunctionTheorems, SequenceTheorems,
        WellFoundedInduction, TLAPS

-----------------------------------------------------------------------------
(* TickRace *)

(* The invariant *)

Resting(t) == pc[t] \in {"idle", "over"}
Launching(t) == pc[t] \in {"create", "popen"}

Ended == {o \in Tasks : st[o] \in Terminal}
Launchers == {t \in Pollers : Launching(t)}
Uncounted == {t \in Pollers : pc[t] = "count"}
Held == {cur[t] : t \in {u \in Pollers : pc[u] \in {"poll", "convert"}}}
Loose == {o \in alive \ killed : st[o] \notin Terminal}

Kinds ==
  /\ web \in BOOLEAN /\ convert \in BOOLEAN
  /\ st \in [Tasks -> {"none", "queued", "running", "converting"} \cup Terminal]
  /\ index \in [Tasks -> 0 .. MaxTasks] /\ byIndex \in [Tasks -> 0 .. MaxTasks]
  /\ proc \in [Tasks -> BOOLEAN]
  /\ killed \subseteq alive /\ alive \subseteq launched /\ launched \subseteq Created
  /\ convs \in [Tasks -> Nat] /\ events \in [Tasks -> Nat]
  /\ pc \in [Threads -> Labels]
  /\ todo \in [Threads -> SUBSET Tasks] /\ cur \in [Threads -> 0 .. MaxTasks]
  /\ nextIndex \in 1 .. MaxTasks + 1
  /\ started \in Nat /\ succeeded \in Nat /\ stopped \in Nat
  /\ phase \in {"running", "draining", "done"} /\ stopping \in BOOLEAN
  /\ seen \in [Threads -> 0 .. MaxTasks]

\* The numbers of the workers: what is booked under a number belongs to a
\* worker of that number whose process has ended.
Numbered ==
  /\ Created = 1 .. nextIndex - 1
  /\ \A o \in Created : index[o] # 0 /\ byIndex[index[o]] # 0
  /\ \A k \in Tasks : byIndex[k] # 0 => byIndex[k] \in Created /\ index[byIndex[k]] = k
  /\ \A k \in Tasks : events[k] > 0 \/ convs[k] > 0 =>
       \E d \in launched \ alive : index[d] = k

\* What a thread has in hand between two of its steps.
Hands ==
  /\ \A t \in Threads :
       /\ pc[t] = "create" => seen[t] # 0
       /\ pc[t] \in {"poll", "count"} => cur[t] \in launched
       /\ pc[t] \in {"markstop", "markok", "convert"} => cur[t] \in launched \ alive
       /\ pc[t] = "popen" => cur[t] \in Created \ launched
       /\ todo[t] \subseteq Created
  /\ \A t, u \in Threads : pc[t] = "popen" /\ pc[u] = "popen" /\ cur[t] = cur[u] => t = u

Lives ==
  /\ \A o \in alive : proc[o] /\ st[o] \in {"running"} \cup Terminal
  /\ Active \subseteq launched

Stops ==
  /\ stopping <=> pc[Stopper] # "idle"
  /\ stopping => phase # "running"
  /\ pc[Stopper] \notin {"create", "popen", "count", "convert", "markok"}
  /\ \A t \in Pollers : pc[t] \notin {"stopall", "terminate", "over"}

\* A terminal has one thread inside the runner at a time.
Alone ==
  ~web =>
    /\ \A t, u \in Threads : ~Resting(t) /\ ~Resting(u) => t = u
    /\ \A t \in Threads :
         /\ pc[t] = "popen" => st[cur[t]] = "queued"
         /\ pc[t] \in {"poll", "markstop", "markok", "convert"} => st[cur[t]] = "running"
    /\ succeeded + stopped = Cardinality(Ended)

Cap ==
  Cardinality(Active \cup Held) + Cardinality(Launchers) <= NumWorkers + Others

Starts ==
  /\ started + Cardinality(Launchers \cup Uncounted) <= Count + Others
  /\ Cardinality(launched) = started + Cardinality(Uncounted)

Reach ==
  pc[Stopper] \notin {"idle", "stopall", "terminate"} =>
    Cardinality(Loose) + Cardinality(Launchers) <= InFlight

Shared ==
  \A o \in alive : st[o] \in Terminal => \E d \in Created \ {o} : index[d] = index[o]

IInv ==
  /\ Kinds
  /\ Numbered
  /\ Hands
  /\ Lives
  /\ Stops
  /\ Alone
  /\ Cap
  /\ Starts
  /\ Reach
  /\ Shared

-----------------------------------------------------------------------------
(* Counting workers and threads *)

LEMMA Counts ==
  ASSUME NEW S, S \subseteq Tasks \/ S \subseteq Pollers
  PROVE  IsFiniteSet(S) /\ Cardinality(S) \in Nat
  <1>1. IsFiniteSet(Tasks) /\ IsFiniteSet(Pollers)
    BY FS_Interval, RaceAssumption DEF RaceAssumption, Tasks
  <1>2. QED
    BY <1>1, FS_Subset, FS_CardinalityType

LEMMA CountLess ==
  ASSUME NEW T, T \subseteq Tasks \/ T \subseteq Pollers, NEW S \in SUBSET T
  PROVE  Cardinality(S) <= Cardinality(T)
  BY Counts, FS_Subset

LEMMA CountOneMore ==
  ASSUME NEW S, S \subseteq Tasks \/ S \subseteq Pollers, NEW x, NEW T \in SUBSET (S \cup {x}),
         T \subseteq Tasks \/ T \subseteq Pollers
  PROVE  Cardinality(T) <= Cardinality(S) + 1
  <1>1. IsFiniteSet(S) /\ Cardinality(S) \in Nat /\ IsFiniteSet(S \cup {x})
    BY Counts, FS_AddElement
  <1>2. Cardinality(S \cup {x}) <= Cardinality(S) + 1
    BY <1>1, FS_AddElement
  <1>3. Cardinality(T) \in Nat /\ Cardinality(S \cup {x}) \in Nat /\ Cardinality(T) <= Cardinality(S \cup {x})
    BY <1>1, FS_Subset, FS_CardinalityType
  <1>4. QED
    BY <1>1, <1>2, <1>3

LEMMA CountOneLess ==
  ASSUME NEW S, S \subseteq Tasks \/ S \subseteq Pollers, NEW x \in S, NEW T \in SUBSET (S \ {x})
  PROVE  Cardinality(T) + 1 <= Cardinality(S)
  <1>1. IsFiniteSet(S) /\ Cardinality(S) \in Nat
    BY Counts
  <1>2. IsFiniteSet(S \ {x}) /\ Cardinality(S \ {x}) = Cardinality(S) - 1
    BY <1>1, FS_RemoveElement
  <1>3. Cardinality(T) \in Nat /\ Cardinality(T) <= Cardinality(S \ {x})
    BY <1>2, FS_Subset, FS_CardinalityType
  <1>4. QED
    BY <1>1, <1>2, <1>3

LEMMA CountUnion ==
  ASSUME NEW S, NEW T, S \cup T \subseteq Tasks \/ S \cup T \subseteq Pollers
  PROVE  /\ Cardinality(S \cup T) <= Cardinality(S) + Cardinality(T)
         /\ S \cap T = {} => Cardinality(S \cup T) = Cardinality(S) + Cardinality(T)
  <1>1. /\ IsFiniteSet(S) /\ Cardinality(S) \in Nat
        /\ IsFiniteSet(T) /\ Cardinality(T) \in Nat
        /\ Cardinality(S \cap T) \in Nat
    BY Counts
  <1>2. Cardinality(S \cup T) = Cardinality(S) + Cardinality(T) - Cardinality(S \cap T)
    BY <1>1, FS_Union
  <1>3. S \cap T = {} => Cardinality(S \cap T) = 0
    BY FS_EmptySet
  <1>4. QED
    BY <1>1, <1>2, <1>3

\* The smallest of a set of workers is one of them.
LEMMA MinIn ==
  ASSUME NEW S \in SUBSET Tasks, S # {}
  PROVE  Min(S) \in S
  <1> DEFINE Below(x) == {y \in S : y < x}
             T == {Below(x) : x \in S}
  <1>0. IsFiniteSet(S)
    BY Counts
  <1>1. S \subseteq Int /\ IsFiniteSet(S)
    BY <1>0, RaceAssumption DEF Tasks, RaceAssumption
  <1>2. T \subseteq SUBSET S /\ T # {}
    OBVIOUS
  <1>3. \E x \in T : \A y \in T : ~ (<<y, x>> \in StrictSubsetOrdering(S))
    <2>1. IsWellFoundedOn(StrictSubsetOrdering(S), SUBSET S)
      BY <1>1, FS_StrictSubsetOrderingWellFounded, FS_FiniteSubsetsOfFinite
    <2> HIDE DEF T
    <2>2. QED
      BY <1>2, <2>1, WFMin
  <1>4. PICK x \in S : \A y \in S : ~ (<<Below(y), Below(x)>> \in StrictSubsetOrdering(S))
    BY <1>3
  <1>5. ASSUME NEW y \in S, y < x PROVE FALSE
    <2>1. \A z \in S : z < y => z < x
      BY <1>1, <1>5
    <2>2. Below(y) \subseteq Below(x)
      BY <2>1
    <2>3. y \in Below(x) /\ y \notin Below(y)
      BY <1>1, <1>5
    <2>4. <<Below(y), Below(x)>> \in StrictSubsetOrdering(S)
      BY <2>2, <2>3 DEF StrictSubsetOrdering
    <2>5. QED
      BY <1>4, <2>4
  <1>6. \A y \in S : x <= y
    BY <1>1, <1>5
  <1>7. QED
    BY <1>6 DEF Min

-----------------------------------------------------------------------------
(* What a step of a thread moves *)

LEMMA Moves ==
  ASSUME NEW t \in Threads, NEW l \in Labels, pc \in [Threads -> Labels], Goto(t, l)
  PROVE  /\ pc' \in [Threads -> Labels]
         /\ pc'[t] = l
         /\ \A u \in Threads \ {t} : pc'[u] = pc[u]
  BY DEF Goto

LEMMA Forgets ==
  ASSUME NEW t \in Threads, cur \in [Threads -> 0 .. MaxTasks], Forget(t)
  PROVE  /\ cur' \in [Threads -> 0 .. MaxTasks]
         /\ \A u \in Threads \ {t} : cur'[u] = cur[u]
  BY RaceAssumption DEF Forget, RaceAssumption

\* The workers that threads hold and that are made active by them are counted
\* once, however many threads hold them.
LEMMA CapKept ==
  ASSUME IInv, UNCHANGED web, Active' \cup Held' \subseteq Active \cup Held,
         Launchers' \subseteq Launchers
  PROVE  Cap'
  <1>1. Active \cup Held \subseteq Tasks /\ Launchers \subseteq Pollers
    <2>1. \A u \in Pollers : pc[u] \in {"poll", "convert"} => cur[u] \in Tasks
      BY DEF IInv, Kinds, Hands, Threads, Created
    <2>2. QED
      BY <2>1 DEF Active, Held, Launchers
  <1>2. /\ Cardinality(Active' \cup Held') <= Cardinality(Active \cup Held)
        /\ Cardinality(Launchers') <= Cardinality(Launchers)
    BY <1>1, CountLess
  <1>3. /\ Cardinality(Active \cup Held) \in Nat /\ Cardinality(Launchers) \in Nat
        /\ Cardinality(Active' \cup Held') \in Nat /\ Cardinality(Launchers') \in Nat
    BY <1>1, Counts
  <1>4. Cardinality(Pollers) \in Nat
    BY Counts
  <1>5. Others' = Others /\ Others \in Int
    BY <1>4 DEF Others
  <1>6. Cap
    BY DEF IInv
  <1>7. QED
    BY <1>2, <1>3, <1>5, <1>6, RaceAssumption DEF Cap, RaceAssumption

LEMMA StartsKept ==
  ASSUME IInv, UNCHANGED <<web, started, launched>>, Uncounted' = Uncounted,
         Launchers' \cup Uncounted' \subseteq Launchers \cup Uncounted
  PROVE  Starts'
  <1>1. Launchers \cup Uncounted \subseteq Pollers
    BY DEF Launchers, Uncounted
  <1>2. Cardinality(Launchers' \cup Uncounted') <= Cardinality(Launchers \cup Uncounted)
    BY <1>1, CountLess
  <1>3. Cardinality(Launchers' \cup Uncounted') \in Nat /\ Cardinality(Launchers \cup Uncounted) \in Nat
    BY <1>1, Counts
  <1>4. Cardinality(Pollers) \in Nat
    BY Counts
  <1>5. Others' = Others /\ Others \in Int
    BY <1>4 DEF Others
  <1>6. Starts /\ started \in Nat
    BY DEF IInv, Kinds
  <1>7. QED
    BY <1>2, <1>3, <1>5, <1>6, RaceAssumption DEF Starts, RaceAssumption

LEMMA ReachKept ==
  ASSUME IInv, UNCHANGED web, Loose' \subseteq Loose, Launchers' \subseteq Launchers,
         pc'[Stopper] \notin {"idle", "stopall", "terminate"} => pc[Stopper] \notin {"idle", "stopall", "terminate"}
  PROVE  Reach'
  <1>1. Loose \subseteq Tasks /\ Launchers \subseteq Pollers
    BY DEF IInv, Kinds, Loose, Launchers, Created
  <1>2. /\ Cardinality(Loose') <= Cardinality(Loose)
        /\ Cardinality(Launchers') <= Cardinality(Launchers)
    BY <1>1, CountLess
  <1>3. /\ Cardinality(Loose) \in Nat /\ Cardinality(Launchers) \in Nat
        /\ Cardinality(Loose') \in Nat /\ Cardinality(Launchers') \in Nat
    BY <1>1, Counts
  <1>4. Cardinality(Pollers) \in Nat
    BY Counts
  <1>5. InFlight' = InFlight /\ InFlight \in Nat
    BY <1>4 DEF InFlight
  <1>6. Reach
    BY DEF IInv
  <1>7. QED
    BY <1>2, <1>3, <1>5, <1>6 DEF Reach

LEMMA NumberedKept ==
  ASSUME IInv, UNCHANGED <<index, byIndex, nextIndex, events, convs>>, Created' = Created,
         launched \ alive \subseteq launched' \ alive'
  PROVE  Numbered'
  <1>1. Numbered
    BY DEF IInv
  <1>2. QED
    BY <1>1 DEF Numbered

LEMMA SharedKept ==
  ASSUME IInv, \A o \in Created : index'[o] = index[o], Created \subseteq Created',
         alive' \subseteq alive, \A o \in alive' : st'[o] \in Terminal => st[o] \in Terminal
  PROVE  Shared'
  <1>1. Shared /\ alive \subseteq Created
    BY DEF IInv, Kinds
  <1>2. QED
    BY <1>1 DEF Shared

\* A step that only moves threads.
LEMMA TasksKept ==
  ASSUME IInv,
         UNCHANGED <<convert, st, index, proc, alive, killed, launched, convs, events, byIndex,
                     nextIndex, started, succeeded, stopped>>
  PROVE  /\ Created' = Created /\ Active' = Active /\ Ended' = Ended /\ Loose' = Loose
         /\ Numbered' /\ Lives' /\ Shared'
  <1>1. Created' = Created /\ Active' = Active /\ Ended' = Ended /\ Loose' = Loose
    BY DEF Created, Active, Ended, Loose
  <1>2. Numbered'
    BY <1>1, NumberedKept
  <1>3. Lives'
    BY <1>1 DEF IInv, Lives
  <1>4. Shared'
    BY <1>1, SharedKept
  <1>5. QED
    BY <1>1, <1>2, <1>3, <1>4

LEMMA Steady ==
  ASSUME NEW t \in Threads, NEW l \in Labels, pc \in [Threads -> Labels], Goto(t, l),
         pc[t] \notin {"create", "popen", "count"}, l \notin {"create", "popen", "count"}
  PROVE  Launchers' = Launchers /\ Uncounted' = Uncounted
  <1>1. \A u \in Pollers : u # t => pc'[u] = pc[u]
    BY Moves DEF Threads
  <1>2. pc'[t] = l
    BY Moves
  <1>3. \A u \in Pollers : Launching(u)' <=> Launching(u)
    BY <1>1, <1>2 DEF Launching
  <1>4. \A u \in Pollers : pc'[u] = "count" <=> pc[u] = "count"
    BY <1>1, <1>2
  <1>5. QED
    BY <1>3, <1>4 DEF Launchers, Uncounted

\* In a terminal a thread enters only when all others rest, and a step of
\* another thread is none of theirs.
LEMMA AloneKept ==
  ASSUME IInv, UNCHANGED web, NEW t \in Threads, NEW l \in Labels, Goto(t, l),
         pc[t] \in {"idle", "over"} => MayEnter(t),
         ~web => succeeded' + stopped' = Cardinality(Ended'),
         ~web /\ l = "popen" => st'[cur'[t]] = "queued",
         ~web /\ l \in {"poll", "markstop", "markok", "convert"} => st'[cur'[t]] = "running"
  PROVE  Alone'
  <1> SUFFICES ASSUME ~web PROVE Alone'
    BY DEF Alone
  <1>1. pc' \in [Threads -> Labels] /\ pc'[t] = l /\ \A u \in Threads \ {t} : pc'[u] = pc[u]
    BY Moves DEF IInv, Kinds
  <1>2. \A u \in Threads \ {t} : Resting(u)
    BY DEF IInv, Alone, Resting, MayEnter
  <1>3. \A u \in Threads \ {t} : Resting(u)' /\ pc'[u] \in {"idle", "over"}
    BY <1>1, <1>2 DEF Resting
  <1>4. \A u, v \in Threads : ~Resting(u)' /\ ~Resting(v)' => u = v
    BY <1>3
  <1>5. \A u \in Threads :
          /\ pc'[u] = "popen" => st'[cur'[u]] = "queued"
          /\ pc'[u] \in {"poll", "markstop", "markok", "convert"} => st'[cur'[u]] = "running"
    BY <1>1, <1>3
  <1>6. QED
    BY <1>4, <1>5 DEF Alone

LEMMA HandsKept ==
  ASSUME IInv, NEW t \in Threads, NEW l \in Labels, Goto(t, l),
         Created \subseteq Created', launched \subseteq launched',
         launched \ alive \subseteq launched' \ alive',
         \A u \in Threads \ {t} : /\ cur'[u] = cur[u] /\ seen'[u] = seen[u] /\ todo'[u] = todo[u]
                                  /\ pc[u] = "popen" => cur[u] \notin launched',
         todo'[t] \subseteq Created',
         l = "create" => seen'[t] # 0,
         l \in {"poll", "count"} => cur'[t] \in launched',
         l \in {"markstop", "markok", "convert"} => cur'[t] \in launched' \ alive',
         l = "popen" => cur'[t] \in Created' \ (launched' \cup Created)
  PROVE  Hands'
  <1>1. pc'[t] = l /\ \A u \in Threads \ {t} : pc'[u] = pc[u]
    BY Moves DEF IInv, Kinds
  <1>2. Hands /\ launched \subseteq Created
    BY DEF IInv, Kinds
  <1>3. \A u \in Threads :
          /\ pc'[u] = "create" => seen'[u] # 0
          /\ pc'[u] \in {"poll", "count"} => cur'[u] \in launched'
          /\ pc'[u] \in {"markstop", "markok", "convert"} => cur'[u] \in launched' \ alive'
          /\ pc'[u] = "popen" => cur'[u] \in Created' \ launched'
          /\ todo'[u] \subseteq Created'
    BY <1>1, <1>2 DEF Hands
  <1>4. \A u, v \in Threads : pc'[u] = "popen" /\ pc'[v] = "popen" /\ cur'[u] = cur'[v] => u = v
    BY <1>1, <1>2 DEF Hands
  <1>5. QED
    BY <1>3, <1>4 DEF Hands

\* Booking the end of a worker: it is counted when it was not ended before.
LEMMA Marked ==
  ASSUME IInv, NEW o \in Created, NEW status \in Terminal, MarkTerminal(o, status)
  PROVE  /\ st' \in [Tasks -> {"none", "queued", "running", "converting"} \cup Terminal]
         /\ st'[o] = status /\ \A d \in Tasks \ {o} : st'[d] = st[d]
         /\ succeeded' \in Nat /\ stopped' \in Nat
         /\ Created' = Created /\ Active' \subseteq Active
         /\ succeeded + stopped = Cardinality(Ended) => succeeded' + stopped' = Cardinality(Ended')
  <1>1. o \in Tasks /\ st \in [Tasks -> {"none", "queued", "running", "converting"} \cup Terminal]
    BY DEF IInv, Kinds, Created
  <1>2. st' = [st EXCEPT ![o] = status]
    BY DEF MarkTerminal
  <1>3. /\ st' \in [Tasks -> {"none", "queued", "running", "converting"} \cup Terminal]
        /\ st'[o] = status /\ \A d \in Tasks \ {o} : st'[d] = st[d]
    BY <1>1, <1>2
  <1>4. Created' = Created /\ Active' \subseteq Active
    BY <1>1, <1>3 DEF Created, Active, Terminal
  <1>5. Ended' = Ended \cup {o} /\ Ended \subseteq Tasks
    BY <1>1, <1>3 DEF Ended
  <1>6. succeeded \in Nat /\ stopped \in Nat
    BY DEF IInv, Kinds
  <1>7. CASE st[o] \in Terminal
    <2>1. UNCHANGED <<succeeded, stopped>>
      BY <1>7 DEF MarkTerminal
    <2>2. Ended' = Ended
      BY <1>1, <1>5, <1>7 DEF Ended
    <2>3. QED
      BY <1>3, <1>4, <1>6, <2>1, <2>2
  <1>8. CASE st[o] \notin Terminal
    <2>1. /\ succeeded' = succeeded + IF status = "succeeded" THEN 1 ELSE 0
          /\ stopped' = stopped + IF status = "stopped" THEN 1 ELSE 0
      BY <1>8 DEF MarkTerminal
    <2>2. succeeded' \in Nat /\ stopped' \in Nat /\ succeeded' + stopped' = succeeded + stopped + 1
      BY <1>6, <2>1 DEF Terminal
    <2>3. o \notin Ended
      BY <1>8 DEF Ended
    <2>4. Cardinality(Ended') = Cardinality(Ended) + 1
      BY <1>5, <2>3, Counts, FS_AddElement
    <2>5. QED
      BY <1>3, <1>4, <2>2, <2>4
  <1>9. QED
    BY <1>7, <1>8

-----------------------------------------------------------------------------
(* The steps of a tick *)

LEMMA TickBeginKeeps ==
  ASSUME IInv, UNCHANGED web, NEW t \in Threads, TickBegin(t)
  PROVE  IInv'
  <1>1. /\ Goto(t, "drain") /\ "drain" \in Labels /\ pc[t] = "idle" /\ t # Stopper /\ MayEnter(t)
        /\ UNCHANGED <<convert, st, index, proc, alive, killed, launched, convs, events, byIndex,
                       nextIndex, started, succeeded, stopped, phase, stopping, todo, cur, seen>>
    BY DEF TickBegin, Labels, shared
  <1>2. pc' \in [Threads -> Labels] /\ pc'[t] = "drain" /\ \A u \in Threads \ {t} : pc'[u] = pc[u]
    BY <1>1, Moves DEF IInv, Kinds
  <1>3. /\ Created' = Created /\ Active' = Active /\ Ended' = Ended /\ Loose' = Loose
        /\ Numbered' /\ Lives' /\ Shared'
    BY <1>1, TasksKept
  <1>4. Launchers' = Launchers /\ Uncounted' = Uncounted
    BY <1>1, Steady DEF IInv, Kinds
  <1>5. Kinds'
    BY <1>1, <1>2, <1>3 DEF IInv, Kinds
  <1>6. Hands'
    <2>1. todo[t] \subseteq Created /\ \A u \in Threads : pc[u] = "popen" => cur[u] \notin launched
      BY DEF IInv, Hands
    <2>2. QED
      BY <1>1, <1>3, <2>1, HandsKept
  <1>7. Stops'
    BY <1>1, <1>2 DEF IInv, Stops, Threads
  <1>8. Alone'
    <2>1. ~web => succeeded + stopped = Cardinality(Ended)
      BY DEF IInv, Alone
    <2>2. QED
      BY <1>1, <1>3, <2>1, AloneKept
  <1>9. Cap'
    <2>1. Held' \subseteq Held
      BY <1>1, <1>2 DEF Held, Threads
    <2>2. QED
      BY <1>3, <1>4, <2>1, CapKept
  <1>10. Starts'
    BY <1>1, <1>4, StartsKept
  <1>11. Reach'
    BY <1>1, <1>2, <1>3, <1>4, ReachKept DEF Threads
  <1>12. QED
    BY <1>3, <1>5, <1>6, <1>7, <1>8, <1>9, <1>10, <1>11 DEF IInv

LEMMA DrainEndKeeps ==
  ASSUME IInv, UNCHANGED web, NEW t \in Threads, DrainEnd(t)
  PROVE  IInv'
  <1>1. /\ Goto(t, "check") /\ "check" \in Labels /\ pc[t] = "drain"
        /\ todo' = [todo EXCEPT ![t] = Created]
        /\ UNCHANGED <<convert, st, index, proc, alive, killed, launched, convs, events, byIndex,
                       nextIndex, started, succeeded, stopped, phase, stopping, cur, seen>>
    BY DEF DrainEnd, Labels, shared
  <1>2. pc' \in [Threads -> Labels] /\ pc'[t] = "check" /\ \A u \in Threads \ {t} : pc'[u] = pc[u]
    BY <1>1, Moves DEF IInv, Kinds
  <1>3. /\ Created' = Created /\ Active' = Active /\ Ended' = Ended /\ Loose' = Loose
        /\ Numbered' /\ Lives' /\ Shared'
    BY <1>1, TasksKept
  <1>4. Launchers' = Launchers /\ Uncounted' = Uncounted
    BY <1>1, Steady DEF IInv, Kinds
  <1>5. Kinds'
    <2>1. Created \in SUBSET Tasks
      BY DEF Created
    <2>2. QED
      BY <1>1, <1>2, <1>3, <2>1 DEF IInv, Kinds
  <1>6. Hands'
    <2>1. \A u \in Threads : pc[u] = "popen" => cur[u] \notin launched
      BY DEF IInv, Hands
    <2>2. todo'[t] \subseteq Created' /\ \A u \in Threads \ {t} : todo'[u] = todo[u]
      BY <1>1, <1>3 DEF IInv, Kinds
    <2>3. QED
      BY <1>1, <1>3, <2>1, <2>2, HandsKept
  <1>7. Stops'
    BY <1>1, <1>2 DEF IInv, Stops, Threads
  <1>8. Alone'
    <2>1. ~web => succeeded + stopped = Cardinality(Ended)
      BY DEF IInv, Alone
    <2>2. QED
      BY <1>1, <1>3, <2>1, AloneKept
  <1>9. Cap'
    <2>1. Held' \subseteq Held
      BY <1>1, <1>2 DEF Held, Threads
    <2>2. QED
      BY <1>3, <1>4, <2>1, CapKept
  <1>10. Starts'
    BY <1>1, <1>4, StartsKept
  <1>11. Reach'
    BY <1>1, <1>2, <1>3, <1>4, ReachKept DEF Threads
  <1>12. QED
    BY <1>3, <1>5, <1>6, <1>7, <1>8, <1>9, <1>10, <1>11 DEF IInv

LEMMA CheckNextKeeps ==
  ASSUME IInv, UNCHANGED web, NEW t \in Threads, CheckNext(t)
  PROVE  IInv'
  <1> DEFINE o == Min(Pollable(t))
  <1>1. /\ Goto(t, "poll") /\ "poll" \in Labels /\ pc[t] = "check" /\ Pollable(t) # {}
        /\ cur' = [cur EXCEPT ![t] = o]
        /\ todo' = [todo EXCEPT ![t] = @ \ {o}]
        /\ UNCHANGED <<convert, st, index, proc, alive, killed, launched, convs, events, byIndex,
                       nextIndex, started, succeeded, stopped, phase, stopping, seen>>
    BY DEF CheckNext, Labels, shared
  <1>2. pc' \in [Threads -> Labels] /\ pc'[t] = "poll" /\ \A u \in Threads \ {t} : pc'[u] = pc[u]
    BY <1>1, Moves DEF IInv, Kinds
  <1>3. /\ Created' = Created /\ Active' = Active /\ Ended' = Ended /\ Loose' = Loose
        /\ Numbered' /\ Lives' /\ Shared'
    BY <1>1, TasksKept
  <1>4. Launchers' = Launchers /\ Uncounted' = Uncounted
    BY <1>1, Steady DEF IInv, Kinds
  <1>o. o \in Tasks /\ st[o] = "running" /\ o \in Active /\ o \in launched
    <2>1. Pollable(t) \in SUBSET Tasks
      BY DEF IInv, Kinds, Pollable
    <2>2. o \in Pollable(t)
      BY <1>1, <2>1, MinIn
    <2>3. QED
      BY <2>1, <2>2 DEF Pollable, Active, IInv, Lives
  <1> HIDE DEF o
  <1>p. /\ cur' \in [Threads -> 0 .. MaxTasks] /\ cur'[t] = o
        /\ \A u \in Threads \ {t} : cur'[u] = cur[u]
        /\ todo' \in [Threads -> SUBSET Tasks] /\ todo'[t] \subseteq todo[t]
        /\ \A u \in Threads \ {t} : todo'[u] = todo[u]
    BY <1>1, <1>o DEF IInv, Kinds, Tasks
  <1>5. Kinds'
    BY <1>1, <1>2, <1>3, <1>p DEF IInv, Kinds
  <1>6. Hands'
    <2>1. todo[t] \subseteq Created /\ \A u \in Threads : pc[u] = "popen" => cur[u] \notin launched
      BY DEF IInv, Hands
    <2>2. QED
      BY <1>1, <1>3, <1>o, <1>p, <2>1, HandsKept
  <1>7. Stops'
    BY <1>1, <1>2 DEF IInv, Stops, Threads
  <1>8. Alone'
    <2>1. ~web => succeeded + stopped = Cardinality(Ended)
      BY DEF IInv, Alone
    <2>2. QED
      BY <1>1, <1>3, <1>o, <1>p, <2>1, AloneKept
  <1>9. Cap'
    <2>1. Held' \subseteq Active \cup Held
      BY <1>1, <1>2, <1>o, <1>p DEF Held, Threads
    <2>2. QED
      BY <1>3, <1>4, <2>1, CapKept
  <1>10. Starts'
    BY <1>1, <1>4, StartsKept
  <1>11. Reach'
    BY <1>1, <1>2, <1>3, <1>4, ReachKept DEF Threads
  <1>12. QED
    BY <1>3, <1>5, <1>6, <1>7, <1>8, <1>9, <1>10, <1>11 DEF IInv

LEMMA PollReturnsKeeps ==
  ASSUME IInv, UNCHANGED web, NEW t \in Threads, PollReturns(t)
  PROVE  IInv'
  <1>1. PICK l \in {"check", "markstop", "convert", "markok"} :
          /\ Goto(t, l) /\ pc[t] = "poll"
          /\ l = "check" => Forget(t) /\ UNCHANGED proc
          /\ l # "check" => /\ cur[t] \notin alive /\ UNCHANGED cur
                            /\ proc' = [proc EXCEPT ![cur[t]] = FALSE]
          /\ l = "markstop" <=> stopping /\ l # "check"
          /\ UNCHANGED <<convert, st, index, alive, killed, launched, convs, events, byIndex,
                         nextIndex, started, succeeded, stopped, phase, stopping, todo, seen>>
    BY DEF PollReturns
  <1>l. l \in Labels /\ l \notin {"create", "popen", "count", "idle", "stopall", "terminate", "over", "poll"}
    BY DEF Labels
  <1>2. pc' \in [Threads -> Labels] /\ pc'[t] = l /\ \A u \in Threads \ {t} : pc'[u] = pc[u]
    BY <1>1, <1>l, Moves DEF IInv, Kinds
  <1>3. /\ Created' = Created /\ Active' = Active /\ Ended' = Ended /\ Loose' = Loose
    BY <1>1 DEF Created, Active, Ended, Loose
  <1>4. Launchers' = Launchers /\ Uncounted' = Uncounted
    BY <1>1, <1>l, Steady DEF IInv, Kinds
  <1>c. /\ cur' \in [Threads -> 0 .. MaxTasks]
        /\ \A u \in Threads \ {t} : cur'[u] = cur[u]
        /\ l # "check" => cur'[t] = cur[t]
    BY <1>1, Forgets DEF IInv, Kinds
  <1>h. cur[t] \in launched /\ cur[t] \in Tasks
    BY <1>1 DEF IInv, Hands, Kinds, Created
  <1>p. proc' \in [Tasks -> BOOLEAN] /\ \A o \in alive : proc'[o] = proc[o]
    BY <1>1, <1>h DEF IInv, Kinds, Created
  <1>n. Numbered'
    BY <1>1, <1>3, NumberedKept
  <1>v. Lives'
    BY <1>1, <1>3, <1>p DEF IInv, Lives
  <1>s. Shared'
    BY <1>1, <1>3, SharedKept
  <1>5. Kinds'
    BY <1>1, <1>2, <1>3, <1>c, <1>p DEF IInv, Kinds
  <1>6. Hands'
    <2>1. todo[t] \subseteq Created /\ \A u \in Threads : pc[u] = "popen" => cur[u] \notin launched
      BY DEF IInv, Hands
    <2>2. l \in {"markstop", "markok", "convert"} => cur'[t] \in launched' \ alive'
      BY <1>1, <1>c, <1>h
    <2>3. QED
      BY <1>1, <1>l, <1>3, <1>c, <2>1, <2>2, HandsKept
  <1>7. Stops'
    <2>1. t = Stopper => stopping
      BY <1>1 DEF IInv, Stops
    <2>2. QED
      BY <1>1, <1>l, <1>2, <2>1 DEF IInv, Stops, Threads
  <1>8. Alone'
    <2>1. ~web => succeeded + stopped = Cardinality(Ended) /\ st[cur[t]] = "running"
      BY <1>1 DEF IInv, Alone
    <2>2. ~web /\ l \in {"poll", "markstop", "markok", "convert"} => st'[cur'[t]] = "running"
      BY <1>1, <1>l, <1>c, <2>1
    <2>3. QED
      BY <1>1, <1>l, <1>3, <1>c, <2>1, <2>2, AloneKept
  <1>9. Cap'
    <2>1. Held' \subseteq Held
      BY <1>1, <1>l, <1>2, <1>c DEF Held, Threads
    <2>2. QED
      BY <1>3, <1>4, <2>1, CapKept
  <1>10. Starts'
    BY <1>1, <1>4, StartsKept
  <1>11. Reach'
    BY <1>1, <1>l, <1>2, <1>3, <1>4, ReachKept DEF Threads
  <1>12. QED
    BY <1>n, <1>v, <1>s, <1>5, <1>6, <1>7, <1>8, <1>9, <1>10, <1>11 DEF IInv

LEMMA DrainEventKeeps ==
  ASSUME IInv, UNCHANGED web, NEW t \in Threads, NEW k \in Tasks, DrainEvent(t, k)
  PROVE  IInv'
  <1> DEFINE o == byIndex[k]
  <1>1. /\ pc[t] = "drain" /\ events[k] > 0
        /\ events' = [events EXCEPT ![k] = @ - 1]
        /\ MarkTerminal(o, "succeeded")
        /\ UNCHANGED <<convert, index, proc, alive, killed, launched, convs, byIndex,
                       nextIndex, started, phase, stopping, pc, todo, cur, seen>>
    BY DEF DrainEvent
  <1>o. o \in Created /\ index[o] = k /\ \E d \in Created \ alive : index[d] = k
    <2>1. PICK d \in launched \ alive : index[d] = k
      BY <1>1 DEF IInv, Numbered
    <2>2. d \in Created /\ byIndex[k] # 0
      BY <2>1 DEF IInv, Kinds, Numbered
    <2>3. QED
      BY <2>1, <2>2 DEF IInv, Numbered
  <1> HIDE DEF o
  <1>2. /\ st' \in [Tasks -> {"none", "queued", "running", "converting"} \cup Terminal]
        /\ st'[o] = "succeeded" /\ \A d \in Tasks \ {o} : st'[d] = st[d]
        /\ succeeded' \in Nat /\ stopped' \in Nat
        /\ Created' = Created /\ Active' \subseteq Active
        /\ succeeded + stopped = Cardinality(Ended) => succeeded' + stopped' = Cardinality(Ended')
    BY <1>1, <1>o, Marked DEF Terminal
  <1>e. events' \in [Tasks -> Nat] /\ \A j \in Tasks : events'[j] > 0 => events[j] > 0
    BY <1>1 DEF IInv, Kinds
  <1>3. Launchers' = Launchers /\ Uncounted' = Uncounted /\ Held' = Held /\ Loose' \subseteq Loose
    <2>1. Launchers' = Launchers /\ Uncounted' = Uncounted /\ Held' = Held
      BY <1>1 DEF Launchers, Launching, Uncounted, Held
    <2>2. alive \subseteq Tasks
      BY DEF IInv, Kinds, Created
    <2>3. Loose' \subseteq Loose
      BY <1>1, <1>2, <2>2 DEF Loose, Terminal
    <2>4. QED
      BY <2>1, <2>3
  <1>4. Kinds'
    BY <1>1, <1>2, <1>e DEF IInv, Kinds
  <1>5. Numbered'
    BY <1>1, <1>2, <1>e DEF IInv, Numbered
  <1>6. Hands'
    BY <1>1, <1>2 DEF IInv, Hands
  <1>7. Lives'
    <2>1. alive \subseteq Tasks
      BY DEF IInv, Kinds, Created
    <2>2. QED
      BY <1>1, <1>2, <2>1 DEF IInv, Lives, Terminal
  <1>8. Stops'
    BY <1>1 DEF IInv, Stops
  <1>9. Alone'
    <2>1. ~web => \A u \in Threads : pc[u] \notin {"popen", "poll", "markstop", "markok", "convert"}
      BY <1>1 DEF IInv, Alone, Resting
    <2>2. QED
      BY <1>1, <1>2, <2>1 DEF IInv, Alone, Resting
  <1>10. Cap'
    BY <1>2, <1>3, CapKept
  <1>11. Starts'
    BY <1>1, <1>3, StartsKept
  <1>12. Reach'
    BY <1>1, <1>3, ReachKept
  <1>13. Shared'
    BY <1>1, <1>2, <1>o DEF IInv, Kinds, Shared, Created
  <1>14. QED
    BY <1>4, <1>5, <1>6, <1>7, <1>8, <1>9, <1>10, <1>11, <1>12, <1>13 DEF IInv

LEMMA MarkEndedKeeps ==
  ASSUME IInv, UNCHANGED web, NEW t \in Threads, MarkEnded(t)
  PROVE  IInv'
  <1>1. PICK status \in {"stopped", "succeeded"} :
          /\ Goto(t, "check") /\ "check" \in Labels /\ pc[t] \in {"markstop", "markok"}
          /\ MarkTerminal(cur[t], status) /\ Forget(t)
          /\ UNCHANGED <<convert, index, proc, alive, killed, launched, convs, events, byIndex,
                         nextIndex, started, phase, stopping, todo, seen>>
    BY DEF MarkEnded, Labels
  <1>2. pc' \in [Threads -> Labels] /\ pc'[t] = "check" /\ \A u \in Threads \ {t} : pc'[u] = pc[u]
    BY <1>1, Moves DEF IInv, Kinds
  <1>o. cur[t] \in Created /\ cur[t] \notin alive
    BY <1>1 DEF IInv, Hands, Kinds
  <1>3. /\ st' \in [Tasks -> {"none", "queued", "running", "converting"} \cup Terminal]
        /\ st'[cur[t]] = status /\ \A d \in Tasks \ {cur[t]} : st'[d] = st[d]
        /\ succeeded' \in Nat /\ stopped' \in Nat
        /\ Created' = Created /\ Active' \subseteq Active
        /\ succeeded + stopped = Cardinality(Ended) => succeeded' + stopped' = Cardinality(Ended')
    BY <1>1, <1>o, Marked DEF Terminal
  <1>4. Launchers' = Launchers /\ Uncounted' = Uncounted
    BY <1>1, Steady DEF IInv, Kinds
  <1>c. /\ cur' \in [Threads -> 0 .. MaxTasks]
        /\ \A u \in Threads \ {t} : cur'[u] = cur[u]
    BY <1>1, Forgets DEF IInv, Kinds
  <1>s. alive \subseteq Tasks /\ \A o \in alive : st'[o] = st[o]
    BY <1>o, <1>3 DEF IInv, Kinds, Created
  <1>n. Numbered'
    BY <1>1, <1>3, NumberedKept
  <1>v. Lives'
    BY <1>1, <1>3, <1>s DEF IInv, Lives
  <1>h. Shared'
    BY <1>1, <1>3, <1>s, SharedKept
  <1>5. Kinds'
    BY <1>1, <1>2, <1>3, <1>c DEF IInv, Kinds
  <1>6. Hands'
    <2>1. todo[t] \subseteq Created /\ \A u \in Threads : pc[u] = "popen" => cur[u] \notin launched
      BY DEF IInv, Hands
    <2>2. QED
      BY <1>1, <1>3, <1>c, <2>1, HandsKept
  <1>7. Stops'
    BY <1>1, <1>2 DEF IInv, Stops, Threads
  <1>8. Alone'
    <2>1. ~web => succeeded + stopped = Cardinality(Ended)
      BY DEF IInv, Alone
    <2>2. QED
      BY <1>1, <1>3, <2>1, AloneKept
  <1>9. Cap'
    <2>1. Held' \subseteq Held
      BY <1>1, <1>2, <1>c DEF Held, Threads
    <2>2. QED
      BY <1>3, <1>4, <2>1, CapKept
  <1>10. Starts'
    BY <1>1, <1>4, StartsKept
  <1>11. Reach'
    <2>1. Loose' \subseteq Loose
      BY <1>1, <1>s DEF Loose
    <2>2. QED
      BY <1>1, <1>2, <1>4, <2>1, ReachKept DEF Threads
  <1>12. QED
    BY <1>n, <1>v, <1>h, <1>5, <1>6, <1>7, <1>8, <1>9, <1>10, <1>11 DEF IInv

LEMMA StartConvertKeeps ==
  ASSUME IInv, UNCHANGED web, NEW t \in Threads, StartConvert(t)
  PROVE  IInv'
  <1>1. /\ Goto(t, "check") /\ "check" \in Labels /\ pc[t] = "convert"
        /\ st' = [st EXCEPT ![cur[t]] = "converting"]
        /\ convs' = [convs EXCEPT ![index[cur[t]]] = @ + 1]
        /\ Forget(t)
        /\ UNCHANGED <<convert, index, proc, alive, killed, launched, events, byIndex,
                       nextIndex, started, succeeded, stopped, phase, stopping, todo, seen>>
    BY DEF StartConvert, Labels
  <1>2. pc' \in [Threads -> Labels] /\ pc'[t] = "check" /\ \A u \in Threads \ {t} : pc'[u] = pc[u]
    BY <1>1, Moves DEF IInv, Kinds
  <1>o. cur[t] \in launched \ alive /\ cur[t] \in Created /\ cur[t] \in Tasks /\ t \in Pollers
    BY <1>1 DEF IInv, Hands, Kinds, Created, Stops, Threads
  <1>3. /\ st' \in [Tasks -> {"none", "queued", "running", "converting"} \cup Terminal]
        /\ st'[cur[t]] = "converting" /\ \A d \in Tasks \ {cur[t]} : st'[d] = st[d]
        /\ Created' = Created /\ Active' = Active \cup {cur[t]}
    <2>1. /\ st' \in [Tasks -> {"none", "queued", "running", "converting"} \cup Terminal]
          /\ st'[cur[t]] = "converting" /\ \A d \in Tasks \ {cur[t]} : st'[d] = st[d]
      BY <1>1, <1>o DEF IInv, Kinds
    <2>2. Created' = Created /\ Active' = Active \cup {cur[t]}
      BY <1>o, <2>1 DEF Created, Active
    <2>3. QED
      BY <2>1, <2>2
  <1>4. Launchers' = Launchers /\ Uncounted' = Uncounted
    BY <1>1, Steady DEF IInv, Kinds
  <1>c. /\ cur' \in [Threads -> 0 .. MaxTasks]
        /\ \A u \in Threads \ {t} : cur'[u] = cur[u]
    BY <1>1, Forgets DEF IInv, Kinds
  <1>s. alive \subseteq Tasks /\ \A o \in alive : st'[o] = st[o]
    BY <1>o, <1>3 DEF IInv, Kinds, Created
  <1>k. /\ convs' \in [Tasks -> Nat]
        /\ \A k \in Tasks : convs'[k] > 0 => convs[k] > 0 \/ k = index[cur[t]]
    <2>1. cur[t] \in Created /\ cur[t] \in Tasks
      BY <1>o DEF Created
    <2>2. index \in [Tasks -> 0 .. MaxTasks] /\ index[cur[t]] # 0
      BY <2>1 DEF IInv, Kinds, Numbered
    <2>3. index[cur[t]] \in 0 .. MaxTasks
      BY <2>1, <2>2
    <2>4. index[cur[t]] \in Tasks
      BY <2>2, <2>3, RaceAssumption DEF Tasks, RaceAssumption
    <2>5. QED
      BY <1>1, <2>4 DEF IInv, Kinds
  <1>n. Numbered'
    BY <1>1, <1>o, <1>3, <1>k DEF IInv, Numbered
  <1>v. Lives'
    BY <1>1, <1>o, <1>3, <1>s DEF IInv, Lives
  <1>h. Shared'
    BY <1>1, <1>3, <1>s, SharedKept
  <1>5. Kinds'
    BY <1>1, <1>2, <1>3, <1>c, <1>k DEF IInv, Kinds
  <1>6. Hands'
    <2>1. todo[t] \subseteq Created /\ \A u \in Threads : pc[u] = "popen" => cur[u] \notin launched
      BY DEF IInv, Hands
    <2>2. QED
      BY <1>1, <1>3, <1>c, <2>1, HandsKept
  <1>7. Stops'
    BY <1>1, <1>2 DEF IInv, Stops, Threads
  <1>8. Alone'
    <2>1. ~web => succeeded + stopped = Cardinality(Ended) /\ st[cur[t]] = "running"
      BY <1>1 DEF IInv, Alone
    <2>2. ~web => Ended' = Ended
      BY <1>o, <1>3, <2>1 DEF Ended, Terminal
    <2>3. QED
      BY <1>1, <2>1, <2>2, AloneKept
  <1>9. Cap'
    <2>1. cur[t] \in Held
      BY <1>1, <1>o DEF Held
    <2>2. Held' \subseteq Held
      BY <1>1, <1>2, <1>c DEF Held, Threads
    <2>3. QED
      BY <1>3, <1>4, <2>1, <2>2, CapKept
  <1>10. Starts'
    BY <1>1, <1>4, StartsKept
  <1>11. Reach'
    <2>1. Loose' \subseteq Loose
      BY <1>1, <1>s DEF Loose
    <2>2. QED
      BY <1>1, <1>2, <1>4, <2>1, ReachKept DEF Threads
  <1>12. QED
    BY <1>n, <1>v, <1>h, <1>5, <1>6, <1>7, <1>8, <1>9, <1>10, <1>11 DEF IInv

LEMMA CheckEndKeeps ==
  ASSUME IInv, UNCHANGED web, NEW t \in Threads, CheckEnd(t)
  PROVE  IInv'
  <1>1. /\ Goto(t, "refill") /\ "refill" \in Labels /\ pc[t] = "check"
        /\ todo' = [todo EXCEPT ![t] = {}]
        /\ phase' \in {phase, "draining"} /\ (phase # "running" => phase' = phase)
        /\ UNCHANGED <<convert, st, index, proc, alive, killed, launched, convs, events, byIndex,
                       nextIndex, started, succeeded, stopped, stopping, cur, seen>>
    BY DEF CheckEnd, Labels
  <1>2. pc' \in [Threads -> Labels] /\ pc'[t] = "refill" /\ \A u \in Threads \ {t} : pc'[u] = pc[u]
    BY <1>1, Moves DEF IInv, Kinds
  <1>3. /\ Created' = Created /\ Active' = Active /\ Ended' = Ended /\ Loose' = Loose
        /\ Numbered' /\ Lives' /\ Shared'
    BY <1>1, TasksKept
  <1>4. Launchers' = Launchers /\ Uncounted' = Uncounted
    BY <1>1, Steady DEF IInv, Kinds
  <1>5. Kinds'
    BY <1>1, <1>2, <1>3 DEF IInv, Kinds
  <1>6. Hands'
    <2>1. \A u \in Threads : pc[u] = "popen" => cur[u] \notin launched
      BY DEF IInv, Hands
    <2>2. todo'[t] = {} /\ \A u \in Threads \ {t} : todo'[u] = todo[u]
      BY <1>1 DEF IInv, Kinds
    <2>3. QED
      BY <1>1, <1>3, <2>1, <2>2, HandsKept
  <1>7. Stops'
    BY <1>1, <1>2 DEF IInv, Stops, Threads
  <1>8. Alone'
    <2>1. ~web => succeeded + stopped = Cardinality(Ended)
      BY DEF IInv, Alone
    <2>2. QED
      BY <1>1, <1>3, <2>1, AloneKept
  <1>9. Cap'
    <2>1. Held' \subseteq Held
      BY <1>1, <1>2 DEF Held, Threads
    <2>2. QED
      BY <1>3, <1>4, <2>1, CapKept
  <1>10. Starts'
    BY <1>1, <1>4, StartsKept
  <1>11. Reach'
    BY <1>1, <1>2, <1>3, <1>4, ReachKept DEF Threads
  <1>12. QED
    BY <1>3, <1>5, <1>6, <1>7, <1>8, <1>9, <1>10, <1>11 DEF IInv

LEMMA TickEndKeeps ==
  ASSUME IInv, UNCHANGED web, NEW t \in Threads, TickEnd(t)
  PROVE  IInv'
  <1>1. PICK l \in {"idle", "over"} :
          /\ Goto(t, l) /\ l \in Labels /\ pc[t] = "refill" /\ (l = "over" <=> t = Stopper)
          /\ phase' \in {phase, "done"}
          /\ UNCHANGED <<convert, st, index, proc, alive, killed, launched, convs, events, byIndex,
                         nextIndex, started, succeeded, stopped, stopping, todo, cur, seen>>
    BY DEF TickEnd, Labels
  <1>2. pc' \in [Threads -> Labels] /\ pc'[t] = l /\ \A u \in Threads \ {t} : pc'[u] = pc[u]
    BY <1>1, Moves DEF IInv, Kinds
  <1>3. /\ Created' = Created /\ Active' = Active /\ Ended' = Ended /\ Loose' = Loose
        /\ Numbered' /\ Lives' /\ Shared'
    BY <1>1, TasksKept
  <1>4. Launchers' = Launchers /\ Uncounted' = Uncounted
    BY <1>1, Steady DEF IInv, Kinds
  <1>5. Kinds'
    BY <1>1, <1>2, <1>3 DEF IInv, Kinds
  <1>6. Hands'
    <2>1. todo[t] \subseteq Created /\ \A u \in Threads : pc[u] = "popen" => cur[u] \notin launched
      BY DEF IInv, Hands
    <2>2. QED
      BY <1>1, <1>3, <2>1, HandsKept
  <1>7. Stops'
    BY <1>1, <1>2, RaceAssumption DEF IInv, Stops, Threads, RaceAssumption
  <1>8. Alone'
    <2>1. ~web => succeeded + stopped = Cardinality(Ended)
      BY DEF IInv, Alone
    <2>2. QED
      BY <1>1, <1>3, <2>1, AloneKept
  <1>9. Cap'
    <2>1. Held' \subseteq Held
      BY <1>1, <1>2 DEF Held, Threads
    <2>2. QED
      BY <1>3, <1>4, <2>1, CapKept
  <1>10. Starts'
    BY <1>1, <1>4, StartsKept
  <1>11. Reach'
    BY <1>1, <1>2, <1>3, <1>4, ReachKept DEF Threads
  <1>12. QED
    BY <1>3, <1>5, <1>6, <1>7, <1>8, <1>9, <1>10, <1>11 DEF IInv

\* With the thread that decides, no more threads are inside a tick than the
\* others and itself.
LEMMA BusyPollers ==
  ASSUME IInv, NEW t \in Pollers, ~Resting(t), NEW S \in SUBSET {u \in Pollers : ~Resting(u)}
  PROVE  Cardinality(S) \in Nat /\ Cardinality(S) <= Others + 1 /\ Others \in Int
  <1>1. Cardinality(S) \in Nat /\ Cardinality(Pollers) \in Nat
    BY Counts
  <1>2. Others \in Int
    BY <1>1 DEF Others
  <1>3. CASE web
    <2>1. Cardinality(S) <= Cardinality(Pollers)
      BY CountLess
    <2>2. QED
      BY <1>1, <1>2, <1>3, <2>1 DEF Others
  <1>4. CASE ~web
    <2>1. \A u \in S : u = t
      BY <1>4 DEF IInv, Alone, Threads
    <2>2. S \subseteq {} \cup {t}
      BY <2>1
    <2>3. Cardinality(S) <= Cardinality({}) + 1
      BY <2>2, CountOneMore
    <2>4. Cardinality({}) = 0
      BY FS_EmptySet
    <2>5. QED
      BY <1>1, <1>2, <1>4, <2>3, <2>4 DEF Others
  <1>5. QED
    BY <1>3, <1>4

LEMMA RefillKeeps ==
  ASSUME IInv, UNCHANGED web, NEW t \in Threads, Refill(t)
  PROVE  IInv'
  <1>1. /\ Goto(t, "create") /\ "create" \in Labels /\ pc[t] = "refill"
        /\ ~stopping /\ started < Count
        /\ Cardinality(Active) < NumWorkers /\ Cardinality(Created) < MaxTasks
        /\ seen' = [seen EXCEPT ![t] = nextIndex]
        /\ UNCHANGED <<convert, st, index, proc, alive, killed, launched, convs, events, byIndex,
                       nextIndex, started, succeeded, stopped, phase, stopping, todo, cur>>
    BY DEF Refill, ShouldRefill, HasSlot, Labels, shared
  <1>2. pc' \in [Threads -> Labels] /\ pc'[t] = "create" /\ \A u \in Threads \ {t} : pc'[u] = pc[u]
    BY <1>1, Moves DEF IInv, Kinds
  <1>3. /\ Created' = Created /\ Active' = Active /\ Ended' = Ended /\ Loose' = Loose
        /\ Numbered' /\ Lives' /\ Shared'
    BY <1>1, TasksKept
  <1>t. t # Stopper /\ t \in Pollers /\ pc[Stopper] = "idle" /\ ~Resting(t)
    BY <1>1 DEF IInv, Stops, Threads, Resting
  <1>4. /\ \A u \in Pollers : u # t => pc'[u] = pc[u]
        /\ Uncounted' = Uncounted
        /\ Launchers' \cup Uncounted' \subseteq {u \in Pollers : ~Resting(u)}
    <2>1. \A u \in Pollers : u # t => pc'[u] = pc[u]
      BY <1>2 DEF Threads
    <2>2. QED
      BY <1>1, <1>2, <1>t, <2>1 DEF Uncounted, Launchers, Launching, Resting
  <1>s. nextIndex \in 1 .. MaxTasks
    <2>1. nextIndex \in 1 .. MaxTasks + 1 /\ Created = 1 .. nextIndex - 1
      BY DEF IInv, Kinds, Numbered
    <2>2. Cardinality(Created) = nextIndex - 1
      BY <2>1, FS_Interval, RaceAssumption DEF RaceAssumption
    <2>3. QED
      BY <1>1, <2>1, <2>2, RaceAssumption DEF RaceAssumption
  <1>5. Kinds'
    <2>1. seen' \in [Threads -> 0 .. MaxTasks]
      BY <1>1, <1>s, RaceAssumption DEF IInv, Kinds, RaceAssumption
    <2>2. QED
      BY <1>1, <1>2, <1>3, <2>1 DEF IInv, Kinds
  <1>6. Hands'
    <2>1. todo[t] \subseteq Created /\ \A u \in Threads : pc[u] = "popen" => cur[u] \notin launched
      BY DEF IInv, Hands
    <2>2. seen'[t] # 0 /\ \A u \in Threads \ {t} : seen'[u] = seen[u]
      BY <1>1, <1>s DEF IInv, Kinds
    <2>3. QED
      BY <1>1, <1>3, <2>1, <2>2, HandsKept
  <1>7. Stops'
    BY <1>1, <1>2 DEF IInv, Stops, Threads
  <1>8. Alone'
    <2>1. ~web => succeeded + stopped = Cardinality(Ended)
      BY DEF IInv, Alone
    <2>2. QED
      BY <1>1, <1>3, <2>1, AloneKept
  <1>9. Cap'
    <2> DEFINE H == {u \in Pollers : pc'[u] \in {"poll", "convert"}}
               f == [u \in H |-> cur[u]]
    <2>1. H \cup Launchers' \subseteq {u \in Pollers : ~Resting(u)} /\ H \cap Launchers' = {}
      BY <1>2, <1>4 DEF Resting, Launchers, Launching
    <2>2. /\ Cardinality(H \cup Launchers') = Cardinality(H) + Cardinality(Launchers')
          /\ Cardinality(H) \in Nat /\ Cardinality(Launchers') \in Nat /\ IsFiniteSet(H)
      <3>1. H \cup Launchers' \subseteq Pollers
        BY <2>1
      <3>2. QED
        BY <2>1, <3>1, CountUnion, Counts
    <2>3. Cardinality(H \cup Launchers') <= Others + 1 /\ Others \in Int
      BY <1>t, <2>1, BusyPollers
    <2>4. Held' = {cur[u] : u \in H}
      BY <1>1 DEF Held
    <2>5. Held' \subseteq Tasks /\ Active \subseteq Tasks
      <3>1. \A u \in H : u \in Threads /\ pc[u] \in {"poll", "convert"}
        BY <1>2, <1>4 DEF Threads
      <3>2. \A u \in H : cur[u] \in Tasks
        BY <3>1 DEF IInv, Kinds, Hands, Created
      <3>3. QED
        BY <2>4, <3>2 DEF Active
    <2>6. Cardinality(Held') <= Cardinality(H)
      <3>1. f \in Surjection(H, Held')
        BY <2>4 DEF Surjection
      <3>2. QED
        BY <2>2, <3>1, FS_Surjection
    <2>7. Cardinality(Active \cup Held') <= Cardinality(Active) + Cardinality(Held')
      BY <2>5, CountUnion
    <2>8. Cardinality(Active) \in Nat /\ Cardinality(Held') \in Nat /\ Cardinality(Active \cup Held') \in Nat
      BY <2>5, Counts
    <2> HIDE DEF H, f
    <2>9. Cardinality(Active \cup Held') + Cardinality(Launchers') <= NumWorkers + Others
      BY <1>1, <2>2, <2>3, <2>6, <2>7, <2>8, RaceAssumption DEF RaceAssumption
    <2>10. Others' = Others
      BY DEF Others
    <2>11. QED
      BY <1>3, <2>9, <2>10 DEF Cap
  <1>10. Starts'
    <2>1. /\ Cardinality(Launchers' \cup Uncounted') \in Nat /\ Others \in Int
          /\ Cardinality(Launchers' \cup Uncounted') <= Others + 1
      BY <1>4, <1>t, BusyPollers
    <2>2. Starts /\ started \in Nat
      BY DEF IInv, Kinds
    <2>3. started' + Cardinality(Launchers' \cup Uncounted') <= Count + Others
      BY <1>1, <2>1, <2>2, RaceAssumption DEF RaceAssumption
    <2>4. Others' = Others
      BY DEF Others
    <2>5. QED
      BY <1>1, <1>4, <2>2, <2>3, <2>4 DEF Starts
  <1>11. Reach'
    <2>1. pc'[Stopper] = "idle"
      BY <1>2, <1>t DEF Threads
    <2>2. QED
      BY <2>1 DEF Reach
  <1>12. QED
    BY <1>3, <1>5, <1>6, <1>7, <1>8, <1>9, <1>10, <1>11 DEF IInv

LEMMA CreateWorkerKeeps ==
  ASSUME IInv, UNCHANGED web, NEW t \in Threads, CreateWorker(t)
  PROVE  IInv'
  <1> DEFINE o == Cardinality(Created) + 1
  <1>a. /\ o = nextIndex /\ o \in 1 .. MaxTasks + 1 /\ o \notin Created
        /\ Created \cup {o} = 1 .. nextIndex
    <2>1. nextIndex \in 1 .. MaxTasks + 1 /\ Created = 1 .. nextIndex - 1
      BY DEF IInv, Kinds, Numbered
    <2>2. Cardinality(Created) = nextIndex - 1
      BY <2>1, FS_Interval, RaceAssumption DEF RaceAssumption
    <2>3. QED
      BY <2>1, <2>2, RaceAssumption DEF RaceAssumption
  <1>b. /\ pc[t] = "create" /\ seen' = [seen EXCEPT ![t] = 0]
        /\ UNCHANGED <<convert, proc, alive, killed, launched, convs, events, started,
                       succeeded, stopped, phase, stopping, todo>>
        /\ o > MaxTasks => Goto(t, "refill") /\ UNCHANGED <<st, index, byIndex, nextIndex, cur>>
        /\ ~(o > MaxTasks) => /\ st' = [st EXCEPT ![o] = "queued"]
                              /\ index' = [index EXCEPT ![o] = seen[t]]
                              /\ byIndex' = [byIndex EXCEPT ![seen[t]] = o]
                              /\ nextIndex' = nextIndex + 1
                              /\ cur' = [cur EXCEPT ![t] = o]
                              /\ Goto(t, "popen")
    BY DEF CreateWorker
  <1> HIDE DEF o
  <1>c. /\ seen' \in [Threads -> 0 .. MaxTasks]
        /\ \A u \in Threads \ {t} : seen'[u] = seen[u]
        /\ t \in Pollers /\ ~Resting(t)
    BY <1>b, RaceAssumption DEF IInv, Kinds, RaceAssumption, Stops, Threads, Resting
  <1>d. CASE o > MaxTasks
    <2>1. /\ Goto(t, "refill") /\ "refill" \in Labels
          /\ UNCHANGED <<st, index, byIndex, nextIndex, cur>>
      BY <1>b, <1>d DEF Labels
    <2>2. pc' \in [Threads -> Labels] /\ pc'[t] = "refill" /\ \A u \in Threads \ {t} : pc'[u] = pc[u]
      BY <2>1, Moves DEF IInv, Kinds
    <2>3. /\ Created' = Created /\ Active' = Active /\ Ended' = Ended /\ Loose' = Loose
          /\ Numbered' /\ Lives' /\ Shared'
      BY <1>b, <2>1, TasksKept
    <2>4. Launchers' \subseteq Launchers /\ Uncounted' = Uncounted /\ Held' \subseteq Held
      BY <1>b, <2>1, <2>2 DEF Launchers, Launching, Uncounted, Held, Threads
    <2>5. Kinds'
      BY <1>b, <1>c, <2>1, <2>2, <2>3 DEF IInv, Kinds
    <2>6. Hands'
      <3>1. todo[t] \subseteq Created /\ \A u \in Threads : pc[u] = "popen" => cur[u] \notin launched
        BY DEF IInv, Hands
      <3>2. QED
        BY <1>b, <1>c, <2>1, <2>3, <3>1, HandsKept
    <2>7. Stops'
      BY <1>b, <2>2 DEF IInv, Stops, Threads
    <2>8. Alone'
      <3>1. ~web => succeeded + stopped = Cardinality(Ended)
        BY DEF IInv, Alone
      <3>2. QED
        BY <1>b, <2>1, <2>3, <3>1, AloneKept
    <2>9. Cap'
      BY <2>3, <2>4, CapKept
    <2>10. Starts'
      BY <1>b, <2>4, StartsKept
    <2>11. Reach'
      BY <1>b, <2>2, <2>3, <2>4, ReachKept DEF Threads
    <2>12. QED
      BY <2>3, <2>5, <2>6, <2>7, <2>8, <2>9, <2>10, <2>11 DEF IInv
  <1>e. CASE ~(o > MaxTasks)
    <2>1. /\ Goto(t, "popen") /\ "popen" \in Labels
          /\ st' = [st EXCEPT ![o] = "queued"]
          /\ index' = [index EXCEPT ![o] = seen[t]]
          /\ byIndex' = [byIndex EXCEPT ![seen[t]] = o]
          /\ nextIndex' = nextIndex + 1
          /\ cur' = [cur EXCEPT ![t] = o]
      BY <1>b, <1>e DEF Labels
    <2>o. o \in Tasks /\ o # 0 /\ seen[t] \in Tasks /\ nextIndex' \in 1 .. MaxTasks + 1
      <3>1. o \in 1 .. MaxTasks
        BY <1>a, <1>e, RaceAssumption DEF RaceAssumption
      <3>2. seen[t] \in 1 .. MaxTasks
        BY <1>b, RaceAssumption DEF IInv, Kinds, Hands, RaceAssumption
      <3>3. QED
        BY <1>a, <2>1, <3>1, <3>2, RaceAssumption DEF RaceAssumption, Tasks
    <2>2. pc' \in [Threads -> Labels] /\ pc'[t] = "popen" /\ \A u \in Threads \ {t} : pc'[u] = pc[u]
      BY <2>1, Moves DEF IInv, Kinds
    <2>t. /\ st' \in [Tasks -> {"none", "queued", "running", "converting"} \cup Terminal]
          /\ st'[o] = "queued" /\ \A d \in Tasks \ {o} : st'[d] = st[d]
          /\ st[o] = "none"
      BY <1>a, <2>1, <2>o DEF IInv, Kinds, Created
    <2>i. /\ index' \in [Tasks -> 0 .. MaxTasks] /\ byIndex' \in [Tasks -> 0 .. MaxTasks]
          /\ index'[o] = seen[t] /\ \A d \in Tasks \ {o} : index'[d] = index[d]
          /\ byIndex'[seen[t]] = o /\ \A k \in Tasks \ {seen[t]} : byIndex'[k] = byIndex[k]
      BY <2>1, <2>o DEF IInv, Kinds, Tasks
    <2>c. /\ cur' \in [Threads -> 0 .. MaxTasks] /\ cur'[t] = o
          /\ \A u \in Threads \ {t} : cur'[u] = cur[u]
      BY <2>1, <2>o DEF IInv, Kinds, Tasks
    <2>3. Created' = Created \cup {o} /\ Active' = Active /\ Ended' = Ended
      BY <2>o, <2>t DEF Created, Active, Ended, Terminal
    <2>l. alive \subseteq Created \ {o} /\ launched \subseteq Created \ {o} /\ Created \subseteq Tasks
      BY <1>a DEF IInv, Kinds, Created
    <2>4. Launchers' = Launchers /\ Uncounted' = Uncounted /\ Held' \subseteq Held
      BY <1>b, <2>1, <2>2, <2>c DEF Launchers, Launching, Uncounted, Held, Threads
    <2>n. Numbered'
      <3>1. Created' = 1 .. nextIndex' - 1
        BY <1>a, <2>1, <2>3, <2>o
      <3>2. \A d \in Created' : index'[d] # 0 /\ index'[d] \in Tasks /\ byIndex'[index'[d]] # 0
        <4>1. \A d \in Created : index[d] \in Tasks /\ byIndex[index[d]] # 0
          BY SMTT(30), <2>l, RaceAssumption DEF IInv, Kinds, Numbered, Tasks, RaceAssumption
        <4>2. \A d \in Created : d # o /\ index'[d] = index[d]
          BY <1>a, <2>i, <2>l
        <4>3. 0 \notin Tasks
          BY DEF Tasks
        <4>4. QED
          BY <2>i, <2>o, <2>3, <4>1, <4>2, <4>3
      <3>3. \A k \in Tasks : byIndex'[k] # 0 => byIndex'[k] \in Created' /\ index'[byIndex'[k]] = k
        BY SMTT(30), <1>a, <2>i, <2>l, <2>3 DEF IInv, Numbered
      <3>4. \A k \in Tasks : events'[k] > 0 \/ convs'[k] > 0 =>
               \E d \in launched' \ alive' : index'[d] = k
        <4>1. \A d \in launched : index'[d] = index[d]
          BY <2>i, <2>l
        <4>2. QED
          BY <1>b, <4>1 DEF IInv, Numbered
      <3>5. QED
        BY <3>1, <3>2, <3>3, <3>4, <2>o DEF Numbered
    <2>v. Lives'
      BY <1>b, <2>t, <2>l, <2>3 DEF IInv, Lives
    <2>s. Shared'
      <3>1. \A d \in Created : index'[d] = index[d]
        BY <1>a, <2>i, <2>l
      <3>2. \A d \in alive : st'[d] = st[d]
        BY <2>t, <2>l
      <3>3. QED
        BY <1>b, <2>3, <3>1, <3>2, SharedKept
    <2>5. Kinds'
      BY <1>b, <1>c, <2>2, <2>t, <2>i, <2>c, <2>3, <2>l, <2>o DEF IInv, Kinds
    <2>6. Hands'
      <3>1. todo[t] \subseteq Created /\ \A u \in Threads : pc[u] = "popen" => cur[u] \notin launched
        BY DEF IInv, Hands
      <3>2. cur'[t] \in Created' \ (launched' \cup Created)
        BY <1>a, <1>b, <2>c, <2>3, <2>l
      <3>3. QED
        BY <1>b, <1>c, <2>1, <2>3, <2>c, <3>1, <3>2, HandsKept
    <2>7. Stops'
      BY <1>b, <1>c, <2>2, RaceAssumption DEF IInv, Stops, Threads, RaceAssumption
    <2>8. Alone'
      <3>1. ~web => succeeded + stopped = Cardinality(Ended)
        BY DEF IInv, Alone
      <3>2. QED
        BY <1>b, <2>1, <2>3, <2>c, <2>t, <3>1, AloneKept
    <2>9. Cap'
      BY <2>3, <2>4, CapKept
    <2>10. Starts'
      BY <1>b, <2>4, StartsKept
    <2>11. Reach'
      <3>1. Loose' \subseteq Loose
        BY <1>b, <2>t, <2>l DEF Loose
      <3>2. pc'[Stopper] \notin {"idle", "stopall", "terminate"} => pc[Stopper] \notin {"idle", "stopall", "terminate"}
        BY <1>b, <2>2 DEF Threads
      <3>3. QED
        BY <2>4, <3>1, <3>2, ReachKept
    <2>12. QED
      BY <2>n, <2>v, <2>s, <2>5, <2>6, <2>7, <2>8, <2>9, <2>10, <2>11 DEF IInv
  <1>f. QED
    BY <1>d, <1>e

LEMMA PopenReturnsKeeps ==
  ASSUME IInv, UNCHANGED web, NEW t \in Threads, PopenReturns(t)
  PROVE  IInv'
  <1> DEFINE o == cur[t]
  <1>1. /\ Goto(t, "count") /\ "count" \in Labels /\ pc[t] = "popen"
        /\ st' = [st EXCEPT ![o] = "running"]
        /\ proc' = [proc EXCEPT ![o] = TRUE]
        /\ alive' = alive \cup {o}
        /\ launched' = launched \cup {o}
        /\ UNCHANGED <<convert, index, killed, convs, events, byIndex, nextIndex, started,
                       succeeded, stopped, phase, stopping, todo, cur, seen>>
    BY DEF PopenReturns, Labels
  <1>2. pc' \in [Threads -> Labels] /\ pc'[t] = "count" /\ \A u \in Threads \ {t} : pc'[u] = pc[u]
    BY <1>1, Moves DEF IInv, Kinds
  <1>o. o \in Created /\ o \notin launched /\ o \in Tasks /\ t \in Pollers /\ t # Stopper
    BY <1>1 DEF IInv, Hands, Stops, Threads, Created
  <1>u. \A u \in Threads \ {t} : pc[u] = "popen" => cur[u] \notin launched \cup {o}
    BY <1>1 DEF IInv, Hands
  <1> HIDE DEF o
  <1>3. /\ st' \in [Tasks -> {"none", "queued", "running", "converting"} \cup Terminal]
        /\ st'[o] = "running" /\ \A d \in Tasks \ {o} : st'[d] = st[d]
        /\ proc' \in [Tasks -> BOOLEAN]
        /\ proc'[o] = TRUE /\ \A d \in Tasks \ {o} : proc'[d] = proc[d]
    BY <1>1, <1>o DEF IInv, Kinds
  <1>a. alive \subseteq launched /\ launched \subseteq Created /\ Created \subseteq Tasks
    BY DEF IInv, Kinds, Created
  <1>b. Created' = Created /\ Active' = Active \cup {o} /\ Loose' \subseteq Loose \cup {o}
    <2>1. Created' = Created /\ Active' = Active \cup {o}
      BY <1>o, <1>3 DEF Created, Active
    <2>2. Loose' \subseteq Loose \cup {o}
      BY <1>1, <1>3, <1>a DEF Loose
    <2>3. QED
      BY <2>1, <2>2
  <1>4. /\ Held' \subseteq Held
        /\ t \in Launchers /\ Launchers' \subseteq Launchers \ {t}
        /\ t \notin Uncounted /\ Uncounted' = Uncounted \cup {t}
        /\ Launchers' \cup Uncounted' \subseteq Launchers \cup Uncounted
    <2>1. \A u \in Pollers \ {t} : pc'[u] = pc[u]
      BY <1>2 DEF Threads
    <2>2. Held' \subseteq Held
      BY <1>1, <1>2, <2>1 DEF Held
    <2>3. QED
      BY <1>1, <1>2, <1>o, <2>1, <2>2 DEF Launchers, Launching, Uncounted
  <1>n. Numbered'
    BY <1>1, <1>o, <1>b, NumberedKept
  <1>v. Lives'
    BY <1>1, <1>3, <1>a, <1>b DEF IInv, Lives
  <1>s. Shared'
    <2>1. \A d \in alive : d # o
      BY <1>o, <1>a
    <2>2. ASSUME NEW d \in alive', st'[d] \in Terminal
          PROVE  d \in alive /\ st[d] \in Terminal
      BY <1>1, <1>3, <1>a, <2>1, <2>2 DEF Terminal
    <2>3. QED
      BY <1>1, <1>b, <2>2 DEF IInv, Shared
  <1>5. Kinds'
    BY <1>1, <1>2, <1>3, <1>o, <1>b DEF IInv, Kinds
  <1>6. Hands'
    <2>1. todo[t] \subseteq Created /\ launched \ alive \subseteq launched' \ alive'
      BY <1>1, <1>o DEF IInv, Hands
    <2>2. cur'[t] \in launched'
      BY <1>1 DEF o
    <2>3. QED
      BY <1>1, <1>u, <1>b, <2>1, <2>2, HandsKept
  <1>7. Stops'
    BY <1>1, <1>2, <1>o DEF IInv, Stops, Threads
  <1>8. Alone'
    <2>1. ~web => succeeded + stopped = Cardinality(Ended) /\ st[o] = "queued"
      BY <1>1 DEF IInv, Alone, o
    <2>2. ~web => Ended' = Ended
      BY <1>o, <1>3, <2>1 DEF Ended, Terminal
    <2>3. QED
      BY <1>1, <2>1, <2>2, AloneKept
  <1>c. /\ Cardinality(Launchers') + 1 <= Cardinality(Launchers)
        /\ Cardinality(Launchers') \in Nat /\ Cardinality(Launchers) \in Nat
        /\ Others' = Others /\ Others \in Int /\ InFlight' = InFlight /\ InFlight \in Int
    <2>1. Launchers \subseteq Pollers /\ Launchers' \subseteq Pollers /\ Cardinality(Pollers) \in Nat
      BY Counts DEF Launchers
    <2>2. Cardinality(Launchers') + 1 <= Cardinality(Launchers)
      BY <1>4, <2>1, CountOneLess
    <2>3. QED
      BY <2>1, <2>2, Counts DEF Others, InFlight
  <1>9. Cap'
    <2>1. Active \cup Held \subseteq Tasks
      <3>1. \A u \in Pollers : pc[u] \in {"poll", "convert"} => cur[u] \in Tasks
        BY DEF IInv, Kinds, Hands, Threads, Created
      <3>2. QED
        BY <3>1 DEF Active, Held
    <2>2. Active' \cup Held' \subseteq (Active \cup Held) \cup {o} /\ Active' \cup Held' \subseteq Tasks
      BY <1>o, <1>b, <1>4, <2>1
    <2>3. Cardinality(Active' \cup Held') <= Cardinality(Active \cup Held) + 1
      BY <2>1, <2>2, CountOneMore
    <2>4. Cardinality(Active' \cup Held') \in Nat /\ Cardinality(Active \cup Held) \in Nat
      BY <2>1, <2>2, Counts
    <2>5. Cap
      BY DEF IInv
    <2>6. QED
      BY <1>c, <2>3, <2>4, <2>5, RaceAssumption DEF Cap, RaceAssumption
  <1>10. Starts'
    <2>1. Launchers \cup Uncounted \subseteq Pollers
      BY DEF Launchers, Uncounted
    <2>2. /\ Cardinality(Launchers' \cup Uncounted') <= Cardinality(Launchers \cup Uncounted)
          /\ Cardinality(Launchers' \cup Uncounted') \in Nat /\ Cardinality(Launchers \cup Uncounted) \in Nat
      BY <1>4, <2>1, CountLess, Counts
    <2>3. Cardinality(Uncounted') = Cardinality(Uncounted) + 1
      <3>1. IsFiniteSet(Uncounted)
        BY <2>1, Counts
      <3>2. QED
        BY <1>4, <3>1, FS_AddElement
    <2>4. Cardinality(launched') = Cardinality(launched) + 1
      <3>1. IsFiniteSet(launched)
        BY <1>a, Counts
      <3>2. QED
        BY <1>1, <1>o, <3>1, FS_AddElement
    <2>5. Cardinality(Uncounted) \in Nat /\ Starts /\ started \in Nat
      BY <2>1, Counts DEF IInv, Kinds
    <2>6. QED
      BY <1>1, <1>c, <2>2, <2>3, <2>4, <2>5, RaceAssumption DEF Starts, RaceAssumption
  <1>11. Reach'
    <2>1. Loose \subseteq Tasks /\ Loose' \subseteq Tasks
      BY <1>o, <1>a, <1>b DEF Loose
    <2>2. /\ Cardinality(Loose') <= Cardinality(Loose) + 1
          /\ Cardinality(Loose') \in Nat /\ Cardinality(Loose) \in Nat
      BY <1>b, <2>1, CountOneMore, Counts
    <2>3. pc'[Stopper] = pc[Stopper]
      BY <1>2, <1>o DEF Threads
    <2>4. Reach
      BY DEF IInv
    <2>5. QED
      BY <1>c, <2>2, <2>3, <2>4 DEF Reach
  <1>12. QED
    BY <1>n, <1>v, <1>s, <1>5, <1>6, <1>7, <1>8, <1>9, <1>10, <1>11 DEF IInv

LEMMA CountStartKeeps ==
  ASSUME IInv, UNCHANGED web, NEW t \in Threads, CountStart(t)
  PROVE  IInv'
  <1>1. /\ Goto(t, "refill") /\ "refill" \in Labels /\ pc[t] = "count"
        /\ started' = started + 1 /\ Forget(t)
        /\ UNCHANGED <<convert, st, index, proc, alive, killed, launched, convs, events, byIndex,
                       nextIndex, succeeded, stopped, phase, stopping, todo, seen>>
    BY DEF CountStart, Labels
  <1>2. pc' \in [Threads -> Labels] /\ pc'[t] = "refill" /\ \A u \in Threads \ {t} : pc'[u] = pc[u]
    BY <1>1, Moves DEF IInv, Kinds
  <1>3. /\ Created' = Created /\ Active' = Active /\ Ended' = Ended /\ Loose' = Loose
    BY <1>1 DEF Created, Active, Ended, Loose
  <1>c. /\ cur' \in [Threads -> 0 .. MaxTasks]
        /\ \A u \in Threads \ {t} : cur'[u] = cur[u]
        /\ t \in Pollers
    BY <1>1, Forgets DEF IInv, Kinds, Stops, Threads
  <1>4. /\ Held' \subseteq Held /\ Launchers' = Launchers
        /\ t \in Uncounted /\ Uncounted' = Uncounted \ {t}
        /\ Launchers' \cup Uncounted' \subseteq (Launchers \cup Uncounted) \ {t}
    <2>1. \A u \in Pollers \ {t} : pc'[u] = pc[u] /\ cur'[u] = cur[u]
      BY <1>2, <1>c DEF Threads
    <2>2. Held' \subseteq Held
      BY <1>1, <1>2, <2>1 DEF Held
    <2>3. QED
      BY <1>1, <1>2, <1>c, <2>1, <2>2 DEF Launchers, Launching, Uncounted
  <1>n. Numbered'
    BY <1>1, <1>3, NumberedKept
  <1>v. Lives'
    BY <1>1, <1>3 DEF IInv, Lives
  <1>s. Shared'
    BY <1>1, <1>3, SharedKept
  <1>5. Kinds'
    BY <1>1, <1>2, <1>3, <1>c DEF IInv, Kinds
  <1>6. Hands'
    <2>1. todo[t] \subseteq Created /\ \A u \in Threads : pc[u] = "popen" => cur[u] \notin launched
      BY DEF IInv, Hands
    <2>2. QED
      BY <1>1, <1>3, <1>c, <2>1, HandsKept
  <1>7. Stops'
    BY <1>1, <1>2 DEF IInv, Stops, Threads
  <1>8. Alone'
    <2>1. ~web => succeeded + stopped = Cardinality(Ended)
      BY DEF IInv, Alone
    <2>2. QED
      BY <1>1, <1>3, <2>1, AloneKept
  <1>9. Cap'
    BY <1>3, <1>4, CapKept
  <1>10. Starts'
    <2>1. Launchers \cup Uncounted \subseteq Pollers
      BY DEF Launchers, Uncounted
    <2>2. Cardinality(Launchers' \cup Uncounted') + 1 <= Cardinality(Launchers \cup Uncounted)
      BY <1>4, <2>1, CountOneLess
    <2>3. /\ Cardinality(Launchers' \cup Uncounted') \in Nat
          /\ Cardinality(Launchers \cup Uncounted) \in Nat
      BY <1>4, <2>1, Counts
    <2>4. Cardinality(Uncounted') = Cardinality(Uncounted) - 1 /\ Cardinality(Uncounted) \in Nat
      <3>1. IsFiniteSet(Uncounted) /\ Cardinality(Uncounted) \in Nat
        BY <2>1, Counts
      <3>2. QED
        BY <1>4, <3>1, FS_RemoveElement
    <2>5. Others' = Others /\ Others \in Int
      <3>1. Cardinality(Pollers) \in Nat
        BY Counts
      <3>2. QED
        BY <3>1 DEF Others
    <2>6. Starts /\ started \in Nat
      BY DEF IInv, Kinds
    <2>7. QED
      BY <1>1, <2>2, <2>3, <2>4, <2>5, <2>6, RaceAssumption DEF Starts, RaceAssumption
  <1>11. Reach'
    BY <1>1, <1>2, <1>3, <1>4, ReachKept DEF Threads
  <1>12. QED
    BY <1>n, <1>v, <1>s, <1>5, <1>6, <1>7, <1>8, <1>9, <1>10, <1>11 DEF IInv

-----------------------------------------------------------------------------
(* The stop, and what ends by itself *)

LEMMA StopBeginKeeps ==
  ASSUME IInv, UNCHANGED web, StopBegin
  PROVE  IInv'
  <1> DEFINE t == Stopper
  <1>0. t \in Threads
    BY DEF Threads
  <1>1. /\ Goto(t, "stopall") /\ "stopall" \in Labels /\ pc[t] = "idle" /\ MayEnter(t)
        /\ stopping' = TRUE /\ phase' = "draining"
        /\ UNCHANGED <<convert, st, index, proc, alive, killed, launched, convs, events, byIndex,
                       nextIndex, started, succeeded, stopped, todo, cur, seen>>
    BY DEF StopBegin, Labels
  <1>2. pc' \in [Threads -> Labels] /\ pc'[t] = "stopall" /\ \A u \in Threads \ {t} : pc'[u] = pc[u]
    BY <1>0, <1>1, Moves DEF IInv, Kinds
  <1>3. /\ Created' = Created /\ Active' = Active /\ Ended' = Ended /\ Loose' = Loose
        /\ Numbered' /\ Lives' /\ Shared'
    BY <1>1, TasksKept
  <1>4. Launchers' = Launchers /\ Uncounted' = Uncounted
    BY <1>0, <1>1, Steady DEF IInv, Kinds
  <1>5. Kinds'
    BY <1>1, <1>2, <1>3 DEF IInv, Kinds
  <1>6. Hands'
    <2>1. todo[t] \subseteq Created /\ \A u \in Threads : pc[u] = "popen" => cur[u] \notin launched
      BY <1>0 DEF IInv, Hands
    <2>2. QED
      BY <1>0, <1>1, <1>3, <2>1, HandsKept
  <1>7. Stops'
    BY <1>1, <1>2, RaceAssumption DEF IInv, Stops, Threads, RaceAssumption
  <1>8. Alone'
    <2>1. ~web => succeeded + stopped = Cardinality(Ended)
      BY DEF IInv, Alone
    <2>2. QED
      BY <1>0, <1>1, <1>3, <2>1, AloneKept
  <1>9. Cap'
    <2>1. Held' \subseteq Held
      BY <1>1, <1>2 DEF Held, Threads
    <2>2. QED
      BY <1>3, <1>4, <2>1, CapKept
  <1>10. Starts'
    BY <1>1, <1>4, StartsKept
  <1>11. Reach'
    BY <1>2 DEF Reach
  <1>12. QED
    BY <1>3, <1>5, <1>6, <1>7, <1>8, <1>9, <1>10, <1>11 DEF IInv

LEMMA StopQueuedKeeps ==
  ASSUME IInv, UNCHANGED web, StopQueued
  PROVE  IInv'
  <1> DEFINE t == Stopper
             queued == {o \in Tasks : st[o] = "queued"}
  <1>0. t \in Threads
    BY DEF Threads
  <1>1. /\ Goto(t, "terminate") /\ "terminate" \in Labels /\ pc[t] = "stopall"
        /\ st' = [o \in Tasks |-> IF o \in queued THEN "stopped" ELSE st[o]]
        /\ stopped' = stopped + Cardinality(queued)
        /\ UNCHANGED <<convert, index, proc, alive, killed, launched, convs, events,
                       byIndex, nextIndex, started, succeeded, phase, stopping, todo, cur, seen>>
    BY DEF StopQueued, Labels
  <1>2. pc' \in [Threads -> Labels] /\ pc'[t] = "terminate" /\ \A u \in Threads \ {t} : pc'[u] = pc[u]
    BY <1>0, <1>1, Moves DEF IInv, Kinds
  <1>3. /\ st' \in [Tasks -> {"none", "queued", "running", "converting"} \cup Terminal]
        /\ \A o \in queued : st'[o] = "stopped"
        /\ \A o \in Tasks \ queued : st'[o] = st[o] /\ st[o] # "queued"
        /\ \A o \in queued : st[o] = "queued"
    BY <1>1 DEF IInv, Kinds, Terminal
  <1>b. /\ Created' = Created /\ Active' = Active
        /\ Ended' = Ended \cup queued /\ Ended \cap queued = {}
        /\ Ended \subseteq Tasks /\ queued \subseteq Tasks
    <2> HIDE DEF queued
    <2>1. queued \subseteq Tasks
      BY DEF queued
    <2>2. QED
      BY <1>3, <2>1 DEF Created, Active, Ended, Terminal
  <1>a. alive \subseteq Tasks /\ \A o \in alive : o \notin queued
    BY DEF IInv, Kinds, Created, Lives, Terminal
  <1>d. Cardinality(Ended') = Cardinality(Ended) + Cardinality(queued) /\ Cardinality(queued) \in Nat
    BY <1>b, CountUnion, Counts
  <1> HIDE DEF queued
  <1>4. Launchers' = Launchers /\ Uncounted' = Uncounted
    BY <1>0, <1>1, Steady DEF IInv, Kinds
  <1>n. Numbered'
    BY <1>1, <1>b, NumberedKept
  <1>v. Lives'
    BY <1>1, <1>3, <1>a, <1>b DEF IInv, Lives
  <1>s. Shared'
    BY <1>1, <1>3, <1>a, <1>b, SharedKept
  <1>5. Kinds'
    <2>1. stopped' \in Nat
      BY <1>1, <1>d DEF IInv, Kinds
    <2>2. QED
      BY <1>1, <1>2, <1>3, <1>b, <2>1 DEF IInv, Kinds
  <1>6. Hands'
    <2>1. todo[t] \subseteq Created /\ \A u \in Threads : pc[u] = "popen" => cur[u] \notin launched
      BY <1>0 DEF IInv, Hands
    <2>2. QED
      BY <1>0, <1>1, <1>b, <2>1, HandsKept
  <1>7. Stops'
    BY <1>1, <1>2, RaceAssumption DEF IInv, Stops, Threads, RaceAssumption
  <1>8. Alone'
    <2>1. ~web => succeeded + stopped = Cardinality(Ended)
      BY DEF IInv, Alone
    <2>2. Cardinality(Ended) \in Nat /\ succeeded \in Nat /\ stopped \in Nat
      BY <1>b, Counts DEF IInv, Kinds
    <2>3. ~web => succeeded' + stopped' = Cardinality(Ended')
      BY <1>1, <1>d, <2>1, <2>2
    <2>4. QED
      BY <1>0, <1>1, <2>3, AloneKept
  <1>9. Cap'
    <2>1. Held' \subseteq Held
      BY <1>1, <1>2 DEF Held, Threads
    <2>2. QED
      BY <1>b, <1>4, <2>1, CapKept
  <1>10. Starts'
    BY <1>1, <1>4, StartsKept
  <1>11. Reach'
    BY <1>2 DEF Reach
  <1>12. QED
    BY <1>n, <1>v, <1>s, <1>5, <1>6, <1>7, <1>8, <1>9, <1>10, <1>11 DEF IInv

LEMMA StopRunningKeeps ==
  ASSUME IInv, UNCHANGED web, StopRunning
  PROVE  IInv'
  <1> DEFINE t == Stopper
  <1>0. t \in Threads
    BY DEF Threads
  <1>1. /\ Goto(t, "drain") /\ "drain" \in Labels /\ pc[t] = "terminate"
        /\ killed' = killed \cup {o \in alive : st[o] = "running" /\ proc[o]}
        /\ UNCHANGED <<convert, st, index, proc, alive, launched, convs, events, byIndex,
                       nextIndex, started, succeeded, stopped, phase, stopping, todo, cur, seen>>
    BY DEF StopRunning, Labels
  <1>2. pc' \in [Threads -> Labels] /\ pc'[t] = "drain" /\ \A u \in Threads \ {t} : pc'[u] = pc[u]
    BY <1>0, <1>1, Moves DEF IInv, Kinds
  <1>a. /\ Created' = Created /\ Active' = Active /\ Ended' = Ended
        /\ killed' \subseteq alive /\ Loose' = {}
    BY <1>1 DEF IInv, Kinds, Lives, Created, Active, Ended, Loose
  <1>3. /\ Created' = Created /\ Active' = Active /\ Ended' = Ended
        /\ Numbered' /\ Lives' /\ Shared'
    <2>1. Numbered'
      BY <1>1, <1>a, NumberedKept
    <2>2. Lives'
      BY <1>1, <1>a DEF IInv, Lives
    <2>3. Shared'
      BY <1>1, <1>a, SharedKept
    <2>4. QED
      BY <1>a, <2>1, <2>2, <2>3
  <1>4. Launchers' = Launchers /\ Uncounted' = Uncounted
    BY <1>0, <1>1, Steady DEF IInv, Kinds
  <1>5. Kinds'
    BY <1>1, <1>2, <1>3, <1>a DEF IInv, Kinds
  <1>6. Hands'
    <2>1. todo[t] \subseteq Created /\ \A u \in Threads : pc[u] = "popen" => cur[u] \notin launched
      BY <1>0 DEF IInv, Hands
    <2>2. QED
      BY <1>0, <1>1, <1>3, <2>1, HandsKept
  <1>7. Stops'
    BY <1>1, <1>2, RaceAssumption DEF IInv, Stops, Threads, RaceAssumption
  <1>8. Alone'
    <2>1. ~web => succeeded + stopped = Cardinality(Ended)
      BY DEF IInv, Alone
    <2>2. QED
      BY <1>0, <1>1, <1>3, <2>1, AloneKept
  <1>9. Cap'
    <2>1. Held' \subseteq Held
      BY <1>1, <1>2 DEF Held, Threads
    <2>2. QED
      BY <1>3, <1>4, <2>1, CapKept
  <1>10. Starts'
    BY <1>1, <1>4, StartsKept
  <1>11. Reach'
    <2>1. Loose' = {}
      BY <1>a
    <2>2. Cardinality(Loose') = 0
      BY <2>1, FS_EmptySet
    <2>3. Cardinality(Launchers) <= InFlight /\ Cardinality(Launchers) \in Nat
      <3>1. Launchers \subseteq Pollers
        BY DEF Launchers
      <3>2. ~web => Launchers = {}
        BY <1>0, <1>1, RaceAssumption DEF IInv, Alone, Resting, Launchers, Launching, Threads, RaceAssumption
      <3>3. Cardinality({}) = 0
        BY FS_EmptySet
      <3>4. Cardinality(Launchers) <= Cardinality(Pollers) /\ Cardinality(Launchers) \in Nat
        BY <3>1, CountLess, Counts
      <3>5. QED
        BY <3>2, <3>3, <3>4 DEF InFlight
    <2>4. InFlight' = InFlight
      BY DEF InFlight
    <2>5. QED
      BY <1>4, <2>2, <2>3, <2>4 DEF Reach
  <1>12. QED
    BY <1>3, <1>5, <1>6, <1>7, <1>8, <1>9, <1>10, <1>11 DEF IInv

LEMMA ProcessExitsKeeps ==
  ASSUME IInv, UNCHANGED web, NEW o \in Tasks, ProcessExits(o)
  PROVE  IInv'
  <1>1. /\ alive' = alive \ {o} /\ killed' = killed \ {o}
        /\ UNCHANGED <<convert, st, index, proc, launched, convs, events, byIndex, nextIndex,
                       started, succeeded, stopped, phase, stopping, pc, todo, cur, seen>>
    BY DEF ProcessExits
  <1>2. /\ Created' = Created /\ Active' = Active /\ Ended' = Ended /\ Loose' \subseteq Loose
        /\ Held' = Held /\ Launchers' = Launchers /\ Uncounted' = Uncounted
    BY <1>1 DEF Created, Active, Ended, Loose, Held, Launchers, Launching, Uncounted
  <1>3. Kinds'
    BY <1>1, <1>2 DEF IInv, Kinds
  <1>4. Numbered'
    BY <1>1, <1>2, NumberedKept
  <1>5. Hands' /\ Lives' /\ Stops'
    BY <1>1, <1>2 DEF IInv, Hands, Lives, Stops
  <1>6. Alone'
    BY <1>1, <1>2 DEF IInv, Alone, Resting
  <1>7. Cap'
    BY <1>2, CapKept
  <1>8. Starts'
    BY <1>1, <1>2, StartsKept
  <1>9. Reach'
    BY <1>1, <1>2, ReachKept
  <1>10. Shared'
    BY <1>1, <1>2, SharedKept
  <1>11. QED
    BY <1>3, <1>4, <1>5, <1>6, <1>7, <1>8, <1>9, <1>10 DEF IInv

LEMMA ConvertEndsKeeps ==
  ASSUME IInv, UNCHANGED web, NEW k \in Tasks, ConvertEnds(k)
  PROVE  IInv'
  <1>1. /\ convs[k] > 0
        /\ convs' = [convs EXCEPT ![k] = @ - 1]
        /\ events' = [events EXCEPT ![k] = @ + 1]
        /\ UNCHANGED <<convert, st, index, proc, alive, killed, launched, byIndex, nextIndex,
                       started, succeeded, stopped, phase, stopping, pc, todo, cur, seen>>
    BY DEF ConvertEnds
  <1>2. /\ Created' = Created /\ Active' = Active /\ Ended' = Ended /\ Loose' = Loose
        /\ Held' = Held /\ Launchers' = Launchers /\ Uncounted' = Uncounted
    BY <1>1 DEF Created, Active, Ended, Loose, Held, Launchers, Launching, Uncounted
  <1>e. /\ events' \in [Tasks -> Nat] /\ convs' \in [Tasks -> Nat]
        /\ \A j \in Tasks : events'[j] > 0 \/ convs'[j] > 0 => events[j] > 0 \/ convs[j] > 0
    BY <1>1 DEF IInv, Kinds
  <1>3. Kinds'
    BY <1>1, <1>2, <1>e DEF IInv, Kinds
  <1>4. Numbered'
    BY <1>1, <1>2, <1>e DEF IInv, Numbered
  <1>5. Hands' /\ Lives' /\ Stops'
    BY <1>1, <1>2 DEF IInv, Hands, Lives, Stops
  <1>6. Alone'
    BY <1>1, <1>2 DEF IInv, Alone, Resting
  <1>7. Cap'
    BY <1>2, CapKept
  <1>8. Starts'
    BY <1>1, <1>2, StartsKept
  <1>9. Reach'
    BY <1>1, <1>2, ReachKept
  <1>10. Shared'
    BY <1>1, <1>2, SharedKept
  <1>11. QED
    BY <1>3, <1>4, <1>5, <1>6, <1>7, <1>8, <1>9, <1>10 DEF IInv

-----------------------------------------------------------------------------
(* The invariant is inductive *)

LEMMA InitIInv ==
  ASSUME Init
  PROVE  IInv
  <1>1. /\ Created = {} /\ Active = {} /\ Ended = {} /\ Held = {} /\ Launchers = {}
        /\ Uncounted = {} /\ Loose = {}
    BY DEF Init, Created, Active, Ended, Held, Launchers, Launching, Uncounted, Loose, Threads, Terminal
  <1>2. Cardinality({}) = 0 /\ Cardinality(Pollers) \in Nat
    BY FS_EmptySet, Counts
  <1>3. Kinds
    <2>1. alive = {} /\ killed = {} /\ launched = {}
      BY DEF Init
    <2>2. nextIndex \in 1 .. MaxTasks + 1 /\ 0 \in 0 .. MaxTasks
      BY RaceAssumption DEF Init, RaceAssumption
    <2>3. /\ index \in [Tasks -> 0 .. MaxTasks] /\ byIndex \in [Tasks -> 0 .. MaxTasks]
          /\ cur \in [Threads -> 0 .. MaxTasks] /\ seen \in [Threads -> 0 .. MaxTasks]
      BY <2>2 DEF Init
    <2>4. /\ pc \in [Threads -> Labels] /\ todo \in [Threads -> SUBSET Tasks]
          /\ st \in [Tasks -> {"none", "queued", "running", "converting"} \cup Terminal]
          /\ proc \in [Tasks -> BOOLEAN]
          /\ convs \in [Tasks -> Nat] /\ events \in [Tasks -> Nat]
      BY DEF Init, Labels
    <2>5. /\ web \in BOOLEAN /\ convert \in BOOLEAN /\ stopping \in BOOLEAN
          /\ started \in Nat /\ succeeded \in Nat /\ stopped \in Nat
          /\ phase \in {"running", "draining", "done"}
      BY DEF Init
    <2>6. QED
      BY <2>1, <2>2, <2>3, <2>4, <2>5 DEF Kinds
  <1>4. Numbered
    BY <1>1, RaceAssumption DEF Init, Numbered, RaceAssumption
  <1>5. Hands /\ Lives
    BY <1>1 DEF Init, Hands, Lives
  <1>6. Stops
    BY DEF Init, Stops, Threads
  <1>7. Alone
    BY <1>1, <1>2 DEF Init, Alone, Resting
  <1>8. Cap
    <2>1. Active \cup Held = {}
      BY <1>1
    <2>2. QED
      BY <1>1, <1>2, <2>1, RaceAssumption DEF Cap, Others, RaceAssumption
  <1>9. Starts
    <2>1. Launchers \cup Uncounted = {} /\ launched = {} /\ started = 0
      BY <1>1 DEF Init
    <2>2. QED
      BY <1>1, <1>2, <2>1, RaceAssumption DEF Starts, Others, RaceAssumption
  <1>10. Reach /\ Shared
    BY DEF Init, Reach, Shared, Threads
  <1>11. QED
    BY <1>3, <1>4, <1>5, <1>6, <1>7, <1>8, <1>9, <1>10 DEF IInv

LEMMA StepKeeps ==
  ASSUME IInv, UNCHANGED web, NEW t \in Threads, Step(t)
  PROVE  IInv'
  <1>1. CASE TickBegin(t) \/ DrainEnd(t) \/ CheckEnd(t) \/ TickEnd(t)
    BY <1>1, TickBeginKeeps, DrainEndKeeps, CheckEndKeeps, TickEndKeeps
  <1>2. CASE CheckNext(t) \/ PollReturns(t) \/ MarkEnded(t) \/ StartConvert(t)
    BY <1>2, CheckNextKeeps, PollReturnsKeeps, MarkEndedKeeps, StartConvertKeeps
  <1>3. CASE Refill(t) \/ CreateWorker(t) \/ PopenReturns(t) \/ CountStart(t)
    BY <1>3, RefillKeeps, CreateWorkerKeeps, PopenReturnsKeeps, CountStartKeeps
  <1>4. CASE \E k \in Tasks : DrainEvent(t, k)
    BY <1>4, DrainEventKeeps
  <1>5. QED
    BY <1>1, <1>2, <1>3, <1>4 DEF Step

LEMMA IInvStep ==
  ASSUME IInv, [Next]_vars
  PROVE  IInv'
  <1>1. CASE UNCHANGED vars
    <2>1. UNCHANGED <<web, convert, st, index, proc, alive, killed, launched, convs, events,
                      byIndex, nextIndex, started, succeeded, stopped, phase, stopping,
                      pc, todo, cur, seen>>
      BY <1>1 DEF vars, shared
    <2>2. /\ Created' = Created /\ Active' = Active /\ Ended' = Ended /\ Loose' = Loose
          /\ Held' = Held /\ Launchers' = Launchers /\ Uncounted' = Uncounted
      BY <2>1 DEF Created, Active, Ended, Loose, Held, Launchers, Launching, Uncounted
    <2>3. Kinds' /\ Numbered' /\ Hands' /\ Lives' /\ Stops' /\ Shared'
      BY <2>1, <2>2 DEF IInv, Kinds, Numbered, Hands, Lives, Stops, Shared
    <2>4. Alone'
      BY <2>1, <2>2 DEF IInv, Alone, Resting
    <2>5. Cap' /\ Starts' /\ Reach'
      BY <2>1, <2>2, CapKept, StartsKept, ReachKept
    <2>6. QED
      BY <2>3, <2>4, <2>5 DEF IInv
  <1>2. CASE Next
    <2>1. UNCHANGED web
      BY <1>2 DEF Next
    <2>2. CASE \E t \in Threads : Step(t)
      BY <2>1, <2>2, StepKeeps
    <2>3. CASE StopBegin \/ StopQueued \/ StopRunning
      BY <2>1, <2>3, StopBeginKeeps, StopQueuedKeeps, StopRunningKeeps
    <2>4. CASE \E o \in Tasks : ProcessExits(o) \/ ConvertEnds(o)
      BY <2>1, <2>4, ProcessExitsKeeps, ConvertEndsKeeps
    <2>5. QED
      BY <1>2, <2>2, <2>3, <2>4 DEF Next
  <1>3. QED
    BY <1>1, <1>2

\* What overlapping polls, the stop and the ends of processes keep of one
\* runner, step by step (poll and stop_run).
THEOREM Inductive == Spec => []IInv
  BY InitIInv, IInvStep, PTL DEF Spec

-----------------------------------------------------------------------------
(* What follows *)

LEMMA LimitsFollow ==
  ASSUME IInv
  PROVE  WithinLimits
  <1>1. /\ Active \cup Held \subseteq Tasks /\ Launchers \cup Uncounted \subseteq Pollers
        /\ Launchers \subseteq Pollers /\ Uncounted \subseteq Pollers
    <2>1. \A u \in Pollers : pc[u] \in {"poll", "convert"} => cur[u] \in Tasks
      BY DEF IInv, Kinds, Hands, Threads, Created
    <2>2. QED
      BY <2>1 DEF Active, Held, Launchers, Uncounted
  <1>2. /\ Cardinality(Active \cup Held) \in Nat /\ Cardinality(Launchers) \in Nat
        /\ Cardinality(Launchers \cup Uncounted) \in Nat /\ Cardinality(Uncounted) \in Nat
        /\ Cardinality(Active) \in Nat /\ Cardinality(Pollers) \in Nat
    BY <1>1, Counts
  <1>3. Others \in Int
    BY <1>2 DEF Others
  <1>4. CapRespected
    <2>1. Cardinality(Active) <= Cardinality(Active \cup Held)
      BY <1>1, CountLess
    <2>2. Cap
      BY DEF IInv
    <2>3. QED
      BY <1>2, <1>3, <2>1, <2>2, RaceAssumption DEF Cap, CapRespected, RaceAssumption
  <1>5. Starts /\ started \in Nat
    BY DEF IInv, Kinds
  <1>6. LaunchedWithinCount
    <2>1. Cardinality(Uncounted) <= Cardinality(Launchers \cup Uncounted)
      BY <1>1, CountLess
    <2>2. QED
      BY <1>2, <1>3, <1>5, <2>1, RaceAssumption DEF Starts, LaunchedWithinCount, RaceAssumption
  <1>7. started \in 0 .. Count + Others
    BY <1>2, <1>3, <1>5, RaceAssumption DEF Starts, RaceAssumption
  <1>8. TypeOK
    BY <1>7 DEF IInv, Kinds, TypeOK
  <1>9. QED
    BY <1>4, <1>6, <1>8 DEF WithinLimits

\* However many threads poll, in any interleaving: never more workers are active
\* than there are slots, and never more processes are started than the plan
\* has tasks, but for one for each other polling thread of the web console.
THEOREM PollsStayWithinLimits == Spec => []WithinLimits
  <1>1. IInv => WithinLimits
    BY LimitsFollow
  <1>2. QED
    BY <1>1, Inductive, PTL

\* In a terminal front end, where ticks do not overlap, every worker that has
\* ended is counted, and only once.
THEOREM TerminalCountsAreExact == Spec => []CountedOnce
  <1>1. IInv => CountedOnce
    BY DEF IInv, Alone, CountedOnce, Ended
  <1>2. QED
    BY <1>1, Inductive, PTL

\* When stop_run has returned, the processes of active workers that were not
\* told to terminate are those the polls were starting meanwhile; the others
\* that run untold are of workers that share their number.
THEOREM StopIsComplete == Spec => []StopReachesAll
  <1>1. ASSUME IInv PROVE StopReachesAll
    <2>1. Loose \subseteq Tasks /\ Launchers \subseteq Pollers
      BY <1>1 DEF IInv, Kinds, Created, Loose, Launchers
    <2>2. /\ Cardinality(Loose) \in Nat /\ Cardinality(Launchers) \in Nat
          /\ Cardinality(Pollers) \in Nat
      BY <2>1, Counts
    <2>3. pc[Stopper] = "over" => Cardinality(Loose) <= InFlight
      BY <1>1, <2>2 DEF IInv, Reach, InFlight
    <2>4. QED
      BY <1>1, <2>3 DEF IInv, Shared, Loose, StopReachesAll
  <1>2. QED
    BY <1>1, Inductive, PTL

-----------------------------------------------------------------------------
(* MailSupervisor *)

Done == sso \cup creds
Holds(c) == child[c].at \in {"hold", "persist"}
Between(places) == sup.at \in places

\* Its own processes run in an epoch only.
OwnInEpoch == \A c \in Children : Own(c) => Between({"epoch", "drain"})

\* No file and no process knows an address that the master does not list.
PlannedOnly ==
  /\ \A e \in Emails : work[e] # None \/ used[e] # None => e \in Plan
  /\ \A c \in Children : child[c].at \in {"hold", "persist", "sso"} => child[c].box \in Plan
  /\ sup.pick \subseteq Plan

NoOrphans == \A c \in Children : ~child[c].orphan

\* What the files list between the writes of an epoch.
Rewritten ==
  /\ At("rebuild") => \A e \in Plan : sup.records[e] = stored[e] /\ master[e] = stored[e]
  /\ At("clear") => \A e \in Plan : master[e] = stored[e] /\ work[e] \in {None, stored[e]}

\* The two halves of TokensKept.
RowsNewest == \A e \in Plan : Newest(e) = stored[e]
Unwritten ==
  \A e \in Emails : stored[e] = issued[e] \/ e \in dropped \/ \E c \in Children : e \in InHand(c)

\* A reservation is listed by the ledger and nobody else has it; an unwritten
\* token is the newest of its address.
HeldOnce ==
  /\ \A c \in Children : Holds(c) => used[child[c].box] # None /\ child[c].box \notin Done
  /\ \A c, d \in Children : Holds(c) /\ Holds(d) /\ child[c].box = child[d].box => c = d
  /\ \A c \in Children : child[c].at = "sso" => child[c].box \in sso
  /\ \A c \in Children : child[c].at = "persist" => child[c].token = issued[child[c].box]

\* What an epoch offers has no result yet.
OnlyNew ==
  /\ Between({"rebuild", "clear"}) => sup.pick \cap Done = {}
  /\ At("clear") => \A e \in Emails : work[e] # None => e \in sup.pick
  /\ Between({"launch", "epoch", "drain"})
       => \A e \in Emails : work[e] # None /\ used[e] = None => e \notin Done

Undisturbed == NoOrphans /\ RowsNewest /\ Unwritten /\ Rewritten /\ HeldOnce /\ OnlyNew
DrainInv == SupervisorTypeOK /\ OwnInEpoch /\ PlannedOnly /\ (~orphaned => Undisturbed)

-----------------------------------------------------------------------------
Row == [Emails -> Tokens \cup {None}]

LEMMA SupervisorConstants ==
  /\ None \notin Emails /\ None \notin Tokens /\ 0 \in Tokens
  /\ 0 \in 0 .. Cycle - 1 /\ Cycle \in Nat \ {0}
  /\ MaxToken \in Nat /\ MaxKills \in Nat /\ MaxFaults \in Nat
  /\ IsFiniteSet(Emails) /\ Cardinality(Emails) \in Nat
  BY SupervisorAssumption, FS_CardinalityType DEF SupervisorAssumption, Tokens

LEMMA DownTyped == Down \in Sup /\ NoChild \in Child
  <1>1. Down.records \in Row /\ [e \in Emails |-> None] \in Row
    BY DEF Down, Row
  <1>2. QED
    BY <1>1, SupervisorConstants DEF Down, Sup, NoChild, Child, Row

LEMMA TypesUnfold ==
  ASSUME SupervisorTypeOK
  PROVE  /\ master \in Row /\ work \in Row /\ used \in Row
         /\ issued \in [Emails -> Tokens] /\ stored \in [Emails -> Tokens]
         /\ dropped \subseteq Emails /\ order \in Ordering
         /\ sso \subseteq Emails /\ creds \subseteq Emails
         /\ state \in [status : Status, epoch : 0 .. Cycle - 1]
         /\ sup \in Sup /\ child \in [Children -> Child] /\ orphaned \in BOOLEAN
         /\ kills \in 0 .. MaxKills /\ faults \in 0 .. MaxFaults
  BY DEF SupervisorTypeOK, Row

LEMMA TypesFold ==
  ASSUME master' \in Row, work' \in Row, used' \in Row,
         issued' \in [Emails -> Tokens], stored' \in [Emails -> Tokens],
         dropped' \subseteq Emails, order' \in Ordering,
         sso' \subseteq Emails, creds' \subseteq Emails,
         state' \in [status : Status, epoch : 0 .. Cycle - 1],
         sup' \in Sup, child' \in [Children -> Child], orphaned' \in BOOLEAN,
         kills' \in 0 .. MaxKills, faults' \in 0 .. MaxFaults
  PROVE  SupervisorTypeOK'
  BY DEF SupervisorTypeOK, Row

LEMMA PlanTyped ==
  ASSUME SupervisorTypeOK
  PROVE  Plan \subseteq Emails
  <1>1. order \in Ordering
    BY TypesUnfold
  <1>2. PICK n \in Nat : order \in [1 .. n -> Emails]
    BY <1>1, SupervisorConstants DEF Ordering
  <1>3. QED
    BY <1>2 DEF Plan, ToSet

\* Where no registration process of it can be, none is alive.
LEMMA NoneAlive ==
  ASSUME DrainInv, ~orphaned, sup.at \notin {"epoch", "drain"}
  PROVE  \A c \in Children : child[c].at = "none"
  BY DEF DrainInv, Undisturbed, NoOrphans, OwnInEpoch, Own, Alive, Between

\* A reconciliation writes the newest rows into the master file.
LEMMA LatestRows ==
  ASSUME DrainInv
  PROVE  /\ Latest \in Row
         /\ ~orphaned => \A e \in Plan : Latest[e] = stored[e] /\ Newest(e) = stored[e]
  <1>1. master \in Row /\ work \in Row /\ used \in Row /\ Plan \subseteq Emails
    BY TypesUnfold, PlanTyped DEF DrainInv
  <1>2. Latest \in Row
    BY <1>1 DEF Latest, Newest, Row
  <1>3. ~orphaned => \A e \in Plan : Latest[e] = stored[e] /\ Newest(e) = stored[e]
    BY <1>1 DEF DrainInv, Undisturbed, RowsNewest, Latest
  <1>4. QED
    BY <1>2, <1>3

LEMMA StillNewest ==
  ASSUME DrainInv, UNCHANGED <<order, work, used, stored, orphaned>>, master' \in {master, Latest}
  PROVE  (~orphaned => RowsNewest') /\ master' \in Row
  <1>1. master' \in Row
    BY LatestRows, TypesUnfold DEF DrainInv
  <1>2. ASSUME ~orphaned, NEW e \in Plan
        PROVE  Newest(e)' = stored[e]
    <2>1. Latest[e] = stored[e] /\ Newest(e) = stored[e]
      BY <1>2, LatestRows
    <2>2. QED
      BY <2>1 DEF Newest
  <1>3. QED
    BY <1>1, <1>2 DEF RowsNewest, Plan

LEMMA StillUnwritten ==
  ASSUME DrainInv, ~orphaned, UNCHANGED <<issued, stored>>, dropped \subseteq dropped',
         \A c \in Children : InHand(c) \subseteq dropped' \cup InHand(c)'
  PROVE  Unwritten'
  BY DEF DrainInv, Undisturbed, Unwritten

\* Nothing but the master file is written, and no process moves.
LEMMA StillKept ==
  ASSUME DrainInv, ~orphaned, master' \in {master, Latest},
         UNCHANGED <<order, work, used, issued, stored, dropped, child, orphaned>>
  PROVE  RowsNewest' /\ Unwritten'
  <1>1. \A c \in Children : InHand(c)' = InHand(c)
    BY DEF InHand
  <1>2. QED
    BY <1>1, StillNewest, StillUnwritten

-----------------------------------------------------------------------------
(* The supervisor's steps. *)

\* A step within an iteration that writes no more than the master file.
LEMMA QuietStep ==
  ASSUME DrainInv,
         UNCHANGED <<order, work, used, issued, stored, dropped, sso, creds, child, orphaned, kills, faults>>,
         master' \in {master, Latest},
         state' \in [status : Status, epoch : 0 .. Cycle - 1],
         sup' \in Sup, sup'.pick \subseteq Plan, OwnInEpoch',
         sup'.at \in {"rebuild", "clear"}
           => /\ sup'.at = sup.at /\ sup'.records = sup.records /\ sup'.pick = sup.pick
              /\ master' = master,
         sup'.at \in {"launch", "epoch", "drain"} => sup.at \in {"launch", "epoch", "drain"}
  PROVE  DrainInv'
  <1>1. SupervisorTypeOK'
    BY TypesUnfold, TypesFold, StillNewest DEF DrainInv
  <1>2. PlannedOnly'
    BY DEF DrainInv, PlannedOnly, Plan
  <1>3. ASSUME ~orphaned PROVE Undisturbed'
    <2>1. RowsNewest' /\ Unwritten' /\ NoOrphans'
      BY <1>3, StillKept DEF DrainInv, Undisturbed, NoOrphans
    <2>2. Rewritten'
      BY <1>3 DEF DrainInv, Undisturbed, Rewritten, At, Plan
    <2>3. HeldOnce'
      BY <1>3 DEF DrainInv, Undisturbed, HeldOnce, Holds, Done
    <2>4. OnlyNew'
      BY <1>3 DEF DrainInv, Undisturbed, OnlyNew, Between, At, Done
    <2>5. QED
      BY <2>1, <2>2, <2>3, <2>4 DEF Undisturbed
  <1>4. QED
    BY <1>1, <1>2, <1>3 DEF DrainInv

LEMMA BootKeeps ==
  ASSUME DrainInv, Boot
  PROVE  DrainInv'
  <1>1. sup' = [Down EXCEPT !.at = "loop", !.epoch = state.epoch]
        /\ state' = [state EXCEPT !.status = "running"] /\ master' = Latest /\ At("down")
        /\ UNCHANGED <<order, work, used, issued, stored, dropped, sso, creds, child, orphaned, kills, faults>>
    BY DEF Boot, Reconcile, output, tokens
  <1>2. state \in [status : Status, epoch : 0 .. Cycle - 1]
    BY TypesUnfold DEF DrainInv
  <1>3. state' \in [status : Status, epoch : 0 .. Cycle - 1]
    BY <1>1, <1>2 DEF Status
  <1>4. sup' \in Sup /\ sup'.pick = {} /\ sup'.at = "loop"
    <2>1. Down \in Sup /\ state.epoch \in 0 .. Cycle - 1
      BY <1>2, DownTyped
    <2>2. [Down EXCEPT !.at = "loop"] \in Sup
      BY <2>1 DEF Sup
    <2>3. [Down EXCEPT !.at = "loop", !.epoch = state.epoch] \in Sup
      BY <2>1, <2>2 DEF Sup
    <2>4. QED
      BY <1>1, <2>3 DEF Down
  <1>5. OwnInEpoch'
    BY <1>1 DEF DrainInv, OwnInEpoch, Own, Alive, Between, At
  <1>6. QED
    BY <1>1, <1>3, <1>4, <1>5, QuietStep

LEMMA RequestStopKeeps ==
  ASSUME DrainInv, RequestStop
  PROVE  DrainInv'
  <1>1. sup' = [sup EXCEPT !.stop = TRUE]
        /\ UNCHANGED <<master, order, work, used, issued, stored, dropped, sso, creds, state, child, orphaned, kills, faults>>
    BY DEF RequestStop, rows, tokens, output
  <1>2. sup \in Sup /\ state \in [status : Status, epoch : 0 .. Cycle - 1]
    BY TypesUnfold DEF DrainInv
  <1>3. sup' \in Sup /\ sup'.at = sup.at /\ sup'.records = sup.records /\ sup'.pick = sup.pick
    BY <1>1, <1>2 DEF Sup
  <1>4. OwnInEpoch' /\ sup'.pick \subseteq Plan
    BY <1>1, <1>3 DEF DrainInv, OwnInEpoch, Own, Alive, Between, PlannedOnly
  <1>5. QED
    BY <1>1, <1>2, <1>3, <1>4, QuietStep

\* The configuration is patched, the epoch ends, drains, has drained.
LEMMA EpochMoves ==
  ASSUME DrainInv, PatchConfig \/ EpochDone \/ Drain \/ Drained
  PROVE  DrainInv'
  <1>1. sup.at \in {"launch", "epoch", "drain"}
        /\ UNCHANGED <<master, order, work, used, issued, stored, dropped, sso, creds, state, child, orphaned, kills, faults>>
    BY DEF PatchConfig, EpochDone, Drain, Drained, At, rows, tokens, output
  <1>2. sup \in Sup /\ state \in [status : Status, epoch : 0 .. Cycle - 1]
    BY TypesUnfold DEF DrainInv
  <1>3. PICK at \in {"epoch", "after", "drain"} : sup' = [sup EXCEPT !.at = at]
    BY DEF PatchConfig, EpochDone, Drain, Drained
  <1>4. sup' \in Sup /\ sup'.at = at /\ sup'.pick = sup.pick
    BY <1>2, <1>3 DEF Sup
  <1>5. OwnInEpoch'
    <2>1. CASE at = "after"
      <3>1. \A c \in Children : ~Own(c)
        BY <1>2, <1>3, <2>1 DEF PatchConfig, EpochDone, Drain, Drained, Sup
      <3>2. QED
        BY <1>1, <3>1 DEF OwnInEpoch, Own, Alive
    <2>2. CASE at # "after"
      BY <1>4, <2>2 DEF OwnInEpoch, Between
    <2>3. QED
      BY <2>1, <2>2
  <1>6. sup'.pick \subseteq Plan
    BY <1>4 DEF DrainInv, PlannedOnly
  <1>7. QED
    BY <1>1, <1>2, <1>4, <1>5, <1>6, QuietStep

AllKilled == sup' = Down /\ child' = [c \in Children |-> NoChild] /\ UNCHANGED orphaned

LEMMA ChildrenLeft ==
  ASSUME SupervisorTypeOK, Leave \/ AllKilled
  PROVE  /\ child' \in [Children -> Child] /\ orphaned' \in BOOLEAN
         /\ \A c \in Children : child'[c].at = "none" \/ child'[c].orphan
         /\ \A c \in Children : child'[c].at \in {"hold", "persist", "sso"}
              => child[c].at = child'[c].at /\ child'[c].box = child[c].box
         /\ ~orphaned' => ~orphaned
         /\ ~orphaned' => \A c \in Children : child'[c].at = "none" /\ ~child'[c].orphan
  <1>1. child \in [Children -> Child] /\ orphaned \in BOOLEAN
    BY TypesUnfold
  <1>2. CASE Leave
    <2>1. child' = [c \in Children |-> [child[c] EXCEPT !.orphan = Alive(c)]]
          /\ orphaned' = (orphaned \/ \E c \in Children : Alive(c))
      BY <1>2 DEF Leave
    <2>2. \A c \in Children : /\ child'[c] = [child[c] EXCEPT !.orphan = Alive(c)]
                              /\ child[c] \in Child /\ Alive(c) \in BOOLEAN
      BY <1>1, <2>1 DEF Alive
    <2>3. \A c \in Children : child'[c] \in Child /\ child'[c].at = child[c].at
                              /\ child'[c].box = child[c].box /\ child'[c].orphan = Alive(c)
      <3> SUFFICES ASSUME NEW c \in Children
                   PROVE  child'[c] \in Child /\ child'[c].at = child[c].at
                          /\ child'[c].box = child[c].box /\ child'[c].orphan = Alive(c)
        OBVIOUS
      <3> DEFINE b == Alive(c)
      <3>1. child'[c] = [child[c] EXCEPT !.orphan = b] /\ child[c] \in Child /\ b \in BOOLEAN
        BY <2>2
      <3> HIDE DEF b
      <3>2. child'[c] \in Child /\ child'[c].at = child[c].at
            /\ child'[c].box = child[c].box /\ child'[c].orphan = b
        BY <3>1 DEF Child
      <3>3. QED
        BY <3>2 DEF b
    <2>4. child' \in [Children -> Child]
      BY <2>1, <2>3
    <2>5. orphaned' \in BOOLEAN
      BY <1>1, <2>1
    <2>6. QED
      BY <2>1, <2>3, <2>4, <2>5 DEF Alive
  <1>3. CASE AllKilled
    <2>1. child' = [c \in Children |-> NoChild] /\ orphaned' = orphaned
      BY <1>3 DEF AllKilled
    <2>2. NoChild \in Child /\ NoChild.at = "none" /\ ~NoChild.orphan
      BY DownTyped DEF NoChild
    <2>3. QED
      BY <1>1, <2>1, <2>2
  <1>4. QED
    BY <1>2, <1>3

\* The supervisor ends, in order or not; what is alive is an orphan then.
LEMMA Left ==
  ASSUME DrainInv, UNCHANGED <<order, work, used, issued, stored, sso, creds>>,
         master' \in {master, Latest}, dropped \subseteq dropped', dropped' \subseteq Emails,
         state' \in [status : Status, epoch : 0 .. Cycle - 1],
         kills' \in 0 .. MaxKills, faults' \in 0 .. MaxFaults,
         Leave \/ (AllKilled /\ \A c \in Children : InHand(c) \subseteq dropped')
  PROVE  DrainInv'
  <1>1. sup' = Down /\ Down \in Sup /\ Down.at = "down" /\ Down.pick = {}
    BY DownTyped DEF Leave, AllKilled, Down
  <1>2. child \in [Children -> Child] /\ orphaned \in BOOLEAN
    BY TypesUnfold DEF DrainInv
  <1>3. child' \in [Children -> Child] /\ orphaned' \in BOOLEAN
    BY ChildrenLeft DEF DrainInv
  <1>4. \A c \in Children : child'[c].at = "none" \/ child'[c].orphan
    BY ChildrenLeft DEF DrainInv
  <1>5. \A c \in Children : child'[c].at \in {"hold", "persist", "sso"}
          => child[c].at = child'[c].at /\ child'[c].box = child[c].box
    BY ChildrenLeft DEF DrainInv
  <1>6. master' \in Row
    BY LatestRows, TypesUnfold DEF DrainInv
  <1>7. SupervisorTypeOK'
    BY <1>1, <1>3, <1>6, TypesUnfold, TypesFold DEF DrainInv
  <1>8. OwnInEpoch'
    BY <1>4 DEF OwnInEpoch, Own, Alive
  <1>9. PlannedOnly'
    BY <1>1, <1>5 DEF DrainInv, PlannedOnly, Plan
  <1>10. ASSUME ~orphaned' PROVE Undisturbed'
    <2>1. ~orphaned /\ orphaned' = orphaned
      BY <1>2, <1>3, <1>10, ChildrenLeft DEF DrainInv
    <2>2. RowsNewest' /\ Unwritten'
      <3>1. \A c \in Children : InHand(c) \subseteq dropped' \cup InHand(c)'
        BY <1>2, <1>10 DEF Leave, Alive, InHand
      <3>2. QED
        BY <2>1, <3>1, StillNewest, StillUnwritten
    <2>3. NoOrphans' /\ HeldOnce'
      BY ChildrenLeft, <1>10 DEF DrainInv, NoOrphans, HeldOnce, Holds
    <2>4. Rewritten' /\ OnlyNew'
      BY <1>1 DEF Rewritten, OnlyNew, At, Between
    <2>5. QED
      BY <2>2, <2>3, <2>4 DEF Undisturbed
  <1>11. QED
    BY <1>7, <1>8, <1>9, <1>10 DEF DrainInv

LEMMA EndsKeeps ==
  ASSUME DrainInv, NEW status \in Status, Ends(status), master' = Latest,
         UNCHANGED <<order, work, used, issued, stored, dropped, sso, creds, kills>>,
         faults' \in 0 .. MaxFaults
  PROVE  DrainInv'
  <1>1. dropped \subseteq Emails /\ sup.epoch \in 0 .. Cycle - 1 /\ kills \in 0 .. MaxKills
    BY TypesUnfold DEF DrainInv, Sup
  <1>2. state' \in [status : Status, epoch : 0 .. Cycle - 1]
    BY <1>1 DEF Ends
  <1>3. QED
    BY <1>1, <1>2, Left DEF Ends

LEMMA FaultTyped ==
  ASSUME SupervisorTypeOK
  PROVE  (UNCHANGED faults \/ Fault) => faults' \in 0 .. MaxFaults
  BY TypesUnfold, SupervisorConstants DEF Fault

LEMMA LoopKeeps ==
  ASSUME DrainInv, LoopTop \/ StopAtLoop
  PROVE  DrainInv'
  <1>1. At("loop") /\ UNCHANGED <<order, work, used, issued, stored, dropped, sso, creds, kills, faults>>
        /\ faults' \in 0 .. MaxFaults
    BY FaultTyped DEF LoopTop, StopAtLoop, AllDone, Reconcile, output, tokens, DrainInv
  <1>2. CASE AllDone \/ (master' = Latest /\ Ends("stopped"))
    BY <1>1, <1>2, EndsKeeps DEF AllDone, Status
  <1>3. CASE master' = Latest /\ sup' = [sup EXCEPT !.at = "convert", !.todo = Convert]
             /\ UNCHANGED <<state, child, orphaned>>
    <2>1. sup \in Sup /\ Convert \subseteq Emails /\ state \in [status : Status, epoch : 0 .. Cycle - 1]
      BY TypesUnfold DEF DrainInv, Convert
    <2>2. sup' = [sup EXCEPT !.at = "convert", !.todo = Convert] /\ master' = Latest
      BY <1>3
    <2>3. [sup EXCEPT !.at = "convert"] \in Sup
      BY <2>1 DEF Sup
    <2>4. sup' \in Sup /\ sup'.at = "convert" /\ sup'.pick = sup.pick
      BY <2>1, <2>2, <2>3 DEF Sup
    <2>5. OwnInEpoch' /\ sup'.pick \subseteq Plan
      BY <1>1, <1>3, <2>4 DEF DrainInv, OwnInEpoch, Own, Alive, Between, At, PlannedOnly
    <2>6. QED
      BY <1>1, <1>3, <2>1, <2>2, <2>4, <2>5, QuietStep
  <1>4. CASE LoopTop
    <2>1. \/ AllDone
          \/ /\ Reconcile([sup EXCEPT !.at = "convert", !.todo = Convert])
             /\ UNCHANGED <<state, child, orphaned>>
      BY <1>4 DEF LoopTop
    <2>2. QED
      BY <1>2, <1>3, <2>1 DEF Reconcile
  <1>5. QED
    BY <1>2, <1>4 DEF StopAtLoop

LEMMA ConvertKeeps ==
  ASSUME DrainInv, ConvertOne
  PROVE  DrainInv'
  <1>1. At("convert")
        /\ UNCHANGED <<master, order, work, used, issued, stored, dropped, sso, state, child, orphaned, kills, faults>>
    BY DEF ConvertOne, rows, tokens
  <1>2. PICK e \in sup.todo : creds' \in CommandOutcomes(e) /\ sup' = [sup EXCEPT !.todo = @ \ {e}]
    BY DEF ConvertOne
  <1>3. sup \in Sup /\ sup.todo \subseteq Emails /\ creds \subseteq Emails
    BY TypesUnfold DEF DrainInv, Sup
  <1>4. sup' \in Sup /\ sup'.at = "convert" /\ sup'.pick = sup.pick
    BY <1>1, <1>2, <1>3 DEF Sup, At
  <1>5. creds' \subseteq Emails
    BY <1>2, <1>3 DEF CommandOutcomes
  <1>6. SupervisorTypeOK'
    BY <1>1, <1>4, <1>5, TypesUnfold, TypesFold DEF DrainInv
  <1>7. OwnInEpoch' /\ PlannedOnly'
    BY <1>1, <1>4 DEF DrainInv, OwnInEpoch, PlannedOnly, Own, Alive, Between, At, Plan
  <1>8. ASSUME ~orphaned PROVE Undisturbed'
    <2>1. \A c \in Children : child'[c].at = "none"
      BY <1>1, <1>8, NoneAlive DEF At
    <2>2. RowsNewest' /\ Unwritten' /\ NoOrphans'
      BY <1>1, <1>8, StillKept DEF DrainInv, Undisturbed, NoOrphans
    <2>3. HeldOnce' /\ Rewritten' /\ OnlyNew'
      BY <1>4, <2>1 DEF HeldOnce, Holds, Rewritten, OnlyNew, At, Between
    <2>4. QED
      BY <2>2, <2>3 DEF Undisturbed
  <1>9. QED
    BY <1>1, <1>6, <1>7, <1>8 DEF DrainInv

\* What is selected is planned and has no result.
LEMMA SelectedNew ==
  ASSUME SupervisorTypeOK
  PROVE  Selected \subseteq Plan /\ Selected \cap Done = {} /\ Selected \subseteq Emails
  <1>1. Selected \subseteq Pending
    BY DEF Selected, Turn
  <1>2. QED
    BY <1>1, PlanTyped DEF Pending, Complete, Convert, Done

LEMMA AfterConvertKeeps ==
  ASSUME DrainInv, AfterConvert
  PROVE  DrainInv'
  <1>1. At("convert") /\ UNCHANGED <<order, work, used, issued, stored, dropped, sso, creds, kills, faults>>
        /\ faults' \in 0 .. MaxFaults /\ master' = Latest
    BY FaultTyped DEF AfterConvert, AllDone, output, tokens, DrainInv
  <1>2. CASE AllDone \/ Ends("stopped")
    BY <1>1, <1>2, EndsKeeps DEF AllDone, Status
  <1>3. sup \in Sup /\ state \in [status : Status, epoch : 0 .. Cycle - 1]
    BY TypesUnfold DEF DrainInv
  <1>4. CASE sup' = [sup EXCEPT !.at = "after"] /\ UNCHANGED <<state, child, orphaned>>
    <2>1. sup' \in Sup /\ sup'.at = "after" /\ sup'.pick = sup.pick
      BY <1>3, <1>4 DEF Sup
    <2>2. OwnInEpoch' /\ sup'.pick \subseteq Plan
      BY <1>1, <1>4, <2>1 DEF DrainInv, OwnInEpoch, Own, Alive, Between, At, PlannedOnly
    <2>3. QED
      BY <1>1, <1>3, <1>4, <2>1, <2>2, QuietStep
  <1>5. CASE /\ sup' = [sup EXCEPT !.at = "rebuild", !.records = Latest,
                                   !.pick = Selected, !.epoch = (@ + 1) % Cycle]
             /\ UNCHANGED <<state, child, orphaned>>
    <2>1. Latest \in Row /\ Selected \subseteq Emails
      BY LatestRows, SelectedNew DEF DrainInv
    <2> DEFINE n == (sup.epoch + 1) % Cycle
    <2>2. n \in 0 .. Cycle - 1
      BY <1>3, SupervisorConstants DEF Sup
    <2>3. sup' = [sup EXCEPT !.at = "rebuild", !.records = Latest, !.pick = Selected, !.epoch = n]
      BY <1>5
    <2> HIDE DEF n
    <2>4. [sup EXCEPT !.at = "rebuild", !.records = Latest] \in Sup
      BY <1>3, <2>1 DEF Sup, Row
    <2>5. sup' = [[sup EXCEPT !.at = "rebuild", !.records = Latest] EXCEPT !.pick = Selected, !.epoch = n]
      BY <1>3, <2>3 DEF Sup
    <2>6. sup' \in Sup
      BY <2>1, <2>2, <2>4, <2>5 DEF Sup
    <2>7. sup'.at = "rebuild" /\ sup'.records = Latest /\ sup'.pick = Selected
      BY <1>3, <2>3 DEF Sup
    <2>8. SupervisorTypeOK'
      BY <1>1, <1>5, <2>1, <2>6, TypesUnfold, TypesFold DEF DrainInv
    <2>9. OwnInEpoch' /\ PlannedOnly'
      BY <1>1, <1>5, <2>7, SelectedNew
      DEF DrainInv, OwnInEpoch, PlannedOnly, Own, Alive, Between, At, Plan
    <2>10. ASSUME ~orphaned PROVE Undisturbed'
      <3>1. RowsNewest' /\ Unwritten' /\ NoOrphans'
        BY <1>1, <1>5, <2>10, StillKept DEF DrainInv, Undisturbed, NoOrphans
      <3>2. Rewritten'
        BY <1>1, <2>7, <2>10, LatestRows DEF Rewritten, At, Plan
      <3>3. HeldOnce'
        BY <1>1, <1>5, <2>10 DEF DrainInv, Undisturbed, HeldOnce, Holds, Done
      <3>4. OnlyNew'
        BY <1>1, <2>7, SelectedNew DEF DrainInv, OnlyNew, At, Between, Done
      <3>5. QED
        BY <3>1, <3>2, <3>3, <3>4 DEF Undisturbed
    <2>11. QED
      BY <1>5, <2>8, <2>9, <2>10 DEF DrainInv
  <1>6. QED
    BY <1>2, <1>4, <1>5 DEF AfterConvert

LEMMA AfterKeeps ==
  ASSUME DrainInv, After
  PROVE  DrainInv'
  <1>1. At("after") /\ UNCHANGED <<order, work, used, issued, stored, dropped, sso, creds, kills, faults>>
        /\ faults' \in 0 .. MaxFaults /\ master' = Latest
    BY FaultTyped DEF After, output, tokens, DrainInv
  <1>2. CASE Ends("complete") \/ Ends("stopped")
    BY <1>1, <1>2, EndsKeeps DEF Status
  <1>3. CASE /\ state' = [status |-> "running", epoch |-> sup.epoch]
             /\ sup' = [sup EXCEPT !.at = "loop", !.pick = {}]
             /\ UNCHANGED <<child, orphaned>>
    <2>1. sup \in Sup /\ sup.epoch \in 0 .. Cycle - 1
      BY TypesUnfold DEF DrainInv, Sup
    <2>2. state' \in [status : Status, epoch : 0 .. Cycle - 1]
      BY <1>3, <2>1 DEF Status
    <2>3. sup' \in Sup /\ sup'.at = "loop" /\ sup'.pick = {}
      BY <1>3, <2>1 DEF Sup
    <2>4. OwnInEpoch'
      BY <1>1, <1>3 DEF DrainInv, OwnInEpoch, Own, Alive, Between, At
    <2>5. QED
      BY <1>1, <1>3, <2>2, <2>3, <2>4, QuietStep
  <1>4. QED
    BY <1>2, <1>3 DEF After

\* The work file lists what the reconciliation found; the ledger, which is not
\* yet empty, has the newer rows still.
LEMMA RebuildKeeps ==
  ASSUME DrainInv, RebuildWork
  PROVE  DrainInv'
  <1>1. At("rebuild")
        /\ work' = [e \in Emails |-> IF e \in sup.pick THEN sup.records[e] ELSE None]
        /\ sup' = [sup EXCEPT !.at = "clear", !.records = Down.records]
        /\ UNCHANGED <<master, order, used, issued, stored, dropped, sso, creds, state, child, orphaned, kills, faults>>
    BY DEF RebuildWork, output, tokens
  <1>2. sup \in Sup /\ sup.records \in Row /\ sup.pick \subseteq Plan /\ Plan \subseteq Emails
    BY TypesUnfold, PlanTyped DEF DrainInv, Sup, Row, PlannedOnly
  <1>3. sup' \in Sup /\ sup'.at = "clear" /\ sup'.pick = sup.pick
    <2>1. [sup EXCEPT !.at = "clear"] \in Sup /\ Down.records \in Row
      BY <1>2, DownTyped DEF Sup, Row
    <2>2. QED
      BY <1>1, <1>2, <2>1 DEF Sup, Row
  <1>4. work' \in Row
    BY <1>1, <1>2 DEF Row
  <1>5. SupervisorTypeOK'
    BY <1>1, <1>3, <1>4, TypesUnfold, TypesFold DEF DrainInv
  <1>6. OwnInEpoch'
    BY <1>1 DEF DrainInv, OwnInEpoch, Own, Alive, Between, At
  <1>7. PlannedOnly'
    BY <1>1, <1>2, <1>3 DEF DrainInv, PlannedOnly, Plan
  <1>8. ASSUME ~orphaned PROVE Undisturbed'
    <2>1. \A c \in Children : child[c].at = "none"
      BY <1>1, <1>8, NoneAlive DEF At
    <2>2. \A e \in Plan : sup.records[e] = stored[e] /\ master[e] = stored[e] /\ Newest(e) = stored[e]
      BY <1>1, <1>8, LatestRows DEF DrainInv, Undisturbed, Rewritten
    <2>3. RowsNewest' /\ Unwritten'
      BY <1>1, <1>2, <1>8, <2>1, <2>2, StillUnwritten DEF RowsNewest, Newest, Plan, InHand
    <2>4. NoOrphans' /\ HeldOnce'
      BY <1>1, <1>8, <2>1 DEF DrainInv, Undisturbed, NoOrphans, HeldOnce, Holds
    <2>5. Rewritten'
      BY <1>1, <1>2, <1>3, <2>2 DEF Rewritten, At, Plan
    <2>6. OnlyNew'
      BY <1>1, <1>3, <1>8 DEF DrainInv, Undisturbed, OnlyNew, At, Between, Done
    <2>7. QED
      BY <2>3, <2>4, <2>5, <2>6 DEF Undisturbed
  <1>9. QED
    BY <1>1, <1>5, <1>6, <1>7, <1>8 DEF DrainInv

LEMMA ClearKeeps ==
  ASSUME DrainInv, ClearLedger
  PROVE  DrainInv'
  <1>1. At("clear")
        /\ used' = [e \in Emails |-> None]
        /\ sup' = [sup EXCEPT !.at = "launch"]
        /\ UNCHANGED <<master, order, work, issued, stored, dropped, sso, creds, state, child, orphaned, kills, faults>>
    BY DEF ClearLedger, output, tokens
  <1>2. sup \in Sup /\ Plan \subseteq Emails
    BY TypesUnfold, PlanTyped DEF DrainInv
  <1>3. sup' \in Sup /\ sup'.at = "launch" /\ sup'.pick = sup.pick
    BY <1>1, <1>2 DEF Sup
  <1>4. used' \in Row
    BY <1>1 DEF Row
  <1>5. SupervisorTypeOK'
    BY <1>1, <1>3, <1>4, TypesUnfold, TypesFold DEF DrainInv
  <1>6. OwnInEpoch' /\ PlannedOnly'
    BY <1>1, <1>3 DEF DrainInv, OwnInEpoch, Own, Alive, Between, At, PlannedOnly, Plan
  <1>7. ASSUME ~orphaned PROVE Undisturbed'
    <2>1. \A c \in Children : child[c].at = "none"
      BY <1>1, <1>7, NoneAlive DEF At
    <2>2. \A e \in Plan : master[e] = stored[e] /\ work[e] \in {None, stored[e]}
      BY <1>1, <1>7 DEF DrainInv, Undisturbed, Rewritten
    <2>3. RowsNewest' /\ Unwritten'
      BY <1>1, <1>2, <1>7, <2>1, <2>2, StillUnwritten DEF RowsNewest, Newest, Plan, InHand
    <2>4. NoOrphans' /\ HeldOnce'
      BY <1>1, <1>7, <2>1 DEF DrainInv, Undisturbed, NoOrphans, HeldOnce, Holds
    <2>5. Rewritten'
      BY <1>3 DEF Rewritten, At
    <2>6. OnlyNew'
      BY <1>1, <1>3, <1>7 DEF DrainInv, Undisturbed, OnlyNew, At, Between, Done
    <2>7. QED
      BY <2>3, <2>4, <2>5, <2>6 DEF Undisturbed
  <1>8. QED
    BY <1>1, <1>5, <1>6, <1>7 DEF DrainInv

LEMMA HandTyped ==
  ASSUME DrainInv, NEW c \in Children
  PROVE  InHand(c) \subseteq Emails
  BY PlanTyped DEF DrainInv, PlannedOnly, InHand

LEMMA RaisesKeeps ==
  ASSUME DrainInv, EpochRaises \/ ReconcileRaises \/ Killed
  PROVE  DrainInv'
  <1>1. dropped \subseteq Emails /\ kills \in 0 .. MaxKills /\ faults \in 0 .. MaxFaults
        /\ MaxKills \in Nat /\ state \in [status : Status, epoch : 0 .. Cycle - 1]
    BY TypesUnfold, SupervisorConstants DEF DrainInv
  <1>2. CASE EpochRaises
    <2>1. UNCHANGED <<order, work, used, issued, stored, dropped, sso, creds, kills>> /\ faults' \in 0 .. MaxFaults
      BY <1>2, FaultTyped DEF EpochRaises, output, tokens, DrainInv
    <2>2. CASE master' = Latest /\ Ends("error")
      BY <2>1, <2>2, EndsKeeps DEF Status
    <2>3. CASE Leave /\ UNCHANGED <<master, state>>
      BY <1>1, <2>1, <2>3, Left
    <2>4. QED
      BY <1>2, <2>2, <2>3 DEF EpochRaises
  <1>3. CASE ReconcileRaises
    <2>1. faults' \in 0 .. MaxFaults
      BY <1>3, FaultTyped DEF ReconcileRaises, DrainInv
    <2>2. Leave /\ UNCHANGED <<master, order, work, used, issued, stored, dropped, sso, creds, state, kills>>
      BY <1>3 DEF ReconcileRaises, rows, tokens, output
    <2>3. QED
      BY <1>1, <2>1, <2>2, Left
  <1>4. CASE Killed
    <2>1. kills' \in 0 .. MaxKills
      BY <1>1, <1>4 DEF Killed, Kill
    <2>2. UNCHANGED <<master, order, work, used, issued, stored, sso, creds, state, faults>>
      BY <1>4 DEF Killed, Drops, rows, tokens, output
    <2>3. \/ Leave /\ UNCHANGED dropped
          \/ AllKilled /\ dropped' = dropped \cup UNION {InHand(c) : c \in Children}
      BY <1>4 DEF Killed, AllKilled, Drops, rows, tokens
    <2>4. dropped \subseteq Emails /\ \A c \in Children : InHand(c) \subseteq Emails
      BY HandTyped, TypesUnfold DEF DrainInv
    <2>5. dropped' \subseteq Emails /\ dropped \subseteq dropped'
          /\ (Leave \/ (AllKilled /\ \A c \in Children : InHand(c) \subseteq dropped'))
      BY <2>3, <2>4
    <2>6. QED
      BY <1>1, <2>1, <2>2, <2>5, Left
  <1>5. QED
    BY <1>2, <1>3, <1>4

\* A new row at the end of the master: its address was nowhere before.
LEMMA Appended ==
  ASSUME SupervisorTypeOK, NEW e \in Emails, e \notin Plan
  PROVE  Append(order, e) \in Ordering /\ ToSet(Append(order, e)) = Plan \cup {e}
  <1>1. order \in Ordering
    BY TypesUnfold
  <1>2. PICK n \in 1 .. Cardinality(Emails) : order \in [1 .. n -> Emails]
    BY <1>1 DEF Ordering
  <1>3. n \in Nat /\ order \in Seq(Emails) /\ Len(order) = n /\ DOMAIN order = 1 .. n
    BY <1>2, SupervisorConstants
  <1>4. \A i, j \in 1 .. n : order[i] = order[j] => i = j
    BY <1>1, <1>3 DEF Ordering
  <1> DEFINE s == Append(order, e)
  <1>5. /\ s \in Seq(Emails) /\ Len(s) = n + 1
        /\ \A i \in 1 .. n : s[i] = order[i]
        /\ s[n + 1] = e
    BY <1>3, AppendProperties
  <1>6. s \in [1 .. n + 1 -> Emails] /\ DOMAIN s = 1 .. n + 1
    BY <1>3, <1>5, LenProperties
  <1>7. \A i \in 1 .. n : order[i] # e
    BY <1>3 DEF Plan, ToSet
  <1> HIDE DEF s
  <1>8. \A i, j \in 1 .. n + 1 : s[i] = s[j] => i = j
    <2> SUFFICES ASSUME NEW i \in 1 .. n + 1, NEW j \in 1 .. n + 1, s[i] = s[j]
                 PROVE  i = j
      OBVIOUS
    <2>1. i \in 1 .. n \/ i = n + 1
      BY <1>3
    <2>2. j \in 1 .. n \/ j = n + 1
      BY <1>3
    <2>3. QED
      BY <2>1, <2>2, <1>4, <1>5, <1>7
  <1>9. n + 1 <= Cardinality(Emails)
    <2>1. s \in Injection(1 .. n + 1, Emails)
      BY <1>6, <1>8 DEF Injection, IsInjective
    <2>2. Cardinality(1 .. n + 1) <= Cardinality(Emails)
      BY <2>1, FS_Injection, SupervisorConstants
    <2>3. Cardinality(1 .. n + 1) = n + 1
      <3>1. 1 \in Int /\ n + 1 \in Int /\ ~(1 > n + 1) /\ n + 1 - 1 + 1 = n + 1
        BY <1>3
      <3>2. Cardinality(1 .. n + 1) = IF 1 > n + 1 THEN 0 ELSE n + 1 - 1 + 1
        BY <3>1, FS_Interval
      <3>3. QED
        BY <3>1, <3>2
    <2>4. QED
      BY <2>2, <2>3
  <1>10. n + 1 \in 1 .. Cardinality(Emails)
    BY <1>3, <1>9, SupervisorConstants
  <1>11. s \in Ordering
    BY <1>6, <1>8, <1>10 DEF Ordering
  <1>12. ToSet(s) = ToSet(order) \cup {e}
    <2>1. \A x : x \in ToSet(s) <=> \E i \in 1 .. n + 1 : s[i] = x
      BY <1>6 DEF ToSet
    <2>2. \A x : x \in ToSet(order) <=> \E i \in 1 .. n : order[i] = x
      BY <1>3 DEF ToSet
    <2>3. \A i \in 1 .. n + 1 : i \in 1 .. n \/ i = n + 1
      BY <1>3
    <2>4. \A i \in 1 .. n : i \in 1 .. n + 1
      BY <1>3
    <2>5. n + 1 \in 1 .. n + 1
      BY <1>3
    <2>6. QED
      BY <1>5, <2>1, <2>2, <2>3, <2>4, <2>5
  <1>13. QED
    BY <1>11, <1>12 DEF Plan, s

LEMMA AppendRowKeeps ==
  ASSUME DrainInv, NEW e \in Emails, AppendRow(e)
  PROVE  DrainInv'
  <1>1. sup.at \in {"down", "epoch", "loop"} /\ e \notin Plan
        /\ order' = Append(order, e) /\ master' = [master EXCEPT ![e] = stored[e]]
        /\ UNCHANGED <<work, used, issued, stored, dropped, sso, creds, state, sup, child, orphaned, kills, faults>>
    BY DEF AppendRow, output, tokens
  <1>2. order' \in Ordering /\ Plan' = Plan \cup {e} /\ Plan \subseteq Emails
    BY <1>1, Appended, PlanTyped DEF DrainInv, Plan
  <1>3. master \in Row /\ stored \in [Emails -> Tokens]
    BY TypesUnfold DEF DrainInv
  <1>4. master' \in Row
    BY <1>1, <1>3 DEF Row
  <1>5. SupervisorTypeOK'
    BY <1>1, <1>2, <1>4, TypesUnfold, TypesFold DEF DrainInv
  <1>6. OwnInEpoch' /\ PlannedOnly'
    BY <1>1, <1>2 DEF DrainInv, OwnInEpoch, PlannedOnly, Own, Alive, Between
  <1>7. ASSUME ~orphaned PROVE Undisturbed'
    <2>1. used[e] = None /\ work[e] = None
      BY <1>1 DEF DrainInv, PlannedOnly
    <2>2. \A x \in Plan' : Newest(x)' = stored[x]
      BY <1>1, <1>2, <1>3, <1>7, <2>1, LatestRows DEF Newest, Row
    <2>3. RowsNewest' /\ Unwritten' /\ NoOrphans' /\ HeldOnce'
      BY <1>1, <1>7, <2>2, StillUnwritten
      DEF DrainInv, Undisturbed, RowsNewest, InHand, NoOrphans, HeldOnce, Holds, Done
    <2>4. Rewritten' /\ OnlyNew'
      BY <1>1, <1>7 DEF DrainInv, Undisturbed, Rewritten, OnlyNew, At, Between, Done
    <2>5. QED
      BY <2>3, <2>4 DEF Undisturbed
  <1>8. QED
    BY <1>1, <1>5, <1>6, <1>7 DEF DrainInv

-----------------------------------------------------------------------------
(* The registration processes. *)

LEMMA ChildStep ==
  ASSUME DrainInv, NEW c \in Children, NEW new \in Child, Becomes(c, new),
         UNCHANGED <<order, sup, orphaned>>,
         new.at # "none" => At("epoch") \/ (Alive(c) /\ new.orphan = child[c].orphan),
         new.orphan => child[c].orphan,
         new.at \in {"hold", "persist", "sso"} => new.box \in Plan
  PROVE  /\ child' \in [Children -> Child]
         /\ child'[c] = new /\ \A d \in Children \ {c} : child'[d] = child[d]
         /\ OwnInEpoch'
         /\ \A d \in Children : child'[d].at \in {"hold", "persist", "sso"} => child'[d].box \in Plan
         /\ ~orphaned => NoOrphans'
  <1>1. child \in [Children -> Child]
    BY TypesUnfold DEF DrainInv
  <1>2. child' \in [Children -> Child]
    BY <1>1 DEF Becomes
  <1>3. child'[c] = new /\ \A d \in Children \ {c} : child'[d] = child[d]
    BY <1>1 DEF Becomes
  <1>4. OwnInEpoch'
    BY <1>3 DEF DrainInv, OwnInEpoch, Own, Alive, Between, At
  <1>5. \A d \in Children : child'[d].at \in {"hold", "persist", "sso"} => child'[d].box \in Plan
    BY <1>3 DEF DrainInv, PlannedOnly
  <1>6. ~orphaned => NoOrphans'
    BY <1>3 DEF DrainInv, Undisturbed, NoOrphans
  <1>7. QED
    BY <1>2, <1>3, <1>4, <1>5, <1>6

\* While a process of its own is alive the supervisor is in the epoch.
LEMMA EpochRuns ==
  ASSUME DrainInv, ~orphaned, NEW c \in Children, Alive(c)
  PROVE  sup.at \in {"epoch", "drain"}
  BY NoneAlive DEF Alive

LEMMA EpochUndisturbed ==
  ASSUME sup'.at \in {"epoch", "drain"}, NoOrphans', RowsNewest', Unwritten', HeldOnce',
         \A e \in Emails : work'[e] # None /\ used'[e] = None => e \notin Done'
  PROVE  Undisturbed'
  BY DEF Undisturbed, Rewritten, OnlyNew, At, Between

\* A step of a process that has no unwritten token.
LEMMA NothingInHand ==
  ASSUME DrainInv, ~orphaned, NEW c \in Children, child[c].at # "persist",
         \A d \in Children \ {c} : child'[d] = child[d], UNCHANGED <<issued, stored, dropped>>
  PROVE  Unwritten'
  <1>1. \A d \in Children : InHand(d) \subseteq dropped' \cup InHand(d)'
    BY DEF InHand
  <1>2. QED
    BY <1>1, StillUnwritten

LEMMA BoxTyped ==
  ASSUME DrainInv, NEW c \in Children, child[c].at \in {"hold", "persist", "sso"}
  PROVE  child[c].box \in Plan /\ child[c].box \in Emails /\ child[c].token \in Tokens
         /\ child[c] \in Child /\ Alive(c)
  BY TypesUnfold, PlanTyped DEF DrainInv, PlannedOnly, Child, Alive

\* A process that holds nothing, or nothing any more, and no file changed.
LEMMA HoldsNothing ==
  ASSUME DrainInv, NEW c \in Children, NEW new \in Child, Becomes(c, new),
         new.at \in {"none", "free"},
         new.at # "none" => At("epoch") \/ (Alive(c) /\ new.orphan = child[c].orphan),
         new.orphan => child[c].orphan,
         UNCHANGED <<master, order, work, used, issued, stored, sso, creds, state, sup, orphaned>>,
         kills' \in 0 .. MaxKills, faults' \in 0 .. MaxFaults, dropped' = dropped \cup InHand(c)
  PROVE  DrainInv'
  <1>1. /\ child' \in [Children -> Child]
        /\ child'[c] = new /\ \A d \in Children \ {c} : child'[d] = child[d]
        /\ OwnInEpoch'
        /\ \A d \in Children : child'[d].at \in {"hold", "persist", "sso"} => child'[d].box \in Plan
        /\ ~orphaned => NoOrphans'
    BY ChildStep
  <1>2. SupervisorTypeOK'
    BY <1>1, HandTyped, TypesUnfold, TypesFold DEF DrainInv
  <1>3. PlannedOnly'
    BY <1>1 DEF DrainInv, PlannedOnly, Plan
  <1>4. ASSUME ~orphaned PROVE Undisturbed'
    <2>1. RowsNewest' /\ Rewritten' /\ OnlyNew'
      BY <1>4 DEF DrainInv, Undisturbed, RowsNewest, Newest, Plan, Rewritten, OnlyNew, At, Between, Done
    <2>3. \A d \in Children : InHand(d) \subseteq dropped' \cup InHand(d)'
      BY <1>1 DEF InHand
    <2>4. Unwritten'
      BY <1>4, <2>3, StillUnwritten
    <2>2. HeldOnce'
      BY <1>1, <1>4 DEF DrainInv, Undisturbed, HeldOnce, Holds, Done
    <2>5. QED
      BY <1>1, <1>4, <2>1, <2>2, <2>4 DEF Undisturbed
  <1>5. QED
    BY <1>1, <1>2, <1>3, <1>4 DEF DrainInv

LEMMA FreeTyped ==
  ASSUME SupervisorTypeOK, NEW c \in Children
  PROVE  /\ [NoChild EXCEPT !.at = "free", !.orphan = child[c].orphan] \in Child
         /\ [NoChild EXCEPT !.at = "free", !.orphan = child[c].orphan].at = "free"
         /\ [NoChild EXCEPT !.at = "free", !.orphan = child[c].orphan].orphan = child[c].orphan
  <1>1. child[c].orphan \in BOOLEAN
    BY TypesUnfold DEF Child
  <1> DEFINE o == child[c].orphan
  <1>2. o \in BOOLEAN
    BY <1>1
  <1> HIDE DEF o
  <1>3. [NoChild EXCEPT !.at = "free"] \in Child /\ NoChild \in Child
    BY DownTyped DEF Child
  <1>4. [NoChild EXCEPT !.at = "free", !.orphan = o] \in Child
    BY <1>2, <1>3 DEF Child
  <1>5. [NoChild EXCEPT !.at = "free", !.orphan = o].at = "free"
        /\ [NoChild EXCEPT !.at = "free", !.orphan = o].orphan = o
    BY <1>3 DEF Child
  <1>6. QED
    BY <1>4, <1>5 DEF o

LEMMA LaunchKeeps ==
  ASSUME DrainInv, NEW c \in Children, Launch(c)
  PROVE  DrainInv'
  <1> DEFINE new == [NoChild EXCEPT !.at = "free"]
  <1>1. new \in Child /\ new.at = "free" /\ ~new.orphan
    BY DownTyped DEF Child, NoChild
  <1>2. At("epoch") /\ Becomes(c, new)
        /\ UNCHANGED <<master, order, work, used, issued, stored, dropped, sso, creds, state, sup, orphaned, kills, faults>>
    BY DEF Launch, rows, tokens, output
  <1> HIDE DEF new
  <1>3. dropped' = dropped \cup InHand(c) /\ kills \in 0 .. MaxKills /\ faults \in 0 .. MaxFaults
    BY <1>2, TypesUnfold DEF DrainInv, Launch, Alive, InHand
  <1>4. QED
    BY <1>1, <1>2, <1>3, HoldsNothing

LEMMA ChildEndsKeeps ==
  ASSUME DrainInv, NEW c \in Children, ChildEnds(c)
  PROVE  DrainInv'
  <1>1. NoChild \in Child /\ NoChild.at = "none" /\ ~NoChild.orphan
    BY DownTyped DEF NoChild
  <1>2. Becomes(c, NoChild) /\ dropped' = dropped \cup InHand(c)
        /\ UNCHANGED <<master, order, work, used, issued, stored, sso, creds, state, sup, orphaned, faults>>
    BY DEF ChildEnds, Drops, output
  <1>3. kills' \in 0 .. MaxKills /\ faults \in 0 .. MaxFaults
    BY TypesUnfold, SupervisorConstants DEF DrainInv, ChildEnds, Kill
  <1>4. QED
    BY <1>1, <1>2, <1>3, HoldsNothing

\* The claimed row moves to the ledger; a row that the work file loses with it
\* is one that the ledger lists.
LEMMA ClaimKeeps ==
  ASSUME DrainInv, NEW c \in Children, NEW e \in Emails, Claim(c, e)
  PROVE  DrainInv' /\ (~orphaned => e \notin Done)
  <1>1. child[c].at = "free" /\ work[e] # None /\ used[e] = None
        /\ used' = [used EXCEPT ![e] = work[e]]
        /\ UNCHANGED <<master, order, issued, stored, dropped, sso, creds, state, sup, orphaned, kills>>
    BY DEF Claim, output, tokens
  <1>2. work \in Row /\ used \in Row /\ child[c] \in Child /\ Alive(c) /\ Plan \subseteq Emails
    BY <1>1, TypesUnfold, PlanTyped DEF DrainInv, Alive
  <1>3. work[e] \in Tokens /\ e \in Plan
    BY <1>1, <1>2 DEF Row, DrainInv, PlannedOnly
  <1> DEFINE t == work[e]
             new == [child[c] EXCEPT !.at = "hold", !.box = e, !.token = t]
  <1>4. Becomes(c, new) /\ t \in Tokens
    BY <1>3 DEF Claim
  <1>5. new \in Child /\ new.at = "hold" /\ new.box = e /\ new.orphan = child[c].orphan
    <2> HIDE DEF t
    <2>1. [child[c] EXCEPT !.at = "hold", !.box = e] \in Child
      BY <1>2 DEF Child
    <2>2. new = [[child[c] EXCEPT !.at = "hold", !.box = e] EXCEPT !.token = t]
      BY <1>2 DEF Child
    <2>3. new \in Child
      BY <1>4, <2>1, <2>2 DEF Child
    <2>4. new.at = "hold" /\ new.box = e /\ new.orphan = child[c].orphan
      BY <1>2 DEF Child
    <2>5. QED
      BY <2>3, <2>4
  <1> HIDE DEF new
  <1>6. /\ child' \in [Children -> Child]
        /\ child'[c] = new /\ \A d \in Children \ {c} : child'[d] = child[d]
        /\ OwnInEpoch'
        /\ \A d \in Children : child'[d].at \in {"hold", "persist", "sso"} => child'[d].box \in Plan
        /\ ~orphaned => NoOrphans'
    BY <1>1, <1>2, <1>3, <1>4, <1>5, ChildStep
  <1>7. used' \in Row /\ used'[e] = work[e] /\ \A x \in Emails \ {e} : used'[x] = used[x]
    BY <1>1, <1>2, <1>3 DEF Row
  <1>8. \A x \in Emails : work'[x] = work[x] \/ (work'[x] = None /\ used'[x] # None)
    BY <1>2 DEF Claim, Row
  <1>9. work' \in Row
    BY <1>2 DEF Claim, Row
  <1>10. faults' \in 0 .. MaxFaults
    BY FaultTyped DEF Claim, DrainInv
  <1>11. SupervisorTypeOK'
    BY <1>1, <1>6, <1>7, <1>9, <1>10, TypesUnfold, TypesFold DEF DrainInv
  <1>12. PlannedOnly'
    BY <1>1, <1>3, <1>6, <1>7, <1>8 DEF DrainInv, PlannedOnly, Plan
  <1>13. ASSUME ~orphaned PROVE Undisturbed' /\ e \notin Done
    <2>1. sup.at \in {"epoch", "drain"}
      BY <1>2, <1>13, EpochRuns
    <2>2. \A x \in Emails : work[x] # None /\ used[x] = None => x \notin Done
      BY <1>13, <2>1 DEF DrainInv, Undisturbed, OnlyNew, Between
    <2>3. \A x \in Emails : work'[x] # None /\ used'[x] = None => x \notin Done'
      BY <1>1, <1>3, <1>7, <1>8, <2>2 DEF Done
    <2>4. RowsNewest'
      <3> SUFFICES ASSUME NEW x \in Plan PROVE Newest(x)' = stored[x]
        BY <1>1 DEF RowsNewest, Plan
      <3>1. Newest(x) = stored[x] /\ x \in Emails
        BY <1>2, <1>13, LatestRows
      <3>2. CASE x = e
        BY <1>1, <1>3, <1>7, <3>1, <3>2 DEF Newest
      <3>3. CASE x # e
        BY <1>1, <1>7, <1>8, <3>1, <3>3 DEF Newest
      <3>4. QED
        BY <3>2, <3>3
    <2>5. HeldOnce'
      <3>1. \A d \in Children : Holds(d) => used[child[d].box] # None /\ child[d].box \notin Done
                                            /\ child[d].box \in Emails
        BY <1>13, BoxTyped DEF DrainInv, Undisturbed, HeldOnce, Holds
      <3>2. \A d \in Children : Holds(d)' => used'[child'[d].box] # None /\ child'[d].box \notin Done'
        BY <1>1, <1>3, <1>5, <1>6, <1>7, <2>2, <3>1, SupervisorConstants DEF Holds, Done
      <3>3. \A a, d \in Children : Holds(a)' /\ Holds(d)' /\ child'[a].box = child'[d].box => a = d
        BY <1>1, <1>5, <1>6, <1>13, <3>1 DEF DrainInv, Undisturbed, HeldOnce, Holds
      <3>4. \A d \in Children : /\ child'[d].at = "sso" => child'[d].box \in sso'
                                /\ child'[d].at = "persist" => child'[d].token = issued'[child'[d].box]
        BY <1>1, <1>5, <1>6, <1>13 DEF DrainInv, Undisturbed, HeldOnce
      <3>5. QED
        BY <3>2, <3>3, <3>4 DEF HeldOnce
    <2>6. Unwritten'
      BY <1>1, <1>6, <1>13, NothingInHand
    <2>7. QED
      BY <1>1, <1>6, <1>13, <2>1, <2>2, <2>3, <2>4, <2>5, <2>6, EpochUndisturbed
  <1>14. QED
    BY <1>1, <1>6, <1>11, <1>12, <1>13 DEF DrainInv

\* A process keeps its reservation, and the files list the same addresses.
LEMMA HeldStays ==
  ASSUME DrainInv, NEW c \in Children, Holds(c), NEW new \in Child, Becomes(c, new),
         new.at \in {"hold", "persist"}, new.box = child[c].box, new.orphan = child[c].orphan,
         UNCHANGED <<order, sso, creds, state, sup, orphaned, kills>>, master' \in Row,
         work' \in Row, used' \in Row, issued' \in [Emails -> Tokens],
         stored' \in [Emails -> Tokens], dropped' \subseteq Emails, faults' \in 0 .. MaxFaults,
         \A x \in Emails : /\ (work'[x] = None) <=> (work[x] = None)
                           /\ (used'[x] = None) <=> (used[x] = None),
         ~orphaned => /\ RowsNewest' /\ Unwritten'
                      /\ new.at = "persist" => new.token = issued'[new.box]
                      /\ \A x \in Emails \ {child[c].box} : issued'[x] = issued[x]
  PROVE  DrainInv'
  <1>1. PICK e \in Emails : e = child[c].box /\ e \in Plan /\ Alive(c)
    BY BoxTyped DEF Holds
  <1>2. /\ child' \in [Children -> Child]
        /\ child'[c] = new /\ \A d \in Children \ {c} : child'[d] = child[d]
        /\ OwnInEpoch'
        /\ \A d \in Children : child'[d].at \in {"hold", "persist", "sso"} => child'[d].box \in Plan
        /\ ~orphaned => NoOrphans'
    BY <1>1, ChildStep
  <1>3. SupervisorTypeOK'
    BY <1>2, TypesUnfold, TypesFold DEF DrainInv
  <1>4. PlannedOnly'
    BY <1>2 DEF DrainInv, PlannedOnly, Plan
  <1>5. ASSUME ~orphaned PROVE Undisturbed'
    <2>1. sup.at \in {"epoch", "drain"}
      BY <1>1, <1>5, EpochRuns
    <2>2. \A d \in Children : Holds(d) => used[child[d].box] # None /\ child[d].box \notin Done
                                          /\ child[d].box \in Emails
      BY <1>5, BoxTyped DEF DrainInv, Undisturbed, HeldOnce, Holds
    <2>3. \A d \in Children : child'[d].box = child[d].box /\ (Holds(d)' => Holds(d))
      BY <1>2 DEF Holds
    <2>4. \A d \in Children : Holds(d)' => used'[child'[d].box] # None /\ child'[d].box \notin Done'
      <3> SUFFICES ASSUME NEW d \in Children, Holds(d)'
                   PROVE  used'[child'[d].box] # None /\ child'[d].box \notin Done'
        BY DEF Holds
      <3>1. child'[d].box = child[d].box /\ Holds(d)
        BY <2>3
      <3>2. used[child[d].box] # None /\ child[d].box \notin Done /\ child[d].box \in Emails
        BY <2>2, <3>1
      <3>3. Done' = Done
        BY DEF Done
      <3>4. QED
        BY <3>1, <3>2, <3>3
    <2>5. \A a, d \in Children : Holds(a)' /\ Holds(d)' /\ child'[a].box = child'[d].box => a = d
      BY <1>5, <2>2, <2>3 DEF DrainInv, Undisturbed, HeldOnce
    <2>6. \A d \in Children : child'[d].at = "sso" => child'[d].box \in sso'
      BY <1>2, <1>5 DEF DrainInv, Undisturbed, HeldOnce
    <2>7. \A d \in Children : child'[d].at = "persist" => child'[d].token = issued'[child'[d].box]
      <3> SUFFICES ASSUME NEW d \in Children \ {c}, child[d].at = "persist"
                   PROVE  child[d].token = issued'[child[d].box]
        BY <1>2, <1>5
      <3>1. Holds(d) /\ d # c /\ child[d].token = issued[child[d].box]
        BY <1>5 DEF DrainInv, Undisturbed, HeldOnce, Holds
      <3>2. child[d].box # child[c].box
        BY <1>5, <3>1 DEF DrainInv, Undisturbed, HeldOnce
      <3>4. child[d].box \in Emails
        BY <2>2, <3>1
      <3>3. QED
        BY <1>5, <3>1, <3>2, <3>4
    <2>8. \A x \in Emails : work'[x] # None /\ used'[x] = None => x \notin Done'
      BY <1>5, <2>1 DEF DrainInv, Undisturbed, OnlyNew, Between, Done
    <2>9. HeldOnce'
      BY <2>4, <2>5, <2>6, <2>7, Zenon DEF HeldOnce, Holds
    <2>10. QED
      BY <1>2, <1>5, <2>1, <2>8, <2>9, EpochUndisturbed
  <1>6. QED
    BY <1>2, <1>3, <1>4, <1>5 DEF DrainInv

\* The new token is in the process's hand.
LEMMA RotateKeeps ==
  ASSUME DrainInv, NEW c \in Children, Rotate(c)
  PROVE  DrainInv'
  <1>1. PICK e \in Emails : e = child[c].box /\ e \in Plan /\ child[c].at = "hold"
    BY BoxTyped DEF Rotate
  <1>2. PICK t \in Tokens : t = issued[e] + 1 /\ issued' = [issued EXCEPT ![e] = t]
    <2>1. issued[e] \in 0 .. MaxToken /\ MaxToken \in Nat
      BY TypesUnfold, SupervisorConstants DEF DrainInv, Tokens
    <2>2. issued[e] + 1 <= MaxToken /\ issued' = [issued EXCEPT ![e] = issued[e] + 1]
      BY <1>1 DEF Rotate
    <2>3. issued[e] + 1 \in Tokens
      BY <2>1, <2>2 DEF Tokens
    <2>4. QED
      BY <2>2, <2>3
  <1> DEFINE new == [child[c] EXCEPT !.at = "persist", !.token = t]
  <1>3. child[c] \in Child /\ child \in [Children -> Child] /\ master \in Row /\ work \in Row
        /\ used \in Row /\ issued \in [Emails -> Tokens] /\ stored \in [Emails -> Tokens]
        /\ dropped \subseteq Emails /\ faults \in 0 .. MaxFaults
    BY <1>1, BoxTyped, TypesUnfold DEF DrainInv
  <1>4. new \in Child /\ new.at = "persist" /\ new.box = e /\ new.orphan = child[c].orphan
        /\ new.token = t
    BY <1>1, <1>3 DEF Child
  <1>5. Becomes(c, new)
        /\ UNCHANGED <<master, order, work, used, stored, dropped, sso, creds, state, sup, orphaned,
                       kills, faults>>
    BY <1>1, <1>2 DEF Rotate, output
  <1> HIDE DEF new
  <1>6. child'[c] = new /\ \A d \in Children \ {c} : child'[d] = child[d]
    BY <1>3, <1>5 DEF Becomes
  <1>7. issued' \in [Emails -> Tokens] /\ issued'[e] = t /\ \A x \in Emails \ {e} : issued'[x] = issued[x]
    BY <1>2, <1>3
  <1>8. ASSUME ~orphaned PROVE RowsNewest' /\ Unwritten'
    <2>1. RowsNewest'
      BY <1>5, <1>8 DEF DrainInv, Undisturbed, RowsNewest, Newest, Plan
    <2>2. e \in InHand(c)' /\ \A d \in Children : InHand(d) \subseteq InHand(d)'
      BY <1>1, <1>4, <1>6 DEF InHand
    <2>3. Unwritten'
      BY <1>5, <1>7, <1>8, <2>2 DEF DrainInv, Undisturbed, Unwritten
    <2>4. QED
      BY <2>1, <2>3
  <1>9. QED
    BY <1>1, <1>3, <1>4, <1>5, <1>7, <1>8, HeldStays DEF Holds

\* Unless orphaned, the ledger lists the address and takes its new token.
LEMMA PersistKeeps ==
  ASSUME DrainInv, NEW c \in Children, Persist(c)
  PROVE  DrainInv'
  <1>1. PICK e \in Emails : e = child[c].box /\ e \in Plan /\ child[c].at = "persist"
    BY BoxTyped DEF Persist
  <1>2. PICK t \in Tokens : t = child[c].token
    BY <1>1, BoxTyped
  <1> DEFINE new == [child[c] EXCEPT !.at = "hold"]
  <1>3. child[c] \in Child /\ child \in [Children -> Child] /\ master \in Row /\ work \in Row
        /\ used \in Row /\ issued \in [Emails -> Tokens] /\ stored \in [Emails -> Tokens]
        /\ dropped \subseteq Emails /\ faults \in 0 .. MaxFaults /\ None \notin Tokens
    BY <1>1, BoxTyped, TypesUnfold, SupervisorConstants DEF DrainInv
  <1>4. new \in Child /\ new.at = "hold" /\ new.box = e /\ new.orphan = child[c].orphan
    BY <1>1, <1>3 DEF Child
  <1>5. /\ \/ used[e] # None /\ used' = [used EXCEPT ![e] = t] /\ work' = work
           \/ used[e] = None /\ work[e] # None /\ work' = [work EXCEPT ![e] = t] /\ used' = used
        /\ stored' = [stored EXCEPT ![e] = t] /\ dropped' = dropped \ {e} /\ Becomes(c, new)
        /\ UNCHANGED <<master, order, issued, sso, creds, state, sup, orphaned, kills, faults>>
    BY <1>1, <1>2 DEF Persist, output
  <1> HIDE DEF new
  <1>6. child'[c] = new /\ \A d \in Children \ {c} : child'[d] = child[d]
    BY <1>3, <1>5 DEF Becomes
  <1>7. stored' \in [Emails -> Tokens] /\ stored'[e] = t /\ \A x \in Emails \ {e} : stored'[x] = stored[x]
    BY <1>3, <1>5
  <1>8. work' \in Row /\ used' \in Row
        /\ \A x \in Emails : /\ (work'[x] = None) <=> (work[x] = None)
                             /\ (used'[x] = None) <=> (used[x] = None)
    BY <1>3, <1>5 DEF Row
  <1>9. ASSUME ~orphaned PROVE RowsNewest' /\ Unwritten'
    <2>1. used[e] # None /\ t = issued[e]
      BY <1>1, <1>2, <1>9 DEF DrainInv, Undisturbed, HeldOnce, Holds
    <2>2. used'[e] = t /\ t # None /\ work' = work /\ \A x \in Emails \ {e} : used'[x] = used[x]
      BY <1>3, <1>5, <2>1 DEF Row
    <2>3. RowsNewest'
      <3> SUFFICES ASSUME NEW x \in Plan PROVE Newest(x)' = stored'[x]
        BY <1>5 DEF RowsNewest, Plan
      <3>1. Newest(x) = stored[x] /\ x \in Emails
        BY <1>9, LatestRows, PlanTyped DEF DrainInv
      <3>2. QED
        BY <1>5, <1>7, <2>2, <3>1 DEF Newest
    <2>4. \A d \in Children : InHand(d) \subseteq {e} \cup InHand(d)'
      BY <1>1, <1>6 DEF InHand
    <2>5. Unwritten'
      BY <1>5, <1>7, <1>9, <2>1, <2>4 DEF DrainInv, Undisturbed, Unwritten
    <2>6. QED
      BY <2>3, <2>5
  <1>10. issued' \in [Emails -> Tokens] /\ dropped' \subseteq Emails
    BY <1>3, <1>5
  <1>11. QED
    BY <1>1, <1>3, <1>4, <1>5, <1>7, <1>8, <1>9, <1>10, HeldStays DEF Holds

\* The token is in no file any more, and no process will write it.
LEMMA PersistFailsKeeps ==
  ASSUME DrainInv, NEW c \in Children, PersistFails(c)
  PROVE  DrainInv'
  <1>1. PICK e \in Emails : e = child[c].box /\ e \in Plan /\ child[c].at = "persist"
    BY BoxTyped DEF PersistFails
  <1> DEFINE kept == [child[c] EXCEPT !.at = "hold"]
             given == [NoChild EXCEPT !.at = "free", !.orphan = child[c].orphan]
  <1>2. child[c] \in Child /\ child \in [Children -> Child] /\ master \in Row /\ work \in Row
        /\ used \in Row /\ issued \in [Emails -> Tokens] /\ stored \in [Emails -> Tokens]
        /\ dropped \subseteq Emails /\ kills \in 0 .. MaxKills /\ Alive(c)
    BY <1>1, BoxTyped, TypesUnfold DEF DrainInv
  <1>3. kept \in Child /\ kept.at = "hold" /\ kept.box = e /\ kept.orphan = child[c].orphan
    BY <1>1, <1>2 DEF Child
  <1>4. given \in Child /\ given.at = "free" /\ given.orphan = child[c].orphan
    BY FreeTyped DEF DrainInv
  <1>5. dropped' = dropped \cup InHand(c) /\ (Becomes(c, kept) \/ Becomes(c, given))
        /\ UNCHANGED <<master, order, work, used, issued, stored, sso, creds, state, sup, orphaned, kills>>
    BY DEF PersistFails, Drops, output
  <1>6. faults' \in 0 .. MaxFaults
    BY FaultTyped DEF PersistFails, DrainInv
  <1> HIDE DEF kept, given
  <1>7. CASE Becomes(c, given)
    BY <1>2, <1>4, <1>5, <1>6, <1>7, HoldsNothing
  <1>8. CASE Becomes(c, kept)
    <2>1. dropped' = dropped \cup {e}
      BY <1>1, <1>5 DEF InHand
    <2>2. child'[c] = kept /\ \A d \in Children \ {c} : child'[d] = child[d]
      BY <1>2, <1>8 DEF Becomes
    <2>3. ASSUME ~orphaned PROVE RowsNewest' /\ Unwritten'
      <3>1. RowsNewest'
        BY <1>5, <2>3 DEF DrainInv, Undisturbed, RowsNewest, Newest, Plan
      <3>2. \A d \in Children : InHand(d) \subseteq dropped' \cup InHand(d)'
        BY <1>5, <2>2 DEF InHand
      <3>3. Unwritten'
        BY <1>5, <2>3, <3>2, StillUnwritten
      <3>4. QED
        BY <3>1, <3>3
    <2>4. dropped' \subseteq Emails
      BY <1>2, <2>1
    <2>5. QED
      BY <1>1, <1>2, <1>3, <1>5, <1>6, <1>8, <2>3, <2>4, HeldStays DEF Holds
  <1>9. QED
    BY <1>5, <1>7, <1>8

LEMMA SaveSsoKeeps ==
  ASSUME DrainInv, NEW c \in Children, SaveSso(c)
  PROVE  DrainInv'
  <1>1. PICK e \in Emails : e = child[c].box /\ e \in Plan /\ child[c].at = "hold"
    BY BoxTyped DEF SaveSso
  <1> DEFINE new == [child[c] EXCEPT !.at = "sso"]
  <1>2. sso' = sso \cup {e} /\ Becomes(c, new)
        /\ UNCHANGED <<master, order, work, used, issued, stored, dropped, creds, state, sup, orphaned, kills, faults>>
    BY <1>1 DEF SaveSso, rows, tokens
  <1>3. child[c] \in Child /\ Alive(c) /\ sso \subseteq Emails
    BY <1>1, BoxTyped, TypesUnfold DEF DrainInv
  <1>4. new \in Child /\ new.at = "sso" /\ new.box = e /\ new.orphan = child[c].orphan
    BY <1>1, <1>3 DEF Child
  <1> HIDE DEF new
  <1>5. /\ child' \in [Children -> Child]
        /\ child'[c] = new /\ \A d \in Children \ {c} : child'[d] = child[d]
        /\ OwnInEpoch'
        /\ \A d \in Children : child'[d].at \in {"hold", "persist", "sso"} => child'[d].box \in Plan
        /\ ~orphaned => NoOrphans'
    BY <1>1, <1>2, <1>3, <1>4, ChildStep
  <1>6. sso' \subseteq Emails
    BY <1>2, <1>3
  <1>7. SupervisorTypeOK'
    BY <1>2, <1>5, <1>6, TypesUnfold, TypesFold DEF DrainInv
  <1>8. PlannedOnly'
    BY <1>2, <1>5 DEF DrainInv, PlannedOnly, Plan
  <1>9. ASSUME ~orphaned PROVE Undisturbed'
    <2>1. sup.at \in {"epoch", "drain"}
      BY <1>3, <1>9, EpochRuns
    <2>2. used[e] # None /\ Done' = Done \cup {e}
      BY <1>1, <1>2, <1>9 DEF DrainInv, Undisturbed, HeldOnce, Holds, Done
    <2>3. RowsNewest' /\ Unwritten'
      BY <1>1, <1>2, <1>5, <1>9, NothingInHand DEF DrainInv, Undisturbed, RowsNewest, Newest, Plan
    <2>4. \A d \in Children : Holds(d)' => d # c /\ child[d] = child'[d] /\ child[d].box # e
      BY <1>1, <1>4, <1>5, <1>9 DEF DrainInv, Undisturbed, HeldOnce, Holds
    <2>5. HeldOnce'
      BY <1>2, <1>4, <1>5, <1>9, <2>2, <2>4 DEF DrainInv, Undisturbed, HeldOnce, Holds
    <2>6. \A x \in Emails : work'[x] # None /\ used'[x] = None => x \notin Done'
      BY <1>2, <1>9, <2>1, <2>2 DEF DrainInv, Undisturbed, OnlyNew, Between
    <2>7. QED
      BY <1>2, <1>5, <1>9, <2>1, <2>3, <2>5, <2>6, EpochUndisturbed
  <1>10. QED
    BY <1>2, <1>5, <1>7, <1>8, <1>9 DEF DrainInv

\* The credential is of an address whose SSO file is there already.
LEMMA FinishKeeps ==
  ASSUME DrainInv, NEW c \in Children, FinishChild(c)
  PROVE  DrainInv'
  <1>1. PICK e \in Emails : e = child[c].box /\ e \in Plan /\ child[c].at = "sso"
    BY BoxTyped DEF FinishChild
  <1>2. creds' \in {creds, creds \cup {e}} /\ Becomes(c, NoChild)
        /\ UNCHANGED <<master, order, work, used, issued, stored, dropped, sso, state, sup, orphaned, kills, faults>>
    BY <1>1 DEF FinishChild, rows, tokens
  <1>3. Alive(c) /\ creds \subseteq Emails
    BY <1>1, BoxTyped, TypesUnfold DEF DrainInv
  <1>4. NoChild \in Child /\ NoChild.at = "none" /\ ~NoChild.orphan
    BY DownTyped DEF NoChild
  <1>5. /\ child' \in [Children -> Child]
        /\ child'[c] = NoChild /\ \A d \in Children \ {c} : child'[d] = child[d]
        /\ OwnInEpoch'
        /\ \A d \in Children : child'[d].at \in {"hold", "persist", "sso"} => child'[d].box \in Plan
        /\ ~orphaned => NoOrphans'
    BY <1>2, <1>4, ChildStep
  <1>6. creds' \subseteq Emails
    BY <1>2, <1>3
  <1>7. SupervisorTypeOK'
    BY <1>2, <1>5, <1>6, TypesUnfold, TypesFold DEF DrainInv
  <1>8. PlannedOnly'
    BY <1>2, <1>5 DEF DrainInv, PlannedOnly, Plan
  <1>9. ASSUME ~orphaned PROVE Undisturbed'
    <2>1. sup.at \in {"epoch", "drain"}
      BY <1>3, <1>9, EpochRuns
    <2>2. Done' = Done
      BY <1>1, <1>2, <1>9 DEF DrainInv, Undisturbed, HeldOnce, Done
    <2>3. RowsNewest' /\ Unwritten'
      BY <1>1, <1>2, <1>5, <1>9, NothingInHand DEF DrainInv, Undisturbed, RowsNewest, Newest, Plan
    <2>4. HeldOnce'
      BY <1>2, <1>4, <1>5, <1>9, <2>2 DEF DrainInv, Undisturbed, HeldOnce, Holds
    <2>5. \A x \in Emails : work'[x] # None /\ used'[x] = None => x \notin Done'
      BY <1>2, <1>9, <2>1, <2>2 DEF DrainInv, Undisturbed, OnlyNew, Between
    <2>6. QED
      BY <1>2, <1>5, <1>9, <2>1, <2>3, <2>4, <2>5, EpochUndisturbed
  <1>10. QED
    BY <1>2, <1>5, <1>7, <1>8, <1>9 DEF DrainInv

\* Unless orphaned, the row that comes back is the ledger's.
LEMMA ReturnKeeps ==
  ASSUME DrainInv, NEW c \in Children, ReturnRow(c)
  PROVE  DrainInv'
  <1>1. PICK e \in Emails : e = child[c].box /\ e \in Plan /\ child[c].at = "hold"
    BY BoxTyped DEF ReturnRow
  <1>2. work' = [work EXCEPT ![e] = IF used[e] # None THEN used[e] ELSE child[c].token]
        /\ used' \in {used, [used EXCEPT ![e] = None]}
        /\ UNCHANGED <<master, order, issued, stored, dropped, sso, creds, state, sup, orphaned, kills>>
    BY <1>1 DEF ReturnRow, output, tokens
  <1>3. child[c] \in Child /\ Alive(c) /\ child[c].token \in Tokens
        /\ work \in Row /\ used \in Row /\ Plan \subseteq Emails
    BY <1>1, BoxTyped, TypesUnfold, PlanTyped DEF DrainInv
  <1> DEFINE freed == [NoChild EXCEPT !.at = "free", !.orphan = child[c].orphan]
  <1>4. freed \in Child /\ freed.at = "free" /\ freed.orphan = child[c].orphan
    BY FreeTyped DEF DrainInv
  <1>5. NoChild \in Child /\ NoChild.at = "none" /\ ~NoChild.orphan
    BY DownTyped DEF NoChild
  <1>6. PICK new \in {NoChild, freed} : Becomes(c, new)
    BY DEF ReturnRow
  <1> HIDE DEF freed
  <1>7. /\ child' \in [Children -> Child]
        /\ child'[c] = new /\ \A d \in Children \ {c} : child'[d] = child[d]
        /\ OwnInEpoch'
        /\ \A d \in Children : child'[d].at \in {"hold", "persist", "sso"} => child'[d].box \in Plan
        /\ ~orphaned => NoOrphans'
    BY <1>2, <1>3, <1>4, <1>5, <1>6, ChildStep
  <1>8. work' \in Row /\ used' \in Row
    BY <1>2, <1>3 DEF Row
  <1>9. \A x \in Emails \ {e} : work'[x] = work[x] /\ used'[x] = used[x]
    BY <1>2, <1>3 DEF Row
  <1>10. faults' \in 0 .. MaxFaults
    BY FaultTyped DEF ReturnRow, DrainInv
  <1>11. SupervisorTypeOK'
    BY <1>2, <1>7, <1>8, <1>10, TypesUnfold, TypesFold DEF DrainInv
  <1>12. PlannedOnly'
    BY <1>1, <1>2, <1>7, <1>9 DEF DrainInv, PlannedOnly, Plan
  <1>13. ASSUME ~orphaned PROVE Undisturbed'
    <2>1. sup.at \in {"epoch", "drain"}
      BY <1>3, <1>13, EpochRuns
    <2>2. used[e] # None /\ e \notin Done
      BY <1>1, <1>13 DEF DrainInv, Undisturbed, HeldOnce, Holds
    <2>3. work'[e] = used[e] /\ used'[e] \in {None, used[e]}
      BY <1>2, <1>3, <2>2 DEF Row
    <2>4. RowsNewest'
      <3> SUFFICES ASSUME NEW x \in Plan PROVE Newest(x)' = stored[x]
        BY <1>2 DEF RowsNewest, Plan
      <3>1. Newest(x) = stored[x] /\ x \in Emails
        BY <1>3, <1>13, LatestRows
      <3>2. CASE x = e
        BY <2>2, <2>3, <3>1, <3>2 DEF Newest
      <3>3. CASE x # e
        BY <1>2, <1>9, <3>1, <3>3 DEF Newest
      <3>4. QED
        BY <3>2, <3>3
    <2>5. \A d \in Children : child'[d].at \in {"hold", "persist", "sso"} => d # c /\ child[d] = child'[d]
      BY <1>4, <1>5, <1>7
    <2>6. \A d \in Children : Holds(d)'
            => used'[child'[d].box] # None /\ child'[d].box \notin Done
      <3> SUFFICES ASSUME NEW d \in Children, Holds(d)'
                   PROVE  used'[child'[d].box] # None /\ child'[d].box \notin Done
        OBVIOUS
      <3>1. d # c /\ child[d] = child'[d] /\ Holds(d)
        BY <2>5 DEF Holds
      <3>2. child[d].box # e /\ used[child[d].box] # None /\ child[d].box \notin Done
        BY <1>1, <1>13, <3>1 DEF DrainInv, Undisturbed, HeldOnce, Holds
      <3>3. child[d].box \in Emails
        BY <3>1, BoxTyped DEF Holds
      <3>4. QED
        BY <1>9, <3>1, <3>2, <3>3
    <2>7. HeldOnce'
      BY <1>2, <1>13, <2>5, <2>6 DEF DrainInv, Undisturbed, HeldOnce, Holds, Done
    <2>8. \A x \in Emails : work'[x] # None /\ used'[x] = None => x \notin Done'
      BY <1>2, <1>9, <1>13, <2>1, <2>2 DEF DrainInv, Undisturbed, OnlyNew, Between, Done
    <2>9. Unwritten'
      BY <1>1, <1>2, <1>7, <1>13, NothingInHand
    <2>10. QED
      BY <1>2, <1>7, <1>13, <2>1, <2>4, <2>7, <2>8, <2>9, EpochUndisturbed
  <1>14. QED
    BY <1>2, <1>7, <1>11, <1>12, <1>13 DEF DrainInv

-----------------------------------------------------------------------------
LEMMA SupervisorBegins == SupervisorInit => DrainInv
  <1> SUFFICES ASSUME SupervisorInit PROVE DrainInv
    OBVIOUS
  <1>1. Down \in Sup /\ NoChild \in Child /\ Down.at = "down" /\ Down.pick = {}
        /\ NoChild.at = "none" /\ ~NoChild.orphan
    BY DownTyped DEF Down, NoChild
  <1>2. order \in Ordering
    BY SupervisorAssumption DEF SupervisorInit, SupervisorAssumption
  <1>3. master \in Row /\ work \in Row /\ used \in Row /\ issued \in [Emails -> Tokens]
        /\ stored = issued /\ dropped = {}
    BY SupervisorConstants DEF SupervisorInit, Row
  <1>4. state \in [status : Status, epoch : 0 .. Cycle - 1]
    BY SupervisorConstants DEF SupervisorInit, Status
  <1>5. child \in [Children -> Child] /\ \A c \in Children : child[c] = NoChild
    BY <1>1 DEF SupervisorInit
  <1>6. sso = {} /\ creds = {} /\ sup = Down /\ orphaned = FALSE
        /\ kills \in 0 .. MaxKills /\ faults \in 0 .. MaxFaults
    BY SupervisorConstants DEF SupervisorInit
  <1>7. SupervisorTypeOK
    BY <1>1, <1>2, <1>3, <1>4, <1>5, <1>6 DEF SupervisorTypeOK, Row
  <1>8. OwnInEpoch
    BY <1>1, <1>5 DEF OwnInEpoch, Own, Alive
  <1>9. \A e \in Emails : work[e] = None /\ used[e] = None
    BY DEF SupervisorInit
  <1>10. PlannedOnly
    BY <1>1, <1>5, <1>6, <1>9 DEF PlannedOnly
  <1>11. \A e \in Plan : Newest(e) = stored[e]
    BY <1>3, <1>7, <1>9, PlanTyped DEF SupervisorInit, Newest, Plan
  <1>12. Undisturbed
    BY <1>1, <1>3, <1>5, <1>6, <1>11
    DEF Undisturbed, NoOrphans, RowsNewest, Unwritten, Rewritten, HeldOnce, Holds, OnlyNew, At, Between
  <1>13. QED
    BY <1>7, <1>8, <1>10, <1>12 DEF DrainInv

LEMMA SuperviseKeeps ==
  ASSUME DrainInv, Supervise
  PROVE  DrainInv'
  BY LoopKeeps, ConvertKeeps, AfterConvertKeeps, RebuildKeeps, ClearKeeps, EpochMoves,
     RaisesKeeps, AfterKeeps DEF Supervise

LEMMA RegisterKeeps ==
  ASSUME DrainInv, NEW c \in Children, Launch(c) \/ Register(c)
  PROVE  DrainInv'
  BY LaunchKeeps, ClaimKeeps, RotateKeeps, PersistKeeps, PersistFailsKeeps, SaveSsoKeeps, FinishKeeps,
     ReturnKeeps, ChildEndsKeeps
  DEF Register

LEMMA SupervisorStep ==
  ASSUME DrainInv, [SupervisorNext]_supervisorVars
  PROVE  DrainInv'
  <1>1. CASE UNCHANGED supervisorVars
    <2>1. UNCHANGED <<master, order, work, used, issued, stored, dropped, sso, creds, state, sup, child, orphaned, kills, faults>>
      BY <1>1 DEF supervisorVars, rows, tokens, output
    <2>2. SupervisorTypeOK'
      BY <2>1, TypesUnfold, TypesFold DEF DrainInv
    <2>3. OwnInEpoch' /\ PlannedOnly'
      BY <2>1 DEF DrainInv, OwnInEpoch, PlannedOnly, Own, Alive, Between, Plan
    <2>4. ~orphaned => RowsNewest' /\ Unwritten' /\ NoOrphans' /\ Rewritten' /\ HeldOnce' /\ OnlyNew'
      BY <2>1, StillKept DEF DrainInv, Undisturbed, NoOrphans, Rewritten, HeldOnce, Holds,
                  OnlyNew, At, Between, Plan, Done
    <2>5. QED
      BY <2>1, <2>2, <2>3, <2>4 DEF DrainInv, Undisturbed
  <1>2. CASE \E e \in Emails : AppendRow(e)
    BY <1>2, AppendRowKeeps
  <1>3. CASE \E c \in Children : Launch(c) \/ Register(c)
    BY <1>3, RegisterKeeps
  <1>4. QED
    BY <1>1, <1>2, <1>3, BootKeeps, SuperviseKeeps, EpochMoves, RequestStopKeeps, RaisesKeeps
    DEF SupervisorNext

\* What the supervisor, its processes, the operator and the kills keep of the
\* three files, step by step (server_mail_supervisor.py).
THEOREM SupervisorInvariant == SupervisorSpec => []DrainInv
  <1>1. DrainInv /\ [SupervisorNext]_supervisorVars => DrainInv'
    BY SupervisorStep
  <1>2. QED
    BY <1>1, SupervisorBegins, PTL DEF SupervisorSpec

\* Between any two writes of an epoch (_load_master_and_latest, then the
\* rebuild of the work file and the clearing of the ledger), and whatever is
\* killed or fails there, the files hold the newest token that was written for
\* every planned address, and a token is unwritten only in the hand of a live
\* process or after a failed or killed write (refresh, then
\* _update_account_record), as long as no process has outlived its supervisor.
THEOREM MasterIsSafe == SupervisorSpec => []MasterSafe
  <1>1. DrainInv => MasterSafe
    BY DEF DrainInv, Undisturbed, MasterSafe, TokensKept, RowsNewest, Unwritten
  <1>2. QED
    BY <1>1, SupervisorInvariant, PTL

-----------------------------------------------------------------------------
\* Only a claim gives a process an address.
LEMMA OnlyClaims ==
  ASSUME DrainInv, [SupervisorNext]_supervisorVars,
         NEW c \in Children, child[c].at = "free", child'[c].at = "hold"
  PROVE  \E e \in Emails : Claim(c, e) /\ child'[c].box = e
  <1>1. child \in [Children -> Child] /\ child[c] \in Child
    BY TypesUnfold DEF DrainInv
  <1>2. child'[c] # child[c]
    OBVIOUS
  <1>3. child' # child
    BY <1>2
  <1>4. ~Leave /\ ~AllKilled
    BY <1>1, ChildrenLeft DEF DrainInv
  <1>5. ~UNCHANGED supervisorVars
    BY <1>3 DEF supervisorVars
  <1>6. ~Boot /\ ~Drain /\ ~RequestStop /\ ~ReconcileRaises /\ ~\E e \in Emails : AppendRow(e)
    BY <1>3, <1>4 DEF Boot, Drain, RequestStop, ReconcileRaises, AppendRow
  <1>7. ~Killed
    BY <1>4 DEF Killed, AllKilled
  <1>8. ~Supervise
    BY <1>3, <1>4 DEF Supervise, LoopTop, StopAtLoop, ConvertOne, AfterConvert, RebuildWork, ClearLedger,
       PatchConfig, EpochDone, Drained, EpochRaises, After, AllDone, Ends
  <1>9. PICK d \in Children : Launch(d) \/ Register(d)
    BY <1>5, <1>6, <1>7, <1>8 DEF SupervisorNext
  <1>10. \A new : Becomes(d, new) => child'[d] = new /\ \A x \in Children \ {d} : child'[x] = child[x]
    BY <1>1 DEF Becomes
  <1>11. \E new : Becomes(d, new)
    <2>1. Launch(d) \/ Rotate(d) \/ Persist(d) \/ PersistFails(d) => \E new : Becomes(d, new)
      BY DEF Launch, Rotate, Persist, PersistFails
    <2>2. (\E e \in Emails : Claim(d, e)) => \E new : Becomes(d, new)
      BY DEF Claim
    <2>3. SaveSso(d) \/ FinishChild(d) \/ ReturnRow(d) \/ ChildEnds(d) => \E new : Becomes(d, new)
      BY DEF SaveSso, FinishChild, ReturnRow, ChildEnds
    <2>4. QED
      BY <1>9, <2>1, <2>2, <2>3 DEF Register
  <1>12. d = c
    BY <1>2, <1>10, <1>11
  <1>13. ~Rotate(c) /\ ~Persist(c) /\ ~PersistFails(c) /\ ~SaveSso(c) /\ ~FinishChild(c) /\ ~ReturnRow(c)
    BY DEF Rotate, Persist, PersistFails, SaveSso, FinishChild, ReturnRow
  <1>14. ~Launch(c)
    <2>1. [NoChild EXCEPT !.at = "free"].at = "free"
      BY DownTyped DEF Child
    <2>2. QED
      BY <1>10, <1>12, <2>1 DEF Launch
  <1>15. ~ChildEnds(c)
    <2>1. NoChild.at = "none"
      BY DEF NoChild
    <2>2. QED
      BY <1>10, <1>12, <2>1 DEF ChildEnds
  <1>16. PICK e \in Emails : Claim(c, e)
    BY <1>9, <1>12, <1>13, <1>14, <1>15 DEF Register
  <1>17. child'[c].box = e
    <2>1. child'[c] = [child[c] EXCEPT !.at = "hold", !.box = e, !.token = work[e]]
      BY <1>10, <1>12, <1>16 DEF Claim
    <2>2. QED
      BY <1>1, <2>1 DEF Child
  <1>18. QED
    BY <1>16, <1>17

\* No process is given an address that has an SSO file or a credential, in the
\* epoch of that registration or in a later one (_select_epoch omits them, the
\* ledger keeps them away), as long as no process has outlived its supervisor.
THEOREM NobodyTwice == SupervisorSpec => NeverRegisteredAgain
  <1>1. ASSUME DrainInv, [SupervisorNext]_supervisorVars
        PROVE  \A c \in Children : child[c].at = "free" /\ child'[c].at = "hold" /\ ~orphaned
                 => child'[c].box \notin sso \cup creds
    BY <1>1, OnlyClaims, ClaimKeeps DEF Done
  <1>2. DrainInv /\ [SupervisorNext]_supervisorVars
        => [\A c \in Children : child[c].at = "free" /\ child'[c].at = "hold" /\ ~orphaned
              => child'[c].box \notin sso \cup creds]_supervisorVars
    BY <1>1
  <1>3. QED
    BY <1>2, SupervisorInvariant, PTL DEF SupervisorSpec, NeverRegisteredAgain

\* A supervisor that says how it ended has ended between its epochs, or says
\* that it failed.
LEMMA EndsBetween ==
  ASSUME [SupervisorNext]_supervisorVars, ~At("down"), state' # state, At("down")'
  PROVE  sup.at \in {"loop", "convert", "after"} \/ state'.status = "error"
  <1>1. \A c \in Children : ~Launch(c) /\ ~Register(c)
    <2>1. \A c \in Children : ~Launch(c) /\ ~Rotate(c) /\ ~Persist(c) /\ ~PersistFails(c)
      BY DEF Launch, Rotate, Persist, PersistFails
    <2>2. \A c \in Children : ~SaveSso(c) /\ ~FinishChild(c) /\ ~ReturnRow(c) /\ ~ChildEnds(c)
      BY DEF SaveSso, FinishChild, ReturnRow, ChildEnds
    <2>3. \A c \in Children : \A e \in Emails : ~Claim(c, e)
      BY DEF Claim
    <2>4. QED
      BY <2>1, <2>2, <2>3 DEF Register
  <1>2. ~\E e \in Emails : AppendRow(e)
    BY DEF AppendRow
  <1>3. ~Boot /\ ~Drain /\ ~RequestStop /\ ~ReconcileRaises /\ ~Killed /\ ~UNCHANGED supervisorVars
    BY DEF Boot, Drain, RequestStop, ReconcileRaises, Killed, supervisorVars
  <1>4. Supervise
    BY <1>1, <1>2, <1>3 DEF SupervisorNext
  <1>5. ~ConvertOne /\ ~RebuildWork /\ ~ClearLedger /\ ~PatchConfig /\ ~EpochDone /\ ~Drained
    BY DEF ConvertOne, RebuildWork, ClearLedger, PatchConfig, EpochDone, Drained
  <1>6. EpochRaises => state'.status = "error"
    BY DEF EpochRaises, Ends
  <1>7. LoopTop \/ StopAtLoop \/ AfterConvert \/ After => sup.at \in {"loop", "convert", "after"}
    BY DEF LoopTop, StopAtLoop, AfterConvert, After, At
  <1>8. QED
    BY <1>4, <1>5, <1>6, <1>7 DEF Supervise

\* A supervisor that writes "complete" or "stopped" and ends has drained the
\* processes of its epoch (_stop_service comes before it).
THEOREM OrderlyEnd == SupervisorSpec => EndsWithoutChildren
  <1>1. ASSUME DrainInv, [SupervisorNext]_supervisorVars,
               ~At("down"), At("down")', state' # state, state'.status \in {"complete", "stopped"}
        PROVE  \A c \in Children : ~Own(c)
    <2>1. sup.at \in {"loop", "convert", "after"}
      BY <1>1, EndsBetween
    <2>2. QED
      BY <1>1, <2>1 DEF DrainInv, OwnInEpoch, Between
  <1>2. DrainInv /\ [SupervisorNext]_supervisorVars
        => [~At("down") /\ At("down")' /\ state' # state /\ state'.status \in {"complete", "stopped"}
              => \A c \in Children : ~Own(c)]_supervisorVars
    BY <1>1
  <1>3. QED
    BY <1>2, SupervisorInvariant, PTL DEF SupervisorSpec, EndsWithoutChildren
=============================================================================
