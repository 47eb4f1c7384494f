-------------------------- MODULE LocalSolveProofs --------------------------
(***************************************************************************)
(* For every number of captures, processes and slots, every site and every *)
(* length of the rounds: the Chromes of captures that go on are never more *)
(* than the limit, a capture that ends leaves only what it could not know  *)
(* of or remove, no cleanup takes the row or the directory of a Chrome     *)
(* that runs, a page that gives no token is left in time, and no click is  *)
(* one too many.                                                           *)
(*                                                                         *)
(* Where a capture is says what it holds and what names it (Keeping), so   *)
(* that a Chrome in use has a slot. What a sweep has read is not launched  *)
(* again, and what it has killed stays dead until it removes it (Swept),   *)
(* because no capture goes back to where it launches (Onward). That a page *)
(* is left in time follows from its clocks (Clocked): the next diagnosis   *)
(* is never further away than a round allows and a page has been of no use *)
(* no longer than since the last one, or, where the challenge is waited    *)
(* for, since the first one.                                               *)
(***************************************************************************)
EXTENDS LocalSolve, FiniteSetTheorems, WellFoundedInduction, TLAPS

-----------------------------------------------------------------------------
(* The invariant *)

Before == {"unused", "slot", "prepare", "launch"}
Working == {"prepare", "launch", "connect", "register", "page", "quit", "finish"}

\* What the capture c holds where it is.
Keeping(c) ==
  /\ Running(c) <=> capture[c].at \notin {"unused", "over"}
  /\ c \in holders <=> capture[c].at \in Working
  /\ c \in forwarders => capture[c].at \in Working \ {"prepare"}
  /\ capture[c].at \in Before => c \notin chromes
  /\ capture[c].orphan => capture[c].at \in {"quit", "finish", "over"}
  /\ capture[c].at = "finish" /\ c \in chromes => capture[c].orphan
  /\ owner[OwnerOf[c]] = "up" /\ capture[c].at = "over" /\ c \in chromes => capture[c].orphan
  /\ owner[OwnerOf[c]] = "up" /\ capture[c].at \in {"unused", "slot", "prepare"} => c \notin profiles
  /\ owner[OwnerOf[c]] = "up" /\ capture[c].at = "over" /\ c \in profiles => capture[c].lost
  /\ c \in rows => capture[c].at \notin Before \cup {"connect", "register"} /\ ~capture[c].orphan
  /\ capture[c].at \notin {"page", "quit", "finish"} => watch[c] = Idle

Timed == {"enter", "look", "start", "read", "prime", "click", "diag", "miss", "validate"}

\* A challenge is the one page that is waited for.
Patient(pg) == pg.kind = "challenge" /\ ~pg.error
Waits(pg) == IF Patient(pg) THEN 4 ELSE 1

\* The clicks and the clock of the priming.
Cautious(w) ==
  /\ w.toPrime >= 8
  /\ w.clicks <= 1
  /\ w.clicks = 1 => w.toPrime >= 20 /\ w.at # "click"
  /\ w.at = "click" => w.toPrime >= 20

\* The clocks of the diagnosis, and for how long the page has been of no use.
Clocked(w, pg) ==
  /\ w.toDiag <= w.t + 10
  /\ w.t < w.toDiag + LongestRound
  /\ w.at \in {"prime", "click", "diag"} => w.t < Timeout
  /\ pg.stuck <= w.t
  /\ ~Patient(pg) => pg.stuck = 0 \/ pg.stuck + w.toDiag <= w.t + 10
  /\ Patient(pg) /\ Futile(pg) =>
       \/ w.challenge = NoTime /\ w.toDiag = 5
       \/ w.challenge # NoTime /\ w.challenge < 5 + LongestRound /\ w.toDiag <= w.challenge + 34

Watched(w, pg) ==
  /\ w.at \notin Timed => w = [Idle EXCEPT !.at = w.at]
  /\ w.at \in Timed => Cautious(w) /\ Clocked(w, pg)
  /\ pg.stuck < Waits(pg) * (10 + LongestRound)

IInv ==
  /\ TypeOK
  /\ Cardinality(holders) <= Limit
  /\ \A c \in Captures : Keeping(c)
  /\ \A c \in Captures : Watched(watch[c], page[c])

-----------------------------------------------------------------------------
(* The longest round *)

LEMMA MaxIn ==
  ASSUME NEW S \in SUBSET Nat, S # {}, IsFiniteSet(S)
  PROVE  \E x \in S : \A y \in S : y <= x
  <1> DEFINE Above(x) == {y \in S : x < y}
             T == {Above(x) : x \in S}
  <1>1. S \subseteq Int
    OBVIOUS
  <1>2. T \subseteq SUBSET S /\ T # {}
    OBVIOUS
  <1>3. \E x \in T : \A y \in T : ~ (<<y, x>> \in StrictSubsetOrdering(S))
    <2>1. IsWellFoundedOn(StrictSubsetOrdering(S), SUBSET S)
      BY FS_StrictSubsetOrderingWellFounded, FS_FiniteSubsetsOfFinite
    <2> HIDE DEF T
    <2>2. QED
      BY <1>2, <2>1, WFMin
  <1>4. PICK x \in S : \A y \in S : ~ (<<Above(y), Above(x)>> \in StrictSubsetOrdering(S))
    BY <1>3
  <1>5. ASSUME NEW y \in S, x < y PROVE FALSE
    <2>1. \A z \in S : y < z => x < z
      BY <1>1, <1>5
    <2>2. Above(y) \subseteq Above(x)
      BY <2>1
    <2>3. y \in Above(x) /\ y \notin Above(y)
      BY <1>1, <1>5
    <2>4. <<Above(y), Above(x)>> \in StrictSubsetOrdering(S)
      BY <2>2, <2>3 DEF StrictSubsetOrdering
    <2>5. QED
      BY <1>4, <2>4
  <1>6. QED
    BY <1>1, <1>5

LEMMA Longest ==
  ASSUME site \in Site
  PROVE  /\ LongestRound \in Nat \ {0}
         /\ \A d \in site.rounds : d \in Nat \ {0} /\ d <= LongestRound
  <1>1. site.rounds \in SUBSET (Nat \ {0}) /\ site.rounds # {} /\ IsFiniteSet(site.rounds)
    BY DEF Site
  <1>2. \E x \in site.rounds : \A y \in site.rounds : y <= x
    BY <1>1, MaxIn
  <1>3. LongestRound \in site.rounds /\ \A y \in site.rounds : y <= LongestRound
    BY <1>2 DEF LongestRound
  <1>4. QED
    BY <1>1, <1>3

-----------------------------------------------------------------------------
(* What becomes of a page between two rounds *)

\* The page q is no worse than pg was: it has not been of no use for longer,
\* and it is waited for only if pg was.
Eases(pg, q) ==
  /\ q.stuck \in {0, pg.stuck}
  /\ Patient(q) => Patient(pg)
  /\ Patient(q) /\ Futile(q) => Futile(pg)
  /\ q.stuck # 0 /\ Patient(pg) => Patient(q)

LEMMA EasesItself ==
  ASSUME NEW pg \in Page
  PROVE  Eases(pg, pg)
  BY DEF Eases

LEMMA ShowingEases ==
  ASSUME NEW pg \in Page, NEW kind \in Kinds \ {"challenge"}
  PROVE  Showing(kind) \in Page /\ Eases(pg, Showing(kind))
  <1> DEFINE q == [Blank EXCEPT !.kind = kind, !.widget = (kind = "widget")]
  <1>1. q \in Page /\ q.kind = kind /\ q.stuck = 0
    BY DEF Blank, Page, Kinds
  <1> HIDE DEF q
  <1>2. Showing(kind) = q
    BY DEF q, Showing
  <1>3. QED
    BY <1>1, <1>2 DEF Eases, Patient

LEMMA BlankEases ==
  ASSUME NEW pg \in Page
  PROVE  Blank \in Page /\ Eases(pg, Blank)
  BY DEF Blank, Page, Kinds, Eases, Patient

LEMMA InjectedEases ==
  ASSUME NEW pg \in Page, NEW q \in Injected(pg)
  PROVE  q \in Page /\ Eases(pg, q)
  <1> DEFINE r == [pg EXCEPT !.widget = TRUE]
  <1>1. /\ r \in Page /\ r.kind = pg.kind /\ r.error = pg.error /\ r.stuck = pg.stuck
        /\ r.widget = TRUE /\ r.token = pg.token
    BY DEF Page
  <1> HIDE DEF r
  <1>2. Eases(pg, r)
    BY <1>1 DEF Eases, Patient, Futile, HasWidget
  <1>3. q = pg \/ q = r
    BY DEF Injected, Rendered, r
  <1>4. QED
    BY <1>1, <1>2, <1>3, EasesItself

LEMMA EntryEases ==
  ASSUME NEW pg \in Page, NEW q \in EntryClicked(pg)
  PROVE  q \in Page /\ Eases(pg, q)
  <1> DEFINE r == [pg EXCEPT !.kind = IF @ = "landing" THEN "entry" ELSE @]
  <1>1. /\ r \in Page /\ r.error = pg.error /\ r.stuck = pg.stuck
        /\ r.widget = pg.widget /\ r.token = pg.token
        /\ pg.kind # "landing" => r.kind = pg.kind
        /\ pg.kind = "landing" => r.kind = "entry"
    BY DEF Page, Kinds
  <1> HIDE DEF r
  <1>2. Eases(pg, r)
    BY <1>1 DEF Eases, Patient, Futile, HasWidget
  <1>3. q = pg \/ q = r
    BY DEF EntryClicked, r
  <1>4. QED
    BY <1>1, <1>2, <1>3, EasesItself

LEMMA ContinuedEases ==
  ASSUME NEW pg \in Page
  PROVE  Continued(pg) \in Page /\ Eases(pg, Continued(pg))
  <1> DEFINE k == CASE pg.kind = "entry" -> "leaving" [] pg.kind = "landing" -> "entry" [] OTHER -> pg.kind
             r == [pg EXCEPT !.kind = k]
  <1>1. /\ k \in Kinds
        /\ pg.kind \in {"entry", "landing"} => k \in {"leaving", "entry"}
        /\ pg.kind \notin {"entry", "landing"} => k = pg.kind
    <2>1. CASE pg.kind = "entry"
      <3>1. k = "leaving"
        BY <2>1
      <3>2. QED
        BY <2>1, <3>1 DEF Kinds
    <2>2. CASE pg.kind = "landing"
      <3>1. k = "entry"
        BY <2>2
      <3>2. QED
        BY <2>2, <3>1 DEF Kinds
    <2>3. CASE pg.kind \notin {"entry", "landing"}
      <3>1. k = pg.kind
        BY <2>3
      <3>2. QED
        BY <2>3, <3>1 DEF Page
    <2>4. QED
      BY <2>1, <2>2, <2>3
  <1> HIDE DEF k
  <1>2. /\ r \in Page /\ r.error = pg.error /\ r.stuck = pg.stuck /\ r.kind = k
        /\ r.widget = pg.widget /\ r.token = pg.token
    BY <1>1 DEF Page
  <1> HIDE DEF r
  <1>3. Eases(pg, r)
    BY <1>1, <1>2 DEF Eases, Patient, Futile, HasWidget
  <1>4. Continued(pg) = r
    BY DEF Continued, r, k
  <1>5. QED
    BY <1>2, <1>3, <1>4

LEMMA NudgedEases ==
  ASSUME NEW pg \in Page, NEW q \in Page, Eases(pg, q)
  PROVE  Nudged(q) \in Page /\ Eases(pg, Nudged(q))
  <1> DEFINE r == [q EXCEPT !.needsClick = FALSE]
  <1>1. /\ r \in Page /\ r.error = q.error /\ r.stuck = q.stuck /\ r.kind = q.kind
        /\ r.widget = q.widget /\ r.token = q.token
    BY DEF Page
  <1> HIDE DEF r
  <1>2. Eases(pg, r)
    BY <1>1 DEF Eases, Patient, Futile, HasWidget
  <1>3. Nudged(q) = r
    BY DEF Nudged, r
  <1>4. QED
    BY <1>1, <1>2, <1>3

\* Whatever the site does to a page eases it.
LEMMA PageMovesEase ==
  ASSUME PageTypeOK, NEW c \in Captures, PageMoves(c)
  PROVE  /\ page' \in [Captures -> Page] /\ UNCHANGED <<watch, site>>
         /\ \A d \in Captures \ {c} : page'[d] = page[d]
         /\ Eases(page[c], page'[c])
  <1> DEFINE pg == page[c]
             Becomes(q) == page' = [page EXCEPT ![c] = q]
  <1>1. pg \in Page /\ page \in [Captures -> Page] /\ UNCHANGED <<watch, site>>
    BY DEF PageTypeOK, PageMoves
  <1>2. ASSUME NEW q \in Page, Becomes(q), Eases(pg, q)
        PROVE  /\ page' \in [Captures -> Page]
               /\ \A d \in Captures \ {c} : page'[d] = page[d]
               /\ Eases(page[c], page'[c])
    BY <1>1, <1>2
  <1>3. CASE \E kind \in {"landing", "entry", "blocked"} : Becomes(Showing(kind))
    <2>1. PICK kind \in {"landing", "entry", "blocked"} : Becomes(Showing(kind))
      BY <1>3
    <2>2. kind \in Kinds \ {"challenge"}
      BY DEF Kinds
    <2>3. Showing(kind) \in Page /\ Eases(pg, Showing(kind))
      BY <1>1, <2>2, ShowingEases
    <2>4. QED
      BY <1>1, <1>2, <2>1, <2>3
  <1>4. ASSUME pg.kind = "leaving", NEW kind \in {"entry", "widget", "otp"},
               Becomes([pg EXCEPT !.kind = kind, !.stuck = 0, !.widget = @ \/ kind = "widget"])
        PROVE  \E q \in Page : Becomes(q) /\ Eases(pg, q)
    <2> DEFINE q == [pg EXCEPT !.kind = kind, !.stuck = 0, !.widget = @ \/ kind = "widget"]
    <2>1. q \in Page /\ q.stuck = 0 /\ q.kind = kind
      BY <1>1 DEF Page, Kinds
    <2>2. Becomes(q)
      BY <1>4
    <2> HIDE DEF q
    <2>3. Eases(pg, q)
      BY <2>1 DEF Eases, Patient
    <2>4. QED
      BY <2>1, <2>2, <2>3
  <1>5. ASSUME pg.kind = "entry", Becomes([pg EXCEPT !.kind = "widget", !.widget = TRUE])
        PROVE  \E q \in Page : Becomes(q) /\ Eases(pg, q)
    <2> DEFINE q == [pg EXCEPT !.kind = "widget", !.widget = TRUE]
    <2>1. q \in Page /\ q.stuck = pg.stuck /\ q.kind = "widget"
      BY <1>1 DEF Page, Kinds
    <2>2. Becomes(q)
      BY <1>5
    <2> HIDE DEF q
    <2>3. Eases(pg, q)
      BY <1>5, <2>1 DEF Eases, Patient
    <2>4. QED
      BY <2>1, <2>2, <2>3
  <1>6. ASSUME pg.widget, ~pg.error, Becomes([pg EXCEPT !.error = TRUE, !.stuck = 0])
        PROVE  \E q \in Page : Becomes(q) /\ Eases(pg, q)
    <2> DEFINE q == [pg EXCEPT !.error = TRUE, !.stuck = 0]
    <2>1. q \in Page /\ q.stuck = 0 /\ q.error = TRUE
      BY <1>1 DEF Page
    <2>2. Becomes(q)
      BY <1>6
    <2> HIDE DEF q
    <2>3. Eases(pg, q)
      BY <2>1 DEF Eases, Patient
    <2>4. QED
      BY <2>1, <2>2, <2>3
  <1>7. ASSUME pg.widget, Becomes([pg EXCEPT !.token = TRUE])
        PROVE  \E q \in Page : Becomes(q) /\ Eases(pg, q)
    <2> DEFINE q == [pg EXCEPT !.token = TRUE]
    <2>1. q \in Page /\ q.stuck = pg.stuck /\ q.kind = pg.kind /\ q.error = pg.error /\ q.widget = pg.widget
      BY <1>1 DEF Page
    <2>2. Becomes(q)
      BY <1>7
    <2> HIDE DEF q
    <2>3. Eases(pg, q)
      BY <1>7, <2>1 DEF Eases, Patient, Futile, HasWidget
    <2>4. QED
      BY <2>1, <2>2, <2>3
  <1>8. ASSUME pg.widget, Becomes([pg EXCEPT !.needsClick = TRUE])
        PROVE  \E q \in Page : Becomes(q) /\ Eases(pg, q)
    <2> DEFINE q == [pg EXCEPT !.needsClick = TRUE]
    <2>1. q \in Page /\ q.stuck = pg.stuck /\ q.kind = pg.kind /\ q.error = pg.error /\ q.widget = pg.widget
      BY <1>1 DEF Page
    <2>2. Becomes(q)
      BY <1>8
    <2> HIDE DEF q
    <2>3. Eases(pg, q)
      BY <1>8, <2>1 DEF Eases, Patient, Futile, HasWidget
    <2>4. QED
      BY <2>1, <2>2, <2>3
  <1>9. CASE \E kind \in {"entry", "widget", "otp"} :
               /\ pg.kind = "leaving"
               /\ page' = [page EXCEPT ![c] = [pg EXCEPT !.kind = kind, !.stuck = 0,
                                                !.widget = @ \/ kind = "widget"]]
    <2>1. PICK kind \in {"entry", "widget", "otp"} :
               /\ pg.kind = "leaving"
               /\ page' = [page EXCEPT ![c] = [pg EXCEPT !.kind = kind, !.stuck = 0,
                                                !.widget = @ \/ kind = "widget"]]
      BY <1>9
    <2>2. Becomes([pg EXCEPT !.kind = kind, !.stuck = 0, !.widget = @ \/ kind = "widget"])
      BY <2>1
    <2>3. \E q \in Page : Becomes(q) /\ Eases(pg, q)
      BY <1>4, <2>1, <2>2
    <2>4. QED
      BY <1>1, <1>2, <2>3
  <1>10. CASE pg.kind = "entry" /\ page' = [page EXCEPT ![c] = [pg EXCEPT !.kind = "widget", !.widget = TRUE]]
    BY <1>1, <1>2, <1>5, <1>10
  <1>11. CASE pg.widget /\ ~pg.error /\ page' = [page EXCEPT ![c].error = TRUE, ![c].stuck = 0]
    <2>1. Becomes([pg EXCEPT !.error = TRUE, !.stuck = 0])
      BY <1>1, <1>11 DEF Page
    <2>2. QED
      BY <1>1, <1>2, <1>6, <1>11, <2>1
  <1>12. CASE pg.widget /\ page' = [page EXCEPT ![c].token = TRUE]
    BY <1>1, <1>2, <1>7, <1>12
  <1>13. CASE pg.widget /\ page' = [page EXCEPT ![c].needsClick = TRUE]
    BY <1>1, <1>2, <1>8, <1>13
  <1>14. QED
    BY <1>1, <1>3, <1>9, <1>10, <1>11, <1>12, <1>13 DEF PageMoves

-----------------------------------------------------------------------------
(* What the loop makes of a page that is watched *)

LEMMA WaitsIn ==
  ASSUME NEW pg \in Page
  PROVE  /\ Patient(pg) => Waits(pg) = 4
         /\ ~Patient(pg) => Waits(pg) = 1
  BY DEF Waits

\* A step that takes no time, on a page that is no worse.
LEMMA Stepping ==
  ASSUME site \in Site,
         NEW w \in Watch, NEW v \in Watch, NEW pg \in Page, NEW q \in Page,
         Watched(w, pg), w.at \in Timed, v.at \in Timed,
         v.t = w.t, v.toDiag = w.toDiag, v.challenge = w.challenge,
         Cautious(v), v.at \in {"prime", "click", "diag"} => v.t < Timeout,
         Eases(pg, q)
  PROVE  Watched(v, q)
  <1>1. LongestRound \in Nat \ {0}
    BY Longest
  <1>2. /\ w.t \in Nat /\ w.toDiag \in Nat /\ w.challenge \in 0 .. Timeout /\ Timeout \in Nat
        /\ pg.stuck \in Nat /\ q.stuck \in Nat
    BY PageAssumption DEF Watch, Page
  <1>3. Clocked(w, pg) /\ pg.stuck < Waits(pg) * (10 + LongestRound)
    BY DEF Watched
  <1>4. q.stuck = 0 \/ q.stuck = pg.stuck
    BY DEF Eases
  <1>5. ~Patient(q) => q.stuck = 0 \/ q.stuck + v.toDiag <= v.t + 10
    BY <1>2, <1>3, <1>4 DEF Eases, Clocked
  <1>6. Patient(q) /\ Futile(q) =>
          \/ v.challenge = NoTime /\ v.toDiag = 5
          \/ v.challenge # NoTime /\ v.challenge < 5 + LongestRound /\ v.toDiag <= v.challenge + 34
    BY <1>3 DEF Eases, Clocked
  <1>7. q.stuck <= v.t
    BY <1>2, <1>3, <1>4 DEF Clocked
  <1>8. v.toDiag <= v.t + 10 /\ v.t < v.toDiag + LongestRound
    BY <1>3 DEF Clocked
  <1>9. Clocked(v, q)
    BY <1>5, <1>6, <1>7, <1>8 DEF Clocked
  <1>10. q.stuck < Waits(q) * (10 + LongestRound)
    <2>1. CASE q.stuck = 0
      BY <1>1, <2>1, WaitsIn
    <2>2. CASE q.stuck # 0
      <3>1. q.stuck = pg.stuck
        BY <1>4, <2>2
      <3>2. Patient(pg) => Patient(q)
        BY <2>2 DEF Eases
      <3>3. QED
        BY <1>1, <1>2, <1>3, <3>1, <3>2, WaitsIn
    <2>3. QED
      BY <2>1, <2>2
  <1>11. QED
    BY <1>9, <1>10 DEF Watched

\* A loop that has ended keeps no clocks.
LEMMA GaveUp ==
  ASSUME site \in Site, NEW w \in Watch, NEW pg \in Page, Watched(w, pg),
         NEW a \in {"idle", "open", "token", "failed"}
  PROVE  [Idle EXCEPT !.at = a] \in Watch /\ Watched([Idle EXCEPT !.at = a], pg)
  <1> DEFINE v == [Idle EXCEPT !.at = a]
  <1>1. v \in Watch /\ v.at = a
    BY PageAssumption DEF Idle, Watch, NoTime
  <1>2. v = [Idle EXCEPT !.at = v.at]
    BY <1>1
  <1> HIDE DEF v
  <1>3. v.at \notin Timed
    BY <1>1 DEF Timed
  <1>4. pg.stuck < Waits(pg) * (10 + LongestRound)
    BY DEF Watched
  <1>5. Watched(v, pg)
    BY <1>2, <1>3, <1>4 DEF Watched
  <1>6. QED
    BY <1>1, <1>5 DEF v

LEMMA TimePasses ==
  ASSUME NEW w \in Watch, NEW d \in Nat
  PROVE  \E v \in Watch :
           /\ v = [w EXCEPT !.at = "read", !.t = @ + d]
           /\ v.at = "read" /\ v.t = w.t + d /\ v.toDiag = w.toDiag
           /\ v.challenge = w.challenge /\ v.toPrime = w.toPrime /\ v.clicks = w.clicks
  <1> DEFINE t == w.t + d
             v == [w EXCEPT !.at = "read", !.t = t]
  <1>1. t \in Nat
    BY DEF Watch
  <1>2. [w EXCEPT !.at = "read", !.t = @ + d] = v
    OBVIOUS
  <1> HIDE DEF t
  <1>3. /\ v \in Watch /\ v.at = "read" /\ v.t = t /\ v.toDiag = w.toDiag
        /\ v.challenge = w.challenge /\ v.toPrime = w.toPrime /\ v.clicks = w.clicks
    BY <1>1 DEF Watch
  <1> HIDE DEF v
  <1>4. QED
    BY <1>2, <1>3 DEF t

LEMMA Wears ==
  ASSUME NEW pg \in Page, NEW d \in Nat
  PROVE  /\ Worn(pg, d) \in Page
         /\ Patient(Worn(pg, d)) <=> Patient(pg)
         /\ Futile(Worn(pg, d)) <=> Futile(pg)
         /\ Futile(pg) => Worn(pg, d).stuck = pg.stuck + d
         /\ ~Futile(pg) => Worn(pg, d).stuck = 0
  <1> DEFINE s == IF Futile(pg) THEN pg.stuck + d ELSE 0
             q == [pg EXCEPT !.stuck = s]
  <1>1. s \in Nat /\ (Futile(pg) => s = pg.stuck + d) /\ (~Futile(pg) => s = 0)
    BY DEF Page
  <1> HIDE DEF s
  <1>2. /\ q \in Page /\ q.stuck = s /\ q.kind = pg.kind /\ q.error = pg.error
        /\ q.widget = pg.widget /\ q.token = pg.token
    BY <1>1 DEF Page
  <1> HIDE DEF q
  <1>3. /\ Patient(q) <=> Patient(pg)
        /\ Futile(q) <=> Futile(pg)
    BY <1>2 DEF Patient, Futile, HasWidget
  <1>4. Worn(pg, d) = q
    BY DEF Worn, q, s
  <1>5. QED
    BY <1>1, <1>2, <1>3, <1>4

\* The time of a round passes on a page that was just not given up: it was
\* not diagnosed, or it was seen to be worth waiting for.
LEMMA Ending ==
  ASSUME site \in Site, NEW w \in Watch, NEW v \in Watch, NEW pg \in Page, NEW d \in site.rounds,
         Watched(w, pg), w.at = "diag",
         v.at = "read", v.t = w.t + d, v.toPrime = w.toPrime, v.clicks = w.clicks,
         \/ /\ w.t < w.toDiag
            /\ v.toDiag = w.toDiag /\ v.challenge = w.challenge
         \/ /\ ~Futile(pg)
            /\ v.toDiag = w.t + 10
         \/ /\ Patient(pg) /\ v.challenge = (IF w.challenge = NoTime THEN w.t ELSE w.challenge)
            /\ v.toDiag = w.t + 10 /\ w.t < v.challenge + 25
  PROVE  Watched(v, Worn(pg, d))
  <1> DEFINE q == Worn(pg, d)
             L == LongestRound
  <1>1. L \in Nat \ {0} /\ d \in Nat \ {0} /\ d <= L
    BY Longest
  <1>2. /\ q \in Page
        /\ Patient(q) <=> Patient(pg)
        /\ Futile(q) <=> Futile(pg)
        /\ Futile(pg) => q.stuck = pg.stuck + d
        /\ ~Futile(pg) => q.stuck = 0
    BY <1>1, Wears
  <1>3. Clocked(w, pg) /\ Cautious(w) /\ pg.stuck < Waits(pg) * (10 + L)
    BY DEF Watched, Timed
  <1>4. /\ w.t \in Nat /\ w.toDiag \in Nat /\ w.challenge \in Nat /\ Timeout \in Nat /\ v.challenge \in Nat
        /\ pg.stuck \in Nat /\ q.stuck \in Nat /\ v.t \in Nat /\ v.toDiag \in Nat
    BY <1>2, PageAssumption DEF Watch, Page
  <1>5. Cautious(v)
    BY <1>3 DEF Cautious
  <1>6. Patient(q) => Waits(q) = 4
    BY <1>2, WaitsIn
  <1>7. ~Patient(q) => Waits(q) = 1
    BY <1>2, WaitsIn
  <1> HIDE DEF q, L
  <1>8. /\ w.toDiag <= w.t + 10 /\ w.t < w.toDiag + L /\ w.t < Timeout /\ pg.stuck <= w.t
        /\ ~Patient(pg) => pg.stuck = 0 \/ pg.stuck + w.toDiag <= w.t + 10
        /\ Patient(pg) /\ Futile(pg) =>
             \/ w.challenge = NoTime /\ w.toDiag = 5
             \/ w.challenge # NoTime /\ w.challenge < 5 + L /\ w.toDiag <= w.challenge + 34
    BY <1>3 DEF Clocked, L
  <1>9. v.toDiag <= v.t + 10 /\ v.t < v.toDiag + L /\ q.stuck <= v.t
    BY <1>1, <1>2, <1>4, <1>8
  <1>10. CASE w.t < w.toDiag /\ v.toDiag = w.toDiag /\ v.challenge = w.challenge
    <2>1. ~Patient(q) => q.stuck = 0 \/ q.stuck + v.toDiag <= v.t + 10
      BY <1>1, <1>2, <1>4, <1>8, <1>10
    <2>2. Patient(q) /\ Futile(q) =>
            \/ v.challenge = NoTime /\ v.toDiag = 5
            \/ v.challenge # NoTime /\ v.challenge < 5 + L /\ v.toDiag <= v.challenge + 34
      BY <1>2, <1>8, <1>10
    <2>3. Clocked(v, q)
      BY <1>9, <2>1, <2>2 DEF Clocked, L
    <2>4. ~Patient(q) => q.stuck < 10 + L
      BY <1>1, <1>4, <1>9, <2>1
    <2>5. Patient(q) => q.stuck < 4 * (10 + L)
      BY <1>1, <1>2, <1>4, <1>9, <2>2
    <2>6. q.stuck < Waits(q) * (10 + L)
      BY <1>1, <1>4, <1>6, <1>7, <2>4, <2>5
    <2>7. QED
      BY <1>5, <2>3, <2>6 DEF Watched, q, L, Timed
  <1>11. CASE ~Futile(pg) /\ v.toDiag = w.t + 10
    <2>1. q.stuck = 0 /\ ~Futile(q)
      BY <1>2, <1>11
    <2>2. Clocked(v, q)
      BY <1>9, <2>1 DEF Clocked, L
    <2>3. q.stuck < Waits(q) * (10 + L)
      BY <1>1, <1>6, <1>7, <2>1
    <2>4. QED
      BY <1>5, <2>2, <2>3 DEF Watched, q, L, Timed
  <1>12. CASE /\ Patient(pg) /\ v.challenge = (IF w.challenge = NoTime THEN w.t ELSE w.challenge)
              /\ v.toDiag = w.t + 10 /\ w.t < v.challenge + 25
    <2>1. Patient(q)
      BY <1>2, <1>12
    <2>2. Futile(q) => v.challenge # NoTime /\ v.challenge < 5 + L /\ v.toDiag <= v.challenge + 34
      <3>1. CASE w.challenge = NoTime
        BY <1>1, <1>2, <1>4, <1>8, <1>12, <3>1 DEF NoTime
      <3>2. CASE w.challenge # NoTime
        BY <1>1, <1>2, <1>4, <1>8, <1>12, <3>2 DEF NoTime
      <3>3. QED
        BY <3>1, <3>2
    <2>3. Clocked(v, q)
      BY <1>9, <2>1, <2>2 DEF Clocked, L
    <2>4. q.stuck < 4 * (10 + L)
      BY <1>1, <1>2, <1>4, <1>9, <1>12, <2>2
    <2>5. q.stuck < Waits(q) * (10 + L)
      BY <1>6, <2>1, <2>4
    <2>6. QED
      BY <1>5, <2>3, <2>5 DEF Watched, q, L, Timed
  <1>13. QED
    BY <1>10, <1>11, <1>12 DEF q

-----------------------------------------------------------------------------
(* The actions on a page *)

\* The page and the clocks of c, and no others, have changed, and its page
\* is watched as before.
Moved(c) ==
  \E q \in Page, v \in Watch :
    /\ page' = [page EXCEPT ![c] = q]
    /\ watch' = [watch EXCEPT ![c] = v]
    /\ UNCHANGED site
    /\ Watched(v, q)

\* The clocks of a loop that only goes on to its next place.
LEMMA GoesOn ==
  ASSUME PageTypeOK, NEW c \in Captures, NEW a \in Timed, Step(c, a)
  PROVE  \E v \in Watch :
           /\ watch' = [watch EXCEPT ![c] = v]
           /\ v = [watch[c] EXCEPT !.at = a]
           /\ v.at = a
           /\ v.t = watch[c].t /\ v.toDiag = watch[c].toDiag /\ v.challenge = watch[c].challenge
           /\ v.toPrime = watch[c].toPrime /\ v.clicks = watch[c].clicks
  <1> DEFINE w == watch[c]
             v == [w EXCEPT !.at = a]
  <1>1. w \in Watch /\ watch \in [Captures -> Watch]
    BY DEF PageTypeOK
  <1>2. a \in {"idle", "open", "enter", "look", "start", "read", "prime", "click", "diag", "miss",
               "validate", "token", "failed"}
    BY DEF Timed
  <1>3. /\ v \in Watch /\ v.at = a
        /\ v.t = w.t /\ v.toDiag = w.toDiag /\ v.challenge = w.challenge
        /\ v.toPrime = w.toPrime /\ v.clicks = w.clicks
    BY <1>1, <1>2 DEF Watch
  <1>4. watch' = [watch EXCEPT ![c] = v]
    BY <1>1 DEF Step
  <1> HIDE DEF v
  <1>5. v = [watch[c] EXCEPT !.at = a]
    BY DEF v
  <1>6. QED
    BY <1>3, <1>4, <1>5

LEMMA FailMoves ==
  ASSUME PageTypeOK, NEW c \in Captures, Watched(watch[c], page[c]),
         GiveUpPage(c), UNCHANGED <<page, site>>
  PROVE  Moved(c)
  <1> DEFINE v == [Idle EXCEPT !.at = "failed"]
  <1>1. page \in [Captures -> Page] /\ page[c] \in Page /\ watch[c] \in Watch /\ site \in Site
    BY DEF PageTypeOK
  <1>2. v \in Watch /\ Watched(v, page[c])
    BY <1>1, GaveUp
  <1>3. watch' = [watch EXCEPT ![c] = v]
    BY DEF GiveUpPage
  <1> HIDE DEF v
  <1>4. page' = [page EXCEPT ![c] = page[c]]
    BY <1>1
  <1>5. QED
    BY <1>1, <1>2, <1>3, <1>4 DEF Moved

\* A step of no time to another place, on a page that is no worse.
LEMMA StepMoves ==
  ASSUME PageTypeOK, NEW c \in Captures, Watched(watch[c], page[c]),
         watch[c].at \in Timed,
         NEW a \in Timed \ {"click"}, Step(c, a),
         a \in {"prime", "diag"} => watch[c].t < Timeout,
         NEW q \in Page, page' = [page EXCEPT ![c] = q], Eases(page[c], q), UNCHANGED site
  PROVE  Moved(c)
  <1>1. page[c] \in Page /\ watch[c] \in Watch /\ site \in Site
    BY DEF PageTypeOK
  <1>2. PICK v \in Watch :
           /\ watch' = [watch EXCEPT ![c] = v]
           /\ v.at = a
           /\ v.t = watch[c].t /\ v.toDiag = watch[c].toDiag /\ v.challenge = watch[c].challenge
           /\ v.toPrime = watch[c].toPrime /\ v.clicks = watch[c].clicks
    BY GoesOn
  <1>3. Cautious(watch[c])
    BY DEF Watched
  <1>4. Cautious(v)
    BY <1>2, <1>3 DEF Cautious
  <1>5. v.at \in Timed /\ (v.at \in {"prime", "click", "diag"} => v.t < Timeout)
    BY <1>2
  <1>6. Watched(v, q)
    BY <1>1, <1>2, <1>4, <1>5, Stepping
  <1>7. QED
    BY <1>2, <1>6 DEF Moved

LEMMA OpenMoves ==
  ASSUME PageTypeOK, NEW c \in Captures, Watched(watch[c], page[c]), NEW alive \in BOOLEAN,
         Open(c, alive)
  PROVE  Moved(c)
  <1>1. /\ page \in [Captures -> Page] /\ page[c] \in Page /\ watch \in [Captures -> Watch]
        /\ watch[c] \in Watch /\ site \in Site
    BY DEF PageTypeOK
  <1>2. CASE GiveUpPage(c) /\ UNCHANGED page
    BY <1>2, FailMoves DEF Open
  <1>3. CASE Step(c, "enter") /\ \E pg \in site.opens : page' = [page EXCEPT ![c] = pg]
    <2>1. PICK q \in site.opens : page' = [page EXCEPT ![c] = q]
      BY <1>3
    <2>2. q \in Page /\ q.stuck = 0
      BY <1>1 DEF Site
    <2>3. watch[c] = [Idle EXCEPT !.at = "open"]
      BY DEF Open, Watching, Watched, Timed
    <2>4. PICK v \in Watch :
             /\ watch' = [watch EXCEPT ![c] = v]
             /\ v.at = "enter"
             /\ v.t = watch[c].t /\ v.toDiag = watch[c].toDiag /\ v.challenge = watch[c].challenge
             /\ v.toPrime = watch[c].toPrime /\ v.clicks = watch[c].clicks
      BY <1>3, GoesOn DEF Timed
    <2>5. v.t = 0 /\ v.toDiag = 5 /\ v.challenge = NoTime /\ v.toPrime = 8 /\ v.clicks = 0
      BY <2>3, <2>4 DEF Idle
    <2>6. LongestRound \in Nat \ {0}
      BY <1>1, Longest
    <2>7. Cautious(v)
      BY <2>4, <2>5 DEF Cautious
    <2>8. Clocked(v, q)
      BY <2>2, <2>4, <2>5, <2>6 DEF Clocked
    <2>9. q.stuck < Waits(q) * (10 + LongestRound)
      BY <2>2, <2>6, WaitsIn
    <2>10. Watched(v, q)
      BY <2>4, <2>7, <2>8, <2>9 DEF Watched, Timed
    <2>11. QED
      BY <2>1, <2>2, <2>4, <2>10 DEF Moved, Open
  <1>4. QED
    BY <1>2, <1>3 DEF Open

LEMMA EnterMoves ==
  ASSUME PageTypeOK, NEW c \in Captures, Watched(watch[c], page[c]), Enter(c)
  PROVE  Moved(c)
  <1>1. page[c] \in Page
    BY DEF PageTypeOK
  <1>2. PICK q \in IF site.inject THEN Injected(page[c]) ELSE EntryClicked(page[c]) :
           page' = [page EXCEPT ![c] = q]
    BY DEF Enter
  <1>3. q \in Page /\ Eases(page[c], q)
    BY <1>1, <1>2, InjectedEases, EntryEases
  <1>4. watch[c].at \in Timed
    BY DEF Enter, Watching, Timed
  <1>5. Step(c, "look") /\ UNCHANGED site
    BY DEF Enter
  <1>6. QED
    BY <1>2, <1>3, <1>4, <1>5, StepMoves DEF Timed

LEMMA FirstLookMoves ==
  ASSUME PageTypeOK, NEW c \in Captures, Watched(watch[c], page[c]), FirstLook(c)
  PROVE  Moved(c)
  <1>1. page[c] \in Page /\ page \in [Captures -> Page]
    BY DEF PageTypeOK
  <1>2. watch[c].at \in Timed /\ UNCHANGED <<page, site>>
    BY DEF FirstLook, Watching, Timed
  <1>3. Eases(page[c], page[c]) /\ page' = [page EXCEPT ![c] = page[c]]
    BY <1>1, <1>2, EasesItself
  <1>4. GiveUpPage(c) \/ Step(c, "start") \/ Step(c, "read")
    BY DEF FirstLook
  <1>5. CASE GiveUpPage(c)
    BY <1>2, <1>5, FailMoves
  <1>6. CASE Step(c, "start")
    BY <1>1, <1>2, <1>3, <1>6, StepMoves DEF Timed
  <1>7. CASE Step(c, "read")
    BY <1>1, <1>2, <1>3, <1>7, StepMoves DEF Timed
  <1>8. QED
    BY <1>4, <1>5, <1>6, <1>7

LEMMA StartFormMoves ==
  ASSUME PageTypeOK, NEW c \in Captures, Watched(watch[c], page[c]), StartForm(c)
  PROVE  Moved(c)
  <1>1. page[c] \in Page
    BY DEF PageTypeOK
  <1>2. Continued(page[c]) \in Page /\ Eases(page[c], Continued(page[c]))
    BY <1>1, ContinuedEases
  <1>3. watch[c].at \in Timed
    BY DEF StartForm, Watching, Timed
  <1>4. Step(c, "read") /\ UNCHANGED site /\ page' = [page EXCEPT ![c] = Continued(page[c])]
    BY DEF StartForm
  <1>5. QED
    BY <1>2, <1>3, <1>4, StepMoves DEF Timed

LEMMA MissMoves ==
  ASSUME PageTypeOK, NEW c \in Captures, Watched(watch[c], page[c]), Miss(c)
  PROVE  Moved(c)
  BY FailMoves DEF Miss

LEMMA ValidateMoves ==
  ASSUME PageTypeOK, NEW c \in Captures, Watched(watch[c], page[c]), Validate(c)
  PROVE  Moved(c)
  <1> DEFINE v == [Idle EXCEPT !.at = "token"]
  <1>1. page \in [Captures -> Page] /\ page[c] \in Page /\ watch[c] \in Watch /\ site \in Site
    BY DEF PageTypeOK
  <1>2. CASE GiveUpPage(c)
    BY <1>2, FailMoves DEF Validate
  <1>3. CASE watch' = [watch EXCEPT ![c] = v]
    <2>1. v \in Watch /\ Watched(v, page[c])
      BY <1>1, GaveUp
    <2> HIDE DEF v
    <2>2. page' = [page EXCEPT ![c] = page[c]]
      BY <1>1 DEF Validate
    <2>3. QED
      BY <1>1, <1>3, <2>1, <2>2 DEF Moved, Validate
  <1>4. QED
    BY <1>2, <1>3 DEF Validate

LEMMA ReadMoves ==
  ASSUME PageTypeOK, NEW c \in Captures, Watched(watch[c], page[c]), Read(c)
  PROVE  Moved(c)
  <1> DEFINE w == watch[c]
             again == site.inject /\ w.t >= w.toInject
             nudge == w.t >= w.toNudge
             i == IF again THEN w.t + 8 ELSE w.toInject
             n == IF nudge THEN w.t + 12 ELSE w.toNudge
             v == [w EXCEPT !.at = "prime", !.toInject = i, !.toNudge = n]
  <1>1. /\ page[c] \in Page /\ page \in [Captures -> Page] /\ w \in Watch
        /\ watch \in [Captures -> Watch] /\ site \in Site
    BY DEF PageTypeOK
  <1>2. w.at = "read" /\ w.at \in Timed /\ UNCHANGED site
    BY DEF Read, Watching, Timed
  <1>3. w.t \in Nat /\ Timeout \in Nat
    BY <1>1, PageAssumption DEF Watch
  <1>4. CASE UNCHANGED page /\ (Step(c, "miss") \/ Step(c, "validate"))
    <2>1. Eases(page[c], page[c]) /\ page' = [page EXCEPT ![c] = page[c]]
      BY <1>1, <1>4, EasesItself
    <2>2. CASE Step(c, "miss")
      BY <1>1, <1>2, <2>1, <2>2, StepMoves DEF Timed
    <2>3. CASE Step(c, "validate")
      BY <1>1, <1>2, <2>1, <2>3, StepMoves DEF Timed
    <2>4. QED
      BY <1>4, <2>2, <2>3
  <1>5. CASE /\ w.t < Timeout
             /\ \E pg \in IF again THEN Injected(page[c]) ELSE {page[c]} :
                  page' = [page EXCEPT ![c] = IF nudge THEN Nudged(pg) ELSE pg]
             /\ watch' = [watch EXCEPT ![c] = v]
    <2>1. PICK pg \in IF again THEN Injected(page[c]) ELSE {page[c]} :
             page' = [page EXCEPT ![c] = IF nudge THEN Nudged(pg) ELSE pg]
      BY <1>5
    <2>2. pg \in Page /\ Eases(page[c], pg)
      BY <1>1, <2>1, InjectedEases, EasesItself
    <2>3. Nudged(pg) \in Page /\ Eases(page[c], Nudged(pg))
      BY <1>1, <2>2, NudgedEases
    <2>4. PICK q \in Page : page' = [page EXCEPT ![c] = q] /\ Eases(page[c], q)
      <3>1. CASE nudge
        BY <2>1, <2>3, <3>1
      <3>2. CASE ~nudge
        BY <2>1, <2>2, <3>2
      <3>3. QED
        BY <3>1, <3>2
    <2>5. i \in Nat /\ n \in Nat
      BY <1>1, <1>3 DEF Watch
    <2> HIDE DEF i, n
    <2>6. /\ v \in Watch /\ v.at = "prime" /\ v.t = w.t /\ v.toDiag = w.toDiag
          /\ v.challenge = w.challenge /\ v.toPrime = w.toPrime /\ v.clicks = w.clicks
      BY <1>1, <2>5 DEF Watch
    <2>7. watch' = [watch EXCEPT ![c] = v]
      BY <1>5
    <2> HIDE DEF v
    <2>8. Cautious(w)
      BY <1>2 DEF Watched
    <2>9. Cautious(v) /\ v.at \in Timed /\ v.t < Timeout
      BY <1>5, <2>6, <2>8 DEF Cautious, Timed
    <2>10. Watched(v, q)
      BY <1>1, <1>2, <2>4, <2>6, <2>9, Stepping
    <2>11. QED
      BY <1>2, <2>4, <2>6, <2>7, <2>10 DEF Moved
  <1>6. \/ UNCHANGED page /\ (Step(c, "miss") \/ Step(c, "validate"))
        \/ /\ w.t < Timeout
           /\ \E pg \in IF again THEN Injected(page[c]) ELSE {page[c]} :
                page' = [page EXCEPT ![c] = IF nudge THEN Nudged(pg) ELSE pg]
           /\ watch' = [watch EXCEPT ![c] = v]
    <2>1. CASE w.t >= Timeout
      BY <2>1 DEF Read
    <2>2. CASE ~(w.t >= Timeout) /\ Shown(page[c])
      BY <2>2 DEF Read
    <2>3. CASE ~(w.t >= Timeout) /\ ~Shown(page[c])
      BY <1>3, <2>3 DEF Read
    <2>4. QED
      BY <2>1, <2>2, <2>3
  <1>7. QED
    BY <1>4, <1>5, <1>6

LEMMA PrimeMoves ==
  ASSUME PageTypeOK, NEW c \in Captures, Watched(watch[c], page[c]), Prime(c)
  PROVE  Moved(c)
  <1> DEFINE w == watch[c]
             due == ~site.inject /\ w.t >= w.toPrime
             bare == ~HasWidget(page[c])
             a == IF due /\ bare /\ w.t <= ContinueUntil THEN "click" ELSE "diag"
             p == IF due THEN w.t + PrimeAgain ELSE w.toPrime
             v == [w EXCEPT !.at = a, !.toPrime = p]
  <1>1. /\ page[c] \in Page /\ page \in [Captures -> Page] /\ w \in Watch
        /\ watch \in [Captures -> Watch] /\ site \in Site
    BY DEF PageTypeOK
  <1>2. w.at = "prime" /\ w.at \in Timed /\ UNCHANGED <<page, site>>
    BY DEF Prime, Watching, Timed
  <1>3. w.t \in Nat /\ w.toPrime \in Nat
    BY <1>1 DEF Watch
  <1>4. CASE GiveUpPage(c)
    BY <1>2, <1>4, FailMoves
  <1>5. CASE watch' = [watch EXCEPT ![c] = v]
    <2>1. Cautious(w) /\ w.t < Timeout
      BY <1>2 DEF Watched, Clocked
    <2>2. /\ a \in {"click", "diag"} /\ p \in Nat
          /\ p >= w.toPrime
          /\ a = "click" => p >= 20 /\ w.t <= 12 /\ w.toPrime <= w.t
      BY <1>3, <2>1 DEF PrimeAgain, ContinueUntil, Cautious
    <2> HIDE DEF a, p
    <2>3. /\ v \in Watch /\ v.at = a /\ v.t = w.t /\ v.toDiag = w.toDiag
          /\ v.challenge = w.challenge /\ v.toPrime = p /\ v.clicks = w.clicks
      BY <1>1, <2>2 DEF Watch
    <2>4. watch' = [watch EXCEPT ![c] = v]
      BY <1>5
    <2> HIDE DEF v
    <2>5. w.clicks = 1 => a # "click"
      BY <1>3, <2>1, <2>2 DEF Cautious
    <2>6. p >= 8 /\ (w.clicks = 1 => p >= 20)
      BY <1>3, <2>1, <2>2 DEF Cautious
    <2>7. Cautious(v)
      BY <2>1, <2>2, <2>3, <2>5, <2>6 DEF Cautious
    <2>8. v.at \in Timed /\ v.t < Timeout
      BY <2>1, <2>2, <2>3 DEF Timed
    <2>9. Eases(page[c], page[c]) /\ page' = [page EXCEPT ![c] = page[c]]
      BY <1>1, <1>2, EasesItself
    <2>10. Watched(v, page[c])
      BY <1>1, <1>2, <2>3, <2>7, <2>8, <2>9, Stepping
    <2>11. QED
      BY <1>1, <1>2, <2>3, <2>4, <2>9, <2>10 DEF Moved
  <1>6. GiveUpPage(c) \/ watch' = [watch EXCEPT ![c] = v]
    BY DEF Prime
  <1>7. QED
    BY <1>4, <1>5, <1>6

LEMMA ClickMoves ==
  ASSUME PageTypeOK, NEW c \in Captures, Watched(watch[c], page[c]), Click(c)
  PROVE  Moved(c)
  <1> DEFINE w == watch[c]
             n == w.clicks + 1
             v == [w EXCEPT !.at = "diag", !.clicks = n]
             q == Continued(page[c])
  <1>1. /\ page[c] \in Page /\ w \in Watch /\ watch \in [Captures -> Watch] /\ site \in Site
    BY DEF PageTypeOK
  <1>2. w.at = "click" /\ w.at \in Timed /\ UNCHANGED site
    BY DEF Click, Watching, Timed
  <1>3. q \in Page /\ Eases(page[c], q)
    BY <1>1, ContinuedEases
  <1>4. page' = [page EXCEPT ![c] = q] /\ watch' = [watch EXCEPT ![c] = v]
    BY DEF Click
  <1>5. w.clicks \in Nat /\ w.toPrime \in Nat /\ n \in Nat
    BY <1>1 DEF Watch
  <1> HIDE DEF n
  <1>6. /\ v \in Watch /\ v.at = "diag" /\ v.t = w.t /\ v.toDiag = w.toDiag
        /\ v.challenge = w.challenge /\ v.toPrime = w.toPrime /\ v.clicks = n
    BY <1>1, <1>5 DEF Watch
  <1> HIDE DEF v, q
  <1>7. Cautious(w) /\ w.t < Timeout
    BY <1>2 DEF Watched, Clocked
  <1>8. w.clicks = 0 /\ w.toPrime >= 20
    BY <1>2, <1>5, <1>7 DEF Cautious
  <1>9. Cautious(v) /\ v.at \in Timed /\ v.t < Timeout
    BY <1>5, <1>6, <1>7, <1>8 DEF Cautious, Timed, n
  <1>10. Watched(v, q)
    BY <1>1, <1>2, <1>3, <1>6, <1>9, Stepping
  <1>11. QED
    BY <1>2, <1>3, <1>4, <1>6, <1>10 DEF Moved

LEMMA DiagnoseMoves ==
  ASSUME PageTypeOK, NEW c \in Captures, Watched(watch[c], page[c]), Diagnose(c)
  PROVE  Moved(c)
  <1> DEFINE w == watch[c]
             pg == page[c]
             seen == Classified(pg)
             since == IF w.challenge = NoTime THEN w.t ELSE w.challenge
             tired == seen = "challenge" /\ w.t - since >= ChallengePatience
             ch == IF seen = "challenge" THEN since ELSE NoTime
             next == w.t + 10
             u == [w EXCEPT !.toDiag = next, !.challenge = ch]
  <1>1. /\ pg \in Page /\ page \in [Captures -> Page] /\ w \in Watch
        /\ watch \in [Captures -> Watch] /\ site \in Site
    BY DEF PageTypeOK
  <1>2. w.at = "diag" /\ w.at \in Timed /\ UNCHANGED site
    BY DEF Diagnose, Watching, Timed
  <1>3. w.t \in Nat /\ w.toDiag \in Nat /\ w.challenge \in 0 .. Timeout /\ w.t < Timeout /\ Timeout \in Nat
    BY <1>1, <1>2, PageAssumption DEF Watch, Watched, Clocked
  <1>4. CASE GiveUpPage(c) /\ UNCHANGED page
    BY <1>2, <1>4, FailMoves
  <1>5. CASE w.t < w.toDiag /\ EndRound(c, w)
    <2>1. PICK d \in site.rounds :
             /\ watch' = [watch EXCEPT ![c] = [w EXCEPT !.at = "read", !.t = @ + d]]
             /\ page' = [page EXCEPT ![c] = Worn(pg, d)]
      BY <1>5 DEF EndRound
    <2>2. d \in Nat
      BY <1>1, Longest
    <2>3. PICK v \in Watch :
             /\ v = [w EXCEPT !.at = "read", !.t = @ + d]
             /\ v.at = "read" /\ v.t = w.t + d /\ v.toDiag = w.toDiag
             /\ v.challenge = w.challenge /\ v.toPrime = w.toPrime /\ v.clicks = w.clicks
      BY <1>1, <2>2, TimePasses
    <2>4. watch' = [watch EXCEPT ![c] = v]
      BY <2>1, <2>3
    <2>5. Watched(v, Worn(pg, d))
      BY <1>1, <1>2, <1>5, <2>3, Ending
    <2>6. Worn(pg, d) \in Page
      BY <1>1, <2>2, Wears
    <2>7. QED
      BY <1>2, <2>1, <2>3, <2>4, <2>5, <2>6 DEF Moved
  <1>6. CASE ~Hopeless(pg) /\ ~tired /\ EndRound(c, u)
    <2>1. since \in 0 .. Timeout /\ since # NoTime /\ since \in Nat
      BY <1>3 DEF NoTime
    <2>2. ch \in 0 .. Timeout /\ (seen = "challenge" => ch = since)
      BY <1>3, <2>1 DEF NoTime
    <2>3. seen = "challenge" => w.t < since + 25
      BY <1>3, <1>6, <2>1 DEF ChallengePatience
    <2> next \in Nat
      BY <1>3
    <2> HIDE DEF ch, next
    <2>4. /\ u \in Watch /\ u.at = w.at /\ u.t = w.t /\ u.toDiag = next
          /\ u.challenge = ch /\ u.toPrime = w.toPrime /\ u.clicks = w.clicks
      BY <1>1, <1>3, <2>2 DEF Watch
    <2> HIDE DEF u
    <2>5. PICK d \in site.rounds :
             /\ watch' = [watch EXCEPT ![c] = [u EXCEPT !.at = "read", !.t = @ + d]]
             /\ page' = [page EXCEPT ![c] = Worn(pg, d)]
      BY <1>6 DEF EndRound
    <2>6. d \in Nat
      BY <1>1, Longest
    <2>7. PICK v \in Watch :
             /\ v = [u EXCEPT !.at = "read", !.t = @ + d]
             /\ v.at = "read" /\ v.t = u.t + d /\ v.toDiag = u.toDiag
             /\ v.challenge = u.challenge /\ v.toPrime = u.toPrime /\ v.clicks = u.clicks
      BY <2>4, <2>6, TimePasses
    <2> /\ v.t = w.t + d /\ v.toDiag = w.t + 10 /\ v.challenge = ch
        /\ v.toPrime = w.toPrime /\ v.clicks = w.clicks
      BY <2>4, <2>7 DEF next
    <2>8. watch' = [watch EXCEPT ![c] = v]
      BY <2>5, <2>7
    <2>9. Worn(pg, d) \in Page
      BY <1>1, <2>6, Wears
    <2>10. CASE ~Futile(pg)
      <3>1. Watched(v, Worn(pg, d))
        BY <1>1, <1>2, <2>7, <2>10, Ending
      <3>2. QED
        BY <1>2, <2>5, <2>7, <2>8, <2>9, <3>1 DEF Moved
    <2>11. CASE Futile(pg)
      <3>1. ~pg.error /\ seen \notin {"hard block", "dead end"}
        BY <1>6 DEF Hopeless
      <3>2. pg.kind # "blocked"
        BY <3>1 DEF Classified
      <3>3. pg.kind \in {"otp", "challenge"} /\ ~HasWidget(pg)
        BY <2>11, <3>1, <3>2 DEF Futile
      <3>4. pg.kind = "challenge"
        BY <3>1, <3>3 DEF Classified
      <3>5. seen = "challenge"
        BY <3>3, <3>4 DEF Classified
      <3>6. Patient(pg)
        BY <3>1, <3>4 DEF Patient
      <3>7. v.challenge = since /\ w.t < v.challenge + 25
        BY <2>2, <2>3, <2>7, <3>5
      <3>8. Watched(v, Worn(pg, d))
        BY <1>1, <1>2, <2>7, <3>6, <3>7, Ending
      <3>9. QED
        BY <1>2, <2>5, <2>7, <2>8, <2>9, <3>8 DEF Moved
    <2>12. QED
      BY <2>10, <2>11
  <1>7. \/ GiveUpPage(c) /\ UNCHANGED page
        \/ w.t < w.toDiag /\ EndRound(c, w)
        \/ ~Hopeless(pg) /\ ~tired /\ EndRound(c, u)
    BY DEF Diagnose
  <1>8. QED
    BY <1>4, <1>5, <1>6, <1>7

LEMMA LoopMoves ==
  ASSUME PageTypeOK, NEW c \in Captures, Watched(watch[c], page[c]), NEW alive \in BOOLEAN,
         Loop(c, alive)
  PROVE  Moved(c)
  BY OpenMoves, EnterMoves, FirstLookMoves, StartFormMoves, ReadMoves, PrimeMoves, ClickMoves,
     DiagnoseMoves, MissMoves, ValidateMoves DEF Loop

-----------------------------------------------------------------------------
(* What a step leaves alone *)

LEMMA SameSite ==
  ASSUME UNCHANGED site
  PROVE  LongestRound' = LongestRound
  BY DEF LongestRound

\* Every page is watched, whatever the step did to c.
LEMMA WatchedElsewhere ==
  ASSUME UNCHANGED site, NEW c \in Captures,
         \A d \in Captures : Watched(watch[d], page[d]),
         \A d \in Captures \ {c} : watch'[d] = watch[d] /\ page'[d] = page[d],
         Watched(watch'[c], page'[c])
  PROVE  \A d \in Captures : Watched(watch[d], page[d])'
  <1>1. LongestRound' = LongestRound
    BY SameSite
  <1>2. \A d \in Captures : Watched(watch'[d], page'[d])
    OBVIOUS
  <1>3. QED
    BY <1>1, <1>2 DEF Watched, Clocked

LEMMA WatchedOn ==
  ASSUME \A d \in Captures : Watched(watch[d], page[d]), UNCHANGED pageVars
  PROVE  \A d \in Captures : Watched(watch[d], page[d])'
  <1>1. LongestRound' = LongestRound
    BY SameSite DEF pageVars
  <1>2. \A d \in Captures : Watched(watch'[d], page'[d])
    BY DEF pageVars
  <1>3. QED
    BY <1>1, <1>2 DEF Watched, Clocked

\* The captures other than c are where they were and hold what they held.
Elsewhere(c) ==
  /\ owner' = owner
  /\ \A d \in Captures \ {c} :
       /\ capture'[d] = capture[d] /\ watch'[d] = watch[d]
       /\ d \in holders' <=> d \in holders
       /\ d \in forwarders' <=> d \in forwarders
       /\ d \in chromes' <=> d \in chromes
       /\ d \in profiles' <=> d \in profiles
       /\ d \in rows' <=> d \in rows

LEMMA KeptElsewhere ==
  ASSUME \A d \in Captures : Keeping(d), NEW c \in Captures, Elsewhere(c), Keeping(c)'
  PROVE  \A d \in Captures : Keeping(d)'
  <1>1. ASSUME NEW d \in Captures, d # c PROVE Keeping(d)'
    <2>1. Keeping(d)
      OBVIOUS
    <2>2. /\ owner' = owner /\ capture'[d] = capture[d] /\ watch'[d] = watch[d]
          /\ d \in holders' <=> d \in holders
          /\ d \in forwarders' <=> d \in forwarders
          /\ d \in chromes' <=> d \in chromes
          /\ d \in profiles' <=> d \in profiles
          /\ d \in rows' <=> d \in rows
      BY <1>1 DEF Elsewhere
    <2>3. Running(d)' <=> Running(d)
      BY <2>2 DEF Running
    <2>4. QED
      BY <2>1, <2>2, <2>3 DEF Keeping
  <1>2. QED
    BY <1>1

LEMMA FewHolders ==
  ASSUME TypeOK, Cardinality(holders) <= Limit, NEW S \in SUBSET holders
  PROVE  Cardinality(S) <= Limit
  <1>1. IsFiniteSet(holders)
    BY SolveAssumption, FS_Subset DEF TypeOK
  <1>2. Cardinality(S) <= Cardinality(holders) /\ Cardinality(S) \in Nat /\ Cardinality(holders) \in Nat
    BY <1>1, FS_Subset, FS_CardinalityType
  <1>3. QED
    BY <1>2, SolveAssumption

\* A capture that has gone from one place to another.
LEMMA GoneTo ==
  ASSUME TypeOK, NEW c \in Captures, NEW a \in Place, To(c, a)
  PROVE  /\ capture' \in [Captures -> Capture]
         /\ capture'[c].at = a
         /\ capture'[c].orphan = capture[c].orphan /\ capture'[c].lost = capture[c].lost
         /\ \A d \in Captures \ {c} : capture'[d] = capture[d]
  <1> DEFINE r == [capture[c] EXCEPT !.at = a]
  <1>1. capture \in [Captures -> Capture] /\ capture[c] \in Capture
    BY DEF TypeOK
  <1>2. r \in Capture /\ r.at = a /\ r.orphan = capture[c].orphan /\ r.lost = capture[c].lost
    BY <1>1 DEF Capture
  <1>3. capture' = [capture EXCEPT ![c] = r]
    BY <1>1 DEF To
  <1> HIDE DEF r
  <1>4. QED
    BY <1>1, <1>2, <1>3

LEMMA AnsweredType ==
  ASSUME TypeOK, NEW c \in Captures
  PROVE  [call EXCEPT ![c] = Answered(c)] \in [Captures -> {"none", "waiting", "timeout", "token", "failed"}]
  BY DEF TypeOK, Answered

-----------------------------------------------------------------------------
(* The steps of a caller and of a capture *)

LEMMA AskKeeps ==
  ASSUME IInv, NEW c \in Captures, Ask(c)
  PROVE  IInv'
  <1>1. TypeOK /\ Cardinality(holders) <= Limit /\ Keeping(c)
    BY DEF IInv
  <1>2. capture[c].at = "unused" /\ owner[OwnerOf[c]] = "up" /\ To(c, "slot")
    BY DEF Ask, At
  <1>3. "slot" \in Place
    BY DEF Place
  <1>4. /\ capture' \in [Captures -> Capture]
        /\ capture'[c].at = "slot" /\ capture'[c].orphan = capture[c].orphan
        /\ \A d \in Captures \ {c} : capture'[d] = capture[d]
    BY <1>1, <1>2, <1>3, GoneTo
  <1>5. TypeOK'
    BY <1>1, <1>4 DEF TypeOK, PageTypeOK, Ask, pageVars
  <1>6. Cardinality(holders') <= Limit
    BY <1>1 DEF Ask
  <1>7. Keeping(c)'
    BY <1>1, <1>2, <1>4 DEF Keeping, Ask, Running, pageVars, Before, Working
  <1>8. Elsewhere(c)
    BY <1>4 DEF Elsewhere, Ask, pageVars
  <1>9. \A d \in Captures : Keeping(d)'
    BY <1>7, <1>8, KeptElsewhere DEF IInv
  <1>10. \A d \in Captures : Watched(watch[d], page[d])'
    BY WatchedOn DEF IInv, Ask
  <1>11. QED
    BY <1>5, <1>6, <1>9, <1>10 DEF IInv

LEMMA TimeOutKeeps ==
  ASSUME IInv, NEW c \in Captures, TimeOut(c)
  PROVE  IInv'
  <1>1. TypeOK'
    BY DEF IInv, TypeOK, PageTypeOK, TimeOut, pageVars
  <1>2. Keeping(c)' /\ Elsewhere(c)
    BY DEF IInv, Keeping, Running, TimeOut, pageVars, Elsewhere
  <1>3. \A d \in Captures : Keeping(d)'
    BY <1>2, KeptElsewhere DEF IInv
  <1>4. \A d \in Captures : Watched(watch[d], page[d])'
    BY WatchedOn DEF IInv, TimeOut
  <1>5. QED
    BY <1>1, <1>3, <1>4 DEF IInv, TimeOut

LEMMA TakeSlotKeeps ==
  ASSUME IInv, NEW c \in Captures, TakeSlot(c)
  PROVE  IInv'
  <1>1. TypeOK /\ Cardinality(holders) <= Limit /\ Keeping(c)
    BY DEF IInv
  <1>2. capture[c].at = "slot" /\ owner[OwnerOf[c]] = "up" /\ To(c, "prepare")
    BY DEF TakeSlot, At
  <1>3. "prepare" \in Place
    BY DEF Place
  <1>4. /\ capture' \in [Captures -> Capture]
        /\ capture'[c].at = "prepare" /\ capture'[c].orphan = capture[c].orphan
        /\ \A d \in Captures \ {c} : capture'[d] = capture[d]
    BY <1>1, <1>2, <1>3, GoneTo
  <1>5. TypeOK'
    BY <1>1, <1>4 DEF TypeOK, PageTypeOK, TakeSlot, pageVars
  <1>6. Cardinality(holders') <= Limit
    <2>1. IsFiniteSet(holders)
      BY <1>1, SolveAssumption, FS_Subset DEF TypeOK
    <2>2. c \notin holders
      BY <1>1, <1>2 DEF Keeping, Working
    <2>3. Cardinality(holders') = Cardinality(holders) + 1 /\ Cardinality(holders) \in Nat
      BY <2>1, <2>2, FS_AddElement, FS_CardinalityType DEF TakeSlot
    <2>4. Cardinality(holders) < Limit /\ Limit \in Nat
      BY SolveAssumption DEF TakeSlot
    <2>5. QED
      BY <2>3, <2>4
  <1>7. Keeping(c)'
    BY <1>1, <1>2, <1>4 DEF Keeping, TakeSlot, Running, pageVars, Before, Working
  <1>8. Elsewhere(c)
    BY <1>4 DEF Elsewhere, TakeSlot, pageVars
  <1>9. \A d \in Captures : Keeping(d)'
    BY <1>7, <1>8, KeptElsewhere DEF IInv
  <1>10. \A d \in Captures : Watched(watch[d], page[d])'
    BY WatchedOn DEF IInv, TakeSlot
  <1>11. QED
    BY <1>5, <1>6, <1>9, <1>10 DEF IInv

LEMMA NoSlotKeeps ==
  ASSUME IInv, NEW c \in Captures, NoSlot(c)
  PROVE  IInv'
  <1>1. TypeOK /\ Keeping(c)
    BY DEF IInv
  <1>2. capture[c].at = "slot" /\ owner[OwnerOf[c]] = "up" /\ To(c, "over")
    BY DEF NoSlot, At
  <1>3. "over" \in Place
    BY DEF Place
  <1>4. /\ capture' \in [Captures -> Capture]
        /\ capture'[c].at = "over" /\ capture'[c].orphan = capture[c].orphan
        /\ \A d \in Captures \ {c} : capture'[d] = capture[d]
    BY <1>1, <1>2, <1>3, GoneTo
  <1>5. call' \in [Captures -> {"none", "waiting", "timeout", "token", "failed"}]
    BY <1>1, AnsweredType DEF NoSlot
  <1>6. TypeOK'
    BY <1>1, <1>4, <1>5 DEF TypeOK, PageTypeOK, NoSlot, pageVars
  <1>7. Keeping(c)'
    BY <1>1, <1>2, <1>4 DEF Keeping, NoSlot, Running, pageVars, Before, Working
  <1>8. Elsewhere(c)
    BY <1>4 DEF Elsewhere, NoSlot, pageVars
  <1>9. \A d \in Captures : Keeping(d)'
    BY <1>7, <1>8, KeptElsewhere DEF IInv
  <1>10. \A d \in Captures : Watched(watch[d], page[d])'
    BY WatchedOn DEF IInv, NoSlot
  <1>11. QED
    BY <1>6, <1>9, <1>10 DEF IInv, NoSlot

LEMMA PrepareKeeps ==
  ASSUME IInv, NEW c \in Captures, Prepare(c)
  PROVE  IInv'
  <1>1. TypeOK /\ Keeping(c)
    BY DEF IInv
  <1>2. capture[c].at = "prepare" /\ owner[OwnerOf[c]] = "up"
    BY DEF Prepare, At
  <1>3. /\ capture' \in [Captures -> Capture]
        /\ capture'[c].at \in {"launch", "quit"} /\ capture'[c].orphan = capture[c].orphan
        /\ \A d \in Captures \ {c} : capture'[d] = capture[d]
    <2>1. CASE \E a \in {"launch", "quit"} : To(c, a)
      BY <1>1, <2>1, GoneTo DEF Place
    <2>2. CASE capture' = [capture EXCEPT ![c].at = "quit", ![c].lost = TRUE]
      <3> DEFINE r == [capture[c] EXCEPT !.at = "quit", !.lost = TRUE]
      <3>1. r \in Capture /\ r.at = "quit" /\ r.orphan = capture[c].orphan
        BY <1>1 DEF TypeOK, Capture, Place
      <3>2. capture' = [capture EXCEPT ![c] = r]
        BY <1>1, <2>2 DEF TypeOK
      <3> HIDE DEF r
      <3>3. QED
        BY <1>1, <3>1, <3>2 DEF TypeOK
    <2>3. QED
      BY <2>1, <2>2 DEF Prepare
  <1>4. capture' \in [Captures -> Capture]
    BY <1>3
  <1>5. /\ forwarders' = forwarders \/ forwarders' = forwarders \cup {c}
        /\ profiles' = profiles \/ profiles' = profiles \cup {c}
    BY DEF Prepare, Forwarded
  <1>6. TypeOK'
    BY <1>1, <1>4, <1>5 DEF TypeOK, PageTypeOK, Prepare, pageVars
  <1>7. Keeping(c)'
    BY <1>1, <1>2, <1>3, <1>5 DEF Keeping, Prepare, Running, pageVars, Before, Working
  <1>8. Elsewhere(c)
    BY <1>3, <1>5 DEF Elsewhere, Prepare, pageVars
  <1>9. \A d \in Captures : Keeping(d)'
    BY <1>7, <1>8, KeptElsewhere DEF IInv
  <1>10. \A d \in Captures : Watched(watch[d], page[d])'
    BY WatchedOn DEF IInv, Prepare
  <1>11. QED
    BY <1>6, <1>9, <1>10 DEF IInv, Prepare

LEMMA LaunchKeeps ==
  ASSUME IInv, NEW c \in Captures, Launch(c)
  PROVE  IInv'
  <1>1. TypeOK /\ Keeping(c)
    BY DEF IInv
  <1>2. capture[c].at = "launch" /\ owner[OwnerOf[c]] = "up"
    BY DEF Launch, At
  <1>3. \E a \in {"connect", "quit"} : To(c, a)
    BY DEF Launch
  <1>4. /\ capture' \in [Captures -> Capture]
        /\ capture'[c].at \in {"connect", "quit"} /\ capture'[c].orphan = capture[c].orphan
        /\ \A d \in Captures \ {c} : capture'[d] = capture[d]
    BY <1>1, <1>3, GoneTo DEF Place
  <1>5. chromes' = chromes \/ chromes' = chromes \cup {c}
    BY DEF Launch
  <1>6. TypeOK'
    BY <1>1, <1>4, <1>5 DEF TypeOK, PageTypeOK, Launch, pageVars
  <1>7. Keeping(c)'
    BY <1>1, <1>2, <1>4, <1>5 DEF Keeping, Launch, Running, pageVars, Before, Working
  <1>8. Elsewhere(c)
    BY <1>4, <1>5 DEF Elsewhere, Launch, pageVars
  <1>9. \A d \in Captures : Keeping(d)'
    BY <1>7, <1>8, KeptElsewhere DEF IInv
  <1>10. \A d \in Captures : Watched(watch[d], page[d])'
    BY WatchedOn DEF IInv, Launch
  <1>11. QED
    BY <1>6, <1>9, <1>10 DEF IInv, Launch

LEMMA ConnectKeeps ==
  ASSUME IInv, NEW c \in Captures, Connect(c)
  PROVE  IInv'
  <1>1. TypeOK /\ Keeping(c) /\ capture \in [Captures -> Capture]
    BY DEF IInv, TypeOK
  <1>2. capture[c].at = "connect" /\ owner[OwnerOf[c]] = "up"
    BY DEF Connect, At
  <1>3. /\ capture' \in [Captures -> Capture]
        /\ capture'[c].at \in {"register", "quit"}
        /\ capture'[c].orphan => capture[c].orphan \/ capture'[c].at = "quit"
        /\ \A d \in Captures \ {c} : capture'[d] = capture[d]
    <2>1. CASE To(c, "register")
      BY <1>1, <2>1, GoneTo DEF Place
    <2>2. CASE capture' = [capture EXCEPT ![c].at = "quit", ![c].orphan = c \in chromes]
      <3> DEFINE b == c \in chromes
                 r == [capture[c] EXCEPT !.at = "quit", !.orphan = b]
      <3>1. b \in BOOLEAN
        OBVIOUS
      <3>2. capture' = [capture EXCEPT ![c] = r]
        BY <1>1, <2>2
      <3> HIDE DEF b
      <3>3. r \in Capture /\ r.at = "quit"
        BY <1>1, <3>1 DEF Capture, Place
      <3> HIDE DEF r
      <3>4. QED
        BY <1>1, <3>2, <3>3
    <2>3. QED
      BY <2>1, <2>2 DEF Connect
  <1>4. TypeOK'
    BY <1>1, <1>3 DEF TypeOK, PageTypeOK, Connect, pageVars
  <1>5. Keeping(c)'
    BY <1>1, <1>2, <1>3 DEF Keeping, Connect, Running, pageVars, Before, Working
  <1>6. Elsewhere(c)
    BY <1>3 DEF Elsewhere, Connect, pageVars
  <1>7. \A d \in Captures : Keeping(d)'
    BY <1>5, <1>6, KeptElsewhere DEF IInv
  <1>8. \A d \in Captures : Watched(watch[d], page[d])'
    BY WatchedOn DEF IInv, Connect
  <1>9. QED
    BY <1>4, <1>7, <1>8 DEF IInv, Connect

LEMMA RegisterKeeps ==
  ASSUME IInv, NEW c \in Captures, Register(c)
  PROVE  IInv'
  <1>1. TypeOK /\ Keeping(c) /\ Watched(watch[c], page[c])
    BY DEF IInv
  <1>2. /\ page[c] \in Page /\ watch \in [Captures -> Watch] /\ watch[c] \in Watch /\ site \in Site
    BY <1>1 DEF TypeOK, PageTypeOK
  <1>3. capture[c].at = "register" /\ owner[OwnerOf[c]] = "up" /\ UNCHANGED <<page, site>>
    BY DEF Register, At
  <1>4. watch[c] = Idle
    BY <1>1, <1>3 DEF Keeping
  <1>5. CASE rows' = rows \cup {c} /\ To(c, "page") /\ watch' = [watch EXCEPT ![c].at = "open"]
    <2> DEFINE v == [Idle EXCEPT !.at = "open"]
    <2>1. v \in Watch /\ Watched(v, page[c])
      BY <1>1, <1>2, GaveUp
    <2>2. watch' = [watch EXCEPT ![c] = v]
      BY <1>2, <1>4, <1>5
    <2> HIDE DEF v
    <2>3. /\ watch' \in [Captures -> Watch] /\ watch'[c] = v
          /\ \A d \in Captures \ {c} : watch'[d] = watch[d]
      BY <1>2, <2>1, <2>2
    <2>4. /\ capture' \in [Captures -> Capture]
          /\ capture'[c].at = "page" /\ capture'[c].orphan = capture[c].orphan
          /\ \A d \in Captures \ {c} : capture'[d] = capture[d]
      BY <1>1, <1>5, GoneTo DEF Place
    <2>5. TypeOK'
      BY <1>1, <1>5, <2>3, <2>4 DEF TypeOK, PageTypeOK, Register
    <2>6. Keeping(c)'
      BY <1>1, <1>3, <2>4 DEF Keeping, Register, Running, Before, Working
    <2>7. Elsewhere(c)
      BY <2>3, <2>4 DEF Elsewhere, Register
    <2>8. \A d \in Captures : Keeping(d)'
      BY <2>6, <2>7, KeptElsewhere DEF IInv
    <2>9. Watched(watch'[c], page'[c]) /\ \A d \in Captures \ {c} : page'[d] = page[d]
      BY <1>3, <2>1, <2>3
    <2>10. \A d \in Captures : Watched(watch[d], page[d])'
      BY <1>3, <2>3, <2>9, WatchedElsewhere DEF IInv
    <2>11. QED
      BY <2>5, <2>8, <2>10 DEF IInv, Register
  <1>6. CASE UNCHANGED <<rows, watch>> /\ To(c, "quit")
    <2>1. /\ capture' \in [Captures -> Capture]
          /\ capture'[c].at = "quit" /\ capture'[c].orphan = capture[c].orphan
          /\ \A d \in Captures \ {c} : capture'[d] = capture[d]
      BY <1>1, <1>6, GoneTo DEF Place
    <2>2. TypeOK'
      BY <1>1, <1>6, <2>1 DEF TypeOK, PageTypeOK, Register
    <2>3. Keeping(c)'
      BY <1>1, <1>3, <1>6, <2>1 DEF Keeping, Register, Running, Before, Working
    <2>4. Elsewhere(c)
      BY <1>6, <2>1 DEF Elsewhere, Register
    <2>5. \A d \in Captures : Keeping(d)'
      BY <2>3, <2>4, KeptElsewhere DEF IInv
    <2>6. UNCHANGED pageVars
      BY <1>3, <1>6 DEF pageVars
    <2>7. \A d \in Captures : Watched(watch[d], page[d])'
      BY <2>6, WatchedOn DEF IInv
    <2>8. QED
      BY <2>2, <2>5, <2>7 DEF IInv, Register
  <1>7. QED
    BY <1>5, <1>6 DEF Register

\* The loop of a capture, or its page, has moved.
LEMMA MovedKeeps ==
  ASSUME IInv, NEW c \in Captures, capture[c].at = "page", Moved(c), UNCHANGED solveVars
  PROVE  IInv'
  <1>1. TypeOK /\ Keeping(c)
    BY DEF IInv
  <1>2. PICK q \in Page, v \in Watch :
           /\ page' = [page EXCEPT ![c] = q]
           /\ watch' = [watch EXCEPT ![c] = v]
           /\ UNCHANGED site
           /\ Watched(v, q)
    BY DEF Moved
  <1>3. page \in [Captures -> Page] /\ watch \in [Captures -> Watch]
    BY <1>1 DEF TypeOK, PageTypeOK
  <1>4. /\ page' \in [Captures -> Page] /\ watch' \in [Captures -> Watch]
        /\ page'[c] = q /\ watch'[c] = v
        /\ \A d \in Captures \ {c} : watch'[d] = watch[d] /\ page'[d] = page[d]
    BY <1>2, <1>3
  <1>5. TypeOK'
    BY <1>1, <1>2, <1>4 DEF TypeOK, PageTypeOK, solveVars
  <1>6. Keeping(c)'
    BY <1>1 DEF Keeping, Running, solveVars
  <1>7. Elsewhere(c)
    BY <1>4 DEF Elsewhere, solveVars
  <1>8. \A d \in Captures : Keeping(d)'
    BY <1>6, <1>7, KeptElsewhere DEF IInv
  <1>9. \A d \in Captures : Watched(watch[d], page[d])'
    BY <1>2, <1>4, WatchedElsewhere DEF IInv
  <1>10. QED
    BY <1>5, <1>8, <1>9 DEF IInv, solveVars

LEMMA OnPageKeeps ==
  ASSUME IInv, NEW c \in Captures, OnPage(c)
  PROVE  IInv'
  <1>1. PageTypeOK /\ Watched(watch[c], page[c])
    BY DEF IInv, TypeOK
  <1> DEFINE alive == c \in chromes
  <1>2. Loop(c, alive) /\ capture[c].at = "page" /\ UNCHANGED solveVars
    BY DEF OnPage, At
  <1>3. alive \in BOOLEAN
    OBVIOUS
  <1>4. Moved(c)
    <2> HIDE DEF alive
    <2>1. QED
      BY <1>1, <1>2, <1>3, LoopMoves
  <1>5. QED
    BY <1>2, <1>4, MovedKeeps

LEMMA SiteMovesKeeps ==
  ASSUME IInv, NEW c \in Captures, SiteMoves(c)
  PROVE  IInv'
  <1>1. PageTypeOK /\ Watched(watch[c], page[c])
    BY DEF IInv, TypeOK
  <1>2. PageMoves(c) /\ capture[c].at = "page" /\ UNCHANGED solveVars
    BY DEF SiteMoves, At
  <1>3. /\ page[c] \in Page /\ page \in [Captures -> Page]
        /\ watch[c] \in Watch /\ watch \in [Captures -> Watch] /\ site \in Site
    BY <1>1 DEF PageTypeOK
  <1>4. /\ page' \in [Captures -> Page] /\ UNCHANGED <<watch, site>>
        /\ \A d \in Captures \ {c} : page'[d] = page[d]
        /\ Eases(page[c], page'[c])
    BY <1>1, <1>2, PageMovesEase
  <1>5. watch[c].at \in Timed
    BY <1>2, <1>3 DEF PageMoves, Watch, Timed
  <1>6. Cautious(watch[c]) /\ (watch[c].at \in {"prime", "click", "diag"} => watch[c].t < Timeout)
    BY <1>1, <1>5 DEF Watched, Clocked
  <1>7. page'[c] \in Page
    BY <1>4
  <1>8. Watched(watch[c], page'[c])
    BY <1>1, <1>3, <1>4, <1>5, <1>6, <1>7, Stepping
  <1>9. page' = [page EXCEPT ![c] = page'[c]] /\ watch' = [watch EXCEPT ![c] = watch[c]]
    BY <1>3, <1>4
  <1>10. Moved(c)
    BY <1>3, <1>4, <1>7, <1>8, <1>9 DEF Moved
  <1>11. QED
    BY <1>2, <1>10, MovedKeeps

LEMMA LeavePageKeeps ==
  ASSUME IInv, NEW c \in Captures, LeavePage(c)
  PROVE  IInv'
  <1>1. TypeOK /\ Keeping(c)
    BY DEF IInv
  <1>2. capture[c].at = "page" /\ owner[OwnerOf[c]] = "up" /\ To(c, "quit")
    BY DEF LeavePage, At
  <1>3. /\ capture' \in [Captures -> Capture]
        /\ capture'[c].at = "quit" /\ capture'[c].orphan = capture[c].orphan
        /\ \A d \in Captures \ {c} : capture'[d] = capture[d]
    BY <1>1, <1>2, GoneTo DEF Place
  <1>4. TypeOK'
    BY <1>1, <1>3 DEF TypeOK, PageTypeOK, LeavePage, pageVars
  <1>5. Keeping(c)'
    BY <1>1, <1>2, <1>3 DEF Keeping, LeavePage, Running, pageVars, Before, Working
  <1>6. Elsewhere(c)
    BY <1>3 DEF Elsewhere, LeavePage, pageVars
  <1>7. \A d \in Captures : Keeping(d)'
    BY <1>5, <1>6, KeptElsewhere DEF IInv
  <1>8. \A d \in Captures : Watched(watch[d], page[d])'
    BY WatchedOn DEF IInv, LeavePage
  <1>9. QED
    BY <1>4, <1>7, <1>8 DEF IInv, LeavePage

\* The page of a Chrome that is gone shows nothing, and asks for nothing.
LEMMA BlankWatched ==
  ASSUME site \in Site, NEW w \in Watch, NEW pg \in Page, Watched(w, pg)
  PROVE  Watched(w, Blank)
  <1>1. Blank \in Page /\ Eases(pg, Blank)
    BY BlankEases
  <1>2. CASE w.at \in Timed
    <2>1. Cautious(w) /\ (w.at \in {"prime", "click", "diag"} => w.t < Timeout)
      BY <1>2 DEF Watched, Clocked
    <2>2. QED
      BY <1>1, <1>2, <2>1, Stepping
  <1>3. CASE w.at \notin Timed
    <2>1. LongestRound \in Nat \ {0}
      BY Longest
    <2>2. Blank.stuck = 0
      BY DEF Blank
    <2>3. Blank.stuck < Waits(Blank) * (10 + LongestRound)
      BY <1>1, <2>1, <2>2, WaitsIn
    <2>4. w = [Idle EXCEPT !.at = w.at]
      BY <1>3 DEF Watched
    <2>5. QED
      BY <1>3, <2>3, <2>4 DEF Watched
  <1>4. QED
    BY <1>2, <1>3

LEMMA GoneKeeps ==
  ASSUME IInv, NEW dead \in SUBSET Captures, Gone(dead), UNCHANGED <<watch, site>>
  PROVE  /\ page' \in [Captures -> Page]
         /\ \A d \in Captures : Watched(watch[d], page[d])'
  <1>1. page \in [Captures -> Page] /\ watch \in [Captures -> Watch] /\ site \in Site
    BY DEF IInv, TypeOK, PageTypeOK
  <1>2. Blank \in Page
    BY DEF Blank, Page, Kinds
  <1>3. page' \in [Captures -> Page] /\ \A d \in Captures : page'[d] = Blank \/ page'[d] = page[d]
    BY <1>1, <1>2 DEF Gone
  <1>4. \A d \in Captures : Watched(watch[d], Blank) /\ Watched(watch[d], page[d])
    BY <1>1, BlankWatched DEF IInv
  <1>5. LongestRound' = LongestRound
    BY SameSite
  <1>6. \A d \in Captures : Watched(watch[d], page'[d])
    BY <1>3, <1>4
  <1>7. \A d \in Captures : Watched(watch[d], page[d])'
    BY <1>5, <1>6 DEF Watched, Clocked
  <1>8. QED
    BY <1>3, <1>7

LEMMA QuitKeeps ==
  ASSUME IInv, NEW c \in Captures, Quit(c)
  PROVE  IInv'
  <1>1. TypeOK /\ Keeping(c)
    BY DEF IInv
  <1>2. capture[c].at = "quit" /\ owner[OwnerOf[c]] = "up" /\ To(c, "finish") /\ UNCHANGED <<watch, site>>
    BY DEF Quit, At
  <1>3. /\ capture' \in [Captures -> Capture]
        /\ capture'[c].at = "finish" /\ capture'[c].orphan = capture[c].orphan
        /\ \A d \in Captures \ {c} : capture'[d] = capture[d]
    BY <1>1, <1>2, GoneTo DEF Place
  <1>4. /\ page' \in [Captures -> Page]
        /\ \A d \in Captures : Watched(watch[d], page[d])'
    <2>1. CASE Gone({c})
      BY <1>2, <2>1, GoneKeeps
    <2>2. CASE UNCHANGED page
      <3>1. UNCHANGED pageVars
        BY <1>2, <2>2 DEF pageVars
      <3>2. QED
        BY <1>1, <2>2, <3>1, WatchedOn DEF IInv, TypeOK, PageTypeOK
    <2>3. QED
      BY <2>1, <2>2 DEF Quit
  <1>5. /\ chromes' \subseteq chromes
        /\ c \in chromes' => capture[c].orphan
        /\ \A d \in Captures \ {c} : d \in chromes' <=> d \in chromes
    BY DEF Quit
  <1>6. TypeOK'
    BY <1>1, <1>3, <1>4, <1>5 DEF TypeOK, PageTypeOK, Quit
  <1>7. Keeping(c)'
    BY <1>1, <1>2, <1>3, <1>5 DEF Keeping, Quit, Running, Before, Working
  <1>8. Elsewhere(c)
    BY <1>3, <1>5 DEF Elsewhere, Quit
  <1>9. \A d \in Captures : Keeping(d)'
    BY <1>7, <1>8, KeptElsewhere DEF IInv
  <1>10. QED
    BY <1>4, <1>6, <1>9 DEF IInv, Quit

LEMMA FinishKeeps ==
  ASSUME IInv, NEW c \in Captures, Finish(c)
  PROVE  IInv'
  <1>1. TypeOK /\ Keeping(c) /\ Watched(watch[c], page[c]) /\ Cardinality(holders) <= Limit
    BY DEF IInv
  <1>2. capture[c].at = "finish" /\ owner[OwnerOf[c]] = "up" /\ Discarded(c) /\ UNCHANGED <<page, site>>
    BY DEF Finish, At
  <1>3. /\ capture' \in [Captures -> Capture]
        /\ capture'[c].at = "over" /\ capture'[c].orphan = capture[c].orphan
        /\ c \in profiles' => capture'[c].lost
        /\ \A d \in Captures \ {c} : capture'[d] = capture[d]
    <2>1. CASE To(c, "over") /\ profiles' = (IF capture[c].lost THEN profiles ELSE profiles \ {c})
      BY <1>1, <2>1, GoneTo DEF Place
    <2>2. CASE capture' = [capture EXCEPT ![c].at = "over", ![c].lost = TRUE]
      <3> DEFINE r == [capture[c] EXCEPT !.at = "over", !.lost = TRUE]
      <3>1. r \in Capture /\ r.at = "over" /\ r.orphan = capture[c].orphan /\ r.lost
        BY <1>1 DEF TypeOK, Capture, Place
      <3>2. capture' = [capture EXCEPT ![c] = r]
        BY <1>1, <2>2 DEF TypeOK
      <3> HIDE DEF r
      <3>3. QED
        BY <1>1, <3>1, <3>2 DEF TypeOK
    <2>3. QED
      BY <1>2, <2>1, <2>2 DEF Discarded
  <1>4. call' \in [Captures -> {"none", "waiting", "timeout", "token", "failed"}]
    BY <1>1, AnsweredType DEF Finish
  <1>5. /\ page[c] \in Page /\ watch \in [Captures -> Watch] /\ watch[c] \in Watch /\ site \in Site
    BY <1>1 DEF TypeOK, PageTypeOK
  <1>6. Idle \in Watch /\ Watched(Idle, page[c])
    <2>1. Idle = [Idle EXCEPT !.at = "idle"]
      BY DEF Idle
    <2>2. QED
      BY <1>1, <1>5, <2>1, GaveUp
  <1>7. /\ watch' \in [Captures -> Watch] /\ watch'[c] = Idle
        /\ \A d \in Captures \ {c} : watch'[d] = watch[d]
    BY <1>5, <1>6 DEF Finish
  <1>8. /\ rows' \in {rows, rows \ {c}} /\ profiles' \in {profiles, profiles \ {c}}
        /\ forwarders' = forwarders \ {c} /\ holders' = holders \ {c}
    BY DEF Finish, Returned, Discarded, Stopped
  <1>9. TypeOK'
    BY <1>1, <1>3, <1>4, <1>7, <1>8 DEF TypeOK, PageTypeOK, Finish
  <1>10. Keeping(c)'
    BY <1>1, <1>2, <1>3, <1>7, <1>8 DEF Keeping, Finish, Running, Before, Working
  <1>11. Elsewhere(c)
    BY <1>3, <1>7, <1>8 DEF Elsewhere, Finish
  <1>12. \A d \in Captures : Keeping(d)'
    BY <1>10, <1>11, KeptElsewhere DEF IInv
  <1>13. Watched(watch'[c], page'[c]) /\ \A d \in Captures \ {c} : page'[d] = page[d]
    BY <1>2, <1>6, <1>7
  <1>14. \A d \in Captures : Watched(watch[d], page[d])'
    BY <1>2, <1>7, <1>13, WatchedElsewhere DEF IInv
  <1>15. Cardinality(holders') <= Limit
    BY <1>1, <1>8, FewHolders
  <1>16. QED
    BY <1>9, <1>12, <1>14, <1>15 DEF IInv

-----------------------------------------------------------------------------
(* The ends of a process and the sweeps *)

\* A process that has ended: its captures are over and hold nothing of it.
LEMMA EndedKeeps ==
  ASSUME IInv, NEW o \in Owners, Ended(o), UNCHANGED <<page, site, chromes, profiles, rows>>
  PROVE  IInv'
  <1>1. TypeOK /\ Cardinality(holders) <= Limit
    BY DEF IInv
  <1>2. /\ watch \in [Captures -> Watch] /\ capture \in [Captures -> Capture]
        /\ page \in [Captures -> Page] /\ site \in Site
        /\ owner \in [Sweepers -> {"up", "down"}] /\ sweep \in [Sweepers -> Sweep]
    BY <1>1 DEF TypeOK, PageTypeOK
  <1>3. Idle \in Watch /\ Idle = [Idle EXCEPT !.at = "idle"]
    BY PageAssumption DEF Idle, Watch, NoTime
  <1>4. /\ Fresh("over") \in Capture /\ Fresh("over").at = "over" /\ ~Fresh("over").orphan
        /\ Resting \in Sweep
    BY DEF Fresh, Capture, Place, Resting, Sweep
  <1>5. TypeOK'
    <2>1. watch' \in [Captures -> Watch]
      BY <1>2, <1>3 DEF Ended
    <2>2. capture' \in [Captures -> Capture]
      BY <1>2, <1>4 DEF Ended
    <2>3. call' \in [Captures -> {"none", "waiting", "timeout", "token", "failed"}]
      BY <1>1 DEF Ended, TypeOK
    <2>4. owner' \in [Sweepers -> {"up", "down"}] /\ sweep' \in [Sweepers -> Sweep]
      BY <1>2, <1>4 DEF Ended
    <2>5. (holders \cup forwarders \cup chromes \cup profiles \cup rows)' \subseteq Captures
      BY <1>1 DEF Ended, TypeOK
    <2>6. PageTypeOK'
      BY <1>2, <2>1 DEF PageTypeOK
    <2>7. QED
      BY <2>2, <2>3, <2>4, <2>5, <2>6 DEF TypeOK
  <1>6. holders' \subseteq holders
    BY DEF Ended
  <1>7. ASSUME NEW c \in Captures PROVE Keeping(c)'
    <2>1. Keeping(c)
      BY DEF IInv
    <2>2. CASE OwnerOf[c] = o
      <3>1. /\ capture'[c].at = "over" /\ ~capture'[c].orphan /\ watch'[c] = Idle
            /\ owner'[OwnerOf[c]] = "down"
            /\ c \notin holders' /\ c \notin forwarders'
        BY <1>2, <1>4, <2>2, SolveAssumption DEF Ended, Of, Sweepers
      <3>2. QED
        BY <3>1 DEF Keeping, Running, Before, Working
    <2>3. CASE OwnerOf[c] # o
      <3>1. /\ capture'[c] = capture[c] /\ watch'[c] = watch[c]
            /\ owner'[OwnerOf[c]] = owner[OwnerOf[c]]
            /\ c \in holders' <=> c \in holders
            /\ c \in forwarders' <=> c \in forwarders
        BY <1>2, <2>3, SolveAssumption DEF Ended, Of, Sweepers
      <3>2. QED
        BY <2>1, <3>1 DEF Keeping, Running
    <2>4. QED
      BY <2>2, <2>3
  <1>8. ASSUME NEW c \in Captures PROVE Watched(watch'[c], page'[c])
    <2>1. page[c] \in Page /\ watch[c] \in Watch /\ Watched(watch[c], page[c])
      BY <1>2 DEF IInv
    <2>2. Watched(Idle, page[c])
      BY <1>2, <1>3, <2>1, GaveUp
    <2>3. watch'[c] = Idle \/ watch'[c] = watch[c]
      BY DEF Ended
    <2>4. QED
      BY <2>1, <2>2, <2>3
  <1>9. LongestRound' = LongestRound
    BY SameSite
  <1>10. \A c \in Captures : Watched(watch[c], page[c])'
    BY <1>8, <1>9 DEF Watched, Clocked
  <1>11. Cardinality(holders') <= Limit
    BY <1>1, <1>6, FewHolders
  <1>12. QED
    BY <1>5, <1>7, <1>10, <1>11 DEF IInv

\* A sweep that has taken some Chromes with their pages, profiles and rows.
LEMMA SweptKeeps ==
  ASSUME IInv, SolveUnchanged, chromes' \subseteq chromes, profiles' \subseteq profiles,
         rows' \subseteq rows, UNCHANGED page \/ \E dead \in SUBSET Captures : Gone(dead),
         sweep' \in [Sweepers -> Sweep]
  PROVE  IInv'
  <1>1. TypeOK
    BY DEF IInv
  <1>2. /\ page' \in [Captures -> Page]
        /\ \A d \in Captures : Watched(watch[d], page[d])'
    <2>1. CASE UNCHANGED page
      <3>1. UNCHANGED pageVars
        BY <2>1 DEF pageVars, SolveUnchanged
      <3>2. QED
        BY <1>1, <2>1, <3>1, WatchedOn DEF IInv, TypeOK, PageTypeOK
    <2>2. ASSUME NEW dead \in SUBSET Captures, Gone(dead)
          PROVE  /\ page' \in [Captures -> Page]
                 /\ \A d \in Captures : Watched(watch[d], page[d])'
      BY <2>2, GoneKeeps DEF SolveUnchanged
    <2>3. QED
      BY <2>1, <2>2
  <1>3. TypeOK'
    BY <1>1, <1>2 DEF TypeOK, PageTypeOK, SolveUnchanged
  <1>4. ASSUME NEW c \in Captures PROVE Keeping(c)'
    <2>1. Keeping(c)
      BY DEF IInv
    <2>2. QED
      BY <2>1 DEF Keeping, Running, SolveUnchanged
  <1>5. QED
    BY <1>2, <1>3, <1>4 DEF IInv, SolveUnchanged

LEMMA SweepBeginKeeps ==
  ASSUME IInv, NEW s \in Sweepers, SweepBegin(s)
  PROVE  IInv'
  <1>1. sweep \in [Sweepers -> Sweep] /\ rows \subseteq Captures
    BY DEF IInv, TypeOK
  <1> DEFINE some == IF s = All THEN rows ELSE rows \cap Of(s)
             r == [Resting EXCEPT !.at = "scan", !.rows = some]
  <1>2. some \subseteq Captures
    BY <1>1
  <1> HIDE DEF some
  <1>3. r \in Sweep
    BY <1>2 DEF Resting, Sweep
  <1>4. sweep' = [sweep EXCEPT ![s] = r]
    BY DEF SweepBegin, some
  <1> HIDE DEF r
  <1>5. sweep' \in [Sweepers -> Sweep]
    BY <1>1, <1>3, <1>4
  <1>6. QED
    BY <1>5, SweptKeeps DEF SweepBegin

LEMMA SweepKillKeeps ==
  ASSUME IInv, NEW s \in Sweepers, SweepKill(s)
  PROVE  IInv'
  <1>1. sweep \in [Sweepers -> Sweep] /\ chromes \subseteq Captures /\ sweep[s] \in Sweep
    BY DEF IInv, TypeOK
  <1> DEFINE some == (sweep[s].rows \cup Targets(s)) \ (chromes \ Targets(s))
             r == [sweep[s] EXCEPT !.at = "remove", !.profiles = some]
  <1>2. some \subseteq Captures /\ Targets(s) \subseteq Captures
    BY <1>1 DEF Targets, Sweep
  <1>3. sweep' = [sweep EXCEPT ![s] = r]
    BY <1>1 DEF SweepKill, Sweep
  <1> HIDE DEF some
  <1>4. r \in Sweep
    BY <1>1, <1>2 DEF Sweep
  <1> HIDE DEF r
  <1>5. sweep' \in [Sweepers -> Sweep]
    BY <1>1, <1>3, <1>4
  <1>6. chromes' \subseteq chromes /\ \E dead \in SUBSET Captures : Gone(dead)
    BY <1>2 DEF SweepKill
  <1>7. QED
    BY <1>5, <1>6, SweptKeeps DEF SweepKill

LEMMA SweepRemoveKeeps ==
  ASSUME IInv, NEW s \in Sweepers, SweepRemove(s)
  PROVE  IInv'
  <1>1. sweep \in [Sweepers -> Sweep]
    BY DEF IInv, TypeOK
  <1> DEFINE r == [Resting EXCEPT !.at = IF s = All THEN "temp" ELSE "done"]
  <1>2. r \in Sweep
    BY DEF Resting, Sweep
  <1>3. sweep' = [sweep EXCEPT ![s] = r]
    BY DEF SweepRemove
  <1> HIDE DEF r
  <1>4. sweep' \in [Sweepers -> Sweep]
    BY <1>1, <1>2, <1>3
  <1>5. rows' \subseteq rows /\ profiles' \subseteq profiles
    BY DEF SweepRemove, Newer
  <1>6. QED
    BY <1>4, <1>5, SweptKeeps DEF SweepRemove

LEMMA SweepFailsKeeps ==
  ASSUME IInv, SweepFails
  PROVE  IInv'
  <1>1. sweep \in [Sweepers -> Sweep] /\ Resting \in Sweep
    BY DEF IInv, TypeOK, Resting, Sweep
  <1>2. sweep' \in [Sweepers -> Sweep]
    BY <1>1 DEF SweepFails
  <1>3. QED
    BY <1>2, SweptKeeps DEF SweepFails

LEMMA ReadProtectedKeeps ==
  ASSUME IInv, ReadProtected
  PROVE  IInv'
  <1>1. sweep \in [Sweepers -> Sweep] /\ rows \subseteq Captures
    BY DEF IInv, TypeOK
  <1>2. PICK named \in {rows, {}} :
          sweep' = [sweep EXCEPT ![All] = [Resting EXCEPT !.at = "delete", !.rows = named]]
    BY DEF ReadProtected
  <1> DEFINE r == [Resting EXCEPT !.at = "delete", !.rows = named]
  <1>3. named \subseteq Captures
    BY <1>1
  <1>4. r \in Sweep
    BY <1>3 DEF Resting, Sweep
  <1>5. sweep' = [sweep EXCEPT ![All] = r]
    BY <1>2
  <1> HIDE DEF r
  <1>6. sweep' \in [Sweepers -> Sweep]
    BY <1>1, <1>4, <1>5
  <1>7. QED
    BY <1>6, SweptKeeps DEF ReadProtected

LEMMA SweepTempKeeps ==
  ASSUME IInv, NEW old, SweepTemp(old)
  PROVE  IInv'
  <1>1. sweep \in [Sweepers -> Sweep] /\ Resting \in Sweep
    BY DEF IInv, TypeOK, Resting, Sweep
  <1>2. sweep' \in [Sweepers -> Sweep]
    BY <1>1 DEF SweepTemp
  <1>3. QED
    BY <1>2, SweptKeeps DEF SweepTemp

-----------------------------------------------------------------------------
(* The invariant *)

LEMMA InitIInv ==
  ASSUME Init
  PROVE  IInv
  <1>1. Blank \in Page /\ Idle \in Watch /\ Idle = [Idle EXCEPT !.at = "idle"]
    BY PageAssumption DEF Blank, Page, Kinds, Idle, Watch, NoTime
  <1>2. PageTypeOK
    BY <1>1 DEF Init, PageInit, PageTypeOK
  <1>3. TypeOK
    <2>1. Resting \in Sweep
      BY DEF Resting, Sweep
    <2>2. capture \in [Captures -> Capture]
      BY DEF Init, Capture, Place
    <2>3. QED
      BY <1>2, <2>1, <2>2 DEF TypeOK, Init
  <1>4. Cardinality(holders) <= Limit
    BY FS_EmptySet, SolveAssumption DEF Init
  <1>5. ASSUME NEW c \in Captures PROVE Keeping(c)
    <2>1. /\ capture[c].at \in {"unused", "over"} /\ ~capture[c].orphan /\ watch[c] = Idle
          /\ c \notin holders \cup forwarders \cup chromes \cup profiles \cup rows
      BY DEF Init, PageInit
    <2>2. QED
      BY <2>1 DEF Keeping, Running, Before, Working
  <1>6. ASSUME NEW c \in Captures PROVE Watched(watch[c], page[c])
    <2>1. watch[c] = Idle /\ page[c] = Blank /\ site \in Site
      BY DEF Init, PageInit
    <2>2. LongestRound \in Nat \ {0}
      BY <2>1, Longest
    <2>3. Blank.stuck = 0 /\ Idle.at = "idle"
      BY DEF Blank, Idle
    <2>4. Blank.stuck < Waits(Blank) * (10 + LongestRound)
      BY <1>1, <2>2, <2>3, WaitsIn
    <2>5. QED
      BY <1>1, <2>1, <2>3, <2>4 DEF Watched, Timed
  <1>7. QED
    BY <1>3, <1>4, <1>5, <1>6 DEF IInv

LEMMA IInvStep ==
  ASSUME IInv, [Next]_vars
  PROVE  IInv'
  <1>1. CASE UNCHANGED vars
    <2>1. UNCHANGED pageVars /\ UNCHANGED solveVars
      BY <1>1 DEF vars
    <2>2. \A c \in Captures : Watched(watch[c], page[c])'
      BY <2>1, WatchedOn DEF IInv
    <2>3. TypeOK'
      BY <2>1 DEF IInv, TypeOK, PageTypeOK, pageVars, solveVars
    <2>4. \A c \in Captures : Keeping(c)'
      BY <2>1 DEF IInv, Keeping, Running, pageVars, solveVars
    <2>5. QED
      BY <2>1, <2>2, <2>3, <2>4 DEF IInv, solveVars
  <1>2. ASSUME NEW c \in Captures, Ask(c) \/ TimeOut(c) \/ Capturing(c) \/ SiteMoves(c)
        PROVE  IInv'
    BY <1>2, AskKeeps, TimeOutKeeps, TakeSlotKeeps, NoSlotKeeps, PrepareKeeps, LaunchKeeps,
       ConnectKeeps, RegisterKeeps, OnPageKeeps, LeavePageKeeps, QuitKeeps, FinishKeeps,
       SiteMovesKeeps DEF Capturing
  <1>3. ASSUME NEW o \in Owners, Kill(o) \/ ExitOf(o)
        PROVE  IInv'
    <2>1. o \in Sweepers
      BY DEF Sweepers
    <2>2. CASE Kill(o)
      BY <2>2, EndedKeeps DEF Kill
    <2>3. CASE Exit(o)
      BY <2>3, EndedKeeps DEF Exit
    <2>4. QED
      BY <1>3, <2>1, <2>2, <2>3, SweepBeginKeeps, SweepKillKeeps, SweepRemoveKeeps DEF ExitOf
  <1>4. CASE SweepAll \/ SweepFails
    <2>1. All \in Sweepers
      BY DEF Sweepers
    <2>2. QED
      BY <1>4, <2>1, SweepBeginKeeps, SweepKillKeeps, SweepRemoveKeeps, ReadProtectedKeeps,
         SweepTempKeeps, SweepFailsKeeps DEF SweepAll
  <1>5. QED
    BY <1>1, <1>2, <1>3, <1>4 DEF Next

\* What captures, the kills of their processes and the sweeps keep of slots,
\* Chromes, profiles and clocks, step by step (_solve_turnstile_local and
\* _capture_turnstile_token_impl).
THEOREM Inductive == Spec => []IInv
  BY InitIInv, IInvStep, PTL DEF Spec

-----------------------------------------------------------------------------
(* What follows *)

\* Whatever captures time out, fail or are killed, the Chromes of captures that
\* go on are within the limit of the slots, and a capture that has ended in a
\* live process has left no slot and no forwarder, a Chrome only where Chromium()
\* raised on one that runs, and a profile only where the options raised after they
\* had made it or rmtree failed.
THEOREM ChromesStaySafe == Spec => []ChromesSafe
  <1>1. ASSUME IInv PROVE ChromesSafe
    <2>1. TypeOK /\ Cardinality(holders) <= Limit /\ \A c \in Captures : Keeping(c)
      BY <1>1 DEF IInv
    <2>2. {c \in chromes : Running(c)} \subseteq holders
      <3>1. ASSUME NEW c \in chromes, Running(c) PROVE c \in holders
        <4>1. c \in Captures /\ capture[c] \in Capture
          BY <2>1 DEF TypeOK
        <4>2. /\ capture[c].at \notin {"unused", "over"}
              /\ capture[c].at \notin Before
          BY <2>1, <3>1, <4>1 DEF Keeping
        <4>3. capture[c].at \in Working
          BY <4>1, <4>2 DEF Capture, Place, Before, Working
        <4>4. QED
          BY <2>1, <4>1, <4>3 DEF Keeping
      <3>2. QED
        BY <3>1
    <2>3. ChromesWithinLimit
      BY <2>1, <2>2, FewHolders DEF ChromesWithinLimit
    <2>4. NothingLeftBehind
      BY <2>1 DEF NothingLeftBehind, Keeping, Working
    <2>5. QED
      BY <2>1, <2>3, <2>4 DEF ChromesSafe
  <1>2. QED
    BY <1>1, Inductive, PTL

\* Whatever the site shows and however long its rounds take, a page that can
\* give no token is left at the next diagnosis, a challenge that does not clear
\* after the patience for it, and at most one button is clicked.
THEOREM PagesAreLeftInTime == Spec => []PageRules
  <1>1. ASSUME IInv PROVE PageRules
    <2>1. /\ page \in [Captures -> Page] /\ watch \in [Captures -> Watch]
          /\ \A c \in Captures : Watched(watch[c], page[c])
      BY <1>1 DEF IInv, TypeOK, PageTypeOK
    <2>2. HopelessPagesLeft
      BY <2>1 DEF HopelessPagesLeft, Watched, Waits, Patient
    <2>3. ASSUME NEW c \in Captures PROVE watch[c].clicks <= 1
      <3>1. CASE watch[c].at \in Timed
        BY <2>1, <3>1 DEF Watched, Cautious
      <3>2. CASE watch[c].at \notin Timed
        <4>1. watch[c].clicks = 0
          BY <2>1, <3>2 DEF Watched, Idle
        <4>2. QED
          BY <4>1
      <3>3. QED
        BY <3>1, <3>2
    <2>4. QED
      BY <2>2, <2>3 DEF PageRules, OneContinue
  <1>2. QED
    BY <1>1, Inductive, PTL

-----------------------------------------------------------------------------
(* What a sweep has read, and what runs *)

\* What was named when a sweep read the registry is not launched again, and what
\* it has looked for and killed does not run.
Swept(s) ==
  /\ sweep[s].at = "scan" => \A c \in sweep[s].rows : capture[c].at \notin Before
  /\ sweep[s].at = "remove" =>
       \A c \in sweep[s].rows \cup sweep[s].profiles : capture[c].at \notin Before /\ c \notin chromes

\* A capture does not go back, and starts a Chrome only before it has one.
Onward ==
  \A c \in Captures :
    /\ capture'[c].at \in Before => capture[c].at \in Before
    /\ c \in chromes' \ chromes => capture[c].at \in Before

LEMMA OnwardStep ==
  ASSUME IInv, [Next]_vars
  PROVE  Onward
  <1>1. capture \in [Captures -> Capture]
    BY DEF IInv, TypeOK
  <1>2. CASE UNCHANGED <<capture, chromes>>
    BY <1>2 DEF Onward
  <1>3. ASSUME NEW c \in Captures, NEW a \in Place, To(c, a),
               a \in Before => capture[c].at \in Before,
               \/ chromes' \subseteq chromes
               \/ chromes' = chromes \cup {c} /\ capture[c].at \in Before
        PROVE  Onward
    <2>1. TypeOK
      BY DEF IInv
    <2>2. capture'[c].at = a /\ \A d \in Captures \ {c} : capture'[d] = capture[d]
      BY <1>3, <2>1, GoneTo
    <2>3. QED
      BY <1>3, <2>2 DEF Onward
  <1>4. ASSUME NEW c \in Captures, chromes' \subseteq chromes,
                To(c, "register") \/ To(c, "page") \/ To(c, "quit") \/ To(c, "finish") \/ To(c, "over")
         PROVE  Onward
    <2>1. PICK a \in {"register", "page", "quit", "finish", "over"} : To(c, a)
      BY <1>4
    <2>2. a \in Place /\ a \notin Before /\ TypeOK
      BY DEF Place, Before, IInv
    <2>3. capture'[c].at = a /\ \A d \in Captures \ {c} : capture'[d] = capture[d]
      BY <2>1, <2>2, GoneTo
    <2>4. chromes' \ chromes = {}
      BY <1>4
    <2>5. QED
      BY <2>2, <2>3, <2>4 DEF Onward
  <1>5. ASSUME NEW c \in Captures, UNCHANGED chromes,
               \A d \in Captures \ {c} : capture'[d] = capture[d],
               capture'[c].at \in {"quit", "over"}
        PROVE  Onward
    BY <1>5 DEF Onward, Before
  <1>6. ASSUME NEW c \in Captures, Capturing(c) PROVE Onward
    <2>1. CASE TakeSlot(c)
      BY <1>3, <2>1 DEF TakeSlot, At, Place, Before
    <2>2. CASE NoSlot(c)
      BY <1>3, <2>2 DEF NoSlot, At, Place, Before
    <2>3. CASE Prepare(c)
      <3>1. CASE \E a \in {"launch", "quit"} : To(c, a)
        BY <1>3, <2>3, <3>1 DEF Prepare, At, Place, Before
      <3>2. CASE capture' = [capture EXCEPT ![c].at = "quit", ![c].lost = TRUE]
        <4>1. capture'[c].at = "quit" /\ \A d \in Captures \ {c} : capture'[d] = capture[d]
          BY <1>1, <3>2 DEF Capture
        <4>2. QED
          BY <1>5, <2>3, <4>1 DEF Prepare
      <3>3. QED
        BY <2>3, <3>1, <3>2 DEF Prepare
    <2>4. CASE Launch(c)
      BY <1>3, <2>4 DEF Launch, At, Place, Before
    <2>5. CASE Connect(c)
      <3>1. CASE To(c, "register")
        BY <1>4, <2>5, <3>1 DEF Connect
      <3>2. CASE capture' = [capture EXCEPT ![c].at = "quit", ![c].orphan = c \in chromes]
        <4>1. capture'[c].at = "quit" /\ \A d \in Captures \ {c} : capture'[d] = capture[d]
          BY <1>1, <3>2 DEF Capture
        <4>2. QED
          BY <1>5, <2>5, <4>1 DEF Connect
      <3>3. QED
        BY <2>5, <3>1, <3>2 DEF Connect
    <2>6. CASE Register(c)
      <3>1. (To(c, "page") \/ To(c, "quit")) /\ chromes' \subseteq chromes
        BY <2>6 DEF Register
      <3>2. QED
        BY <1>4, <3>1
    <2>7. CASE OnPage(c)
      BY <1>2, <2>7 DEF OnPage, solveVars
    <2>8. CASE LeavePage(c)
      <3>1. (To(c, "quit")) /\ chromes' \subseteq chromes
        BY <2>8 DEF LeavePage
      <3>2. QED
        BY <1>4, <3>1
    <2>9. CASE Quit(c)
      <3>1. (To(c, "finish")) /\ chromes' \subseteq chromes
        BY <2>9 DEF Quit
      <3>2. QED
        BY <1>4, <3>1
    <2>10. CASE Finish(c)
      <3>1. CASE To(c, "over")
        BY <1>4, <2>10, <3>1 DEF Finish
      <3>2. CASE capture' = [capture EXCEPT ![c].at = "over", ![c].lost = TRUE]
        <4>1. capture'[c].at = "over" /\ \A d \in Captures \ {c} : capture'[d] = capture[d]
          BY <1>1, <3>2 DEF Capture
        <4>2. QED
          BY <1>5, <2>10, <4>1 DEF Finish
      <3>3. QED
        BY <2>10, <3>1, <3>2 DEF Finish, Discarded
    <2>11. QED
      BY <1>6, <2>1, <2>2, <2>3, <2>4, <2>5, <2>6, <2>7, <2>8, <2>9, <2>10 DEF Capturing
  <1>7. ASSUME NEW c \in Captures, Ask(c) \/ TimeOut(c) \/ SiteMoves(c) PROVE Onward
    <2>1. CASE Ask(c)
      BY <1>3, <2>1 DEF Ask, At, Place, Before
    <2>2. CASE TimeOut(c) \/ SiteMoves(c)
      BY <1>2, <2>2 DEF TimeOut, SiteMoves, solveVars
    <2>3. QED
      BY <1>7, <2>1, <2>2
  <1>8. ASSUME NEW o \in Owners, Kill(o) \/ Exit(o) PROVE Onward
    <2>1. Ended(o) /\ UNCHANGED chromes
      BY <1>8 DEF Kill, Exit
    <2>2. \A c \in Captures : capture'[c] = Fresh("over") \/ capture'[c] = capture[c]
      BY <2>1 DEF Ended
    <2>3. Fresh("over").at = "over"
      BY DEF Fresh
    <2>4. QED
      BY <2>1, <2>2, <2>3 DEF Onward, Before
  <1>9. ASSUME SolveUnchanged, chromes' \subseteq chromes PROVE Onward
    BY <1>9 DEF Onward, SolveUnchanged
  <1>10. ASSUME NEW s \in Sweepers, SweepBegin(s) \/ SweepKill(s) \/ SweepRemove(s) PROVE Onward
    BY <1>9, <1>10 DEF SweepBegin, SweepKill, SweepRemove
  <1>11. CASE ReadProtected \/ SweepFails \/ \E old \in SUBSET profiles : SweepTemp(old)
    BY <1>9, <1>11 DEF ReadProtected, SweepFails, SweepTemp
  <1>12. Owners \subseteq Sweepers /\ All \in Sweepers
    BY DEF Sweepers
  <1>13. QED
    BY <1>2, <1>6, <1>7, <1>8, <1>10, <1>11, <1>12 DEF Next, ExitOf, SweepAll, vars, solveVars

\* A sweep that is not taken on has still read and killed what it had.
LEMMA SweptElsewhere ==
  ASSUME IInv, Onward, NEW s \in Sweepers, Swept(s), sweep'[s] = sweep[s]
  PROVE  Swept(s)'
  <1>1. sweep[s].rows \subseteq Captures /\ sweep[s].profiles \subseteq Captures
    BY DEF IInv, TypeOK, Sweep
  <1>2. QED
    BY <1>1 DEF Swept, Onward

LEMMA RestingSwept ==
  ASSUME NEW s \in Sweepers, sweep'[s].at \notin {"scan", "remove"}
  PROVE  Swept(s)'
  BY DEF Swept

LEMMA SweepBeginSwept ==
  ASSUME IInv, NEW s \in Sweepers, SweepBegin(s)
  PROVE  Swept(s)'
  <1>1. sweep \in [Sweepers -> Sweep] /\ rows \subseteq Captures /\ \A c \in Captures : Keeping(c)
    BY DEF IInv, TypeOK
  <1> DEFINE some == IF s = All THEN rows ELSE rows \cap Of(s)
  <1>2. sweep'[s] = [Resting EXCEPT !.at = "scan", !.rows = some]
    BY <1>1 DEF SweepBegin
  <1>3. some \subseteq rows
    OBVIOUS
  <1> HIDE DEF some
  <1>4. sweep'[s].at = "scan" /\ sweep'[s].rows \subseteq rows
    BY <1>2, <1>3 DEF Resting
  <1>5. \A c \in rows : capture[c].at \notin Before
    BY <1>1 DEF Keeping
  <1>6. UNCHANGED capture
    BY DEF SweepBegin, SolveUnchanged
  <1>7. QED
    BY <1>4, <1>5, <1>6 DEF Swept

\* What is named is killed where it runs, and what was found is dead.
LEMMA SweepKillSwept ==
  ASSUME IInv, NEW s \in Sweepers, Swept(s), SweepKill(s)
  PROVE  Swept(s)'
  <1>1. /\ sweep \in [Sweepers -> Sweep] /\ sweep[s] \in Sweep
        /\ chromes \subseteq Captures /\ \A c \in Captures : Keeping(c)
    BY DEF IInv, TypeOK
  <1>2. sweep[s].at = "scan" /\ UNCHANGED capture /\ chromes' = chromes \ Targets(s)
    BY DEF SweepKill, Sweeping, SolveUnchanged
  <1> DEFINE dead == (sweep[s].rows \cup Targets(s)) \ (chromes \ Targets(s))
             r == [sweep[s] EXCEPT !.at = "remove", !.profiles = dead]
  <1>3. sweep' = [sweep EXCEPT ![s] = r]
    BY <1>1 DEF SweepKill, Sweep
  <1>4. Targets(s) \subseteq chromes /\ chromes \cap sweep[s].rows \subseteq Targets(s)
    BY DEF Targets
  <1>5. \A c \in sweep[s].rows \cup dead : capture[c].at \notin Before /\ c \notin chromes'
    <2>1. \A c \in sweep[s].rows : capture[c].at \notin Before
      BY <1>2 DEF Swept
    <2>2. \A c \in chromes : capture[c].at \notin Before
      BY <1>1 DEF Keeping
    <2>3. QED
      BY <1>2, <1>4, <2>1, <2>2
  <1> HIDE DEF dead
  <1>6. r.at = "remove" /\ r.rows = sweep[s].rows /\ r.profiles = dead
    BY <1>1 DEF Sweep
  <1> HIDE DEF r
  <1>7. sweep'[s] = r
    BY <1>1, <1>3
  <1>8. QED
    BY <1>2, <1>5, <1>6, <1>7 DEF Swept

LEMMA SweptStep ==
  ASSUME IInv, \A s \in Sweepers : Swept(s), [Next]_vars
  PROVE  \A s \in Sweepers : Swept(s)'
  <1>1. Onward /\ sweep \in [Sweepers -> Sweep]
    BY OnwardStep DEF IInv, TypeOK
  <1>2. CASE UNCHANGED sweep
    BY <1>1, <1>2, SweptElsewhere
  <1>3. ASSUME NEW s \in Sweepers, \A z \in Sweepers \ {s} : sweep'[z] = sweep[z], Swept(s)'
        PROVE  \A z \in Sweepers : Swept(z)'
    <2>1. ASSUME NEW z \in Sweepers, z # s PROVE Swept(z)'
      BY <1>1, <1>3, <2>1, SweptElsewhere
    <2>2. QED
      BY <1>3, <2>1
  <1>4. ASSUME NEW s \in Sweepers, SweepBegin(s) \/ SweepKill(s) \/ SweepRemove(s)
        PROVE  \A z \in Sweepers : Swept(z)'
    <2>1. \A z \in Sweepers \ {s} : sweep'[z] = sweep[z]
      BY <1>1, <1>4 DEF SweepBegin, SweepKill, SweepRemove
    <2>2. CASE SweepBegin(s)
      BY <1>3, <2>1, <2>2, SweepBeginSwept
    <2>3. CASE SweepKill(s)
      BY <1>3, <2>1, <2>3, SweepKillSwept
    <2>4. CASE SweepRemove(s)
      <3>1. sweep'[s].at \in {"temp", "done"}
        BY <1>1, <2>4 DEF SweepRemove, Resting
      <3>2. QED
        BY <1>3, <2>1, <3>1, RestingSwept
    <2>5. QED
      BY <1>4, <2>2, <2>3, <2>4
  <1>5. CASE ReadProtected \/ SweepFails \/ \E old \in SUBSET profiles : SweepTemp(old)
    <2>1. All \in Sweepers /\ \A z \in Sweepers \ {All} : sweep'[z] = sweep[z]
      BY <1>1, <1>5 DEF Sweepers, ReadProtected, SweepFails, SweepTemp
    <2>2. sweep'[All].at \in {"idle", "delete"}
      <3>1. Resting.at = "idle" /\ \A named : [Resting EXCEPT !.at = "delete", !.rows = named].at = "delete"
        BY DEF Resting
      <3>2. CASE ReadProtected
        BY <1>1, <2>1, <3>1, <3>2 DEF ReadProtected
      <3>3. CASE SweepFails
        BY <1>1, <2>1, <3>1, <3>3 DEF SweepFails
      <3>4. CASE \E old \in SUBSET profiles : SweepTemp(old)
        BY <1>1, <2>1, <3>1, <3>4 DEF SweepTemp
      <3>5. QED
        BY <1>5, <3>2, <3>3, <3>4
    <2>3. QED
      BY <1>3, <2>1, <2>2, RestingSwept
  <1>6. ASSUME NEW o \in Owners, Kill(o) \/ Exit(o) PROVE \A z \in Sweepers : Swept(z)'
    <2>1. sweep' = [sweep EXCEPT ![o] = Resting] /\ o \in Sweepers
      BY <1>6 DEF Kill, Exit, Ended, Sweepers
    <2>2. sweep'[o].at = "idle" /\ \A z \in Sweepers \ {o} : sweep'[z] = sweep[z]
      BY <1>1, <2>1 DEF Resting
    <2>3. QED
      BY <1>3, <2>1, <2>2, RestingSwept
  <1>7. ASSUME NEW c \in Captures, Ask(c) \/ TimeOut(c) \/ Capturing(c) \/ SiteMoves(c)
        PROVE  UNCHANGED sweep
    BY <1>7 DEF Ask, TimeOut, SiteMoves, Capturing, TakeSlot, NoSlot, Prepare, Launch, Connect,
       Register, OnPage, LeavePage, Quit, Finish, solveVars
  <1>8. Owners \subseteq Sweepers /\ All \in Sweepers
    BY DEF Sweepers
  <1>9. QED
    BY <1>2, <1>4, <1>5, <1>6, <1>7, <1>8 DEF Next, ExitOf, SweepAll, vars, solveVars

\* The row of a Chrome that runs, and its directory, are not taken by a step.
Spares ==
  \A c \in chromes :
    /\ c \in rows => c \in rows'
    /\ c \in profiles \ profiles' =>
         \/ At(c, "finish") /\ capture[c].orphan
         \/ Sweeping(All, "delete") /\ c \notin sweep[All].rows

LEMMA SparesStep ==
  ASSUME IInv, \A s \in Sweepers : Swept(s), [Next]_vars
  PROVE  Spares
  <1>1. /\ chromes \subseteq Captures /\ \A c \in Captures : Keeping(c)
        /\ sweep \in [Sweepers -> Sweep]
    BY DEF IInv, TypeOK
  <1>2. CASE rows \subseteq rows' /\ profiles \subseteq profiles'
    BY <1>2 DEF Spares
  <1>3. ASSUME NEW c \in Captures, Finish(c) PROVE Spares
    <2>1. At(c, "finish") /\ rows \ rows' \subseteq {c} /\ profiles \ profiles' \subseteq {c}
      BY <1>3 DEF Finish, Returned, Discarded
    <2>2. c \in chromes => capture[c].orphan /\ c \notin rows
      BY <1>1, <2>1 DEF Keeping, At
    <2>3. QED
      BY <2>1, <2>2 DEF Spares
  <1>4. ASSUME NEW s \in Sweepers, SweepRemove(s) PROVE Spares
    <2>1. \A c \in sweep[s].rows \cup sweep[s].profiles : c \notin chromes
      BY <1>4 DEF SweepRemove, Sweeping, Swept
    <2>2. rows' = rows \ sweep[s].rows /\ profiles \ profiles' \subseteq sweep[s].profiles
      BY <1>4 DEF SweepRemove, Newer
    <2>3. QED
      BY <2>1, <2>2 DEF Spares
  <1>5. ASSUME NEW old \in SUBSET profiles, SweepTemp(old) PROVE Spares
    <2>1. /\ Sweeping(All, "delete") /\ UNCHANGED rows
          /\ profiles \ profiles' \subseteq profiles \ sweep[All].rows
      BY <1>5 DEF SweepTemp
    <2>2. QED
      BY <2>1 DEF Spares
  <1>6. ASSUME NEW s \in Sweepers, SweepBegin(s) \/ SweepKill(s) PROVE Spares
    BY <1>2, <1>6 DEF SweepBegin, SweepKill
  <1>7. CASE ReadProtected \/ SweepFails
    BY <1>2, <1>7 DEF ReadProtected, SweepFails
  <1>8. ASSUME NEW o \in Owners, Kill(o) \/ Exit(o) PROVE Spares
    BY <1>2, <1>8 DEF Kill, Exit
  <1>9. ASSUME NEW c \in Captures, Ask(c) \/ TimeOut(c) \/ Capturing(c) \/ SiteMoves(c)
        PROVE  Spares
    <2>1. CASE Ask(c) \/ TimeOut(c) \/ SiteMoves(c)
      BY <1>2, <2>1 DEF Ask, TimeOut, SiteMoves, solveVars
    <2>2. CASE TakeSlot(c) \/ NoSlot(c) \/ Prepare(c) \/ Launch(c) \/ Connect(c)
      BY <1>2, <2>2 DEF TakeSlot, NoSlot, Prepare, Launch, Connect
    <2>3. CASE Register(c) \/ OnPage(c) \/ LeavePage(c) \/ Quit(c)
      BY <1>2, <2>3 DEF Register, OnPage, LeavePage, Quit, solveVars
    <2>4. QED
      BY <1>3, <1>9, <2>1, <2>2, <2>3 DEF Capturing
  <1>10. Owners \subseteq Sweepers /\ All \in Sweepers
    BY DEF Sweepers
  <1>11. QED
    BY <1>2, <1>4, <1>5, <1>6, <1>7, <1>8, <1>9, <1>10 DEF Next, ExitOf, SweepAll, vars, solveVars

\* No cleanup, of an exit or of everything, takes the row or the directory of a
\* Chrome that runs, but for an orphan's by its own capture and for those the last
\* pass over old directories found no row for (terminate_project_browser_trees and
\* cleanup_browser_residues), however many sweeps and registrations are on the way.
THEOREM RunningIsSpared == Spec => CleanupSparesRunning
  <1>1. Init => \A s \in Sweepers : Swept(s)
    BY DEF Init, Resting, Swept
  <1>2. ASSUME IInv, \A s \in Sweepers : Swept(s), [Next]_vars
        PROVE  (\A s \in Sweepers : Swept(s))'
    BY <1>2, SweptStep
  <1>3. Spec => [](\A s \in Sweepers : Swept(s))
    BY <1>1, <1>2, Inductive, PTL DEF Spec
  <1>4. ASSUME IInv, \A s \in Sweepers : Swept(s), [Next]_vars
        PROVE  [Spares]_vars
    BY <1>4, SparesStep
  <1>5. Spec => [][Spares]_vars
    BY <1>3, <1>4, Inductive, PTL DEF Spec
  <1>6. QED
    BY <1>5 DEF CleanupSparesRunning, Spares

=============================================================================
