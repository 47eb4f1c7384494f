------------------------- MODULE RegistrationProofs --------------------------
(***************************************************************************)
(* The registration's two gates outside the batch: the sign-in to the      *)
(* OAuth account (XaiOAuth) and the permits for submits (SubmitPermits).   *)
(*                                                                         *)
(* XaiOAuth: the sign-in's budgets.  AttemptBounded is not inductive: the  *)
(* counters an attempt keeps in its state start again with each soft       *)
(* reset, so the totals are bounded with what the resets so far may have   *)
(* spent (BudgetsLeft); and a click follows a form filled before it        *)
(* (LoginPrepared), on a page whose token the attempt has timed (Timed).   *)
(*                                                                         *)
(* SubmitPermits: for every number of server threads, clients and workers  *)
(* the registry loses no slot, its semaphore never overflows, and it       *)
(* implements PermitGate.  SlotsConserved is not inductive: whether a      *)
(* step moves the slot it says it moves depends on where the threads are.  *)
(* PlacesOK ties the place of every slot to the program counters.          *)
(***************************************************************************)
EXTENDS SubmitPermits, XaiOAuth, FiniteSetTheorems, TLAPS

-----------------------------------------------------------------------------
(* XaiOAuth *)

\* A success is on the password page and has its token; tokens are as old as
\* the turn that issued them.
WidgetSound ==
  /\ page.widget = "success" => page.phase = "password" /\ page.token # Nothing
  /\ page.token # Nothing => page.token <= turns

\* A success is timed with its token, and is stable only if it has been shown
\* long enough, unless the page shows another one by now.
Timed ==
  /\ st.good # "no" => st.fp # Nothing
  /\ st.fp # Nothing => st.fp <= turns
  /\ st.good = "stable" /\ page.widget = "success" /\ page.token = st.fp => page.aged

\* What a login that is about to be clicked has behind it.
LoginPrepared ==
  /\ drive = "click" => st.filled /\ ~st.cooling /\ st.clicks < MaxClicks
  /\ st.filled => page.form # "blank"

Over == drive \in {"saved", "failed"}

\* Each soft reset has renewed a budget once, and what the attempt has used
\* since is in its state; when the flow is over the state is gone.
BudgetsLeft ==
  /\ clicks <= MaxClicks * resets + (IF Over THEN MaxClicks ELSE st.clicks)
  /\ solves <= MaxSolves * resets + (IF Over THEN MaxSolves ELSE st.solves)

OwnCode == code # "foreign"

OAuthRest == WidgetSound /\ Timed /\ LoginPrepared
OAuthInv == OAuthTypeOK /\ OAuthRest /\ BudgetsLeft /\ OwnCode

-----------------------------------------------------------------------------
LEMMA BlankIsPage ==
  /\ Blank \in Page
  /\ \A p \in Phase, w \in {"absent", "waiting"}, f \in {"typed", "blank", "lost"} :
       [Blank EXCEPT !.phase = p, !.widget = w, !.form = f] \in Page
  BY DEF Blank, Page, Phase

LEMMA ClearedIsState == Cleared \in State
  BY OAuthAssumption DEF Cleared, State, OAuthAssumption

\* What a new state keeps of the one before, but for the phase and the form.
Keeps(s) ==
  /\ s.good = st.good /\ s.fp = st.fp /\ s.cooling = st.cooling
  /\ s.clicks = st.clicks /\ s.solves = st.solves /\ s.fails = st.fails

LEMMA EnteredState ==
  ASSUME st \in State, NEW p \in Phase
  PROVE  /\ Entered(p) \in State /\ Keeps(Entered(p))
         /\ Entered(p).filled = st.filled /\ Entered(p).tries = st.tries
  <1>1. CASE st.phase = p
    BY <1>1 DEF Entered, Keeps
  <1>2. CASE st.phase # p
    <2>1. Entered(p) = [st EXCEPT !.phase = p, !.age = 0]
      BY <1>2 DEF Entered
    <2>2. Entered(p) \in State
      BY <2>1, 0 \in 0 .. 2 DEF State
    <2>3. QED
      BY <2>1, <2>2 DEF State, Keeps
  <1>3. QED
    BY <1>1, <1>2

LEMMA TypedState ==
  ASSUME st \in State, NEW ok \in BOOLEAN
  PROVE  /\ Typed(ok) \in State /\ Keeps(Typed(ok))
         /\ Typed(ok).filled = (st.filled \/ ok)
  <1>1. "password" \in Phase
    BY DEF Phase
  <1> DEFINE e == Entered("password")
  <1>2. e \in State /\ Keeps(e) /\ e.filled = st.filled
    BY <1>1, EnteredState
  <1>3. Typed(ok) = [e EXCEPT !.filled = @ \/ ok]
    BY DEF Typed
  <1> HIDE DEF e
  <1>4. QED
    BY <1>2, <1>3 DEF State, Keeps

\* A success that is watched is timed with its token; a stable one was stable
\* before, with the same token, if it had one.
LEMMA WatchedState ==
  ASSUME OAuthTypeOK, OAuthRest, NEW s \in State,
         s.good = st.good, s.fp = st.fp
  PROVE  /\ Watched(s) \in State
         /\ Watched(s).filled = s.filled /\ Watched(s).cooling = s.cooling
         /\ Watched(s).clicks = s.clicks /\ Watched(s).solves = s.solves
         /\ Watched(s).fails = s.fails
         /\ Watched(s).good # "no" => Success /\ Watched(s).fp = page.token
         /\ Watched(s).fp # Nothing => Watched(s).fp <= turns
         /\ Watched(s).good = "stable" => page.aged
  <1>1. /\ s.good \in {"no", "fresh", "stable"} /\ s.fp \in Tokens \cup {Nothing}
        /\ page.token \in Tokens \cup {Nothing}
    BY DEF State, OAuthTypeOK, Page
  <1>2. CASE Success
    <2>1. page.widget = "success" /\ page.token # Nothing /\ page.token <= turns
      BY <1>2 DEF Success, OAuthRest, WidgetSound
    <2>2. /\ Watched(s) \in State
          /\ Watched(s).filled = s.filled /\ Watched(s).cooling = s.cooling
          /\ Watched(s).clicks = s.clicks /\ Watched(s).solves = s.solves
          /\ Watched(s).fails = s.fails
          /\ Watched(s).fp = page.token
          /\ Watched(s).good = IF s.good = "no" \/ s.fp \notin {Nothing, page.token}
                               THEN "fresh" ELSE s.good
      BY <1>1, <1>2, <2>1 DEF Watched, State
    <2>3. Watched(s).good = "stable" => page.aged
      BY <1>1, <2>1, <2>2 DEF OAuthRest, Timed
    <2>4. QED
      BY <1>2, <2>1, <2>2, <2>3
  <1>3. CASE ~Success
    <2>1. /\ Watched(s) \in State
          /\ Watched(s).filled = s.filled /\ Watched(s).cooling = s.cooling
          /\ Watched(s).clicks = s.clicks /\ Watched(s).solves = s.solves
          /\ Watched(s).fails = s.fails
          /\ Watched(s).good = "no" /\ Watched(s).fp \in {s.fp, Nothing}
      BY <1>1, <1>3 DEF Watched, State
    <2>2. QED
      BY <2>1 DEF OAuthRest, Timed
  <1>4. QED
    BY <1>2, <1>3

-----------------------------------------------------------------------------
\* Steps that leave alone what the login depends on.
LEMMA RestKept ==
  ASSUME OAuthRest, page' = page, turns' = turns, drive' # "click",
         st'.good = st.good, st'.fp = st.fp, st'.filled = st.filled
  PROVE  OAuthRest'
  BY DEF OAuthRest, WidgetSound, Timed, LoginPrepared

\* Steps after which the page has no widget that shows a success.
LEMMA RestWithoutSuccess ==
  ASSUME OAuthRest, turns \in Nat, turns' \in {turns, turns + 1},
         OAuthTypeOK, drive' = "click" => drive = "click",
         page'.widget # "success", page'.token \in {page.token, Nothing},
         page'.form = page.form \/ page'.form # "blank",
         st'.good = st.good /\ st'.fp = st.fp,
         st'.filled = st.filled, st'.cooling = st.cooling, st'.clicks = st.clicks
  PROVE  OAuthRest'
  <1>1. /\ page.token \in Nat \cup {Nothing} /\ st.fp \in Nat \cup {Nothing}
        /\ Nothing \notin Nat
    BY OAuthAssumption DEF OAuthTypeOK, Page, State, Tokens, OAuthAssumption
  <1>2. WidgetSound'
    BY <1>1 DEF OAuthRest, WidgetSound
  <1>3. Timed'
    BY <1>1 DEF OAuthRest, Timed
  <1>4. LoginPrepared'
    BY DEF OAuthRest, LoginPrepared
  <1>5. QED
    BY <1>2, <1>3, <1>4 DEF OAuthRest

\* After a soft reset, or when the browser is gone, there is nothing to keep.
LEMMA RestCleared ==
  ASSUME OAuthRest, turns' = turns, drive' # "click", st' = Cleared,
         page' \in {page, Blank}
  PROVE  OAuthRest'
  BY DEF OAuthRest, WidgetSound, Timed, LoginPrepared, Cleared, Blank

LEMMA BudgetsTyped ==
  ASSUME OAuthTypeOK
  PROVE  /\ {MaxClicks, MaxSolves} \subseteq Nat \ {0}
         /\ {clicks, solves, resets, MaxClicks * resets, MaxSolves * resets} \subseteq Nat
         /\ st.clicks \in 0 .. MaxClicks /\ st.solves \in 0 .. MaxSolves
  <1>1. /\ MaxClicks \in Nat \ {0} /\ MaxSolves \in Nat \ {0} /\ MaxResets \in Nat
        /\ clicks \in Nat /\ solves \in Nat /\ resets \in 0 .. MaxResets
    BY OAuthAssumption DEF OAuthAssumption, OAuthTypeOK
  <1>2. MaxClicks * resets \in Nat /\ MaxSolves * resets \in Nat
    BY <1>1
  <1>3. st.clicks \in 0 .. MaxClicks /\ st.solves \in 0 .. MaxSolves
    BY DEF OAuthTypeOK, State
  <1>4. QED
    BY <1>1, <1>2, <1>3

\* Steps that spend nothing.
LEMMA BudgetsKept ==
  ASSUME OAuthTypeOK, BudgetsLeft, ~Over,
         resets' = resets, clicks' = clicks, solves' = solves,
         \/ Over'
         \/ st'.clicks = st.clicks /\ st'.solves = st.solves
  PROVE  BudgetsLeft'
  <1> DEFINE mc == MaxClicks * resets
             ms == MaxSolves * resets
  <1>1. /\ MaxClicks \in Nat /\ MaxSolves \in Nat /\ clicks \in Nat /\ solves \in Nat
        /\ mc \in Nat /\ ms \in Nat
        /\ st.clicks \in 0 .. MaxClicks /\ st.solves \in 0 .. MaxSolves
    BY BudgetsTyped
  <1>2. MaxClicks * resets' = mc /\ MaxSolves * resets' = ms
    OBVIOUS
  <1>3. clicks <= mc + st.clicks /\ solves <= ms + st.solves
    BY DEF BudgetsLeft
  <1> HIDE DEF mc, ms
  <1>4. CASE Over'
    BY <1>1, <1>2, <1>3, <1>4 DEF BudgetsLeft
  <1>5. CASE st'.clicks = st.clicks /\ st'.solves = st.solves
    BY <1>1, <1>2, <1>3, <1>5 DEF BudgetsLeft
  <1>6. QED
    BY <1>4, <1>5

\* A soft reset renews the budgets, and counts.
LEMMA BudgetsRenewed ==
  ASSUME OAuthTypeOK, BudgetsLeft, ~Over,
         resets' = resets + 1, clicks' = clicks, solves' = solves,
         st' = Cleared, ~Over'
  PROVE  BudgetsLeft'
  <1> DEFINE mc == MaxClicks * resets
             ms == MaxSolves * resets
  <1>1. /\ MaxClicks \in Nat /\ MaxSolves \in Nat /\ clicks \in Nat /\ solves \in Nat
        /\ mc \in Nat /\ ms \in Nat /\ resets \in Nat
        /\ st.clicks \in 0 .. MaxClicks /\ st.solves \in 0 .. MaxSolves
    BY BudgetsTyped
  <1>2. MaxClicks * resets' = mc + MaxClicks /\ MaxSolves * resets' = ms + MaxSolves
    BY <1>1
  <1>3. clicks <= mc + st.clicks /\ solves <= ms + st.solves
    BY DEF BudgetsLeft
  <1>4. st'.clicks = 0 /\ st'.solves = 0
    BY DEF Cleared
  <1> HIDE DEF mc, ms
  <1>5. QED
    BY <1>1, <1>2, <1>3, <1>4 DEF BudgetsLeft

-----------------------------------------------------------------------------
(* One lemma for each step *)

LEMMA InitOAuthInv == OAuthInit => OAuthInv
  <1> SUFFICES ASSUME OAuthInit PROVE OAuthInv
    OBVIOUS
  <1>1. OAuthTypeOK
    <2>1. 0 \in 0 .. MaxResets /\ 0 \in 0 .. MaxTurns
      BY OAuthAssumption DEF OAuthAssumption
    <2>2. QED
      BY <2>1, BlankIsPage, ClearedIsState DEF OAuthInit, OAuthTypeOK
  <1>2. OAuthRest
    BY DEF OAuthInit, OAuthRest, WidgetSound, Timed, LoginPrepared, Blank, Cleared
  <1>3. BudgetsLeft
    BY OAuthAssumption DEF OAuthInit, BudgetsLeft, Over, Cleared, OAuthAssumption
  <1>4. OwnCode
    BY OAuthAssumption DEF OAuthInit, OwnCode, OAuthAssumption, Codes
  <1>5. QED
    BY <1>1, <1>2, <1>3, <1>4 DEF OAuthInv

LEMMA PageMovesKeeps ==
  ASSUME OAuthInv, PageMoves
  PROVE  OAuthInv'
  <1>1. PICK p \in Phase, w \in {"absent", "waiting"} :
          page' = [Blank EXCEPT !.phase = p, !.widget = w,
                     !.form = IF page.form = "typed" THEN "lost" ELSE page.form]
    BY DEF PageMoves
  <1>2. /\ page' \in Page /\ page'.widget # "success" /\ page'.token = Nothing
        /\ page'.form = page.form \/ page'.form # "blank"
    BY <1>1 DEF Blank, Page, OAuthInv, OAuthTypeOK
  <1>3. turns' \in 0 .. MaxTurns /\ turns' = turns + 1 /\ turns \in Nat
    BY OAuthAssumption DEF PageMoves, Turn, OAuthInv, OAuthTypeOK, OAuthAssumption
  <1>4. OAuthTypeOK'
    BY <1>2, <1>3 DEF PageMoves, OAuthInv, OAuthTypeOK
  <1>5. OAuthRest'
    BY <1>2, <1>3, RestWithoutSuccess DEF PageMoves, OAuthInv
  <1>6. BudgetsLeft'
    BY BudgetsKept DEF PageMoves, OAuthInv, Over
  <1>7. QED
    BY <1>4, <1>5, <1>6 DEF PageMoves, OAuthInv, OwnCode

\* A new success has a new token, which is not the one that is watched.
LEMMA RestOnNewSuccess ==
  ASSUME OAuthTypeOK, OAuthRest, turns' = turns + 1,
         page'.widget = "success", page'.phase = "password", page'.token = turns + 1,
         page'.form = page.form \/ page'.form # "blank",
         drive' = "click" => drive = "click",
         st'.good = st.good /\ st'.fp = st.fp,
         st'.filled = st.filled, st'.cooling = st.cooling, st'.clicks = st.clicks
  PROVE  OAuthRest'
  <1>1. /\ page.token \in Nat \cup {Nothing} /\ st.fp \in Nat \cup {Nothing}
        /\ Nothing \notin Nat /\ turns \in Nat
    BY OAuthAssumption DEF OAuthTypeOK, Page, State, Tokens, OAuthAssumption
  <1>2. WidgetSound'
    BY <1>1 DEF WidgetSound
  <1>3. Timed'
    BY <1>1 DEF OAuthRest, Timed
  <1>4. LoginPrepared'
    BY DEF OAuthRest, LoginPrepared
  <1>5. QED
    BY <1>2, <1>3, <1>4 DEF OAuthRest

LEMMA SucceedsPage ==
  ASSUME NEW p \in Page, turns \in Nat, turns < MaxTurns
  PROVE  /\ Succeeds(p) \in Page
         /\ Succeeds(p).widget = "success" /\ Succeeds(p).token = turns + 1
         /\ Succeeds(p).phase = p.phase /\ Succeeds(p).form = p.form
  <1>1. turns + 1 \in Tokens
    BY OAuthAssumption DEF Tokens, OAuthAssumption
  <1>2. QED
    BY <1>1 DEF Succeeds, Page

LEMMA WidgetChangesKeeps ==
  ASSUME OAuthInv, WidgetChanges
  PROVE  OAuthInv'
  <1> USE DEF OAuthInv
  <1>1. /\ turns' \in 0 .. MaxTurns /\ turns' = turns + 1 /\ turns \in Nat
        /\ turns < MaxTurns
    BY OAuthAssumption DEF WidgetChanges, Turn, OAuthTypeOK, OAuthAssumption
  <1>2. page \in Page /\ page.phase = "password"
    BY DEF WidgetChanges, OAuthTypeOK
  <1>3. page' \in Page /\ OAuthRest'
    <2>1. CASE page' = Succeeds(page)
      <3>1. /\ page' \in Page /\ page'.widget = "success" /\ page'.token = turns + 1
            /\ page'.phase = "password" /\ page'.form = page.form
        BY <1>1, <1>2, <2>1, SucceedsPage
      <3>2. QED
        BY <1>1, <3>1, RestOnNewSuccess DEF WidgetChanges
    <2>2. CASE page' = [page EXCEPT !.widget = "waiting", !.aged = FALSE]
      <3>1. /\ page' \in Page /\ page'.widget # "success" /\ page'.token = page.token
            /\ page'.form = page.form
        BY <1>2, <2>2 DEF Page
      <3>2. QED
        BY <1>1, <3>1, RestWithoutSuccess DEF WidgetChanges
    <2>3. CASE page' = [page EXCEPT !.failed = TRUE]
      <3>1. /\ page' \in Page /\ page'.widget = page.widget /\ page'.token = page.token
            /\ page'.form = page.form /\ page'.aged = page.aged
            /\ page'.phase = page.phase
        BY <1>2, <2>3 DEF Page
      <3>2. page.token \in Nat \cup {Nothing} /\ st.fp \in Nat \cup {Nothing}
            /\ Nothing \notin Nat
        BY OAuthAssumption DEF OAuthTypeOK, Page, State, Tokens, OAuthAssumption
      <3>3. QED
        BY <1>1, <3>1, <3>2
           DEF WidgetChanges, OAuthRest, WidgetSound, Timed, LoginPrepared
    <2>4. QED
      BY <2>1, <2>2, <2>3 DEF WidgetChanges
  <1>4. OAuthTypeOK'
    BY <1>1, <1>3 DEF WidgetChanges, OAuthTypeOK
  <1>5. BudgetsLeft'
    BY BudgetsKept DEF WidgetChanges, Over
  <1>6. QED
    BY <1>3, <1>4, <1>5 DEF WidgetChanges, OwnCode

LEMMA ElapseKeeps ==
  ASSUME OAuthInv, Elapse
  PROVE  OAuthInv'
  <1> USE DEF OAuthInv
  <1>1. page \in Page /\ st \in State /\ drive = "loop"
    BY DEF OAuthTypeOK, Elapse
  <1>2. page' = [page EXCEPT !.aged = (page.widget = "success")]
    BY DEF Elapse
  <1>3. /\ page' \in Page /\ page'.widget = page.widget /\ page'.token = page.token
        /\ page'.form = page.form /\ page'.phase = page.phase
        /\ page'.widget = "success" => page'.aged
    BY <1>1, <1>2 DEF Page
  <1>4. PICK n \in 1 .. 5 :
          st' = [st EXCEPT
                   !.good = IF @ = "fresh" THEN "stable" ELSE @,
                   !.cooling = @ /\ n < 2,
                   !.patient = @ \/ n >= 3,
                   !.clicked = IF @ = "recent" /\ n >= 3 THEN "old" ELSE @,
                   !.age = IF n < 4 THEN @ ELSE IF n = 4 /\ @ = 0 THEN 1 ELSE 2]
    BY DEF Elapse
  <1>5. (IF n < 4 THEN st.age ELSE IF n = 4 /\ st.age = 0 THEN 1 ELSE 2) \in 0 .. 2
    BY <1>1 DEF State
  <1>6. /\ st' \in State /\ st'.filled = st.filled /\ st'.clicks = st.clicks
        /\ st'.solves = st.solves /\ st'.fp = st.fp
        /\ st'.good # "no" => st.good # "no"
        /\ st'.cooling => st.cooling
    <2> DEFINE good == IF st.good = "fresh" THEN "stable" ELSE st.good
               cooling == st.cooling /\ n < 2
               patient == st.patient \/ n >= 3
               clicked == IF st.clicked = "recent" /\ n >= 3 THEN "old" ELSE st.clicked
               age == IF n < 4 THEN st.age ELSE IF n = 4 /\ st.age = 0 THEN 1 ELSE 2
    <2>1. good \in {"no", "fresh", "stable"} /\ (good # "no" => st.good # "no")
      BY <1>1 DEF State
    <2>2. cooling \in BOOLEAN /\ patient \in BOOLEAN /\ (cooling => st.cooling)
      BY <1>1 DEF State
    <2>3. clicked \in {"never", "recent", "old"} /\ age \in 0 .. 2
      BY <1>1, <1>5 DEF State
    <2>4. st' = [st EXCEPT !.good = good, !.cooling = cooling, !.patient = patient,
                           !.clicked = clicked, !.age = age]
      BY <1>4
    <2> HIDE DEF good, cooling, patient, clicked, age
    <2>5. st' \in State
      <3>1. [st EXCEPT !.good = good, !.cooling = cooling] \in State
        BY <1>1, <2>1, <2>2 DEF State
      <3>2. [[st EXCEPT !.good = good, !.cooling = cooling]
               EXCEPT !.patient = patient] \in State
        BY <2>2, <3>1 DEF State
      <3>3. [[[st EXCEPT !.good = good, !.cooling = cooling]
               EXCEPT !.patient = patient] EXCEPT !.clicked = clicked] \in State
        BY <2>3, <3>2 DEF State
      <3>4. [[[[st EXCEPT !.good = good, !.cooling = cooling]
               EXCEPT !.patient = patient] EXCEPT !.clicked = clicked] EXCEPT !.age = age] \in State
        BY <2>3, <3>3 DEF State
      <3>5. QED
        BY <2>4, <3>4
    <2>6. QED
      BY <1>1, <2>1, <2>2, <2>4, <2>5 DEF State
  <1>7. OAuthTypeOK'
    BY <1>3, <1>6 DEF Elapse, OAuthTypeOK, counts
  <1>8. OAuthRest'
    BY <1>3, <1>6 DEF Elapse, OAuthRest, WidgetSound, Timed, LoginPrepared, counts
  <1>9. BudgetsLeft'
    BY <1>6, BudgetsKept DEF Elapse, Over, counts
  <1>10. QED
    BY <1>7, <1>8, <1>9 DEF Elapse, OwnCode

LEMMA ResetsKeeps ==
  ASSUME OAuthInv, Resets
  PROVE  OAuthInv'
  <1> USE DEF OAuthInv
  <1>1. /\ resets' = resets + 1 /\ resets < MaxResets /\ st' = Cleared
        /\ idle' = FALSE /\ page' \in {page, Blank}
        /\ drive = "loop" /\ drive' = "poll"
        /\ UNCHANGED <<result, code, late, clicks, solves, turns>>
    BY DEF Resets, SoftReset, counts
  <1>2. resets' \in 0 .. MaxResets
    BY <1>1, OAuthAssumption DEF OAuthTypeOK, OAuthAssumption
  <1>3. OAuthTypeOK'
    BY <1>1, <1>2, BlankIsPage, ClearedIsState DEF OAuthTypeOK
  <1>4. OAuthRest'
    BY <1>1, RestCleared
  <1>5. BudgetsLeft'
    BY <1>1, BudgetsRenewed DEF Over
  <1>6. QED
    BY <1>1, <1>3, <1>4, <1>5 DEF OwnCode

\* The steps that look at the page and note its phase.
LEMMA PhaseNoted ==
  ASSUME OAuthInv, drive = "loop", drive' \in {"poll", "failed"}, idle' \in BOOLEAN,
         st' \in State, st'.good = st.good, st'.fp = st.fp, st'.filled = st.filled,
         st'.clicks = st.clicks, st'.solves = st.solves,
         code' \in Codes \cup {Nothing}, code' # "foreign",
         UNCHANGED <<page, resets, result, late, counts>>
  PROVE  OAuthInv'
  <1> USE DEF OAuthInv
  <1>1. OAuthTypeOK'
    BY DEF OAuthTypeOK, counts
  <1>2. OAuthRest'
    BY RestKept DEF counts
  <1>3. BudgetsLeft'
    BY BudgetsKept DEF Over, counts
  <1>4. QED
    BY <1>1, <1>2, <1>3 DEF OwnCode

LEMMA CloudflareKeeps ==
  ASSUME OAuthInv, Cloudflare
  PROVE  OAuthInv'
  <1> USE DEF OAuthInv
  <1>1. "cf" \in Phase /\ "unknown" \in Phase /\ st \in State /\ page \in Page
    BY DEF Phase, OAuthTypeOK
  <1>2. /\ st' \in State /\ st'.good = st.good /\ st'.fp = st.fp
        /\ st'.filled = st.filled /\ st'.cooling = st.cooling
        /\ st'.clicks = st.clicks /\ st'.solves = st.solves
    BY <1>1, EnteredState DEF Cloudflare, Keeps
  <1>3. /\ drive = "loop" /\ drive' \in {"poll", "failed"} /\ idle' \in BOOLEAN
        /\ UNCHANGED <<resets, result, code, late, counts>>
    BY DEF Cloudflare, InPhase, Goes, Idle, OAuthTypeOK
  <1>4. CASE UNCHANGED page
    BY <1>2, <1>3, <1>4, PhaseNoted DEF OwnCode, OAuthTypeOK
  <1>5. ASSUME NEW p \in {"cf", "unknown"},
               page' = [Blank EXCEPT !.phase = p, !.form = page.form]
        PROVE  OAuthInv'
    <2>1. /\ page' \in Page /\ page'.widget # "success" /\ page'.token = Nothing
          /\ page'.form = page.form
      BY <1>1, <1>5 DEF Blank, Page
    <2>2. turns \in Nat /\ turns' = turns
      BY <1>3, OAuthAssumption DEF OAuthTypeOK, OAuthAssumption, counts
    <2>3. OAuthRest'
      BY <1>2, <1>3, <2>1, <2>2, RestWithoutSuccess
    <2>4. OAuthTypeOK'
      BY <1>2, <1>3, <2>1 DEF OAuthTypeOK, counts
    <2>5. BudgetsLeft'
      BY <1>2, <1>3, BudgetsKept DEF Over, counts
    <2>6. QED
      BY <1>3, <2>3, <2>4, <2>5 DEF OwnCode
  <1>6. QED
    BY <1>4, <1>5 DEF Cloudflare

LEMMA PassesKeeps ==
  ASSUME OAuthInv, Passes
  PROVE  OAuthInv'
  <1>1. PICK p \in {"callback", "unknown"} :
          InPhase(p) /\ st' = Entered(p) /\ idle' = Idle(p) /\ Goes(p)
    BY DEF Passes
  <1>2. p \in Phase /\ st \in State
    BY DEF Phase, OAuthInv, OAuthTypeOK
  <1>3. /\ drive = "loop" /\ drive' \in {"poll", "failed"} /\ idle' \in BOOLEAN
        /\ UNCHANGED <<page, resets, result, code, late, counts>>
    BY <1>1 DEF Passes, InPhase, Goes, Idle, OAuthInv, OAuthTypeOK
  <1>4. QED
    BY <1>1, <1>2, <1>3, EnteredState, PhaseNoted
       DEF Keeps, OAuthInv, OAuthTypeOK, OwnCode

LEMMA DisplaysKeeps ==
  ASSUME OAuthInv, Displays
  PROVE  OAuthInv'
  <1>1. PICK p \in {"display", "consent"} :
          /\ InPhase(p) /\ st' = Entered(p)
          /\ code' \in Displayed
          /\ idle' = (Idle(p) /\ ~(p = "display" /\ code' # Nothing))
    BY DEF Displays
  <1>2. p \in Phase /\ st \in State
    BY <1>1 DEF Phase, Forms, OAuthInv, OAuthTypeOK
  <1>3. code' \in Codes \cup {Nothing} /\ code' # "foreign"
    BY <1>1, OAuthAssumption DEF Displayed, Codes, OAuthAssumption
  <1>4. /\ drive = "loop" /\ drive' = "poll" /\ idle' \in BOOLEAN
        /\ UNCHANGED <<page, resets, result, late, counts>>
    BY <1>1 DEF Displays, InPhase, Idle, OAuthInv, OAuthTypeOK
  <1>5. QED
    BY <1>1, <1>2, <1>3, <1>4, EnteredState, PhaseNoted DEF Keeps

\* One more try of a form stays within its tries.
LEMMA TriesState ==
  ASSUME st \in State, NEW p \in Forms, NEW n \in 0 .. MaxTries
  PROVE  LET s == [Entered(p) EXCEPT !.tries[p] = n] IN
         /\ s \in State /\ s.good = st.good /\ s.fp = st.fp /\ s.filled = st.filled
         /\ s.clicks = st.clicks /\ s.solves = st.solves
  <1> DEFINE e == Entered(p)
  <1>1. e \in State /\ Keeps(e) /\ e.filled = st.filled
    BY EnteredState DEF Phase
  <1> HIDE DEF e
  <1>2. [e.tries EXCEPT ![p] = n] \in [Forms -> 0 .. MaxTries]
    BY <1>1 DEF State
  <1>3. [e EXCEPT !.tries[p] = n] = [e EXCEPT !.tries = [e.tries EXCEPT ![p] = n]]
    BY <1>1 DEF State
  <1>4. QED
    BY <1>1, <1>2, <1>3 DEF State, Keeps, e

LEMMA FormKeeps ==
  ASSUME OAuthInv, NEW p \in Forms, Form(p)
  PROVE  OAuthInv'
  <1>1. PICK ok \in BOOLEAN :
          /\ st' = [Entered(p) EXCEPT !.tries[p] = IF ok THEN @ + 1 ELSE @]
          /\ idle' = (Idle(p) /\ ~(ok /\ p = "entry"))
    BY DEF Form, Filled
  <1>2. st \in State /\ p \in Phase /\ st.tries[p] \in 0 .. MaxTries
        /\ MaxTries \in Nat /\ st.tries[p] < MaxTries
    BY OAuthAssumption DEF Phase, OAuthInv, OAuthTypeOK, State, Form, OAuthAssumption
  <1>3. Entered(p).tries = st.tries
    BY <1>2, EnteredState
  <1> DEFINE n == IF ok THEN st.tries[p] + 1 ELSE st.tries[p]
  <1>4. n \in 0 .. MaxTries
    BY <1>2
  <1>5. st' = [Entered(p) EXCEPT !.tries[p] = n]
    BY <1>1, <1>3
  <1> HIDE DEF n
  <1>6. /\ drive = "loop" /\ drive' \in {"poll", "failed"} /\ idle' \in BOOLEAN
        /\ UNCHANGED <<page, resets, result, code, late, counts>>
    BY <1>1 DEF Form, InPhase, Goes, Idle, OAuthInv, OAuthTypeOK
  <1>7. QED
    BY <1>2, <1>4, <1>5, <1>6, TriesState, PhaseNoted
       DEF OAuthInv, OAuthTypeOK, OwnCode

LEMMA ConsentKeeps ==
  ASSUME OAuthInv, Consent
  PROVE  OAuthInv'
  <1>1. st \in State /\ "consent" \in Phase /\ "consent" \in Forms
        /\ st.tries["consent"] \in 0 .. MaxTries
        /\ MaxTries \in Nat /\ st.tries["consent"] < MaxTries
    BY OAuthAssumption DEF Phase, Forms, OAuthInv, OAuthTypeOK, State, Consent,
       OAuthAssumption
  <1>2. Entered("consent").tries = st.tries
    BY <1>1, EnteredState
  <1>3. PICK n \in 0 .. MaxTries : st' = [Entered("consent") EXCEPT !.tries["consent"] = n]
    <2>1. PICK button \in ConsentButton :
            st' = [Entered("consent") EXCEPT !.tries["consent"] =
                     CASE button = "clicked" -> @
                       [] button = "signout" -> MaxTries
                       [] button = "missed" -> @ + 1]
      BY DEF Consent
    <2>2. CASE button = "clicked"
      <3>1. st' = [Entered("consent") EXCEPT !.tries["consent"] = st.tries["consent"]]
        BY <1>2, <2>1, <2>2
      <3>2. QED
        BY <1>1, <3>1
    <2>3. CASE button = "signout"
      <3>1. st' = [Entered("consent") EXCEPT !.tries["consent"] = MaxTries]
        BY <1>2, <2>1, <2>3
      <3>2. QED
        BY <1>1, <3>1
    <2>4. CASE button = "missed"
      <3>1. st' = [Entered("consent") EXCEPT !.tries["consent"] = st.tries["consent"] + 1]
        BY <1>2, <2>1, <2>4
      <3>2. QED
        BY <1>1, <3>1
    <2>5. QED
      BY <2>1, <2>2, <2>3, <2>4 DEF ConsentButton
  <1>4. /\ drive = "loop" /\ drive' = "poll" /\ idle' \in BOOLEAN
        /\ UNCHANGED <<page, resets, result, code, late, counts>>
    BY DEF Consent, InPhase, Idle, OAuthInv, OAuthTypeOK
  <1>5. QED
    BY <1>1, <1>3, <1>4, TriesState, PhaseNoted DEF OAuthInv, OAuthTypeOK, OwnCode

LEMMA FormSpentKeeps ==
  ASSUME OAuthInv, FormSpent
  PROVE  OAuthInv'
  <1>1. PICK p \in Forms :
          InPhase(p) /\ st' = Entered(p) /\ idle' = Idle(p) /\ Goes(p)
    BY DEF FormSpent
  <1>2. p \in Phase /\ st \in State
    BY DEF Phase, OAuthInv, OAuthTypeOK
  <1>3. /\ drive = "loop" /\ drive' \in {"poll", "failed"} /\ idle' \in BOOLEAN
        /\ UNCHANGED <<page, resets, result, code, late, counts>>
    BY <1>1 DEF FormSpent, InPhase, Goes, Idle, OAuthInv, OAuthTypeOK
  <1>4. QED
    BY <1>1, <1>2, <1>3, EnteredState, PhaseNoted
       DEF Keeps, OAuthInv, OAuthTypeOK, OwnCode

-----------------------------------------------------------------------------
(* The password form *)

\* The form that has been filled does not look blank.
LEMMA TypedPageForm ==
  ASSUME OAuthInv, NEW p \in Page, p.form = page.form, NEW s \in State, NEW ok \in BOOLEAN,
         s.filled = (st.filled \/ ok)
  PROVE  LET q == TypedPage(p, s) IN
         /\ q \in Page /\ q.phase = p.phase /\ q.widget = p.widget
         /\ q.token = p.token /\ q.aged = p.aged /\ q.failed = p.failed
         /\ s.filled => q.form # "blank"
  <1> DEFINE form == IF s.filled /\ ~st.filled THEN "typed" ELSE p.form
  <1>1. TypedPage(p, s) = [p EXCEPT !.form = form]
    BY DEF TypedPage
  <1>2. form \in {"typed", "blank", "lost"}
    BY DEF Page
  <1>3. s.filled => form # "blank"
    BY DEF OAuthInv, OAuthRest, LoginPrepared
  <1> HIDE DEF form
  <1>4. QED
    BY <1>1, <1>2, <1>3 DEF Page

LEMMA WidgetResetPage ==
  ASSUME page \in Page
  PROVE  /\ WidgetReset \in Page /\ WidgetReset.widget # "success"
         /\ WidgetReset.token = page.token /\ WidgetReset.form = page.form
         /\ WidgetReset.phase = page.phase
  <1> DEFINE w == IF page.widget = "absent" THEN page.widget ELSE "waiting"
  <1>1. w \in {"absent", "waiting"}
    OBVIOUS
  <1>2. WidgetReset = [page EXCEPT !.widget = w, !.failed = FALSE, !.aged = FALSE]
    BY DEF WidgetReset
  <1> HIDE DEF w
  <1>3. QED
    BY <1>1, <1>2 DEF Page

LEMMA RefusedState ==
  ASSUME NEW s \in State, NEW again \in BOOLEAN, again => s.fails < MaxFails
  PROVE  /\ Refused(s, again) \in State
         /\ Refused(s, again).good = "no" /\ Refused(s, again).fp = Nothing
         /\ Refused(s, again).filled = s.filled
         /\ Refused(s, again).clicks = s.clicks /\ Refused(s, again).solves = s.solves
  <1> DEFINE fails == IF again THEN s.fails + 1 ELSE s.fails
  <1>1. fails \in 0 .. MaxFails /\ (s.need \/ fails >= MaxFails) \in BOOLEAN
    BY OAuthAssumption DEF State, OAuthAssumption
  <1>2. Refused(s, again) =
          [s EXCEPT !.done = FALSE, !.latched = FALSE, !.good = "no", !.fp = Nothing,
                    !.cooling = TRUE, !.fails = fails, !.need = s.need \/ fails >= MaxFails]
    BY DEF Refused
  <1> HIDE DEF fails
  <1>3. QED
    BY <1>1, <1>2 DEF State

\* The external solver: it spends one run, and a success it brings about is a
\* new one.
LEMMA SolveKeeps ==
  ASSUME OAuthInv, page.phase = "password", drive = "loop",
         drive' \in {"poll", "failed"}, idle' \in BOOLEAN,
         UNCHANGED <<resets, result, code, late, clicks>>,
         st.solves < MaxSolves,
         NEW s \in State, s.solves = st.solves, s.clicks = st.clicks,
         NEW p \in Page, p.phase = "password", p.token = page.token,
         p.widget = "success" => page.widget = "success",
         s.filled => p.form # "blank",
         Solve(s, p)
  PROVE  OAuthInv'
  <1> USE DEF OAuthInv
  <1>1. PICK shown \in BOOLEAN :
          /\ IF shown THEN Turn ELSE UNCHANGED turns
          /\ page' = IF shown THEN Succeeds(p) ELSE p
          /\ st' = [s EXCEPT !.solves = @ + 1, !.patient = FALSE, !.latched = FALSE,
                             !.good = IF shown THEN "fresh" ELSE "no",
                             !.fp = IF shown THEN turns + 1 ELSE Nothing]
    BY DEF Solve
  <1>2. /\ turns \in 0 .. MaxTurns /\ MaxTurns \in Nat /\ turns \in Nat
        /\ MaxSolves \in Nat /\ solves \in Nat /\ st.solves \in 0 .. MaxSolves
        /\ page.token \in Nat \cup {Nothing} /\ Nothing \notin Nat
    BY OAuthAssumption DEF OAuthTypeOK, OAuthAssumption, State, Page, Tokens
  <1> DEFINE good == IF shown THEN "fresh" ELSE "no"
             fp == IF shown THEN turns + 1 ELSE Nothing
  <1>3. shown => turns < MaxTurns /\ turns' = turns + 1
    BY <1>1 DEF Turn
  <1>4. fp \in Tokens \cup {Nothing} /\ good \in {"no", "fresh", "stable"}
    BY <1>2, <1>3 DEF Tokens
  <1>5. s.solves + 1 \in 0 .. MaxSolves
    BY <1>2
  <1>6. st' = [s EXCEPT !.solves = s.solves + 1, !.patient = FALSE, !.latched = FALSE,
                        !.good = good, !.fp = fp]
    BY <1>1
  <1>7. /\ st' \in State /\ st'.good = good /\ st'.fp = fp /\ st'.filled = s.filled
        /\ st'.clicks = st.clicks /\ st'.solves = st.solves + 1
    <2> HIDE DEF good, fp
    <2>1. [s EXCEPT !.solves = s.solves + 1] \in State
      BY <1>5 DEF State
    <2>2. st' \in State
      BY <1>4, <1>6, <2>1 DEF State
    <2>3. QED
      BY <1>6, <2>2 DEF State
  <1>8. /\ turns' \in 0 .. MaxTurns /\ solves' = solves + 1
        /\ turns' = IF shown THEN turns + 1 ELSE turns
    BY <1>1, <1>2, <1>3 DEF Solve
  <1>9. page' \in Page /\ OAuthRest'
    <2>1. CASE shown
      <3>1. /\ page' \in Page /\ page'.widget = "success" /\ page'.token = turns + 1
            /\ page'.phase = "password" /\ page'.form = p.form
        BY <1>1, <1>2, <1>3, <2>1, SucceedsPage
      <3>2. st'.good = "fresh" /\ st'.fp = turns + 1 /\ turns' = turns + 1
        BY <1>7, <1>8, <2>1
      <3>3. QED
        BY <1>2, <1>7, <3>1, <3>2 DEF OAuthRest, WidgetSound, Timed, LoginPrepared
    <2>2. CASE ~shown
      <3>1. page' = p /\ st'.good = "no" /\ st'.fp = Nothing /\ turns' = turns
        BY <1>1, <1>7, <1>8, <2>2
      <3>2. QED
        BY <1>2, <1>7, <3>1 DEF OAuthRest, WidgetSound, Timed, LoginPrepared
    <2>3. QED
      BY <2>1, <2>2
  <1>10. OAuthTypeOK'
    BY <1>2, <1>7, <1>8, <1>9 DEF OAuthTypeOK
  <1>11. BudgetsLeft'
    <2> DEFINE mc == MaxClicks * resets
               ms == MaxSolves * resets
    <2>1. /\ MaxClicks \in Nat /\ clicks \in Nat /\ mc \in Nat /\ ms \in Nat
          /\ st.clicks \in 0 .. MaxClicks
      BY BudgetsTyped
    <2>2. MaxClicks * resets' = mc /\ MaxSolves * resets' = ms
      OBVIOUS
    <2>3. clicks <= mc + st.clicks /\ solves <= ms + st.solves
      BY DEF BudgetsLeft, Over
    <2> HIDE DEF mc, ms
    <2>4. QED
      BY <1>2, <1>7, <1>8, <2>1, <2>2, <2>3 DEF BudgetsLeft
  <1>12. QED
    BY <1>9, <1>10, <1>11 DEF OwnCode

LEMMA PasswordFailsKeeps ==
  ASSUME OAuthInv, PasswordFails
  PROVE  OAuthInv'
  <1>1. PICK ok \in BOOLEAN, again \in BOOLEAN :
          LET s == Refused(Watched(Typed(ok)), again)
              p == TypedPage(IF again THEN WidgetReset ELSE page, s)
          IN /\ again => st.fails < MaxFails
             /\ IF SolverDue THEN Solve(s, p)
                ELSE st' = s /\ page' = p /\ UNCHANGED <<solves, turns>>
             /\ idle' = (Idle("password") /\ s.filled = st.filled)
    BY DEF PasswordFails
  <1> DEFINE s == Refused(Watched(Typed(ok)), again)
             q == IF again THEN WidgetReset ELSE page
             p == TypedPage(q, s)
  <1>2. page.phase = "password" /\ drive = "loop" /\ page \in Page /\ st \in State
    BY DEF PasswordFails, InPhase, OAuthInv, OAuthTypeOK
  <1>3. Typed(ok) \in State /\ Keeps(Typed(ok)) /\ Typed(ok).filled = (st.filled \/ ok)
    BY <1>2, TypedState
  <1>4. /\ Watched(Typed(ok)) \in State
        /\ Watched(Typed(ok)).filled = (st.filled \/ ok)
        /\ Watched(Typed(ok)).clicks = st.clicks /\ Watched(Typed(ok)).solves = st.solves
        /\ Watched(Typed(ok)).fails = st.fails
    BY <1>3, WatchedState DEF OAuthInv, Keeps
  <1>5. /\ s \in State /\ s.good = "no" /\ s.fp = Nothing /\ s.filled = (st.filled \/ ok)
        /\ s.clicks = st.clicks /\ s.solves = st.solves
    BY <1>1, <1>4, RefusedState
  <1>6. /\ q \in Page /\ q.phase = "password" /\ q.token = page.token /\ q.form = page.form
        /\ q.widget = "success" => page.widget = "success"
    BY <1>2, WidgetResetPage
  <1>7. /\ p \in Page /\ p.phase = "password" /\ p.token = page.token
        /\ p.widget = "success" => page.widget = "success"
        /\ s.filled => p.form # "blank"
    <2> HIDE DEF s, q
    <2>1. QED
      BY <1>5, <1>6, TypedPageForm
  <1>8. /\ drive' \in {"poll", "failed"}
        /\ UNCHANGED <<resets, result, code, late, clicks>>
    BY DEF PasswordFails, Goes
  <1>9. /\ idle' = (Idle("password") /\ s.filled = st.filled)
        /\ IF SolverDue THEN Solve(s, p)
           ELSE st' = s /\ page' = p /\ UNCHANGED <<solves, turns>>
    BY <1>1
  <1> HIDE DEF s, q, p
  <1>10. CASE SolverDue
    <2>1. st.solves < MaxSolves /\ Solve(s, p) /\ idle' \in BOOLEAN
      BY <1>9, <1>10 DEF SolverDue
    <2>2. QED
      BY <1>2, <1>5, <1>7, <1>8, <2>1, SolveKeeps
  <1>11. CASE ~SolverDue
    <2>1. st' = s /\ page' = p /\ UNCHANGED <<solves, turns>> /\ idle' \in BOOLEAN
      BY <1>9, <1>11
    <2>2. OAuthTypeOK'
      BY <1>5, <1>7, <1>8, <2>1 DEF OAuthInv, OAuthTypeOK
    <2>3. OAuthRest'
      BY <1>5, <1>7, <1>8, <2>1, OAuthAssumption
         DEF OAuthInv, OAuthRest, WidgetSound, Timed, LoginPrepared, OAuthAssumption
    <2>4. BudgetsLeft'
      BY <1>2, <1>5, <1>8, <2>1, BudgetsKept DEF OAuthInv, Over
    <2>5. QED
      BY <1>8, <2>2, <2>3, <2>4 DEF OAuthInv, OwnCode
  <1>12. QED
    BY <1>10, <1>11

LEMMA SolveExternallyKeeps ==
  ASSUME OAuthInv, SolveExternally
  PROVE  OAuthInv'
  <1>1. PICK ok \in BOOLEAN :
          /\ Solve(Watched(Typed(ok)), TypedPage(page, Watched(Typed(ok))))
          /\ idle' = (Idle("password") /\ Watched(Typed(ok)).filled = st.filled)
    BY DEF SolveExternally
  <1> DEFINE s == Watched(Typed(ok))
             p == TypedPage(page, s)
  <1>2. page.phase = "password" /\ drive = "loop" /\ page \in Page /\ st \in State
    BY DEF SolveExternally, InPhase, OAuthInv, OAuthTypeOK
  <1>3. Typed(ok) \in State /\ Keeps(Typed(ok)) /\ Typed(ok).filled = (st.filled \/ ok)
    BY <1>2, TypedState
  <1>4. /\ s \in State /\ s.filled = (st.filled \/ ok)
        /\ s.clicks = st.clicks /\ s.solves = st.solves
    BY <1>3, WatchedState DEF OAuthInv, Keeps
  <1>5. /\ p \in Page /\ p.phase = "password" /\ p.token = page.token
        /\ p.widget = "success" => page.widget = "success"
        /\ s.filled => p.form # "blank"
    <2> HIDE DEF s
    <2>1. QED
      BY <1>2, <1>4, TypedPageForm
  <1>6. /\ drive' \in {"poll", "failed"} /\ idle' \in BOOLEAN /\ st.solves < MaxSolves
        /\ UNCHANGED <<resets, result, code, late, clicks>>
    BY <1>1 DEF SolveExternally, SolverDue, Goes
  <1>7. Solve(s, p)
    BY <1>1
  <1> HIDE DEF s, p
  <1>8. QED
    BY <1>2, <1>4, <1>5, <1>6, <1>7, SolveKeeps

\* What Password looks at before it prepares a login.
LEMMA PasswordKeeps ==
  ASSUME OAuthInv, Password
  PROVE  /\ OAuthInv'
         /\ clicks' = clicks
         /\ drive' = "click" => page.aged \/ page.widget = "absent"
  <1>1. PICK ok \in BOOLEAN :
          LET s == Watched(Typed(ok))
              latch == Ready(s) /\ ~s.latched
              again == Again(s)
          IN /\ st' = [s EXCEPT !.latched = @ \/ latch \/ again, !.done = @ /\ ~again]
             /\ page' = TypedPage(page, s)
             /\ idle' = (Idle("password") /\ ~latch /\ s.filled = st.filled)
             /\ IF /\ s.filled /\ s.clicks < MaxClicks
                   /\ again \/ (Ready(s) /\ s.latched /\ ~s.done)
                THEN drive' = "click"
                ELSE Goes("password")
    BY DEF Password
  <1> DEFINE s == Watched(Typed(ok))
             latched == s.latched \/ (Ready(s) /\ ~s.latched) \/ Again(s)
             done == s.done /\ ~Again(s)
  <1>2. page.phase = "password" /\ drive = "loop" /\ page \in Page /\ st \in State
    BY DEF Password, InPhase, OAuthInv, OAuthTypeOK
  <1>3. Typed(ok) \in State /\ Keeps(Typed(ok)) /\ Typed(ok).filled = (st.filled \/ ok)
    BY <1>2, TypedState
  <1>4. /\ s \in State /\ s.filled = (st.filled \/ ok)
        /\ s.clicks = st.clicks /\ s.solves = st.solves
        /\ s.good # "no" => Success /\ s.fp = page.token
        /\ s.fp # Nothing => s.fp <= turns
        /\ s.good = "stable" => page.aged
    BY <1>3, WatchedState DEF OAuthInv, Keeps
  <1>5. /\ page' \in Page /\ page'.phase = "password" /\ page'.token = page.token
        /\ page'.widget = page.widget /\ page'.aged = page.aged
        /\ s.filled => page'.form # "blank"
    <2>1. page' = TypedPage(page, s)
      BY <1>1
    <2> HIDE DEF s
    <2>2. QED
      BY <1>2, <1>4, <2>1, TypedPageForm
  <1>6. latched \in BOOLEAN /\ done \in BOOLEAN
    <2> HIDE DEF s
    <2>1. s.latched \in BOOLEAN /\ s.done \in BOOLEAN
      BY <1>4 DEF State
    <2>2. QED
      BY <2>1 DEF Ready, Again
  <1>7. st' = [s EXCEPT !.latched = latched, !.done = done]
    BY <1>1
  <1>8. /\ idle' = (Idle("password") /\ ~(Ready(s) /\ ~s.latched) /\ s.filled = st.filled)
        /\ IF /\ s.filled /\ s.clicks < MaxClicks
              /\ Again(s) \/ (Ready(s) /\ s.latched /\ ~s.done)
           THEN drive' = "click"
           ELSE Goes("password")
    BY <1>1
  <1>9. UNCHANGED <<resets, result, code, late, counts>>
    BY DEF Password
  <1> HIDE DEF s, latched, done
  <1>10. /\ st' \in State /\ st'.filled = s.filled /\ st'.cooling = s.cooling
         /\ st'.clicks = st.clicks /\ st'.solves = st.solves
         /\ st'.good = s.good /\ st'.fp = s.fp
    BY <1>4, <1>6, <1>7 DEF State
  <1>11. \/ drive' = "click" /\ s.filled /\ s.clicks < MaxClicks /\ ~s.cooling
            /\ (page.widget = "absent" \/ s.good = "stable")
         \/ drive' \in {"poll", "failed"}
    BY <1>8 DEF Goes, Ready, Again
  <1>12. OAuthTypeOK'
    BY <1>5, <1>8, <1>9, <1>10, <1>11 DEF OAuthInv, OAuthTypeOK, counts
  <1>13. OAuthRest'
    <2>1. WidgetSound'
      BY <1>2, <1>5, <1>9 DEF OAuthInv, OAuthRest, WidgetSound, counts
    <2>2. Timed'
      BY <1>4, <1>5, <1>9, <1>10
         DEF OAuthInv, OAuthRest, WidgetSound, Timed, counts, Success
    <2>3. LoginPrepared'
      BY <1>4, <1>5, <1>10, <1>11 DEF LoginPrepared
    <2>4. QED
      BY <2>1, <2>2, <2>3 DEF OAuthRest
  <1>14. BudgetsLeft'
    BY <1>2, <1>9, <1>10, BudgetsKept DEF OAuthInv, Over, counts
  <1>15. QED
    BY <1>4, <1>9, <1>11, <1>12, <1>13, <1>14 DEF OAuthInv, OwnCode, counts

LEMMA ClickKeeps ==
  ASSUME OAuthInv, Click
  PROVE  OAuthInv'
  <1> USE DEF OAuthInv
  <1>1. PICK button \in LoginButton :
          /\ st' = [st EXCEPT !.clicks = @ + 1, !.clicked = "recent",
                              !.done = IF button = "missed" THEN @
                                       ELSE button = "clicked"]
          /\ idle' = (idle /\ button # "clicked")
    BY DEF Click
  <1>2. /\ st \in State /\ clicks' = clicks + 1 /\ drive = "click" /\ drive' = "poll"
        /\ UNCHANGED <<page, resets, result, code, late, solves, turns>>
    BY DEF Click, OAuthTypeOK
  <1>3. /\ st.clicks + 1 \in 0 .. MaxClicks /\ st.clicks \in Nat
        /\ (IF button = "missed" THEN st.done ELSE button = "clicked") \in BOOLEAN
    BY <1>2, OAuthAssumption
       DEF OAuthRest, LoginPrepared, OAuthTypeOK, State, OAuthAssumption
  <1> DEFINE done == IF button = "missed" THEN st.done ELSE button = "clicked"
             n == st.clicks + 1
  <1>4. st' = [st EXCEPT !.clicks = n, !.clicked = "recent", !.done = done]
    BY <1>1
  <1>5. n \in 0 .. MaxClicks /\ done \in BOOLEAN
    BY <1>3
  <1> HIDE DEF done, n
  <1>6. /\ st' \in State /\ st'.clicks = n /\ st'.solves = st.solves
        /\ st'.good = st.good /\ st'.fp = st.fp /\ st'.filled = st.filled
    BY <1>2, <1>4, <1>5 DEF State
  <1>7. OAuthTypeOK'
    BY <1>1, <1>2, <1>6 DEF OAuthTypeOK
  <1>8. OAuthRest'
    BY <1>2, <1>6, RestKept
  <1>9. BudgetsLeft'
    <2> DEFINE mc == MaxClicks * resets
               ms == MaxSolves * resets
    <2>1. clicks \in Nat /\ mc \in Nat
      BY BudgetsTyped
    <2>2. MaxClicks * resets' = mc /\ MaxSolves * resets' = ms
      BY <1>2
    <2>3. clicks <= mc + st.clicks /\ solves <= ms + st.solves
      BY <1>2 DEF BudgetsLeft, Over
    <2> HIDE DEF mc, ms
    <2>4. QED
      BY <1>2, <1>3, <1>6, <2>1, <2>2, <2>3 DEF BudgetsLeft, Over, n
  <1>10. QED
    BY <1>2, <1>7, <1>8, <1>9 DEF OwnCode

LEMMA ClickAbortedKeeps ==
  ASSUME OAuthInv, ClickAborted
  PROVE  OAuthInv'
  <1> USE DEF OAuthInv
  <1>1. /\ st' = [st EXCEPT !.latched = FALSE, !.good = "no", !.cooling = @ \/ page.failed]
        /\ page' = IF page.failed THEN WidgetReset ELSE page
        /\ drive = "click" /\ drive' = "poll"
        /\ UNCHANGED <<resets, idle, result, code, late, counts>>
    BY DEF ClickAborted
  <1>2. st \in State /\ page \in Page
    BY DEF OAuthTypeOK
  <1>3. /\ st' \in State /\ st'.good = "no" /\ st'.fp = st.fp /\ st'.filled = st.filled
        /\ st'.clicks = st.clicks /\ st'.solves = st.solves
    BY <1>1, <1>2 DEF State, Page
  <1>4. /\ page' \in Page /\ page'.token = page.token /\ page'.form = page.form
        /\ page'.phase = page.phase
        /\ page'.widget = "success" => page.widget = "success"
    BY <1>1, <1>2, WidgetResetPage
  <1>5. OAuthTypeOK'
    BY <1>1, <1>3, <1>4 DEF OAuthTypeOK, counts
  <1>6. OAuthRest'
    BY <1>1, <1>3, <1>4 DEF OAuthRest, WidgetSound, Timed, LoginPrepared, counts
  <1>7. BudgetsLeft'
    BY <1>1, <1>3, BudgetsKept DEF Over, counts
  <1>8. QED
    BY <1>1, <1>5, <1>6, <1>7 DEF OwnCode

-----------------------------------------------------------------------------
(* The loop of the driver *)

\* Steps that only look for a code.
LEMMA LookingKeeps ==
  ASSUME OAuthInv, Poll \/ LoopEnds \/ WaitCallback \/ Redirected \/ Deadline
  PROVE  OAuthInv'
  <1> USE DEF OAuthInv
  <1>1. /\ UNCHANGED <<page, st, resets, idle, clicks, solves>> /\ ~Over
        /\ drive' = "click" => drive = "click"
        /\ drive' \in {"loop", "click", "poll", "wait", "exchange", "failed"}
    BY DEF Poll, LoopEnds, WaitCallback, Redirected, Deadline, Over, counts, OAuthTypeOK
  <1>2. turns \in Nat /\ turns' \in 0 .. MaxTurns /\ turns' \in {turns, turns + 1}
    BY OAuthAssumption DEF Poll, LoopEnds, WaitCallback, Redirected, Deadline, Turn,
       counts, OAuthTypeOK, OAuthAssumption
  <1>3. result' \in Results \cup {Nothing} /\ late' \in BOOLEAN
    BY DEF Poll, LoopEnds, WaitCallback, Redirected, Deadline, OAuthTypeOK
  <1>4. code' \in Codes \cup {Nothing} /\ code' # "foreign"
    <2>1. Nothing # "foreign" /\ "own" \in Codes
      BY OAuthAssumption DEF OAuthAssumption, Codes
    <2>2. CASE Poll
      BY <2>1, <2>2 DEF Poll, Received, Displayed, Codes, OwnCode, OAuthTypeOK
    <2>3. CASE WaitCallback
      BY <2>1, <2>3 DEF WaitCallback, Received, OwnCode, OAuthTypeOK
    <2>4. CASE LoopEnds \/ Redirected \/ Deadline
      BY <2>4 DEF LoopEnds, Redirected, Deadline, OwnCode, OAuthTypeOK
    <2>5. QED
      BY <2>2, <2>3, <2>4
  <1>5. OAuthTypeOK'
    BY <1>1, <1>2, <1>3, <1>4 DEF OAuthTypeOK
  <1>6. OAuthRest'
    <2>1. /\ page.token \in Nat \cup {Nothing} /\ st.fp \in Nat \cup {Nothing}
          /\ Nothing \notin Nat
      BY OAuthAssumption DEF OAuthTypeOK, Page, State, Tokens, OAuthAssumption
    <2>2. QED
      BY <1>1, <1>2, <2>1 DEF OAuthRest, WidgetSound, Timed, LoginPrepared
  <1>7. BudgetsLeft'
    BY <1>1, BudgetsKept
  <1>8. QED
    BY <1>4, <1>5, <1>6, <1>7 DEF OwnCode

\* The end of the flow: the browser is gone, and the callback server.
LEMMA EndingKeeps ==
  ASSUME OAuthInv, Raises \/ Exchange
  PROVE  OAuthInv'
  <1> USE DEF OAuthInv
  <1>1. /\ ~Over /\ drive' \in {"saved", "failed"} /\ page' = Blank /\ st' = Cleared
        /\ idle' = FALSE /\ result' = Nothing
        /\ UNCHANGED <<resets, code, late, clicks, solves, turns>>
    BY DEF Raises, Exchange, Over, counts
  <1>2. OAuthTypeOK'
    BY <1>1, BlankIsPage, ClearedIsState DEF OAuthTypeOK
  <1>3. OAuthRest'
    BY <1>1, RestCleared
  <1>4. BudgetsLeft'
    BY <1>1, BudgetsKept DEF Over
  <1>5. QED
    BY <1>1, <1>2, <1>3, <1>4 DEF OwnCode

-----------------------------------------------------------------------------
LEMMA NextOAuthInv == OAuthInv /\ [OAuthNext]_oauthVars => OAuthInv'
  <1> SUFFICES ASSUME OAuthInv, [OAuthNext]_oauthVars
               PROVE  OAuthInv'
    OBVIOUS
  <1>1. CASE Step
    <2>1. ASSUME NEW p \in Forms \ {"consent"}, Form(p)
          PROVE  OAuthInv'
      BY <2>1, FormKeeps
    <2>2. QED
      BY <1>1, <2>1, ResetsKeeps, CloudflareKeeps, PassesKeeps, DisplaysKeeps,
         ConsentKeeps, FormSpentKeeps, PasswordFailsKeeps, SolveExternallyKeeps,
         PasswordKeeps, ClickKeeps, ClickAbortedKeeps, LookingKeeps, EndingKeeps
         DEF Step
  <1>2. CASE Raises \/ PageMoves \/ WidgetChanges \/ Redirected \/ Elapse \/ Deadline
    BY <1>2, EndingKeeps, PageMovesKeeps, WidgetChangesKeeps, LookingKeeps, ElapseKeeps
  <1>3. CASE UNCHANGED oauthVars
    <2>1. UNCHANGED <<page, st, resets, idle, drive, result, code, late, clicks, solves, turns>>
      BY <1>3 DEF oauthVars, counts
    <2>2. OAuthTypeOK' /\ OAuthRest' /\ BudgetsLeft' /\ OwnCode'
      BY <2>1 DEF OAuthInv, OAuthTypeOK, OAuthRest, WidgetSound, Timed, LoginPrepared,
         BudgetsLeft, Over, OwnCode
    <2>3. QED
      BY <2>2 DEF OAuthInv
  <1>4. QED
    BY <1>1, <1>2, <1>3 DEF OAuthNext

LEMMA AlwaysOAuthInv == OAuthSpec => []OAuthInv
  BY InitOAuthInv, NextOAuthInv, PTL DEF OAuthSpec

\* What one attempt of the sign-in does is bounded, whatever the page does and
\* however often it resets (_oauth_soft_reset): login clicks and runs of the
\* external solver by their budgets for each soft reset; and no code of another
\* flow is exchanged (_wait_oauth_callback).
THEOREM AttemptsAreBounded == OAuthSpec => []AttemptBounded
  <1>1. OAuthInv => AttemptBounded
    <2> SUFFICES ASSUME OAuthInv PROVE AttemptBounded
      OBVIOUS
    <2>1. BudgetsHold
      <3> DEFINE mc == MaxClicks * resets
                 ms == MaxSolves * resets
      <3>1. /\ MaxClicks \in Nat /\ MaxSolves \in Nat /\ clicks \in Nat /\ solves \in Nat
            /\ mc \in Nat /\ ms \in Nat /\ resets \in Nat
            /\ st.clicks \in 0 .. MaxClicks /\ st.solves \in 0 .. MaxSolves
        BY BudgetsTyped DEF OAuthInv
      <3>2. MaxClicks * (resets + 1) = mc + MaxClicks /\ MaxSolves * (resets + 1) = ms + MaxSolves
        BY <3>1
      <3>3. /\ clicks <= mc + (IF Over THEN MaxClicks ELSE st.clicks)
            /\ solves <= ms + (IF Over THEN MaxSolves ELSE st.solves)
        BY DEF OAuthInv, BudgetsLeft
      <3> HIDE DEF mc, ms
      <3>4. QED
        BY <3>1, <3>2, <3>3 DEF BudgetsHold
    <2>2. QED
      BY <2>1 DEF OAuthInv, OwnCode, ForeignCodeRefused, AttemptBounded
  <1>2. QED
    BY <1>1, AlwaysOAuthInv, PTL

\* No other step clicks, or prepares a click.
LEMMA OnlyClickClicks ==
  ASSUME OAuthInv, [OAuthNext]_oauthVars
  PROVE  /\ clicks' > clicks => Click
         /\ drive # "click" /\ drive' = "click" => Password
  <1>1. clicks \in Nat
    BY DEF OAuthInv, OAuthTypeOK
  <1>2. CASE Click \/ Password
    <2>1. CASE Click
      BY <2>1 DEF Click
    <2>2. CASE Password
      BY <1>1, <2>2, PasswordKeeps
    <2>3. QED
      BY <1>2, <2>1, <2>2
  <1>3. CASE PasswordFails \/ SolveExternally
    BY <1>1, <1>3 DEF PasswordFails, SolveExternally, Goes
  <1>4. CASE Resets \/ Cloudflare \/ Passes \/ Displays \/ Consent \/ FormSpent \/ ClickAborted
    BY <1>1, <1>4 DEF Resets, Cloudflare, Passes, Displays, Consent, FormSpent, ClickAborted,
       Goes, counts
  <1>5. ASSUME NEW p \in Forms, Form(p)
        PROVE  clicks' = clicks /\ drive' # "click"
    BY <1>5 DEF Form, Goes, counts
  <1>6. CASE Poll \/ LoopEnds \/ WaitCallback \/ Exchange \/ Raises
    BY <1>1, <1>6 DEF Poll, LoopEnds, WaitCallback, Exchange, Raises, counts
  <1>7. CASE PageMoves \/ WidgetChanges \/ Redirected \/ Elapse \/ Deadline
    <2>1. PageMoves \/ WidgetChanges \/ Redirected => clicks' = clicks /\ drive' = drive
      BY DEF PageMoves, WidgetChanges, Redirected
    <2>2. Elapse => clicks' = clicks /\ drive' = drive
      BY DEF Elapse, counts
    <2>3. Deadline => clicks' = clicks /\ drive' = drive
      BY DEF Deadline, counts
    <2>4. QED
      BY <1>1, <1>7, <2>1, <2>2, <2>3
  <1>8. CASE UNCHANGED oauthVars
    BY <1>1, <1>8 DEF oauthVars, counts
  <1>9. QED
    BY <1>1, <1>2, <1>3, <1>4, <1>5, <1>6, <1>7, <1>8 DEF OAuthNext, Step

\* The login button is clicked only on a page that shows a success of its own,
\* with the form filled since the last soft reset, and a login is prepared only
\* on a success that has been stable (_oauth_browser_step): between the two
\* looks of the driver the page may do whatever it likes.
THEOREM LoginsAreReady == OAuthSpec => LoginWhenReady
  <1>1. OAuthInv /\ [OAuthNext]_oauthVars =>
          [clicks' > clicks =>
             /\ page.phase = "password" /\ page.widget = "success"
             /\ st.filled /\ page.form # "blank" /\ ~st.cooling]_oauthVars
    <2> SUFFICES ASSUME OAuthInv, [OAuthNext]_oauthVars, clicks' > clicks
                 PROVE  /\ page.phase = "password" /\ page.widget = "success"
                        /\ st.filled /\ page.form # "blank" /\ ~st.cooling
      OBVIOUS
    <2>1. Click
      BY OnlyClickClicks
    <2>2. QED
      BY <2>1 DEF Click, Live, OAuthInv, OAuthRest, WidgetSound, LoginPrepared
  <1>2. OAuthInv /\ [OAuthNext]_oauthVars =>
          [drive # "click" /\ drive' = "click" => page.aged \/ page.widget = "absent"]_oauthVars
    <2> SUFFICES ASSUME OAuthInv, [OAuthNext]_oauthVars, drive # "click", drive' = "click"
                 PROVE  page.aged \/ page.widget = "absent"
      OBVIOUS
    <2>1. Password
      BY OnlyClickClicks
    <2>2. QED
      BY <2>1, PasswordKeeps
  <1>3. QED
    BY <1>1, <1>2, AlwaysOAuthInv, PTL
       DEF OAuthSpec, LoginWhenReady, ClicksOnSuccess, PreparedWhenStable

-----------------------------------------------------------------------------
(* SubmitPermits *)

USE PermitAssumption DEF PermitAssumption

\* Where a permit's slot is, by what its own acquire call is doing.
AcquirerPlaces ==
  \A p \in Acquirers :
    /\ pc[p] \in {"idle", "reap", "giveback", "check", "try", "got",
                  "granted", "refused"}
    /\ pc[p] \in {"idle", "reap", "giveback", "check", "try"}
         => slot[p] = "none"
    /\ pc[p] = "got" <=> slot[p] = "got"
    /\ pc[p] = "granted" => slot[p] \in {"active", "popped", "returned"}
    /\ slot[p] \in {"active", "popped"} => pc[p] = "granted"

\* What a thread that popped leases owes.
PopperPlaces ==
  \A p \in Acquirers : slot[p] = "popped" =>
    /\ popper[p] \in Threads
    /\ pc[popper[p]] \in {"giveback", "hand"}
    /\ pc[popper[p]] = "hand" => target[popper[p]] = p

OtherPlaces ==
  \A t \in Others :
    /\ pc[t] \in {"idle", "reap", "giveback", "pop", "hand", "refused", "done"}
    /\ pc[t] = "pop" => target[t] \in Acquirers
    /\ pc[t] = "hand" => /\ target[t] \in Acquirers
                         /\ slot[target[t]] = "popped"
                         /\ popper[target[t]] = t

ClosedIsEmpty == closed => Active = {}

PlacesOK == AcquirerPlaces /\ PopperPlaces /\ OtherPlaces /\ ClosedIsEmpty

IInv == TypeOK /\ PlacesOK /\ SlotsConserved

-----------------------------------------------------------------------------
\* A set of charged slots is finite.
LEMMA ChargedFinite == IsFiniteSet(Charged) /\ Cardinality(Charged) \in Nat
  BY FS_Subset, FS_CardinalityType DEF Charged

\* While a slot is out of the semaphore, giving one back cannot overflow it.
LEMMA GiveBackFits ==
  ASSUME TypeOK, SlotsConserved, NEW p \in Charged
  PROVE  sem < Workers /\ GivenBack = sem + 1
  <1>1. Cardinality(Charged) # 0
    BY ChargedFinite, FS_EmptySet
  <1>2. QED
    BY <1>1, ChargedFinite DEF TypeOK, SlotsConserved, GivenBack

\* Taking one slot charges one permit more.
LEMMA ChargeOne ==
  ASSUME TypeOK, SlotsConserved, NEW p \in Acquirers, p \notin Charged,
         Charged' = Charged \cup {p}, sem' = sem - 1
  PROVE  SlotsConserved'
  <1>1. Cardinality(Charged') = Cardinality(Charged) + 1
    BY ChargedFinite, FS_AddElement
  <1>2. QED
    BY <1>1, ChargedFinite DEF TypeOK, SlotsConserved

\* Giving one slot back discharges one permit.
LEMMA DischargeOne ==
  ASSUME TypeOK, SlotsConserved, NEW p \in Charged,
         Charged' = Charged \ {p}, sem' = GivenBack
  PROVE  SlotsConserved' /\ sem' \in 0..Workers
  <1>1. Cardinality(Charged') = Cardinality(Charged) - 1
    BY ChargedFinite, FS_RemoveElement
  <1>2. sem' = sem + 1 /\ sem < Workers
    BY GiveBackFits
  <1>3. QED
    BY <1>1, <1>2, ChargedFinite DEF TypeOK, SlotsConserved

-----------------------------------------------------------------------------
LEMMA InitIInv == Init => IInv
  <1> SUFFICES ASSUME Init PROVE IInv
    OBVIOUS
  <1>1. TypeOK
    <2>1. sem \in 0..Workers
      BY DEF Init
    <2>2. due \subseteq Active
      BY DEF Init
    <2>3. closed \in BOOLEAN
      BY DEF Init
    <2>4. slot \in [Acquirers -> SlotState]
      BY DEF Init, SlotState
    <2>5. /\ popper \in [Acquirers -> Threads \cup {None}]
          /\ pc \in [Threads -> Label]
          /\ target \in [Others -> Acquirers \cup {None}]
      BY DEF Init, Label
    <2>6. QED
      BY <2>1, <2>2, <2>3, <2>4, <2>5 DEF TypeOK
  <1>2. PlacesOK
    BY DEF Init, PlacesOK, AcquirerPlaces, PopperPlaces, OtherPlaces,
           ClosedIsEmpty, Active, Threads
  <1>3. Charged = {}
    BY DEF Init, Charged
  <1>4. SlotsConserved
    BY <1>3, FS_EmptySet DEF Init, SlotsConserved
  <1>5. QED
    BY <1>1, <1>2, <1>4 DEF IInv

\* Steps that only move a program counter (or note a target) leave the
\* charged slots alone.
LEMMA NextIInv == IInv /\ [Next]_vars => IInv'
  <1> SUFFICES ASSUME IInv, [Next]_vars
               PROVE  IInv'
    OBVIOUS
  <1> USE DEF IInv
  <1>1. ASSUME NEW r \in Acquirers, CallAcquire(r)
        PROVE  IInv'
    <2>1. TypeOK'
      BY <1>1 DEF CallAcquire, TypeOK, Goto, Threads, Label, Active
    <2>2. PlacesOK'
      BY <1>1 DEF CallAcquire, TypeOK, Goto, Threads, PlacesOK, AcquirerPlaces,
         PopperPlaces, OtherPlaces, ClosedIsEmpty, Active
    <2>3. SlotsConserved'
      BY <1>1 DEF CallAcquire, SlotsConserved, Charged
    <2>4. QED
      BY <2>1, <2>2, <2>3
  <1>2. ASSUME NEW r \in Acquirers, CheckClosed(r)
        PROVE  IInv'
    <2>1. TypeOK'
      BY <1>2 DEF CheckClosed, TypeOK, Goto, Threads, Label, Active
    <2>2. PlacesOK'
      BY <1>2 DEF CheckClosed, TypeOK, Goto, Threads, PlacesOK, AcquirerPlaces,
         PopperPlaces, OtherPlaces, ClosedIsEmpty, Active
    <2>3. SlotsConserved'
      BY <1>2 DEF CheckClosed, SlotsConserved, Charged
    <2>4. QED
      BY <2>1, <2>2, <2>3
  <1>3. ASSUME NEW r \in Acquirers, TakeSlot(r)
        PROVE  IInv'
    <2>1. TypeOK'
      BY <1>3 DEF TakeSlot, TypeOK, Goto, Threads, Label, Active, SlotState,
         PlacesOK, AcquirerPlaces
    <2>2. PlacesOK'
      BY <1>3 DEF TakeSlot, TypeOK, Goto, Threads, PlacesOK, AcquirerPlaces,
         PopperPlaces, OtherPlaces, ClosedIsEmpty, Active
    <2>3. r \notin Charged /\ Charged' = Charged \cup {r} /\ sem' = sem - 1
      BY <1>3 DEF TakeSlot, Charged, TypeOK, PlacesOK, AcquirerPlaces
    <2>4. SlotsConserved'
      BY <2>3, ChargeOne
    <2>5. QED
      BY <2>1, <2>2, <2>4
  <1>4. ASSUME NEW r \in Acquirers, Retry(r) \/ GiveUp(r)
        PROVE  IInv'
    <2>1. TypeOK'
      BY <1>4 DEF Retry, GiveUp, TypeOK, Goto, Threads, Label, Active
    <2>2. PlacesOK'
      BY <1>4 DEF Retry, GiveUp, TypeOK, Goto, Threads, PlacesOK,
         AcquirerPlaces, PopperPlaces, OtherPlaces, ClosedIsEmpty, Active
    <2>3. SlotsConserved'
      BY <1>4 DEF Retry, GiveUp, SlotsConserved, Charged
    <2>4. QED
      BY <2>1, <2>2, <2>3
  <1>5. ASSUME NEW r \in Acquirers, Register(r)
        PROVE  IInv'
    <2>1. r \in Charged
      BY <1>5 DEF Register, Charged, PlacesOK, AcquirerPlaces
    <2>2. PlacesOK'
      BY <1>5 DEF Register, TypeOK, Goto, Threads, PlacesOK, AcquirerPlaces,
         PopperPlaces, OtherPlaces, ClosedIsEmpty, Active
    <2>3. CASE closed
      <3>1. Charged' = Charged \ {r} /\ sem' = GivenBack
        BY <1>5, <2>3 DEF Register, Charged, TypeOK
      <3>2. SlotsConserved' /\ sem' \in 0..Workers
        BY <2>1, <3>1, DischargeOne
      <3>3. TypeOK'
        BY <1>5, <2>3, <3>2 DEF Register, TypeOK, Goto, Threads, Label, Active,
           SlotState, PlacesOK, AcquirerPlaces
      <3>4. QED
        BY <3>2, <3>3, <2>2
    <2>4. CASE ~closed
      <3>1. Charged' = Charged
        BY <1>5, <2>4, <2>1 DEF Register, Charged, TypeOK
      <3>2. TypeOK'
        BY <1>5, <2>4 DEF Register, TypeOK, Goto, Threads, Label, Active,
           SlotState
      <3>3. SlotsConserved'
        BY <1>5, <2>4, <3>1 DEF Register, SlotsConserved
      <3>4. QED
        BY <3>2, <3>3, <2>2
    <2>5. QED
      BY <2>3, <2>4
  <1>6. ASSUME NEW r \in Acquirers, LeaseRunsOut(r)
        PROVE  IInv'
    <2>1. TypeOK'
      BY <1>6 DEF LeaseRunsOut, TypeOK, Active
    <2>2. PlacesOK'
      BY <1>6 DEF LeaseRunsOut, PlacesOK, AcquirerPlaces, PopperPlaces,
         OtherPlaces, ClosedIsEmpty, Active
    <2>3. SlotsConserved'
      BY <1>6 DEF LeaseRunsOut, SlotsConserved, Charged
    <2>4. QED
      BY <2>1, <2>2, <2>3
  <1>7. ASSUME NEW t \in Others, NEW p \in Acquirers, CallRelease(t, p)
        PROVE  IInv'
    <2>1. TypeOK'
      BY <1>7 DEF CallRelease, TypeOK, Goto, Threads, Label, Active
    <2>2. PlacesOK'
      BY <1>7 DEF CallRelease, TypeOK, Goto, Threads, PlacesOK, AcquirerPlaces,
         PopperPlaces, OtherPlaces, ClosedIsEmpty, Active
    <2>3. SlotsConserved'
      BY <1>7 DEF CallRelease, SlotsConserved, Charged
    <2>4. QED
      BY <2>1, <2>2, <2>3
  <1>8. ASSUME NEW t \in Others, CallStats(t)
        PROVE  IInv'
    <2>1. TypeOK'
      BY <1>8 DEF CallStats, TypeOK, Goto, Threads, Label, Active
    <2>2. PlacesOK'
      BY <1>8 DEF CallStats, TypeOK, Goto, Threads, PlacesOK, AcquirerPlaces,
         PopperPlaces, OtherPlaces, ClosedIsEmpty, Active
    <2>3. SlotsConserved'
      BY <1>8 DEF CallStats, SlotsConserved, Charged
    <2>4. QED
      BY <2>1, <2>2, <2>3
  <1>9. ASSUME NEW t \in Others, CallClose(t)
        PROVE  IInv'
    <2>1. TypeOK'
      BY <1>9 DEF CallClose, PopAll, TypeOK, Goto, Threads, Label, Active,
         SlotState
    <2>2. PlacesOK'
      BY <1>9 DEF CallClose, PopAll, TypeOK, Goto, Threads, PlacesOK,
         AcquirerPlaces, PopperPlaces, OtherPlaces, ClosedIsEmpty, Active
    <2>3. Charged' = Charged /\ sem' = sem
      BY <1>9 DEF CallClose, PopAll, TypeOK, Charged, Active
    <2>4. QED
      BY <2>1, <2>2, <2>3 DEF SlotsConserved
  <1>10. ASSUME NEW t \in Others, Pop(t)
         PROVE  IInv'
    <2>1. TypeOK'
      BY <1>10 DEF Pop, PopAll, TypeOK, Goto, Threads, Label, Active, SlotState
    <2>2. PlacesOK'
      BY <1>10 DEF Pop, PopAll, TypeOK, Goto, Threads, PlacesOK,
         AcquirerPlaces, PopperPlaces, OtherPlaces, ClosedIsEmpty, Active
    <2>3. Charged' = Charged /\ sem' = sem
      BY <1>10 DEF Pop, PopAll, TypeOK, Charged, Active
    <2>4. QED
      BY <2>1, <2>2, <2>3 DEF SlotsConserved
  <1>11. ASSUME NEW t \in Others, HandBack(t)
         PROVE  IInv'
    <2>1. target[t] \in Charged
      BY <1>11 DEF HandBack, Charged, PlacesOK, OtherPlaces
    <2>2. Charged' = Charged \ {target[t]} /\ sem' = GivenBack
      BY <1>11, <2>1 DEF HandBack, Charged, TypeOK
    <2>3. SlotsConserved' /\ sem' \in 0..Workers
      BY <2>1, <2>2, DischargeOne
    <2>4. TypeOK'
      BY <1>11, <2>3, <2>1 DEF HandBack, TypeOK, Goto, Threads, Label, Active,
         SlotState, PlacesOK, OtherPlaces
    <2>5. PlacesOK'
      BY <1>11 DEF HandBack, TypeOK, Goto, Threads, PlacesOK, AcquirerPlaces,
         PopperPlaces, OtherPlaces, ClosedIsEmpty, Active
    <2>6. QED
      BY <2>3, <2>4, <2>5
  <1>12. ASSUME NEW t \in Threads, ReapExpired(t)
         PROVE  IInv'
    <2>1. TypeOK'
      BY <1>12 DEF ReapExpired, PopAll, TypeOK, Goto, Threads, Label, Active,
         SlotState
    <2>2. PlacesOK'
      BY <1>12 DEF ReapExpired, PopAll, TypeOK, Goto, Threads, PlacesOK,
         AcquirerPlaces, PopperPlaces, OtherPlaces, ClosedIsEmpty, Active
    <2>3. Charged' = Charged /\ sem' = sem
      BY <1>12 DEF ReapExpired, PopAll, TypeOK, Charged, Active
    <2>4. QED
      BY <2>1, <2>2, <2>3 DEF SlotsConserved
  <1>13. ASSUME NEW t \in Threads, GiveBack(t)
         PROVE  IInv'
    <2>1. PICK p \in Owed(t) : slot' = [slot EXCEPT ![p] = "returned"]
      BY <1>13 DEF GiveBack
    <2>2. p \in Acquirers /\ p \in Charged /\ slot[p] = "popped"
      BY <2>1 DEF Owed, Charged
    <2>3. Charged' = Charged \ {p} /\ sem' = GivenBack
      BY <1>13, <2>1, <2>2 DEF GiveBack, Charged, TypeOK
    <2>4. SlotsConserved' /\ sem' \in 0..Workers
      BY <2>2, <2>3, DischargeOne
    <2>5. TypeOK'
      BY <1>13, <2>1, <2>2, <2>4 DEF GiveBack, TypeOK, Active, SlotState
    <2>6. PlacesOK'
      BY <1>13, <2>1, <2>2 DEF GiveBack, Owed, TypeOK, Threads, PlacesOK,
         AcquirerPlaces, PopperPlaces, OtherPlaces, ClosedIsEmpty, Active
    <2>7. QED
      BY <2>4, <2>5, <2>6
  <1>14. ASSUME NEW t \in Threads, Reaped(t)
         PROVE  IInv'
    <2>1. TypeOK'
      BY <1>14 DEF Reaped, TypeOK, Goto, Threads, Label, Active
    <2>2. PlacesOK'
      BY <1>14 DEF Reaped, Owed, TypeOK, Goto, Threads, PlacesOK,
         AcquirerPlaces, PopperPlaces, OtherPlaces, ClosedIsEmpty, Active
    <2>3. SlotsConserved'
      BY <1>14 DEF Reaped, SlotsConserved, Charged
    <2>4. QED
      BY <2>1, <2>2, <2>3
  <1>15. CASE UNCHANGED vars
    BY <1>15 DEF vars, TypeOK, PlacesOK, SlotsConserved, Charged, Active,
       AcquirerPlaces, PopperPlaces, OtherPlaces, ClosedIsEmpty
  <1>16. QED
    BY <1>1, <1>2, <1>3, <1>4, <1>5, <1>6, <1>7, <1>8, <1>9, <1>10, <1>11,
       <1>12, <1>13, <1>14, <1>15
       DEF Next, AcquireStep, ReleaseStep, Reap

\* Every reachable state of the registry satisfies the inductive invariant.
LEMMA Inductive == Spec => []IInv
  BY InitIInv, NextIInv, PTL DEF Spec

\* Type correctness of the registry, for every number of threads and slots.
THEOREM TypeCorrect == Spec => []TypeOK
  BY Inductive, PTL DEF IInv

\* The unlocked gaps of acquire, release, reap_expired and close never lose
\* or invent a slot: BoundedSemaphore.release cannot raise.
THEOREM SlotsAreConserved == Spec => []SlotsConserved
  BY Inductive, PTL DEF IInv

\* Every slot that is neither free nor leased has a thread that will settle it.
THEOREM NoSlotIsAdrift == Spec => []NoSlotAdrift
  <1>1. IInv => NoSlotAdrift
    BY DEF IInv, PlacesOK, AcquirerPlaces, PopperPlaces, NoSlotAdrift
  <1>2. QED
    BY <1>1, Inductive, PTL

\* Together: no unlocked gap of any number of callers loses a slot, doubles it
\* or leaves it to nobody.
THEOREM SlotsAreSafe == Spec => []SlotsSafe
  <1>1. TypeOK /\ SlotsConserved /\ NoSlotAdrift => SlotsSafe
    BY DEF SlotsSafe
  <1>2. QED
    BY <1>1, TypeCorrect, SlotsAreConserved, NoSlotIsAdrift, PTL

-----------------------------------------------------------------------------
\* While permit r's slot is taken but not registered there is room for it.
LEMMA RoomForGrant ==
  ASSUME IInv, NEW r \in Acquirers, slot[r] = "got"
  PROVE  Cardinality(Active) < Workers
  <1> USE DEF IInv
  <1>1. r \in Charged /\ Active \subseteq Charged \ {r}
    BY DEF Charged, Active
  <1>2. /\ IsFiniteSet(Charged \ {r})
        /\ Cardinality(Charged \ {r}) = Cardinality(Charged) - 1
    BY <1>1, ChargedFinite, FS_RemoveElement
  <1>3. /\ IsFiniteSet(Active)
        /\ Cardinality(Active) <= Cardinality(Charged \ {r})
    BY <1>1, <1>2, FS_Subset
  <1>4. Cardinality(Active) \in Nat
    BY <1>3, FS_CardinalityType
  <1>5. Cardinality(Charged) <= Workers
    BY ChargedFinite DEF SlotsConserved, TypeOK
  <1>6. QED
    BY <1>2, <1>3, <1>4, <1>5, ChargedFinite

Spent == {p \in Acquirers : pc[p] = "granted" /\ slot[p] # "active"}

\* A sweep or a release of leases S is the gate's Revoke(S), or nothing.
LEMMA PopRevokes ==
  ASSUME IInv, NEW t \in Threads, NEW S \in SUBSET Active, NEW l,
         PopAll(t, S), Goto(t, l), l # "granted", pc[t] # "granted",
         closed' = closed
  PROVE  [Gate!Next]_(Gate!vars)
  <1> USE DEF IInv
  <1>1. Active' = Active \ S
    BY DEF PopAll, Active, TypeOK
  <1>2. Spent' = Spent \cup S
    <2>1. \A p \in Acquirers : pc'[p] = "granted" <=> pc[p] = "granted"
      BY DEF Goto, TypeOK, Threads
    <2>2. \A p \in Acquirers : slot'[p] # "active" <=> slot[p] # "active" \/ p \in S
      BY DEF PopAll
    <2>3. S \subseteq Acquirers /\ \A p \in S : pc[p] = "granted"
      BY DEF Active, PlacesOK, AcquirerPlaces
    <2>4. QED
      BY <2>1, <2>2, <2>3 DEF Spent
  <1>3. CASE S = {}
    BY <1>1, <1>2, <1>3 DEF Gate!vars, Spent
  <1>4. CASE S # {}
    BY <1>1, <1>2, <1>4 DEF Gate!Next, Gate!Revoke, Spent
  <1>5. QED
    BY <1>3, <1>4

\* A step that keeps the leases, the flag and who was granted is a stutter.
LEMMA SameGate ==
  ASSUME Active' = Active, Spent' = Spent, closed' = closed
  PROVE  [Gate!Next]_(Gate!vars)
  BY DEF Gate!vars, Spent

LEMMA StepRefines == IInv /\ [Next]_vars => [Gate!Next]_(Gate!vars)
  <1> SUFFICES ASSUME IInv, [Next]_vars
               PROVE  [Gate!Next]_(Gate!vars)
    OBVIOUS
  <1> USE DEF IInv
  <1>1. ASSUME NEW r \in Acquirers,
               \/ CallAcquire(r) \/ CheckClosed(r) \/ TakeSlot(r)
               \/ Retry(r) \/ GiveUp(r) \/ LeaseRunsOut(r)
        PROVE  Active' = Active /\ Spent' = Spent /\ closed' = closed
    BY <1>1 DEF CallAcquire, CheckClosed, TakeSlot, Retry, GiveUp,
       LeaseRunsOut, Goto, Active, Spent, TypeOK, Threads, PlacesOK,
       AcquirerPlaces
  <1>2. ASSUME NEW r \in Acquirers, Register(r)
        PROVE  [Gate!Next]_(Gate!vars)
    <2>1. CASE closed
      <3>1. Active' = Active /\ Spent' = Spent /\ closed' = closed
        BY <1>2, <2>1 DEF Register, Goto, Active, Spent, TypeOK, Threads,
           PlacesOK, AcquirerPlaces
      <3>2. QED
        BY <3>1, SameGate
    <2>2. CASE ~closed
      <3>1. Cardinality(Active) < Workers
        BY <1>2, RoomForGrant DEF Register, PlacesOK, AcquirerPlaces
      <3>2. Active' = Active \cup {r} /\ Spent' = Spent /\ closed' = closed
        BY <1>2, <2>2 DEF Register, Goto, Active, Spent, TypeOK, Threads,
           PlacesOK, AcquirerPlaces
      <3>3. r \notin Active \cup Spent
        BY <1>2 DEF Register, Active, Spent, PlacesOK, AcquirerPlaces
      <3>4. Gate!Grant(r)
        <4>1. ~closed /\ UNCHANGED closed
          BY <2>2, <3>2
        <4>2. UNCHANGED Spent
          BY <3>2
        <4>3. Active' = Active \cup {r}
          BY <3>2
        <4>4. Gate!Cardinality(Active) = Cardinality(Active)
          BY Zenon DEF Gate!Cardinality, Cardinality
        <4>5. QED
          BY <4>1, <4>2, <4>3, <4>4, <3>1, <3>3 DEF Gate!Grant, Spent
      <3>5. QED
        BY <3>4 DEF Gate!Next
    <2>3. QED
      BY <2>1, <2>2
  <1>3. ASSUME NEW t \in Others, NEW p \in Acquirers,
               CallRelease(t, p) \/ CallStats(t) \/ HandBack(t)
        PROVE  Active' = Active /\ Spent' = Spent /\ closed' = closed
    BY <1>3 DEF CallRelease, CallStats, HandBack, Goto, Active, Spent,
       TypeOK, Threads, PlacesOK, OtherPlaces
  <1>4. ASSUME NEW t \in Others, CallStats(t) \/ HandBack(t)
        PROVE  Active' = Active /\ Spent' = Spent /\ closed' = closed
    BY <1>4 DEF CallStats, HandBack, Goto, Active, Spent,
       TypeOK, Threads, PlacesOK, OtherPlaces
  <1>5. ASSUME NEW t \in Others, CallClose(t)
        PROVE  [Gate!Next]_(Gate!vars)
    <2>1. CASE closed
      <3>1. Active' = Active /\ Spent' = Spent /\ closed' = closed
        BY <1>5, <2>1 DEF CallClose, Goto, Active, Spent, TypeOK, Threads
      <3>2. QED
        BY <3>1, SameGate
    <2>2. CASE ~closed
      <3>1. Active' = {} /\ closed' = TRUE
        BY <1>5, <2>2 DEF CallClose, PopAll, Active, TypeOK
      <3>2. Spent' = Spent \cup Active
        <4>1. \A p \in Acquirers : pc'[p] = "granted" <=> pc[p] = "granted"
          BY <1>5, <2>2 DEF CallClose, Goto, TypeOK, Threads
        <4>2. \A p \in Acquirers : slot'[p] # "active"
          BY <1>5, <2>2 DEF CallClose, PopAll, Active
        <4>3. \A p \in Active : p \in Acquirers /\ pc[p] = "granted"
          BY DEF Active, PlacesOK, AcquirerPlaces
        <4>4. \A p \in Acquirers : p \in Active <=> slot[p] = "active"
          BY DEF Active
        <4>5. QED
          BY <4>1, <4>2, <4>3, <4>4 DEF Spent
      <3>3. QED
        BY <3>1, <3>2 DEF Gate!Next, Gate!Close, Spent
    <2>3. QED
      BY <2>1, <2>2
  <1>6. ASSUME NEW t \in Others, Pop(t)
        PROVE  [Gate!Next]_(Gate!vars)
    <2>1. CASE target[t] \in Active
      <3>1. PopAll(t, {target[t]}) /\ Goto(t, "hand") /\ closed' = closed
            /\ pc[t] # "granted" /\ t \in Threads
        BY <1>6, <2>1 DEF Pop, Threads
      <3>2. {target[t]} \in SUBSET Active
        BY <2>1
      <3>3. QED
        BY <3>1, <3>2, PopRevokes
    <2>2. CASE target[t] \notin Active
      <3>1. Active' = Active /\ Spent' = Spent /\ closed' = closed
        BY <1>6, <2>2 DEF Pop, Goto, Active, Spent, TypeOK, Threads
      <3>2. QED
        BY <3>1, SameGate
    <2>3. QED
      BY <2>1, <2>2
  <1>7. ASSUME NEW t \in Threads, ReapExpired(t)
        PROVE  [Gate!Next]_(Gate!vars)
    <2>1. PopAll(t, due \cap Active) /\ Goto(t, "giveback")
          /\ closed' = closed /\ pc[t] # "granted"
      BY <1>7 DEF ReapExpired
    <2>2. due \cap Active \in SUBSET Active
      OBVIOUS
    <2>3. QED
      BY <2>1, <2>2, PopRevokes
  <1>8. ASSUME NEW t \in Threads, GiveBack(t) \/ Reaped(t)
        PROVE  Active' = Active /\ Spent' = Spent /\ closed' = closed
    BY <1>8 DEF GiveBack, Reaped, Owed, Goto, Active, Spent, TypeOK, Threads,
       PlacesOK, AcquirerPlaces
  <1>9. CASE UNCHANGED vars
    BY <1>9 DEF vars, Gate!vars, Active
  <1>10. QED
    BY <1>1, <1>2, <1>3, <1>4, <1>5, <1>6, <1>7, <1>8, <1>9, SameGate
       DEF Next, AcquireStep, ReleaseStep, Reap

\* The registry implements the abstract gate: at most Workers unexpired
\* permits, every id granted once, none after close.
THEOREM RegistryImplementsGate == Spec => GateImplemented
  <1>1. Init => Gate!Init
    BY DEF Init, Gate!Init, Active, Threads
  <1>2. QED
    BY <1>1, StepRefines, Inductive, PTL DEF Spec, GateImplemented, Gate!Spec
=============================================================================
