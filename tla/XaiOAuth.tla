------------------------------ MODULE XaiOAuth ------------------------------
(***************************************************************************)
(* The browser sign-in of xai_oauth.py: run_xai_oauth_after_sso drives a   *)
(* page of the service through Cloudflare, the sign-in forms and the       *)
(* consent to an authorization code, from the local callback server, from  *)
(* the page or from its address, and exchanges it for a credential.        *)
(*                                                                         *)
(* The page moves by itself between the steps of the driver.  The only     *)
(* step that is split is the one that clicks the login button: it looks    *)
(* at the page twice.  Times are kept as far as the code compares them;    *)
(* what the scripts run in the page may answer is one set for each script. *)
(***************************************************************************)
EXTENDS Naturals, FiniteSets

CONSTANTS
  MaxClicks,      \* login clicks of one attempt: 3
  MaxSolves,      \* XAI_OAUTH_EXTERNAL_TS_MAX: 2
  MaxResets,      \* XAI_OAUTH_MAX_SOFT_RESETS: 2
  MaxFails,       \* failed verifications before a soft reset: 3
  MaxTries,       \* tries of each other form: 8, 20, 12, 6 and 8
  MaxTurns,       \* bound: moves of the page that are not the driver's
  Nothing

\* Fingerprints of Turnstile tokens: none is issued twice.
Tokens == 1 .. MaxTurns
Forms == {"entry", "email", "signin", "otp", "consent"}

\* _detect_oauth_phase with _phase_from_url.
Phase == Forms \cup {"cf", "callback", "display", "password", "unknown"}

\* A request to the callback server, the page it displays, or its address.
Codes == {"own", "foreign", "junk"}
Results == {"own", "foreign", "error"}

ASSUME OAuthAssumption ==
  /\ {MaxClicks, MaxSolves, MaxFails, MaxTries} \subseteq Nat \ {0}
  /\ {MaxResets, MaxTurns} \subseteq Nat
  /\ Nothing \notin Nat \cup Phase \cup Codes \cup Results

VARIABLES
  page,    \* what the browser shows
  st,      \* oauth_state, cleared by a soft reset
  resets,  \* soft_reset_count
  idle,    \* last_progress_at is 50 s old
  drive,   \* where run_xai_oauth_after_sso is
  result,  \* _CallbackHandler.result
  code,    \* the code to exchange
  late,    \* the deadline of 300 s has passed
  clicks, solves, turns   \* counted over the whole flow

counts == <<clicks, solves, turns>>
oauthVars == <<page, st, resets, idle, drive, result, code, late, counts>>

\* What a probe of the Turnstile widget finds: nothing, one without the
\* success text, or one with it; failed: "Failed to verify" is on the page.
\* aged: the success has been shown for 1.8 s.  form: the password field has
\* what was typed, is "blank" since a soft reset, or was "lost" as the site
\* loaded the page again.
Page == [phase : Phase, widget : {"absent", "waiting", "success"},
         failed : BOOLEAN, token : Tokens \cup {Nothing}, aged : BOOLEAN,
         form : {"typed", "blank", "lost"}]

Blank == [phase |-> "unknown", widget |-> "absent", failed |-> FALSE,
          token |-> Nothing, aged |-> FALSE, form |-> "blank"]

State == [phase : Phase \cup {Nothing},
          age : 0 .. 2,                      \* of the phase: 35 s, 50 s
          tries : [Forms -> 0 .. MaxTries],
          filled : BOOLEAN,                  \* password_filled_once
          good : {"no", "fresh", "stable"},  \* token_good_since
          fp : Tokens \cup {Nothing},        \* success_token_fp
          cooling : BOOLEAN,                 \* post_verify_fail_at, 6 s
          latched : BOOLEAN,                 \* cf_ready_latched
          clicks : 0 .. MaxClicks,
          done : BOOLEAN,                    \* login_submit_done
          clicked : {"never", "recent", "old"},  \* login_submit_at, 12 s
          solves : 0 .. MaxSolves,
          patient : BOOLEAN,                 \* long enough for the solver
          fails : 0 .. MaxFails,
          need : BOOLEAN]                    \* need_soft_reset

\* _reset_oauth_flow_state: everything but the counter of resets.
Cleared ==
  [phase |-> Nothing, age |-> 0, tries |-> [f \in Forms |-> 0],
   filled |-> FALSE, good |-> "no", fp |-> Nothing, cooling |-> FALSE,
   latched |-> FALSE, clicks |-> 0, done |-> FALSE, clicked |-> "never",
   solves |-> 0, patient |-> FALSE, fails |-> 0, need |-> FALSE]

OAuthTypeOK ==
  /\ page \in Page /\ st \in State
  /\ resets \in 0 .. MaxResets /\ idle \in BOOLEAN /\ late \in BOOLEAN
  /\ drive \in {"loop", "click", "poll", "wait", "exchange", "saved", "failed"}
  /\ result \in Results \cup {Nothing} /\ code \in Codes \cup {Nothing}
  /\ clicks \in Nat /\ solves \in Nat /\ turns \in 0 .. MaxTurns

OAuthInit ==
  /\ page = Blank
  /\ st = Cleared /\ resets = 0 /\ idle = FALSE
  /\ drive = "loop" /\ result = Nothing /\ code = Nothing /\ late = FALSE
  /\ clicks = 0 /\ solves = 0 /\ turns = 0

-----------------------------------------------------------------------------
(* What the scripts in the page may answer *)

Filled(phase) == {TRUE, page.phase # phase}        \* a form was there to fill
LoginButton == {"clicked", "menu", "missed"}
ConsentButton == {"clicked", "signout", "missed"}
\* Any 40 characters in a row on any page are taken for a code.
Displayed == (IF page.phase \in {"display", "consent"} THEN {"own"} ELSE {})
             \cup {"junk", Nothing}
Loaded == {"reload", "refresh", "back", "failed"}

(* The page by itself *)

Turn == turns < MaxTurns /\ turns' = turns + 1

\* Its next phase; a sign-in page that comes back is a new one.
PageMoves ==
  /\ drive \in {"loop", "click", "poll"}
  /\ Turn
  /\ \E p \in Phase \ {page.phase}, w \in {"absent", "waiting"} :
       page' = [Blank EXCEPT !.phase = p, !.widget = w,
                  !.form = IF page.form = "typed" THEN "lost" ELSE page.form]
  /\ UNCHANGED <<st, resets, idle, drive, result, code, late, clicks, solves>>

Succeeds(p) == [p EXCEPT !.widget = "success", !.token = turns + 1,
                         !.aged = FALSE, !.failed = FALSE]

WidgetChanges ==
  /\ drive \in {"loop", "click", "poll"}
  /\ Turn
  /\ page.phase = "password"
  /\ \/ /\ page.widget # "absent"
        /\ page' = Succeeds(page)
     \/ page.widget = "success" /\ page' = [page EXCEPT !.widget = "waiting",
                                                        !.aged = FALSE]
     \/ page' = [page EXCEPT !.failed = TRUE]
  /\ UNCHANGED <<st, resets, idle, drive, result, code, late, clicks, solves>>

\* do_GET: the latest request replaces the one before.
Redirected ==
  /\ drive \in {"loop", "poll", "wait"}
  /\ Turn
  /\ result' \in Results
  /\ UNCHANGED <<page, st, resets, idle, drive, code, late, clicks, solves>>

\* Time passes between two steps: 1.8 s, 6 s, 14 s, 35 s, 50 s.
Elapse ==
  /\ drive = "loop"
  /\ \E n \in 1 .. 5 :
       /\ page' = [page EXCEPT !.aged = (page.widget = "success")]
       /\ st' = [st EXCEPT
                   !.good = IF @ = "fresh" THEN "stable" ELSE @,
                   !.cooling = @ /\ n < 2,
                   !.patient = @ \/ n >= 3,
                   !.clicked = IF @ = "recent" /\ n >= 3 THEN "old" ELSE @,
                   !.age = IF n < 4 THEN @ ELSE IF n = 4 /\ @ = 0 THEN 1 ELSE 2]
       /\ idle' = (idle \/ n = 5)
  /\ UNCHANGED <<resets, drive, result, code, late, counts>>

Deadline ==
  /\ drive \notin {"saved", "failed"} /\ ~late
  /\ late' = TRUE
  /\ UNCHANGED <<page, st, resets, idle, drive, result, code, counts>>

-----------------------------------------------------------------------------
(* _oauth_browser_step *)

Entered(p) == IF st.phase = p THEN st
              ELSE [st EXCEPT !.phase = p, !.age = 0]
Idle(p) == idle /\ st.phase = p

\* _maybe_oauth_timeout_reset's reasons.
Overdue(p) ==
  LET s == Entered(p) IN
  /\ p \notin {"callback", "display"}
  /\ \/ s.need
     \/ p \in {"password", "cf", "signin", "unknown"} /\ s.age = 2
     \/ Idle(p)
     \/ p = "password" /\ s.solves >= MaxSolves /\ s.age >= 1

\* Mutant of SoftReset: the counter is cleared with the rest.
SoftResetForgets ==
  /\ resets < MaxResets /\ resets' = 0
  /\ \E how \in Loaded :
       /\ st' = Cleared /\ idle' = FALSE
       /\ page' = IF how = "failed" THEN page ELSE Blank

\* _oauth_soft_reset: reload, else refresh, else back, else nothing.
SoftReset ==
  /\ resets < MaxResets /\ resets' = resets + 1
  /\ \E how \in Loaded :
       /\ st' = Cleared /\ idle' = FALSE
       /\ page' = IF how = "failed" THEN page ELSE Blank

\* A step that finds the page in phase p and no time-out to act on.
InPhase(p) ==
  /\ drive = "loop" /\ ~late
  /\ page.phase = p
  /\ ~(Overdue(p) /\ resets < MaxResets)

Resets ==
  /\ drive = "loop" /\ ~late
  /\ Overdue(page.phase)
  /\ SoftReset
  /\ drive' = "poll"
  /\ UNCHANGED <<result, code, late, counts>>

\* After the step: no progress for 50 s, in a phase that can stall, and no
\* reset left.
Goes(p) ==
  drive' = IF resets >= MaxResets /\ idle' /\ p \in {"password", "cf", "unknown", "signin"}
           THEN "failed" ELSE "poll"

\* The interstitial: clicked, and after a while left by back or refresh.
Cloudflare ==
  /\ InPhase("cf")
  /\ st' = Entered("cf")
  /\ idle' = Idle("cf")
  /\ \/ UNCHANGED page
     \/ \E p \in {"cf", "unknown"} : page' = [Blank EXCEPT !.phase = p, !.form = page.form]
  /\ Goes("cf")
  /\ UNCHANGED <<resets, result, code, late, counts>>

\* The callback page, and phases the step has nothing to do in.
Passes ==
  /\ \E p \in {"callback", "unknown"} :
       /\ InPhase(p)
       /\ st' = Entered(p) /\ idle' = Idle(p) /\ Goes(p)
  /\ UNCHANGED <<page, resets, result, code, late, counts>>

\* The page that displays the code, or a consent page that does.
Displays ==
  /\ \E p \in {"display", "consent"} :
       /\ InPhase(p)
       /\ code' \in Displayed \ (IF p = "consent" THEN {Nothing} ELSE {})
       /\ st' = Entered(p)
       /\ idle' = (Idle(p) /\ ~(p = "display" /\ code' # Nothing))
  /\ drive' = "poll"
  /\ UNCHANGED <<page, resets, result, late, counts>>

\* The sign-in entry, the e-mail form, the old combined form and the code
\* from the mail: a bounded number of tries; only the entry is progress.
Form(p) ==
  /\ InPhase(p)
  /\ st.tries[p] < MaxTries
  /\ \E ok \in Filled(p) :
       /\ st' = [Entered(p) EXCEPT !.tries[p] = IF ok THEN @ + 1 ELSE @]
       /\ idle' = (Idle(p) /\ ~(ok /\ p = "entry"))
  /\ Goes(p)
  /\ UNCHANGED <<page, resets, result, code, late, counts>>

\* Consent: "allow" may be clicked any number of times; a page that only
\* offers to sign out uses up the tries.
Consent ==
  /\ InPhase("consent")
  /\ st.tries["consent"] < MaxTries
  /\ \E button \in ConsentButton :
       st' = [Entered("consent") EXCEPT !.tries["consent"] =
                CASE button = "clicked" -> @
                  [] button = "signout" -> MaxTries
                  [] button = "missed" -> @ + 1]
  /\ idle' = Idle("consent")
  /\ drive' = "poll"
  /\ UNCHANGED <<page, resets, result, code, late, counts>>

\* The tries of a form are used up: nothing happens on it any more.
FormSpent ==
  /\ \E p \in Forms :
       /\ InPhase(p) /\ st.tries[p] = MaxTries
       /\ st' = Entered(p) /\ idle' = Idle(p) /\ Goes(p)
  /\ UNCHANGED <<page, resets, result, code, late, counts>>

-----------------------------------------------------------------------------
(* The password form *)

Success == page.widget = "success" /\ ~page.failed

\* Mutant of Watched: another token does not start the time again.
WatchedLoosely(s) ==
  IF Success
  THEN [s EXCEPT !.good = IF @ = "no" THEN "fresh" ELSE @, !.fp = page.token]
  ELSE [s EXCEPT !.good = "no", !.fp = IF page.widget = "success" THEN @ ELSE Nothing]

\* The success is timed from when it was first seen with its token.
Watched(s) ==
  IF Success
  THEN [s EXCEPT !.good = IF @ = "no" \/ s.fp \notin {Nothing, page.token}
                          THEN "fresh" ELSE @,
                 !.fp = page.token]
  ELSE [s EXCEPT !.good = "no", !.fp = IF page.widget = "success" THEN @ ELSE Nothing]

\* "Failed to verify": the login is undone, the widget reset at most every
\* 3 s, and after MaxFails of those a soft reset is asked for.
Refused(s, again) ==
  LET fails == IF again THEN s.fails + 1 ELSE s.fails
  IN  [s EXCEPT !.done = FALSE, !.latched = FALSE, !.good = "no", !.fp = Nothing,
                !.cooling = TRUE, !.fails = fails, !.need = @ \/ fails >= MaxFails]

\* A success that has been stable; or no widget at all.  (A probe that raises is
\* read as no widget too; such a look is left out, the click looks again.)
Ready(s) == /\ ~s.cooling
            /\ \/ Success /\ s.good = "stable"
               \/ page.widget = "absent"

\* Clicked 12 s ago, still here, and still successful.
Again(s) == /\ s.clicks \in 1 .. MaxClicks - 1 /\ s.clicked = "old"
            /\ Success /\ s.good = "stable" /\ ~s.cooling

WidgetReset == [page EXCEPT !.widget = IF @ = "absent" THEN @ ELSE "waiting",
                            !.failed = FALSE, !.aged = FALSE]

\* The form is filled once between two soft resets.
Typed(ok) == [Entered("password") EXCEPT !.filled = @ \/ ok]
TypedPage(p, s) == [p EXCEPT !.form = IF s.filled /\ ~st.filled THEN "typed" ELSE @]

\* Mutant of SolverDue: nobody counts the solver's runs.
SolverDueAlways == /\ page.widget # "absent" /\ (page.widget = "waiting" \/ page.failed)
                   /\ st.patient /\ ~st.cooling

\* Waited long enough for the widget, and for the solver since it last ran;
\* not in the cooldown of an earlier failure.
SolverDue == /\ page.widget # "absent" /\ (page.widget = "waiting" \/ page.failed)
             /\ st.patient /\ ~st.cooling /\ st.solves < MaxSolves

\* The external solver.  What it answers is written into the page's input;
\* only a success that the page shows afterwards counts, and not in this
\* step.  ensure_cf_token catches what the solver raises, its time-out too.
Solve(s, p) ==
  /\ solves' = solves + 1
  /\ \E shown \in BOOLEAN :
       /\ IF shown THEN Turn ELSE UNCHANGED turns
       /\ page' = IF shown THEN Succeeds(p) ELSE p
       /\ st' = [s EXCEPT !.solves = @ + 1, !.patient = FALSE, !.latched = FALSE,
                          !.good = IF shown THEN "fresh" ELSE "no",
                          !.fp = IF shown THEN turns + 1 ELSE Nothing]

PasswordFails ==
  /\ InPhase("password") /\ page.failed
  /\ \E ok, again \in BOOLEAN :
       LET s == Refused(Watched(Typed(ok)), again)
           p == TypedPage(IF again THEN WidgetReset ELSE page, s)
       IN /\ again => st.fails < MaxFails
          /\ IF SolverDue THEN Solve(s, p)
             ELSE st' = s /\ page' = p /\ UNCHANGED <<solves, turns>>
          /\ idle' = (Idle("password") /\ s.filled = st.filled)
  /\ Goes("password")
  /\ UNCHANGED <<resets, result, code, late, clicks>>

SolveExternally ==
  /\ InPhase("password") /\ ~page.failed /\ SolverDue
  /\ \E ok \in BOOLEAN :
       LET s == Watched(Typed(ok)) IN
       /\ Solve(s, TypedPage(page, s))
       /\ idle' = (Idle("password") /\ s.filled = st.filled)
  /\ Goes("password")
  /\ UNCHANGED <<resets, result, code, late, clicks>>

\* A widget that is ready is latched, and the next step clicks.
Password ==
  /\ InPhase("password") /\ ~page.failed /\ ~SolverDue
  /\ \E ok \in BOOLEAN :
       LET s == Watched(Typed(ok))
           latch == Ready(s) /\ ~s.latched
           again == Again(s)
       IN /\ st' = [s EXCEPT !.latched = @ \/ latch \/ again, !.done = @ /\ ~again]
          /\ page' = TypedPage(page, s)
          /\ idle' = (Idle("password") /\ ~latch /\ s.filled = st.filled)
          /\ IF /\ s.filled /\ s.clicks < MaxClicks
                /\ again \/ (Ready(s) /\ s.latched /\ ~s.done)
             THEN drive' = "click"
             ELSE Goes("password")
  /\ UNCHANGED <<resets, result, code, late, counts>>

Live == page.widget = "success"

\* Mutant of Click: it trusts the probe of before.
ClickUnchecked ==
  /\ drive = "click"
  /\ clicks' = clicks + 1
  /\ \E button \in LoginButton :
       /\ st' = [st EXCEPT !.clicks = @ + 1, !.clicked = "recent",
                           !.done = (button = "clicked")]
       /\ idle' = (idle /\ button # "clicked")
  /\ drive' = "poll"
  /\ UNCHANGED <<page, resets, result, code, late, solves, turns>>

\* The second look still finds the success; the press that follows at once is
\* part of the step.  A click on the account menu, or on nothing, counts as well.
Click ==
  /\ drive = "click" /\ Live
  /\ clicks' = clicks + 1
  /\ \E button \in LoginButton :
       /\ st' = [st EXCEPT !.clicks = @ + 1, !.clicked = "recent",
                           !.done = IF button = "missed" THEN @
                                    ELSE button = "clicked"]
       /\ idle' = (idle /\ button # "clicked")
  /\ drive' = "poll"
  /\ UNCHANGED <<page, resets, result, code, late, solves, turns>>

ClickAborted ==
  /\ drive = "click" /\ ~Live
  /\ st' = [st EXCEPT !.latched = FALSE, !.good = "no", !.cooling = @ \/ page.failed]
  /\ page' = IF page.failed THEN WidgetReset ELSE page
  /\ drive' = "poll"
  /\ UNCHANGED <<resets, idle, result, code, late, counts>>

-----------------------------------------------------------------------------
(* The loop of run_xai_oauth_after_sso *)

\* Mutant of Received: the state of the request is not compared.
ReceivedAny == result \in {"own", "foreign"}

\* A code with the state of this flow.
Received == result = "own"

\* The callback's code, the page's address, the text of the page, in turn.
Poll ==
  /\ drive = "poll"
  /\ UNCHANGED <<page, st, resets, idle, result, late, counts>>
  /\ \/ /\ Received /\ code' = result /\ drive' = "exchange"
     \/ /\ ~Received /\ result = "foreign" /\ drive' = "failed" /\ UNCHANGED code
     \/ /\ ~Received /\ result # "foreign"
        /\ code' \in IF code # Nothing THEN {code}
                    ELSE IF page.phase = "callback" THEN {"own", Nothing} ELSE Displayed
        /\ drive' = IF code' # Nothing THEN "exchange" ELSE "loop"

\* Mutant of WaitCallback: a callback that has not come is waited for.
WaitOn ==
  /\ drive = "wait"
  /\ IF Received THEN code' = result /\ drive' = "exchange"
     ELSE UNCHANGED <<code, drive>>
  /\ UNCHANGED <<page, st, resets, idle, result, late, counts>>

\* The deadline ends the loop; one more look, of a second at least.
LoopEnds ==
  /\ drive = "loop" /\ late
  /\ drive' = "wait"
  /\ UNCHANGED <<page, st, resets, idle, result, code, late, counts>>

WaitCallback ==
  /\ drive = "wait"
  /\ IF Received THEN code' = result /\ drive' = "exchange"
     ELSE UNCHANGED code /\ drive' = "failed"
  /\ UNCHANGED <<page, st, resets, idle, result, late, counts>>

\* Cancelled, or a call of the browser raises: its state is gone.
Raises ==
  /\ drive \in {"loop", "wait"}
  /\ drive' = "failed" /\ page' = Blank /\ st' = Cleared /\ idle' = FALSE
  /\ result' = Nothing
  /\ UNCHANGED <<resets, code, late, counts>>

\* The token exchange and the credential file: both may fail.
Exchange ==
  /\ drive = "exchange"
  /\ drive' \in {"saved", "failed"} /\ (code = "junk" => drive' = "failed")
  /\ page' = Blank /\ st' = Cleared /\ idle' = FALSE /\ result' = Nothing
  /\ UNCHANGED <<resets, code, late, counts>>

Step == Resets \/ Cloudflare \/ Passes \/ Displays
        \/ (\E p \in Forms \ {"consent"} : Form(p)) \/ Consent \/ FormSpent
        \/ PasswordFails \/ SolveExternally \/ Password \/ Click \/ ClickAborted
        \/ Poll \/ LoopEnds \/ WaitCallback \/ Exchange

OAuthNext == Step \/ Raises \/ PageMoves \/ WidgetChanges \/ Redirected \/ Elapse \/ Deadline

OAuthSpec == OAuthInit /\ [][OAuthNext]_oauthVars

\* The driver's thread runs and the clock goes on; the page need not move.
FairOAuth == OAuthSpec /\ WF_oauthVars(Step) /\ WF_oauthVars(Deadline)

-----------------------------------------------------------------------------
(* Properties *)

\* The login button is clicked only on a second look at a native success,
\* with the form filled since the last soft reset and no failed verification
\* seen within the cooldown: an injected token alone is never submitted.
ClicksOnSuccess ==
  [][clicks' > clicks =>
       /\ page.phase = "password" /\ page.widget = "success"
       /\ st.filled /\ page.form # "blank" /\ ~st.cooling]_oauthVars

\* A login is prepared only on a token whose success has been shown for the
\* stability time, unless the probe, which answers, finds no widget to wait for.
PreparedWhenStable ==
  [][drive # "click" /\ drive' = "click" => page.aged \/ page.widget = "absent"]_oauthVars

\* The budgets of one attempt multiply by the soft resets and no further:
\* counters that a reset clears do not renew it.
BudgetsHold ==
  /\ clicks <= MaxClicks * (resets + 1)
  /\ solves <= MaxSolves * (resets + 1)

\* A code that came with another flow's state is never exchanged.
ForeignCodeRefused == drive \in {"exchange", "saved"} => code # "foreign"

\* However the page behaves, the flow ends: its callback server is closed in
\* the finally block, and the port is free for the next one.
FlowEnds == <>(drive \in {"saved", "failed"})

\* What one attempt of the sign-in can do is bounded, and the code it exchanges
\* is its own.
AttemptBounded ==
  /\ OAuthTypeOK
  /\ BudgetsHold
  /\ ForeignCodeRefused

\* A login goes from a stable success of the widget to a click on a page that
\* still shows it, with nothing stale on the way.
LoginWhenReady ==
  /\ ClicksOnSuccess
  /\ PreparedWhenStable
=============================================================================
