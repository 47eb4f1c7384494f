--------------------------- MODULE TurnstilePage ---------------------------
(***************************************************************************)
(* The page loop of a local Turnstile capture                              *)
(* (_capture_turnstile_token_impl, xai_http_flow.py): the page is opened,  *)
(* a widget is injected or the e-mail entry is clicked, and then the page  *)
(* is read, nudged, primed and diagnosed in rounds of about a second,      *)
(* each on a clock of its own, until it shows a token, shows that none     *)
(* will come, or the time is up.  The page changes by itself between any   *)
(* two steps.                                                              *)
(***************************************************************************)
EXTENDS Naturals, FiniteSets

CONSTANTS
  Captures,   \* the captures that may ever be made
  Timeout     \* seconds of a page loop; at least 30, as the code makes it

ASSUME PageAssumption == Timeout \in Nat /\ Timeout >= 30

VARIABLES
  page,     \* what the browser of each capture shows
  watch,    \* where the loop of each capture is, and its clocks
  site      \* what the site may show, and how long a round may take

pageVars == <<page, watch, site>>

\* "off": no page, or its browser is dead.  "landing": the choice of a way to
\* sign up; "entry": the e-mail form; "leaving": a click on it is being
\* answered; "otp": the page that wants the code of the e-mail.
Kinds == {"off", "landing", "entry", "leaving", "widget", "otp", "challenge", "blocked"}

\* widget: an input or iframe of Turnstile is there, the site's or the
\* injected one; needsClick: it waits for its box to be ticked.  error: the
\* injected one has told of a failed challenge, with a code of 300 or 600; what
\* the site's own comes to is not seen.  stuck: for how long nothing but giving
\* up has helped.
Page == [kind : Kinds, widget : BOOLEAN, needsClick : BOOLEAN, token : BOOLEAN,
         error : BOOLEAN, stuck : Nat]
Blank == [kind |-> "off", widget |-> FALSE, needsClick |-> FALSE, token |-> FALSE,
          error |-> FALSE, stuck |-> 0]
Showing(kind) == [Blank EXCEPT !.kind = kind, !.widget = (kind = "widget")]

NoTime == Timeout
Watch == [at : {"idle", "open", "enter", "look", "start", "read", "prime", "click", "diag", "miss",
                "validate", "token", "failed"},
          t : Nat, toInject : Nat, toNudge : Nat, toPrime : Nat,
          toDiag : Nat, challenge : 0 .. Timeout, clicks : Nat]
Idle == [at |-> "idle", t |-> 0, toInject |-> 4, toNudge |-> 18, toPrime |-> 8,
         toDiag |-> 5, challenge |-> NoTime, clicks |-> 0]

\* opens: what page.get may find; moves: whether pages change by themselves;
\* rounds: the seconds a round may last; inject: its sitekey is known.
Site == [opens : SUBSET {pg \in Page : pg.stuck = 0}, moves : BOOLEAN, inject : BOOLEAN,
         rounds : {some \in SUBSET (Nat \ {0}) : some # {} /\ IsFiniteSet(some)}]

PageTypeOK ==
  /\ page \in [Captures -> Page]
  /\ watch \in [Captures -> Watch]
  /\ site \in Site

PageInit ==
  /\ page = [c \in Captures |-> Blank]
  /\ watch = [c \in Captures |-> Idle]
  /\ site \in Site

-----------------------------------------------------------------------------
(* What the page shows *)

HasWidget(pg) == pg.widget \/ pg.token

\* Mutant of Classified: a mounted widget is taken for a page that works.
ClassifiedByWidget(pg) ==
  IF HasWidget(pg) THEN "ok"
  ELSE CASE pg.kind = "blocked" -> "hard block"
         [] pg.kind = "otp" -> "dead end"
         [] pg.kind = "challenge" -> "challenge"
         [] OTHER -> "waiting"

\* _classify_turnstile_page_state: only a hard block is seen behind a widget.
Classified(pg) ==
  IF pg.kind = "blocked" THEN "hard block"
  ELSE IF HasWidget(pg) THEN "ok"
  ELSE CASE pg.kind = "otp" -> "dead end"
         [] pg.kind = "challenge" -> "challenge"
         [] OTHER -> "waiting"

\* No token will come of it: give up at once.
Hopeless(pg) == pg.error \/ Classified(pg) \in {"hard block", "dead end"}
Futile(pg) ==
  \/ pg.error \/ pg.kind = "blocked"
  \/ pg.kind \in {"otp", "challenge"} /\ ~HasWidget(pg)
Worn(pg, d) == [pg EXCEPT !.stuck = IF Futile(pg) THEN @ + d ELSE 0]

\* The site: a challenge clears or hardens with a new document, a click is
\* answered, a widget is mounted, solved or refused.
PageMoves(c) ==
  /\ site.moves /\ watch[c].at \notin {"idle", "open", "token", "failed"}
  /\ LET pg == page[c] IN
     \/ /\ pg.kind = "challenge"
        /\ \E kind \in {"landing", "entry", "blocked"} : page' = [page EXCEPT ![c] = Showing(kind)]
     \/ /\ pg.kind = "leaving"
        /\ \E kind \in {"entry", "widget", "otp"} :
             page' = [page EXCEPT ![c] = [pg EXCEPT !.kind = kind, !.stuck = 0,
                                            !.widget = @ \/ kind = "widget"]]
     \/ /\ pg.kind = "entry"
        /\ page' = [page EXCEPT ![c] = [pg EXCEPT !.kind = "widget", !.widget = TRUE]]
     \/ /\ pg.widget /\ ~pg.token /\ ~pg.error
        /\ \/ site.inject /\ page' = [page EXCEPT ![c].error = TRUE, ![c].stuck = 0]
           \/ ~pg.needsClick /\ page' = [page EXCEPT ![c].token = TRUE]
           \/ ~pg.needsClick /\ page' = [page EXCEPT ![c].needsClick = TRUE]
  /\ UNCHANGED <<watch, site>>

-----------------------------------------------------------------------------
(* The capture *)

Watching(c, where) == watch[c].at = where
Step(c, where) == watch' = [watch EXCEPT ![c].at = where]
GiveUpPage(c) == watch' = [watch EXCEPT ![c] = [Idle EXCEPT !.at = "failed"]]

\* page.get; anything on the way to it may raise, and does without a browser.
Open(c, alive) ==
  /\ Watching(c, "open")
  /\ \/ alive /\ Step(c, "enter") /\ \E pg \in site.opens : page' = [page EXCEPT ![c] = pg]
     \/ GiveUpPage(c) /\ UNCHANGED page
  /\ UNCHANGED site

\* What the script of the injection makes of a document: its host and widget
\* are there once, and stay.
Rendered(pg) == [pg EXCEPT !.widget = TRUE]

\* api.js may fail to load within the wait.
Injected(pg) == IF pg.kind = "off" THEN {pg} ELSE {pg, Rendered(pg)}

\* The button may not be there within 12 s.
EntryClicked(pg) == {pg, [pg EXCEPT !.kind = IF @ = "landing" THEN "entry" ELSE @]}

\* Inject the widget of the sitekey, or click through the e-mail entry.
Enter(c) ==
  /\ Watching(c, "enter")
  /\ \E pg \in IF site.inject THEN Injected(page[c]) ELSE EntryClicked(page[c]) :
       page' = [page EXCEPT ![c] = pg]
  /\ Step(c, "look")
  /\ UNCHANGED site

\* The first diagnosis: only a hard block and a dead end end the capture.
FirstLook(c) ==
  /\ Watching(c, "look")
  /\ IF Classified(page[c]) \in {"hard block", "dead end"} THEN GiveUpPage(c)
     ELSE Step(c, IF ~site.inject /\ ~HasWidget(page[c]) THEN "start" ELSE "read")
  /\ UNCHANGED <<page, site>>

\* A click on what continues, never on what confirms an address or signs in
\* with X; on any other page it finds no button or nothing comes of it.
Continued(pg) == [pg EXCEPT !.kind = CASE @ = "entry" -> "leaving" [] @ = "landing" -> "entry" [] OTHER -> @]

\* Fill what is visible, never the address, and continue once.
StartForm(c) ==
  /\ Watching(c, "start")
  /\ page' = [page EXCEPT ![c] = Continued(page[c])]
  /\ Step(c, "read")
  /\ UNCHANGED site

\* _nudge_turnstile_widget ticks the box.
Nudged(pg) == [pg EXCEPT !.needsClick = FALSE]

\* _read_turnstile_token_js: the callback's, the hidden input's or the API's.
Shown(pg) == pg.token

\* The head of a round: the token is read, then a widget injected again and
\* nudged when their times have come.
Read(c) ==
  /\ Watching(c, "read")
  /\ LET w == watch[c]
         again == site.inject /\ w.t >= w.toInject
         nudge == w.t >= w.toNudge
     IN IF w.t >= Timeout THEN Step(c, "miss") /\ UNCHANGED page
        ELSE IF Shown(page[c]) THEN Step(c, "validate") /\ UNCHANGED page
        ELSE /\ \E pg \in IF again THEN Injected(page[c]) ELSE {page[c]} :
                  page' = [page EXCEPT ![c] = IF nudge THEN Nudged(pg) ELSE pg]
             /\ watch' = [watch EXCEPT ![c] = [w EXCEPT
                  !.at = "prime",
                  !.toInject = IF again THEN w.t + 8 ELSE @,
                  !.toNudge = IF nudge THEN w.t + 12 ELSE @]]
  /\ UNCHANGED site

\* Mutant of PrimeAgain: primed on the clock of the injected widget.
PrimeOften == 4

PrimeAgain == 12
ContinueUntil == 12

\* Without a widget the form is primed again, and continued early on only.
Prime(c) ==
  /\ Watching(c, "prime")
  /\ LET w == watch[c]
         due == ~site.inject /\ w.t >= w.toPrime
         bare == ~HasWidget(page[c])
     IN IF due /\ Classified(page[c]) = "dead end" THEN GiveUpPage(c)
        ELSE watch' = [watch EXCEPT ![c] = [w EXCEPT
               !.at = IF due /\ bare /\ w.t <= ContinueUntil THEN "click" ELSE "diag",
               !.toPrime = IF due THEN w.t + PrimeAgain ELSE @]]
  /\ UNCHANGED <<page, site>>

\* The page may have changed since it was looked at.
Click(c) ==
  /\ Watching(c, "click")
  /\ page' = [page EXCEPT ![c] = Continued(page[c])]
  /\ watch' = [watch EXCEPT ![c] = [watch[c] EXCEPT !.at = "diag", !.clicks = @ + 1]]
  /\ UNCHANGED site

ChallengePatience == 25

\* Mutant of EndRound: time only passes on a page that answers.
EndRoundLoaded(c, w) ==
  \E d \in site.rounds :
    /\ watch' = [watch EXCEPT ![c] = [w EXCEPT !.at = "read", !.t = IF page[c].kind = "off" THEN @ ELSE @ + d]]
    /\ page' = [page EXCEPT ![c] = Worn(page[c], d)]

\* The end of a round; the clocks of the diagnosis when it was due.
EndRound(c, w) ==
  \E d \in site.rounds :
    /\ watch' = [watch EXCEPT ![c] = [w EXCEPT !.at = "read", !.t = @ + d]]
    /\ page' = [page EXCEPT ![c] = Worn(page[c], d)]

Diagnose(c) ==
  /\ Watching(c, "diag")
  /\ LET w == watch[c]
         seen == Classified(page[c])
         since == IF w.challenge = NoTime THEN w.t ELSE w.challenge
         tired == seen = "challenge" /\ w.t - since >= ChallengePatience
     IN IF w.t < w.toDiag THEN EndRound(c, w)
        ELSE IF Hopeless(page[c]) \/ tired THEN GiveUpPage(c) /\ UNCHANGED page
        ELSE EndRound(c, [w EXCEPT !.toDiag = w.t + 10,
                            !.challenge = IF seen = "challenge" THEN since ELSE NoTime])
  /\ UNCHANGED site

\* No token in time: the last diagnosis words the error.
Miss(c) ==
  /\ Watching(c, "miss")
  /\ GiveUpPage(c)
  /\ UNCHANGED <<page, site>>

\* The fingerprint that the browser shows must be the one asked for.
Validate(c) ==
  /\ Watching(c, "validate")
  /\ \/ watch' = [watch EXCEPT ![c] = [Idle EXCEPT !.at = "token"]]
     \/ GiveUpPage(c)
  /\ UNCHANGED <<page, site>>

Loop(c, alive) ==
  \/ Open(c, alive) \/ Enter(c) \/ FirstLook(c) \/ StartForm(c)
  \/ Read(c) \/ Prime(c) \/ Click(c) \/ Diagnose(c) \/ Miss(c) \/ Validate(c)

-----------------------------------------------------------------------------
(* Properties *)

LongestRound == CHOOSE d \in site.rounds : \A e \in site.rounds : e <= d

\* A page that can give no token is left at the next diagnosis, whatever
\* widget was put on it, and a challenge that does not clear is not waited
\* for to the end (xai_http_flow.py, 6207-6249).
HopelessPagesLeft ==
  \A c \in Captures :
    LET waits == IF page[c].kind = "challenge" /\ ~page[c].error THEN 4 ELSE 1
    IN page[c].stuck < waits * (10 + LongestRound)

\* "At most one cautious continue": the clocks of the priming leave room for
\* one click within the time in which the loop still clicks (6197-6200).
OneContinue == \A c \in Captures : watch[c].clicks <= 1
=============================================================================
