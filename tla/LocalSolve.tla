----------------------------- MODULE LocalSolve -----------------------------
(***************************************************************************)
(* Local Turnstile solves: the registration processes of a batch capture   *)
(* tokens with a Chrome each, under a limit that all processes share       *)
(* (_local_turnstile_slot, xai_http_flow.py), registered in one file       *)
(* (project_browser_registry.py), behind a local proxy forwarder where the *)
(* proxy wants a password (local_proxy_forwarder.py).  A capture runs in a *)
(* thread that outlives the solve when that times out; a worker is stopped *)
(* with terminate(), which leaves its Chrome behind.  What is left over is *)
(* swept: by a process at its exit, its own only, and by whoever runs      *)
(* batches (http_batch_service.py), everything.                            *)
(***************************************************************************)
EXTENDS TurnstilePage

CONSTANTS
  Owners,     \* the processes that solve
  OwnerOf,    \* of each capture
  Limit,      \* resolve_local_turnstile_max_inflight
  Secret      \* the captures whose proxy wants a password

ASSUME SolveAssumption ==
  /\ OwnerOf \in [Captures -> Owners] /\ Secret \subseteq Captures
  /\ Limit \in Nat \ {0}
  /\ IsFiniteSet(Captures)

VARIABLES
  capture,     \* where the thread of each capture is
  call,        \* what the caller of each capture has of it
  owner,       \* "up" or "down": not started, ended or killed; "all": a batch
               \* or service that sweeps
  holders,     \* the captures that hold a slot lock
  forwarders,  \* the captures whose forwarder runs
  chromes,     \* the captures whose Chrome runs
  profiles,    \* the captures whose profile directory exists
  rows,        \* the captures whose Chrome the registry names
  sweep        \* the cleanup of everything, and that of each owner's exit

solveVars == <<capture, call, owner, holders, forwarders, chromes, profiles, rows, sweep>>
vars == <<pageVars, solveVars>>

All == "all"
Sweepers == Owners \cup {All}

\* "launch" to "connect": Chromium() starts Chrome and connects to it.
Place == {"unused", "slot", "prepare", "launch", "connect", "register", "page",
          "quit", "finish", "over"}

\* orphan: its Chrome was left running when Chromium() raised; lost: its profile
\* was left, by options that raised after they had made it or by a failed rmtree.
Capture == [at : Place, orphan : BOOLEAN, lost : BOOLEAN]
Sweep == [at : {"idle", "scan", "remove", "temp", "delete", "done"},
          rows : SUBSET Captures, profiles : SUBSET Captures]
Resting == [at |-> "idle", rows |-> {}, profiles |-> {}]

TypeOK ==
  /\ PageTypeOK
  /\ capture \in [Captures -> Capture]
  /\ call \in [Captures -> {"none", "waiting", "timeout", "token", "failed"}]
  /\ owner \in [Sweepers -> {"up", "down"}]
  /\ holders \cup forwarders \cup chromes \cup profiles \cup rows \subseteq Captures
  /\ sweep \in [Sweepers -> Sweep]

Init ==
  /\ PageInit
  /\ capture \in [Captures -> [at : {"unused", "over"}, orphan : {FALSE}, lost : {FALSE}]]
                                                              \* "over": never made
  /\ call = [c \in Captures |-> "none"]
  /\ owner \in [Sweepers -> {"up", "down"}]
  /\ holders = {} /\ forwarders = {} /\ chromes = {} /\ profiles = {} /\ rows = {}
  /\ sweep = [s \in Sweepers |-> Resting]

Fresh(where) == [at |-> where, orphan |-> FALSE, lost |-> FALSE]
Of(o) == {c \in Captures : OwnerOf[c] = o}
At(c, where) == owner[OwnerOf[c]] = "up" /\ capture[c].at = where
To(c, where) == capture' = [capture EXCEPT ![c].at = where]
Running(c) == owner[OwnerOf[c]] = "up" /\ capture[c].at \notin {"unused", "over"}

-----------------------------------------------------------------------------
(* The caller *)

\* The next attempt of a process; the thread of an earlier one may go on.
Ask(c) ==
  /\ At(c, "unused") /\ sweep[OwnerOf[c]].at = "idle"
  /\ \A d \in Of(OwnerOf[c]) \ {c} : call[d] \in {"none", "timeout", "failed"}
  /\ call' = [call EXCEPT ![c] = "waiting"]
  /\ To(c, "slot")
  /\ UNCHANGED <<pageVars, owner, holders, forwarders, chromes, profiles, rows, sweep>>

\* Mutant of TimeOut: the slot is given back when the caller stops waiting.
TimeOutReleasing(c) ==
  /\ Running(c) /\ call[c] = "waiting"
  /\ \E d \in Of(OwnerOf[c]) : capture[d].at = "unused"
  /\ call' = [call EXCEPT ![c] = "timeout"]
  /\ holders' = holders \ {c}
  /\ UNCHANGED <<pageVars, capture, owner, forwarders, chromes, profiles, rows, sweep>>

\* solve_sync stops waiting; the thread of asyncio.to_thread cannot be
\* stopped.  (That of a last attempt makes no difference here.)
TimeOut(c) ==
  /\ Running(c) /\ call[c] = "waiting"
  /\ \E d \in Of(OwnerOf[c]) : capture[d].at = "unused"
  /\ call' = [call EXCEPT ![c] = "timeout"]
  /\ UNCHANGED <<pageVars, capture, owner, holders, forwarders, chromes, profiles, rows, sweep>>

\* Mutant of Answered: whatever the page loop came to is handed over.
AnsweredRaw(c) == IF call[c] # "waiting" THEN call[c] ELSE watch[c].at

Answered(c) == IF call[c] # "waiting" THEN call[c]
               ELSE IF watch[c].at = "token" THEN "token" ELSE "failed"

-----------------------------------------------------------------------------
(* The capture *)

\* A scan of the slot files under the gate: a free lock, or another try in
\* 0.35 s.
TakeSlot(c) ==
  /\ At(c, "slot") /\ Cardinality(holders) < Limit
  /\ holders' = holders \cup {c}
  /\ To(c, "prepare")
  /\ UNCHANGED <<pageVars, call, owner, forwarders, chromes, profiles, rows, sweep>>

\* No slot in 120 s: CrossProcessLockTimeout.
NoSlot(c) ==
  /\ At(c, "slot")
  /\ To(c, "over")
  /\ call' = [call EXCEPT ![c] = Answered(c)]
  /\ UNCHANGED <<pageVars, owner, holders, forwarders, chromes, profiles, rows, sweep>>

\* _prepare_browser_proxy: a forwarder under a key of its own, which no
\* other capture can have.
NeedsForwarder(c) == c \in Secret

\* ensure_local_forwarder: bound to a free port; one that does not get ready
\* closes its socket before it raises.
Forwarded(c) == IF NeedsForwarder(c) THEN forwarders \cup {c} ELSE forwarders

\* stop_local_forwarder: out of the table, then shut down.
Stopped(c) == forwarders \ {c}

\* The forwarder and the options with their profile directory (mkdtemp);
\* either may raise.  The options are assigned when they are complete: a profile
\* made before they raise is known to nobody.
Prepare(c) ==
  /\ At(c, "prepare")
  /\ \/ To(c, "quit") /\ UNCHANGED <<forwarders, profiles>>
     \/ /\ forwarders' = Forwarded(c)
        /\ \/ To(c, "quit") /\ UNCHANGED profiles
           \/ /\ profiles' = profiles \cup {c}
              /\ \/ To(c, "launch")
                 \/ capture' = [capture EXCEPT ![c].at = "quit", ![c].lost = TRUE]
  /\ UNCHANGED <<pageVars, call, owner, holders, chromes, rows, sweep>>

Launch(c) ==
  /\ At(c, "launch")
  /\ \/ chromes' = chromes \cup {c} /\ To(c, "connect")
     \/ UNCHANGED chromes /\ To(c, "quit")
  /\ UNCHANGED <<pageVars, call, owner, holders, forwarders, profiles, rows, sweep>>

\* A Chromium() that raises leaves no browser to quit.
Connect(c) ==
  /\ At(c, "connect")
  /\ \/ c \in chromes /\ To(c, "register")
     \/ capture' = [capture EXCEPT ![c].at = "quit", ![c].orphan = c \in chromes]
  /\ UNCHANGED <<pageVars, call, owner, holders, forwarders, chromes, profiles, rows, sweep>>

\* register_project_browser; the lock of the file may time out, which raises.
Register(c) ==
  /\ At(c, "register")
  /\ \/ /\ rows' = rows \cup {c} /\ To(c, "page")
        /\ watch' = [watch EXCEPT ![c].at = "open"]
     \/ UNCHANGED <<rows, watch>> /\ To(c, "quit")
  /\ UNCHANGED <<page, site, call, owner, holders, forwarders, chromes, profiles, sweep>>

OnPage(c) ==
  /\ At(c, "page") /\ Loop(c, c \in chromes)
  /\ UNCHANGED solveVars

LeavePage(c) ==
  /\ At(c, "page") /\ watch[c].at \in {"token", "failed"}
  /\ To(c, "quit")
  /\ UNCHANGED <<pageVars, call, owner, holders, forwarders, chromes, profiles, rows, sweep>>

\* The pages of Chromes that are gone.
Gone(dead) == page' = [c \in Captures |-> IF c \in dead THEN Blank ELSE page[c]]

\* _quit_turnstile_browser: quit, and reap the tree of the pid that is known.
Quit(c) ==
  /\ At(c, "quit")
  /\ IF capture[c].orphan THEN UNCHANGED <<chromes, page>>
     ELSE chromes' = chromes \ {c} /\ Gone({c})
  /\ To(c, "finish")
  /\ UNCHANGED <<watch, site, call, owner, holders, forwarders, profiles, rows, sweep>>

\* Mutant of Returned: the forwarder is stopped by the code that got a token.
ReturnedOnToken(c) ==
  /\ rows' \in {rows, rows \ {c}}
  /\ forwarders' = IF watch[c].at = "token" THEN Stopped(c) ELSE forwarders
  /\ holders' = holders \ {c}

\* What Finish gives back: the row, unless its lock times out, which is
\* passed over, and last the forwarder and the slot.
Returned(c) ==
  /\ rows' \in {rows, rows \ {c}}
  /\ forwarders' = Stopped(c)
  /\ holders' = holders \ {c}

\* The profile that the options know, if it can be removed.
Discarded(c) ==
  \/ /\ profiles' = IF capture[c].lost THEN profiles ELSE profiles \ {c}
     /\ To(c, "over")
  \/ /\ c \in profiles /\ UNCHANGED profiles
     /\ capture' = [capture EXCEPT ![c].at = "over", ![c].lost = TRUE]

\* The end of the thread, and the answer to a caller that still waits.
Finish(c) ==
  /\ At(c, "finish")
  /\ Returned(c) /\ Discarded(c)
  /\ call' = [call EXCEPT ![c] = Answered(c)]
  /\ watch' = [watch EXCEPT ![c] = Idle]
  /\ UNCHANGED <<page, site, owner, chromes, sweep>>

\* The process is gone, and with it its threads, locks and forwarders.
Ended(o) ==
  /\ owner' = [owner EXCEPT ![o] = "down"]
  /\ holders' = holders \ Of(o)
  /\ forwarders' = forwarders \ Of(o)
  /\ capture' = [c \in Captures |-> IF OwnerOf[c] = o THEN Fresh("over") ELSE capture[c]]
  /\ call' = [c \in Captures |-> IF OwnerOf[c] = o THEN "none" ELSE call[c]]
  /\ watch' = [c \in Captures |-> IF OwnerOf[c] = o THEN Idle ELSE watch[c]]
  /\ sweep' = [sweep EXCEPT ![o] = Resting]

\* terminate(): no finally, no atexit; Chrome lives on.
Kill(o) ==
  /\ owner[o] = "up"
  /\ Ended(o)
  /\ UNCHANGED <<page, site, chromes, profiles, rows>>

-----------------------------------------------------------------------------
(* terminate_project_browser_trees *)

Sweeping(s, where) == sweep[s].at = where
SolveUnchanged == UNCHANGED <<watch, site, capture, call, owner, holders, forwarders>>

\* The rows are read under the lock, and the lock is let go.  A process
\* comes here at its exit, when its threads have been joined.
SweepBegin(s) ==
  /\ Sweeping(s, "idle") /\ owner[s] = "up"
  /\ s \in Owners => \A c \in Of(s) : ~Running(c)
  /\ sweep' = [sweep EXCEPT ![s] = [Resting EXCEPT !.at = "scan",
                                      !.rows = IF s = All THEN rows ELSE rows \cap Of(s)]]
  /\ SolveUnchanged /\ UNCHANGED <<page, chromes, profiles, rows>>

\* Mutant of Targets: only what the registry names is looked for.
TargetsRegistered(s) == chromes \cap sweep[s].rows

\* The processes to end: everything with the marker of the project on its
\* command line, or only what the rows name.
Targets(s) == IF s = All THEN chromes ELSE chromes \cap sweep[s].rows

\* Scan and kill; the profiles of what is found are to go as well, but not
\* those of other live Chromes.
SweepKill(s) ==
  /\ Sweeping(s, "scan")
  /\ chromes' = chromes \ Targets(s) /\ Gone(Targets(s))
  /\ sweep' = [sweep EXCEPT ![s].at = "remove",
                 ![s].profiles = (sweep[s].rows \cup Targets(s)) \ (chromes \ Targets(s))]
  /\ SolveUnchanged /\ UNCHANGED <<profiles, rows>>

\* Mutant of Newer: the rows are selected again, not those that were read.
NewerOfOthers(s) == IF s = All THEN {} ELSE rows \ Of(s)

\* The rows that were not there when the sweep began, by their identity.
Newer(s) == rows \ sweep[s].rows

\* Under the lock: profiles and rows, except those registered meanwhile.  A
\* profile that cannot be removed stays without its row.
SweepRemove(s) ==
  /\ Sweeping(s, "remove")
  /\ \E gone \in SUBSET (sweep[s].profiles \ Newer(s)) : profiles' = profiles \ gone
  /\ rows' = Newer(s)
  /\ sweep' = [sweep EXCEPT ![s] = [Resting EXCEPT !.at = IF s = All THEN "temp" ELSE "done"]]
  /\ SolveUnchanged /\ UNCHANGED <<page, chromes>>

\* That lock times out: the cleanup is over.  (At an exit that is no more than
\* a Kill.)
SweepFails ==
  /\ Sweeping(All, "remove")
  /\ sweep' = [sweep EXCEPT ![All] = Resting]
  /\ SolveUnchanged /\ UNCHANGED <<page, chromes, profiles, rows>>

\* cleanup_browser_residues then reads the rows again, to protect what they
\* name; it protects nothing when that fails.
ReadProtected ==
  /\ Sweeping(All, "temp")
  /\ \E named \in {rows, {}} :
       sweep' = [sweep EXCEPT ![All] = [Resting EXCEPT !.at = "delete", !.rows = named]]
  /\ SolveUnchanged /\ UNCHANGED <<page, chromes, profiles, rows>>

\* It takes, without the lock, the other directories that are older than 30 s,
\* as all are in the end.
SweepTemp(old) ==
  /\ Sweeping(All, "delete")
  /\ old \subseteq profiles \ sweep[All].rows
  /\ (\A o \in Owners : owner[o] = "down") => old = profiles \ sweep[All].rows
  /\ profiles' = profiles \ old
  /\ sweep' = [sweep EXCEPT ![All] = Resting]
  /\ SolveUnchanged /\ UNCHANGED <<page, chromes, rows>>

Exit(o) ==
  /\ Sweeping(o, "done")
  /\ Ended(o)
  /\ UNCHANGED <<page, site, chromes, profiles, rows>>

-----------------------------------------------------------------------------

Capturing(c) ==
  \/ TakeSlot(c) \/ NoSlot(c) \/ Prepare(c) \/ Launch(c)
  \/ Connect(c) \/ Register(c) \/ OnPage(c) \/ LeavePage(c) \/ Quit(c) \/ Finish(c)

SweepAll ==
  \/ SweepBegin(All) \/ SweepKill(All) \/ SweepRemove(All) \/ ReadProtected
  \/ \E old \in SUBSET profiles : SweepTemp(old)

ExitOf(o) == SweepBegin(o) \/ SweepKill(o) \/ SweepRemove(o) \/ Exit(o)

SiteMoves(c) == At(c, "page") /\ c \in chromes /\ PageMoves(c) /\ UNCHANGED solveVars

Next ==
  \/ \E c \in Captures : Ask(c) \/ TimeOut(c) \/ Capturing(c) \/ SiteMoves(c)
  \/ \E o \in Owners : Kill(o) \/ ExitOf(o)
  \/ SweepAll \/ SweepFails

\* Threads and sweeps go on; a process that is not asked again exits; every
\* batch begins and ends with a sweep, one of which gets the lock.
Fairness ==
  /\ WF_vars(\E c \in Captures : Capturing(c))
  /\ WF_vars(\E o \in Owners : ExitOf(o))
  /\ WF_vars(SweepAll) /\ SF_vars(SweepRemove(All))

Spec == Init /\ [][Next]_vars /\ Fairness

-----------------------------------------------------------------------------
(* Properties *)

\* "Cross-process semaphore for local browser Turnstile captures" (3043): the
\* Chromes of captures that go on are never more than the limit, when solves
\* time out and processes are killed as well.
ChromesWithinLimit == Cardinality({c \in chromes : Running(c)}) <= Limit

\* A capture that has ended in a live process, however it ended, has left
\* nothing: no slot and no forwarder; no Chrome, unless Chromium() raised on one
\* that runs (xai_http_flow.py, 5870 and 6379-6389); no profile, unless the
\* options raised after they had made it (4963-5112, 5989) or rmtree failed.
NothingLeftBehind ==
  \A c \in Captures :
    owner[OwnerOf[c]] = "up" /\ capture[c].at = "over" =>
      /\ c \notin holders \cup forwarders
      /\ c \in profiles => capture[c].lost
      /\ c \in chromes => capture[c].orphan

\* "Keep that newer owner's directory and registry row together"
\* (project_browser_registry.py, 396-398): no cleanup, of an exit or of
\* everything, takes the row of a Chrome that runs, or its directory, however
\* many are launched, registered and killed while it looks, kills and removes.
\* Only its own capture gives up that of an orphan, and the last pass over the
\* old directories takes those that no row named when it read them.
CleanupSparesRunning ==
  [][\A c \in chromes :
       /\ c \in rows => c \in rows'
       /\ c \in profiles \ profiles' =>
            \/ At(c, "finish") /\ capture[c].orphan
            \/ Sweeping(All, "delete") /\ c \notin sweep[All].rows]_vars

\* Every capture ends, in whatever state its browser is.
CapturesEnd == []<>(\A c \in Captures : ~Running(c))

\* Where batches are run, there is in the end no Chrome, profile or row.
CleanInTheEnd == owner[All] = "up" => <>[](chromes \cup profiles \cup rows = {})

\* The clocks of the loop on a page: hopeless pages are left in time and no
\* click is one too many.
PageRules ==
  /\ HopelessPagesLeft
  /\ OneContinue

\* Chromes of captures are limited and leave nothing when their capture ends.
ChromesSafe ==
  /\ TypeOK
  /\ ChromesWithinLimit
  /\ NothingLeftBehind

\* Captures end, and in the end so do their Chromes and files.
SolvesEnd ==
  /\ CapturesEnd
  /\ CleanInTheEnd
=============================================================================
