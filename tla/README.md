# A verification of grok-protocol

grok-protocol registers accounts in batches.  A scheduler launches one worker
process per registration; each worker drives an HTTP flow that needs a mailbox,
an egress route, a Turnstile token and a submit slot; local services (browser
pool, broker, embedded proxy, mail supervisor) provide them.  This directory
holds TLA+ models of the parts of that machinery in which order, concurrency,
failure and limits matter, TLC configurations that check them on small
instances, and TLAPS proofs that hold for instances of every size.

Line numbers refer to the files under `src/`.  `X` stands for
`xai_http_flow.py`, `B` for `http_batch_service.py`, `TS/` for
`turnstile_solver/src/`.

## 1. Inventory of the system

### How the parts interact

    web console / terminal ── start, stop, poll ──> batch scheduler (B)
        scheduler ── Popen ──> registration process (X)      one per task
        scheduler ── lease / release ──> embedded proxy, proxy pool
        scheduler ── thread ──> conversion of the finished account ──> credential files ──> CPA
        console ── start, reload, stop ──> embedded proxy (mihomo)
        console ── export, push ──> credential files
    registration process ── two files + lock ──> imported mailbox pool
                         ── lock, stamp, rotation file ──> mailboxes made on demand
                         ── HTTP ──> solver service: submit permits, solve, token lease
                         ── thread, slot file lock ──> local solve: Chrome, forwarder, registry
    solver service ── in process ──> Turnstile broker ──> external providers
                   ── condition variable ──> persistent browser pool ──> Chrome
    mail supervisor ── the same two files ──> imported mailbox pool
    OAuth sign-in ── browser, callback server ──> credential

Almost everything is shared state guarded by a lock that is *not* held over the
slow part of an operation (starting a process or a browser, an HTTP call, a
second file), and it is there that the interesting interleavings are.

### Components

| Component | Code | State | Operations | What is hard | What makes it correct |
|---|---|---|---|---|---|
| Batch scheduler | `BatchRunner`, B:1706-3915 | workers, counters, outcome window, refill pause, circuit, retry queue, phase | `start`, `tick`, `stop` | processes, conversions, proxies and timers move between any two steps; pauses and circuit interact; routes are given back on many paths | every launch has one outcome; a route is held by a live worker exactly; no launch after stop; refill obeys protection; the batch ends and its plan is done |
| Batch service, web console | `BatchService`, B; `webui_app.py` | the current runner, the boot of the embedded proxy | `start_run`, `stop_run`, `poll`, `ensure_embedded_proxy`, export, push | `poll` and most requests take no lock and come from several threads | slots, plan count, counters and stop hold under concurrent polls; see the embedded proxy and the credential files |
| Submit gate | `TS/submit_permits.py` | bounded semaphore, lease table, closed flag | `acquire`, `release`, `reap_expired`, `stats`, `close` | semaphore and table change in separate steps; clients crash; leases expire | no slot lost or doubled; at most N permits; a call ends |
| Imported mailbox pool | `MicrosoftGraphMailbox`, X:3742-4075 | pool file, ledger of used rows, what each process remembers | reserve, refresh token, persist token, return, commit | two files, no write covers both; a process may be killed, a write may fail | an address is worked on by one process; no row or token is lost; a used address stays used |
| Registration lifecycle, xAI client | `run_registration`, X:4454-4795 and the client it drives | the mailbox, the token, the permit, the account | mailbox, code, solve, permit, submit, cookies, files, OAuth | every step may fail or the process be killed; what exists at xAI cannot be undone | what was made is saved; nothing waited for is held for ever; the registration ends |
| Mailboxes on demand | X:3185-3390 | create lock and stamp, rotation file with rejected domains | pace, create, pick, reject | many processes, one pace and one file | spacing; a rejected domain is avoided |
| Solver service, token leases | `TS/service.py`, `TS/models.py`, `TS/api.py` | leases of tokens | `solve`, `consume_lease`, sweep, close | consumption against expiry and sweep; close under requests | a token leaves once; every request is answered |
| Turnstile broker | `turnstile_broker.py` | event loop thread, provider slots, pending count | `solve`, `close` | start-up against close, deadline against answer, cancellation | slots and pending count are given back on every path; no coroutine on a dead loop |
| Browser pool | `PersistentBrowserPool`, `TS/browser_runtime.py:823-1213` | table of slots, busy set, starts in progress, waiters, closed flag | `solve` (`_acquire`, attempt, `_release`), idle reaper, `close` | browsers start and quit outside the lock; waiters; retries; close under running solves | no browser shared, lost or left running; capacity; no lost wake-up; calls end |
| Local solve | X:3041-3109, X:5793-6390; `project_browser_registry.py`; `local_proxy_forwarder.py` | slot locks, Chromes, profiles, registry rows, forwarders | capture, page loop, exit and periodic sweeps | a timed-out solve leaves its thread; killed processes leave Chromes; sweeps race captures | at most N Chromes; nothing left behind; captures end; a sweep spares what is newer |
| OAuth sign-in | `xai_oauth.py`, `turnstile_flow.py` | what the driver remembers of the page, budgets, the callback | one poll step by phase, soft reset, exchange | the page moves between two looks at it | no click without success; budgets survive resets; the flow ends |
| Embedded proxy manager | `embedded_proxy_manager.py` | process, nodes, health, cooldown, leases | start, stop, probe, acquire, report, release | a probe result older than a failure; restart under leases; starts that overlap; a killed console | an unhealthy node is not leased; lease counts are right; the pool recovers |
| Proxy rotator | `proxy_pool.py` | entries, leases, cooldown | acquire, release, report | many paths to give back | an entry has one owner |
| Mail supervisor | `server_mail_supervisor.py` | master list, work file, used rows, epoch | one cycle: reconcile, select, run, absorb | killed between two files; successor finds running children | no address submitted twice or forgotten; tokens only rotate |
| Credential files | `sso_to_auth_json.py`, `cpa_push.py`, B:4246-4480 | json and .sso of each account, export files, CPA | convert, push, export and delete a page | no lock: an export deletes what it read earlier, a push takes minutes | no token or cookie is lost; verdicts are true |
| Locks and atomic files | `cross_process_lock.py` | lock file | acquire with timeout, atomic write | death of a holder | mutual exclusion; a reader sees a whole file |
| Browser worker, credential inspector, subscriptions, terminal front ends, configuration | `TS/browser_worker.py`, `cpa_inspector/`, `proxy_subscription.py`, `http_tui.py`, `trainer_cpu_tui.py`, `local_paths.py` | none that the modelled parts share, except the configuration | parsing, display, settings, inspection | external formats; unlocked writes of the configuration | not modelled (section 7) |

## 2. Modules

| Module | Models | Composed with |
|---|---|---|
| `BatchRunner` | one scheduler thread, its workers and everything that moves around it | - |
| `TickRace` | several threads inside one runner | - |
| `SubmitPermits` | the submit gate and its callers, split where the code leaves its lock | implements `PermitGate` |
| `MailPool` | the mailbox files, the lock, the registration processes and the probe | implements `MailLedger` |
| `MailSupervisor` | the supervisor of the mailbox drain above those processes and files | - |
| `SolverService` | the solver service, its broker and its token leases | extended by `SignUp` |
| `SignUp` | registration processes with mailboxes made on demand, from the first request to the saved account | extends `SolverService`, uses `PermitGate` |
| `BrowserPool` | the browser pool, its requests, the reaper, `close` | implements `BrowserFleet` |
| `TurnstilePage` | the loop of a local capture on a page that changes | extended by `LocalSolve` |
| `LocalSolve` | captures, their Chromes, slots, forwarders and registry, the sweeps | extends `TurnstilePage` |
| `XaiOAuth` | the driver of the OAuth sign-in against a page that moves by itself | - |
| `EmbeddedProxy` | mihomo and its node table, the console's requests, the batch that leases nodes | - |
| `CredentialStore` | conversions, exports and pushes on one directory | - |
| `PermitGate`, `MailLedger`, `BrowserFleet` | what three components promise, without files, locks, semaphores or threads | - |
| `MailPoolProofs`, `BrowserPoolProofs`, `SignUpProofs`, `BatchRunnerProofs`, `LocalSolveProofs` | theorems about one component each | extend the component and TLAPS |
| `RegistrationProofs`, `ConsoleProofs`, `ServiceProofs` | theorems about two: `XaiOAuth` and `SubmitPermits`; `CredentialStore` and `EmbeddedProxy`; `TickRace` and `MailSupervisor` | extend both and TLAPS |
| `MC*` | symmetry sets, plans and initial states of the runs | extend the component |

In most modules an operator marked "a mutant" stands beside an action or a
helper.  It is the same definition with one plausible bug (a guard dropped, an
order swapped, a count off by one), is used by no specification, and records
which bug the property it is paired with is able to find.

Most invariants are conjunctions of named parts (`SlotsSafe`, `RowsSafe`,
`BrowsersSafe`, `AccountsBalance`...); each part is stated with its own comment
and has a mutant of its own.

### BatchRunner

`Preflight` and `StartBroker` are `start`: sticky routes are probed, those that
fail isolated, and the batch is refused when none is left or the broker does not
come up.  A tick is `TickBegin`, `DrainEvent`..., `DrainEnd`, one `Check*` or
`Retry*` per worker (`_check_processes`), `CheckEnd`, `Upkeep` (proxy health and
stall recovery), `SpawnGate`, then the launches of the refill loop, `LoopEnd` and
`TickEnd` (`_finalize`).  `at` is the place inside the tick.  The environment
(exits, conversions, `ExitDown`, `Cools`, `Revived`, the timers) moves between any
two of these; `Stop` comes between ticks, as the terminal front ends have it.  `tally`
holds the counters, `gate` the refill pause, the circuit and the proxy-health
flag, `held` and `w[i].route` the two sides of a route lease: what the proxy
manager believes and what the worker remembers.  `bad` are the routes that are not
healthy, `cooled` the nodes among them whose cooldown is over: a pool entry is
usable again then, a node only after a probe, which an acquire makes
(`Launch`, `RetryElsewhere`) or the operator (`Revived`).  Worker indices, which only
grow, are abstracted to slots.  A hybrid batch has nodes and pool entries at once.

Abstracted: log events of workers (only the class of a failure is kept), file
names, wording; which of the usable routes is preferred (the 45 s bias and the
round robin) is left open; a sticky snapshot inside a hybrid is left out.

### TickRace

The threads of the web console in one runner, switched where CPython may switch them
(calls and loop heads).  `web` chooses between the terminal front ends, where one thread
does everything, and `webui_app.py`, where the poller thread, polling requests and
`stop_run` overlap.  `WithinLimits` is exact for a terminal and allows one task for each
other polling thread in the web console: that slack is what the code gives, and no more.
A stop is `StopQueued` and `StopRunning`, the two passes of the code over its workers,
between which polls go on.  `StopReachesAll` has the same slack for the processes of
active workers; those of workers that count as ended run on where two workers were given
one number (section 5).

### SubmitPermits

`sem` is the semaphore, `slot[p]` the life of the slot a permit stands for
(`got` taken but not registered, `active`, `popped` from the table but not handed
back, `returned`).  `acquire`, `release`, `stats` and `close` are sequences of
steps of a thread; each of the first three begins with `reap_expired`.

### MailPool

`pool` and `used` are the two files as functions from an address to the version
of its refresh token (or `None`); `ahead` is a row that a return has put first.
`lock` is the cross-process lock, `proc` what a process remembers and where it
is.  A reservation is `ClaimLedger` then `ClaimSource`, a return `ReturnRow` then
`DropLedger`; `Killed` and a failed write may come between any two steps, and
waiting for the lock may time out.  `saved` and `accounts` are history: the
addresses with a saved SSO record, and those for which xAI has an account.

### MailSupervisor

`master`, `work` and `used` are the three files, `sup` the supervisor process with what
it holds in memory, `child` the registration processes.  One turn of `run` is
`Reconcile` (in `LoopTop` and in `After`), `Convert`, `Selected`, `RebuildWork`,
`ClearLedger`, `PatchConfig`, the epoch itself, `Drain`...  The processes work as in
`MailPool`, a transaction under the mailbox lock being one step.  A new refresh token is
issued in one step (`Rotate`) and written in another (`Persist`), which may fail
(`PersistFails`: no file lists the row, no lock, a write error) or not be reached:
`issued` are the tokens the mail service has given out, `stored` the newest that were
written, `dropped` the addresses whose newest one went with the process that had it.
`Killed` takes the supervisor or a child at any point, between the two writes of a
rebuild too; a supervisor that comes up again finds processes of its predecessor
(`orphaned`).  `AppendRow` is the operator who extends the master.  `Turn` is the choice
of `_select_epoch`: a window on the pending addresses (the set `Pending`, ordered by
`Place` in the master and so by `Rank`) that moves on with every epoch.

### SolverService and SignUp

`SolverService` is one service with request threads (`request`), a broker
(`broker`: loop, closed flag, pending count, provider slots), the coroutine of
each request (`task`), and its lease.  `GetBroker`, `EnsureLoop`, `AwaitPublished`,
`AwaitLoop` and `Schedule` are the steps between the locks of `_ensure_loop` and
`solve`; `Publish` is the loop's thread.  `Close`, `MarkClosed` and
`CancelPending` are the close, which may come between any two of them: a forced
exit closes the service under running requests.  A solve of the local pool is
one step here (`FromPool`); what it does is `BrowserPool`.

`SignUp` adds the processes: `Pick`, `TakeGuard`, `Pace`, `Created` and so on make a
mailbox under the create lock (`guard`, `stamped`) with the domains of the rotation
file; then `AskForCode`, `CodeArrives`, `VerifyCode`, `AskForToken`, `Solved`,
`AcquirePermit`, `ConsumeToken`, `Submit`, `GetSso`, `ReleasePermit`, `SaveSso`,
`Authorize`, `SaveAccount`.  `Kill` ends a process anywhere.  `recent` is history: a
create was let through less than a spacing ago, whatever the stamp says.  The two files
may fail: a read that fails says "no stamp" or "nothing rejected" (`ReadAs`, counted in
`unread`), and that may be written back; a stamp may not be written (`unstamped`), nor a
rejection, and a full file takes no more (`RejectLimit`).  The record of the SSO cookie
may not be written either; the process then ends with `got = "unwritten"`.  Permits are
those of `PermitGate`, which `SubmitPermits` is proved to implement.

### BrowserPool

`table`, `busy`, `creating`, `closed` are the fields of the pool; `slot[s]` is
the `BrowserSlot` object; `call[t]` the stack frame of `solve` in thread `t`.
One pass of the loop of `_acquire` under the lock is `Reuse`, `Retire` (recycle
or eviction), `Create`, `WaitForSlot`, `AcquireTimesOut` or `AcquireRefused`; what
follows outside the lock (`CloseRetired`, `StartSucceeds`, `StartFails`,
`Install`, `Dispose`, `CloseReaped`, `CloseTaken`) are steps of their own.
`AttemptEnds` is `slot.solve` with the part of `_release` before its lock,
`GiveBack` the part under it.  Age, idle time, memory, consecutive failures and a
lost connection are one flag raised at any time; the count of tasks is kept.

### TurnstilePage and LocalSolve

`TurnstilePage` is the loop of `_capture_turnstile_token_impl`: `Open`, `Enter`
(the widget is injected or the e-mail entry clicked), `FirstLook`, then rounds of
`StartForm`, `Read`, `Prime`, `Click`, `Diagnose`, `Miss` and, with a token,
`Validate`.  The clocks of a round (`t`, `toNudge`, `toPrime`, `toDiag`,
`challenge`) are kept in seconds, since the code decides by comparing them;
`site` (a member of `Site`) says what the page may show and how long a round may
take.  `PageMoves` changes the page between any two steps.

`LocalSolve` puts it between `TakeSlot`, `Prepare`, `Launch`, `Connect`,
`Register` and `Quit`, `Finish`, in the thread of a capture whose caller may
`TimeOut`.  `holders`, `forwarders`, `chromes`, `profiles` and `rows` are what a
capture holds outside its process; `Kill` ends a process without cleaning them.
A profile is `lost` when the code knows it no longer (the browser options raised
after they had made it) or could not remove it, a Chrome an `orphan` when
`Chromium()` raised on one that runs.  A sweep is `SweepBegin`, `SweepKill`,
`SweepRemove` with what it read at its beginning, or `SweepFails` when it does not get
the lock again; that of a batch goes on with `ReadProtected` and `SweepTemp`, which
takes without a lock the old directories that no row named when it read the rows
anew.

### XaiOAuth

`page` is what the browser shows (phase, widget, form), `st` the `oauth_state`
that a soft reset clears, `drive` where the driver is.  `Poll` is one turn of its
loop with the step for the phase: `Cloudflare`, a `Form`, `Password` with its
widget watching (`Watched`, `Refused`, `Ready`) and the external solver, `Consent`,
`Displays`.  Only the login click is split (`Password`, `Click`), because it looks
at the page twice with seconds between.  The second look and the press that follows it
at once are one step, and a probe of the widget that raises, which the code reads as
"no widget", is left out.  `PageMoves`, `WidgetChanges` and
`Redirected` are the page and the callback server, `Elapse` and `Deadline` time.

### EmbeddedProxy

`node` is the table, `flight` the background probes, `mgr` the fields `_proc` and
`_running`, `alive` the mihomo processes that exist, `boot` the phase the console shows,
`task[t]` a request in a thread, `batch` and `lease` the run.  A start is `Ensure`,
`StopOld`, `CleanUp`, `Spawn`, `WaitPort`, `Assign`, `EarlyReady`, `SecondProbe`:
requests of two threads interleave there, for only `start_run` takes a lock.  The
clean-up of a start may leave mihomos behind (`unclean`): it is left out where there is
no `/proc`, and its errors are only logged.  `ProbeEnds` brings the answer of a probe
that began earlier.  `Acquire` reserves a node or begins probes (`asker`, `Reprobe`,
`Select`), `Release` reports and returns.  `CheckHealth` is `_evaluate_proxy_health` of
a batch that has no manual pool.

### CredentialStore

`json`, `sso` and `order` are the directory, `files` the export files by the second in
their name, `cloud` what CPA has.  A conversion is `Sidecar`, `SsoToToken`, `WriteJson`,
`WriteSso`, `AutoPush` and the second look at the file (`Stored`, `Reported`); an export
`List`, `WriteExport`, `Verify` and one `Delete` for each file (`left` are the rows
still to be deleted, `next` which of the two files of the first of them); a push
`Collect`, `Fetch`, `Post`.  `Crash` ends the console between any two of them.

## 3. What the runs check

| Run | Instance | Question and answer |
|---|---|---|
| `permits` | 3 acquirers, 2 other threads, 2 slots | `SlotsSafe`: no slot lost, doubled or adrift; `GateImplemented`; `AcquireSettles`: every acquire call ends though clients crash with permits |
| `batch_safety` | 2 slots, 2 routes, 7 plans (each kind of egress, the hybrid, both modes, with and without conversions), 2 faults, stop | `AccountsBalance` (launches, outcomes, routes), `WithinPlan` (retry budget, plan count), `OnlyAllowedLaunches` (stop, refill protection) |
| `batch_live` | 2 slots, 1 route, 3 plans, 2 faults | `DoneMeansPlanDone`; `RunsEnd`: a stopped batch drains, a counted one finishes unless the circuit opens; `IdleRunRefills`: a continuous one never stays idle; both unless the batch is `Stranded` with no healthy node |
| `race` | 2 pollers and a stopper, 1 slot, 2 tasks, at most 4 worker objects; terminal and web console | `WithinLimits` (slots, plan), `CountedOnce`, `StopReachesAll` |
| `mail_pool` | 2 addresses, 2 workers, 1 probe, 2 token and 2 domain tries, 1 rotation per address, 1 failing write, kills at will | `RowsSafe`: exclusive addresses, owned rows in the ledger, no lost row, saved addresses stay spent; `TokensOnlyRotate`; `LedgerImplemented` |
| `mail_supervisor` | 2 addresses of which 1 may be appended later, epochs of 1 address and 1 process, 1 rotation of the token of either address, 1 kill, 1 fault | `MasterSafe`: the newest token that was written is found after any kill, and none is unwritten but by a failure or a kill at its write; `NeverRegisteredAgain`; `EndsWithoutChildren`; `EveryAddressGetsItsTurn` |
| `browser_pool` | 2 requests, 2 affinities, capacity 1, 2 attempts, 2 tasks per browser, 1 fault, reaper, close | `BrowsersSafe`: not shared, lost, too many or overused, no lost wake-up; `FleetImplemented`; `EveryCallEnds`; `CloseLeavesNoBrowser` |
| `sign_up` | 2 processes, 2 domains, 2 requests, 1 provider slot, queue of 2, 1 submit permit, 2 tries of everything, 1 unreadable file, 1 rejected domain kept | `ServiceSafe` (counts given back, no task on a dead loop, a closed broker stops); `SsoOutlivesFailure`; `MailboxesShared` (pace, rejected domains); `EverythingEnds` |
| `local_solve` | 2 captures at 1 slot with prompt pages, of one process among the sweeps of batches and its exit or of two that exit, or 1 capture on a page that does anything, in rounds of 1 and of 3 seconds | `ChromesSafe` (limit, nothing left behind); `PageRules` (hopeless pages left in time, one continue); `CleanupSparesRunning`; `SolvesEnd`: captures end, and in the end nothing of them is left |
| `xai_oauth` | 2 clicks, 1 external solve, 1 soft reset, 3 moves of the page | `AttemptBounded` (budgets, foreign codes), `LoginWhenReady`, `FlowEnds` |
| `embedded_proxy` | 1 node, 2 workers, 2 threads with 2 requests, 2 processes, 1 probe in flight, no manual pool | `NodesSafe` (loads are leases, one start whose clean-up works leaves one mihomo), `NoLeaseWhileSick`, `ProxyComesBack` |
| `credential_store` | 2 accounts, 1 conversion of 2 attempts, 2 exports of a page of 1, 1 push, 2 seconds, crash and stop | `RecordsSafe` (no token or cookie lost), `VerdictIsTrue`, `PushedIsSaved` |

### Bounds and why they are enough

- *Two workers, requests or accounts, two of everything that is competed for*:
  every property here relates at most two actors and one resource, or counts to
  a limit.  With two actors and a limit of one or two the limit is reached, a
  waiter exists and a third party (stop, close, a reaper, a sweep, an export) can
  come between.
- *MaxFaults, MaxKills, MaxTurns* bound how often the environment does harm or the
  page changes by itself.  Two faults let one strike while the consequences of
  another are pending.  Kills in `MailPool`, `SignUp` and `LocalSolve`, stop and
  close are not counted: they may come at any time.
- *MaxTasks* (`TickRace`) is two more than `Count`, so that tasks too many can
  exist.  *MaxToken* bounds the rotations a mail service performs.
- *CircuitWindow* 2 opens the circuit on two failures in a row; the code's window
  of 50 and its 80 % are the same test on a longer history.  Budgets of the OAuth
  flow (clicks, solves, resets, failures) are one or two instead of two to twenty:
  each is reached, together with those it interacts with.
- *MCSignUp* starts in one of two halves: mailboxes are made and the service is gone, or
  addresses are given and two requests share the service.  They share no state, so the
  product would add nothing.  *MCLocalSolve* likewise: two captures, of one process or
  of two, compete with pages that answer at once, or one capture meets every page.
  *MCCredentialStore* has at most one conversion at first: two conversions touch
  different accounts only, while exports and pushes touch them all.
- *RejectLimit* 1 (500 in the code) fills the file of rejected domains with one of
  two, and *MaxUnread* 1 makes one read fail between any two others.
- *MCMailSupervisor* rotates the tokens of one address, whichever it is; those of the
  other are at their bound.  No step compares the tokens of two addresses.
- *Timeout* 60 in `LocalSolve` is above the code's least of 30, at which the
  25 s rule for a challenge could never be seen to fire.
- Sets that the code never orders (exits, pollers, addresses, workers, accounts)
  are symmetric in runs without liveness properties.
- `DoneMeansPlanDone` is checked for the kinds of egress of `FewPlans`, not for
  sticky routes, where the code does lose an attempt (section 5).
- Deadlock checking is off in every run: a batch that is done, a closed gate, a
  pool whose addresses are spent, a solved request and an ended process really stop.
- *Cycle* (`SignUp`): the index of the rotation file grows without bound in the
  code and is only used modulo the number of domains, so it is kept modulo a
  common multiple of the numbers of domains.

### Fairness and its justification

- `BatchRunner!FairSpec`: `start` returns and the polling thread keeps ticking (a
  loop with a sleep in every front end), processes and conversions end (each has a
  timeout in the worker), timers and cooldowns pass.  That a node becomes healthy is
  not fair: it takes a probe that ends well, which only an acquire or the operator
  makes (`embedded_proxy_manager.py:724-747`, 841), so that a batch may be `Stranded`:
  no worker, the pause for want of a healthy node, and no healthy node.  Launch
  errors and route failures are never required, and are bounded.
- `SubmitPermits!FairSpec`: a server thread that is inside a call takes its next
  step, and a lease runs out.  No client is required to release a permit.
- `BrowserPool!FairSpec`: threads run, a browser starts or fails to, a solve ends
  by its own timeout, a quit returns.  Deadlines are *not* fair: `EveryCallEnds`
  shows that a waiting request is woken and served even if its deadline never
  comes, which a lost notification would break.
- `MailSupervisor!SupervisorFairness`: the supervisor's thread goes on, its watchdogs end an
  epoch that does not end, and a service manager starts it again.  Operator,
  kills, faults and the steps of a child are free.
- `SignUp!Fairness` is `WF(Work)`: something goes on in the machine.  That is
  enough because every step consumes a try, a request or a stage of a process.
  Kills, the close, expiry of leases and permits and the caller's time-out are free.
- `LocalSolve!Fairness`: the threads of captures go on, a process that is not asked
  again exits, and whoever runs batches sweeps; one of the sweeps gets the lock in its
  last part (`SF` of `SweepRemove(All)`: every batch begins and ends with one).  Time-outs
  and kills are free.
- `XaiOAuth!FairOAuth`: the driver takes its steps and the deadline passes.  The
  page need not move and no redirect need arrive.
- `EmbeddedProxy!FairProxy`: request threads go on, probes have a time limit,
  cooldowns pass, the batch is polled and its workers acquire and release.
  Nobody need make a request, end the run or repair a node; that nodes work is a
  premise of `PoolRecovers`, and so is that the pause on proxy health is lifted
  (section 5).
- `MailPool`, `TickRace` and `CredentialStore` have no liveness property: a
  registration process may be killed at any time, and the loops of the other two
  are bounded by counters.

## 4. What is proved

The theorems hold for every number of threads, slots, addresses, processes,
captures, workers, plans, tokens and tries that satisfies the named assumption of
the module (`PermitAssumption`, `MailAssumption`, `PoolAssumption`,
`StoreAssumption`, `ServiceAssumption` and `SignUpAssumption`, `BatchAssumption`,
`RaceAssumption`, `SolveAssumption` and `PageAssumption`, `OAuthAssumption`,
`EmbeddedAssumption`, `SupervisorAssumption`), which TLC also evaluates.  The
assumptions say that sets of actors are finite, that bounds are natural numbers,
and that what stands for "nothing" in a field (`None`, `Nothing`) is none of the
values the field can have.  The theorems are statements about the specification
with the initial states of the component, of which the runs take a part.  The
inductive invariants were checked by TLC on small instances first.

Every invariant and every action property of every run that passes is a theorem, and
so is each of the three refinements.

### RegistrationProofs: SubmitPermits

`TypeCorrect`, `SlotsAreConserved`, `NoSlotIsAdrift`, from them `SlotsAreSafe`
(the invariant of the run), and `RegistryImplementsGate`.

`SlotsConserved` says that free slots and slots charged to somebody add up to
`Workers`.  By itself it is not inductive: `release` and `reap_expired` hand a
slot back long after they popped its lease, and without knowing that a popped
slot has one thread that owes it, the hand-back could be done twice.
`PlacesOK` adds exactly that: a thread at `got` has a slot that is `got`, a
popped slot has a popper that is at the place where it hands back, a thread at
the place of a release owes at most the permit it named.  With it each step
moves one permit from one state to the next and the sum follows from the
cardinality of a set with one element added or removed.  It also implies that
`BoundedSemaphore.release` never raises (`sem < Workers` whenever a slot is
owed).  The refinement maps the active leases to the permits held and the
popped and returned ones to those spent; every step but grant, pop and close is
a stutter.

### MailPoolProofs

`Inductive` and from it `PoolTypeCorrect`, `AddressesAreExclusive`,
`RowsAreKept`, `SavedStaysSpentAlways`, together `RowsAreSafe`, and
`PoolImplementsLedger`.

`Exclusive` cannot be proved alone: that two processes never hold one address
follows from the ledger (an address in it is not claimable), from the lock (the
two writes of a claim or a return have no other claim or return between them)
and from what a killed or failing process leaves behind.  The invariant is the
conjunction of `TypeOK`, `ProcsOK` (what a process at each stage remembers: an
owned process has an address, a releasing one owns it), `LockOK` (who is between
two writes holds the lock), `ReturnedRows` (between the two writes of a return
the row is in both files), `OwnedInLedger`, `Exclusive`, `RowsKept`
and `SavedOK` (a saved address is in the ledger and no process that could return
it holds it).  The proof has one step per action and below it one per conjunct
the action can disturb.  `PoolImplementsLedger` maps an address to the process
that holds it, to spent if it is in the ledger without a holder, and to free
otherwise.  A row that a crash leaves in both files is spent, not free: that is
the code's rule that the ledger decides.

### BrowserPoolProofs

`PoolTypeCorrect`, `NothingIsLost`, `OneUserEach`, `CapacityIsKept`,
`WakeupsArrive`, `TasksAreLimited`, together `BrowsersAreSafe`, and
`PoolImplementsFleet`: every safety property of the run, for any number of
requests, slots, affinities, attempts and tasks.

The invariant is `PoolInv`: `TypeOK`, `PlacesOK`, `CapacityKept`,
`WithinTaskLimit` and `NoLostWakeup`.  `PlacesOK` is what makes it inductive.
The checked properties speak of the table and of the requests at two or three
places; between the critical sections a slot is known only to the request that
took it out, so one needs, for every place a request can be at, where its slot
is not (`HeldOK`: a slot being started, retired or disposed of is in no table,
no slot in hand is being reaped), that no two requests hold one slot
(`DistinctOK`), that the tables are disjoint and what `close` leaves of them
(`TablesOK`), and which fields of a call mean something at which place
(`ShapeOK`).  `TypeStep`, `PlacesStep`, `CapacityStep`, `TaskStep` and
`WakeStep` each prove one conjunct, one action at a time; the lemmas
`QuietMoves`, `SlotMoves`, `PlaceMoves`, `EndMoves`, `AttemptMoves` and
`StillMoves` say once what each action does to the calls.  In `CapacityStep` the
count `creating` is the cardinality of the set of requests that start a browser;
only three actions change that set, by one element.  In `WakeStep` an action
either wakes everybody, or leaves the pool full, or cannot happen while a
request sleeps.

The refinement (`FleetStep`) reads the status of a browser off the table, the
requests and the browser itself (`StatusIs`): `Reuse` and an `Install` in an
open pool lend, `GiveBack` returns or condemns, `Retire` and `Reap` condemn,
whoever closes a slot quits its browser or finds it quit already, `Close` shuts.

`TokensAreNotRolledBack` is the action property of the run: no write of a row puts
an older token over a newer one.  It needs one more invariant, `ReturnedSame`: the
two files agree on the row that is between the two writes of a return.

### RegistrationProofs: XaiOAuth

`AttemptsAreBounded` (`AttemptBounded`) and `LoginsAreReady` (`LoginWhenReady`, an
action property), for any budgets and whatever page and widget do.

The counters that the driver compares with its budgets are in the state that a
soft reset clears, so that nothing in the state bounds the whole attempt.
`BudgetsLeft` does: clicks and solves so far are at most one budget for each reset
plus what the state has counted since, and when the flow is over, and the state
gone, plus one budget.  `SolverDue` and the test before a login keep the second
part within its budget, `SoftReset` moves it into the first, and the resets have a
budget that nothing clears.  `OwnCode`: `Received` takes only the code of its own
state (or one without a state).

That a click is made on a success relates two looks of the driver at a page that
moves between them.  `WidgetSound` says what a page can show (a success has a
token, issued in this turn or an earlier one), `Timed` that the driver has timed
the token it calls stable, so that if the page still shows that one it has shown it
long enough, and `LoginPrepared` what is behind a login about to be clicked (a
filled form, no cooldown, a click left).  `PageMoves` and `WidgetChanges` keep
all three, for a token they issue has the number of the turn.

### ConsoleProofs: CredentialStore

`RecordsAreSafe` (`RecordsSafe`), `VerdictsAreTrue` and `PushesAreSaved`: every
invariant of the run.

A token is lost when the last place that has it goes, so what counts is what an
export may rely on when it deletes.  `PageListed` says of an export that has not
verified yet that its page holds the tokens of the files, or excused ones;
`Backed` and `CookieBacked` say of one that deletes that what it has still to
delete (`left`) is in an export file or excused.  The excuses are those of
section 5, and nothing else: an account gets into `excused` by an export of the
same second or by a json written again after it was listed.  `ConvOK` (a
conversion tries only while there is no json) makes verdicts true and tokens
grow, and `TokensSaved` follows a token from the json to the list of a push and
to CPA.

### ConsoleProofs: EmbeddedProxy

`NodesAreSafe` (`NodesSafe`) and `SickNodesRest` (`NoLeaseWhileSick`, an action
property), both from `ProxyInvariant`, for any number of nodes, workers, threads
and requests.

`NodesSafe` says nothing of the loads once a start has replaced the table under
leases, and there the code still releases: `LoadCounted` keeps that no load is
above the leases, so that a release (`Returned` stops at zero) and an acquisition
move load and leases alike as long as they agree.  The lemmas `LeaseTaken` and
`LeaseGiven` do the counting.  `AskerWaits` (who probes has no node yet) makes a
`Select` after a `Reprobe` a first lease.  `HealthyIsWell` is the invariant behind
the action property: each path to a lease ends with a node that is healthy, and no
step makes a node healthy and leaves it `sick`.

That one start leaves one mihomo is a statement about a start that is alone, so it
rests on the count of requests: with none begun every thread is idle, with one at
most one is not (`OneAtWork`), and what is alive is then known from its place
(`AliveKnown`): nothing before it spawns, nothing but its own process after, if the
clean-up did its work.

### SignUpProofs

`ServiceIsSafe` (`ServiceSafe`), `SsoIsKept` (`SsoOutlivesFailure`) and
`MailboxesAreShared` (`MailboxesShared`, an action property).

The service is proved by itself (`ServiceInv`, over the steps `ServiceNext`), and
`ServicePart` shows that every step of a registration is one of those or leaves
the service alone.  The difficulty is the gap between `_ensure_loop` and the
scheduling of a coroutine, in which a close may pass: `BrokersOK` (a published loop
runs until its broker is closed, and then only until the close stops it),
`ClosingOK` and `RequestsOK` (who is about to schedule has seen a loop published)
bridge it.  Slots are counted as sets of coroutines, so that each way to end
removes one.  The registrations rest on `SharedOK`: at each place a process has
what it needs and nothing it has lost (`Fits`), the lock has one holder, and the
pace is kept by who holds it: a create that was let through less than a spacing ago
is stamped, or its stamp could not be written (`recent => stamped \/ unstamped`), so
that the next one waits unless it cannot read the stamp.  That a rejected domain stays
rejected is proved of every step (`WhereTo`, `OwnStep`: only `Pick` takes a domain, from
the file it has read and writes).  `Fits` also says that a cookie in memory only
(`got = "sso"`) is at "release", "sso" or "account", and each way to end from there
passes through the attempt to write it.

### BatchRunnerProofs

`AccountsAlwaysBalance` (`AccountsBalance`), `BatchesStayWithinPlan` (`WithinPlan`),
`LaunchesAreAllowed` (`OnlyAllowedLaunches`, an action property) and `PlansAreDone`
(`DoneMeansPlanDone`, for every set of plans without sticky routes; with them the
code does lose an attempt, section 5).

`Books` is the balance that each step keeps: launches, ends and live workers, and
on the other side faults, with the failures that were not polled yet counted as
debts (`NumOwed`); without them a requeue would seem to make an end out of
nothing.  `Slot` says what a worker at each stage holds, `Lent` that the table of
the routes and the workers agree, in both directions.  `GateOK` says that in
count mode a window bad enough to trip the circuit keeps it open, and the pause
with it; `Ending` what has been done when the batch drains or is over.

### ServiceProofs: TickRace

`PollsStayWithinLimits` (`WithinLimits`), `TerminalCountsAreExact` (`CountedOnce`)
and `StopIsComplete` (`StopReachesAll`), for any number of polling threads.

A thread that has decided to create a worker, or that has found a process ended
whose worker another thread books meanwhile, makes a worker active later; so
slots are counted together with those threads (`Cap`), launches with those that
have not been counted yet (`Starts`), and what runs on after the stop with those
that are about to launch (`Reach`).  `Alone` is what a terminal adds: one thread
inside the runner.  The attempt to prove an earlier `StopReachesAll` failed for a
good reason: with three slots two workers can have one number, and TLC then
showed the process that the stop does not terminate (section 5).  The property
says now what the code gives, and `Shared` is its inductive part.

### ServiceProofs: MailSupervisor

`MasterIsSafe` (`MasterSafe`), `NobodyTwice` (`NeverRegisteredAgain`) and `OrderlyEnd`
(`EndsWithoutChildren`), the latter two action properties, all from
`SupervisorInvariant`, for any list of addresses and any number of processes.

`DrainInv` has a part that always holds and one that holds until a process has
outlived its supervisor (`orphaned`).  Always: own processes run in an epoch only
(`OwnInEpoch`), which is what `OrderlyEnd` needs of a supervisor that ends
between epochs (`EndsBetween`); and the work file, the ledger and the processes know
planned addresses only (`PlannedOnly`), so that a row of the operator's is new.

Without orphans (`Undisturbed`) the question is what three files say between two writes.
A token that is `stored` is the newest in some file whatever happens next; one that is
issued and not stored is in the hand of a process at "persist", or its address is in
`dropped`: only `Rotate` makes the difference, only a kill or `PersistFails` puts an
address there (`RowsNewest`, `Unwritten`).  `Rewritten`: while the work file is being
rebuilt the master and the records in memory have the newest tokens, and while the
ledger is being emptied the master has, and the work file has them or nothing.  Emptying
the ledger, in which rotated tokens are found first, therefore loses none, and no
process is there to rotate meanwhile.  `HeldOnce`: an address in hand is in the ledger,
has no result and has one process; `OnlyNew`: what the rebuilt work file offers has no
result, and what it offers and the ledger does not list still has none when a process
claims it.  `OnlyClaims` shows that no other step gives a process an address.  A kill of
the supervisor with running processes sets `orphaned`; one without leaves no orphan, and
the next `Boot` finds all of it as it was.

### LocalSolveProofs

`ChromesStaySafe` (`ChromesSafe`), `PagesAreLeftInTime` (`PageRules`) and
`RunningIsSpared` (`CleanupSparesRunning`, an action property), for any number of
captures, processes and slots, every site and every length of rounds.

`Keeping` says what a capture holds where it is: a slot from "prepare" to "finish", no
profile before "launch", no Chrome before "connect", and none from "finish" on but an
orphan; when it is over no profile but a lost one; and a row only after it has been
registered, never for an orphan.  A Chrome in use therefore has a slot, and the limit
follows from the cardinality of `holders`, which only `TakeSlot` raises.  The page rules
rest on `Watched`: of a loop on a page, that the next diagnosis is less than a round
away or due (`w.t < w.toDiag + LongestRound`), that a page which is not waited for has
been of no use no longer than since the last diagnosis, that a challenge is waited for
from the diagnosis that saw it first, and that a second click would come after the time
in which the loop clicks (`Cautious`).  Whatever the site, an injection or a nudge does
to a page `Eases` it: it can only take back that the page is of no use, never add to it;
`Stepping` and `Ending` show from there that each action keeps `Watched`.

`RunningIsSpared` is about the time that passes in a sweep.  It removes rows and
directories of what it has read and killed long before, and a capture might have
launched in between.  `Swept` is the invariant of it: what was named when the sweep
read the registry has been launched already, and what the sweep has looked for and
killed does not run when it comes to remove.  It holds because of `Onward`, proved of
every step: a capture does not go back to a place before its launch, and a Chrome
starts from there only.  What was launched and registered meanwhile is not among the
rows the sweep has read, and is spared by the identity check of the code.
`SparesStep` combines both with `Keeping`; what remains are the two exceptions the
statement names: a capture that gives up its own orphan, and the last pass over old
directories (`SweepTemp`), which takes what no row named.

### Only model-checked

The liveness properties, which are out of the prover's reach: `AcquireSettles`,
`RunsEnd`, `IdleRunRefills`, `EveryAddressGetsItsTurn`, `EveryCallEnds`,
`CloseLeavesNoBrowser`, `EverythingEnds`, `SolvesEnd`, `FlowEnds` and
`ProxyComesBack`.  They hold on the instances of the runs, under the fairness of
section 3.

## 5. Where the code and its documentation differ

Met while modelling, and shown by earlier versions of the runs, by states the
runs reach, or by reading.  The models have the code's behaviour; a property
that a listed behaviour would break says so in its statement.

### Batches

- `_evaluate_proxy_health` (B:2838) pauses launches until a node is healthy.  Nodes
  become healthy only by a probe made when a worker acquires one
  (`embedded_proxy_manager.py:841`), or for the operator; `revive_cooled_nodes`
  (724-747) only makes them ready for such a probe.  When every worker has ended and
  all nodes have failed, a batch without a manual pool waits for ever, although
  B:2789 says "auto-resume when healthy nodes return".  The batch is `Stranded` then,
  which `RunsEnd` and `IdleRunRefills` except.
- With no worker running, the outcome window cannot change, so each expiry of the
  circuit pause re-reads the same failures (B:2881) and pauses again; B:2688 says
  timed pauses "still auto-clear after seconds".  Stall recovery rescues
  continuous batches only (`RunsEnd` excepts an open circuit).
- Once all tasks are started the phase is `draining` and `_should_refill` is
  false, so the replacement announced at B:3319 for a requeued sticky attempt
  (B:3324) is not launched.
- `started_tasks` is raised after `Popen` returns (B:3608): overlapping polls
  launch one task each more than the fixed count that
  `docs/superpowers/specs/2026-07-12-continuous-run-mode-design.md:233` promises;
  a poll past its refill test launches after the terminate loop of `stop` (B:3806)
  has run, against line 232 there.  `TickRace` bounds both.
- Overlapping polls may also give two workers one number (3597-3599).  The end of a
  conversion is booked under the number (B:3655), so that with three slots it may
  end the other worker, whose process runs on as "succeeded" and is not terminated
  by a stop.  `StopReachesAll` speaks of such workers in its second part.
- `stop` on a runner that was refused only sets its phase.

### Embedded proxy

- The same wait, seen from the nodes: `PoolRecovers` has the lifting of the pause of
  the batch as a premise.
- A forced start has no test for a running batch; elsewhere the test and the
  act of reload and stop are two steps.  Starts that overlap kill each other's
  process or leave one behind (`NothingLeftOver` is about a start alone).
- The clean-up of a start does nothing without `/proc`
  (`embedded_proxy_manager.py:973`) and only logs its errors (1017): a mihomo of an
  earlier console may then hold the ports.  `NothingLeftOver` excepts it.
- `_running` stays true after mihomo has died; `fail_count` is never reset; a probe
  begun before a failure was reported clears its cooldown (1187).

### Mailboxes

- The row of a rejected domain goes back to the *front* of the pool and is
  reserved again (X:4536), where X:4535 announces "a new temporary mailbox
  address".
- A submit that raises after xAI has accepted gives the row back (X:4722), where
  X:4731 says it must remain consumed.
- `server_mail_supervisor.py:352-353` takes the newest token from the ledger, but a
  process of a killed supervisor that rotates between a reconciliation and the
  rebuild loses its token (`TokensKept` excepts orphans).  A process that is killed
  between the answer of the mail service (X:3966) and the write (X:3968), or that does
  not get the lock there, loses the newest token without any orphan: what the mailbox
  still accepts is in no file (`dropped`).  A newer token that the
  operator appends to the master is overridden by an older work or used row
  (139-141).
- The retry of a Cloudflare mailbox always uses the first domain, and marks it
  rejected in the YYDS file.
- An `OSError` of the stamp file is swallowed when it is written (X:3212-3217) and
  read as no stamp (3204): no pace.  A rotation file that cannot be read is an empty
  one (3312) and is written back so; after 500 rejected domains no more are kept
  (3327).  `PacedCreates` and `RejectedAvoided` except these.

### Registration and solver service

- The TLS fallback of `_request` (X:1947-1988) sends the registration again.
- When OAuth fails after acceptance, the password and account row are lost and the
  SSO cookie is kept; when the cookie setter fails, nothing is kept, nor when the
  record of the cookie cannot be written or there is no output directory (X:4736).
- A thread that asks for the broker after `close_shared_brokers` makes a new one
  that nobody closes.  A second interrupt closes the service under running
  requests, which is why `CloseService` is not guarded.
- A lost answer to a permit or a lease leaves the permit to its expiry and the
  token unused.

### Local solve

- The periodic clean-up kills the browsers of live captures, where its docstring
  (B:1917) speaks of orphans.  A capture whose Chrome is gone loops until its
  deadline and keeps its slot.
- A launch that raises may leave a Chrome without a registry row until a sweep; one
  longer than 30 s may lose its profile to the sweep of old directories.
- When the browser options raise after they have made the profile (X:5101-5116), the
  clean-up is not told of it (5989) and the directory stays until a sweep of old ones.
  `rmtree` is asked to ignore errors (5868).  These are the `lost` profiles of
  `NothingLeftBehind`.
- When the registry cannot be read the sweep of old directories protects none
  (`project_browser_registry.py:399-403`), those of Chromes that run included.
- The time-out of a solve leaves its thread running while the broker's slot is
  returned; an injected widget hides a challenge or an e-mail dead end from the
  diagnosis, and an error is seen of an injected widget with code 300 or 600 only (X:5703,
  6220); `_kill_orphan_turnstile_solvers` at the start of a batch kills the
  shared broker of another.

### OAuth sign-in

- `xai_oauth.py:2039` says "no widget: allow login (rare)"; the second look
  (2246-2269) aborts such a click.  It also clicks when an error and a left-over
  success are both shown, against the comment at 2042.
- `password_filled_once` is not reset when the site loads the form again; the
  throttle of soft resets is cleared by the reset itself; `pageHit` is unused, so
  that any 40 characters on a page are a code; a callback without a state is
  accepted; an error callback without a code is noticed at the deadline only.

### Credential files

- Two exports within one second write one file name
  (`grok+%Y%m%d%H%M%S.txt`): the first page is lost, although B:4347 promises a
  "Safety order".  A json re-created while an older export of that account is about
  to delete it is deleted unexported.  Both are the exceptions named in `excused`.
- An export during a conversion makes its second look at the file fail: the
  conversion counts as failed and is tried again.
- An automatic push of a re-issued credential is always skipped as a duplicate,
  and a slow manual push may put an older token over a newer one in CPA.

### Configuration

- Requests copy, change and write the whole configuration without a lock.  Those
  that fetch a subscription in between (B:5830 to 5937, 6240 to 6265) write back what
  they read before the fetch: a setting saved meanwhile is lost.

### Browser pool

`BrowserPool` closes a browser after its slot has left the table
(`TS/browser_runtime.py:972`), so that for the duration of a quit more Chrome
processes than `max_concurrency` are alive; what is bounded is the table and the
starts (`CapacityKept`).  `_acquire` looks at the deadline only when it would wait,
so a request that keeps evicting slots others take may overrun it.
`consecutive_failures` of a slot also grows when a request gave up before using
it (1058-1067).  A `Chromium()` that raises after its Chrome was spawned (640) leaves a
Chrome that `close` does not know of (786-802); the properties are about those the
pool was given.

## 6. Plan

Done: the scheduler and its threads, the submit gate, the imported mailbox pool
and its supervisor, the registration with its mailboxes and the solver service,
the browser pool, the local solve, the OAuth sign-in, the embedded proxy, the
credential files; proofs of the safety properties of all of these and of the
refinements of the gate, the ledger and the fleet.

Left, in this order:

1. The refinement of `MailPool` by the child processes of `MailSupervisor`, whose
   transactions are single steps there, and of a lease table by `EmbeddedProxy`,
   which `BatchRunner` assumes.
2. A model of the configuration with its lost updates, and the jobs of the
   credential inspector.

## 7. Not modelled, and why

- *Browser worker* (`TS/browser_worker.py`): `solve_on_page` is what one attempt of
  `BrowserPool` does on its page; its outcomes are choices there (`AttemptEnds`), and
  its page loop is a simpler relative of the one in `TurnstilePage`.
  `BrowserWorker.solve` and `_capture_with_browser` have no caller in `src/`.
- *Credential inspector* (`cpa_inspector/`): a job table under one lock and
  sequential file and HTTP work.  Its test for a running job and the creation of
  one are two steps, so that two requests can start two jobs of a kind (a hazard
  without a property).
- *Proxy subscriptions*: parsing of external formats.
- *Terminal front ends*: display and menus around `BatchRunner`.
- *Configuration and paths*: reading, clamping and writing of settings; their
  bounds are constants of the models, and the unlocked writes are in section 5.
- In the modelled parts: request formats of xAI, OAuth, mail services and solvers,
  page scripts and selectors, log lines and their classification, statistics, the
  byte relay of the forwarder, the configuration file of mihomo, weights and
  time-to-live of pool entries (nothing in `src/` sets the latter), token formats of
  the converter.  Where a modelled part depends on one, its outcomes appear as
  choices of the environment: an attempt ends well, with a retryable failure or
  with one that asks for a new browser; a token is refreshed, rotated or dead; a
  submit is answered, lost or rejected; a page shows one of the kinds the code
  tells apart.
- A profile directory that cannot even be made (X:5004-5022): Chrome then runs in its
  default directory, without the marker the sweeps look for.  The 30 seconds for which
  a sweep leaves a directory alone are in `SweepTemp` a choice of which ones are old.
- Between the second look of the OAuth driver at the widget and its click
  (`xai_oauth.py:2247-2271`), and a probe of it that raises and so looks like no widget
  (`turnstile_flow.py:188-193`): see `XaiOAuth` in section 2.
- The probe of mailboxes against a worker on the same row (X:3924): both tokens are
  issued by the mail service, and which of them stays valid is not known.
