------------------------------ MODULE MailPool ------------------------------
(***************************************************************************)
(* The imported mailbox pool and the registration processes that draw from *)
(* it (xai_http_flow.py: MicrosoftGraphMailbox, _run_registration_impl,    *)
(* run_registration).  Two files under one cross-process lock hold the     *)
(* rows: the pool and the ledger of used rows beside it.  No write covers  *)
(* both, so a reservation writes the ledger and then the pool, a return    *)
(* writes the pool and then the ledger, and a process may be killed, or a  *)
(* write may fail, between the two.  The ledger decides: a row that is in  *)
(* both files is not available.                                            *)
(*                                                                         *)
(* A refresh token is its version; versions are issued by the mail service *)
(* and each is newer than those before it.                                 *)
(***************************************************************************)
EXTENDS Naturals, FiniteSets

CONSTANTS
  Emails,       \* the imported addresses
  Workers,      \* registration processes, which consume what they reserve
  Probers,      \* mail-probe processes without --mark-used
  TokenTries,   \* addresses one create() may try: 32 in the code
  DomainTries,  \* addresses one registration may try on rejection: 5
  MaxToken,     \* bound: versions of a refresh token
  MaxFaults,    \* bound: file writes that fail
  Free, Spent, None

Procs == Workers \cup Probers
Tokens == 0 .. MaxToken
Tries == 0 .. TokenTries - 1
Domains == 0 .. DomainTries - 1

ASSUME MailAssumption ==
  /\ Workers \cap Probers = {}
  /\ TokenTries \in Nat \ {0} /\ DomainTries \in Nat \ {0}
  /\ MaxToken \in Nat /\ MaxFaults \in Nat
  /\ None \notin Emails \cup Procs \cup Nat
  /\ Free \notin Procs /\ Spent \notin Procs /\ Free # Spent

VARIABLES
  pool,      \* the token in the pool file's row of an address, if any
  ahead,     \* <<a, b>>: a's row comes before b's in the pool file
  used,      \* the token in the ledger's row of an address, if any
  lock,      \* the process inside the lock between its two writes
  proc,      \* each process: where it is and what it holds
  issued,    \* the newest token version of each address
  accounts,  \* addresses xAI has an account for
  saved,     \* addresses whose SSO record is in the output directory
  faults

files == <<pool, ahead, used>>
vars == <<pool, ahead, used, lock, proc, issued, accounts, saved, faults>>

\* "claim": about to reserve; "source": in the ledger, still in the pool;
\* "ledger": back in the pool, still in the ledger.
Stage == {"idle", "claim", "source", "token", "persist", "request", "wait",
          "commit", "artifacts", "release", "ledger"}

Proc == [at : Stage,
         box : Emails \cup {None},     \* self.account
         token : Tokens,               \* a token just issued, to persist
         owned : BOOLEAN,              \* _claimed_for_return
         tries : Tries,
         domains : Domains,
         then : {"request", "wait"},   \* where a token refresh returns to
         why : {"failed", "domain"}]   \* the reason of a release

Fresh == [at |-> "idle", box |-> None, token |-> 0, owned |-> FALSE,
          tries |-> 0, domains |-> 0, then |-> "request", why |-> "failed"]

TypeOK ==
  /\ pool \in [Emails -> Tokens \cup {None}]
  /\ ahead \in SUBSET (Emails \X Emails)
  /\ used \in [Emails -> Tokens \cup {None}]
  /\ lock \in Workers \cup {None}
  /\ proc \in [Procs -> Proc]
  /\ issued \in [Emails -> Tokens]
  /\ accounts \in SUBSET Emails
  /\ saved \in SUBSET Emails
  /\ faults \in 0 .. MaxFaults

\* The pool file may list the addresses in any order.
Init ==
  /\ pool = [e \in Emails |-> 0]
  /\ ahead \in {r \in SUBSET (Emails \X Emails) :
                  \A a, b, c \in Emails :
                    /\ <<a, b>> \in r <=> a # b /\ <<b, a>> \notin r
                    /\ <<a, b>> \in r /\ <<b, c>> \in r => <<a, c>> \in r \/ a = c}
  /\ used = [e \in Emails |-> None]
  /\ lock = None
  /\ proc = [p \in Procs |-> Fresh]
  /\ issued = [e \in Emails |-> 0]
  /\ accounts = {}
  /\ saved = {}
  /\ faults = 0

-----------------------------------------------------------------------------
At(p, stage) == proc[p].at = stage
Box(p) == proc[p].box
Goto(p, stage) == proc' = [proc EXCEPT ![p].at = stage]

\* Where an exception takes a process: run_registration catches it and
\* releases; a probe without --mark-used has nothing to release.
Unwound(p) ==
  IF p \in Probers THEN Fresh
  ELSE [proc[p] EXCEPT !.at = "release", !.why = "failed", !.token = 0,
                       !.then = "request"]

Raise(p) == proc' = [proc EXCEPT ![p] = Unwound(p)]

WriteFails == faults < MaxFaults /\ faults' = faults + 1

\* Another process has the lock for longer than lock_timeout.
LockTimesOut == lock # None /\ UNCHANGED faults

\* Mutant of Claimable: the ledger is not consulted.
ClaimableListed(p) == {e \in Emails : pool[e] # None}

\* _claim_account_locked skips the rows the ledger lists, a probe does not.
Claimable(p) ==
  {e \in Emails : pool[e] # None /\ (p \in Workers => used[e] = None)}

FirstOf(p, e) ==
  e \in Claimable(p) /\ \A x \in Claimable(p) \ {e} : <<e, x>> \in ahead

Start(p) ==
  /\ At(p, "idle")
  /\ proc' = [proc EXCEPT ![p] = [Fresh EXCEPT !.at = "claim"]]
  /\ UNCHANGED <<files, lock, issued, accounts, saved, faults>>

\* First write of a reservation: the ledger gets the row.
ClaimLedger(w, e) ==
  /\ At(w, "claim")
  /\ lock = None
  /\ FirstOf(w, e)
  /\ used' = [used EXCEPT ![e] = pool[e]]
  /\ lock' = w
  /\ proc' = [proc EXCEPT ![w].at = "source", ![w].box = e, ![w].owned = TRUE]
  /\ UNCHANGED <<pool, ahead, issued, accounts, saved, faults>>

\* Second write: the pool without every row the ledger lists.  When it fails
\* the reservation stands all the same.
ClaimSource(w) ==
  /\ At(w, "source")
  /\ \/ /\ pool' = [e \in Emails |-> IF used[e] = None THEN pool[e] ELSE None]
        /\ UNCHANGED faults
     \/ WriteFails /\ UNCHANGED pool
  /\ lock' = None
  /\ Goto(w, "token")
  /\ UNCHANGED <<ahead, used, issued, accounts, saved>>

\* A probe starts, reads the first row under the lock and writes nothing.
ClaimProbe(p, e) ==
  /\ At(p, "idle")
  /\ lock = None
  /\ FirstOf(p, e)
  /\ proc' = [proc EXCEPT ![p].at = "token", ![p].box = e]
  /\ UNCHANGED <<files, lock, issued, accounts, saved, faults>>

\* No row left, the lock not obtained, or the ledger not written.
ClaimFails(p) ==
  /\ At(p, "claim")
  /\ \/ lock = None /\ Claimable(p) = {} /\ UNCHANGED faults
     \/ LockTimesOut
     \/ lock = None /\ Claimable(p) # {} /\ WriteFails
  /\ Raise(p)
  /\ UNCHANGED <<files, lock, issued, accounts, saved>>

-----------------------------------------------------------------------------
(* create: refresh the token of the reserved address.                      *)

\* Mutant of Discard: one address too many.
DiscardOneMore(p) ==
  IF p \in Probers THEN Fresh
  ELSE [Fresh EXCEPT !.at = "claim", !.tries = proc[p].tries + 1,
                     !.domains = proc[p].domains]

\* The address's token is refused: a worker keeps the row in the ledger and
\* reserves another address, TokenTries in all; a probe gives up.
Discard(p) ==
  IF p \in Probers THEN Fresh
  ELSE IF proc[p].tries + 1 < TokenTries
    THEN [Fresh EXCEPT !.at = "claim", !.tries = proc[p].tries + 1,
                       !.domains = proc[p].domains]
    ELSE [Fresh EXCEPT !.at = "release"]

TokenDead(p) ==
  /\ At(p, "token")
  /\ proc' = [proc EXCEPT ![p] = Discard(p)]
  /\ UNCHANGED <<files, lock, issued, accounts, saved, faults>>

\* The service answers with an access token and the same refresh token; a
\* probe then lists the inbox and ends.
TokenAnswered(p) ==
  /\ At(p, "token")
  /\ proc' = [proc EXCEPT ![p] =
       IF p \in Probers THEN Fresh
       ELSE [@ EXCEPT !.at = "request", !.tries = 0]]
  /\ UNCHANGED <<files, lock, issued, accounts, saved, faults>>

\* The service answers with a new refresh token, in create or, when the
\* access token has expired, while the code is awaited.
TokenRotated(p) ==
  /\ proc[p].at \in {"token", "wait"}
  /\ issued[Box(p)] < MaxToken
  /\ issued' = [issued EXCEPT ![Box(p)] = @ + 1]
  /\ proc' = [proc EXCEPT
       ![p].at = "persist",
       ![p].token = issued[Box(p)] + 1,
       ![p].then = IF At(p, "wait") THEN "wait" ELSE "request"]
  /\ UNCHANGED <<files, lock, accounts, saved, faults>>

\* _update_account_record: the file that owns the row takes the new token.
\* (A row in neither file is an error; RowsKept says that there is none.)
Persist(p) ==
  /\ At(p, "persist")
  /\ lock = None
  /\ LET e == Box(p) IN
       IF used[e] # None
         THEN used' = [used EXCEPT ![e] = proc[p].token] /\ UNCHANGED pool
         ELSE /\ pool[e] # None
              /\ pool' = [pool EXCEPT ![e] = proc[p].token]
              /\ UNCHANGED used
  /\ proc' = [proc EXCEPT ![p] =
       IF p \in Probers THEN Fresh
       ELSE [@ EXCEPT !.at = proc[p].then, !.then = "request", !.tries = 0,
                         !.token = 0]]
  /\ UNCHANGED <<ahead, lock, issued, accounts, saved, faults>>

\* The new token is not persisted: in create that is a token failure; while
\* the code is awaited the poll is repeated, or the registration fails.
PersistFails(p) ==
  /\ At(p, "persist")
  /\ LockTimesOut \/ (lock = None /\ WriteFails)
  /\ \/ /\ proc[p].then = "request"
        /\ proc' = [proc EXCEPT ![p] = Discard(p)]
     \/ /\ proc[p].then = "wait"
        /\ proc' = [proc EXCEPT ![p].at = "wait", ![p].then = "request",
                                ![p].token = 0]
     \/ proc[p].then = "wait" /\ Raise(p)
  /\ UNCHANGED <<files, lock, issued, accounts, saved>>

-----------------------------------------------------------------------------
(* The registration.                                                       *)

\* xAI sends the code to the address.
CodeRequested(w) ==
  /\ At(w, "request")
  /\ proc' = [proc EXCEPT ![w].at = "wait", ![w].domains = 0]
  /\ UNCHANGED <<files, lock, issued, accounts, saved, faults>>

\* xAI refuses the address's domain: release it and create again, DomainTries
\* times in all.
Rejected(w) ==
  IF proc[w].domains + 1 < DomainTries
    THEN [proc[w] EXCEPT !.at = "release", !.why = "domain", !.domains = @ + 1]
    ELSE [proc[w] EXCEPT !.at = "release", !.why = "failed"]

DomainRejected(w) ==
  /\ At(w, "request")
  /\ proc' = [proc EXCEPT ![w] = Rejected(w)]
  /\ UNCHANGED <<files, lock, issued, accounts, saved, faults>>

\* The code arrives and is verified, a Turnstile token and a submit permit are
\* obtained, and xAI creates the account, at most one per address.  Its answer
\* may be lost, or the session cookies not be obtained (submit_registration).
Submitted(w) ==
  /\ At(w, "wait")
  /\ Box(w) \notin accounts
  /\ accounts' = accounts \cup {Box(w)}
  /\ Goto(w, "commit") \/ Raise(w)
  /\ UNCHANGED <<files, lock, issued, saved, faults>>

\* Mutant of Commit: left to the end of run_registration.
CommitLate(w) ==
  /\ At(w, "commit")
  /\ Goto(w, "artifacts")
  /\ UNCHANGED <<files, lock, issued, accounts, saved, faults>>

\* lifecycle.commit, then commit_success: the row is no longer to be returned.
Commit(w) ==
  /\ At(w, "commit")
  /\ proc' = [proc EXCEPT ![w].at = "artifacts", ![w].owned = FALSE]
  /\ UNCHANGED <<files, lock, issued, accounts, saved, faults>>

\* The SSO record is saved, then the credential, the account and the
\* registration record; one of these writes may fail.
SaveArtifacts(w) ==
  /\ At(w, "artifacts")
  /\ saved' = saved \cup {Box(w)}
  /\ proc' = [proc EXCEPT ![w] = Fresh] \/ Raise(w)
  /\ UNCHANGED <<files, lock, issued, accounts, faults>>

\* Any request, wait, solve or local write of the flow may fail.
FlowFails(p) ==
  /\ proc[p].at \in {"token", "request", "wait", "artifacts"}
  /\ Raise(p)
  /\ UNCHANGED <<files, lock, issued, accounts, saved, faults>>

-----------------------------------------------------------------------------
(* release_to_pool *)

\* Mutant of Returnable: whatever address the process has is returned.
ReturnableAnyway(w) == Box(w) # None

Returnable(w) == proc[w].owned /\ Box(w) # None

\* After a release: create again for a rejected domain, else the process ends.
Released(w) ==
  IF proc[w].why = "domain"
    THEN [proc[w] EXCEPT !.at = "claim", !.owned = FALSE, !.tries = 0,
                         !.why = "failed"]
    ELSE Fresh

NothingToReturn(w) ==
  /\ At(w, "release")
  /\ ~Returnable(w)
  /\ proc' = [proc EXCEPT ![w] = Released(w)]
  /\ UNCHANGED <<files, lock, issued, accounts, saved, faults>>

\* Mutant of ReturnedToken: a row left in the pool file is put back as it is.
ReturnedTokenStale(w) ==
  IF pool[Box(w)] # None THEN pool[Box(w)] ELSE used[Box(w)]

\* The row published is the ledger's, whose token is the newest persisted.
\* (The code has a fallback for a row missing there; OwnedInLedger says that
\* a reserved row never is.)
ReturnedToken(w) == used[Box(w)]

\* Mutant of ReturnRow: the ledger is rewritten before the pool file.
ReturnRowLedgerFirst(w) ==
  /\ At(w, "release")
  /\ Returnable(w)
  /\ lock = None
  /\ used' = [used EXCEPT ![Box(w)] = None]
  /\ lock' = w
  /\ Goto(w, "ledger")
  /\ UNCHANGED <<pool, ahead, issued, accounts, saved, faults>>

\* First write of a return: the row becomes the pool file's first.
ReturnRow(w) ==
  /\ At(w, "release")
  /\ Returnable(w)
  /\ lock = None
  /\ LET e == Box(w) IN
       /\ pool' = [pool EXCEPT ![e] = ReturnedToken(w)]
       /\ ahead' = {r \in ahead : r[2] # e} \cup ({e} \X (Emails \ {e}))
  /\ lock' = w
  /\ Goto(w, "ledger")
  /\ UNCHANGED <<used, issued, accounts, saved, faults>>

\* Second write: the ledger without the row.
DropLedger(w) ==
  /\ At(w, "ledger")
  /\ used' = [used EXCEPT ![Box(w)] = None]
  /\ lock' = None
  /\ proc' = [proc EXCEPT ![w] = Released(w)]
  /\ UNCHANGED <<pool, ahead, issued, accounts, saved, faults>>

\* A return that raises: on a rejected domain run_registration releases once
\* more, otherwise the error is swallowed and the row stays in the ledger.
Unreturned(w) ==
  IF proc[w].why = "domain"
    THEN [proc[w] EXCEPT !.at = "release", !.why = "failed"] ELSE Fresh

ReturnFails(w) ==
  /\ \/ At(w, "release") /\ Returnable(w) /\ LockTimesOut /\ UNCHANGED lock
     \/ At(w, "release") /\ Returnable(w) /\ lock = None /\ WriteFails
                         /\ UNCHANGED lock
     \/ At(w, "ledger") /\ WriteFails /\ lock' = None
  /\ proc' = [proc EXCEPT ![w] = Unreturned(w)]
  /\ UNCHANGED <<files, issued, accounts, saved>>

\* The batch stops its workers with SIGTERM, which no handler turns into an
\* exception; the lock of a dead process is free.
Killed(p) ==
  /\ ~At(p, "idle")
  /\ proc' = [proc EXCEPT ![p] = Fresh]
  /\ lock' = IF lock = p THEN None ELSE lock
  /\ UNCHANGED <<files, issued, accounts, saved, faults>>

-----------------------------------------------------------------------------
\* What both kinds of process do.
Refresh(p) == \/ TokenDead(p) \/ TokenAnswered(p) \/ TokenRotated(p)
              \/ Persist(p) \/ PersistFails(p) \/ FlowFails(p) \/ Killed(p)

Reservation(w) == \/ Start(w)
                  \/ \E e \in Emails : ClaimLedger(w, e)
                  \/ ClaimSource(w) \/ ClaimFails(w)
                  \/ NothingToReturn(w) \/ ReturnRow(w) \/ DropLedger(w)
                  \/ ReturnFails(w)

Register(w) == \/ CodeRequested(w) \/ DomainRejected(w) \/ Submitted(w)
               \/ Commit(w) \/ SaveArtifacts(w)

Next == \/ \E p \in Procs : Refresh(p)
        \/ \E w \in Workers : Reservation(w) \/ Register(w)
        \/ \E p \in Probers, e \in Emails : ClaimProbe(p, e)

Spec == Init /\ [][Next]_vars

-----------------------------------------------------------------------------
(* Properties *)

Using == {"source", "token", "persist", "request", "wait", "commit",
          "artifacts"}

\* The process works with the address, or owes its return.
Holds(w, e) ==
  Box(w) = e /\ (proc[w].at \in Using \/ (proc[w].at # "idle" /\ proc[w].owned))

\* The row of an address in use is in the ledger.
OwnedInLedger == \A w \in Workers, e \in Emails : Holds(w, e) => used[e] # None

\* No two registration processes ever work with the same address, whatever
\* killed process or failed write left a row in both files
\* (_claim_account_locked: the durable ledger wins).
Exclusive ==
  \A w, x \in Workers, e \in Emails : Holds(w, e) /\ Holds(x, e) => w = x

\* No imported row is ever missing from both files, neither between the two
\* writes of a transaction nor after a kill or a failed write there.
RowsKept == \A e \in Emails : pool[e] # None \/ used[e] # None

\* An address whose SSO record was saved is never available again: the commit
\* precedes every local write that may fail (_run_registration_impl).
SavedStaysSpent == \A e \in saved : used[e] # None

\* The token the next holder of an address would be given.
Stored(e) == IF used[e] # None THEN used[e] ELSE pool[e]

\* Only _update_account_record changes the token an address is stored with,
\* and to the one its process was just issued: a reservation, a return, or a
\* crash or failed write within them never brings an older row back.
TokensOnlyRotate ==
  [][\A e \in Emails :
       Stored(e)' # Stored(e)
         => \E p \in Procs : /\ At(p, "persist") /\ ~At(p, "persist")'
                             /\ Box(p) = e
                             /\ Stored(e)' = proc[p].token]_vars

\* The pool keeps the promise of MailLedger.
Status == [e \in Emails |->
  IF used[e] = None THEN Free
  ELSE IF \E w \in Workers : Holds(w, e)
    THEN CHOOSE w \in Workers : Holds(w, e) ELSE Spent]

Ledger == INSTANCE MailLedger WITH status <- Status
LedgerImplemented == Ledger!Spec

\* What the two files and the processes keep after every step, kill and failed
\* write: one user of an address, no row lost, a saved address spent.
RowsSafe ==
  /\ TypeOK
  /\ Exclusive
  /\ OwnedInLedger
  /\ RowsKept
  /\ SavedStaysSpent
=============================================================================
