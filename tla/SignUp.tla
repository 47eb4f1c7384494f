------------------------------- MODULE SignUp -------------------------------
(***************************************************************************)
(* The registration processes of a batch that share a solver service: each *)
(* makes a temporary mailbox, asks xAI for the code, has a Turnstile token *)
(* solved, and submits the registration under a submit permit              *)
(* (run_registration, xai_http_flow.py).  They meet in the file lock that  *)
(* paces the making of mailboxes, in the round-robin state of the domains, *)
(* and in the service, which may close under them.  Any of them may be     *)
(* killed at any time: the batch stops its workers with terminate().       *)
(*                                                                         *)
(* The permits are those of PermitGate, which SubmitPermits implements.    *)
(***************************************************************************)
EXTENDS SolverService, Sequences

CONSTANTS
  Processes,
  Domains,      \* the mail domains the provider offers, in its order
  Cycle,        \* every number of domains divides it: index is kept modulo Cycle
  SubmitWorkers,
  RejectLimit,  \* 500 in the code: rejected domains that are kept
  MaxUnread,    \* bound: state files that cannot be read
  CreateTries,  \* 5 in the code: requests for one mailbox
  MintTries,    \* 5 in the code: mailboxes for one registration
  SolveTries    \* turnstile_solve_retries

ASSUME SignUpAssumption ==
  /\ IsFiniteSet(Processes) /\ Domains \in Seq(STRING) /\ Domains # <<>>
  /\ {SubmitWorkers, CreateTries, MintTries, SolveTries, Cycle} \subseteq Nat \ {0}
  /\ {RejectLimit, MaxUnread} \subseteq Nat
  /\ \A n \in 1 .. Len(Domains) : Cycle % n = 0

VARIABLES
  process,   \* where each registration is and what it has in hand
  guard,     \* the process that holds the lock of _yyds_create_guard
  stamped,   \* last_create_at is younger than the spacing
  recent,    \* a create was let through less than a spacing ago
  unstamped, \* the last one of these could not write its stamp
  rotation,  \* the domain round-robin file: index and rejected domains
  unread,    \* how often one of the two files could not be read
  holding, spent, shut   \* the submit permits, see PermitGate

pace == <<stamped, recent, unstamped>>
clientVars == <<process, guard, pace, rotation, unread>>
gateVars == <<holding, spent, shut>>
vars == <<serviceVars, clientVars, gateVars>>

Gate == INSTANCE PermitGate WITH Permits <- Processes, Workers <- SubmitWorkers

None == "none"
DomainSet == {Domains[i] : i \in 1 .. Len(Domains)}
NoRequest == 0

\* Where a registration is; "over" when its process has ended, in any way.
Place == {"sign in", "login", "create", "pick", "guard", "pace", "post", "closed domain", "open", "ask", "refused domain",
          "code", "verify", "solve", "solving", "permit", "consume", "submit", "cookies",
          "release", "sso", "oauth", "account", "over"}

\* got: the sso cookie of the new account, in memory only or on disk as well;
\* "unwritten" when a write of it has failed.
Process ==
  [at : Place, domain : DomainSet \cup {None}, used : SUBSET DomainSet,
   creates : 0 .. CreateTries, mints : 0 .. MintTries, solves : 0 .. SolveTries,
   request : Calls \cup {NoRequest}, got : {"nothing", "sso", "saved", "unwritten"}]

Start == [at |-> "pick", domain |-> None, used |-> {}, creates |-> 0, mints |-> 1,
          solves |-> 0, request |-> NoRequest, got |-> "nothing"]

\* --email and --email-code: no mailbox is made.
Given == [Start EXCEPT !.at = "open", !.mints = 0]

\* email_provider "cloudflare": another mailbox service, one domain, no pace.
Cloudflare == [Start EXCEPT !.at = "create"]

\* The "credential" command: the account is there already.
Credential == [Start EXCEPT !.at = "sign in"]

\* The round-robin file that is not there, or is read as if it were not.
NewFile == [index |-> 0, rejected |-> {}]

TypeOK ==
  /\ ServiceTypeOK
  /\ process \in [Processes -> Process]
  /\ guard \in Processes \cup {None}
  /\ {stamped, recent, unstamped, shut} \subseteq BOOLEAN /\ unread \in 0 .. MaxUnread
  /\ rotation \in [index : 0 .. Cycle - 1, rejected : SUBSET DomainSet]
  /\ holding \cup spent \subseteq Processes

Init ==
  /\ ServiceInit /\ Gate!Init
  /\ process \in [Processes -> {Start, Given, Cloudflare, Credential}]
  /\ guard = None /\ stamped = FALSE /\ recent = FALSE /\ unstamped = FALSE
  /\ rotation = NewFile /\ unread = 0

In(p, where) == process[p].at = where
To(p, where) == process' = [process EXCEPT ![p].at = where]

\* An exception out of _run_registration_impl: of what the process knows
\* only an sso cookie in its memory still matters.
Over(q, end) == [Start EXCEPT !.at = end, !.got = IF q.got = "sso" THEN "sso" ELSE "nothing"]
Fail(p) == process' = [process EXCEPT ![p] = Over(@, "over")]

SharedUnchanged == UNCHANGED <<guard, pace, rotation, unread>>
Alone == SharedUnchanged /\ UNCHANGED <<serviceVars, gateVars>>

-----------------------------------------------------------------------------
(* The mailbox: YydsTempMailbox.create *)

\* The places of the domains that were not tried yet, or all of them.
Unused(used) == LET left == {i \in DOMAIN Domains : Domains[i] \notin used}
                IN IF left = {} THEN DOMAIN Domains ELSE left

\* Without those that the file f rejects, unless none is left then.
Pool(f, used) ==
  LET left == {i \in Unused(used) : Domains[i] \notin used \cup f.rejected}
  IN IF left = {} THEN Unused(used) ELSE left

\* The place in S that n others come before.
Nth(S, n) == CHOOSE i \in S : Cardinality({j \in S : j < i}) = n
Chosen(f, used) == Domains[Nth(Pool(f, used), f.index % Cardinality(Pool(f, used)))]

\* Mutant of Advanced: the rejected domains are not handed to the write.
AdvancedAlone(f) == [index |-> (f.index + 1) % Cycle, rejected |-> {}]

\* The index of the file only grows; its residues are what is used.
Advanced(f) == [f EXCEPT !.index = (@ + 1) % Cycle]

Unread == unread < MaxUnread /\ unread' = unread + 1

\* An error of the read, or a text that is none of the file's, is not told
\* from a file that is not there.
ReadAs(f) == \/ f = rotation /\ UNCHANGED unread
             \/ f = NewFile /\ Unread

\* The file is written whole; when that fails the one before stays.
Writes(f) == rotation' \in {rotation, f}

\* _pick_domain: the domain list is fetched, the choice is one step of the
\* round-robin lock.
Pick(p) ==
  /\ In(p, "pick")
  /\ \/ \E f \in {rotation, NewFile} :
          LET d == Chosen(f, process[p].used) IN
          /\ ReadAs(f)
          /\ process' = [process EXCEPT ![p].at = "guard", ![p].domain = d,
                           ![p].used = @ \cup {d}, ![p].creates = @ + 1]
          /\ Writes(Advanced(f))
     \/ Fail(p) /\ UNCHANGED <<rotation, unread>>
  /\ UNCHANGED <<guard, pace, serviceVars, gateVars>>

\* The cross-process lock; a wait of 120 s for it is an error.
TakeGuard(p) ==
  /\ In(p, "guard")
  /\ \/ guard = None /\ guard' = p /\ To(p, "pace")
     \/ Fail(p) /\ UNCHANGED guard
  /\ UNCHANGED <<pace, rotation, unread, serviceVars, gateVars>>

\* Mutant of Pace: no time stamp is written before the request.
PaceUnstamped(p) ==
  /\ In(p, "pace") /\ ~stamped
  /\ recent' = TRUE /\ unstamped' = FALSE
  /\ To(p, "post")
  /\ UNCHANGED <<guard, stamped, rotation, unread, serviceVars, gateVars>>

\* The rest of the spacing is slept, the stamp written, the request sent.  A
\* stamp that cannot be read is one of long ago, one that cannot be written is
\* left out; only a directory that cannot be made is an error.
Pace(p) ==
  /\ In(p, "pace")
  /\ \/ /\ (~stamped /\ UNCHANGED unread) \/ Unread
        /\ \/ stamped' = TRUE /\ unstamped' = FALSE
           \/ unstamped' = TRUE /\ UNCHANGED stamped
        /\ recent' = TRUE
        /\ To(p, "post") /\ UNCHANGED guard
     \/ Fail(p) /\ guard' = None /\ UNCHANGED <<pace, unread>>
  /\ UNCHANGED <<rotation, serviceVars, gateVars>>

\* Mutant of Again: the attempts are not counted.
AgainAlways(p) == To(p, "pick")

\* Another attempt at the mailbox, after a back-off or the next domain.
Again(p) == IF process[p].creates < CreateTries THEN To(p, "pick") ELSE Fail(p)

\* The answer to POST /accounts; the lock is held until it is there.
Created(p) ==
  /\ In(p, "post")
  /\ guard' = None
  /\ \/ process' = [process EXCEPT ![p].at = "open", ![p].used = {}, ![p].creates = 0]
     \/ Again(p)                   \* 429
     \/ To(p, "closed domain")
     \/ Fail(p)
  /\ UNCHANGED <<pace, rotation, unread, serviceVars, gateVars>>

\* What the write keeps of the file f with one more rejected domain.
Rejected(f, p) == IF Cardinality(f.rejected) >= RejectLimit THEN f
                  ELSE [f EXCEPT !.rejected = @ \cup ({process[p].domain} \ {None})]

\* _yyds_mark_domain_rejected, under the round-robin lock.
MarkRejected(p) == \E f \in {rotation, NewFile} : ReadAs(f) /\ Writes(Rejected(f, p))

MarkClosedDomain(p) ==
  /\ In(p, "closed domain")
  /\ MarkRejected(p)
  /\ Again(p)
  /\ UNCHANGED <<guard, pace, serviceVars, gateVars>>

\* CloudflareTempMailbox.create: one request, its failure is final.
CreateElsewhere(p) ==
  /\ In(p, "create")
  /\ To(p, "open") \/ Fail(p)
  /\ Alone

-----------------------------------------------------------------------------
(* The code: open_signup, request, poll, verify *)

OpenSignup(p) ==
  /\ In(p, "open")
  /\ To(p, IF process[p].mints = 0 THEN "verify" ELSE "ask") \/ Fail(p)
  /\ Alone

\* CreateEmailValidationCode; xAI may refuse the domain of the address.
AskForCode(p) ==
  /\ In(p, "ask")
  /\ \/ process' = [process EXCEPT ![p].at = "code", ![p].domain = None, ![p].mints = 0]
     \/ To(p, "refused domain")
     \/ Fail(p)
  /\ Alone

\* Mutant of Minted: a refused domain does not use up a try.
MintedFreely(p) ==
  process' = [process EXCEPT ![p].at = IF process[p].domain = None THEN "create" ELSE "pick"]

\* The next mailbox, with the address of which everything starts again.
Minted(p) ==
  IF process[p].mints < MintTries
  THEN process' = [process EXCEPT ![p].mints = @ + 1,
                     ![p].at = IF process[p].domain = None THEN "create" ELSE "pick"]
  ELSE Fail(p)

\* The domain is marked for every process, then another mailbox is made.
NextMailbox(p) ==
  /\ In(p, "refused domain")
  /\ MarkRejected(p)
  /\ Minted(p)
  /\ UNCHANGED <<guard, pace, serviceVars, gateVars>>

\* wait_for_xai_code; a failing look is another look later.
CodeArrives(p) ==
  /\ In(p, "code")
  /\ To(p, "verify") \/ Fail(p)
  /\ Alone

VerifyCode(p) ==
  /\ In(p, "verify")
  /\ To(p, "solve") \/ Fail(p)
  /\ Alone

-----------------------------------------------------------------------------
(* The token *)

\* The next attempt, or the error of the last one.
Unsolved(p) == IF process[p].solves < SolveTries
               THEN process' = [process EXCEPT ![p].at = "solve", ![p].request = NoRequest]
               ELSE Fail(p)

\* POST /v1/solve.  The bound Requests ends what the processes may ask.
AskForToken(p) ==
  /\ In(p, "solve")
  /\ \E r \in Calls :
       /\ Arrive(r)
       /\ process' = [process EXCEPT ![p].at = "solving", ![p].request = r, ![p].solves = @ + 1]
  /\ SharedUnchanged /\ UNCHANGED gateVars

\* The service is gone, or the request does not reach it.
SolveRefused(p) ==
  /\ In(p, "solve")
  /\ \/ process[p].solves + 1 < SolveTries
        /\ process' = [process EXCEPT ![p].solves = @ + 1]
     \/ Fail(p)
  /\ Alone

\* The answer arrives with a lease and a token length, or an error; the HTTP
\* client may leave before it, budget + 5 s after it asked.
Solved(p) ==
  /\ In(p, "solving")
  /\ \/ At(process[p].request, "ok") /\ To(p, "permit")
     \/ Unsolved(p)
  /\ Alone

-----------------------------------------------------------------------------
(* The submission, under a permit *)

\* The answer of a grant may be lost: the permit then stays until it expires.
AcquirePermit(p) ==
  /\ In(p, "permit")
  /\ \/ Gate!Grant(p) /\ (To(p, "consume") \/ Fail(p))
     \/ Fail(p) /\ UNCHANGED gateVars
  /\ SharedUnchanged /\ UNCHANGED serviceVars

Leave(p) == process' = [process EXCEPT ![p] = Over(@, "release")]

\* Both leases must be fresh; the answer of the service may be lost.
ConsumeToken(p) ==
  /\ In(p, "consume")
  /\ \/ Consume(process[p].request) /\ (To(p, "submit") \/ Leave(p))
     \/ Leave(p) /\ UNCHANGED serviceVars
  /\ SharedUnchanged /\ UNCHANGED gateVars

\* The POST; after a TLS error it is sent again as it is.  xAI may have
\* accepted the registration though the process sees an error.
Submit(p) ==
  /\ In(p, "submit")
  /\ process' = [process EXCEPT ![p] = Over(@, "cookies")] \/ Leave(p)
  /\ Alone

\* The sso cookie comes with the answer or at the end of the cookie setters.
GetSso(p) ==
  /\ In(p, "cookies")
  /\ \/ process' = [process EXCEPT ![p].at = "release", ![p].got = "sso"]
     \/ To(p, "release")
  /\ Alone

\* The finally of _submit_permit; a release that fails is logged.
ReleasePermit(p) ==
  /\ In(p, "release")
  /\ Gate!Revoke({p} \cap holding) \/ UNCHANGED gateVars
  /\ IF process[p].got = "sso" THEN To(p, "sso") ELSE Fail(p)
  /\ SharedUnchanged /\ UNCHANGED serviceVars

-----------------------------------------------------------------------------
(* The credential command: an sso cookie it is given, or a token that it has
   the provider solve itself, and the password. *)

SignIn(p) ==
  /\ In(p, "sign in")
  /\ To(p, "oauth") \/ To(p, "login") \/ Fail(p)
  /\ Alone

LogIn(p) ==
  /\ In(p, "login")
  /\ To(p, "oauth") \/ Fail(p)
  /\ Alone

-----------------------------------------------------------------------------
(* What is kept of an account *)

\* Mutant of SaveSso: the sso file is left to the end.
SaveSsoLast(p) == In(p, "sso") /\ To(p, "oauth") /\ Alone

\* What the process ends with when a write of its cookie fails.
Unwritten(p) == process' = [process EXCEPT ![p] = [Start EXCEPT !.at = "over", !.got = "unwritten"]]

\* Without an output directory there is neither an sso file nor a credential.
SaveSso(p) ==
  /\ In(p, "sso")
  /\ \/ process' = [process EXCEPT ![p].at = "oauth", ![p].got = "saved"]
     \/ To(p, "account")
     \/ Unwritten(p)
  /\ Alone

\* obtain_oauth_credential, the end of the credential command.
Authorize(p) ==
  /\ In(p, "oauth")
  /\ IF process[p].got = "saved" THEN To(p, "account") \/ Fail(p) ELSE Fail(p)
  /\ Alone

\* save_account_record and save_registration_info: the cookie is part of both.
SaveAccount(p) ==
  /\ In(p, "account")
  /\ \/ process' = [process EXCEPT ![p] = [Start EXCEPT !.at = "over"]]
     \/ IF process[p].got = "saved" THEN Fail(p) ELSE Unwritten(p)
  /\ Alone

-----------------------------------------------------------------------------
(* The surroundings *)

\* terminate(): the system frees the lock, the permit stays until it expires.
Kill(p) ==
  /\ ~In(p, "over")
  /\ process' = [process EXCEPT ![p] = [Start EXCEPT !.at = "over"]]
  /\ guard' = IF guard = p THEN None ELSE guard
  /\ UNCHANGED <<pace, rotation, unread, serviceVars, gateVars>>

\* A stamp that is not the last create's is older than that.
SpacingPasses ==
  /\ \/ /\ stamped \/ recent
        /\ stamped' = FALSE /\ recent' = FALSE /\ unstamped' = FALSE
     \/ stamped /\ unstamped /\ stamped' = FALSE /\ UNCHANGED <<recent, unstamped>>
  /\ UNCHANGED <<process, guard, rotation, unread, serviceVars, gateVars>>

PermitExpires ==
  /\ \E p \in holding : Gate!Revoke({p})
  /\ UNCHANGED <<serviceVars, clientVars>>

CloseService ==
  /\ Close /\ Gate!Close
  /\ UNCHANGED clientVars

Registration(p) ==
  \/ CreateElsewhere(p) \/ Pick(p) \/ TakeGuard(p) \/ Pace(p) \/ Created(p) \/ MarkClosedDomain(p)
  \/ OpenSignup(p) \/ AskForCode(p) \/ NextMailbox(p) \/ CodeArrives(p) \/ VerifyCode(p)
  \/ AskForToken(p) \/ SolveRefused(p) \/ Solved(p)
  \/ AcquirePermit(p) \/ ConsumeToken(p) \/ Submit(p) \/ GetSso(p) \/ ReleasePermit(p)
  \/ SignIn(p) \/ LogIn(p) \/ SaveSso(p) \/ Authorize(p) \/ SaveAccount(p)

Work ==
  \/ \E p \in Processes : Registration(p)
  \/ SpacingPasses
  \/ ServiceWork /\ UNCHANGED <<clientVars, gateVars>>

Next ==
  \/ Work
  \/ \E p \in Processes : Kill(p)
  \/ PermitExpires \/ CloseService
  \/ \E r \in Calls : (GiveUp(r) \/ Expire(r)) /\ UNCHANGED <<clientVars, gateVars>>

\* All that waits has a time-out, and no step can be taken for ever: it is
\* enough that the machine goes on.  Nothing is assumed of kills, of the
\* close and of what expires.
Fairness == WF_vars(Work)

Spec == Init /\ [][Next]_vars /\ Fairness

-----------------------------------------------------------------------------
(* Properties *)

\* A create is let through no sooner than a spacing after the one before it,
\* whoever made that, also when its process was killed before the answer.  The
\* stamp that says so is a file: the one before may have failed to write it,
\* or this one to read it.
PacedCreates ==
  [][\A p \in Processes : process[p].at # "post" /\ process'[p].at = "post" =>
       ~recent \/ unstamped \/ unread' > unread]_vars

\* The processes share what they learn of the domains: a rejected domain stays
\* in the file whoever writes it next, and a process takes one only when every
\* domain it has not tried for this mailbox is rejected.  A step that cannot
\* read the file knows of none and may write that back, and a full file takes
\* no more.
RejectedAvoided ==
  [][unread' = unread =>
       /\ rotation.rejected \subseteq rotation'.rejected
       /\ \A p \in Processes : In(p, "pick") /\ process'[p].at = "guard" =>
            \/ process'[p].domain \notin rotation.rejected
            \/ DomainSet \subseteq process[p].used \cup rotation.rejected]_vars

\* A process that gives up has tried to write the sso cookie it has had: no
\* later step's failure leaves an account with its cookie in memory alone.
\* When that very write fails (save_sso_record, or without an output directory
\* the records of the account) the cookie is lost: got is "unwritten".
SsoOutlivesFailure ==
  \A p \in Processes : In(p, "over") => process[p].got # "sso"

\* Every registration ends, whatever the others, the provider and the service
\* do: no lock, no permit and no answer is waited for without end.
RegistrationsEnd == <>(\A p \in Processes : In(p, "over"))

\* What the solver service keeps while requests end, time out and are cut off
\* by a close: its counts, its loop and its end.
ServiceSafe ==
  /\ TypeOK
  /\ SlotsReturned
  /\ NoTaskOnDeadLoop
  /\ ClosedBrokerStops

\* Processes that make mailboxes at once keep the pace and the rejected domains
\* they share in files.
MailboxesShared ==
  /\ PacedCreates
  /\ RejectedAvoided

\* Every request to the service is answered and every registration ends.
EverythingEnds ==
  /\ RequestsEnd
  /\ RegistrationsEnd
=============================================================================
