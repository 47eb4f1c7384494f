--------------------------- MODULE MailSupervisor ---------------------------
(***************************************************************************)
(* The mailbox drain supervisor (server_mail_supervisor.py) above the      *)
(* registration processes of its epochs.  The master file lists the        *)
(* planned addresses; each epoch rewrites the work file with some of those *)
(* that are pending and empties the ledger beside it; registration         *)
(* processes draw from the work file as MailPool describes, here with one  *)
(* step for each transaction under the mailbox lock.  The supervisor may   *)
(* be killed at any point, and its registration processes outlive it.      *)
(*                                                                         *)
(* A refresh token is its version, as in MailPool.                         *)
(***************************************************************************)
EXTENDS Naturals, Sequences, FiniteSets, SequencesExt

CONSTANTS
  Emails,       \* the addresses
  Planned,      \* those in the master file at first, in its order
  Children,     \* the registration processes that may run at once
  EpochSize,    \* addresses of one epoch: at most 20
  Cycle,        \* a common multiple of the lengths that are rotated
  MaxToken,     \* bound: versions of a refresh token
  MaxKills,     \* bound: the supervisor or a process of it is killed
  MaxFaults,    \* bound: reads, writes and locks that fail
  None

Tokens == 0 .. MaxToken
Ordering == {s \in UNION {[1 .. n -> Emails] : n \in 1 .. Cardinality(Emails)} :
               \A i, j \in DOMAIN s : s[i] = s[j] => i = j}

ASSUME SupervisorAssumption ==
  /\ IsFiniteSet(Emails) /\ Planned \in Ordering
  /\ EpochSize \in Nat \ {0} /\ Cycle \in Nat \ {0}
  /\ \A n \in EpochSize + 1 .. Cardinality(Emails) : Cycle % n = 0
  /\ MaxToken \in Nat /\ MaxKills \in Nat /\ MaxFaults \in Nat
  /\ None \notin Emails \cup Nat

VARIABLES
  master,   \* the token in the master file's row of an address, if any
  order,    \* the addresses of the master file, in its order
  work,     \* the token in the work file's row of an address, if any
  used,     \* the token in the ledger's row of an address, if any
  issued,   \* the newest token version of each address
  stored,   \* the newest version that was written to a file
  dropped,  \* addresses whose newest version left with a process unwritten
  sso,      \* addresses with an SSO file in the output directory
  creds,    \* addresses with a valid credential there
  state,    \* the state file: status and number of epochs
  sup,      \* the supervisor process
  child,    \* the registration processes
  orphaned, \* a process has been left behind by its supervisor
  kills, faults

tokens == <<issued, stored, dropped>>
rows == <<master, order, work, used, tokens>>
output == <<sso, creds>>
supervisorVars == <<rows, output, state, sup, child, orphaned, kills, faults>>

Status == {"none", "running", "complete", "stopped", "error"}

\* Where the supervisor is: "rebuild" before the work file is written and
\* "clear" before the ledger is; "launch" before start_run.
Sup == [at : {"down", "loop", "convert", "select", "rebuild", "clear",
              "launch", "epoch", "drain", "after"},
        stop : BOOLEAN,                      \* stop_requested
        epoch : 0 .. Cycle - 1,
        records : [Emails -> Tokens \cup {None}],  \* for the next epoch
        todo : SUBSET Emails,                \* SSO files still to convert
        pick : SUBSET Emails]                \* the epoch's addresses

\* "free": holds no address; "hold": its reservation; "persist": also a new
\* token that is in no file; "sso": the reservation is consumed and the SSO
\* file saved, the credential is not.
Child == [at : {"none", "free", "hold", "persist", "sso"}, orphan : BOOLEAN,
          box : Emails \cup {None}, token : Tokens]

Down == [at |-> "down", stop |-> FALSE, epoch |-> 0,
         records |-> [e \in Emails |-> None], todo |-> {}, pick |-> {}]
NoChild == [at |-> "none", orphan |-> FALSE, box |-> None, token |-> 0]

SupervisorTypeOK ==
  /\ {master, work, used} \subseteq [Emails -> Tokens \cup {None}]
  /\ order \in Ordering /\ {issued, stored} \subseteq [Emails -> Tokens]
  /\ dropped \subseteq Emails
  /\ sso \subseteq Emails /\ creds \subseteq Emails
  /\ state \in [status : Status, epoch : 0 .. Cycle - 1]
  /\ sup \in Sup /\ child \in [Children -> Child]
  /\ orphaned \in BOOLEAN
  /\ kills \in 0 .. MaxKills /\ faults \in 0 .. MaxFaults

SupervisorInit ==
  /\ issued \in [Emails -> Tokens] /\ stored = issued /\ dropped = {}
  /\ order = Planned
  /\ master = [e \in Emails |-> IF e \in ToSet(Planned) THEN issued[e] ELSE None]
  /\ work = [e \in Emails |-> None]
  /\ used = [e \in Emails |-> None]
  /\ sso = {} /\ creds = {}
  /\ state = [status |-> "none", epoch |-> 0]
  /\ sup = Down
  /\ child = [c \in Children |-> NoChild]
  /\ orphaned = FALSE
  /\ kills = 0 /\ faults = 0

-----------------------------------------------------------------------------
At(place) == sup.at = place
Plan == ToSet(order)
Alive(c) == child[c].at # "none"
Own(c) == Alive(c) /\ ~child[c].orphan
Fault == faults < MaxFaults /\ faults' = faults + 1
Kill == kills < MaxKills /\ kills' = kills + 1

\* The address for which a process has an unwritten token.
InHand(c) == IF child[c].at = "persist" THEN {child[c].box} ELSE {}

\* Processes are gone or give up with what they have in hand.
Drops(C) ==
  /\ dropped' = dropped \cup UNION {InHand(c) : c \in C}
  /\ UNCHANGED <<master, order, work, used, issued, stored>>

\* Mutant of Newest: the work file's row is taken before the ledger's.
NewestWorkFirst(e) ==
  IF work[e] # None THEN work[e] ELSE IF used[e] # None THEN used[e] ELSE master[e]

\* _load_master_and_latest: work rows override the master's, ledger rows both.
Newest(e) ==
  IF used[e] # None THEN used[e] ELSE IF work[e] # None THEN work[e] ELSE master[e]

Latest == [e \in Emails |-> IF e \in Plan THEN Newest(e) ELSE None]

Complete == creds \cap Plan
Convert == (sso \cap Plan) \ creds

\* Mutant of Pending: an address with an SSO file is still to be registered.
PendingAll == {e \in Plan : e \notin Complete}

Pending == {e \in Plan : e \notin Complete \cup Convert}
Finished == Complete = Plan

\* reconcile: the newest rows, under the mailbox lock, into the master file.
Reconcile(next) ==
  /\ master' = Latest
  /\ sup' = next
  /\ UNCHANGED <<order, work, used, tokens>>

\* The process ends; what it started goes on without it.
Leave ==
  /\ sup' = Down
  /\ child' = [c \in Children |-> [child[c] EXCEPT !.orphan = Alive(c)]]
  /\ orphaned' = (orphaned \/ \E c \in Children : Alive(c))

Ends(status) ==
  /\ state' = [status |-> status, epoch |-> sup.epoch]
  /\ Leave

\* The reconciliation finds nothing left to do: state "complete", exit 0.
AllDone == Finished /\ master' = Latest /\ Ends("complete")

-----------------------------------------------------------------------------
(* main and run *)

\* Mutant of Boot: the state file is written before the status is set.
BootCreated ==
  /\ At("down")
  /\ Reconcile([Down EXCEPT !.at = "loop", !.epoch = state.epoch])
  /\ state' = [state EXCEPT !.status = "created"]
  /\ UNCHANGED <<output, child, orphaned, kills, faults>>

\* The lock of a dead supervisor is free; the counters of the state file
\* carry on the rotation.
Boot ==
  /\ At("down")
  /\ Reconcile([Down EXCEPT !.at = "loop", !.epoch = state.epoch])
  /\ state' = [state EXCEPT !.status = "running"]
  /\ UNCHANGED <<output, child, orphaned, kills, faults>>

RequestStop ==
  /\ ~At("down") /\ ~sup.stop
  /\ sup' = [sup EXCEPT !.stop = TRUE]
  /\ UNCHANGED <<rows, output, state, child, orphaned, kills, faults>>

\* Out of the loop: a last reconciliation and state "stopped", exit 130.
StopAtLoop ==
  /\ At("loop") /\ sup.stop
  /\ master' = Latest
  /\ Ends("stopped")
  /\ UNCHANGED <<order, work, used, tokens, output, kills, faults>>

LoopTop ==
  /\ At("loop") /\ ~sup.stop
  /\ \/ /\ AllDone
        /\ UNCHANGED <<order, work, used, tokens>>
     \/ /\ ~Finished
        /\ Reconcile([sup EXCEPT !.at = "convert", !.todo = Convert])
        /\ UNCHANGED <<state, child, orphaned>>
  /\ UNCHANGED <<output, kills, faults>>

\* The credential command ends well, fails, or is ended by a stop or after its
\* timeout, before or after it has written the credential.
CommandOutcomes(e) == {creds, creds \cup {e}}

\* The next SSO file to convert.
ConvertOne ==
  /\ At("convert") /\ ~sup.stop
  /\ \E e \in sup.todo :
       /\ creds' \in CommandOutcomes(e)
       /\ sup' = [sup EXCEPT !.todo = @ \ {e}]
  /\ UNCHANGED <<rows, sso, state, child, orphaned, kills, faults>>

\* The index of a pending address in pending_keys, in the master's order.
Place(e) == CHOOSE i \in DOMAIN order : order[i] = e
Rank(e) == Cardinality({x \in Pending : Place(x) < Place(e)})

\* Mutant of Turn: the rotation starts anew with every epoch.
TurnFirst == {e \in Pending : Rank(e) < EpochSize}

\* _select_epoch: a window that moves on by its size with every epoch.
Turn ==
  {e \in Pending : \E i \in 0 .. EpochSize - 1 :
     Rank(e) = (sup.epoch * EpochSize + i) % Cardinality(Pending)}

Selected == IF Cardinality(Pending) <= EpochSize THEN Pending ELSE Turn

\* After the conversions: stop, finish, run an epoch, or only wait.  (The
\* code counts the epoch first and uses the number before; max_epochs is 0.)
AfterConvert ==
  /\ At("convert") /\ (sup.stop \/ sup.todo = {})
  /\ \/ sup.stop /\ master' = Latest /\ Ends("stopped")
     \/ ~sup.stop /\ AllDone
     \/ /\ ~sup.stop /\ ~Finished
        /\ master' = Latest
        /\ sup' = IF Pending # {}
             THEN [sup EXCEPT !.at = "rebuild", !.records = Latest,
                              !.pick = Selected, !.epoch = (@ + 1) % Cycle]
             ELSE [sup EXCEPT !.at = "after"]
        /\ UNCHANGED <<state, child, orphaned>>
  /\ UNCHANGED <<order, work, used, tokens, output, kills, faults>>

-----------------------------------------------------------------------------
(* _run_epoch *)

\* _rebuild_work writes the work file, then the empty ledger, and the
\* configuration is patched; each of the three may fail.
RebuildWork ==
  /\ At("rebuild")
  /\ work' = [e \in Emails |-> IF e \in sup.pick THEN sup.records[e] ELSE None]
  /\ sup' = [sup EXCEPT !.at = "clear", !.records = Down.records]
  /\ UNCHANGED <<master, order, used, tokens, output, state, child, orphaned,
                 kills, faults>>

ClearLedger ==
  /\ At("clear")
  /\ used' = [e \in Emails |-> None]
  /\ sup' = [sup EXCEPT !.at = "launch"]
  /\ UNCHANGED <<master, order, work, tokens, output, state, child, orphaned,
                 kills, faults>>

PatchConfig ==
  /\ At("launch")
  /\ sup' = [sup EXCEPT !.at = "epoch"]
  /\ UNCHANGED <<rows, output, state, child, orphaned, kills, faults>>

\* The batch has come to its end: none of its processes runs.
EpochDone ==
  /\ At("epoch")
  /\ ~\E c \in Children : Own(c)
  /\ sup' = [sup EXCEPT !.at = "after"]
  /\ UNCHANGED <<rows, output, state, child, orphaned, kills, faults>>

\* Stop was requested, a watchdog of the epoch fired, or a call of the service
\* raised: the service is told to stop.
Drain ==
  /\ At("epoch")
  /\ sup' = [sup EXCEPT !.at = "drain"]
  /\ UNCHANGED <<rows, output, state, child, orphaned, kills, faults>>

\* Mutant of Drained: the end of the service is not awaited.
DrainedAtOnce ==
  /\ At("drain")
  /\ sup' = [sup EXCEPT !.at = "after"]
  /\ UNCHANGED <<rows, output, state, child, orphaned, kills, faults>>

Drained ==
  /\ At("drain")
  /\ ~\E c \in Children : Own(c)
  /\ sup' = [sup EXCEPT !.at = "after"]
  /\ UNCHANGED <<rows, output, state, child, orphaned, kills, faults>>

\* The epoch raises: a reconciliation and state "error", if that goes well.
EpochRaises ==
  /\ \/ At("drain") /\ (\E c \in Children : Own(c)) /\ UNCHANGED faults
     \/ sup.at \in {"rebuild", "clear", "launch", "drain"} /\ Fault
  /\ \/ master' = Latest /\ Ends("error")
     \/ Leave /\ faults' # faults /\ UNCHANGED <<master, state>>
  /\ UNCHANGED <<order, work, used, tokens, output, kills>>

\* The end of an iteration; a delay, longer the more epochs brought nothing,
\* separates it from the next unless stop is requested.
After ==
  /\ At("after")
  /\ master' = Latest
  /\ \/ Finished /\ Ends("complete")
     \/ ~Finished /\ sup.stop /\ Ends("stopped")
     \/ /\ ~Finished /\ ~sup.stop
        /\ state' = [status |-> "running", epoch |-> sup.epoch]
        /\ sup' = [sup EXCEPT !.at = "loop", !.pick = {}]
        /\ UNCHANGED <<child, orphaned>>
  /\ UNCHANGED <<order, work, used, tokens, output, kills, faults>>

\* A reconciliation raises: the mailbox lock is not obtained or a file cannot
\* be read or written.  The state file keeps what it says.
ReconcileRaises ==
  /\ sup.at \in {"loop", "convert", "after"}
  /\ Fault
  /\ Leave
  /\ UNCHANGED <<rows, output, state, kills>>

\* SIGKILL of the supervisor alone, or of everything with the machine.
Killed ==
  /\ ~At("down")
  /\ Kill
  /\ \/ Leave /\ UNCHANGED rows
     \/ /\ sup' = Down /\ child' = [c \in Children |-> NoChild]
        /\ Drops(Children)
        /\ UNCHANGED orphaned
  /\ UNCHANGED <<output, state, faults>>

\* Between reconciliations an operator appends a row to the master.
AppendRow(e) ==
  /\ sup.at \in {"down", "epoch", "loop"}
  /\ e \notin Plan
  /\ order' = Append(order, e)
  /\ master' = [master EXCEPT ![e] = stored[e]]
  /\ UNCHANGED <<work, used, tokens, output, state, sup, child, orphaned, kills,
                 faults>>

-----------------------------------------------------------------------------
(* The registration processes (MailPool). *)

Becomes(c, new) == child' = [child EXCEPT ![c] = new]

Launch(c) ==
  /\ At("epoch") /\ ~Alive(c)
  /\ Becomes(c, [NoChild EXCEPT !.at = "free"])
  /\ UNCHANGED <<rows, output, state, sup, orphaned, kills, faults>>

\* The ledger gets the row; then the work file loses every row that the
\* ledger lists, unless that second write fails.
Claim(c, e) ==
  /\ child[c].at = "free"
  /\ work[e] # None /\ used[e] = None
  /\ used' = [used EXCEPT ![e] = work[e]]
  /\ \/ /\ work' = [x \in Emails |-> IF used'[x] = None THEN work[x] ELSE None]
        /\ UNCHANGED faults
     \/ Fault /\ UNCHANGED work
  /\ Becomes(c, [child[c] EXCEPT !.at = "hold", !.box = e, !.token = work[e]])
  /\ UNCHANGED <<master, order, tokens, output, state, sup, orphaned, kills>>

\* The mail service answers a refresh with a new refresh token.
Rotate(c) ==
  /\ child[c].at = "hold"
  /\ LET e == child[c].box
         t == issued[e] + 1 IN
       /\ t <= MaxToken
       /\ issued' = [issued EXCEPT ![e] = t]
       /\ Becomes(c, [child[c] EXCEPT !.at = "persist", !.token = t])
  /\ UNCHANGED <<master, order, work, used, stored, dropped, output, state, sup,
                 orphaned, kills, faults>>

\* Mutant of Persist: only the work file is looked at.
PersistInWork(c) ==
  /\ child[c].at = "persist"
  /\ LET e == child[c].box
         t == child[c].token IN
       /\ work' = IF work[e] # None THEN [work EXCEPT ![e] = t] ELSE work
       /\ stored' = [stored EXCEPT ![e] = t]
       /\ dropped' = dropped \ {e}
       /\ Becomes(c, [child[c] EXCEPT !.at = "hold"])
  /\ UNCHANGED <<master, order, used, issued, output, state, sup, orphaned, kills, faults>>

\* It goes to the file that lists the row, the ledger first.
Persist(c) ==
  /\ child[c].at = "persist"
  /\ LET e == child[c].box
         t == child[c].token IN
       /\ \/ used[e] # None /\ used' = [used EXCEPT ![e] = t] /\ UNCHANGED work
          \/ /\ used[e] = None /\ work[e] # None
             /\ work' = [work EXCEPT ![e] = t] /\ UNCHANGED used
       /\ stored' = [stored EXCEPT ![e] = t]
       /\ dropped' = dropped \ {e}
       /\ Becomes(c, [child[c] EXCEPT !.at = "hold"])
  /\ UNCHANGED <<master, order, issued, output, state, sup, orphaned, kills, faults>>

\* No file lists the row, the lock is not obtained or the file not written: a
\* failed refresh.  In create the process gives the address up for another
\* one; later it goes on and has the new token in memory only.
PersistFails(c) ==
  /\ child[c].at = "persist"
  /\ \/ used[child[c].box] = None /\ work[child[c].box] = None /\ UNCHANGED faults
     \/ Fault
  /\ Drops({c})
  /\ \/ Becomes(c, [child[c] EXCEPT !.at = "hold"])
     \/ Becomes(c, [NoChild EXCEPT !.at = "free", !.orphan = child[c].orphan])
  /\ UNCHANGED <<output, state, sup, orphaned, kills>>

\* The registration succeeds: the reservation is consumed, the SSO file saved.
SaveSso(c) ==
  /\ child[c].at = "hold"
  /\ sso' = sso \cup {child[c].box}
  /\ Becomes(c, [child[c] EXCEPT !.at = "sso"])
  /\ UNCHANGED <<rows, creds, state, sup, orphaned, kills, faults>>

\* The process ends, with or without a credential.
FinishChild(c) ==
  /\ child[c].at = "sso"
  /\ creds' = creds \/ creds' = creds \cup {child[c].box}
  /\ Becomes(c, NoChild)
  /\ UNCHANGED <<rows, sso, state, sup, orphaned, kills, faults>>

\* A failed registration returns the row: the ledger's if it lists it, else
\* the one in the process's memory.  Then the process ends or tries another.
ReturnRow(c) ==
  /\ child[c].at = "hold"
  /\ LET e == child[c].box IN
       /\ work' = [work EXCEPT ![e] = IF used[e] # None THEN used[e] ELSE child[c].token]
       /\ \/ used' = [used EXCEPT ![e] = None] /\ UNCHANGED faults
          \/ Fault /\ UNCHANGED used
  /\ \/ Becomes(c, NoChild)
     \/ Becomes(c, [NoChild EXCEPT !.at = "free", !.orphan = child[c].orphan])
  /\ UNCHANGED <<master, order, tokens, output, state, sup, orphaned, kills>>

\* It finds no row, its address's token is dead, stop terminates it, or it is
\* killed before it has written a token.
ChildEnds(c) ==
  /\ \/ child[c].at \in {"free", "hold"} /\ UNCHANGED kills
     \/ Alive(c) /\ At("drain") /\ UNCHANGED kills
     \/ child[c].at = "persist" /\ Kill
  /\ Drops({c})
  /\ Becomes(c, NoChild)
  /\ UNCHANGED <<output, state, sup, orphaned, faults>>

-----------------------------------------------------------------------------
Supervise == \/ LoopTop \/ StopAtLoop \/ ConvertOne \/ AfterConvert
             \/ RebuildWork \/ ClearLedger \/ PatchConfig
             \/ EpochDone \/ Drained \/ EpochRaises \/ After

Register(c) == \/ (\E e \in Emails : Claim(c, e)) \/ Rotate(c) \/ Persist(c)
               \/ PersistFails(c) \/ SaveSso(c) \/ FinishChild(c) \/ ReturnRow(c) \/ ChildEnds(c)

SupervisorNext == \/ Boot \/ Supervise \/ Drain
        \/ RequestStop \/ ReconcileRaises \/ Killed
        \/ \E e \in Emails : AppendRow(e)
        \/ \E c \in Children : Launch(c) \/ Register(c)

SupervisorSpec == SupervisorInit /\ [][SupervisorNext]_supervisorVars

\* The supervisor's thread runs, and its watchdogs end an epoch that does not
\* end; a service manager starts it again.
SupervisorFairness ==
  WF_supervisorVars(Supervise \/ Drain) /\ WF_supervisorVars(Boot)

-----------------------------------------------------------------------------
(* Properties *)

\* The next reconciliation finds the newest refresh token that was written for
\* a planned address, between the writes of an epoch too and whatever is killed
\* there: _load_master_and_latest persists rotated tokens before an epoch
\* empties the ledger.  A token is in no file only between its issue and its
\* write, or when its process failed or was killed there.  A process that
\* outlives its supervisor breaks both: it may rotate between a reconciliation
\* and the rebuild of the next one.
TokensKept ==
  ~orphaned =>
    /\ \A e \in Plan : Newest(e) = stored[e]
    /\ \A e \in Emails :
         stored[e] = issued[e] \/ e \in dropped \/ \E c \in Children : e \in InHand(c)

\* An address with a credential or an SSO file is never submitted again, in
\* the epoch or in a later one, whatever was killed (the module's docstring),
\* as long as no process outlived its supervisor.
NeverRegisteredAgain ==
  [][\A c \in Children :
       child[c].at = "free" /\ child'[c].at = "hold" /\ ~orphaned
         => child'[c].box \notin sso \cup creds]_supervisorVars

\* A supervisor that ends as complete or stopped leaves no registration
\* process of its own behind (_stop_service returns only after the drain).
EndsWithoutChildren ==
  [][~At("down") /\ At("down")' /\ state' # state
       /\ state'.status \in {"complete", "stopped"}
       => \A c \in Children : ~Own(c)]_supervisorVars

\* As long as epochs are run, each address that stays pending is selected
\* again and again: the rotation of _select_epoch reaches everybody, through
\* restarts and changes of the list.
EveryAddressGetsItsTurn ==
  \A e \in Emails :
    \/ <>[](e \notin Pending)
    \/ []<>(e \in sup.pick)
    \/ []<>At("down") /\ <>[](~At("rebuild"))

\* Between any two writes the files hold the newest token that was written for
\* every address, and none is unwritten for another reason than a failure.
MasterSafe ==
  /\ SupervisorTypeOK
  /\ TokensKept
=============================================================================
