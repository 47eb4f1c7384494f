----------------------------- MODULE MailLedger -----------------------------
(***************************************************************************)
(* What the mailbox pool promises to the registration processes: every     *)
(* imported address is free, reserved by exactly one process, or spent;    *)
(* only a free address is reserved, only its holder gives it back, and a   *)
(* spent address stays spent.  Nothing is said about files, locks, tokens  *)
(* or stages; MailPool implements this specification.                      *)
(***************************************************************************)
CONSTANTS Emails,   \* the imported addresses
          Workers,  \* the processes that reserve them
          Free, Spent

VARIABLE status     \* Free, Spent, or the process that holds the address

Init == status = [e \in Emails |-> Free]

Reserve(e) == status[e] = Free /\ status'[e] \in Workers

GiveBack(e) == status[e] \in Workers /\ status'[e] = Free

\* The address is consumed: registered, its token dead, or its holder gone.
Spend(e) == status[e] \in Workers /\ status'[e] = Spent

Others(e) == \A x \in Emails \ {e} : status'[x] = status[x]

Next == \E e \in Emails : (Reserve(e) \/ GiveBack(e) \/ Spend(e)) /\ Others(e)

Spec == Init /\ [][Next]_status
=============================================================================
