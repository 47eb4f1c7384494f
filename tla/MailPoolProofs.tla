--------------------------- MODULE MailPoolProofs ---------------------------
(***************************************************************************)
(* For every number of addresses, registration processes and probes, and   *)
(* every bound on tries, tokens and faults: the pool loses no row, gives   *)
(* no address to two processes, never offers a saved address again, and    *)
(* implements MailLedger.                                                  *)
(*                                                                         *)
(* Exclusive alone is not inductive: a reservation is only safe because    *)
(* the ledger lists every address in use (OwnedInLedger), whatever a       *)
(* failed write left in the pool file; dropping a ledger row at the end of *)
(* a return is only safe because the row is back in the pool               *)
(* (ReturnedRows, which needs LockOK: nobody else rewrites the pool in     *)
(* between); and which rows a process may return follows from what it is   *)
(* doing (ProcsOK).                                                        *)
(***************************************************************************)
EXTENDS MailPool, TLAPS

\* What a process has, by what it is doing.
Shape(p, r) ==
  /\ r.at \in Using \cup {"ledger"} => r.box # None
  /\ p \in Workers /\ r.at \in (Using \ {"artifacts"}) \cup {"ledger"} => r.owned
  /\ r.at \in {"idle", "claim", "artifacts"} => ~r.owned
  /\ p \in Probers => r.at \in {"idle", "token", "persist"} /\ r.then = "request"

ProcsOK == \A p \in Procs : Shape(p, proc[p])

LEMMA Zeros == 0 \in Tokens /\ 0 \in Tries /\ 0 \in Domains
  BY MailAssumption DEF MailAssumption, Tokens, Tries, Domains

LEMMA FreshProc == Fresh \in Proc
  BY Zeros DEF Fresh, Proc, Stage

LEMMA UnwoundProc == ASSUME TypeOK, NEW p \in Procs PROVE Unwound(p) \in Proc
  <1>1. proc[p] \in Proc
    BY DEF TypeOK
  <1>2. [proc[p] EXCEPT !.at = "release", !.why = "failed", !.token = 0,
                        !.then = "request"] \in Proc
    BY <1>1, Zeros DEF Proc, Stage
  <1>3. QED
    BY <1>2, FreshProc DEF Unwound

LEMMA DiscardProc == ASSUME TypeOK, NEW p \in Procs PROVE Discard(p) \in Proc
  <1>1. proc[p].tries \in Tries /\ proc[p].domains \in Domains
    BY DEF TypeOK, Proc
  <1>2. proc[p].tries + 1 < TokenTries => proc[p].tries + 1 \in Tries
    BY <1>1, MailAssumption DEF Tries, MailAssumption
  <1>3. ASSUME NEW n \in Tries, NEW d \in Domains
        PROVE  [Fresh EXCEPT !.at = "claim", !.tries = n, !.domains = d] \in Proc
    BY FreshProc DEF Proc, Stage
  <1>4. [Fresh EXCEPT !.at = "release"] \in Proc
    BY FreshProc DEF Proc, Stage
  <1>5. QED
    BY <1>1, <1>2, <1>3, <1>4, FreshProc DEF Discard

LEMMA ReleasedProc ==
  ASSUME TypeOK, NEW p \in Procs
  PROVE  Released(p) \in Proc /\ Unreturned(p) \in Proc /\ Rejected(p) \in Proc
  <1>1. proc[p] \in Proc
    BY DEF TypeOK
  <1>2. [proc[p] EXCEPT !.at = "claim", !.owned = FALSE, !.tries = 0,
                        !.why = "failed"] \in Proc
    BY <1>1, Zeros DEF Proc, Stage
  <1>3. [proc[p] EXCEPT !.at = "release", !.why = "failed"] \in Proc
    BY <1>1 DEF Proc, Stage
  <1>4. proc[p].domains + 1 < DomainTries => proc[p].domains + 1 \in Domains
    BY <1>1, MailAssumption DEF Domains, MailAssumption, Proc
  <1>5. ASSUME NEW d \in Domains
        PROVE  [proc[p] EXCEPT !.at = "release", !.why = "domain", !.domains = d] \in Proc
    BY <1>1 DEF Proc, Stage
  <1>6. QED
    BY <1>2, <1>3, <1>4, <1>5, FreshProc DEF Released, Unreturned, Rejected

LEMMA FilesType ==
  ASSUME TypeOK, NEW e \in Emails, NEW t \in Tokens \cup {None}
  PROVE  /\ [pool EXCEPT ![e] = t] \in [Emails -> Tokens \cup {None}]
         /\ [used EXCEPT ![e] = t] \in [Emails -> Tokens \cup {None}]
         /\ used[e] \in Tokens \cup {None}
         /\ pool[e] \in Tokens \cup {None}
  BY DEF TypeOK

LEMMA TypeStep == TypeOK /\ ProcsOK /\ [Next]_vars => TypeOK'
  <1> SUFFICES ASSUME TypeOK, ProcsOK, [Next]_vars PROVE TypeOK'
    OBVIOUS
  <1> USE DEF files
  <1>0. Workers \subseteq Procs /\ Probers \subseteq Procs
    BY DEF Procs
  <1>f. WriteFails => faults' \in 0 .. MaxFaults
    BY MailAssumption DEF WriteFails, TypeOK, MailAssumption
  <1>1. ASSUME NEW w \in Workers, Start(w) PROVE TypeOK'
    <2>1. [Fresh EXCEPT !.at = "claim"] \in Proc
      BY FreshProc DEF Proc, Stage
    <2>2. QED
      BY <2>1, <1>0, <1>1 DEF Start, TypeOK
  <1>2. ASSUME NEW w \in Workers, ClaimSource(w) PROVE TypeOK'
    BY <1>2, <1>f, <1>0 DEF ClaimSource, TypeOK, Goto, Proc, Stage
  <1>3. ASSUME NEW w \in Workers, ClaimFails(w) PROVE TypeOK'
    BY <1>3, <1>f, <1>0, UnwoundProc DEF ClaimFails, TypeOK, Raise, LockTimesOut
  <1>4. ASSUME NEW w \in Workers, NEW e \in Emails, ClaimLedger(w, e) PROVE TypeOK'
    <2>3. proc[w] \in Proc
      BY <1>0 DEF TypeOK
    <2>0. [proc[w] EXCEPT !.at = "source", !.box = e, !.owned = TRUE] \in Proc
      BY <2>3 DEF Proc, Stage
    <2>1. proc' \in [Procs -> Proc]
      BY <2>0, <1>4, <1>0 DEF ClaimLedger, TypeOK
    <2>2. QED
      BY <2>1, <1>4, <1>0, FilesType DEF ClaimLedger, TypeOK
  <1>5. ASSUME NEW p \in Probers, NEW e \in Emails, ClaimProbe(p, e) PROVE TypeOK'
    <2>1. proc' \in [Procs -> Proc]
      BY <1>5, <1>0 DEF ClaimProbe, TypeOK, Proc, Stage
    <2>2. QED
      BY <2>1, <1>5 DEF ClaimProbe, TypeOK
  <1>6. ASSUME NEW p \in Procs, TokenDead(p) PROVE TypeOK'
    BY <1>6, DiscardProc DEF TokenDead, TypeOK
  <1>7. ASSUME NEW p \in Procs, TokenAnswered(p) PROVE TypeOK'
    <2>1. [proc[p] EXCEPT !.at = "request", !.tries = 0] \in Proc
      BY ZenonT(30), Zeros DEF TypeOK, Proc, Stage
    <2>2. QED
      BY <2>1, <1>7, FreshProc DEF TokenAnswered, TypeOK
  <1>8. ASSUME NEW p \in Procs, TokenRotated(p) PROVE TypeOK'
    <2>1. Box(p) \in Emails
      BY <1>8 DEF TokenRotated, TypeOK, ProcsOK, Shape, Using, Proc, Box
    <2>2. issued[Box(p)] + 1 \in Tokens
      BY <2>1, <1>8, MailAssumption DEF TokenRotated, TypeOK, Tokens, MailAssumption
    <2>5. ASSUME NEW t \in {"request", "wait"}, NEW n \in Tokens
          PROVE  [proc[p] EXCEPT !.at = "persist", !.token = n, !.then = t] \in Proc
      BY ZenonT(30) DEF TypeOK, Proc, Stage
    <2>3. proc' \in [Procs -> Proc]
      BY <2>2, <2>5, <1>8 DEF TokenRotated, TypeOK
    <2>4. QED
      BY <2>1, <2>2, <2>3, <1>8 DEF TokenRotated, TypeOK
  <1>9. ASSUME NEW p \in Procs, Persist(p) PROVE TypeOK'
    <2>1. Box(p) \in Emails /\ proc[p].token \in Tokens
      BY <1>9 DEF Persist, At, TypeOK, ProcsOK, Shape, Using, Proc, Box
    <2>5. proc[p] \in Proc /\ proc[p].then \in Stage
      BY DEF TypeOK, Proc, Stage
    <2>6. ASSUME NEW r \in Proc, NEW a \in Stage
          PROVE  [r EXCEPT !.at = a, !.then = "request", !.tries = 0,
                           !.token = 0] \in Proc
      BY Zeros DEF Proc
    <2>2. [proc[p] EXCEPT !.at = proc[p].then, !.then = "request", !.tries = 0,
                          !.token = 0] \in Proc
      BY <2>5, <2>6
    <2>3. proc' \in [Procs -> Proc]
      BY <2>2, <1>9, FreshProc DEF Persist, TypeOK
    <2>4. QED
      BY <2>1, <2>3, <1>9, FilesType DEF Persist, TypeOK
  <1>10. ASSUME NEW p \in Procs, PersistFails(p) PROVE TypeOK'
    <2>0. proc[p] \in Proc
      BY DEF TypeOK
    <2>1. [proc[p] EXCEPT !.at = "wait", !.then = "request", !.token = 0] \in Proc
      BY <2>0, Zeros DEF Proc, Stage
    <2>2. proc' \in [Procs -> Proc]
      BY <2>1, <1>10, DiscardProc, UnwoundProc DEF PersistFails, Raise, TypeOK
    <2>3. QED
      BY <2>2, <1>10, <1>f DEF PersistFails, LockTimesOut, TypeOK
  <1>11. ASSUME NEW w \in Workers, CodeRequested(w) PROVE TypeOK'
    BY <1>11, <1>0, Zeros DEF CodeRequested, TypeOK, Proc, Stage
  <1>12. ASSUME NEW w \in Workers, DomainRejected(w) PROVE TypeOK'
    BY <1>12, <1>0, ReleasedProc DEF DomainRejected, TypeOK
  <1>13. ASSUME NEW w \in Workers, Submitted(w) PROVE TypeOK'
    <2>1. Box(w) \in Emails
      BY <1>13, <1>0 DEF Submitted, At, TypeOK, ProcsOK, Shape, Using, Proc, Box
    <2>2. proc[w] \in Proc
      BY <1>0 DEF TypeOK
    <2>3. [proc[w] EXCEPT !.at = "commit"] \in Proc
      BY <2>2 DEF Proc, Stage
    <2>4. [proc EXCEPT ![w].at = "commit"] \in [Procs -> Proc]
      BY <2>3, <1>0 DEF TypeOK
    <2>5. [proc EXCEPT ![w] = Unwound(w)] \in [Procs -> Proc]
      BY <1>0, UnwoundProc DEF TypeOK
    <2>6. proc' \in [Procs -> Proc]
      BY <2>4, <2>5, <1>13 DEF Submitted, Goto, Raise
    <2>7. QED
      BY <2>1, <2>6, <1>13 DEF Submitted, TypeOK, files
  <1>14. ASSUME NEW w \in Workers, Commit(w) PROVE TypeOK'
    <2>1. proc[w] \in Proc
      BY <1>0 DEF TypeOK
    <2>2. [proc[w] EXCEPT !.at = "artifacts", !.owned = FALSE] \in Proc
      BY <2>1 DEF Proc, Stage
    <2>3. QED
      BY <2>2, <1>14, <1>0 DEF Commit, TypeOK
  <1>15. ASSUME NEW w \in Workers, SaveArtifacts(w) PROVE TypeOK'
    <2>1. Box(w) \in Emails
      BY <1>15, <1>0 DEF SaveArtifacts, At, TypeOK, ProcsOK, Shape, Using, Proc, Box
    <2>2. QED
      BY <2>1, <1>15, <1>0, FreshProc, UnwoundProc DEF SaveArtifacts, Raise, TypeOK
  <1>16. ASSUME NEW p \in Procs, FlowFails(p) PROVE TypeOK'
    BY <1>16, UnwoundProc DEF FlowFails, TypeOK, Raise
  <1>17. ASSUME NEW w \in Workers, NothingToReturn(w) PROVE TypeOK'
    BY <1>17, <1>0, ReleasedProc DEF NothingToReturn, TypeOK
  <1>18. ASSUME NEW w \in Workers, DropLedger(w) PROVE TypeOK'
    BY <1>18, <1>0, ReleasedProc DEF DropLedger, TypeOK
  <1>19. ASSUME NEW w \in Workers, ReturnRow(w) PROVE TypeOK'
    <2>1. Box(w) \in Emails
      BY <1>19, <1>0 DEF ReturnRow, Returnable, TypeOK, Proc, Box
    <2>2. proc' \in [Procs -> Proc]
      BY <1>19, <1>0 DEF ReturnRow, Goto, TypeOK, Proc, Stage
    <2>3. ahead' \in SUBSET (Emails \X Emails)
      BY <2>1, <1>19 DEF ReturnRow, TypeOK
    <2>4. QED
      BY <2>1, <2>2, <2>3, <1>19, FilesType DEF ReturnRow, ReturnedToken, TypeOK
  <1>20. ASSUME NEW w \in Workers, ReturnFails(w) PROVE TypeOK'
    BY <1>20, <1>0, <1>f, ReleasedProc DEF ReturnFails, LockTimesOut, TypeOK
  <1>21. ASSUME NEW p \in Procs, Killed(p) PROVE TypeOK'
    BY <1>21, FreshProc DEF Killed, TypeOK
  <1>22. CASE UNCHANGED vars
    BY <1>22 DEF vars, TypeOK
  <1>23. QED
    BY <1>1, <1>2, <1>3, <1>4, <1>5, <1>6, <1>7, <1>8, <1>9, <1>10, <1>11, <1>12,
       <1>13, <1>14, <1>15, <1>16, <1>17, <1>18, <1>19, <1>20, <1>21, <1>22
       DEF Next, Refresh, Reservation, Register

-----------------------------------------------------------------------------
LEMMA FreshShape ==
  ASSUME NEW p \in Procs
  PROVE  Shape(p, Fresh) /\ (p \in Workers => Shape(p, [Fresh EXCEPT !.at = "claim"]))
  BY MailAssumption DEF Shape, Fresh, Using, MailAssumption

LEMMA UnwoundShape == ASSUME TypeOK, NEW p \in Procs PROVE Shape(p, Unwound(p))
  <1>1. CASE p \in Probers
    BY <1>1, FreshShape DEF Unwound
  <1>2. CASE p \notin Probers
    BY <1>2 DEF Unwound, Shape, Using, TypeOK, Proc
  <1>3. QED
    BY <1>1, <1>2

LEMMA DiscardShape == ASSUME TypeOK, NEW p \in Procs PROVE Shape(p, Discard(p))
  <1>1. CASE p \in Probers
    BY <1>1, FreshShape DEF Discard
  <1>2. CASE p \notin Probers
    BY <1>2 DEF Discard, Fresh, Shape, Using
  <1>3. QED
    BY <1>1, <1>2

LEMMA ReleasedShape ==
  ASSUME TypeOK, NEW p \in Workers
  PROVE  Shape(p, Released(p)) /\ Shape(p, Unreturned(p)) /\ Shape(p, Rejected(p))
  <1>1. p \in Procs /\ p \notin Probers /\ proc[p] \in Proc
    BY MailAssumption DEF Procs, MailAssumption, TypeOK
  <1>2. QED
    BY <1>1, FreshShape DEF Released, Unreturned, Rejected, Shape, Using, Proc

\* A step that gives one process a record of the right shape.
LEMMA OneMoves ==
  ASSUME TypeOK, ProcsOK, NEW p \in Procs, NEW r, Shape(p, r),
         proc' = [proc EXCEPT ![p] = r]
  PROVE  ProcsOK'
  BY DEF TypeOK, ProcsOK

LEMMA ProcsStep == TypeOK /\ ProcsOK /\ [Next]_vars => ProcsOK'
  <1> SUFFICES ASSUME TypeOK, ProcsOK, [Next]_vars PROVE ProcsOK'
    OBVIOUS
  <1>0. /\ Workers \subseteq Procs /\ Probers \subseteq Procs
        /\ \A w \in Workers : w \notin Probers
    BY MailAssumption DEF Procs, MailAssumption
  <1>1. ASSUME NEW w \in Workers, Start(w) PROVE ProcsOK'
    BY <1>1, <1>0, FreshShape, OneMoves DEF Start
  <1>2. ASSUME NEW w \in Workers, ClaimSource(w) PROVE ProcsOK'
    BY <1>2, <1>0 DEF ClaimSource, At, Goto, TypeOK, ProcsOK, Shape, Using, Proc
  <1>3. ASSUME NEW w \in Workers, ClaimFails(w) PROVE ProcsOK'
    BY <1>3, <1>0, UnwoundShape, OneMoves DEF ClaimFails, Raise
  <1>4. ASSUME NEW w \in Workers, NEW e \in Emails, ClaimLedger(w, e) PROVE ProcsOK'
    BY <1>4, <1>0, MailAssumption DEF ClaimLedger, TypeOK, ProcsOK, Shape, Using, Proc, MailAssumption
  <1>5. ASSUME NEW p \in Probers, NEW e \in Emails, ClaimProbe(p, e) PROVE ProcsOK'
    BY <1>5, <1>0, MailAssumption DEF ClaimProbe, At, TypeOK, ProcsOK, Shape, Using, Proc, MailAssumption
  <1>6. ASSUME NEW p \in Procs, TokenDead(p) PROVE ProcsOK'
    BY <1>6, DiscardShape, OneMoves DEF TokenDead
  <1>7. ASSUME NEW p \in Procs, TokenAnswered(p) PROVE ProcsOK'
    <2>1. p \notin Probers => Shape(p, [proc[p] EXCEPT !.at = "request", !.tries = 0])
      BY <1>7 DEF TokenAnswered, At, TypeOK, ProcsOK, Shape, Using, Proc
    <2>2. QED
      BY <2>1, <1>7, FreshShape, OneMoves DEF TokenAnswered
  <1>8. ASSUME NEW p \in Procs, TokenRotated(p) PROVE ProcsOK'
    BY <1>8 DEF TokenRotated, At, TypeOK, ProcsOK, Shape, Using, Proc
  <1>9. ASSUME NEW p \in Procs, Persist(p) PROVE ProcsOK'
    <2>1. p \notin Probers =>
            Shape(p, [proc[p] EXCEPT !.at = proc[p].then, !.then = "request",
                                     !.tries = 0, !.token = 0])
      BY <1>9 DEF Persist, At, TypeOK, ProcsOK, Shape, Using, Proc
    <2>2. QED
      BY <2>1, <1>9, FreshShape, OneMoves DEF Persist
  <1>10. ASSUME NEW p \in Procs, PersistFails(p) PROVE ProcsOK'
    <2>1. CASE proc' = [proc EXCEPT ![p] = Discard(p)]
      BY <2>1, DiscardShape, OneMoves
    <2>2. CASE Raise(p)
      BY <2>2, UnwoundShape, OneMoves DEF Raise
    <2>3. CASE /\ proc[p].then = "wait"
               /\ proc' = [proc EXCEPT ![p].at = "wait", ![p].then = "request",
                                       ![p].token = 0]
      BY <2>3, <1>10 DEF PersistFails, At, TypeOK, ProcsOK, Shape, Using, Proc
    <2>4. QED
      BY <2>1, <2>2, <2>3, <1>10 DEF PersistFails
  <1>11. ASSUME NEW w \in Workers, CodeRequested(w) PROVE ProcsOK'
    BY <1>11, <1>0 DEF CodeRequested, At, TypeOK, ProcsOK, Shape, Using, Proc
  <1>12. ASSUME NEW w \in Workers, DomainRejected(w) PROVE ProcsOK'
    BY <1>12, <1>0, ReleasedShape, OneMoves DEF DomainRejected
  <1>13. ASSUME NEW w \in Workers, Submitted(w) PROVE ProcsOK'
    <2>1. CASE Raise(w)
      BY <2>1, <1>0, UnwoundShape, OneMoves DEF Raise
    <2>2. CASE Goto(w, "commit")
      BY <2>2, <1>13, <1>0 DEF Submitted, At, Goto, TypeOK, ProcsOK, Shape, Using, Proc
    <2>3. QED
      BY <2>1, <2>2, <1>13 DEF Submitted
  <1>14. ASSUME NEW w \in Workers, Commit(w) PROVE ProcsOK'
    BY <1>14, <1>0 DEF Commit, At, TypeOK, ProcsOK, Shape, Using, Proc
  <1>15. ASSUME NEW w \in Workers, SaveArtifacts(w) PROVE ProcsOK'
    BY <1>15, <1>0, FreshShape, UnwoundShape, OneMoves DEF SaveArtifacts, Raise
  <1>16. ASSUME NEW p \in Procs, FlowFails(p) PROVE ProcsOK'
    BY <1>16, UnwoundShape, OneMoves DEF FlowFails, Raise
  <1>17. ASSUME NEW w \in Workers, NothingToReturn(w) \/ DropLedger(w) PROVE ProcsOK'
    BY <1>17, <1>0, ReleasedShape, OneMoves DEF NothingToReturn, DropLedger
  <1>18. ASSUME NEW w \in Workers, ReturnRow(w) PROVE ProcsOK'
    BY <1>18, <1>0 DEF ReturnRow, Returnable, Goto, Box, TypeOK, ProcsOK, Shape, Using, Proc
  <1>19. ASSUME NEW w \in Workers, ReturnFails(w) PROVE ProcsOK'
    BY <1>19, <1>0, ReleasedShape, OneMoves DEF ReturnFails
  <1>20. ASSUME NEW p \in Procs, Killed(p) PROVE ProcsOK'
    BY <1>20, FreshShape, OneMoves DEF Killed
  <1>21. CASE UNCHANGED vars
    BY <1>21 DEF vars, ProcsOK
  <1>22. QED
    BY <1>1, <1>2, <1>3, <1>4, <1>5, <1>6, <1>7, <1>8, <1>9, <1>10, <1>11, <1>12,
       <1>13, <1>14, <1>15, <1>16, <1>17, <1>18, <1>19, <1>20, <1>21
       DEF Next, Refresh, Reservation, Register

-----------------------------------------------------------------------------
\* A worker between the two writes of a transaction has the lock.
LockOK == \A w \in Workers : proc[w].at \in {"source", "ledger"} => lock = w

\* Between the two writes of a return the row is in the pool file.
ReturnedRows == \A w \in Workers : At(w, "ledger") => pool[Box(w)] # None

\* Nobody works with an address whose SSO record is saved.
SavedOK == \A e \in saved : used[e] # None /\ \A w \in Workers : ~Holds(w, e)

IInv == /\ TypeOK /\ ProcsOK /\ LockOK /\ ReturnedRows
        /\ OwnedInLedger /\ Exclusive /\ RowsKept /\ SavedOK

\* The record r holds the address e.
Keeps(r, e) == r.box = e /\ (r.at \in Using \/ (r.at # "idle" /\ r.owned))

\* What becomes of the lock when one process moves outside a transaction.
LEMMA LockKept ==
  ASSUME TypeOK, LockOK, NEW p \in Procs, NEW r, r.at \notin {"source", "ledger"},
         proc' = [proc EXCEPT ![p] = r], lock' = lock \/ (lock = p /\ lock' = None)
  PROVE  LockOK'
  BY MailAssumption DEF TypeOK, LockOK, Procs, MailAssumption

LEMMA OutsideStages ==
  ASSUME TypeOK, NEW p \in Procs
  PROVE  /\ Fresh.at = "idle" /\ [Fresh EXCEPT !.at = "claim"].at = "claim"
         /\ Unwound(p).at \in {"idle", "release"}
         /\ Discard(p).at \in {"idle", "claim", "release"}
         /\ Released(p).at \in {"idle", "claim"}
         /\ Unreturned(p).at \in {"idle", "release"}
         /\ Rejected(p).at = "release"
  <1>1. proc[p] \in Proc /\ Fresh \in Proc
    BY FreshProc DEF TypeOK
  <1>2. QED
    BY <1>1 DEF Proc, Fresh, Unwound, Discard, Released, Unreturned, Rejected

LEMMA LockStep == IInv /\ [Next]_vars => LockOK'
  <1> SUFFICES ASSUME TypeOK, ProcsOK, LockOK, [Next]_vars PROVE LockOK'
    BY DEF IInv
  <1>0. /\ Workers \subseteq Procs /\ Probers \subseteq Procs
        /\ \A w \in Workers : w \notin Probers /\ w # None
    BY MailAssumption DEF Procs, MailAssumption
  <1>1. ASSUME NEW w \in Workers, Start(w) \/ ClaimFails(w) PROVE LockOK'
    BY <1>1, <1>0, OutsideStages, LockKept DEF Start, ClaimFails, Raise
  <1>2. ASSUME NEW w \in Workers, ClaimSource(w) PROVE LockOK'
    BY <1>2, <1>0 DEF ClaimSource, At, Goto, TypeOK, LockOK, Proc
  <1>3. ASSUME NEW w \in Workers, NEW e \in Emails, ClaimLedger(w, e) PROVE LockOK'
    BY <1>3, <1>0 DEF ClaimLedger, TypeOK, LockOK, Proc
  <1>4. ASSUME NEW p \in Probers, NEW e \in Emails, ClaimProbe(p, e) PROVE LockOK'
    BY <1>4, <1>0 DEF ClaimProbe, TypeOK, LockOK
  <1>5. ASSUME NEW p \in Procs, TokenDead(p) \/ FlowFails(p) PROVE LockOK'
    BY <1>5, OutsideStages, LockKept DEF TokenDead, FlowFails, Raise
  <1>6. ASSUME NEW p \in Procs, TokenAnswered(p) PROVE LockOK'
    <2>1. [proc[p] EXCEPT !.at = "request", !.tries = 0].at = "request"
      BY DEF TypeOK, Proc
    <2>2. QED
      BY <2>1, <1>6, OutsideStages, LockKept DEF TokenAnswered
  <1>7. ASSUME NEW p \in Procs, TokenRotated(p) PROVE LockOK'
    BY <1>7 DEF TokenRotated, TypeOK, LockOK, Procs, Proc
  <1>8. ASSUME NEW p \in Procs, Persist(p) PROVE LockOK'
    <2>1. [proc[p] EXCEPT !.at = proc[p].then, !.then = "request", !.tries = 0,
                          !.token = 0].at \in {"request", "wait"}
      BY DEF TypeOK, Proc
    <2>2. QED
      BY <2>1, <1>8, OutsideStages, LockKept DEF Persist
  <1>9. ASSUME NEW p \in Procs, PersistFails(p) PROVE LockOK'
    <2>1. CASE proc' = [proc EXCEPT ![p] = Discard(p)]
      BY <2>1, <1>9, OutsideStages, LockKept DEF PersistFails
    <2>2. CASE Raise(p)
      BY <2>2, <1>9, OutsideStages, LockKept DEF PersistFails, Raise
    <2>3. CASE proc' = [proc EXCEPT ![p].at = "wait", ![p].then = "request",
                                    ![p].token = 0]
      BY <2>3, <1>9 DEF PersistFails, TypeOK, LockOK, Procs, Proc
    <2>4. QED
      BY <2>1, <2>2, <2>3, <1>9 DEF PersistFails
  <1>10. ASSUME NEW w \in Workers, CodeRequested(w) \/ Commit(w) PROVE LockOK'
    BY <1>10, <1>0 DEF CodeRequested, Commit, TypeOK, LockOK, Proc
  <1>11. ASSUME NEW w \in Workers, DomainRejected(w) PROVE LockOK'
    BY <1>11, <1>0, OutsideStages, LockKept DEF DomainRejected
  <1>12. ASSUME NEW w \in Workers, Submitted(w) PROVE LockOK'
    <2>1. CASE Raise(w)
      BY <2>1, <1>12, <1>0, OutsideStages, LockKept DEF Submitted, Raise
    <2>2. CASE Goto(w, "commit")
      BY <2>2, <1>12, <1>0 DEF Submitted, Goto, TypeOK, LockOK, Proc
    <2>3. QED
      BY <2>1, <2>2, <1>12 DEF Submitted
  <1>13. ASSUME NEW w \in Workers, SaveArtifacts(w) PROVE LockOK'
    BY <1>13, <1>0, OutsideStages, LockKept DEF SaveArtifacts, Raise
  <1>14. ASSUME NEW w \in Workers, NothingToReturn(w) PROVE LockOK'
    BY <1>14, <1>0, OutsideStages, LockKept DEF NothingToReturn
  <1>15. ASSUME NEW w \in Workers, ReturnRow(w) PROVE LockOK'
    BY <1>15, <1>0 DEF ReturnRow, Goto, TypeOK, LockOK, Proc
  <1>16. ASSUME NEW w \in Workers, DropLedger(w) PROVE LockOK'
    <2>1. lock = w
      BY <1>16 DEF DropLedger, At, LockOK
    <2>2. QED
      BY <2>1, <1>16, <1>0, OutsideStages, LockKept DEF DropLedger
  <1>17. ASSUME NEW w \in Workers, ReturnFails(w) PROVE LockOK'
    <2>1. lock' = lock \/ (lock = w /\ lock' = None)
      BY <1>17 DEF ReturnFails, At, LockOK
    <2>2. QED
      BY <2>1, <1>17, <1>0, OutsideStages, LockKept DEF ReturnFails
  <1>18. ASSUME NEW p \in Procs, Killed(p) PROVE LockOK'
    BY <1>18, OutsideStages, LockKept DEF Killed
  <1>19. CASE UNCHANGED vars
    BY <1>19 DEF vars, LockOK
  <1>20. QED
    BY <1>1, <1>2, <1>3, <1>4, <1>5, <1>6, <1>7, <1>8, <1>9, <1>10, <1>11, <1>12,
       <1>13, <1>14, <1>15, <1>16, <1>17, <1>18, <1>19
       DEF Next, Refresh, Reservation, Register

-----------------------------------------------------------------------------
\* A process that moves to a record which holds nothing new takes no address.
LEMMA NothingTaken ==
  ASSUME TypeOK, NEW p \in Procs, NEW r, proc' = [proc EXCEPT ![p] = r],
         p \in Workers => \A e \in Emails : Keeps(r, e) => Holds(p, e)
  PROVE  \A w \in Workers, e \in Emails : Holds(w, e)' => Holds(w, e)
  BY DEF TypeOK, Holds, Keeps, Box, Procs

\* What a process may move to without taking an address.
LEMMA KeepsLess ==
  ASSUME TypeOK, ProcsOK, NEW w \in Workers, NEW e \in Emails
  PROVE  /\ ~Keeps(Fresh, e) /\ ~Keeps([Fresh EXCEPT !.at = "claim"], e)
         /\ Keeps(Unwound(w), e) => Holds(w, e)
         /\ ~Keeps(Discard(w), e) /\ ~Keeps(Released(w), e)
         /\ Keeps(Unreturned(w), e) => Holds(w, e)
         /\ Keeps(Rejected(w), e) => Holds(w, e)
  <1>1. w \in Procs /\ w \notin Probers /\ proc[w] \in Proc /\ Fresh \in Proc /\ e # None
    BY FreshProc, MailAssumption DEF Procs, MailAssumption, TypeOK
  <1>2. Shape(w, proc[w])
    BY <1>1 DEF ProcsOK
  <1>3. ~Keeps(Fresh, e) /\ ~Keeps([Fresh EXCEPT !.at = "claim"], e)
    BY <1>1 DEF Keeps, Fresh
  <1>4. Keeps(Unwound(w), e) => Holds(w, e)
    BY <1>1, <1>2 DEF Keeps, Unwound, Holds, Box, Shape, Using, Proc
  <1>5. ~Keeps(Discard(w), e)
    BY <1>1, <1>3 DEF Keeps, Discard, Fresh
  <1>6. ~Keeps(Released(w), e)
    BY <1>1, <1>3 DEF Keeps, Released, Proc, Using
  <1>7. Keeps(Unreturned(w), e) => Holds(w, e)
    BY <1>1, <1>2, <1>3 DEF Keeps, Unreturned, Holds, Box, Shape, Using, Proc
  <1>8. Keeps(Rejected(w), e) => Holds(w, e)
    BY <1>1, <1>2 DEF Keeps, Rejected, Holds, Box, Shape, Using, Proc
  <1>9. QED
    BY <1>3, <1>4, <1>5, <1>6, <1>7, <1>8

\* Every step but a reservation takes no address.
LEMMA OnlyClaimTakes ==
  ASSUME TypeOK, ProcsOK, [Next]_vars,
         \A w \in Workers, e \in Emails : ~ClaimLedger(w, e)
  PROVE  \A w \in Workers, e \in Emails : Holds(w, e)' => Holds(w, e)
  <1> DEFINE Goal == \A w \in Workers, e \in Emails : Holds(w, e)' => Holds(w, e)
  <1>0. /\ Workers \subseteq Procs /\ Probers \subseteq Procs
        /\ \A p \in Probers : p \notin Workers
        /\ \A p \in Procs : proc[p] \in Proc
    BY MailAssumption DEF Procs, MailAssumption, TypeOK
  <1>1. ASSUME NEW w \in Workers, Start(w) \/ ClaimFails(w) PROVE Goal
    BY <1>1, <1>0, KeepsLess, NothingTaken DEF Start, ClaimFails, Raise
  <1>2. ASSUME NEW w \in Workers, ClaimSource(w) PROVE Goal
    BY <1>2, <1>0 DEF ClaimSource, At, Goto, TypeOK, Holds, Box, Using, Proc
  <1>4. ASSUME NEW p \in Probers, NEW e \in Emails, ClaimProbe(p, e) PROVE Goal
    BY <1>4, <1>0 DEF ClaimProbe, TypeOK, Holds, Box
  <1>5. ASSUME NEW p \in Procs, TokenDead(p) \/ FlowFails(p) PROVE Goal
    BY <1>5, KeepsLess, NothingTaken DEF TokenDead, FlowFails, Raise
  <1>6. ASSUME NEW p \in Procs, TokenAnswered(p) PROVE Goal
    <2>1. p \in Workers => \A e \in Emails :
            Keeps([proc[p] EXCEPT !.at = "request", !.tries = 0], e) => Holds(p, e)
      BY <1>6, <1>0 DEF TokenAnswered, At, Keeps, Holds, Box, Using, Proc
    <2>2. QED
      BY <2>1, <1>0, <1>6, KeepsLess, NothingTaken DEF TokenAnswered
  <1>7. ASSUME NEW p \in Procs, TokenRotated(p) PROVE Goal
    BY <1>7, <1>0 DEF TokenRotated, TypeOK, Holds, Box, Using, Proc
  <1>8. ASSUME NEW p \in Procs, Persist(p) PROVE Goal
    <2>1. p \in Workers => \A e \in Emails :
            Keeps([proc[p] EXCEPT !.at = proc[p].then, !.then = "request",
                                  !.tries = 0, !.token = 0], e) => Holds(p, e)
      BY <1>8, <1>0 DEF Persist, At, Keeps, Holds, Box, Using, Proc
    <2>2. QED
      BY <2>1, <1>0, <1>8, KeepsLess, NothingTaken DEF Persist
  <1>9. ASSUME NEW p \in Procs, PersistFails(p) PROVE Goal
    <2>1. CASE proc' = [proc EXCEPT ![p] = Discard(p)]
      BY <2>1, KeepsLess, NothingTaken
    <2>2. CASE Raise(p)
      BY <2>2, KeepsLess, NothingTaken DEF Raise
    <2>3. CASE proc' = [proc EXCEPT ![p].at = "wait", ![p].then = "request",
                                    ![p].token = 0]
      BY <2>3, <1>9, <1>0 DEF PersistFails, At, TypeOK, Holds, Box, Using, Proc
    <2>4. QED
      BY <2>1, <2>2, <2>3, <1>9 DEF PersistFails
  <1>10. ASSUME NEW w \in Workers, CodeRequested(w) \/ Commit(w) PROVE Goal
    BY <1>10, <1>0 DEF CodeRequested, Commit, At, TypeOK, Holds, Box, Using, Proc
  <1>11. ASSUME NEW w \in Workers, DomainRejected(w) PROVE Goal
    BY <1>11, <1>0, KeepsLess, NothingTaken DEF DomainRejected
  <1>12. ASSUME NEW w \in Workers, Submitted(w) PROVE Goal
    <2>1. CASE Raise(w)
      BY <2>1, <1>0, KeepsLess, NothingTaken DEF Raise
    <2>2. CASE Goto(w, "commit")
      BY <2>2, <1>12, <1>0 DEF Submitted, At, Goto, TypeOK, Holds, Box, Using, Proc
    <2>3. QED
      BY <2>1, <2>2, <1>12 DEF Submitted
  <1>13. ASSUME NEW w \in Workers, SaveArtifacts(w) PROVE Goal
    BY <1>13, <1>0, KeepsLess, NothingTaken DEF SaveArtifacts, Raise
  <1>14. ASSUME NEW w \in Workers, NothingToReturn(w) \/ DropLedger(w) PROVE Goal
    BY <1>14, <1>0, KeepsLess, NothingTaken DEF NothingToReturn, DropLedger
  <1>15. ASSUME NEW w \in Workers, ReturnRow(w) PROVE Goal
    BY <1>15, <1>0 DEF ReturnRow, Returnable, At, Goto, TypeOK, Holds, Box, Using, Proc
  <1>16. ASSUME NEW w \in Workers, ReturnFails(w) PROVE Goal
    BY <1>16, <1>0, KeepsLess, NothingTaken DEF ReturnFails
  <1>17. ASSUME NEW p \in Procs, Killed(p) PROVE Goal
    BY <1>17, KeepsLess, NothingTaken DEF Killed
  <1>18. CASE UNCHANGED vars
    BY <1>18 DEF vars, Holds, Box
  <1>19. QED
    BY <1>1, <1>2, <1>4, <1>5, <1>6, <1>7, <1>8, <1>9, <1>10, <1>11, <1>12,
       <1>13, <1>14, <1>15, <1>16, <1>17, <1>18
       DEF Next, Refresh, Reservation, Register

-----------------------------------------------------------------------------
\* The ledger keeps a row as long as any process holds its address, and the
\* row of a saved address for good.
LEMMA HoldingKept ==
  ASSUME OwnedInLedger, Exclusive, SavedOK, saved' = saved,
         \A w \in Workers, e \in Emails : Holds(w, e)' => Holds(w, e),
         \A e \in Emails : used[e] # None /\ used'[e] = None
                             => e \notin saved /\ \A w \in Workers : ~Holds(w, e)',
         saved \subseteq Emails
  PROVE  OwnedInLedger' /\ Exclusive' /\ SavedOK'
  <1>1. OwnedInLedger'
    BY DEF OwnedInLedger
  <1>2. Exclusive'
    BY DEF Exclusive
  <1>3. SavedOK'
    BY DEF SavedOK
  <1>4. QED
    BY <1>1, <1>2, <1>3

LEMMA TokenNotNone == \A t \in Tokens : t # None
  BY MailAssumption DEF MailAssumption, Tokens

LEMMA HoldingStep == IInv /\ [Next]_vars => OwnedInLedger' /\ Exclusive' /\ SavedOK'
  <1> SUFFICES ASSUME IInv, [Next]_vars
               PROVE  OwnedInLedger' /\ Exclusive' /\ SavedOK'
    OBVIOUS
  <1> USE DEF IInv
  <1>0. Workers \subseteq Procs /\ saved \subseteq Emails /\ \A w \in Workers : w # None
    BY MailAssumption DEF Procs, TypeOK, MailAssumption
  <1>1. CASE \E w \in Workers, e \in Emails : ClaimLedger(w, e)
    <2> PICK w \in Workers, e \in Emails : ClaimLedger(w, e)
      BY <1>1
    <2>1. used[e] = None /\ pool[e] # None /\ w \in Procs
      BY <1>0 DEF ClaimLedger, FirstOf, Claimable
    <2>2. /\ used'[e] # None /\ \A x \in Emails \ {e} : used'[x] = used[x]
          /\ saved' = saved
      BY <2>1 DEF ClaimLedger, TypeOK
    <2>3. \A x \in Workers \ {w}, y \in Emails : Holds(x, y)' => Holds(x, y)
      BY <1>0 DEF ClaimLedger, TypeOK, Holds, Box
    <2>4. \A y \in Emails : Holds(w, y)' => y = e
      BY <1>0 DEF ClaimLedger, TypeOK, Holds, Box, Proc
    <2>5. \A x \in Workers : ~Holds(x, e)
      BY <2>1 DEF OwnedInLedger
    <2>6. OwnedInLedger'
      BY <2>2, <2>3, <2>4 DEF OwnedInLedger
    <2>7. Exclusive'
      BY <2>3, <2>4, <2>5 DEF Exclusive
    <2>8. e \notin saved
      BY <2>1 DEF SavedOK
    <2>9. SavedOK'
      BY <2>2, <2>3, <2>4, <2>8, <1>0 DEF SavedOK
    <2>10. QED
      BY <2>6, <2>7, <2>9
  <1>2. CASE \A w \in Workers, e \in Emails : ~ClaimLedger(w, e)
    <2>1. \A w \in Workers, e \in Emails : Holds(w, e)' => Holds(w, e)
      BY <1>2, OnlyClaimTakes
    <2>2. CASE UNCHANGED <<used, saved>>
      BY <2>1, <2>2, <1>0, HoldingKept
    <2>3. ASSUME NEW p \in Procs, Persist(p)
          PROVE  OwnedInLedger' /\ Exclusive' /\ SavedOK'
      <3>1. saved' = saved
        BY <2>3 DEF Persist
      <3>2. proc[p].token # None
        BY TokenNotNone DEF TypeOK, Proc
      <3>3. \A e \in Emails : used[e] # None => used'[e] # None
        BY <3>2, <2>3 DEF Persist, TypeOK
      <3>4. QED
        BY <2>1, <3>1, <3>3, <1>0, HoldingKept
    <2>4. ASSUME NEW w \in Workers, DropLedger(w)
          PROVE  OwnedInLedger' /\ Exclusive' /\ SavedOK'
      <3>1. Holds(w, Box(w)) /\ Box(w) \in Emails
        BY <2>4, <1>0 DEF DropLedger, At, Holds, Using, ProcsOK, Shape, TypeOK, Proc, Box
      <3>2. \A x \in Workers \ {w} : ~Holds(x, Box(w)) /\ proc'[x] = proc[x]
        BY <3>1, <2>4, <1>0 DEF Exclusive, DropLedger, TypeOK
      <3>3. \A x \in Workers \ {w} : ~Keeps(proc'[x], Box(w))
        BY <3>2 DEF Holds, Keeps, Box
      <3>4. ~Keeps(proc'[w], Box(w))
        BY <2>4, <1>0, <3>1, KeepsLess DEF DropLedger, TypeOK
      <3>5. \A e \in Emails : e = Box(w) => \A x \in Workers : ~Holds(x, e)'
        BY <3>3, <3>4 DEF Holds, Keeps, Box
      <3>6. Box(w) \notin saved
        BY <3>1 DEF SavedOK
      <3>7. saved' = saved /\ \A x \in Emails : x # Box(w) => used'[x] = used[x]
        BY <2>4 DEF DropLedger, TypeOK
      <3>8. \A e \in Emails : used[e] # None /\ used'[e] = None
                                => e \notin saved /\ \A x \in Workers : ~Holds(x, e)'
        BY <3>5, <3>6, <3>7
      <3>9. QED
        BY <2>1, <3>7, <3>8, <1>0, HoldingKept
    <2>5. ASSUME NEW w \in Workers, SaveArtifacts(w)
          PROVE  OwnedInLedger' /\ Exclusive' /\ SavedOK'
      <3>1. Holds(w, Box(w)) /\ Box(w) \in Emails /\ ~proc[w].owned
        BY <2>5, <1>0 DEF SaveArtifacts, At, Holds, Using, ProcsOK, Shape, TypeOK, Proc, Box
      <3>2. used' = used /\ saved' = saved \cup {Box(w)}
        BY <2>5 DEF SaveArtifacts, files
      <3>3. \A x \in Workers \ {w} : ~Holds(x, Box(w)) /\ proc'[x] = proc[x]
        BY <3>1, <2>5, <1>0 DEF Exclusive, SaveArtifacts, Raise, TypeOK
      <3>4. \A x \in Workers \ {w} : ~Keeps(proc'[x], Box(w))
        BY <3>3 DEF Holds, Keeps, Box
      <3>5. proc'[w] = Fresh \/ proc'[w] = Unwound(w)
        BY <2>5, <1>0 DEF SaveArtifacts, Raise, TypeOK
      <3>6. ~Keeps(Unwound(w), Box(w))
        BY <3>1, <1>0, MailAssumption
           DEF Unwound, Keeps, Using, MailAssumption, TypeOK, Proc, Fresh
      <3>7. ~Keeps(proc'[w], Box(w))
        BY <3>5, <3>6, <3>1, KeepsLess
      <3>8. \A x \in Workers : ~Keeps(proc'[x], Box(w))
        BY <3>4, <3>7
      <3>9. OwnedInLedger' /\ Exclusive'
        BY <2>1, <3>2 DEF OwnedInLedger, Exclusive
      <3>10. \A e \in saved : used'[e] # None /\ \A x \in Workers : ~Holds(x, e)'
        BY <2>1, <3>2, <1>0 DEF SavedOK
      <3>11. used[Box(w)] # None
        BY <3>1 DEF OwnedInLedger
      <3>12. \A e \in Emails : e = Box(w) => \A x \in Workers : ~Holds(x, e)'
        BY <3>8 DEF Holds, Keeps, Box
      <3>13. SavedOK'
        BY <3>1, <3>2, <3>10, <3>11, <3>12 DEF SavedOK
      <3>14. QED
        BY <3>9, <3>13
    <2>6. QED
      BY <1>2, <2>2, <2>3, <2>4, <2>5
         DEF Next, Refresh, Reservation, Register, Start, ClaimSource, ClaimFails,
             ClaimProbe, TokenDead, TokenAnswered, TokenRotated, PersistFails,
             FlowFails, Killed, CodeRequested, DomainRejected, Submitted, Commit,
             NothingToReturn, ReturnRow, ReturnFails, files, vars
  <1>3. QED
    BY <1>1, <1>2

-----------------------------------------------------------------------------
\* Only ReturnRow puts a worker between the two writes of a return.
LEMMA LedgerEntered ==
  ASSUME TypeOK, [Next]_vars, NEW w \in Workers, At(w, "ledger")'
  PROVE  ReturnRow(w) \/ proc'[w] = proc[w]
  <1> DEFINE Goal == ReturnRow(w) \/ proc'[w] = proc[w]
  <1>0. /\ Workers \subseteq Procs /\ Probers \subseteq Procs
        /\ proc'[w].at = "ledger" /\ \A p \in Procs : proc[p] \in Proc
    BY DEF Procs, At, TypeOK
  <1>1. ASSUME NEW p \in Procs, NEW r, r.at # "ledger", proc' = [proc EXCEPT ![p] = r]
        PROVE  Goal
    BY <1>0, <1>1 DEF TypeOK
  <1>2. ASSUME NEW x \in Workers, Start(x) \/ ClaimFails(x) PROVE Goal
    BY ZenonT(30), <1>0, <1>1, <1>2, OutsideStages DEF Start, ClaimFails, Raise
  <1>3. ASSUME NEW x \in Workers, ClaimSource(x) \/ CodeRequested(x) PROVE Goal
    BY <1>0, <1>3 DEF ClaimSource, Goto, CodeRequested, TypeOK, Proc
  <1>16. ASSUME NEW x \in Workers, Commit(x) PROVE Goal
    <2>1. \A y \in Workers \ {x} : proc'[y] = proc[y]
      BY <1>16, <1>0 DEF Commit, TypeOK
    <2>2. proc'[x].at = "artifacts"
      BY <1>16, <1>0 DEF Commit, TypeOK, Proc
    <2>3. QED
      BY <2>1, <2>2, <1>0
  <1>17. ASSUME NEW x \in Workers, NEW e \in Emails, ClaimLedger(x, e) PROVE Goal
    <2>1. \A y \in Workers \ {x} : proc'[y] = proc[y]
      BY <1>17, <1>0 DEF ClaimLedger, TypeOK
    <2>2. proc'[x].at = "source"
      BY <1>17, <1>0 DEF ClaimLedger, TypeOK, Proc
    <2>3. QED
      BY <2>1, <2>2, <1>0
  <1>4. ASSUME NEW p \in Probers, NEW e \in Emails, ClaimProbe(p, e) PROVE Goal
    BY <1>0, <1>4 DEF ClaimProbe, TypeOK, Proc
  <1>5. ASSUME NEW p \in Procs, TokenDead(p) \/ FlowFails(p) \/ Killed(p) PROVE Goal
    BY <1>0, <1>1, <1>5, OutsideStages DEF TokenDead, FlowFails, Killed, Raise
  <1>6. ASSUME NEW p \in Procs, TokenAnswered(p) PROVE Goal
    <2>1. [proc[p] EXCEPT !.at = "request", !.tries = 0].at = "request"
      BY <1>0 DEF Proc
    <2>2. QED
      BY <2>1, <1>1, <1>6, OutsideStages DEF TokenAnswered
  <1>7. ASSUME NEW p \in Procs, TokenRotated(p) PROVE Goal
    BY <1>0, <1>7 DEF TokenRotated, TypeOK, Proc
  <1>8. ASSUME NEW p \in Procs, Persist(p) PROVE Goal
    <2>1. [proc[p] EXCEPT !.at = proc[p].then, !.then = "request", !.tries = 0,
                          !.token = 0].at \in {"request", "wait"}
      BY <1>0 DEF Proc
    <2>2. QED
      BY <2>1, <1>1, <1>8, OutsideStages DEF Persist
  <1>9. ASSUME NEW p \in Procs, PersistFails(p) PROVE Goal
    <2>1. CASE proc' = [proc EXCEPT ![p] = Discard(p)]
      BY <2>1, <1>1, OutsideStages
    <2>2. CASE Raise(p)
      BY <2>2, <1>1, OutsideStages DEF Raise
    <2>3. CASE proc' = [proc EXCEPT ![p].at = "wait", ![p].then = "request",
                                    ![p].token = 0]
      BY <2>3, <1>0 DEF TypeOK, Proc
    <2>4. QED
      BY <2>1, <2>2, <2>3, <1>9 DEF PersistFails
  <1>10. ASSUME NEW x \in Workers, Submitted(x) PROVE Goal
    <2>1. CASE Raise(x)
      BY <2>1, <1>0, <1>1, OutsideStages DEF Raise
    <2>2. CASE Goto(x, "commit")
      BY <2>2, <1>0 DEF Goto, TypeOK, Proc
    <2>3. QED
      BY <2>1, <2>2, <1>10 DEF Submitted
  <1>11. ASSUME NEW x \in Workers, SaveArtifacts(x) PROVE Goal
    BY <1>0, <1>1, <1>11, OutsideStages DEF SaveArtifacts, Raise
  <1>12. ASSUME NEW x \in Workers,
                DomainRejected(x) \/ NothingToReturn(x) \/ DropLedger(x) \/ ReturnFails(x)
         PROVE  Goal
    BY <1>0, <1>1, <1>12, OutsideStages
       DEF DomainRejected, NothingToReturn, DropLedger, ReturnFails
  <1>13. ASSUME NEW x \in Workers, ReturnRow(x) PROVE Goal
    BY <1>0, <1>13 DEF ReturnRow, Goto, TypeOK
  <1>14. CASE UNCHANGED vars
    BY <1>14 DEF vars
  <1>15. QED
    BY <1>2, <1>3, <1>4, <1>5, <1>6, <1>7, <1>8, <1>9, <1>10, <1>11, <1>12, <1>13,
       <1>14, <1>16, <1>17
       DEF Next, Refresh, Reservation, Register

\* What the steps that write a file do to the rows.
LEMMA RowsStep == IInv /\ [Next]_vars => RowsKept' /\ ReturnedRows'
  <1> SUFFICES ASSUME IInv, [Next]_vars PROVE RowsKept' /\ ReturnedRows'
    OBVIOUS
  <1> USE DEF IInv
  <1>0. /\ Workers \subseteq Procs /\ \A w \in Workers : w # None
        /\ \A p \in Procs : proc[p] \in Proc
    BY MailAssumption DEF Procs, TypeOK, MailAssumption
  <1>1. ASSUME NEW w \in Workers, At(w, "ledger") \/ (Returnable(w) /\ At(w, "release"))
        PROVE  Box(w) \in Emails /\ used[Box(w)] # None
    <2>1. Box(w) \in Emails
      BY <1>0, <1>1 DEF At, Returnable, ProcsOK, Shape, Proc, Box
    <2>2. Holds(w, Box(w))
      BY <1>0, <1>1 DEF At, Returnable, ProcsOK, Shape, Proc, Box, Holds, Using
    <2>3. QED
      BY <2>1, <2>2 DEF OwnedInLedger
  <1>2. ASSUME NEW w \in Workers, At(w, "ledger")', proc'[w] = proc[w],
               \A e \in Emails : pool[e] # None => pool'[e] # None
        PROVE  pool'[proc'[w].box] # None
    <2>1. At(w, "ledger") /\ proc'[w].box = Box(w)
      BY <1>2 DEF At, Box
    <2>2. pool[Box(w)] # None
      BY <2>1 DEF ReturnedRows
    <2>3. Box(w) \in Emails
      BY <2>1, <1>1
    <2>4. \A e \in Emails : e = Box(w) => pool'[e] # None
      BY <2>2, <1>2
    <2>5. QED
      BY <2>1, <2>3, <2>4
  <1>3. CASE UNCHANGED <<pool, used>>
    <2>1. RowsKept'
      BY <1>3 DEF RowsKept
    <2>2. ASSUME NEW w \in Workers, ReturnRow(w) PROVE pool'[proc'[w].box] # None
      <3>1. Box(w) \in Emails /\ used[Box(w)] # None
        BY <2>2, <1>1 DEF ReturnRow
      <3>2. pool' = [pool EXCEPT ![Box(w)] = used[Box(w)]] /\ w \in Procs
        BY <2>2, <1>0 DEF ReturnRow, ReturnedToken
      <3>3. proc'[w].box = Box(w)
        BY <2>2, <3>2, <1>0 DEF ReturnRow, Goto, Box, TypeOK, Proc
      <3>4. QED
        BY <3>1, <3>2, <3>3 DEF TypeOK
    <2>3. ASSUME NEW w \in Workers, At(w, "ledger")', proc'[w] = proc[w]
          PROVE  pool'[proc'[w].box] # None
      BY <2>3, <1>2, <1>3
    <2>4. \A w \in Workers : At(w, "ledger")' => pool'[proc'[w].box] # None
      BY <2>2, <2>3, LedgerEntered
    <2>5. QED
      BY <2>1, <2>4 DEF ReturnedRows, Box
  <1>4. ASSUME NEW w \in Workers, NEW e \in Emails, ClaimLedger(w, e)
        PROVE  RowsKept' /\ ReturnedRows'
    <2>1. pool' = pool /\ used' = [used EXCEPT ![e] = pool[e]] /\ pool[e] # None
      BY <1>4 DEF ClaimLedger, FirstOf, Claimable
    <2>2. RowsKept'
      BY <2>1 DEF RowsKept, TypeOK
    <2>3. \A x \in Workers : ~ReturnRow(x)
      BY <1>4, <1>0 DEF ClaimLedger, ReturnRow, Goto, TypeOK, Proc
    <2>4. \A x \in Workers : At(x, "ledger")' => pool'[proc'[x].box] # None
      BY <2>1, <2>3, <1>2, LedgerEntered
    <2>5. QED
      BY <2>2, <2>4 DEF ReturnedRows, Box
  <1>5. ASSUME NEW w \in Workers, ClaimSource(w) PROVE RowsKept' /\ ReturnedRows'
    <2>1. RowsKept'
      BY <1>5 DEF ClaimSource, RowsKept
    <2>2. \A x \in Workers : ~At(x, "ledger")'
      BY <1>5, <1>0 DEF ClaimSource, LockOK, At, Goto, TypeOK, Proc
    <2>3. QED
      BY <2>1, <2>2 DEF ReturnedRows
  <1>6. ASSUME NEW p \in Procs, Persist(p) PROVE RowsKept' /\ ReturnedRows'
    <2>1. proc[p].token # None
      BY TokenNotNone DEF TypeOK, Proc
    <2>2. \A e \in Emails : /\ pool[e] # None => pool'[e] # None
                            /\ used[e] # None => used'[e] # None
      BY <2>1, <1>6 DEF Persist, TypeOK
    <2>3. RowsKept'
      BY <2>2 DEF RowsKept
    <2>4. \A x \in Workers : ~At(x, "ledger")
      BY <1>6, <1>0 DEF Persist, LockOK, At
    <2>5. \A x \in Workers : ~ReturnRow(x) \/ pool' = [pool EXCEPT ![Box(x)] = used[Box(x)]]
      BY DEF ReturnRow, ReturnedToken
    <2>6. \A x \in Workers : At(x, "ledger")' => ReturnRow(x)
      BY <2>4, LedgerEntered DEF At
    <2>7. \A x \in Workers : ReturnRow(x) => lock' = x
      BY DEF ReturnRow
    <2>8. lock' = None
      BY <1>6 DEF Persist
    <2>9. QED
      BY <2>3, <2>6, <2>7, <2>8, <1>0 DEF ReturnedRows
  <1>7. ASSUME NEW w \in Workers, ReturnRow(w) PROVE RowsKept' /\ ReturnedRows'
    <2>1. Box(w) \in Emails /\ used[Box(w)] # None
      BY <1>1, <1>7 DEF ReturnRow
    <2>2. pool' = [pool EXCEPT ![Box(w)] = used[Box(w)]] /\ used' = used
      BY <1>7 DEF ReturnRow, ReturnedToken
    <2>3. \A e \in Emails : pool[e] # None => pool'[e] # None
      BY <2>1, <2>2 DEF TypeOK
    <2>4. RowsKept'
      BY <2>2, <2>3 DEF RowsKept
    <2>5. \A x \in Workers \ {w} : ~At(x, "ledger")'
      BY <1>7, <1>0 DEF ReturnRow, LockOK, At, Goto, TypeOK
    <2>6. proc'[w].box = proc[w].box
      BY <1>7, <1>0 DEF ReturnRow, Goto, TypeOK, Proc
    <2>7. pool'[Box(w)'] # None
      BY <2>1, <2>2, <2>6 DEF Box, TypeOK
    <2>8. QED
      BY <2>4, <2>5, <2>7 DEF ReturnedRows
  <1>8. ASSUME NEW w \in Workers, DropLedger(w) PROVE RowsKept' /\ ReturnedRows'
    <2>1. pool' = pool /\ pool[Box(w)] # None /\ used' = [used EXCEPT ![Box(w)] = None]
      BY <1>8 DEF DropLedger, ReturnedRows
    <2>2. RowsKept'
      BY <2>1 DEF RowsKept, TypeOK
    <2>3. lock' = None
      BY <1>8 DEF DropLedger
    <2>4. \A x \in Workers : ~ReturnRow(x)
      BY <2>3, <1>0 DEF ReturnRow
    <2>5. \A x \in Workers : At(x, "ledger")' => pool'[proc'[x].box] # None
      BY <2>1, <2>4, <1>2, LedgerEntered
    <2>6. QED
      BY <2>2, <2>5 DEF ReturnedRows, Box
  <1>9. QED
    BY <1>3, <1>4, <1>5, <1>6, <1>7, <1>8
       DEF Next, Refresh, Reservation, Register, Start, ClaimFails,
           ClaimProbe, TokenDead, TokenAnswered, TokenRotated, PersistFails,
           FlowFails, Killed, CodeRequested, DomainRejected, Submitted, Commit,
           SaveArtifacts, NothingToReturn, ReturnFails, files, vars

-----------------------------------------------------------------------------
LEMMA InitIInv == Init => IInv
  <1> SUFFICES ASSUME Init PROVE IInv
    OBVIOUS
  <1>1. \A p \in Procs : proc[p] = Fresh
    BY DEF Init
  <1>2. TypeOK
    BY FreshProc, Zeros, MailAssumption DEF Init, TypeOK, MailAssumption
  <1>3. ProcsOK
    BY <1>1, FreshShape DEF ProcsOK
  <1>4. Workers \subseteq Procs
    BY DEF Procs
  <1>5. LockOK /\ ReturnedRows
    BY <1>1, <1>4 DEF LockOK, ReturnedRows, At, Fresh
  <1>6. \A w \in Workers, e \in Emails : ~Holds(w, e)
    BY <1>1, <1>4 DEF Holds, Using, Fresh
  <1>7. OwnedInLedger /\ Exclusive
    BY <1>6 DEF OwnedInLedger, Exclusive
  <1>8. RowsKept
    BY Zeros, TokenNotNone DEF Init, RowsKept
  <1>9. SavedOK
    BY DEF Init, SavedOK
  <1>10. QED
    BY <1>2, <1>3, <1>5, <1>7, <1>8, <1>9 DEF IInv

LEMMA IInvStep == IInv /\ [Next]_vars => IInv'
  BY TypeStep, ProcsStep, LockStep, HoldingStep, RowsStep DEF IInv

\* The strengthening holds in every state of every pool.
THEOREM Inductive == Spec => []IInv
  BY InitIInv, IInvStep, PTL DEF Spec

\* The pool, the ledger, the lock, the processes and the ghosts always have
\* their types, for any number of addresses, workers and probes: in particular
\* create() and the domain retry never exceed their attempts.
THEOREM PoolTypeCorrect == Spec => []TypeOK
  BY Inductive, PTL DEF IInv

\* However reservations, returns, kills and failed writes interleave, no two
\* registration processes work with one address.
THEOREM AddressesAreExclusive == Spec => []Exclusive
  BY Inductive, PTL DEF IInv

\* Every imported row is always in the pool file or in the ledger beside it.
THEOREM RowsAreKept == Spec => []RowsKept
  BY Inductive, PTL DEF IInv

\* An address whose SSO record was written is never reserved again.
THEOREM SavedStaysSpentAlways == Spec => []SavedStaysSpent
  <1>1. IInv => SavedStaysSpent
    BY DEF IInv, SavedOK, SavedStaysSpent
  <1>2. QED
    BY <1>1, Inductive, PTL

\* Together, what the two files and the processes keep through every kill and
\* every failed write.
THEOREM RowsAreSafe == Spec => []RowsSafe
  <1>1. IInv /\ SavedStaysSpent => RowsSafe
    BY DEF IInv, RowsSafe
  <1>2. QED
    BY <1>1, Inductive, SavedStaysSpentAlways, PTL

-----------------------------------------------------------------------------
(* The refinement of MailLedger. *)

LEMMA Statuses ==
  ASSUME Exclusive, NEW e \in Emails
  PROVE  /\ used[e] = None => Status[e] = Free
         /\ \A w \in Workers : used[e] # None /\ Holds(w, e) => Status[e] = w
         /\ used[e] # None /\ (\A w \in Workers : ~Holds(w, e)) => Status[e] = Spent
  <1>1. ASSUME NEW w \in Workers, Holds(w, e)
        PROVE  (CHOOSE x \in Workers : Holds(x, e)) = w
    BY <1>1 DEF Exclusive
  <1>2. QED
    BY <1>1 DEF Status

LEMMA NextStatuses ==
  ASSUME Exclusive', NEW e \in Emails
  PROVE  /\ used'[e] = None => Status'[e] = Free
         /\ \A w \in Workers : used'[e] # None /\ Holds(w, e)' => Status'[e] = w
         /\ used'[e] # None /\ (\A w \in Workers : ~Holds(w, e)') => Status'[e] = Spent
  <1>1. ASSUME NEW w \in Workers, Holds(w, e)'
        PROVE  (CHOOSE x \in Workers : Holds(x, e)') = w
    BY <1>1 DEF Exclusive
  <1>2. QED
    BY <1>1 DEF Status

\* An address whose row stays on its side of the ledger and whose holder, if
\* it has one, stays, keeps its status.
LEMMA StatusKept ==
  ASSUME IInv, Exclusive', NEW e \in Emails,
         used[e] = None <=> used'[e] = None,
         \A w \in Workers : Holds(w, e)' <=> Holds(w, e)
  PROVE  Status'[e] = Status[e]
  <1>1. CASE used[e] = None
    BY <1>1, Statuses, NextStatuses DEF IInv
  <1>2. CASE used[e] # None /\ \E w \in Workers : Holds(w, e)
    BY <1>2, Statuses, NextStatuses DEF IInv
  <1>3. CASE used[e] # None /\ \A w \in Workers : ~Holds(w, e)
    BY <1>3, Statuses, NextStatuses DEF IInv
  <1>4. QED
    BY <1>1, <1>2, <1>3

\* A step moves at most one process.
LEMMA OneMover ==
  ASSUME TypeOK, [Next]_vars
  PROVE  \E p : \A q \in Procs : q # p => proc'[q] = proc[q]
  <1> DEFINE Goal == \E p : \A q \in Procs : q # p => proc'[q] = proc[q]
  <1>0. Workers \subseteq Procs /\ Probers \subseteq Procs
    BY DEF Procs
  <1>1. ASSUME NEW p \in Procs, Refresh(p) PROVE Goal
    <2>1. \A q \in Procs : q # p => proc'[q] = proc[q]
      BY <1>1 DEF Refresh, TokenDead, TokenAnswered, TokenRotated, Persist,
                  PersistFails, FlowFails, Killed, Raise, TypeOK
    <2>2. QED
      BY <2>1
  <1>2. ASSUME NEW w \in Workers, Reservation(w) \/ Register(w) PROVE Goal
    <2>1. \A q \in Procs : q # w => proc'[q] = proc[q]
      BY <1>0, <1>2
         DEF Reservation, Start, ClaimLedger, ClaimSource, ClaimFails,
             NothingToReturn, ReturnRow, DropLedger, ReturnFails, Register,
             CodeRequested, DomainRejected, Submitted, Commit, SaveArtifacts,
             Raise, Goto, TypeOK
    <2>2. QED
      BY <2>1
  <1>3. ASSUME NEW p \in Probers, NEW e \in Emails, ClaimProbe(p, e) PROVE Goal
    <2>1. \A q \in Procs : q # p => proc'[q] = proc[q]
      BY <1>0, <1>3 DEF ClaimProbe, TypeOK
    <2>2. QED
      BY <2>1
  <1>4. CASE UNCHANGED vars
    BY <1>4 DEF vars
  <1>5. QED
    BY <1>1, <1>2, <1>3, <1>4 DEF Next

\* A step that neither reserves nor returns leaves every row on its side.
LEMMA SidesKept ==
  ASSUME TypeOK, [Next]_vars,
         \A w \in Workers, e \in Emails : ~ClaimLedger(w, e),
         \A w \in Workers : ~DropLedger(w)
  PROVE  \A e \in Emails : used[e] = None <=> used'[e] = None
  <1>1. CASE UNCHANGED used
    BY <1>1
  <1>2. ASSUME NEW p \in Procs, Persist(p)
        PROVE  \A e \in Emails : used[e] = None <=> used'[e] = None
    <2>1. proc[p].token # None
      BY TokenNotNone DEF TypeOK, Proc
    <2>2. QED
      BY <2>1, <1>2 DEF Persist, TypeOK
  <1>3. QED
    BY <1>1, <1>2
       DEF Next, Refresh, Reservation, Register, Start, ClaimSource, ClaimFails,
           ClaimProbe, TokenDead, TokenAnswered, TokenRotated, PersistFails,
           FlowFails, Killed, CodeRequested, DomainRejected, Submitted, Commit,
           SaveArtifacts, NothingToReturn, ReturnRow, ReturnFails, files, vars

LEMMA StepRefines == IInv /\ [Next]_vars => [Ledger!Next]_Status
  <1> SUFFICES ASSUME IInv, [Next]_vars PROVE Ledger!Next \/ Status' = Status
    OBVIOUS
  <1> USE DEF IInv
  <1>0. /\ Workers \subseteq Procs /\ Exclusive' /\ OwnedInLedger' /\ ProcsOK'
        /\ \A w \in Workers : w # None
    BY IInvStep, MailAssumption DEF Procs, MailAssumption
  <1>f. Status = [e \in Emails |-> Status[e]] /\ Status' = [e \in Emails |-> Status'[e]]
    BY DEF Status
  <1>1. ASSUME NEW e \in Emails, \A x \in Emails : x # e => Status'[x] = Status[x],
               \/ Status[e] = Status'[e]
               \/ Status[e] = Free /\ Status'[e] \in Workers
               \/ Status[e] \in Workers /\ Status'[e] \in {Free, Spent}
        PROVE  Ledger!Next \/ Status' = Status
    <2>1. CASE Status[e] = Status'[e]
      BY <2>1, <1>1, <1>f
    <2>2. CASE Status[e] # Status'[e]
      BY <2>2, <1>1 DEF Ledger!Next, Ledger!Reserve, Ledger!GiveBack, Ledger!Spend,
                        Ledger!Others
    <2>3. QED
      BY <2>1, <2>2
  <1>2. ASSUME NEW w \in Workers, NEW e \in Emails, ClaimLedger(w, e)
        PROVE  Ledger!Next \/ Status' = Status
    <2>1. used[e] = None /\ used'[e] # None
      BY <1>2 DEF ClaimLedger, FirstOf, Claimable, TypeOK
    <2>2. Holds(w, e)'
      BY <1>2, <1>0 DEF ClaimLedger, TypeOK, Holds, Box, Using, Proc
    <2>3. Status[e] = Free /\ Status'[e] = w
      BY <2>1, <2>2, <1>0, Statuses, NextStatuses
    <2>4. ASSUME NEW x \in Emails, x # e PROVE Status'[x] = Status[x]
      <3>1. used'[x] = used[x]
        BY <1>2, <2>4 DEF ClaimLedger, TypeOK
      <3>2. ~Holds(w, x)
        BY <1>2, <1>0 DEF ClaimLedger, At, Holds, Using, ProcsOK, Shape
      <3>3. ~Holds(w, x)'
        BY <1>2, <1>0, <2>4 DEF ClaimLedger, TypeOK, Holds, Box, Proc
      <3>4. \A y \in Workers : y # w => (Holds(y, x)' <=> Holds(y, x))
        BY <1>2, <1>0 DEF ClaimLedger, TypeOK, Holds, Box
      <3>5. QED
        BY <3>1, <3>2, <3>3, <3>4, <1>0, StatusKept
    <2>5. QED
      BY <2>3, <2>4, <1>1
  <1>3. ASSUME NEW w \in Workers, DropLedger(w)
        PROVE  Ledger!Next \/ Status' = Status
    <2>1. Holds(w, Box(w)) /\ Box(w) \in Emails
      BY <1>3, <1>0 DEF DropLedger, At, Holds, Using, ProcsOK, Shape, TypeOK, Proc, Box
    <2>2. used[Box(w)] # None
      BY <2>1 DEF OwnedInLedger
    <2>3. used' = [used EXCEPT ![Box(w)] = None] /\ proc'[w] = Released(w)
          /\ \A y \in Workers : y # w => proc'[y] = proc[y]
      BY <1>3, <1>0 DEF DropLedger, TypeOK
    <2>4. ASSUME NEW e \in Emails, e = Box(w)
          PROVE  Status[e] = w /\ Status'[e] = Free
      BY <2>1, <2>2, <2>3, <2>4, <1>0, Statuses, NextStatuses DEF TypeOK
    <2>5. ASSUME NEW x \in Emails, x # Box(w) PROVE Status'[x] = Status[x]
      <3>1. used'[x] = used[x]
        BY <2>3, <2>5 DEF TypeOK
      <3>2. ~Holds(w, x)
        BY <2>5 DEF Holds
      <3>3. ~Keeps(proc'[w], x)
        BY <2>3, KeepsLess
      <3>4. \A y \in Workers : Holds(y, x)' <=> Holds(y, x)
        BY <2>3, <3>2, <3>3 DEF Holds, Keeps, Box
      <3>5. QED
        BY <3>1, <3>4, <1>0, StatusKept
    <2>6. QED
      BY <2>1, <2>4, <2>5, <1>1
  <1>4. CASE /\ \A w \in Workers, e \in Emails : ~ClaimLedger(w, e)
             /\ \A w \in Workers : ~DropLedger(w)
    <2>1. /\ \A w \in Workers, e \in Emails : Holds(w, e)' => Holds(w, e)
          /\ \A e \in Emails : used[e] = None <=> used'[e] = None
      BY <1>4, OnlyClaimTakes, SidesKept
    <2>2. PICK p : \A q \in Procs : q # p => proc'[q] = proc[q]
      BY OneMover
    <2>3. ASSUME NEW e \in Emails, p \notin Workers \/ e # Box(p)
          PROVE  Status'[e] = Status[e]
      <3>1. \A w \in Workers : Holds(w, e)' <=> Holds(w, e)
        BY <2>1, <2>2, <2>3, <1>0 DEF Holds, Box
      <3>2. QED
        BY <3>1, <2>1, <1>0, StatusKept
    <2>4. CASE p \in Workers /\ Box(p) \in Emails
      <3>1. ASSUME NEW e \in Emails, e = Box(p)
            PROVE  Status[e] = Status'[e] \/ (Status[e] \in Workers /\ Status'[e] = Spent)
        <4>1. CASE \A w \in Workers : Holds(w, e)' <=> Holds(w, e)
          BY <4>1, <2>1, <1>0, StatusKept
        <4>2. CASE \E w \in Workers : Holds(w, e) /\ ~Holds(w, e)'
          <5> PICK w \in Workers : Holds(w, e) /\ ~Holds(w, e)'
            BY <4>2
          <5>1. used[e] # None /\ used'[e] # None
            BY <2>1 DEF OwnedInLedger
          <5>2. \A x \in Workers : ~Holds(x, e)'
            BY <2>1 DEF Exclusive
          <5>3. QED
            BY <5>1, <5>2, <1>0, Statuses, NextStatuses
        <4>3. QED
          BY <4>1, <4>2, <2>1
      <3>2. QED
        BY <3>1, <2>3, <2>4, <1>1
    <2>5. CASE p \notin Workers \/ Box(p) \notin Emails
      <3>1. \A e \in Emails : Status'[e] = Status[e]
        BY <2>3, <2>5
      <3>2. QED
        BY <3>1, <1>f
    <2>6. QED
      BY <2>4, <2>5
  <1>5. QED
    BY <1>2, <1>3, <1>4

\* Whatever a process does to the two files, an address is only ever free,
\* reserved by one process, or spent, and moves between these as MailLedger
\* allows: only its holder returns it, and a spent one stays spent.
THEOREM PoolImplementsLedger == Spec => LedgerImplemented
  <1>1. Init => Ledger!Init
    BY DEF Init, Ledger!Init, Status
  <1>2. QED
    BY <1>1, StepRefines, Inductive, PTL DEF Spec, LedgerImplemented, Ledger!Spec

-----------------------------------------------------------------------------
\* Between the two writes of a return the two files agree on the row: nobody
\* else writes them, and the return published the token of the ledger.
ReturnedSame == \A w \in Workers : At(w, "ledger") => pool[Box(w)] = used[Box(w)]

\* A process that keeps the lock for the second write of a return sees both
\* files as they were, whoever moves.
LEMMA LockedFiles ==
  ASSUME IInv, [Next]_vars, NEW w \in Workers, At(w, "ledger"), At(w, "ledger")'
  PROVE  UNCHANGED <<pool, used>>
  <1> USE DEF IInv
  <1>0. /\ lock = w /\ Workers \subseteq Procs /\ \A x \in Workers : x # None
        /\ \A p \in Procs : proc[p] \in Proc
    BY MailAssumption DEF LockOK, At, Procs, TypeOK, MailAssumption
  <1>1. ASSUME NEW x \in Workers, NEW e \in Emails, ClaimLedger(x, e) PROVE FALSE
    BY <1>0, <1>1 DEF ClaimLedger
  <1>2. ASSUME NEW x \in Workers, ClaimSource(x) PROVE FALSE
    BY <1>0, <1>2 DEF ClaimSource, LockOK, At
  <1>3. ASSUME NEW p \in Procs, Persist(p) PROVE FALSE
    BY <1>0, <1>3 DEF Persist
  <1>4. ASSUME NEW x \in Workers, ReturnRow(x) PROVE FALSE
    BY <1>0, <1>4 DEF ReturnRow
  <1>5. ASSUME NEW x \in Workers, DropLedger(x) PROVE FALSE
    <2>1. x = w
      BY <1>0, <1>5 DEF DropLedger, LockOK, At
    <2>2. proc'[w] = Released(w)
      BY <2>1, <1>0, <1>5 DEF DropLedger, TypeOK
    <2>3. Released(w).at # "ledger"
      BY <1>0 DEF Released, Fresh, Proc
    <2>4. QED
      BY <2>2, <2>3 DEF At
  <1>6. QED
    BY <1>1, <1>2, <1>3, <1>4, <1>5
       DEF Next, Refresh, Reservation, Register, Start, ClaimFails,
           ClaimProbe, TokenDead, TokenAnswered, TokenRotated, PersistFails,
           FlowFails, Killed, CodeRequested, DomainRejected, Submitted, Commit,
           SaveArtifacts, NothingToReturn, ReturnFails, files, vars

LEMMA SameStep == IInv /\ ReturnedSame /\ [Next]_vars => ReturnedSame'
  <1> SUFFICES ASSUME IInv, ReturnedSame, [Next]_vars, NEW w \in Workers, At(w, "ledger")'
               PROVE  pool'[Box(w)'] = used'[Box(w)']
    BY DEF ReturnedSame
  <1> USE DEF IInv
  <1>1. CASE ReturnRow(w)
    <2>1. w \in Procs /\ Box(w) \in Emails
      BY <1>1, MailAssumption DEF ReturnRow, Returnable, Procs, Box, TypeOK, Proc
    <2>2. pool' = [pool EXCEPT ![Box(w)] = used[Box(w)]] /\ used' = used
      BY <1>1 DEF ReturnRow, ReturnedToken
    <2>3. Box(w)' = Box(w)
      BY <1>1, <2>1 DEF ReturnRow, Goto, Box, TypeOK, Proc
    <2>4. QED
      BY <2>1, <2>2, <2>3 DEF TypeOK
  <1>2. CASE At(w, "ledger") /\ proc'[w] = proc[w]
    BY <1>2, LockedFiles DEF ReturnedSame, Box
  <1>3. QED
    BY <1>1, <1>2, LedgerEntered DEF At

\* What may change the token an address is stored with.
Rotates == \A e \in Emails :
  Stored(e)' # Stored(e)
    => \E p \in Procs : /\ At(p, "persist") /\ ~At(p, "persist")'
                        /\ Box(p) = e
                        /\ Stored(e)' = proc[p].token

LEMMA RotatesStep == IInv /\ ReturnedSame /\ [Next]_vars => Rotates
  <1> SUFFICES ASSUME IInv, ReturnedSame, [Next]_vars PROVE Rotates
    OBVIOUS
  <1> USE DEF IInv
  <1>0. Workers \subseteq Procs /\ \A p \in Procs : proc[p] \in Proc
    BY DEF Procs, TypeOK
  <1>1. CASE UNCHANGED <<pool, used>>
    BY <1>1 DEF Rotates, Stored
  <1>2. ASSUME NEW w \in Workers, NEW e \in Emails, ClaimLedger(w, e) PROVE Rotates
    <2>1. used' = [used EXCEPT ![e] = pool[e]] /\ pool' = pool
          /\ pool[e] # None /\ used[e] = None
      BY <1>2 DEF ClaimLedger, FirstOf, Claimable
    <2>2. QED
      BY <2>1 DEF Rotates, Stored, TypeOK
  <1>3. ASSUME NEW w \in Workers, ClaimSource(w) PROVE Rotates
    BY <1>3 DEF ClaimSource, Rotates, Stored, TypeOK
  <1>4. ASSUME NEW p \in Procs, Persist(p) PROVE Rotates
    <2>1. At(p, "persist") /\ ~At(p, "persist")'
      BY <1>0, <1>4 DEF Persist, At, TypeOK, Proc, Fresh
    <2>2. proc[p].token # None
      BY <1>0, TokenNotNone DEF Proc
    <2>3. ASSUME NEW e \in Emails, Stored(e)' # Stored(e)
          PROVE  Box(p) = e /\ Stored(e)' = proc[p].token
      BY <1>4, <2>2, <2>3 DEF Persist, Stored, TypeOK
    <2>4. QED
      BY <2>1, <2>3 DEF Rotates
  <1>5. ASSUME NEW w \in Workers, ReturnRow(w) PROVE Rotates
    <2>1. Holds(w, Box(w)) /\ Box(w) \in Emails
      BY <1>0, <1>5 DEF ReturnRow, Returnable, Holds, At, Box, Proc
    <2>2. used[Box(w)] # None
      BY <2>1 DEF OwnedInLedger
    <2>3. QED
      BY <1>5, <2>2 DEF ReturnRow, ReturnedToken, Rotates, Stored, TypeOK
  <1>6. ASSUME NEW w \in Workers, DropLedger(w) PROVE Rotates
    <2>1. pool[Box(w)] = used[Box(w)] /\ pool' = pool
          /\ used' = [used EXCEPT ![Box(w)] = None]
      BY <1>6 DEF DropLedger, ReturnedSame
    <2>2. QED
      BY <2>1 DEF Rotates, Stored, TypeOK
  <1>7. QED
    BY <1>1, <1>2, <1>3, <1>4, <1>5, <1>6
       DEF Next, Refresh, Reservation, Register, Start, ClaimFails,
           ClaimProbe, TokenDead, TokenAnswered, TokenRotated, PersistFails,
           FlowFails, Killed, CodeRequested, DomainRejected, Submitted, Commit,
           SaveArtifacts, NothingToReturn, ReturnFails, files, vars

\* Only the process that was just issued a token changes the one an address is
\* stored with: no reservation, return, kill or failed write of any process
\* brings an older row back.
THEOREM TokensAreNotRolledBack == Spec => TokensOnlyRotate
  <1>1. Init => ReturnedSame
    BY MailAssumption DEF Init, ReturnedSame, At, Fresh, Procs
  <1>2. IInv /\ ReturnedSame /\ [Next]_vars => Rotates
    BY RotatesStep
  <1>3. IInv /\ ReturnedSame /\ [Next]_vars => ReturnedSame'
    BY SameStep
  <1>4. Spec => [](IInv /\ ReturnedSame)
    BY <1>1, <1>3, Inductive, PTL DEF Spec
  <1>5. QED
    BY <1>2, <1>4, PTL DEF Spec, TokensOnlyRotate, Rotates
=============================================================================
