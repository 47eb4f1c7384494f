--------------------------- MODULE CredentialStore ---------------------------
(***************************************************************************)
(* The credentials of .local/credentials: a json and a .sso file for each  *)
(* account.  Conversions write them, one thread of the batch and one       *)
(* converter process each (BatchRunner._convert_sso_accounts,              *)
(* sso_to_auth_json.py), and give them to the CPA service; requests of the *)
(* console push what they find (cpa_push.py), and export a page of them    *)
(* into exports/grok+<second>.txt and delete the page                      *)
(* (export_credential_page_and_delete).  Nothing but the file system is    *)
(* between them: no lock is taken, and each rename or unlink is one step.  *)
(*                                                                         *)
(* A token is numbered by its conversion attempts: saved[a] of them have   *)
(* been in the json of account a.                                          *)
(***************************************************************************)
EXTENDS Naturals, FiniteSets, Sequences, SequencesExt

CONSTANTS
  Accounts,
  Exports,     \* requests that export a page
  Pushes,      \* requests that push to CPA
  MaxTries,    \* sso_convert_retries
  PageSize,
  MaxSeconds,  \* bound: seconds of the clock that names export files
  MaxRequests  \* bound: pages and pushes asked for by the console

ASSUME StoreAssumption ==
  /\ IsFiniteSet(Accounts) /\ IsFiniteSet(Exports) /\ IsFiniteSet(Pushes)
  /\ {MaxTries, PageSize, MaxSeconds} \subseteq Nat \ {0} /\ MaxRequests \in Nat
  /\ Accounts \cap Pushes = {}

VARIABLES
  json,      \* the token in the json of each account, 0: no file
  sso,       \* the accounts that have a .sso file
  order,     \* the accounts that have a json, newest first (mtime)
  saved,     \* the tokens each account's json has held
  conv,      \* the conversion of each account
  stopping,  \* the batch is being stopped
  exp,       \* what each export request is doing
  files,     \* the lines of the export file of each second
  now,
  push,      \* a push for each request, and one for each conversion
  cloud,     \* the token CPA has of each account
  requests,  \* those the console has made
  \* History: the accounts whose cookie was ever on disk, and the tokens that
  \* were thrown away: with an export file that the operator deleted or that
  \* another export of the same second replaced, or saved for an account whose
  \* older json an export was about to delete.
  kept, excused

store == <<json, sso, order, saved>>
exports == <<exp, files>>
pushing == <<push, cloud>>
history == <<kept, excused>>
vars == <<store, conv, stopping, exports, now, pushing, requests, history>>

Pushers == Pushes \cup Accounts
Token == [account : Accounts, token : 1 .. MaxTries + 1]
Line == [account : Accounts, token : 1 .. MaxTries + 1, sso : BOOLEAN]

\* left: the rows whose files are still to be deleted; next: which file of the
\* first of them comes next.
Export == [at : {"idle", "write", "verify", "delete"}, page : SeqOf(Line, PageSize),
           second : 1 .. MaxSeconds, left : SeqOf(Line, PageSize), next : {"json", "sso"}]
Push == [at : {"idle", "fetch", "post"}, items : SeqOf(Token, Cardinality(Accounts)),
         known : SUBSET Accounts, skip : BOOLEAN]
NoExport == [at |-> "idle", page |-> <<>>, second |-> 1, left |-> <<>>, next |-> "json"]
NoPush == [at |-> "idle", items |-> <<>>, known |-> {}, skip |-> TRUE]

TypeOK ==
  /\ json \in [Accounts -> 0 .. MaxTries + 1] /\ sso \subseteq Accounts
  /\ order \in SeqOf(Accounts, Cardinality(Accounts)) /\ IsInjective(order)
  /\ ToSet(order) = {a \in Accounts : json[a] # 0}
  /\ saved \in [Accounts -> 0 .. MaxTries + 1]
  /\ conv \in [Accounts -> [at : {"none", "sidecar", "attempt", "write", "push", "sso",
                                  "ok", "failed", "gone"}, try : 1 .. MaxTries]]
  /\ stopping \in BOOLEAN /\ now \in 1 .. MaxSeconds
  /\ exp \in [Exports -> Export] /\ files \in [1 .. MaxSeconds -> SUBSET Line]
  /\ push \in [Pushers -> Push] /\ cloud \in [Accounts -> 0 .. MaxTries + 1]
  /\ requests \in 0 .. MaxRequests
  /\ kept \subseteq Accounts /\ excused \subseteq Token

\* Credentials of earlier batches, in the order they were written, and the
\* accounts this batch has just registered.
Init ==
  /\ \E old \in SUBSET Accounts :
       /\ order \in {s \in SetToSeqs(old) : TRUE}
       /\ json = [a \in Accounts |-> IF a \in old THEN 1 ELSE 0]
       /\ sso \in SUBSET old
       /\ conv = [a \in Accounts |->
                    [at |-> IF a \in old THEN "none" ELSE "sidecar", try |-> 1]]
  /\ saved = json /\ kept = sso
  /\ stopping = FALSE /\ now = 1
  /\ exp = [e \in Exports |-> NoExport]
  /\ files = [s \in 1 .. MaxSeconds |-> {}]
  /\ push = [p \in Pushers |-> NoPush]
  /\ cloud = [a \in Accounts |-> 0] /\ requests = 0
  /\ excused = {}

-----------------------------------------------------------------------------
(* Conversions *)

At(a, s) == conv[a].at = s
Goes(a, s) == conv' = [conv EXCEPT ![a].at = s]

\* Mutant of Fails: one attempt more.
FailsLate(a) ==
  IF conv[a].try <= MaxTries
  THEN conv' = [conv EXCEPT ![a] = [at |-> "attempt", try |-> @.try + 1]]
  ELSE Goes(a, "failed")

\* The batch's loop over attempts: another one, or the account is given up.
Fails(a) ==
  IF conv[a].try < MaxTries
  THEN conv' = [conv EXCEPT ![a] = [at |-> "attempt", try |-> @.try + 1]]
  ELSE Goes(a, "failed")

\* write_sso_file: published whole, or not at all.
WritesSso(a, ok) ==
  IF ok THEN sso' = sso \cup {a} /\ kept' = kept \cup {a} ELSE UNCHANGED <<sso, kept>>

\* The .sso file is written before the first attempt, if it can be.
Sidecar(a) ==
  /\ At(a, "sidecar")
  /\ IF stopping THEN Goes(a, "failed") /\ UNCHANGED <<sso, kept>>
                 ELSE Goes(a, "attempt") /\ \E ok \in BOOLEAN : WritesSso(a, ok)
  /\ UNCHANGED <<json, order, saved, stopping, exports, now, pushing, excused, requests>>

\* An attempt: the converter signs in with the cookie, approves its own device
\* code and polls for the token until it comes, is refused, or time is up.
SsoToToken(a) ==
  /\ At(a, "attempt")
  /\ IF stopping THEN Goes(a, "failed") ELSE Goes(a, "write") \/ Fails(a)
  /\ UNCHANGED <<store, stopping, exports, now, pushing, history, requests>>

\* The json is the newest of the directory.
Saved(a) == <<a>> \o RemoveFirst(order, a)

\* An export that has listed the account and not yet deleted its json.
JsonLeft(e) ==
  {exp[e].left[i].account : i \in {j \in DOMAIN exp[e].left : j = 1 => exp[e].next = "json"}}
Doomed(a) == \E e \in Exports : a \in JsonLeft(e)

WriteJson(a) ==
  /\ At(a, "write")
  /\ \/ /\ saved' = [saved EXCEPT ![a] = @ + 1]
        /\ json' = [json EXCEPT ![a] = saved'[a]]
        /\ order' = Saved(a)
        /\ excused' = IF Doomed(a) THEN excused \cup {[account |-> a, token |-> saved'[a]]}
                                   ELSE excused
        /\ Goes(a, "push")
     \/ Fails(a) /\ UNCHANGED <<json, order, saved, excused>>
  /\ UNCHANGED <<sso, stopping, exports, now, pushing, kept, requests>>

\* Mutant of Reported: the cookie is part of the result.
ReportedWithSso(a, ok) == IF ok /\ json[a] # 0 THEN Goes(a, "ok") ELSE Fails(a)

\* The size of the json is printed: without it the attempt has failed.
Reported(a, ok) == IF json[a] # 0 THEN Goes(a, "ok") ELSE Fails(a)

WriteSso(a) ==
  /\ At(a, "sso")
  /\ \E ok \in BOOLEAN : WritesSso(a, ok) /\ Reported(a, ok)
  /\ UNCHANGED <<json, order, saved, stopping, exports, now, pushing, excused, requests>>

Stop ==
  /\ ~stopping /\ stopping' = TRUE
  /\ UNCHANGED <<store, conv, exports, now, pushing, history, requests>>

-----------------------------------------------------------------------------
(* Pushes: a page of the console, and after each conversion its own json *)

\* A conversion goes on, whatever became of its push.
Ends(p) ==
  /\ push' = [push EXCEPT ![p] = NoPush]
  /\ IF p \in Accounts THEN Goes(p, "sso") ELSE UNCHANGED conv

\* collect_local_cpa_items: what is in the files now, newest first.
Collect(p) ==
  /\ p \in Pushes /\ push[p].at = "idle" /\ order # <<>> /\ requests < MaxRequests
  /\ \E skip \in BOOLEAN : push' = [push EXCEPT ![p] =
       [at |-> "fetch", known |-> {}, skip |-> skip,
        items |-> [i \in 1 .. Len(order) |->
                     [account |-> order[i], token |-> json[order[i]]]]]]
  /\ requests' = requests + 1
  /\ UNCHANGED <<store, conv, stopping, exports, now, cloud, history>>

\* Mutant of AutoPush: the token is pushed before its file is written.
AutoPushFirst(a) ==
  /\ At(a, "write") /\ push[a].at = "idle"
  /\ push' = [push EXCEPT ![a] = [at |-> "fetch", known |-> {}, skip |-> TRUE,
                items |-> <<[account |-> a, token |-> saved[a] + 1]>>]]
  /\ UNCHANGED <<store, conv, stopping, exports, now, cloud, requests, history>>

\* auto_push_credential_file: nothing is done if it is switched off, or if the
\* file cannot be read any more.
AutoPush(a) ==
  /\ At(a, "push") /\ push[a].at = "idle"
  /\ \/ Goes(a, "sso") /\ UNCHANGED push
     \/ /\ json[a] # 0
        /\ push' = [push EXCEPT ![a] = [at |-> "fetch", known |-> {}, skip |-> TRUE,
                      items |-> <<[account |-> a, token |-> json[a]]>>]]
        /\ UNCHANGED conv
  /\ UNCHANGED <<store, stopping, exports, now, cloud, requests, history>>

\* The list CPA gives of what it has, once for all items.
Fetch(p) ==
  /\ push[p].at = "fetch"
  /\ \/ /\ push' = [push EXCEPT ![p].at = "post",
                                ![p].known = {a \in Accounts : cloud[a] # 0}]
        /\ UNCHANGED conv
     \/ Ends(p)
  /\ UNCHANGED <<store, stopping, exports, now, cloud, requests, history>>

\* classify_cpa_duplicate, on the list of then and what this push has added.
Duplicate(p, item) == push[p].skip /\ item.account \in push[p].known

\* cpa_request: sent again once after a network error; CPA may have the item
\* although the last answer is an error.
Answers(item) ==
  {<<cloud, FALSE>>} \cup {[cloud EXCEPT ![item.account] = item.token]} \X BOOLEAN

\* The next item is skipped (a duplicate, or fields are missing) or posted.
Post(p) ==
  /\ push[p].at = "post" /\ push[p].items # <<>>
  /\ LET item == Head(push[p].items)
         rest == [push EXCEPT ![p].items = Tail(@)]
     IN \/ push' = rest /\ UNCHANGED cloud
        \/ /\ ~Duplicate(p, item)
           /\ \E r \in Answers(item) :
                /\ cloud' = r[1]
                /\ push' = [rest EXCEPT ![p].known = IF r[2] THEN @ \cup {item.account} ELSE @]
  /\ UNCHANGED <<store, conv, stopping, exports, now, requests, history>>

Pushed(p) ==
  /\ push[p].at = "post" /\ push[p].items = <<>>
  /\ Ends(p)
  /\ UNCHANGED <<store, stopping, exports, now, cloud, requests, history>>

-----------------------------------------------------------------------------
(* Exports *)

\* A row of list_credential_pairs: only a json makes one.
Row(a) == [account |-> a, token |-> json[a], sso |-> a \in sso]

\* The rows of a page, of which the last may be short; i is its first row.
FirstRows == {i \in 1 .. Len(order) : i % PageSize = 1 % PageSize}
Page(i) ==
  LET last == i + PageSize - 1
  IN  [n \in 1 .. (IF last > Len(order) THEN Len(order) ELSE last) - i + 1 |->
         Row(order[i + n - 1])]

\* The page is read and the clock names the file.
List(e) ==
  /\ exp[e].at = "idle" /\ order # <<>> /\ requests < MaxRequests
  /\ requests' = requests + 1
  /\ \E i \in FirstRows :
       exp' = [exp EXCEPT ![e] = [at |-> "write", page |-> Page(i), second |-> now,
                                  left |-> Page(i), next |-> "json"]]
  /\ UNCHANGED <<store, conv, stopping, files, now, pushing, history>>

\* What an export file loses when lines replace it, except a pair whose files
\* are still there and which no export has begun to delete.
Tokens(lines) == {[account |-> l.account, token |-> l.token] : l \in lines}
Deleting(a) ==
  \E e \in Exports : exp[e].at = "delete" /\ \E row \in ToSet(exp[e].left) : row.account = a
Stored(l) == json[l.account] = l.token /\ (l.sso => l.account \in sso)
Dropped(s, lines) ==
  Tokens({l \in files[s] \ lines : ~Stored(l) \/ Deleting(l.account)})

\* The file is opened for writing, which empties it, and written.
WriteExport(e) ==
  /\ exp[e].at = "write"
  /\ LET s == exp[e].second
     IN \/ /\ files' = [files EXCEPT ![s] = ToSet(exp[e].page)]
           /\ excused' = excused \cup Dropped(s, ToSet(exp[e].page))
           /\ exp' = [exp EXCEPT ![e].at = "verify"]
        \/ /\ files' \in {files, [files EXCEPT ![s] = {}]}
           /\ excused' = excused \cup (IF files' = files THEN {} ELSE Dropped(s, {}))
           /\ exp' = [exp EXCEPT ![e] = NoExport]
  /\ UNCHANGED <<store, conv, stopping, now, pushing, kept, requests>>

\* Mutant of Reads: the file is there.
ReadsAny(e) == TRUE

\* It is read back and compared; nothing is deleted if it differs.
Reads(e) == files[exp[e].second] = ToSet(exp[e].page)

Verify(e) ==
  /\ exp[e].at = "verify"
  /\ \/ Reads(e) /\ exp' = [exp EXCEPT ![e].at = "delete"]
     \/ exp' = [exp EXCEPT ![e] = NoExport]
  /\ UNCHANGED <<store, conv, stopping, files, now, pushing, history, requests>>

\* Mutant of SidecarToo: the .sso of an account is deleted with its json.
SidecarAlways(row) == TRUE

\* The row had a sso_path when the page was read.
SidecarToo(row) == row.sso

\* The json of a row, then its .sso.  A file that is gone or cannot be deleted
\* does not stop the loop.
Delete(e) ==
  /\ exp[e].at = "delete" /\ exp[e].left # <<>>
  /\ LET row == Head(exp[e].left)
         a == row.account
     IN \/ /\ exp[e].next = "json"
           /\ exp' = IF SidecarToo(row) THEN [exp EXCEPT ![e].next = "sso"]
                                        ELSE [exp EXCEPT ![e].left = Tail(@)]
           /\ \/ UNCHANGED store
              \/ json' = [json EXCEPT ![a] = 0] /\ order' = RemoveFirst(order, a)
                 /\ UNCHANGED <<sso, saved>>
        \/ /\ exp[e].next = "sso"
           /\ exp' = [exp EXCEPT ![e].left = Tail(@), ![e].next = "json"]
           /\ sso' \in {sso, sso \ {a}} /\ UNCHANGED <<json, order, saved>>
  /\ UNCHANGED <<conv, stopping, files, now, pushing, history, requests>>

Exported(e) ==
  /\ exp[e].at = "delete" /\ exp[e].left = <<>>
  /\ exp' = [exp EXCEPT ![e] = NoExport]
  /\ UNCHANGED <<store, conv, stopping, files, now, pushing, history, requests>>

\* delete_export_file, after the file list showed it.
DeleteExportFile ==
  /\ \E s \in 1 .. MaxSeconds :
       /\ files[s] # {} /\ files' = [files EXCEPT ![s] = {}]
       /\ excused' = excused \cup Dropped(s, {})
  /\ UNCHANGED <<store, conv, stopping, exp, now, pushing, kept, requests>>

Tick ==
  /\ now < MaxSeconds /\ now' = now + 1
  /\ UNCHANGED <<store, conv, stopping, exports, pushing, history, requests>>

\* The console is killed: its threads and the converters end where they are.
Crash ==
  /\ exp' = [e \in Exports |-> NoExport]
  /\ push' = [p \in Pushers |-> NoPush]
  /\ conv' = [a \in Accounts |->
       IF conv[a].at \in {"none", "ok", "failed"} THEN conv[a] ELSE [conv[a] EXCEPT !.at = "gone"]]
  /\ UNCHANGED <<store, stopping, files, now, cloud, requests, history>>

-----------------------------------------------------------------------------
Converting(a) == Sidecar(a) \/ SsoToToken(a) \/ WriteJson(a) \/ AutoPush(a) \/ WriteSso(a)
Pushing(p) == Fetch(p) \/ Post(p) \/ Pushed(p)
Exporting(e) == WriteExport(e) \/ Verify(e) \/ Delete(e) \/ Exported(e)

Next ==
  \/ \E a \in Accounts : Converting(a)
  \/ \E p \in Pushers : Pushing(p)
  \/ \E p \in Pushes : Collect(p)
  \/ \E e \in Exports : List(e) \/ Exporting(e)
  \/ Stop \/ DeleteExportFile \/ Tick \/ Crash

Spec == Init /\ [][Next]_vars

-----------------------------------------------------------------------------
(* Properties *)

InFile(a, t) == \E s \in 1 .. MaxSeconds : [account |-> a, token |-> t] \in Tokens(files[s])

\* Every token that was ever saved is in its json or in an export file,
\* whatever conversions, exports, failures and crashes come between the steps
\* of an export (its "Safety order").  The exceptions are tokens the operator
\* deleted, and the two losses that two exports together can cause (excused).
NothingLost ==
  \A a \in Accounts : \A t \in 1 .. saved[a] :
    json[a] = t \/ InFile(a, t) \/ [account |-> a, token |-> t] \in excused

\* So is the cookie of an account: the .sso is deleted only with a line that
\* has it in a file.
CookieKept ==
  \A a \in kept :
    \/ a \in sso
    \/ \E s \in 1 .. MaxSeconds : \E l \in files[s] : l.account = a /\ l.sso
    \/ \E x \in excused : x.account = a

\* A conversion the batch counts as failed has left no credential behind, and
\* one it counts as done has saved one, although the converter looks at the
\* file again after a push that may take minutes.
VerdictIsTrue ==
  \A a \in Accounts :
    /\ At(a, "failed") => json[a] = 0
    /\ At(a, "ok") => saved[a] # 0

\* What CPA is given has been saved here first: a killed console never leaves a
\* token that only CPA has.
PushedIsSaved == \A a \in Accounts : cloud[a] <= saved[a]

\* No step of an export, a conversion or a crash loses a token or the cookie.
RecordsSafe ==
  /\ TypeOK
  /\ NothingLost
  /\ CookieKept
=============================================================================
