--------------------------- MODULE ConsoleProofs -----------------------------
(***************************************************************************)
(* What the console keeps between batches: the credentials                 *)
(* (CredentialStore) and the embedded proxy (EmbeddedProxy).               *)
(*                                                                         *)
(* CredentialStore: for every number of accounts, exports and pushes,      *)
(* every page size and every bound on attempts, seconds and requests: no   *)
(* token and no cookie is lost, a conversion's verdict is true, and what   *)
(* CPA is given has been saved here.  None of these is inductive.  That    *)
(* deleting a json loses nothing follows from what the export has          *)
(* verified of the page it is about to delete (PageListed, Backed,         *)
(* CookieBacked), which a conversion, another export of the same second    *)
(* or the operator may undo meanwhile; that a verdict is true follows      *)
(* from where the conversion stands (ConvOK).                              *)
(*                                                                         *)
(* EmbeddedProxy: for every number of nodes, workers and requests loads    *)
(* are leases, one start leaves one mihomo and no sick node is leased.     *)
(* Loads are only bounded by the leases once a table was replaced under    *)
(* them (LoadCounted), and what a start has left alive follows from its    *)
(* being the only thread at work (OneAtWork, AliveKnown).                  *)
(***************************************************************************)
EXTENDS CredentialStore, EmbeddedProxy, FiniteSetTheorems, SequenceTheorems, TLAPS

-----------------------------------------------------------------------------
(* CredentialStore *)

\* What there is of an account, by where its conversion stands: an attempt is
\* only made while there is no json, and its push is over when it goes on.
ConvOK ==
  \A a \in Accounts :
    /\ conv[a].at \in {"sidecar", "attempt", "write", "failed"} => json[a] = 0
    /\ conv[a].at \in {"push", "sso", "ok"} => saved[a] # 0
    /\ conv[a].at \in {"sidecar", "attempt", "write"} => saved[a] < conv[a].try
    /\ conv[a].at # "none" => saved[a] <= conv[a].try
    /\ push[a].at # "idle" => conv[a].at = "push"

\* Whatever is in a json, at CPA or on its way there has been saved.
TokensSaved ==
  /\ \A a \in Accounts : json[a] <= saved[a] /\ cloud[a] <= saved[a]
  /\ \A p \in Pushers : \A i \in DOMAIN push[p].items :
       push[p].items[i].token <= saved[push[p].items[i].account]

Excuse(a, t) == [account |-> a, token |-> t] \in excused

\* Until an export has verified its file it deletes nothing, and the tokens it
\* has listed are the ones in the files, or excused when they are not.
PageListed ==
  \A e \in Exports : exp[e].at \in {"write", "verify"} =>
    /\ exp[e].left = exp[e].page /\ exp[e].next = "json"
    /\ \A i \in DOMAIN exp[e].page :
         LET a == exp[e].page[i].account IN
         json[a] = 0 \/ json[a] = exp[e].page[i].token \/ Excuse(a, json[a])

\* The token in a json that an export is about to delete is in a file.
Backed ==
  \A e \in Exports : exp[e].at = "delete" =>
    \A a \in JsonLeft(e) : json[a] = 0 \/ InFile(a, json[a]) \/ Excuse(a, json[a])

CookieInFile(a) ==
  \/ \E s \in 1 .. MaxSeconds : \E l \in files[s] : l.account = a /\ l.sso
  \/ \E x \in excused : x.account = a

\* So is the cookie of a row that has one, and only such a row's is deleted.
CookieBacked ==
  \A e \in Exports : exp[e].at = "delete" =>
    /\ \A i \in DOMAIN exp[e].left :
         exp[e].left[i].sso => CookieInFile(exp[e].left[i].account)
    /\ exp[e].next = "sso" => exp[e].left # <<>> /\ exp[e].left[1].sso

IInv ==
  /\ TypeOK
  /\ ConvOK /\ TokensSaved
  /\ PageListed /\ Backed /\ CookieBacked
  /\ NothingLost /\ CookieKept

-----------------------------------------------------------------------------
(* The sequences of the model *)

LEMMA SeqOfIsSeq ==
  ASSUME NEW S, NEW n \in Nat, NEW s
  PROVE  s \in SeqOf(S, n) <=> s \in Seq(S) /\ Len(s) <= n
  <1>1. ASSUME s \in SeqOf(S, n) PROVE s \in Seq(S) /\ Len(s) <= n
    <2>1. PICK m \in 0 .. n : s \in [1 .. m -> S]
      BY <1>1 DEF SeqOf
    <2>2. QED
      BY <2>1
  <1>2. ASSUME s \in Seq(S), Len(s) <= n PROVE s \in SeqOf(S, n)
    <2>1. Len(s) \in 0 .. n /\ s \in [1 .. Len(s) -> S]
      BY <1>2, LenProperties
    <2>2. QED
      BY <2>1 DEF SeqOf
  <1>3. QED
    BY <1>1, <1>2

\* The tail of a bounded sequence is one.
LEMMA TailOfSeqOf ==
  ASSUME NEW S, NEW n \in Nat, NEW s \in SeqOf(S, n), s # <<>>
  PROVE  /\ Tail(s) \in SeqOf(S, n) /\ Head(s) \in S /\ Head(s) = s[1]
         /\ 1 \in DOMAIN s
         /\ \A i \in DOMAIN Tail(s) : i + 1 \in DOMAIN s /\ Tail(s)[i] = s[i + 1]
  <1>1. s \in Seq(S) /\ Len(s) <= n
    BY SeqOfIsSeq
  <1>2. /\ Head(s) \in S /\ Tail(s) \in Seq(S) /\ Len(Tail(s)) = Len(s) - 1
        /\ \A i \in 1 .. Len(Tail(s)) : Tail(s)[i] = s[i + 1]
        /\ Len(s) \in Nat \ {0}
    BY <1>1, HeadTailProperties, EmptySeq
  <1>3. Tail(s) \in SeqOf(S, n)
    <2> DEFINE t == Tail(s)
    <2>1. t \in Seq(S) /\ Len(t) <= n
      BY <1>1, <1>2
    <2> HIDE DEF t
    <2>2. t \in SeqOf(S, n)
      BY <2>1, SeqOfIsSeq
    <2>3. QED
      BY <2>2 DEF t
  <1>4. DOMAIN s = 1 .. Len(s) /\ DOMAIN Tail(s) = 1 .. Len(Tail(s))
    BY <1>1, <1>2, LenProperties
  <1>5. QED
    BY <1>1, <1>2, <1>3, <1>4

\* The accounts of T, each once.
Lists(s, T) == s \in Seq(Accounts) /\ IsInjective(s) /\ ToSet(s) = T

LEMMA ListIsShort ==
  ASSUME NEW T, NEW s, Lists(s, T)
  PROVE  Len(s) \in Nat /\ Len(s) <= Cardinality(Accounts)
  <1>1. Len(s) \in Nat /\ s \in [1 .. Len(s) -> Accounts]
    BY LenProperties DEF Lists
  <1>2. s \in Injection(1 .. Len(s), Accounts)
    BY <1>1 DEF Lists, Injection
  <1>3. Cardinality(1 .. Len(s)) <= Cardinality(Accounts)
    BY <1>2, FS_Injection, StoreAssumption DEF StoreAssumption
  <1>4. Cardinality(1 .. Len(s)) = Len(s)
    BY <1>1, FS_Interval
  <1>5. QED
    BY <1>1, <1>3, <1>4

LEMMA RemovedLists ==
  ASSUME NEW T, NEW s, Lists(s, T), NEW a
  PROVE  Lists(RemoveFirst(s, a), T \ {a})
  <1>1. /\ s \in Seq(Accounts) /\ Len(s) \in Nat /\ DOMAIN s = 1 .. Len(s)
        /\ \A i, j \in 1 .. Len(s) : s[i] = s[j] => i = j
        /\ \A i \in 1 .. Len(s) : s[i] \in Accounts
        /\ T = {s[i] : i \in 1 .. Len(s)}
    BY LenProperties DEF Lists, IsInjective, ToSet
  <1>2. CASE ~\E i \in 1 .. Len(s) : s[i] = a
    BY <1>1, <1>2 DEF RemoveFirst, Lists
  <1>3. CASE \E i \in 1 .. Len(s) : s[i] = a
    <2>1. PICK k \in 1 .. Len(s) : s[k] = a
      BY <1>3
    <2>2. SelectInSeq(s, LAMBDA v : v = a) = k
      <3>1. {i \in 1 .. Len(s) : s[i] = a} = {k}
        BY <1>1, <2>1
      <3>2. Min({k}) = k
        BY <1>1 DEF Min
      <3>3. QED
        BY <3>1, <3>2 DEF SelectInSeq
    <2> DEFINE r == SubSeq(s, 1, k - 1) \o SubSeq(s, k + 1, Len(s))
    <2>3. RemoveFirst(s, a) = r
      BY <1>3, <2>2 DEF RemoveFirst, RemoveAt
    <2> DEFINE u == SubSeq(s, 1, k - 1)
               v == SubSeq(s, k + 1, Len(s))
    <2>4. /\ u \in Seq(Accounts) /\ Len(u) = k - 1
          /\ \A i \in 1 .. k - 1 : u[i] = s[i]
      BY <1>1, SubSeqProperties
    <2>5. /\ v \in Seq(Accounts) /\ Len(v) = Len(s) - k
          /\ \A i \in 1 .. Len(s) - k : v[i] = s[k + i]
      <3>1. \A i \in k + 1 .. Len(s) : s[i] \in Accounts
        BY <1>1
      <3>2. /\ v \in Seq(Accounts)
            /\ Len(v) = IF k + 1 <= Len(s) THEN Len(s) - (k + 1) + 1 ELSE 0
            /\ \A i \in 1 .. Len(s) - (k + 1) + 1 : v[i] = s[k + 1 + i - 1]
        BY <1>1, <3>1, SubSeqProperties
      <3> HIDE DEF v
      <3>3. Len(s) - (k + 1) + 1 = Len(s) - k /\ Len(v) = Len(s) - k
        <4>1. \A n \in Nat : \A j \in 1 .. n :
                /\ n - (j + 1) + 1 = n - j
                /\ (IF j + 1 <= n THEN n - (j + 1) + 1 ELSE 0) = n - j
          OBVIOUS
        <4>2. QED
          BY <1>1, <3>2, <4>1
      <3>4. ASSUME NEW i \in 1 .. Len(s) - k PROVE v[i] = s[k + i]
        <4>1. k + 1 + i - 1 = k + i
          BY <1>1
        <4>2. v[i] = s[k + 1 + i - 1]
          BY <3>2, <3>3
        <4>3. QED
          BY <4>1, <4>2
      <3>5. QED
        BY <3>2, <3>3, <3>4
    <2>6. /\ r \in Seq(Accounts) /\ Len(r) = Len(s) - 1
          /\ \A i \in 1 .. Len(s) - 1 : r[i] = IF i < k THEN s[i] ELSE s[i + 1]
      <3> HIDE DEF u, v
      <3>1. /\ u \o v \in Seq(Accounts) /\ Len(u \o v) = Len(u) + Len(v)
            /\ \A i \in 1 .. Len(u) + Len(v) : (u \o v)[i] =
                 IF i <= Len(u) THEN u[i] ELSE v[i - Len(u)]
        BY <2>4, <2>5, ConcatProperties
      <3>2. Len(u) + Len(v) = Len(s) - 1
        BY <1>1, <2>4, <2>5
      <3>3. \A i \in 1 .. Len(s) - 1 : i > k - 1 =>
              i - (k - 1) \in 1 .. Len(s) - k /\ k + (i - (k - 1)) = i + 1
        BY <1>1
      <3>4. ASSUME NEW i \in 1 .. Len(s) - 1
            PROVE  (u \o v)[i] = IF i < k THEN s[i] ELSE s[i + 1]
        <4>1. CASE i < k
          <5>1. i \in 1 .. k - 1 /\ i <= Len(u)
            BY <4>1, <2>4, <1>1
          <5>2. QED
            BY <5>1, <4>1, <3>1, <3>2, <2>4
        <4>2. CASE ~(i < k)
          <5>1. ~(i <= Len(u)) /\ i - Len(u) = i - (k - 1)
            BY <4>2, <2>4, <1>1
          <5>2. v[i - (k - 1)] = s[i + 1]
            <6>1. i - (k - 1) \in 1 .. Len(s) - k /\ k + (i - (k - 1)) = i + 1
              BY <4>2, <3>3, <1>1
            <6>2. QED
              BY <6>1, <2>5
          <5>3. QED
            BY <5>1, <5>2, <4>2, <3>1, <3>2
        <4>3. QED
          BY <4>1, <4>2
      <3>5. QED
        BY <3>1, <3>2, <3>4 DEF u, v
    <2> HIDE DEF r
    <2>7. DOMAIN r = 1 .. Len(s) - 1
      BY <2>6, LenProperties
    <2>8. IsInjective(r)
      BY <1>1, <2>6, <2>7 DEF IsInjective
    <2>9. ToSet(r) = T \ {a}
      <3>1. ASSUME NEW i \in 1 .. Len(s) - 1 PROVE r[i] \in T /\ r[i] # a
        BY <1>1, <2>1, <2>6
      <3>2. ASSUME NEW x \in T, x # a PROVE \E i \in 1 .. Len(s) - 1 : r[i] = x
        <4>1. PICK j \in 1 .. Len(s) : s[j] = x
          BY <1>1
        <4>2. CASE j < k
          BY <1>1, <2>6, <4>1, <4>2
        <4>3. CASE j > k
          <5>1. j - 1 \in 1 .. Len(s) - 1 /\ ~(j - 1 < k) /\ (j - 1) + 1 = j
            BY <1>1, <4>3
          <5>2. QED
            BY <5>1, <2>6, <4>1
        <4>4. QED
          BY <1>1, <2>1, <3>2, <4>1, <4>2, <4>3
      <3>3. QED
        BY <2>7, <3>1, <3>2 DEF ToSet
    <2>10. QED
      BY <2>3, <2>6, <2>8, <2>9 DEF Lists
  <1>4. QED
    BY <1>2, <1>3

LEMMA FirstLists ==
  ASSUME NEW T, NEW s, Lists(s, T), NEW a \in Accounts, a \notin T
  PROVE  Lists(<<a>> \o s, T \cup {a})
  <1>1. /\ s \in Seq(Accounts) /\ Len(s) \in Nat /\ DOMAIN s = 1 .. Len(s)
        /\ \A i, j \in 1 .. Len(s) : s[i] = s[j] => i = j
        /\ T = {s[i] : i \in 1 .. Len(s)}
    BY LenProperties DEF Lists, IsInjective, ToSet
  <1> DEFINE r == <<a>> \o s
  <1>2. <<a>> \in Seq(Accounts) /\ Len(<<a>>) = 1 /\ <<a>>[1] = a
    OBVIOUS
  <1>3. /\ r \in Seq(Accounts) /\ Len(r) = 1 + Len(s)
        /\ \A i \in 1 .. 1 + Len(s) : r[i] = IF i <= 1 THEN <<a>>[i] ELSE s[i - 1]
    BY <1>1, <1>2, ConcatProperties
  <1> HIDE DEF r
  <1>4. DOMAIN r = 1 .. 1 + Len(s) /\ r[1] = a
        /\ \A i \in 2 .. 1 + Len(s) : r[i] = s[i - 1] /\ i - 1 \in 1 .. Len(s)
    BY <1>1, <1>2, <1>3, LenProperties
  <1>5. \A i \in 1 .. Len(s) : s[i] # a
    BY <1>1
  <1>6. IsInjective(r)
    <2>1. ASSUME NEW i \in 1 .. 1 + Len(s), NEW j \in 1 .. 1 + Len(s), r[i] = r[j]
          PROVE  i = j
      <3>1. CASE i = 1
        BY <2>1, <3>1, <1>1, <1>4, <1>5
      <3>2. CASE j = 1
        BY <2>1, <3>2, <1>1, <1>4, <1>5
      <3>3. CASE i # 1 /\ j # 1
        <4>1. s[i - 1] = s[j - 1] /\ i - 1 \in 1 .. Len(s) /\ j - 1 \in 1 .. Len(s)
          BY <2>1, <3>3, <1>1, <1>4
        <4>2. QED
          BY <4>1, <1>1
      <3>4. QED
        BY <3>1, <3>2, <3>3
    <2>2. QED
      BY <2>1, <1>4 DEF IsInjective
  <1>7. ToSet(r) = T \cup {a}
    <2>1. ASSUME NEW i \in 1 .. 1 + Len(s) PROVE r[i] \in T \cup {a}
      BY <1>1, <1>4
    <2>2. ASSUME NEW x \in T PROVE \E i \in 1 .. 1 + Len(s) : r[i] = x
      <3>1. PICK j \in 1 .. Len(s) : s[j] = x
        BY <1>1
      <3>2. j + 1 \in 2 .. 1 + Len(s) /\ (j + 1) - 1 = j
        BY <1>1
      <3>3. r[j + 1] = s[j]
        BY <3>2, <1>4
      <3>4. j + 1 \in 1 .. 1 + Len(s)
        BY <3>2, <1>1
      <3>5. QED
        BY <3>1, <3>3, <3>4
    <2>3. 1 \in 1 .. 1 + Len(s) /\ r[1] = a
      BY <1>1, <1>4
    <2>4. {r[i] : i \in 1 .. 1 + Len(s)} = T \cup {a}
      BY <2>1, <2>2, <2>3
    <2>5. QED
      BY <2>4, <1>4 DEF ToSet
  <1>8. QED
    BY <1>3, <1>6, <1>7 DEF Lists, r

LEMMA ListsType ==
  ASSUME NEW T, NEW s
  PROVE  Lists(s, T) <=> /\ s \in SeqOf(Accounts, Cardinality(Accounts))
                         /\ IsInjective(s) /\ ToSet(s) = T
  <1>1. Cardinality(Accounts) \in Nat
    BY StoreAssumption, FS_CardinalityType DEF StoreAssumption
  <1>2. s \in SeqOf(Accounts, Cardinality(Accounts))
          <=> s \in Seq(Accounts) /\ Len(s) <= Cardinality(Accounts)
    BY <1>1, SeqOfIsSeq
  <1>3. Lists(s, T) => Len(s) <= Cardinality(Accounts)
    BY ListIsShort
  <1>4. QED
    BY <1>2, <1>3 DEF Lists

WithJson == {a \in Accounts : json[a] # 0}

LEMMA OrderLists ==
  ASSUME TypeOK
  PROVE  /\ Lists(order, WithJson)
         /\ DOMAIN order = 1 .. Len(order) /\ Len(order) \in Nat
         /\ \A i \in 1 .. Len(order) : order[i] \in Accounts /\ json[order[i]] # 0
  <1>1. Lists(order, WithJson)
    BY ListsType DEF TypeOK, WithJson
  <1>2. DOMAIN order = 1 .. Len(order) /\ Len(order) \in Nat
    BY <1>1, LenProperties DEF Lists
  <1>3. \A i \in 1 .. Len(order) : order[i] \in ToSet(order)
    BY <1>2 DEF ToSet
  <1>4. QED
    BY <1>1, <1>2, <1>3 DEF Lists, WithJson

LEMMA Sizes ==
  /\ PageSize \in Nat \ {0} /\ MaxTries \in Nat \ {0} /\ MaxSeconds \in Nat \ {0}
  /\ MaxRequests \in Nat
  /\ Cardinality(Accounts) \in Nat
  /\ \A a \in Accounts : Cardinality(Accounts) >= 1
  <1>1. Cardinality(Accounts) \in Nat
    BY StoreAssumption, FS_CardinalityType DEF StoreAssumption
  <1>2. \A a \in Accounts : Cardinality(Accounts) # 0
    BY StoreAssumption, FS_EmptySet DEF StoreAssumption
  <1>3. QED
    BY <1>1, <1>2, StoreAssumption DEF StoreAssumption

\* A page has at most PageSize lines, each of an account that has a json.
LEMMA PageType ==
  ASSUME TypeOK, NEW k \in FirstRows
  PROVE  /\ Page(k) \in SeqOf(Line, PageSize)
         /\ \A n \in DOMAIN Page(k) :
              Page(k)[n].account \in Accounts /\ Page(k)[n] = Row(Page(k)[n].account)
  <1> DEFINE m == (IF k + PageSize - 1 > Len(order) THEN Len(order) ELSE k + PageSize - 1) - k + 1
  <1>1. /\ DOMAIN order = 1 .. Len(order) /\ Len(order) \in Nat
        /\ \A i \in 1 .. Len(order) : order[i] \in Accounts /\ json[order[i]] # 0
    BY OrderLists
  <1>2. k \in 1 .. Len(order)
    BY DEF FirstRows
  <1>3. m \in Nat /\ m <= PageSize
    BY <1>1, <1>2, Sizes
  <1>4. \A n \in 1 .. m : k + n - 1 \in 1 .. Len(order)
    BY <1>1, <1>2, Sizes
  <1> HIDE DEF m
  <1>5. Page(k) = [n \in 1 .. m |-> Row(order[k + n - 1])]
    BY DEF Page, m
  <1>6. ASSUME NEW a \in Accounts, json[a] # 0 PROVE Row(a) \in Line /\ Row(a).account = a
    <2>1. json[a] \in 1 .. MaxTries + 1
      BY <1>6, Sizes DEF TypeOK
    <2>2. QED
      BY <2>1 DEF Row, Line
  <1>7. Page(k) \in [1 .. m -> Line]
    BY <1>1, <1>4, <1>5, <1>6
  <1>8. m \in 0 .. PageSize
    BY <1>3, Sizes
  <1>9. Page(k) \in SeqOf(Line, PageSize)
    BY <1>7, <1>8 DEF SeqOf
  <1>10. DOMAIN Page(k) = 1 .. m
    BY <1>7
  <1>11. ASSUME NEW n \in 1 .. m
         PROVE  Page(k)[n].account \in Accounts /\ Page(k)[n] = Row(Page(k)[n].account)
    <2>1. Page(k)[n] = Row(order[k + n - 1])
      BY <1>5
    <2>2. order[k + n - 1] \in Accounts /\ json[order[k + n - 1]] # 0
      BY <1>1, <1>4
    <2>3. QED
      BY <2>1, <2>2, <1>6
  <1>12. QED
    BY <1>9, <1>10, <1>11

LEMMA NoTypes == NoExport \in Export /\ NoPush \in Push
  <1>1. <<>> \in SeqOf(Line, PageSize) /\ <<>> \in SeqOf(Token, Cardinality(Accounts))
    <2>1. \A S : \A n \in Nat : <<>> \in SeqOf(S, n)
      <3>1. ASSUME NEW S, NEW n \in Nat, NEW s, s = <<>> PROVE s \in SeqOf(S, n)
        <4>1. s \in Seq(S) /\ Len(s) <= n
          BY <3>1, EmptySeq
        <4>2. QED
          BY <4>1, SeqOfIsSeq
      <3>2. QED
        BY <3>1
    <2>2. QED
      BY <2>1, Sizes
  <1>2. QED
    BY <1>1, Sizes DEF NoExport, NoPush, Export, Push

\* What the steps of a push leave in it.
LEMMA PushTypes ==
  ASSUME TypeOK, NEW p \in Pushers
  PROVE  /\ push[p] \in Push
         /\ \A S \in SUBSET Accounts :
              [push[p] EXCEPT !.at = "post", !.known = S] \in Push
         /\ push[p].items # <<>> =>
              /\ Head(push[p].items) \in Token
              /\ [push[p] EXCEPT !.items = Tail(@)] \in Push
              /\ [push[p] EXCEPT !.items = Tail(@),
                                 !.known = @ \cup {Head(push[p].items).account}] \in Push
  <1>1. push[p] \in Push
    BY DEF TypeOK
  <1>2. \A S \in SUBSET Accounts : [push[p] EXCEPT !.at = "post", !.known = S] \in Push
    BY <1>1 DEF Push
  <1>3. ASSUME push[p].items # <<>>
        PROVE  /\ Head(push[p].items) \in Token
               /\ [push[p] EXCEPT !.items = Tail(@)] \in Push
               /\ [push[p] EXCEPT !.items = Tail(@),
                                  !.known = @ \cup {Head(push[p].items).account}] \in Push
    <2>1. push[p].items \in SeqOf(Token, Cardinality(Accounts))
      BY <1>1 DEF Push
    <2>2. /\ Tail(push[p].items) \in SeqOf(Token, Cardinality(Accounts))
          /\ Head(push[p].items) \in Token
      BY <2>1, <1>3, Sizes, TailOfSeqOf
    <2>3. Head(push[p].items).account \in Accounts
      BY <2>2 DEF Token
    <2>4. QED
      BY <1>1, <2>2, <2>3 DEF Push
  <1>4. QED
    BY <1>1, <1>2, <1>3

\* What the steps of an export leave in it.
LEMMA ExportTypes ==
  ASSUME TypeOK, NEW e \in Exports
  PROVE  /\ exp[e] \in Export
         /\ \A s \in {"verify", "delete"} : [exp[e] EXCEPT !.at = s] \in Export
         /\ [exp[e] EXCEPT !.next = "sso"] \in Export
         /\ exp[e].left # <<>> =>
              /\ Head(exp[e].left) \in Line
              /\ [exp[e] EXCEPT !.left = Tail(@)] \in Export
              /\ [exp[e] EXCEPT !.left = Tail(@), !.next = "json"] \in Export
         /\ ToSet(exp[e].page) \subseteq Line
  <1>1. exp[e] \in Export
    BY DEF TypeOK
  <1>2. exp[e].page \in SeqOf(Line, PageSize) /\ exp[e].left \in SeqOf(Line, PageSize)
    BY <1>1 DEF Export
  <1>3. exp[e].left # <<>> =>
          Head(exp[e].left) \in Line /\ Tail(exp[e].left) \in SeqOf(Line, PageSize)
    BY <1>2, Sizes, TailOfSeqOf
  <1>4. ToSet(exp[e].page) \subseteq Line
    <2>1. exp[e].page \in Seq(Line)
      BY <1>2, Sizes, SeqOfIsSeq
    <2>2. QED
      BY <2>1, LenProperties DEF ToSet
  <1>5. /\ \A s \in {"verify", "delete"} : [exp[e] EXCEPT !.at = s] \in Export
        /\ [exp[e] EXCEPT !.next = "sso"] \in Export
    BY <1>1 DEF Export
  <1>6. exp[e].left # <<>> =>
              /\ [exp[e] EXCEPT !.left = Tail(@)] \in Export
              /\ [exp[e] EXCEPT !.left = Tail(@), !.next = "json"] \in Export
    BY <1>1, <1>3 DEF Export
  <1>7. QED
    BY <1>1, <1>3, <1>4, <1>5, <1>6

-----------------------------------------------------------------------------
(* Type correctness *)

LEMMA ConvTypes ==
  ASSUME TypeOK, NEW a \in Accounts
  PROVE  /\ \A s \in {"attempt", "write", "push", "sso", "ok", "failed"} :
              Goes(a, s) => conv' \in [Accounts -> [at : {"none", "sidecar", "attempt",
                "write", "push", "sso", "ok", "failed", "gone"}, try : 1 .. MaxTries]]
         /\ Fails(a) => conv' \in [Accounts -> [at : {"none", "sidecar", "attempt",
                "write", "push", "sso", "ok", "failed", "gone"}, try : 1 .. MaxTries]]
  <1> DEFINE C == [at : {"none", "sidecar", "attempt", "write", "push", "sso", "ok",
                         "failed", "gone"}, try : 1 .. MaxTries]
  <1>1. conv[a] \in C /\ conv \in [Accounts -> C]
    BY DEF TypeOK
  <1>2. \A s \in {"attempt", "write", "push", "sso", "ok", "failed"} :
          [conv[a] EXCEPT !.at = s] \in C
    BY <1>1
  <1>3. \A s \in {"attempt", "write", "push", "sso", "ok", "failed"} :
          Goes(a, s) => conv' \in [Accounts -> C]
    BY <1>1, <1>2 DEF Goes
  <1>4. ASSUME Fails(a) PROVE conv' \in [Accounts -> C]
    <2>1. CASE conv[a].try < MaxTries
      <3>1. [at |-> "attempt", try |-> conv[a].try + 1] \in C
        BY <1>1, <2>1, Sizes
      <3>2. QED
        BY <3>1, <1>1, <1>4, <2>1 DEF Fails
    <2>2. CASE ~(conv[a].try < MaxTries)
      BY <1>3, <1>4, <2>2 DEF Fails
    <2>3. QED
      BY <2>1, <2>2
  <1>5. QED
    BY <1>3, <1>4

LEMMA ExcuseTypes ==
  ASSUME TypeOK, NEW s \in 1 .. MaxSeconds, NEW lines
  PROVE  Dropped(s, lines) \subseteq Token
  <1>1. files[s] \subseteq Line
    BY DEF TypeOK
  <1>2. \A l \in Line : [account |-> l.account, token |-> l.token] \in Token
    BY DEF Line, Token
  <1>3. QED
    BY <1>1, <1>2 DEF Dropped, Tokens

\* What CPA has after a POST: the item's token is its account's, or nothing is new.
LEMMA AnswersCloud ==
  ASSUME NEW item, NEW r \in Answers(item)
  PROVE  r[1] = cloud \/ r[1] = [cloud EXCEPT ![item.account] = item.token]
  <1>1. CASE r = <<cloud, FALSE>>
    BY <1>1
  <1>2. CASE r \in {[cloud EXCEPT ![item.account] = item.token]} \X BOOLEAN
    BY <1>2
  <1>3. QED
    BY <1>1, <1>2 DEF Answers

LEMMA TypeStep == TypeOK /\ ConvOK /\ [Next]_vars => TypeOK'
  <1> SUFFICES ASSUME TypeOK, ConvOK, [Next]_vars PROVE TypeOK'
    OBVIOUS
  <1> USE DEF store, exports, pushing, history
  <1>1. ASSUME NEW a \in Accounts, Sidecar(a) PROVE TypeOK'
    BY <1>1, ConvTypes DEF Sidecar, WritesSso, TypeOK
  <1>2. ASSUME NEW a \in Accounts, SsoToToken(a) PROVE TypeOK'
    BY <1>2, ConvTypes DEF SsoToToken, TypeOK
  <1>3. ASSUME NEW a \in Accounts, WriteJson(a) PROVE TypeOK'
    <2>1. CASE UNCHANGED <<json, order, saved, excused>>
      BY <1>3, <2>1, ConvTypes DEF WriteJson, TypeOK
    <2>2. CASE /\ saved' = [saved EXCEPT ![a] = @ + 1]
               /\ json' = [json EXCEPT ![a] = saved'[a]]
               /\ order' = Saved(a)
               /\ excused' = IF Doomed(a) THEN excused \cup {[account |-> a, token |-> saved'[a]]}
                                          ELSE excused
               /\ Goes(a, "push")
      <3>1. saved[a] + 1 \in 1 .. MaxTries + 1
        BY <1>3, Sizes DEF WriteJson, At, ConvOK, TypeOK
      <3>2. saved' \in [Accounts -> 0 .. MaxTries + 1] /\ saved'[a] = saved[a] + 1
            /\ json' \in [Accounts -> 0 .. MaxTries + 1]
            /\ excused' \subseteq Token
        BY <2>2, <3>1 DEF TypeOK, Token
      <3>3. Lists(order', WithJson')
        <4>1. Lists(RemoveFirst(order, a), WithJson \ {a})
          BY OrderLists, RemovedLists
        <4>2. Lists(order', (WithJson \ {a}) \cup {a})
          BY <4>1, FirstLists, <2>2 DEF Saved
        <4>3. WithJson' = (WithJson \ {a}) \cup {a}
          BY <2>2, <3>1, <3>2 DEF WithJson, TypeOK
        <4>4. QED
          BY <4>2, <4>3
      <3>4. /\ order' \in SeqOf(Accounts, Cardinality(Accounts)) /\ IsInjective(order')
            /\ ToSet(order') = {b \in Accounts : json'[b] # 0}
        BY <3>3, ListsType DEF WithJson
      <3>5. QED
        BY <1>3, <2>2, <3>2, <3>4, ConvTypes DEF WriteJson, TypeOK
    <2>3. QED
      BY <1>3, <2>1, <2>2 DEF WriteJson
  <1>4. ASSUME NEW a \in Accounts, AutoPush(a) PROVE TypeOK'
    <2>1. CASE UNCHANGED push
      BY <1>4, <2>1, ConvTypes DEF AutoPush, TypeOK
    <2>2. CASE /\ json[a] # 0
               /\ push' = [push EXCEPT ![a] = [at |-> "fetch", known |-> {}, skip |-> TRUE,
                             items |-> <<[account |-> a, token |-> json[a]]>>]]
               /\ UNCHANGED conv
      <3> DEFINE t == [account |-> a, token |-> json[a]]
      <3>1. t \in Token
        BY <2>2, Sizes DEF TypeOK, Token
      <3>2. <<t>> \in SeqOf(Token, Cardinality(Accounts))
        <4> DEFINE s == <<t>>
        <4> HIDE DEF t
        <4>1. s \in Seq(Token) /\ Len(s) = 1
          BY <3>1
        <4> HIDE DEF s
        <4>2. s \in SeqOf(Token, Cardinality(Accounts))
          BY <4>1, Sizes, SeqOfIsSeq
        <4>3. QED
          BY <4>2 DEF s
      <3>3. [at |-> "fetch", known |-> {}, skip |-> TRUE, items |-> <<t>>] \in Push
        BY <3>2 DEF Push
      <3>4. push' \in [Pushers -> Push]
        BY <3>3, <2>2 DEF TypeOK
      <3>5. QED
        BY <1>4, <2>2, <3>4 DEF AutoPush, TypeOK
    <2>3. QED
      BY <1>4, <2>1, <2>2 DEF AutoPush
  <1>5. ASSUME NEW a \in Accounts, WriteSso(a) PROVE TypeOK'
    BY <1>5, ConvTypes DEF WriteSso, WritesSso, Reported, TypeOK
  <1>6. ASSUME NEW p \in Pushers, Ends(p) PROVE /\ push' \in [Pushers -> Push]
          /\ conv' \in [Accounts -> [at : {"none", "sidecar", "attempt", "write", "push", "sso",
                                  "ok", "failed", "gone"}, try : 1 .. MaxTries]]
    BY <1>6, NoTypes, ConvTypes DEF Ends, TypeOK
  <1>7. ASSUME NEW p \in Pushers, Fetch(p) PROVE TypeOK'
    <2>1. CASE Ends(p)
      BY <1>6, <1>7, <2>1 DEF Fetch, TypeOK
    <2>2. CASE push' = [push EXCEPT ![p].at = "post", ![p].known = {a \in Accounts : cloud[a] # 0}]
               /\ UNCHANGED conv
      <3>1. [push[p] EXCEPT !.at = "post", !.known = {a \in Accounts : cloud[a] # 0}] \in Push
        BY PushTypes
      <3>2. push' \in [Pushers -> Push]
        BY <2>2, <3>1 DEF TypeOK
      <3>3. QED
        BY <1>7, <2>2, <3>2 DEF Fetch, TypeOK
    <2>3. QED
      BY <1>7, <2>1, <2>2 DEF Fetch
  <1>8. ASSUME NEW p \in Pushers, Post(p) PROVE TypeOK'
    <2> DEFINE item == Head(push[p].items)
    <2>1. /\ push[p].items # <<>> /\ item \in Token
          /\ [push[p] EXCEPT !.items = Tail(@)] \in Push
          /\ [push[p] EXCEPT !.items = Tail(@), !.known = @ \cup {item.account}] \in Push
      BY <1>8, PushTypes DEF Post
    <2>2. push' \in [Pushers -> Push]
      <3>1. \/ push' = [push EXCEPT ![p] = [push[p] EXCEPT !.items = Tail(@)]]
            \/ push' = [push EXCEPT ![p] = [push[p] EXCEPT !.items = Tail(@),
                                              !.known = @ \cup {item.account}]]
        BY <1>8 DEF Post, TypeOK
      <3>2. QED
        BY <2>1, <3>1 DEF TypeOK
    <2>3. cloud' \in [Accounts -> 0 .. MaxTries + 1]
      <3>1. \/ cloud' = cloud
            \/ cloud' = [cloud EXCEPT ![item.account] = item.token]
        BY <1>8, AnswersCloud DEF Post
      <3>2. item.account \in Accounts /\ item.token \in 0 .. MaxTries + 1
        BY <2>1, Sizes DEF Token
      <3>3. QED
        BY <3>1, <3>2 DEF TypeOK
    <2>4. QED
      BY <1>8, <2>2, <2>3 DEF Post, TypeOK
  <1>9. ASSUME NEW p \in Pushers, Pushed(p) PROVE TypeOK'
    BY <1>6, <1>9 DEF Pushed, TypeOK
  <1>10. ASSUME NEW p \in Pushes, Collect(p) PROVE TypeOK'
    <2>1. PICK skip \in BOOLEAN : push' = [push EXCEPT ![p] =
            [at |-> "fetch", known |-> {}, skip |-> skip,
             items |-> [i \in 1 .. Len(order) |->
                          [account |-> order[i], token |-> json[order[i]]]]]]
      BY <1>10 DEF Collect
    <2> DEFINE items == [i \in 1 .. Len(order) |->
                          [account |-> order[i], token |-> json[order[i]]]]
    <2>2. items \in [1 .. Len(order) -> Token]
      <3>1. ASSUME NEW i \in 1 .. Len(order)
            PROVE  [account |-> order[i], token |-> json[order[i]]] \in Token
        <4>1. order[i] \in Accounts /\ json[order[i]] # 0
          BY <3>1, OrderLists
        <4>2. json \in [Accounts -> 0 .. MaxTries + 1]
          BY DEF TypeOK
        <4>3. json[order[i]] \in 1 .. MaxTries + 1
          BY <4>1, <4>2, Sizes
        <4>4. QED
          BY ONLY <4>1, <4>3 DEF Token
      <3>2. QED
        BY <3>1
    <2>3. Len(order) \in 0 .. Cardinality(Accounts)
      BY OrderLists, ListIsShort, Sizes
    <2>4. items \in SeqOf(Token, Cardinality(Accounts))
      BY <2>2, <2>3 DEF SeqOf
    <2> HIDE DEF items
    <2>5. [at |-> "fetch", known |-> {}, skip |-> skip, items |-> items] \in Push
      BY <2>4 DEF Push
    <2>6. push' \in [Pushers -> Push]
      BY <2>1, <2>5 DEF TypeOK, items
    <2>7. QED
      BY <1>10, <2>6, Sizes DEF Collect, TypeOK
  <1>11. ASSUME NEW e \in Exports, List(e) PROVE TypeOK'
    <2>1. PICK k \in FirstRows : exp' = [exp EXCEPT ![e] =
            [at |-> "write", page |-> Page(k), second |-> now, left |-> Page(k), next |-> "json"]]
      BY <1>11 DEF List
    <2>2. [at |-> "write", page |-> Page(k), second |-> now, left |-> Page(k), next |-> "json"]
            \in Export
      BY PageType DEF Export, TypeOK
    <2>3. exp' \in [Exports -> Export]
      BY <2>1, <2>2 DEF TypeOK
    <2>4. QED
      BY <1>11, <2>3, Sizes DEF List, TypeOK
  <1>12. ASSUME NEW e \in Exports, WriteExport(e) PROVE TypeOK'
    <2>1. exp[e].second \in 1 .. MaxSeconds /\ ToSet(exp[e].page) \subseteq Line
      BY ExportTypes DEF Export
    <2>2. exp' \in [Exports -> Export]
      <3>1. \/ exp' = [exp EXCEPT ![e] = [exp[e] EXCEPT !.at = "verify"]]
            \/ exp' = [exp EXCEPT ![e] = NoExport]
        BY <1>12 DEF WriteExport
      <3>2. QED
        BY <3>1, ExportTypes, NoTypes DEF TypeOK
    <2>3. files' \in [1 .. MaxSeconds -> SUBSET Line]
      <3>1. \/ files' = files
            \/ files' = [files EXCEPT ![exp[e].second] = ToSet(exp[e].page)]
            \/ files' = [files EXCEPT ![exp[e].second] = {}]
        BY <1>12 DEF WriteExport
      <3>2. QED
        BY <2>1, <3>1 DEF TypeOK
    <2>4. excused' \subseteq Token
      <3>1. \/ excused' = excused
            \/ \E lines : excused' = excused \cup Dropped(exp[e].second, lines)
        BY <1>12 DEF WriteExport
      <3>2. QED
        BY <2>1, <3>1, ExcuseTypes DEF TypeOK
    <2>5. QED
      BY <1>12, <2>2, <2>3, <2>4 DEF WriteExport, TypeOK
  <1>13. ASSUME NEW e \in Exports, Verify(e) PROVE TypeOK'
    <2>1. exp' \in [Exports -> Export]
      <3>1. \/ exp' = [exp EXCEPT ![e] = [exp[e] EXCEPT !.at = "delete"]]
            \/ exp' = [exp EXCEPT ![e] = NoExport]
        BY <1>13 DEF Verify
      <3>2. QED
        BY <3>1, ExportTypes, NoTypes DEF TypeOK
    <2>2. QED
      BY <1>13, <2>1 DEF Verify, TypeOK
  <1>14. ASSUME NEW e \in Exports, Delete(e) PROVE TypeOK'
    <2> DEFINE a == Head(exp[e].left).account
    <2>1. a \in Accounts
      BY <1>14, ExportTypes DEF Delete, Line
    <2>2. exp' \in [Exports -> Export]
      <3>1. \/ exp' = [exp EXCEPT ![e] = [exp[e] EXCEPT !.next = "sso"]]
            \/ exp' = [exp EXCEPT ![e] = [exp[e] EXCEPT !.left = Tail(@)]]
            \/ exp' = [exp EXCEPT ![e] = [exp[e] EXCEPT !.left = Tail(@), !.next = "json"]]
        BY <1>14 DEF Delete
      <3>2. exp[e].left # <<>>
        BY <1>14 DEF Delete
      <3>3. QED
        BY <3>1, <3>2, ExportTypes DEF TypeOK
    <2>3. CASE UNCHANGED <<json, order, saved>> /\ (sso' = sso \/ sso' = sso \ {a})
      BY <1>14, <2>2, <2>3 DEF Delete, TypeOK
    <2>4. CASE json' = [json EXCEPT ![a] = 0] /\ order' = RemoveFirst(order, a)
               /\ UNCHANGED <<sso, saved>>
      <3>1. Lists(order', WithJson \ {a})
        BY <2>4, OrderLists, RemovedLists
      <3>2. WithJson' = WithJson \ {a} /\ json' \in [Accounts -> 0 .. MaxTries + 1]
        <4>1. json \in [Accounts -> 0 .. MaxTries + 1] /\ 0 \in 0 .. MaxTries + 1
          BY Sizes DEF TypeOK
        <4>2. QED
          BY <2>1, <2>4, <4>1 DEF WithJson
      <3>3. /\ order' \in SeqOf(Accounts, Cardinality(Accounts)) /\ IsInjective(order')
            /\ ToSet(order') = {b \in Accounts : json'[b] # 0}
        BY <3>1, <3>2, ListsType DEF WithJson
      <3>4. QED
        BY <1>14, <2>2, <2>4, <3>2, <3>3 DEF Delete, TypeOK
    <2>5. QED
      BY <1>14, <2>3, <2>4 DEF Delete
  <1>15. ASSUME NEW e \in Exports, Exported(e) PROVE TypeOK'
    BY <1>15, NoTypes DEF Exported, TypeOK
  <1>16. CASE Stop
    BY <1>16 DEF Stop, TypeOK
  <1>17. CASE DeleteExportFile
    BY <1>17, ExcuseTypes DEF DeleteExportFile, TypeOK
  <1>18. CASE Tick
    BY <1>18, Sizes DEF Tick, TypeOK
  <1>19. CASE Crash
    <2> DEFINE C == [at : {"none", "sidecar", "attempt", "write", "push", "sso", "ok",
                           "failed", "gone"}, try : 1 .. MaxTries]
    <2>1. \A a \in Accounts : conv[a] \in C
      BY DEF TypeOK
    <2>2. \A a \in Accounts : [conv[a] EXCEPT !.at = "gone"] \in C
      BY <2>1
    <2>3. conv' \in [Accounts -> C]
      BY <1>19, <2>1, <2>2 DEF Crash
    <2>4. exp' \in [Exports -> Export] /\ push' \in [Pushers -> Push]
      BY <1>19, NoTypes DEF Crash
    <2>5. QED
      BY <1>19, <2>3, <2>4 DEF Crash, TypeOK
  <1>20. CASE UNCHANGED vars
    BY <1>20 DEF vars, TypeOK
  <1>21. QED
    BY <1>1, <1>2, <1>3, <1>4, <1>5, <1>7, <1>8, <1>9, <1>10, <1>11, <1>12, <1>13, <1>14,
       <1>15, <1>16, <1>17, <1>18, <1>19, <1>20
       DEF Next, Converting, Pushing, Exporting

-----------------------------------------------------------------------------
(* Conversions, and what they give away *)

\* Nothing but a conversion's own steps and a crash moves it.

\* Nothing but a conversion's own steps and a crash moves it.
LEMMA ConvStep == TypeOK /\ ConvOK /\ [Next]_vars => ConvOK'
  <1> SUFFICES ASSUME TypeOK, ConvOK, [Next]_vars PROVE ConvOK'
    OBVIOUS
  <1> USE DEF store, exports, pushing, history
  <1>0. \A a \in Accounts : /\ conv[a].try \in 1 .. MaxTries
                            /\ conv[a].at \in {"none", "sidecar", "attempt", "write", "push",
                                               "sso", "ok", "failed", "gone"}
                            /\ conv[a] = [at |-> conv[a].at, try |-> conv[a].try]
    BY DEF TypeOK
  <1>a. Accounts \subseteq Pushers /\ \A p \in Pushes : p \notin Accounts
    BY StoreAssumption DEF StoreAssumption, Pushers
  <1>1. ASSUME NEW a \in Accounts, NEW s, Goes(a, s), UNCHANGED <<json, saved>>,
               \A b \in Accounts \ {a} : push'[b] = push[b], push'[a].at = "idle",
               conv[a].at # "none",
               s \in {"attempt", "write", "failed"} => json[a] = 0,
               s \in {"attempt", "write"} => saved[a] < conv[a].try,
               s \in {"push", "sso", "ok"} => saved[a] # 0,
               s # "none", s # "sidecar"
        PROVE  ConvOK'
    <2>1. conv'[a] = [conv[a] EXCEPT !.at = s] /\ \A b \in Accounts \ {a} : conv'[b] = conv[b]
      BY <1>1 DEF Goes, TypeOK
    <2>2. conv'[a].at = s /\ conv'[a].try = conv[a].try
      BY <2>1, <1>0
    <2>3. QED
      BY <1>1, <2>1, <2>2 DEF ConvOK
  <1>2. ASSUME NEW a \in Accounts, Fails(a), UNCHANGED <<json, saved, push>>,
               push[a].at = "idle",
               conv[a].at # "none", json[a] = 0
        PROVE  ConvOK'
    <2>1. CASE conv[a].try < MaxTries
      <3>1. /\ conv'[a] = [at |-> "attempt", try |-> conv[a].try + 1]
            /\ \A b \in Accounts \ {a} : conv'[b] = conv[b]
        BY <1>2, <2>1 DEF Fails, TypeOK
      <3>2. saved[a] < conv[a].try + 1 /\ saved[a] <= conv[a].try + 1
        BY <1>2, <1>0, Sizes DEF ConvOK, TypeOK
      <3>3. conv'[a].at = "attempt" /\ conv'[a].try = conv[a].try + 1
        BY <3>1
      <3>4. QED
        BY <1>2, <3>1, <3>2, <3>3 DEF ConvOK
    <2>2. CASE ~(conv[a].try < MaxTries)
      <3>1. Goes(a, "failed")
        BY <1>2, <2>2 DEF Fails
      <3>2. QED
        BY <3>1, <1>1, <1>2
    <2>3. QED
      BY <2>1, <2>2
  <1>3. ASSUME NEW a \in Accounts, Sidecar(a) PROVE ConvOK'
    BY <1>1, <1>3 DEF Sidecar, At, ConvOK
  <1>4. ASSUME NEW a \in Accounts, SsoToToken(a) PROVE ConvOK'
    <2>1. conv[a].at = "attempt" /\ json[a] = 0 /\ saved[a] < conv[a].try
          /\ push[a].at = "idle" /\ UNCHANGED <<json, saved, push>>
      BY <1>4 DEF SsoToToken, At, ConvOK
    <2>2. QED
      BY <1>1, <1>2, <1>4, <2>1 DEF SsoToToken
  <1>5. ASSUME NEW a \in Accounts, WriteJson(a) PROVE ConvOK'
    <2>1. conv[a].at = "write" /\ json[a] = 0 /\ saved[a] < conv[a].try
      BY <1>5 DEF WriteJson, At, ConvOK
    <2>2. CASE Fails(a) /\ UNCHANGED <<json, order, saved, excused>>
      BY <2>1, <2>2, <1>2, <1>5 DEF WriteJson, ConvOK
    <2>3. CASE /\ saved' = [saved EXCEPT ![a] = @ + 1]
               /\ json' = [json EXCEPT ![a] = saved'[a]]
               /\ Goes(a, "push")
      <3>1. conv'[a].at = "push" /\ conv'[a].try = conv[a].try
            /\ \A b \in Accounts \ {a} : conv'[b] = conv[b]
        BY <2>3, <1>0 DEF Goes, TypeOK
      <3>2. saved'[a] = saved[a] + 1 /\ saved[a] \in Nat
            /\ \A b \in Accounts \ {a} : saved'[b] = saved[b] /\ json'[b] = json[b]
        BY <2>3, Sizes DEF TypeOK
      <3>3. saved'[a] # 0 /\ saved'[a] <= conv'[a].try
        <4>1. conv[a].try \in Nat
          <5>1. conv[a].try \in 1 .. MaxTries
            BY <1>0
          <5>2. QED
            BY <5>1, Sizes
        <4>2. saved[a] + 1 <= conv[a].try /\ saved[a] + 1 # 0
          <5>1. saved[a] < conv[a].try /\ saved[a] \in Nat
            BY <3>2, <2>1
          <5>2. QED
            BY <4>1, <5>1
        <4>3. QED
          BY <4>2, <3>1, <3>2
      <3>4. push' = push
        BY <1>5 DEF WriteJson
      <3>5. QED
        BY <3>1, <3>2, <3>3, <3>4, <2>1 DEF ConvOK
    <2>4. QED
      BY <1>5, <2>2, <2>3 DEF WriteJson
  <1>6. ASSUME NEW a \in Accounts, At(a, "push"), Goes(a, "sso"), UNCHANGED <<json, saved>>,
               \A b \in Accounts \ {a} : push'[b] = push[b], push'[a].at = "idle"
        PROVE  ConvOK'
    BY <1>1, <1>6 DEF At, ConvOK
  <1>7. ASSUME NEW a \in Accounts, AutoPush(a) PROVE ConvOK'
    <2>1. At(a, "push") /\ push[a].at = "idle" /\ UNCHANGED <<json, saved>>
      BY <1>7 DEF AutoPush
    <2>2. CASE Goes(a, "sso") /\ UNCHANGED push
      BY <2>1, <2>2, <1>6
    <2>3. CASE conv' = conv /\ \A b \in Accounts \ {a} : push'[b] = push[b]
      BY <2>1, <2>3 DEF ConvOK, At
    <2>4. QED
      BY <1>7, <2>2, <2>3, <1>a DEF AutoPush, TypeOK
  <1>b. ASSUME NEW p \in Pushers, push[p].at # "idle", Ends(p), UNCHANGED <<json, saved>>
        PROVE  ConvOK'
    <2>1. push' = [push EXCEPT ![p] = NoPush] /\ NoPush.at = "idle"
      BY <1>b DEF Ends, NoPush
    <2>2. CASE p \in Accounts
      <3>1. At(p, "push") /\ Goes(p, "sso")
        BY <1>b, <2>2 DEF ConvOK, At, Ends
      <3>2. push'[p].at = "idle" /\ \A b \in Accounts \ {p} : push'[b] = push[b]
        BY <2>1, <1>a DEF TypeOK
      <3>3. QED
        BY <3>1, <3>2, <2>2, <1>6, <1>b
    <2>3. CASE p \notin Accounts
      BY <1>b, <2>1, <2>3, <1>a DEF Ends, ConvOK, TypeOK
    <2>4. QED
      BY <2>2, <2>3
  <1>c. ASSUME NEW p \in Pushers, Fetch(p) \/ Pushed(p) PROVE ConvOK'
    <2>1. UNCHANGED <<json, saved>> /\ push[p].at \in {"fetch", "post"}
      BY <1>c DEF Fetch, Pushed
    <2>2. CASE Ends(p)
      BY <2>1, <2>2, <1>b
    <2>3. CASE push' = [push EXCEPT ![p].at = "post", ![p].known = {a \in Accounts : cloud[a] # 0}]
               /\ UNCHANGED conv
      <3>1. \A b \in Accounts : push'[b].at # "idle" => push[b].at # "idle"
        BY <2>1, <2>3, <1>a DEF TypeOK
      <3>2. QED
        BY <2>1, <2>3, <3>1 DEF ConvOK
    <2>4. QED
      BY <1>c, <2>2, <2>3 DEF Fetch, Pushed
  <1>d. ASSUME NEW p \in Pushers, Post(p) PROVE ConvOK'
    <2>1. \A b \in Accounts : push'[b].at = push[b].at
      <3>1. \/ push' = [push EXCEPT ![p] = [push[p] EXCEPT !.items = Tail(@)]]
            \/ push' = [push EXCEPT ![p] = [push[p] EXCEPT !.items = Tail(@),
                          !.known = @ \cup {Head(push[p].items).account}]]
        BY <1>d DEF Post, TypeOK
      <3>2. push[p] \in Push
        BY PushTypes
      <3>3. /\ [push[p] EXCEPT !.items = Tail(@)].at = push[p].at
            /\ [push[p] EXCEPT !.items = Tail(@),
                  !.known = @ \cup {Head(push[p].items).account}].at = push[p].at
        BY <3>2 DEF Push
      <3>4. push'[p].at = push[p].at /\ \A b \in Pushers \ {p} : push'[b] = push[b]
        BY <3>1, <3>3 DEF TypeOK
      <3>5. QED
        BY <3>4, <1>a
    <2>2. UNCHANGED <<conv, json, saved>>
      BY <1>d DEF Post
    <2>3. QED
      BY <2>1, <2>2 DEF ConvOK
  <1>e. ASSUME NEW p \in Pushes, Collect(p) PROVE ConvOK'
    <2>1. \A b \in Accounts : push'[b] = push[b]
      BY <1>e, <1>a DEF Collect, TypeOK
    <2>2. UNCHANGED <<conv, json, saved>>
      BY <1>e DEF Collect
    <2>3. QED
      BY <2>1, <2>2 DEF ConvOK
  <1>8. ASSUME NEW a \in Accounts, WriteSso(a) PROVE ConvOK'
    <2>1. conv[a].at = "sso" /\ saved[a] # 0 /\ UNCHANGED <<json, saved, push>>
          /\ push[a].at = "idle"
      BY <1>8 DEF WriteSso, At, ConvOK
    <2>2. CASE json[a] # 0 /\ Goes(a, "ok")
      BY <2>1, <2>2, <1>1
    <2>3. CASE json[a] = 0 /\ Fails(a)
      BY <2>1, <2>3, <1>2
    <2>4. QED
      BY <1>8, <2>2, <2>3 DEF WriteSso, Reported
  <1>9. ASSUME NEW e \in Exports, Delete(e) PROVE ConvOK'
    <2> DEFINE a == Head(exp[e].left).account
    <2>1. \A b \in Accounts : json'[b] = json[b] \/ json'[b] = 0
      BY <1>9 DEF Delete, TypeOK
    <2>2. conv' = conv /\ saved' = saved /\ push' = push
      BY <1>9 DEF Delete
    <2>3. QED
      BY <2>1, <2>2 DEF ConvOK
  <1>10. CASE Crash
    <2>1. \A a \in Accounts : \/ conv'[a] = conv[a]
                              \/ conv'[a].at = "gone" /\ conv'[a].try = conv[a].try
                                 /\ conv[a].at # "none"
      BY <1>10, <1>0 DEF Crash
    <2>2. json' = json /\ saved' = saved /\ \A a \in Accounts : push'[a].at = "idle"
      BY <1>10, <1>a DEF Crash, NoPush
    <2>3. QED
      BY <2>1, <2>2 DEF ConvOK
  <1>11. CASE UNCHANGED <<conv, json, saved, push>>
    BY <1>11 DEF ConvOK
  <1>12. QED
    BY <1>3, <1>4, <1>5, <1>7, <1>8, <1>9, <1>10, <1>11, <1>c, <1>d, <1>e
       DEF Next, Converting, Pushing, Exporting, List, WriteExport, Verify, Exported, Stop, DeleteExportFile, Tick, vars

LEMMA ItemsKept ==
  ASSUME TypeOK, NEW p \in Pushers, push[p].items # <<>>,
         NEW q, q.items = Tail(push[p].items)
  PROVE  /\ Head(push[p].items) = push[p].items[1] /\ 1 \in DOMAIN push[p].items
         /\ \A i \in DOMAIN q.items : i + 1 \in DOMAIN push[p].items
                                      /\ q.items[i] = push[p].items[i + 1]
  <1>1. push[p].items \in SeqOf(Token, Cardinality(Accounts))
    BY DEF TypeOK, Push
  <1>2. QED
    BY <1>1, Sizes, TailOfSeqOf

\* Accounts in the items of a push are accounts.
LEMMA ItemAccounts ==
  ASSUME TypeOK, NEW p \in Pushers, NEW i \in DOMAIN push[p].items
  PROVE  push[p].items[i].account \in Accounts /\ push[p].items[i].token \in Nat
  <1>1. push[p].items \in SeqOf(Token, Cardinality(Accounts))
    BY DEF TypeOK, Push
  <1>2. push[p].items \in Seq(Token)
    BY <1>1, Sizes, SeqOfIsSeq
  <1>3. push[p].items[i] \in Token
    BY <1>2, LenProperties
  <1>4. QED
    BY <1>3, Sizes DEF Token

LEMMA SavedStep == TypeOK /\ ConvOK /\ TokensSaved /\ [Next]_vars => TokensSaved'
  <1> SUFFICES ASSUME TypeOK, ConvOK, TokensSaved, [Next]_vars PROVE TokensSaved'
    OBVIOUS
  <1> USE DEF store, exports, pushing, history
  <1> DEFINE Items(q) == \A i \in DOMAIN q.items :
               q.items[i].account \in Accounts /\ q.items[i].token <= saved[q.items[i].account]
  <1>0. /\ \A p \in Pushers : Items(push[p])
        /\ \A a \in Accounts : json[a] <= saved[a] /\ cloud[a] <= saved[a]
        /\ \A a \in Accounts : saved[a] \in Nat /\ json[a] \in Nat
        /\ Accounts \subseteq Pushers
    BY ItemAccounts, Sizes DEF TokensSaved, TypeOK, Pushers
  <1>n. Items(NoPush)
    BY DEF NoPush
  <1> HIDE DEF Items
  <1>1. ASSUME saved' = saved, cloud' = cloud, NEW p \in Pushers, NEW q, Items(q),
               push' = [push EXCEPT ![p] = q], \A a \in Accounts : json'[a] <= saved[a]
        PROVE  TokensSaved'
    BY <1>1, <1>0 DEF TokensSaved, TypeOK, Items
  <1>2. ASSUME saved' = saved, cloud' = cloud, push' = push,
               \A a \in Accounts : json'[a] <= saved[a]
        PROVE  TokensSaved'
    BY <1>2, <1>0 DEF TokensSaved
  <1>3. ASSUME NEW a \in Accounts, WriteJson(a) PROVE TokensSaved'
    <2>1. CASE UNCHANGED <<json, saved>>
      BY <1>3, <2>1, <1>0, <1>2 DEF WriteJson
    <2>2. CASE saved' = [saved EXCEPT ![a] = @ + 1] /\ json' = [json EXCEPT ![a] = saved'[a]]
      <3>1. /\ \A b \in Accounts : saved[b] <= saved'[b] /\ saved'[b] \in Nat
            /\ \A b \in Accounts : json'[b] <= saved'[b]
        BY <2>2, <1>0 DEF TypeOK
      <3>2. push' = push /\ cloud' = cloud
        BY <1>3 DEF WriteJson
      <3>3. \A b \in Accounts : cloud'[b] <= saved'[b]
        <4>1. \A b \in Accounts : cloud[b] \in Nat /\ saved[b] \in Nat /\ cloud[b] <= saved[b]
          BY <1>0, Sizes DEF TypeOK, TokensSaved
        <4>2. QED
          BY <3>1, <3>2, <4>1
      <3>4. ASSUME NEW p \in Pushers, NEW i \in DOMAIN push[p].items
            PROVE  push[p].items[i].token <= saved'[push[p].items[i].account]
        <4>1. /\ push[p].items[i].account \in Accounts /\ push[p].items[i].token \in Nat
              /\ push[p].items[i].token <= saved[push[p].items[i].account]
          BY ItemAccounts DEF TokensSaved
        <4>2. QED
          BY <4>1, <3>1, <1>0
      <3>5. QED
        BY <3>1, <3>2, <3>3, <3>4 DEF TokensSaved
    <2>3. QED
      BY <1>3, <2>1, <2>2 DEF WriteJson
  <1>4. ASSUME NEW a \in Accounts, AutoPush(a) PROVE TokensSaved'
    <2>1. CASE UNCHANGED push
      BY <1>4, <2>1, <1>0, <1>2 DEF AutoPush
    <2>2. CASE push' = [push EXCEPT ![a] = [at |-> "fetch", known |-> {}, skip |-> TRUE,
                             items |-> <<[account |-> a, token |-> json[a]]>>]]
      <3>1. Items([at |-> "fetch", known |-> {}, skip |-> TRUE,
                   items |-> <<[account |-> a, token |-> json[a]]>>])
        BY <1>0 DEF Items
      <3>2. QED
        BY <1>4, <2>2, <3>1, <1>0, <1>1 DEF AutoPush
    <2>3. QED
      BY <1>4, <2>1, <2>2 DEF AutoPush
  <1>5. ASSUME NEW p \in Pushers, Ends(p), UNCHANGED <<json, saved, cloud>> PROVE TokensSaved'
    BY <1>5, <1>n, <1>0, <1>1 DEF Ends
  <1>6. ASSUME NEW p \in Pushers, Fetch(p) PROVE TokensSaved'
    <2>1. CASE push' = [push EXCEPT ![p].at = "post", ![p].known = {a \in Accounts : cloud[a] # 0}]
      <3> DEFINE q == [push[p] EXCEPT !.at = "post", !.known = {a \in Accounts : cloud[a] # 0}]
      <3>1. q.items = push[p].items /\ push' = [push EXCEPT ![p] = q]
        BY <2>1 DEF TypeOK, Push
      <3>2. Items(q)
        BY <3>1, <1>0 DEF Items
      <3>3. QED
        BY <1>6, <3>1, <3>2, <1>0, <1>1 DEF Fetch
    <2>2. QED
      BY <1>6, <2>1, <1>5 DEF Fetch
  <1>7. ASSUME NEW p \in Pushers, Post(p) PROVE TokensSaved'
    <2> DEFINE item == Head(push[p].items)
    <2>1. PICK q : q.items = Tail(push[p].items) /\ push' = [push EXCEPT ![p] = q]
      <3>1. push[p] \in Push
        BY PushTypes
      <3> DEFINE q1 == [push[p] EXCEPT !.items = Tail(@)]
                 q2 == [push[p] EXCEPT !.items = Tail(@), !.known = @ \cup {item.account}]
      <3>2. push' = [push EXCEPT ![p] = q1] \/ push' = [push EXCEPT ![p] = q2]
        BY <1>7 DEF Post, TypeOK
      <3>3. q1.items = Tail(push[p].items) /\ q2.items = Tail(push[p].items)
        BY <3>1 DEF Push
      <3>4. QED
        BY <3>2, <3>3
    <2>2. /\ push[p].items # <<>> /\ saved' = saved /\ json' = json
      BY <1>7 DEF Post
    <2>3. item.account \in Accounts /\ item.token <= saved[item.account]
      BY <2>1, <2>2, <1>0, ItemsKept DEF Items
    <2>4. Items(q)
      <3>1. \A i \in DOMAIN q.items : i + 1 \in DOMAIN push[p].items
                                      /\ q.items[i] = push[p].items[i + 1]
        BY <2>1, <2>2, ItemsKept
      <3>2. Items(push[p])
        BY <1>0
      <3>3. QED
        BY <3>1, <3>2 DEF Items
    <2>5. \A a \in Accounts : cloud'[a] <= saved[a]
      <3>1. cloud' = cloud \/ cloud' = [cloud EXCEPT ![item.account] = item.token]
        BY <1>7, AnswersCloud DEF Post
      <3>2. QED
        BY <3>1, <2>3, <1>0 DEF TypeOK
    <2>6. QED
      BY <2>1, <2>2, <2>4, <2>5, <1>0 DEF TokensSaved, TypeOK, Items
  <1>8. ASSUME NEW p \in Pushes, Collect(p) PROVE TokensSaved'
    <2>1. PICK skip \in BOOLEAN : push' = [push EXCEPT ![p] =
            [at |-> "fetch", known |-> {}, skip |-> skip,
             items |-> [i \in 1 .. Len(order) |->
                          [account |-> order[i], token |-> json[order[i]]]]]]
      BY <1>8 DEF Collect
    <2>2. Items([at |-> "fetch", known |-> {}, skip |-> skip,
                 items |-> [i \in 1 .. Len(order) |->
                              [account |-> order[i], token |-> json[order[i]]]]])
      BY <1>0, OrderLists DEF Items
    <2>3. p \in Pushers /\ UNCHANGED <<json, saved, cloud>>
      BY <1>8 DEF Collect, Pushers
    <2>4. QED
      BY <2>1, <2>2, <2>3, <1>0, <1>1
  <1>9. ASSUME NEW e \in Exports, Delete(e) PROVE TokensSaved'
    <2>1. \A b \in Accounts : json'[b] = json[b] \/ json'[b] = 0
      BY <1>9 DEF Delete, TypeOK
    <2>2. UNCHANGED <<push, cloud, saved>>
      BY <1>9 DEF Delete
    <2>3. QED
      BY <2>1, <2>2, <1>0, <1>2
  <1>10. CASE Crash
    <2>1. \A p \in Pushers : push'[p] = NoPush
      BY <1>10 DEF Crash
    <2>2. UNCHANGED <<json, cloud, saved>>
      BY <1>10 DEF Crash
    <2>3. QED
      BY <2>1, <2>2, <1>0, <1>n DEF TokensSaved, Items
  <1>11. CASE UNCHANGED <<json, saved, push, cloud>>
    BY <1>11, <1>0, <1>2
  <1>12. QED
    BY <1>3, <1>4, <1>5, <1>6, <1>7, <1>8, <1>9, <1>10, <1>11
       DEF Next, Converting, Pushing, Exporting, Sidecar, SsoToToken, WriteSso, WritesSso,
           Pushed, List, WriteExport, Verify, Exported, Stop, DeleteExportFile, Tick, vars

-----------------------------------------------------------------------------
(* Exports *)

\* A line that a step takes out of a file is excused, unless its pair is still
\* there and no export has begun to delete it.
LEMMA FileStep ==
  ASSUME TypeOK, [Next]_vars
  PROVE  /\ excused \subseteq excused'
         /\ \A s \in 1 .. MaxSeconds : \A l \in files[s] :
              \/ l \in files'[s]
              \/ [account |-> l.account, token |-> l.token] \in excused'
              \/ Stored(l) /\ ~Deleting(l.account) /\ UNCHANGED <<json, sso>>
  <1> USE DEF store, exports, pushing, history
  <1> DEFINE Kept == \A s \in 1 .. MaxSeconds : \A l \in files[s] :
              \/ l \in files'[s]
              \/ [account |-> l.account, token |-> l.token] \in excused'
              \/ Stored(l) /\ ~Deleting(l.account) /\ UNCHANGED <<json, sso>>
  <1>1. ASSUME NEW s \in 1 .. MaxSeconds, NEW lines, files' = [files EXCEPT ![s] = lines],
               excused' = excused \cup Dropped(s, lines), UNCHANGED <<json, sso>>
        PROVE  excused \subseteq excused' /\ Kept
    <2>1. ASSUME NEW l \in files[s], l \notin lines, ~(Stored(l) /\ ~Deleting(l.account))
          PROVE  [account |-> l.account, token |-> l.token] \in excused'
      BY <1>1, <2>1 DEF Dropped, Tokens
    <2>2. files'[s] = lines /\ \A r \in (1 .. MaxSeconds) \ {s} : files'[r] = files[r]
      BY <1>1 DEF TypeOK
    <2>3. QED
      BY <1>1, <2>1, <2>2
  <1>2. ASSUME NEW e \in Exports, WriteExport(e) PROVE excused \subseteq excused' /\ Kept
    <2>1. exp[e].second \in 1 .. MaxSeconds
      BY ExportTypes DEF Export
    <2>2. CASE files' = files /\ excused \subseteq excused'
      BY <2>2
    <2>3. CASE \E lines : /\ files' = [files EXCEPT ![exp[e].second] = lines]
                          /\ excused' = excused \cup Dropped(exp[e].second, lines)
      BY <1>2, <2>1, <2>3, <1>1 DEF WriteExport
    <2>4. QED
      BY <1>2, <2>2, <2>3 DEF WriteExport
  <1>3. CASE DeleteExportFile
    BY <1>3, <1>1 DEF DeleteExportFile
  <1>4. CASE files' = files /\ excused \subseteq excused'
    BY <1>4
  <1>5. QED
    BY <1>2, <1>3, <1>4
       DEF Next, Converting, Pushing, Exporting, Sidecar, SsoToToken, WriteJson, AutoPush,
           WriteSso, WritesSso, Fetch, Post, Pushed, Collect, List, Verify, Delete, Exported,
           Stop, Tick, Crash, vars

\* What may become of a json.
LEMMA JsonStep ==
  ASSUME TypeOK, ConvOK, [Next]_vars, NEW a \in Accounts
  PROVE  \/ json'[a] = json[a] /\ saved'[a] = saved[a]
         \/ /\ json[a] = 0 /\ saved'[a] = saved[a] + 1 /\ json'[a] = saved'[a]
            /\ Doomed(a) => [account |-> a, token |-> json'[a]] \in excused'
            /\ UNCHANGED <<exp, files>>
         \/ /\ json'[a] = 0 /\ saved'[a] = saved[a]
            /\ UNCHANGED <<files, excused>>
            /\ \E e \in Exports : exp[e].at = "delete" /\ a \in JsonLeft(e)
  <1> USE DEF store, exports, pushing, history
  <1> DEFINE Goal == \/ json'[a] = json[a] /\ saved'[a] = saved[a]
         \/ /\ json[a] = 0 /\ saved'[a] = saved[a] + 1 /\ json'[a] = saved'[a]
            /\ Doomed(a) => [account |-> a, token |-> json'[a]] \in excused'
            /\ UNCHANGED <<exp, files>>
         \/ /\ json'[a] = 0 /\ saved'[a] = saved[a]
            /\ UNCHANGED <<files, excused>>
            /\ \E e \in Exports : exp[e].at = "delete" /\ a \in JsonLeft(e)
  <1>1. ASSUME NEW b \in Accounts, WriteJson(b) PROVE Goal
    <2>1. CASE UNCHANGED <<json, saved>>
      BY <2>1
    <2>2. CASE /\ saved' = [saved EXCEPT ![b] = @ + 1]
               /\ json' = [json EXCEPT ![b] = saved'[b]]
               /\ excused' = IF Doomed(b) THEN excused \cup {[account |-> b, token |-> saved'[b]]}
                                          ELSE excused
      <3>1. CASE a # b
        BY <2>2, <3>1 DEF TypeOK
      <3>2. CASE a = b
        <4>1. json[a] = 0 /\ UNCHANGED <<exp, files>>
          BY <1>1, <3>2 DEF WriteJson, At, ConvOK
        <4>2. saved'[a] = saved[a] + 1 /\ json'[a] = saved'[a]
          BY <2>2, <3>2 DEF TypeOK
        <4>3. Doomed(a) => [account |-> a, token |-> json'[a]] \in excused'
          BY <2>2, <3>2, <4>2
        <4>4. QED
          BY <4>1, <4>2, <4>3
      <3>3. QED
        BY <3>1, <3>2
    <2>3. QED
      BY <1>1, <2>1, <2>2 DEF WriteJson
  <1>2. ASSUME NEW e \in Exports, Delete(e) PROVE Goal
    <2>1. CASE json' = json
      BY <1>2, <2>1 DEF Delete
    <2>2. CASE json' # json
      <3>1. /\ exp[e].at = "delete" /\ exp[e].next = "json" /\ exp[e].left # <<>>
            /\ json' = [json EXCEPT ![Head(exp[e].left).account] = 0]
            /\ UNCHANGED <<saved, files, excused>>
        BY <1>2, <2>2 DEF Delete
      <3>2. exp[e].left \in SeqOf(Line, PageSize)
        BY DEF TypeOK, Export
      <3>3. Head(exp[e].left) = exp[e].left[1] /\ 1 \in DOMAIN exp[e].left
        BY <3>1, <3>2, Sizes, TailOfSeqOf
      <3>4. Head(exp[e].left).account \in JsonLeft(e)
        BY <3>1, <3>3 DEF JsonLeft
      <3>5. QED
        BY <3>1, <3>4 DEF TypeOK
    <2>3. QED
      BY <2>1, <2>2
  <1>3. CASE UNCHANGED <<json, saved>>
    BY <1>3
  <1>4. QED
    BY <1>1, <1>2, <1>3
       DEF Next, Converting, Pushing, Exporting, Sidecar, SsoToToken, AutoPush,
           WriteSso, WritesSso, Fetch, Post, Pushed, Collect, List, WriteExport, Verify, Exported,
           Stop, DeleteExportFile, Tick, Crash, vars

\* What may become of a cookie.
LEMMA SsoStep ==
  ASSUME TypeOK, [Next]_vars, NEW a \in Accounts
  PROVE  /\ a \in kept' => a \in kept \/ a \in sso'
         /\ a \in sso => \/ a \in sso'
                         \/ /\ UNCHANGED <<files, excused>>
                            /\ \E e \in Exports : /\ exp[e].at = "delete" /\ exp[e].next = "sso"
                                                  /\ exp[e].left # <<>>
                                                  /\ a = exp[e].left[1].account
                                                  /\ 1 \in DOMAIN exp[e].left
  <1> USE DEF store, exports, pushing, history
  <1>1. ASSUME NEW e \in Exports, Delete(e), a \in sso, a \notin sso'
        PROVE  /\ UNCHANGED <<files, excused>>
               /\ exp[e].at = "delete" /\ exp[e].next = "sso" /\ exp[e].left # <<>>
               /\ a = exp[e].left[1].account /\ 1 \in DOMAIN exp[e].left
    <2>1. /\ UNCHANGED <<files, excused>>
          /\ exp[e].at = "delete" /\ exp[e].next = "sso" /\ exp[e].left # <<>>
          /\ a = Head(exp[e].left).account
      BY <1>1 DEF Delete
    <2>2. exp[e].left \in SeqOf(Line, PageSize)
      BY DEF TypeOK, Export
    <2>3. Head(exp[e].left) = exp[e].left[1] /\ 1 \in DOMAIN exp[e].left
      BY <2>1, <2>2, Sizes, TailOfSeqOf
    <2>4. QED
      BY <2>1, <2>3
  <1>2. ASSUME NEW e \in Exports, Delete(e) PROVE kept' = kept
    BY <1>2 DEF Delete
  <1>3. ASSUME NEW b \in Accounts, Sidecar(b) \/ WriteSso(b)
        PROVE  /\ a \in kept' => a \in kept \/ a \in sso'
               /\ a \in sso => a \in sso'
    BY <1>3 DEF Sidecar, WriteSso, WritesSso
  <1>4. CASE UNCHANGED <<sso, kept>>
    BY <1>4
  <1>5. QED
    BY <1>1, <1>2, <1>3, <1>4
       DEF Next, Converting, Pushing, Exporting, SsoToToken, WriteJson, AutoPush,
           Fetch, Post, Pushed, Collect, List, WriteExport, Verify, Exported,
           Stop, DeleteExportFile, Tick, Crash, vars

LEMMA LossStep ==
  TypeOK /\ ConvOK /\ Backed /\ NothingLost /\ [Next]_vars => NothingLost'
  <1> SUFFICES ASSUME TypeOK, ConvOK, Backed, NothingLost, [Next]_vars,
                      NEW a \in Accounts, NEW t \in 1 .. saved'[a]
               PROVE  json'[a] = t \/ InFile(a, t)' \/ [account |-> a, token |-> t] \in excused'
    BY DEF NothingLost
  <1>1. ASSUME InFile(a, t) \/ Excuse(a, t)
        PROVE  json'[a] = t \/ InFile(a, t)' \/ [account |-> a, token |-> t] \in excused'
    <2>1. CASE Excuse(a, t)
      BY <2>1, FileStep DEF Excuse
    <2>2. CASE InFile(a, t)
      <3>0. PICK s \in 1 .. MaxSeconds : [account |-> a, token |-> t] \in Tokens(files[s])
        BY <2>2 DEF InFile
      <3>1. PICK l \in files[s] : l.account = a /\ l.token = t
        BY <3>0 DEF Tokens
      <3>2. CASE l \in files'[s]
        <4>1. [account |-> a, token |-> t] \in Tokens(files'[s])
          BY <3>1, <3>2 DEF Tokens
        <4>2. QED
          BY <4>1 DEF InFile, Tokens
      <3>3. CASE [account |-> l.account, token |-> l.token] \in excused'
        BY <3>1, <3>3
      <3>4. CASE Stored(l) /\ UNCHANGED json
        BY <3>1, <3>4 DEF Stored
      <3>5. QED
        BY <3>2, <3>3, <3>4, FileStep
    <2>3. QED
      BY <1>1, <2>1, <2>2
  <1>2. saved[a] \in Nat /\ t \in Nat /\ t # 0 /\ t <= saved'[a] /\ saved'[a] \in Nat
    <2>1. saved[a] \in Nat
      BY Sizes DEF TypeOK
    <2>2. saved'[a] = saved[a] \/ saved'[a] = saved[a] + 1
      BY JsonStep
    <2>3. QED
      BY <2>1, <2>2
  <1>3. CASE t <= saved[a]
    <2>1. t \in 1 .. saved[a]
      BY <1>2, <1>3
    <2>2. json[a] = t \/ InFile(a, t) \/ Excuse(a, t)
      BY <2>1 DEF NothingLost, Excuse
    <2>3. CASE json[a] = t
      <3>1. CASE json'[a] = json[a]
        BY <2>3, <3>1
      <3>2. CASE \E e \in Exports : exp[e].at = "delete" /\ a \in JsonLeft(e)
        <4>1. InFile(a, t) \/ Excuse(a, t)
          BY <2>3, <3>2, <1>2 DEF Backed
        <4>2. QED
          BY <4>1, <1>1
      <3>3. QED
        BY <2>3, <3>1, <3>2, <1>2, JsonStep
    <2>4. QED
      BY <2>2, <2>3, <1>1
  <1>4. CASE ~(t <= saved[a])
    <2>1. saved'[a] # saved[a]
      BY <1>2, <1>4
    <2>2. saved'[a] = saved[a] + 1 /\ json'[a] = saved'[a]
      BY <2>1, JsonStep
    <2>3. t = saved[a] + 1
      BY <2>2, <1>2, <1>4
    <2>4. QED
      BY <2>2, <2>3
  <1>5. QED
    BY <1>3, <1>4

\* A cookie that is in a file or excused stays so, or is on disk.
LEMMA CookieInFileStep ==
  ASSUME TypeOK, [Next]_vars, NEW a \in Accounts, CookieInFile(a)
  PROVE  CookieInFile(a)' \/ (a \in sso' /\ ~Deleting(a))
  <1>1. CASE \E x \in excused : x.account = a
    BY <1>1, FileStep DEF CookieInFile
  <1>2. CASE \E s \in 1 .. MaxSeconds : \E l \in files[s] : l.account = a /\ l.sso
    <2>0. PICK s \in 1 .. MaxSeconds : \E l \in files[s] : l.account = a /\ l.sso
      BY <1>2
    <2>1. PICK l \in files[s] : l.account = a /\ l.sso
      BY <2>0
    <2>2. CASE l \in files'[s]
      BY <2>1, <2>2 DEF CookieInFile
    <2>3. CASE [account |-> l.account, token |-> l.token] \in excused'
      <3>1. [account |-> l.account, token |-> l.token].account = a
        BY <2>1
      <3>2. QED
        BY <2>3, <3>1 DEF CookieInFile
    <2>4. CASE Stored(l) /\ ~Deleting(l.account) /\ UNCHANGED <<json, sso>>
      BY <2>1, <2>4 DEF Stored
    <2>5. QED
      BY <2>2, <2>3, <2>4, FileStep
  <1>3. QED
    BY <1>1, <1>2 DEF CookieInFile

LEMMA CookieStep ==
  TypeOK /\ CookieBacked /\ CookieKept /\ [Next]_vars => CookieKept'
  <1> SUFFICES ASSUME TypeOK, CookieBacked, CookieKept, [Next]_vars, NEW a \in kept', a \notin sso'
               PROVE  CookieInFile(a)'
    BY DEF CookieKept, CookieInFile
  <1>1. kept' \subseteq Accounts
    BY DEF Next, Converting, Pushing, Exporting, Sidecar, SsoToToken, WriteJson, AutoPush,
           WriteSso, WritesSso, Fetch, Post, Pushed, Collect, List, WriteExport, Verify, Delete,
           Exported, Stop, DeleteExportFile, Tick, Crash, vars, history, TypeOK
  <1>2. a \in Accounts /\ a \in kept
    BY <1>1, SsoStep
  <1>3. CASE a \in sso
    <2>1. PICK e \in Exports : /\ exp[e].at = "delete" /\ exp[e].next = "sso"
                               /\ exp[e].left # <<>> /\ a = exp[e].left[1].account
                               /\ 1 \in DOMAIN exp[e].left
      BY <1>2, <1>3, SsoStep
    <2>2. CookieInFile(a)
      BY <2>1 DEF CookieBacked
    <2>3. UNCHANGED <<files, excused>>
      BY <1>2, <1>3, SsoStep
    <2>4. QED
      BY <2>2, <2>3 DEF CookieInFile
  <1>4. CASE a \notin sso
    <2>1. CookieInFile(a)
      BY <1>2, <1>4 DEF CookieKept, CookieInFile
    <2>2. QED
      BY <2>1, <1>2, CookieInFileStep
  <1>5. QED
    BY <1>3, <1>4

\* How one export may move.
LEMMA ExpStep ==
  ASSUME TypeOK, [Next]_vars, NEW e \in Exports
  PROVE  \/ exp'[e] = exp[e]
         \/ exp'[e].at = "idle"
         \/ /\ \E k \in FirstRows : exp'[e] = [at |-> "write", page |-> Page(k), second |-> now,
                                               left |-> Page(k), next |-> "json"]
            /\ UNCHANGED <<json, files, excused>>
         \/ /\ exp[e].at = "write" /\ exp'[e] = [exp[e] EXCEPT !.at = "verify"]
            /\ UNCHANGED json
         \/ /\ exp[e].at = "verify" /\ exp'[e] = [exp[e] EXCEPT !.at = "delete"]
            /\ Reads(e) /\ UNCHANGED <<json, files, excused>>
         \/ /\ exp[e].at = "delete" /\ exp[e].left # <<>> /\ UNCHANGED <<files, excused>>
            /\ \/ /\ exp[e].next = "json" /\ exp[e].left[1].sso
                  /\ exp'[e] = [exp[e] EXCEPT !.next = "sso"]
               \/ exp'[e] = [exp[e] EXCEPT !.left = Tail(@), !.next = "json"]
  <1> USE DEF store, exports, pushing, history
  <1> DEFINE Goal == \/ exp'[e] = exp[e]
         \/ exp'[e].at = "idle"
         \/ /\ \E k \in FirstRows : exp'[e] = [at |-> "write", page |-> Page(k), second |-> now,
                                               left |-> Page(k), next |-> "json"]
            /\ UNCHANGED <<json, files, excused>>
         \/ /\ exp[e].at = "write" /\ exp'[e] = [exp[e] EXCEPT !.at = "verify"]
            /\ UNCHANGED json
         \/ /\ exp[e].at = "verify" /\ exp'[e] = [exp[e] EXCEPT !.at = "delete"]
            /\ Reads(e) /\ UNCHANGED <<json, files, excused>>
         \/ /\ exp[e].at = "delete" /\ exp[e].left # <<>> /\ UNCHANGED <<files, excused>>
            /\ \/ /\ exp[e].next = "json" /\ exp[e].left[1].sso
                  /\ exp'[e] = [exp[e] EXCEPT !.next = "sso"]
               \/ exp'[e] = [exp[e] EXCEPT !.left = Tail(@), !.next = "json"]
  <1>0. NoExport.at = "idle" /\ exp[e] \in Export
    BY DEF NoExport, TypeOK
  <1>1. ASSUME NEW d \in Exports, NEW r, exp' = [exp EXCEPT ![d] = r], d # e PROVE Goal
    BY <1>1 DEF TypeOK
  <1>2. ASSUME NEW r, exp' = [exp EXCEPT ![e] = r] PROVE exp'[e] = r
    BY <1>2 DEF TypeOK
  <1>3. ASSUME NEW d \in Exports, List(d) PROVE Goal
    <2>1. CASE d # e
      BY <1>1, <1>3, <2>1 DEF List
    <2>2. CASE d = e
      BY <1>2, <1>3, <2>2 DEF List
    <2>3. QED
      BY <2>1, <2>2
  <1>4. ASSUME NEW d \in Exports, WriteExport(d) PROVE Goal
    <2>1. CASE d # e
      BY <1>1, <1>4, <2>1 DEF WriteExport
    <2>2. CASE d = e /\ exp' = [exp EXCEPT ![e].at = "verify"]
      <3>1. exp'[e] = [exp[e] EXCEPT !.at = "verify"]
        BY <2>2 DEF TypeOK
      <3>2. QED
        BY <1>4, <2>2, <3>1 DEF WriteExport
    <2>3. CASE d = e /\ exp' = [exp EXCEPT ![e] = NoExport]
      BY <2>3, <1>2, <1>0
    <2>4. QED
      BY <1>4, <2>1, <2>2, <2>3 DEF WriteExport
  <1>5. ASSUME NEW d \in Exports, Verify(d) PROVE Goal
    <2>1. CASE d # e
      BY <1>1, <1>5, <2>1 DEF Verify
    <2>2. CASE d = e /\ Reads(e) /\ exp' = [exp EXCEPT ![e].at = "delete"]
      <3>1. exp'[e] = [exp[e] EXCEPT !.at = "delete"]
        BY <2>2 DEF TypeOK
      <3>2. QED
        BY <1>5, <2>2, <3>1 DEF Verify
    <2>3. CASE d = e /\ exp' = [exp EXCEPT ![e] = NoExport]
      BY <2>3, <1>2, <1>0
    <2>4. QED
      BY <1>5, <2>1, <2>2, <2>3 DEF Verify
  <1>6. ASSUME NEW d \in Exports, Delete(d) PROVE Goal
    <2>1. CASE d # e
      BY <1>1, <1>6, <2>1 DEF Delete
    <2>2. CASE d = e
      <3>1. exp[e].at = "delete" /\ exp[e].left # <<>> /\ UNCHANGED <<files, excused>>
        BY <1>6, <2>2 DEF Delete
      <3>2. exp[e].left \in SeqOf(Line, PageSize)
        BY DEF TypeOK, Export
      <3>3. Head(exp[e].left) = exp[e].left[1]
        BY <3>1, <3>2, Sizes, TailOfSeqOf
      <3>4. CASE exp[e].next = "json" /\ Head(exp[e].left).sso
                 /\ exp' = [exp EXCEPT ![e].next = "sso"]
        <4>1. exp'[e] = [exp[e] EXCEPT !.next = "sso"]
          BY <3>4 DEF TypeOK
        <4>2. QED
          BY <3>1, <3>3, <3>4, <4>1
      <3>5. CASE exp[e].next = "json" /\ exp' = [exp EXCEPT ![e].left = Tail(@)]
        <4>1. exp'[e] = [exp[e] EXCEPT !.left = Tail(@)]
          BY <3>5 DEF TypeOK
        <4>2. [exp[e] EXCEPT !.left = Tail(@)] = [exp[e] EXCEPT !.left = Tail(@), !.next = "json"]
          BY <1>0, <3>5 DEF Export
        <4>3. QED
          BY <3>1, <4>1, <4>2
      <3>6. CASE exp' = [exp EXCEPT ![e].left = Tail(@), ![e].next = "json"]
        <4>1. exp'[e] = [exp[e] EXCEPT !.left = Tail(@), !.next = "json"]
          BY <3>6 DEF TypeOK
        <4>2. QED
          BY <3>1, <4>1
      <3>7. QED
        BY <1>6, <2>2, <3>4, <3>5, <3>6 DEF Delete, SidecarToo
    <2>3. QED
      BY <2>1, <2>2
  <1>7. ASSUME NEW d \in Exports, Exported(d) PROVE Goal
    <2>1. CASE d # e
      BY <1>1, <1>7, <2>1 DEF Exported
    <2>2. CASE d = e
      BY <1>2, <1>7, <2>2, <1>0 DEF Exported
    <2>3. QED
      BY <2>1, <2>2
  <1>8. CASE Crash
    BY <1>8, <1>0 DEF Crash
  <1>9. CASE exp' = exp
    BY <1>9
  <1>10. QED
    BY <1>3, <1>4, <1>5, <1>6, <1>7, <1>8, <1>9
       DEF Next, Converting, Pushing, Exporting, Sidecar, SsoToToken, WriteJson, AutoPush,
           WriteSso, Fetch, Post, Pushed, Collect, Stop, DeleteExportFile, Tick, vars

\* The rows of a page, all of which are to be deleted at first.
LEMMA PageRows ==
  ASSUME TypeOK, NEW e \in Exports, exp[e].left = exp[e].page, exp[e].next = "json",
         NEW i \in DOMAIN exp[e].page
  PROVE  /\ exp[e].page[i] \in Line /\ exp[e].page[i].account \in Accounts
         /\ exp[e].page[i] \in ToSet(exp[e].page)
         /\ exp[e].page[i].account \in JsonLeft(e)
         /\ exp[e].second \in 1 .. MaxSeconds
  <1>1. exp[e].page \in SeqOf(Line, PageSize) /\ exp[e].second \in 1 .. MaxSeconds
    BY DEF TypeOK, Export
  <1>2. exp[e].page \in Seq(Line) /\ PageSize \in Nat
    BY <1>1, Sizes, SeqOfIsSeq
  <1>3. exp[e].page[i] \in Line
    BY <1>2, LenProperties
  <1>4. exp[e].page[i].account \in Accounts
    BY <1>3 DEF Line
  <1>5. QED
    BY <1>1, <1>3, <1>4 DEF ToSet, JsonLeft

LEMMA PageStep ==
  TypeOK /\ ConvOK /\ PageListed /\ [Next]_vars => PageListed'
  <1> SUFFICES ASSUME TypeOK, ConvOK, PageListed, [Next]_vars, NEW e \in Exports,
                      exp'[e].at \in {"write", "verify"}
               PROVE  /\ exp'[e].left = exp'[e].page /\ exp'[e].next = "json"
                      /\ \A i \in DOMAIN exp'[e].page :
                           \/ json'[exp'[e].page[i].account] = 0
                           \/ json'[exp'[e].page[i].account] = exp'[e].page[i].token
                           \/ [account |-> exp'[e].page[i].account, token |-> json'[exp'[e].page[i].account]]
                                \in excused'
    BY DEF PageListed, Excuse
  <1>1. exp[e] \in Export /\ excused \subseteq excused'
    BY FileStep DEF TypeOK
  <1>2. CASE exp'[e] = exp[e]
    <2>1. exp[e].left = exp[e].page /\ exp[e].next = "json"
      BY <1>2 DEF PageListed
    <2>2. ASSUME NEW a \in Accounts, NEW t, a \in JsonLeft(e),
                 json[a] = 0 \/ json[a] = t \/ Excuse(a, json[a])
          PROVE  json'[a] = 0 \/ json'[a] = t \/ [account |-> a, token |-> json'[a]] \in excused'
      <3>1. CASE json'[a] = json[a]
        BY <1>1, <2>2, <3>1 DEF Excuse
      <3>2. CASE Doomed(a) => [account |-> a, token |-> json'[a]] \in excused'
        BY <2>2, <3>2 DEF Doomed, Excuse
      <3>3. QED
        BY <3>1, <3>2, JsonStep
    <2>3. ASSUME NEW i \in DOMAIN exp[e].page
          PROVE  LET a == exp[e].page[i].account IN
                 json'[a] = 0 \/ json'[a] = exp[e].page[i].token \/ [account |-> a, token |-> json'[a]] \in excused'
      <3>1. exp[e].page[i].account \in Accounts /\ exp[e].page[i].account \in JsonLeft(e)
        BY <2>1, PageRows
      <3>2. LET a == exp[e].page[i].account IN
            json[a] = 0 \/ json[a] = exp[e].page[i].token \/ Excuse(a, json[a])
        BY <1>2 DEF PageListed
      <3>3. QED
        BY <3>1, <3>2, <2>2
    <2>4. QED
      BY <1>2, <2>1, <2>3
  <1>3. ASSUME NEW k \in FirstRows,
               exp'[e] = [at |-> "write", page |-> Page(k), second |-> now,
                          left |-> Page(k), next |-> "json"],
               UNCHANGED json
        PROVE  /\ exp'[e].left = exp'[e].page /\ exp'[e].next = "json"
               /\ \A i \in DOMAIN exp'[e].page :
                    json'[exp'[e].page[i].account] = exp'[e].page[i].token
    <2>1. exp'[e].page = Page(k) /\ exp'[e].left = Page(k) /\ exp'[e].next = "json"
      BY <1>3
    <2>2. \A i \in DOMAIN Page(k) : json[Page(k)[i].account] = Page(k)[i].token
      BY PageType DEF Row
    <2>3. QED
      BY <1>3, <2>1, <2>2
  <1>4. CASE exp[e].at = "write" /\ exp'[e] = [exp[e] EXCEPT !.at = "verify"] /\ UNCHANGED json
    <2>1. /\ exp'[e].left = exp[e].left /\ exp'[e].page = exp[e].page
          /\ exp'[e].next = exp[e].next
      BY <1>1, <1>4 DEF Export
    <2>2. QED
      BY <1>1, <1>4, <2>1 DEF PageListed, Excuse
  <1>5. CASE exp[e].at = "verify" /\ exp'[e] = [exp[e] EXCEPT !.at = "delete"]
    <2>1. exp'[e].at = "delete"
      BY <1>1, <1>5 DEF Export
    <2>2. QED
      BY <2>1
  <1>6. CASE exp[e].at = "delete" /\ exp'[e].at = exp[e].at
    BY <1>6
  <1>7. exp[e].at = "delete" /\ (\/ exp'[e] = [exp[e] EXCEPT !.next = "sso"]
                                 \/ exp'[e] = [exp[e] EXCEPT !.left = Tail(@), !.next = "json"])
        => exp'[e].at = exp[e].at
    BY <1>1 DEF Export
  <1>8. QED
    BY <1>2, <1>3, <1>4, <1>5, <1>6, <1>7, ExpStep

\* The json of an account stays backed as long as an export is to delete it.
LEMMA BackedStays ==
  ASSUME TypeOK, ConvOK, [Next]_vars, NEW e \in Exports, exp[e].at = "delete",
         NEW a \in Accounts, a \in JsonLeft(e),
         json[a] = 0 \/ InFile(a, json[a]) \/ Excuse(a, json[a])
  PROVE  json'[a] = 0 \/ InFile(a, json[a])' \/ [account |-> a, token |-> json'[a]] \in excused'
  <1>1. excused \subseteq excused'
    BY FileStep
  <1>2. Deleting(a)
    BY DEF Deleting, JsonLeft, ToSet
  <1>3. CASE json'[a] = json[a]
    <2>1. CASE InFile(a, json[a])
      <3>1. PICK s \in 1 .. MaxSeconds : [account |-> a, token |-> json[a]] \in Tokens(files[s])
        BY <2>1 DEF InFile
      <3>2. PICK l \in files[s] : l.account = a /\ l.token = json[a]
        BY <3>1 DEF Tokens
      <3>3. CASE l \in files'[s]
        <4>1. [account |-> a, token |-> json[a]] \in Tokens(files'[s])
          BY <3>2, <3>3 DEF Tokens
        <4>2. QED
          BY <4>1, <1>3 DEF InFile, Tokens
      <3>4. CASE [account |-> l.account, token |-> l.token] \in excused'
        BY <3>2, <3>4, <1>3 DEF Excuse
      <3>5. QED
        BY <3>2, <3>3, <3>4, <1>2, FileStep
    <2>2. QED
      BY <1>1, <1>3, <2>1 DEF Excuse
  <1>4. CASE Doomed(a) => [account |-> a, token |-> json'[a]] \in excused'
    BY <1>4 DEF Doomed, Excuse
  <1>5. QED
    BY <1>3, <1>4, JsonStep

\* Deleting goes through the rows from the first to the last.
LEMMA LeftStep ==
  ASSUME TypeOK, NEW e \in Exports, exp[e].left # <<>>,
         \/ exp[e].next = "json" /\ exp'[e] = [exp[e] EXCEPT !.next = "sso"]
         \/ exp'[e] = [exp[e] EXCEPT !.left = Tail(@), !.next = "json"]
  PROVE  /\ JsonLeft(e)' \subseteq JsonLeft(e)
         /\ \A i \in DOMAIN exp'[e].left : \E j \in DOMAIN exp[e].left :
              exp'[e].left[i] = exp[e].left[j]
  <1>1. exp[e] \in Export
    BY DEF TypeOK
  <1>2. /\ exp[e].left \in SeqOf(Line, PageSize)
        /\ \A i \in DOMAIN Tail(exp[e].left) :
             /\ i + 1 \in DOMAIN exp[e].left
             /\ Tail(exp[e].left)[i] = exp[e].left[i + 1]
             /\ i \in Nat \ {0}
    <2>1. exp[e].left \in SeqOf(Line, PageSize)
      BY <1>1 DEF Export
    <2>2. Tail(exp[e].left) \in SeqOf(Line, PageSize)
      BY <2>1, Sizes, TailOfSeqOf
    <2>3. Tail(exp[e].left) \in Seq(Line)
      BY <2>2, Sizes, SeqOfIsSeq
    <2>4. DOMAIN Tail(exp[e].left) = 1 .. Len(Tail(exp[e].left))
      BY <2>3, LenProperties
    <2>5. QED
      BY <2>1, <2>4, Sizes, TailOfSeqOf
  <1>3. CASE exp[e].next = "json" /\ exp'[e] = [exp[e] EXCEPT !.next = "sso"]
    <2>1. exp'[e].left = exp[e].left /\ exp'[e].next = "sso"
      BY <1>1, <1>3 DEF Export
    <2>2. QED
      BY <2>1, <1>3 DEF JsonLeft
  <1>4. CASE exp'[e] = [exp[e] EXCEPT !.left = Tail(@), !.next = "json"]
    <2>1. exp'[e].left = Tail(exp[e].left)
      BY <1>1, <1>4 DEF Export
    <2>2. \A i \in DOMAIN Tail(exp[e].left) : i + 1 # 1
      BY <1>2
    <2>3. ASSUME NEW a \in JsonLeft(e)' PROVE a \in JsonLeft(e)
      <3>1. PICK i \in DOMAIN Tail(exp[e].left) : a = Tail(exp[e].left)[i].account
        BY <2>1 DEF JsonLeft
      <3>2. i + 1 \in DOMAIN exp[e].left /\ a = exp[e].left[i + 1].account /\ i + 1 # 1
        BY <3>1, <1>2, <2>2
      <3>3. QED
        BY <3>2 DEF JsonLeft
    <2>4. QED
      BY <2>1, <2>3, <1>2
  <1>5. QED
    BY <1>3, <1>4

LEMMA RowAccounts ==
  ASSUME TypeOK, NEW e \in Exports, NEW i \in DOMAIN exp[e].left
  PROVE  exp[e].left[i].account \in Accounts
  <1>1. exp[e].left \in SeqOf(Line, PageSize)
    BY DEF TypeOK, Export
  <1>2. exp[e].left \in Seq(Line)
    BY <1>1, Sizes, SeqOfIsSeq
  <1>3. exp[e].left[i] \in Line
    BY <1>2, LenProperties
  <1>4. QED
    BY <1>3 DEF Line

LEMMA BackedStep ==
  TypeOK /\ ConvOK /\ PageListed /\ Backed /\ [Next]_vars => Backed'
  <1> SUFFICES ASSUME TypeOK, ConvOK, PageListed, Backed, [Next]_vars, NEW e \in Exports,
                      exp'[e].at = "delete", NEW a \in JsonLeft(e)'
               PROVE  \/ json'[a] = 0 \/ InFile(a, json[a])'
                      \/ [account |-> a, token |-> json'[a]] \in excused'
    BY DEF Backed, Excuse
  <1>1. exp[e] \in Export
    BY DEF TypeOK
  <1>2. ASSUME exp[e].at = "delete", a \in JsonLeft(e)
        PROVE  \/ json'[a] = 0 \/ InFile(a, json[a])'
               \/ [account |-> a, token |-> json'[a]] \in excused'
    <2>1. a \in Accounts
      BY <1>2, RowAccounts DEF JsonLeft
    <2>2. json[a] = 0 \/ InFile(a, json[a]) \/ Excuse(a, json[a])
      BY <1>2 DEF Backed
    <2>3. QED
      BY <1>2, <2>1, <2>2, BackedStays
  <1>3. CASE exp'[e] = exp[e]
    <2>1. a \in JsonLeft(e) /\ exp[e].at = "delete"
      BY <1>3 DEF JsonLeft
    <2>2. QED
      BY <2>1, <1>2
  <1>4. CASE /\ exp[e].at = "verify" /\ exp'[e] = [exp[e] EXCEPT !.at = "delete"]
             /\ Reads(e) /\ UNCHANGED <<json, files, excused>>
    <2>1. exp[e].left = exp[e].page /\ exp[e].next = "json"
      BY <1>4 DEF PageListed
    <2>2. exp'[e].left = exp[e].page
      BY <1>1, <1>4, <2>1 DEF Export
    <2>3. PICK i \in DOMAIN exp[e].page : a = exp[e].page[i].account
      BY <2>2 DEF JsonLeft
    <2>4. json[a] = 0 \/ json[a] = exp[e].page[i].token \/ Excuse(a, json[a])
      BY <1>4, <2>3 DEF PageListed
    <2>5. CASE json[a] = exp[e].page[i].token
      <3>1. exp[e].page[i] \in files[exp[e].second] /\ exp[e].second \in 1 .. MaxSeconds
        BY <1>4, <2>1, PageRows DEF Reads
      <3>2. [account |-> a, token |-> json[a]] \in Tokens(files[exp[e].second])
        BY <2>3, <2>5, <3>1 DEF Tokens
      <3>3. InFile(a, json[a])
        BY <3>1, <3>2 DEF InFile
      <3>4. InFile(a, json[a])' <=>
              \E s \in 1 .. MaxSeconds : [account |-> a, token |-> json'[a]] \in Tokens(files'[s])
        BY DEF InFile, Tokens
      <3>5. json'[a] = json[a] /\ files' = files
        BY <1>4
      <3>6. QED
        BY <3>3, <3>4, <3>5 DEF InFile
    <2>6. QED
      BY <1>4, <2>4, <2>5 DEF Excuse
  <1>5. CASE /\ exp[e].at = "delete" /\ exp[e].left # <<>>
             /\ \/ exp[e].next = "json" /\ exp'[e] = [exp[e] EXCEPT !.next = "sso"]
                \/ exp'[e] = [exp[e] EXCEPT !.left = Tail(@), !.next = "json"]
    BY <1>2, <1>5, LeftStep
  <1>6. CASE \E k \in FirstRows : exp'[e] = [at |-> "write", page |-> Page(k), second |-> now,
                                             left |-> Page(k), next |-> "json"]
    BY <1>6
  <1>7. exp'[e] # [exp[e] EXCEPT !.at = "verify"]
    BY <1>1 DEF Export
  <1>8. QED
    BY <1>3, <1>4, <1>5, <1>6, <1>7, ExpStep

LEMMA CookieBackedStep ==
  TypeOK /\ PageListed /\ CookieBacked /\ [Next]_vars => CookieBacked'
  <1> SUFFICES ASSUME TypeOK, PageListed, CookieBacked, [Next]_vars, NEW e \in Exports,
                      exp'[e].at = "delete"
               PROVE  /\ \A i \in DOMAIN exp'[e].left :
                           exp'[e].left[i].sso =>
                             \/ \E s \in 1 .. MaxSeconds : \E l \in files'[s] :
                                  l.account = exp'[e].left[i].account /\ l.sso
                             \/ \E x \in excused' : x.account = exp'[e].left[i].account
                      /\ exp'[e].next = "sso" => exp'[e].left # <<>> /\ exp'[e].left[1].sso
    BY DEF CookieBacked, CookieInFile
  <1>1. exp[e] \in Export
    BY DEF TypeOK
  <1>2. ASSUME NEW i \in DOMAIN exp[e].left, exp[e].at = "delete", exp[e].left[i].sso
        PROVE  \/ \E s \in 1 .. MaxSeconds : \E l \in files'[s] :
                    l.account = exp[e].left[i].account /\ l.sso
               \/ \E x \in excused' : x.account = exp[e].left[i].account
    <2>1. exp[e].left[i].account \in Accounts
      BY RowAccounts
    <2>2. Deleting(exp[e].left[i].account)
      BY <1>2 DEF Deleting, ToSet
    <2>3. CookieInFile(exp[e].left[i].account)
      BY <1>2 DEF CookieBacked
    <2>4. ASSUME NEW a \in Accounts, Deleting(a), CookieInFile(a)
          PROVE  \/ \E s \in 1 .. MaxSeconds : \E l \in files'[s] : l.account = a /\ l.sso
                 \/ \E x \in excused' : x.account = a
      <3>1. CookieInFile(a)'
        BY <2>4, CookieInFileStep
      <3>2. QED
        BY <3>1 DEF CookieInFile
    <2>5. QED
      BY <2>1, <2>2, <2>3, <2>4
  <1>3. CASE exp'[e] = exp[e]
    BY <1>2, <1>3 DEF CookieBacked, CookieInFile
  <1>4. CASE /\ exp[e].at = "verify" /\ exp'[e] = [exp[e] EXCEPT !.at = "delete"]
             /\ Reads(e) /\ UNCHANGED <<json, files, excused>>
    <2>1. exp[e].left = exp[e].page /\ exp[e].next = "json"
      BY <1>4 DEF PageListed
    <2>2. exp'[e].left = exp[e].page /\ exp'[e].next = "json"
      BY <1>1, <1>4, <2>1 DEF Export
    <2>3. \A i \in DOMAIN exp[e].page :
            exp[e].page[i] \in files[exp[e].second] /\ exp[e].second \in 1 .. MaxSeconds
      BY <1>4, <2>1, PageRows DEF Reads
    <2>4. QED
      BY <1>4, <2>2, <2>3 DEF CookieInFile
  <1>5. CASE /\ exp[e].at = "delete" /\ exp[e].left # <<>>
             /\ exp[e].next = "json" /\ exp[e].left[1].sso
             /\ exp'[e] = [exp[e] EXCEPT !.next = "sso"]
    <2>1. exp'[e].left = exp[e].left
      BY <1>1, <1>5 DEF Export
    <2>2. QED
      BY <1>2, <1>5, <2>1 DEF CookieInFile
  <1>6. CASE /\ exp[e].at = "delete" /\ exp[e].left # <<>>
             /\ exp'[e] = [exp[e] EXCEPT !.left = Tail(@), !.next = "json"]
    <2>1. exp'[e].next # "sso"
      BY <1>1, <1>6 DEF Export
    <2>2. \A i \in DOMAIN exp'[e].left : \E j \in DOMAIN exp[e].left :
            exp'[e].left[i] = exp[e].left[j]
      BY <1>6, LeftStep
    <2>3. QED
      BY <1>2, <1>6, <2>1, <2>2 DEF CookieInFile
  <1>7. CASE \E k \in FirstRows : exp'[e] = [at |-> "write", page |-> Page(k), second |-> now,
                                             left |-> Page(k), next |-> "json"]
    BY <1>7
  <1>8. exp'[e] # [exp[e] EXCEPT !.at = "verify"]
    BY <1>1 DEF Export
  <1>9. QED
    BY <1>3, <1>4, <1>5, <1>6, <1>7, <1>8, ExpStep

-----------------------------------------------------------------------------
(* The theorems *)

\* A sequence of the numbering that Init chooses has every account of old once.
LEMMA OldLists ==
  ASSUME NEW old \in SUBSET Accounts, NEW s \in SetToSeqs(old)
  PROVE  Lists(s, old)
  <1> DEFINE n == Cardinality(old)
  <1>1. IsFiniteSet(old) /\ n \in Nat
    BY StoreAssumption, FS_Subset, FS_CardinalityType DEF StoreAssumption
  <1> HIDE DEF n
  <1>2. s \in [1 .. n -> old] /\ \A i, j \in 1 .. n : s[i] = s[j] => i = j
    BY DEF SetToSeqs, IsInjective, n
  <1>3. s \in Seq(Accounts) /\ DOMAIN s = 1 .. n
    <2>1. s \in [1 .. n -> Accounts]
      BY <1>2
    <2>2. QED
      BY <1>1, <2>1, SeqDef
  <1>4. s \in Injection(1 .. n, old) /\ IsInjective(s)
    BY <1>2, <1>3 DEF Injection, IsInjective
  <1>5. Cardinality(1 .. n) = n /\ IsFiniteSet(1 .. n)
    BY <1>1, FS_Interval
  <1>6. s \in Surjection(1 .. n, old)
    BY <1>1, <1>4, <1>5, FS_Injection DEF n
  <1>7. ToSet(s) = old
    BY <1>2, <1>3, <1>6 DEF Surjection, ToSet
  <1>8. QED
    BY <1>3, <1>4, <1>7 DEF Lists

LEMMA InitIInv == Init => IInv
  <1> SUFFICES ASSUME Init PROVE IInv
    OBVIOUS
  <1>1. PICK old \in SUBSET Accounts :
          /\ order \in SetToSeqs(old)
          /\ json = [a \in Accounts |-> IF a \in old THEN 1 ELSE 0]
          /\ sso \in SUBSET old
          /\ conv = [a \in Accounts |->
                       [at |-> IF a \in old THEN "none" ELSE "sidecar", try |-> 1]]
    BY DEF Init
  <1>2. /\ saved = json /\ kept = sso
        /\ stopping = FALSE /\ now = 1
        /\ exp = [e \in Exports |-> NoExport]
        /\ files = [s \in 1 .. MaxSeconds |-> {}]
        /\ push = [p \in Pushers |-> NoPush]
        /\ cloud = [a \in Accounts |-> 0] /\ requests = 0
        /\ excused = {}
    BY DEF Init
  <1>3. TypeOK
    <2>1. Lists(order, old)
      BY <1>1, OldLists
    <2>2. /\ order \in SeqOf(Accounts, Cardinality(Accounts)) /\ IsInjective(order)
          /\ ToSet(order) = old
      BY <2>1, ListsType
    <2>3. old = {a \in Accounts : json[a] # 0}
      BY <1>1
    <2>4. json \in [Accounts -> 0 .. MaxTries + 1] /\ saved \in [Accounts -> 0 .. MaxTries + 1]
      BY <1>1, <1>2, Sizes
    <2>5. conv \in [Accounts -> [at : {"none", "sidecar", "attempt", "write", "push", "sso",
                                       "ok", "failed", "gone"}, try : 1 .. MaxTries]]
      BY <1>1, Sizes
    <2>6. exp \in [Exports -> Export] /\ push \in [Pushers -> Push]
      BY <1>2, NoTypes
    <2>7. files \in [1 .. MaxSeconds -> SUBSET Line] /\ now \in 1 .. MaxSeconds
      BY <1>2, Sizes
    <2>8. cloud \in [Accounts -> 0 .. MaxTries + 1] /\ requests \in 0 .. MaxRequests
      BY <1>2, Sizes
    <2>9. sso \subseteq Accounts /\ kept \subseteq Accounts /\ excused \subseteq Token
          /\ stopping \in BOOLEAN
      BY <1>1, <1>2
    <2>10. QED
      BY <2>2, <2>3, <2>4, <2>5, <2>6, <2>7, <2>8, <2>9 DEF TypeOK
  <1>4. ConvOK
    BY <1>1, <1>2 DEF ConvOK, NoPush, Pushers
  <1>5. TokensSaved
    <2>1. \A a \in Accounts : json[a] \in {0, 1} /\ json[a] <= saved[a] /\ cloud[a] <= saved[a]
      BY <1>1, <1>2
    <2>2. \A p \in Pushers : DOMAIN push[p].items = {}
      BY <1>2 DEF NoPush
    <2>3. QED
      BY <2>1, <2>2 DEF TokensSaved
  <1>6. PageListed /\ Backed /\ CookieBacked
    BY <1>2 DEF PageListed, Backed, CookieBacked, NoExport
  <1>7. NothingLost
    BY <1>1, <1>2 DEF NothingLost
  <1>8. CookieKept
    BY <1>2 DEF CookieKept
  <1>9. QED
    BY <1>3, <1>4, <1>5, <1>6, <1>7, <1>8 DEF IInv

LEMMA IInvStep == IInv /\ [Next]_vars => IInv'
  BY TypeStep, ConvStep, SavedStep, PageStep, BackedStep, CookieBackedStep, LossStep, CookieStep
     DEF IInv

LEMMA Inductive == Spec => []IInv
  BY InitIInv, IInvStep, PTL DEF Spec

\* Whatever conversions, exports, failures, kills and the operator do in
\* between: a token or a cookie that was in .local/credentials is still there,
\* in an export file, or one of the excused (export_credential_page_and_delete:
\* nothing is deleted before the file was read back).
THEOREM RecordsAreSafe == Spec => []RecordsSafe
  <1>1. IInv => RecordsSafe
    BY DEF IInv, RecordsSafe
  <1>2. QED
    BY <1>1, Inductive, PTL

\* A conversion that the batch counts as failed has left no credential, and one
\* it counts as done has saved one (_convert_sso_accounts, the attempts' loop).
THEOREM VerdictsAreTrue == Spec => []VerdictIsTrue
  <1>1. IInv => VerdictIsTrue
    BY DEF IInv, VerdictIsTrue, ConvOK, At
  <1>2. QED
    BY <1>1, Inductive, PTL

\* CPA never has a token that was not saved here first (cpa_push.py, and
\* auto_push_credential_file after the json is written).
THEOREM PushesAreSaved == Spec => []PushedIsSaved
  <1>1. IInv => PushedIsSaved
    BY DEF IInv, PushedIsSaved, TokensSaved
  <1>2. QED
    BY <1>1, Inductive, PTL

-----------------------------------------------------------------------------
(* EmbeddedProxy *)

Leasing(n) == {w \in Workers : lease[w].node = n}

\* No slot counts more than the leases there are, and the slots of a table that
\* was not replaced under its leases count them all.
LoadCounted ==
  \A n \in Nodes :
    /\ node[n].load <= Cardinality(Leasing(n))
    /\ ~disturbed => node[n].load = Cardinality(Leasing(n))

HealthyIsWell == \A n \in Nodes : node[n].health = "healthy" => ~node[n].sick

\* The worker that probes has no node yet.
AskerWaits == asker.worker # None => lease[asker.worker].node = None

\* With one request there is one thread at work, and the others never were.
OneAtWork ==
  /\ ops = 0 => \A t \in Threads : task[t].at = "idle"
  /\ ops = 1 => \A t, u \in Threads : task[t].at # "idle" /\ task[u].at # "idle" => t = u

\* What the one start has left alive where it is.
AliveKnown ==
  ops = 1 => \A t \in Threads :
    ~task[t].unclean =>
      /\ task[t].at = "spawn" => alive = {}
      /\ task[t].at \in {"wait", "assign", "probe", "second"} => alive \subseteq {task[t].mine}

Leases == LoadCounted /\ AskerWaits
Starts == OneAtWork /\ AliveKnown
ProxyInv == ProxyTypeOK /\ Leases /\ HealthyIsWell /\ Starts

-----------------------------------------------------------------------------
LEMMA LeasingFinite ==
  ASSUME NEW n
  PROVE  IsFiniteSet(Leasing(n)) /\ Cardinality(Leasing(n)) \in 0 .. Cardinality(Workers)
         /\ Cardinality(Workers) \in Nat
  <1>1. IsFiniteSet(Workers) /\ Leasing(n) \in SUBSET Workers
    BY EmbeddedAssumption DEF EmbeddedAssumption, Leasing
  <1>2. /\ IsFiniteSet(Leasing(n)) /\ Cardinality(Leasing(n)) <= Cardinality(Workers)
    BY <1>1, FS_Subset
  <1>3. Cardinality(Leasing(n)) \in Nat /\ Cardinality(Workers) \in Nat
    BY <1>1, <1>2, FS_CardinalityType
  <1>4. QED
    BY <1>2, <1>3

\* A worker that takes a node, and one that gives it back.
LEMMA LeaseTaken ==
  ASSUME ProxyTypeOK, NEW w \in Workers, NEW n \in Nodes, lease[w].node = None,
         lease' = [lease EXCEPT ![w].node = n]
  PROVE  /\ lease' \in [Workers -> [node : Nodes \cup {None}, tried : SUBSET Nodes]]
         /\ Cardinality(Leasing(n)') = Cardinality(Leasing(n)) + 1
         /\ \A m \in Nodes \ {n} : Leasing(m)' = Leasing(m)
  <1>1. lease \in [Workers -> [node : Nodes \cup {None}, tried : SUBSET Nodes]]
    BY DEF ProxyTypeOK
  <1>2. None \notin Nodes
    BY EmbeddedAssumption DEF EmbeddedAssumption
  <1>3. /\ lease'[w].node = n
        /\ \A v \in Workers \ {w} : lease'[v] = lease[v]
    BY <1>1
  <1>4. Leasing(n)' = Leasing(n) \cup {w} /\ w \notin Leasing(n)
    BY <1>2, <1>3 DEF Leasing
  <1>5. \A m \in Nodes \ {n} : Leasing(m)' = Leasing(m)
    BY <1>2, <1>3 DEF Leasing
  <1>6. Cardinality(Leasing(n)') = Cardinality(Leasing(n)) + 1
    BY <1>4, LeasingFinite, FS_AddElement
  <1>7. lease' \in [Workers -> [node : Nodes \cup {None}, tried : SUBSET Nodes]]
    BY <1>1
  <1>8. QED
    BY <1>5, <1>6, <1>7

LEMMA LeaseGiven ==
  ASSUME ProxyTypeOK, NEW w \in Workers, NEW n \in Nodes, lease[w].node = n,
         NEW r \in [node : {None}, tried : SUBSET Nodes],
         lease' = [lease EXCEPT ![w] = r]
  PROVE  /\ lease' \in [Workers -> [node : Nodes \cup {None}, tried : SUBSET Nodes]]
         /\ Cardinality(Leasing(n)) > 0
         /\ Cardinality(Leasing(n)') = Cardinality(Leasing(n)) - 1
         /\ \A m \in Nodes \ {n} : Leasing(m)' = Leasing(m)
  <1>1. lease \in [Workers -> [node : Nodes \cup {None}, tried : SUBSET Nodes]]
    BY DEF ProxyTypeOK
  <1>2. None \notin Nodes
    BY EmbeddedAssumption DEF EmbeddedAssumption
  <1>3. /\ lease'[w].node = None
        /\ \A v \in Workers \ {w} : lease'[v] = lease[v]
    BY <1>1
  <1>4. Leasing(n)' = Leasing(n) \ {w} /\ w \in Leasing(n)
    BY <1>2, <1>3 DEF Leasing
  <1>5. \A m \in Nodes \ {n} : Leasing(m)' = Leasing(m)
    BY <1>2, <1>3 DEF Leasing
  <1>6. Cardinality(Leasing(n)') = Cardinality(Leasing(n)) - 1
    <2>1. IsFiniteSet(Leasing(n))
      BY LeasingFinite
    <2>2. Cardinality(Leasing(n) \ {w}) = Cardinality(Leasing(n)) - 1
      BY <1>4, <2>1, FS_RemoveElement
    <2>3. QED
      BY <1>4, <2>2
  <1>7. Cardinality(Leasing(n)) > 0
    BY <1>4, LeasingFinite, FS_EmptySet
  <1>8. lease' \in [Workers -> [node : Nodes \cup {None}, tried : SUBSET Nodes]]
    BY <1>1
  <1>9. QED
    BY <1>5, <1>6, <1>7, <1>8

\* A table with the loads of the one before, its healthy nodes well.
LEMMA TableKept ==
  ASSUME ProxyInv, node' \in [Nodes -> Slot], UNCHANGED <<lease, asker, disturbed>>,
         \A n \in Nodes : node'[n].load = node[n].load,
         \A n \in Nodes : node'[n].health = "healthy" => ~node'[n].sick
  PROVE  Leases' /\ HealthyIsWell'
  <1>1. \A n \in Nodes : Leasing(n)' = Leasing(n)
    BY DEF Leasing
  <1>2. QED
    BY <1>1 DEF ProxyInv, Leases, LoadCounted, AskerWaits, HealthyIsWell

LEMMA NodesUntouched ==
  ASSUME ProxyInv, UNCHANGED <<node, lease, asker, disturbed>>
  PROVE  Leases' /\ HealthyIsWell'
  BY TableKept DEF ProxyInv, ProxyTypeOK, HealthyIsWell

LEMMA StartsUntouched ==
  ASSUME ProxyInv, UNCHANGED <<task, ops>>, alive' \subseteq alive
  PROVE  Starts'
  BY DEF ProxyInv, Starts, OneAtWork, AliveKnown

\* A thread at work goes on: with one request the others are idle.
LEMMA ThreadGoesOn ==
  ASSUME ProxyInv, NEW t \in Threads, NEW r \in Task,
         task[t].at # "idle", task' = [task EXCEPT ![t] = r], UNCHANGED ops,
         ops = 1 /\ ~r.unclean =>
                    /\ r.at = "spawn" => alive' = {}
                    /\ r.at \in {"wait", "assign", "probe", "second"} => alive' \subseteq {r.mine}
  PROVE  task' \in [Threads -> Task] /\ Starts'
  <1>1. task \in [Threads -> Task] /\ ops \in Nat
    BY DEF ProxyInv, ProxyTypeOK
  <1>2. task'[t] = r /\ \A u \in Threads \ {t} : task'[u] = task[u]
    BY <1>1
  <1>3. ops # 0
    BY <1>1 DEF ProxyInv, Starts, OneAtWork
  <1>4. ops = 1 => \A u \in Threads \ {t} : task[u].at = "idle"
    BY DEF ProxyInv, Starts, OneAtWork
  <1>5. OneAtWork'
    BY <1>2, <1>3, <1>4 DEF OneAtWork
  <1>6. AliveKnown'
    BY <1>2, <1>4 DEF AliveKnown
  <1>7. QED
    BY <1>1, <1>5, <1>6 DEF Starts

Places == {"idle", "ensure", "old", "clean", "spawn", "wait", "assign",
           "probe", "second", "launch", "stop"}

LEMMA ThreadGoes ==
  ASSUME ProxyTypeOK, NEW t \in Threads, NEW at \in Places, Go(t, at)
  PROVE  \E r \in Task : /\ r.at = at
                         /\ at # "idle" => r.mine = task[t].mine /\ r.unclean = task[t].unclean
                         /\ task' = [task EXCEPT ![t] = r]
  <1>1. task[t] \in Task /\ 0 \in 0 .. MaxSpawns
    BY EmbeddedAssumption DEF ProxyTypeOK, EmbeddedAssumption
  <1>2. Rest \in Task
    BY <1>1 DEF Rest, Task, Ops
  <1>3. CASE at = "idle"
    BY <1>2, <1>3 DEF Go, Rest
  <1>4. CASE at # "idle"
    <2>1. [task[t] EXCEPT !.at = at] \in Task
      BY <1>1 DEF Task, Places
    <2>2. [task[t] EXCEPT !.at = at].at = at /\ [task[t] EXCEPT !.at = at].mine = task[t].mine
          /\ [task[t] EXCEPT !.at = at].unclean = task[t].unclean
      BY <1>1 DEF Task
    <2>3. task' = [task EXCEPT ![t] = [task[t] EXCEPT !.at = at]]
      BY <1>4 DEF Go
    <2>4. QED
      BY <2>1, <2>2, <2>3
  <1>5. QED
    BY <1>3, <1>4

LEMMA GoesOn ==
  ASSUME ProxyInv, NEW t \in Threads, NEW at \in Places, Go(t, at),
         task[t].at # "idle", UNCHANGED ops,
         ops = 1 /\ ~task[t].unclean =>
                    /\ at = "spawn" => alive' = {}
                    /\ at \in {"wait", "assign", "probe", "second"} => alive' \subseteq {task[t].mine}
  PROVE  task' \in [Threads -> Task] /\ Starts'
  <1>1. PICK r \in Task : /\ r.at = at
                          /\ at # "idle" => r.mine = task[t].mine /\ r.unclean = task[t].unclean
                          /\ task' = [task EXCEPT ![t] = r]
    BY ThreadGoes DEF ProxyInv
  <1>2. QED
    BY <1>1, ThreadGoesOn

\* A start that is under way has left alive no process but its own.
LEMMA OnlyMine ==
  ASSUME ProxyInv, NEW t \in Threads, task[t].at \in {"wait", "assign", "probe", "second"}
  PROVE  ops = 1 /\ ~task[t].unclean => alive \subseteq {task[t].mine}
  BY DEF ProxyInv, Starts, AliveKnown

LEMMA ProbingTyped ==
  ASSUME ProxyTypeOK
  PROVE  Probing \in [Nodes -> 0 .. MaxFlight]
  BY EmbeddedAssumption DEF ProxyTypeOK, EmbeddedAssumption, Probing

-----------------------------------------------------------------------------
(* The requests. *)

LEMMA RequestKeeps ==
  ASSUME ProxyInv, NEW t \in Threads, Request(t)
  PROVE  ProxyInv'
  <1>1. PICK op \in Ops :
          task' = [task EXCEPT ![t] = [at |-> IF op = "stop" THEN "stop" ELSE "ensure",
                                       op |-> op, mine |-> 0, unclean |-> FALSE]]
    BY DEF Request
  <1> DEFINE r == [at |-> IF op = "stop" THEN "stop" ELSE "ensure", op |-> op, mine |-> 0, unclean |-> FALSE]
  <1>2. 0 \in 0 .. MaxSpawns /\ MaxOps \in Nat
    BY EmbeddedAssumption DEF EmbeddedAssumption
  <1>3. r \in Task /\ r.at \in {"stop", "ensure"}
    BY <1>2 DEF Task
  <1>4. task' = [task EXCEPT ![t] = r]
    BY <1>1
  <1> HIDE DEF r
  <1>5. task \in [Threads -> Task] /\ ops \in 0 .. MaxOps /\ ops < MaxOps /\ ops' = ops + 1
        /\ UNCHANGED <<node, flight, mgr, alive, boot, batch, lease, asker, works, disturbed, spawns>>
    BY DEF ProxyInv, ProxyTypeOK, Request, slots, run
  <1>6. task' \in [Threads -> Task] /\ ops' \in 0 .. MaxOps
    BY <1>2, <1>3, <1>4, <1>5
  <1>7. ProxyTypeOK'
    BY <1>5, <1>6 DEF ProxyInv, ProxyTypeOK
  <1>8. Leases' /\ HealthyIsWell'
    BY <1>5, NodesUntouched
  <1>9. task'[t] = r /\ \A u \in Threads \ {t} : task'[u] = task[u]
    BY <1>4, <1>5
  <1>10. ops' # 0 /\ (ops' = 1 => \A u \in Threads : task[u].at = "idle")
    BY <1>5 DEF ProxyInv, Starts, OneAtWork
  <1>11. Starts'
    BY <1>3, <1>9, <1>10 DEF Starts, OneAtWork, AliveKnown
  <1>12. QED
    BY <1>7, <1>8, <1>11 DEF ProxyInv

LEMMA EnsureKeeps ==
  ASSUME ProxyInv, NEW t \in Threads, Ensure(t)
  PROVE  ProxyInv'
  <1>1. task[t].at = "ensure"
        /\ UNCHANGED <<node, flight, mgr, alive, ops, batch, lease, asker, works, disturbed, spawns>>
    BY DEF Ensure, slots, run
  <1>2. \E at \in {"idle", "launch", "old"} : Go(t, at)
    BY DEF Ensure, Ready, StartFails
  <1>3. boot' \in Phase
    BY DEF Ensure, Ready, StartFails, Phase
  <1>4. task' \in [Threads -> Task] /\ Starts'
    BY <1>1, <1>2, GoesOn DEF Places
  <1>5. ProxyTypeOK'
    BY <1>1, <1>3, <1>4 DEF ProxyInv, ProxyTypeOK
  <1>6. QED
    BY <1>1, <1>4, <1>5, NodesUntouched DEF ProxyInv

LEMMA StopOldKeeps ==
  ASSUME ProxyInv, NEW t \in Threads, StopOld(t)
  PROVE  ProxyInv'
  <1>1. task[t].at = "old" /\ Go(t, "clean") /\ alive' \subseteq alive
        /\ mgr' = [proc |-> 0, running |-> FALSE]
        /\ UNCHANGED <<node, flight, boot, ops, batch, lease, asker, works, disturbed, spawns>>
    BY DEF StopOld, Halt, slots, run
  <1>2. task' \in [Threads -> Task] /\ Starts'
    BY <1>1, GoesOn DEF Places
  <1>3. 0 \in 0 .. MaxSpawns
    BY EmbeddedAssumption DEF EmbeddedAssumption
  <1>4. ProxyTypeOK'
    BY <1>1, <1>2, <1>3 DEF ProxyInv, ProxyTypeOK
  <1>5. QED
    BY <1>1, <1>2, <1>4, NodesUntouched DEF ProxyInv

LEMMA CleanUpKeeps ==
  ASSUME ProxyInv, NEW t \in Threads, CleanUp(t)
  PROVE  ProxyInv'
  <1>1. task[t].at = "clean" /\ alive' \subseteq alive
        /\ UNCHANGED <<node, flight, mgr, boot, ops, batch, lease, asker, works, disturbed, spawns>>
    BY DEF CleanUp, slots, run
  <1>2. task' \in [Threads -> Task] /\ Starts'
    <2>1. CASE alive' = {} /\ Go(t, "spawn")
      BY <1>1, <2>1, GoesOn DEF Places
    <2>2. CASE task' = [task EXCEPT ![t].at = "spawn", ![t].unclean = TRUE]
      <3> DEFINE r == [task[t] EXCEPT !.at = "spawn", !.unclean = TRUE]
      <3>1. task' = [task EXCEPT ![t] = r]
        BY <2>2
      <3>2. r \in Task /\ r.unclean
        BY DEF ProxyInv, ProxyTypeOK, Task
      <3> HIDE DEF r
      <3>3. QED
        BY <1>1, <3>1, <3>2, ThreadGoesOn
    <2>3. QED
      BY <2>1, <2>2 DEF CleanUp
  <1>3. ProxyTypeOK'
    BY <1>1, <1>2 DEF ProxyInv, ProxyTypeOK
  <1>4. QED
    BY <1>1, <1>2, <1>3, NodesUntouched DEF ProxyInv

LEMMA SpawnKeeps ==
  ASSUME ProxyInv, NEW t \in Threads, Spawn(t)
  PROVE  ProxyInv'
  <1>1. task[t].at = "spawn"
        /\ UNCHANGED <<node, flight, mgr, ops, batch, lease, asker, works, disturbed>>
    BY DEF Spawn, slots, run
  <1>2. CASE StartFails(t) /\ UNCHANGED <<alive, spawns>>
    <2>1. task' \in [Threads -> Task] /\ Starts' /\ boot' \in Phase
      BY <1>1, <1>2, GoesOn DEF Places, StartFails, Phase
    <2>2. ProxyTypeOK'
      BY <1>1, <1>2, <2>1 DEF ProxyInv, ProxyTypeOK
    <2>3. QED
      BY <1>1, <2>1, <2>2, NodesUntouched DEF ProxyInv
  <1>3. CASE /\ spawns < MaxSpawns /\ spawns' = spawns + 1
             /\ alive' = alive \cup {spawns'}
             /\ task' = [task EXCEPT ![t].at = "wait", ![t].mine = spawns']
             /\ UNCHANGED boot
    <2> DEFINE p == spawns'
               r == [task[t] EXCEPT !.at = "wait", !.mine = p]
    <2>1. task \in [Threads -> Task] /\ spawns \in 0 .. MaxSpawns /\ MaxSpawns \in Nat
          /\ alive \subseteq 1 .. MaxSpawns
      BY EmbeddedAssumption DEF ProxyInv, ProxyTypeOK, EmbeddedAssumption
    <2>2. p \in 0 .. MaxSpawns /\ p \in 1 .. MaxSpawns
      BY <1>3, <2>1
    <2>3. alive' = alive \cup {p}
      BY <1>3
    <2>4. task' = [task EXCEPT ![t] = r]
      BY <1>3
    <2> HIDE DEF p
    <2>5. r \in Task /\ r.at = "wait" /\ r.mine = p /\ r.unclean = task[t].unclean
      BY <2>1, <2>2 DEF Task
    <2> HIDE DEF r
    <2>6. ops = 1 /\ ~r.unclean => alive' \subseteq {r.mine}
      BY <1>1, <2>3, <2>5 DEF ProxyInv, Starts, AliveKnown
    <2>7. task' \in [Threads -> Task] /\ Starts'
      BY <1>1, <2>4, <2>5, <2>6, ThreadGoesOn
    <2>8. ProxyTypeOK'
      <3>1. spawns' \in 0 .. MaxSpawns /\ alive' \subseteq 1 .. MaxSpawns
        BY <2>1, <2>2, <2>3 DEF p
      <3>2. QED
        BY <1>1, <1>3, <2>7, <3>1 DEF ProxyInv, ProxyTypeOK
    <2>9. QED
      BY <1>1, <2>7, <2>8, NodesUntouched DEF ProxyInv
  <1>4. QED
    BY <1>2, <1>3 DEF Spawn

LEMMA WaitPortKeeps ==
  ASSUME ProxyInv, NEW t \in Threads, WaitPort(t)
  PROVE  ProxyInv'
  <1>1. task[t].at = "wait" /\ alive' \subseteq alive /\ boot' \in Phase
        /\ UNCHANGED <<node, flight, mgr, ops, batch, lease, asker, works, disturbed, spawns>>
    BY DEF WaitPort, slots, run, StartFails, Phase, ProxyInv, ProxyTypeOK
  <1>2. \E at \in {"idle", "assign"} : Go(t, at)
    BY DEF WaitPort, StartFails
  <1>3. task' \in [Threads -> Task] /\ Starts'
    BY <1>1, <1>2, GoesOn, OnlyMine DEF Places
  <1>4. ProxyTypeOK'
    BY <1>1, <1>3 DEF ProxyInv, ProxyTypeOK
  <1>5. QED
    BY <1>1, <1>3, <1>4, NodesUntouched DEF ProxyInv

\* The new table counts nothing: if no lease of the old one is left, rightly.
LEMMA AssignKeeps ==
  ASSUME ProxyInv, NEW t \in Threads, Assign(t)
  PROVE  ProxyInv'
  <1>1. task[t].at = "assign" /\ Go(t, "probe")
        /\ UNCHANGED <<alive, boot, ops, batch, lease, asker, works, spawns>>
    BY DEF Assign, run
  <1>2. task' \in [Threads -> Task] /\ Starts'
    BY <1>1, GoesOn, OnlyMine DEF Places
  <1>3. 0 \in 0 .. Cardinality(Workers)
    BY LeasingFinite
  <1>4. NewSlot \in Slot
    BY <1>3 DEF NewSlot, Slot
  <1>5. node' \in [Nodes -> Slot] /\ \A n \in Nodes : node'[n] = NewSlot
    BY <1>4 DEF Assign
  <1>6. mgr' \in [proc : 0 .. MaxSpawns, running : BOOLEAN]
    BY DEF Assign, ProxyInv, ProxyTypeOK, Task
  <1>7. disturbed' \in BOOLEAN
    BY DEF Assign, ProxyInv, ProxyTypeOK
  <1>8. flight' \in [Nodes -> 0 .. MaxFlight]
    BY ProbingTyped DEF Assign, ProxyInv
  <1>9. ProxyTypeOK'
    BY <1>1, <1>2, <1>5, <1>6, <1>7, <1>8 DEF ProxyInv, ProxyTypeOK
  <1>10. LoadCounted'
    <2> SUFFICES ASSUME NEW n \in Nodes
                 PROVE  /\ node'[n].load <= Cardinality(Leasing(n)')
                        /\ ~disturbed' => node'[n].load = Cardinality(Leasing(n)')
      BY DEF LoadCounted
    <2>1. Leasing(n)' = Leasing(n)
      BY <1>1 DEF Leasing
    <2>2. node'[n].load = 0
      BY <1>5 DEF NewSlot
    <2>3. ~disturbed' => Leasing(n) = {}
      BY EmbeddedAssumption DEF Assign, Leasing, EmbeddedAssumption
    <2>4. Cardinality(Leasing(n)) \in Nat
      BY LeasingFinite
    <2>5. QED
      BY <2>1, <2>2, <2>3, <2>4, FS_EmptySet
  <1>11. AskerWaits' /\ HealthyIsWell'
    BY <1>1, <1>5 DEF ProxyInv, Leases, AskerWaits, HealthyIsWell, NewSlot
  <1>12. QED
    BY <1>2, <1>9, <1>10, <1>11 DEF ProxyInv, Leases

LEMMA EarlyReadyKeeps ==
  ASSUME ProxyInv, NEW t \in Threads, EarlyReady(t)
  PROVE  ProxyInv'
  <1>1. task[t].at = "probe"
        /\ UNCHANGED <<node, mgr, alive, ops, batch, lease, asker, works, disturbed, spawns>>
    BY DEF EarlyReady, run
  <1>2. \E at \in {"idle", "launch", "second"} : Go(t, at)
    BY DEF EarlyReady, Ready
  <1>3. boot' \in Phase /\ flight' \in [Nodes -> 0 .. MaxFlight]
    BY ProbingTyped DEF EarlyReady, Ready, Phase, ProxyInv, ProxyTypeOK
  <1>4. task' \in [Threads -> Task] /\ Starts'
    BY <1>1, <1>2, GoesOn, OnlyMine DEF Places
  <1>5. ProxyTypeOK'
    BY <1>1, <1>3, <1>4 DEF ProxyInv, ProxyTypeOK
  <1>6. QED
    BY <1>1, <1>4, <1>5, NodesUntouched DEF ProxyInv

LEMMA SecondProbeKeeps ==
  ASSUME ProxyInv, NEW t \in Threads, SecondProbe(t)
  PROVE  ProxyInv'
  <1>1. task[t].at = "second"
        /\ UNCHANGED <<node, flight, mgr, alive, ops, batch, lease, asker, works, disturbed, spawns>>
    BY DEF SecondProbe, slots, run
  <1>2. \E at \in {"idle", "launch"} : Go(t, at)
    BY DEF SecondProbe, Ready, StartFails
  <1>3. boot' \in Phase
    BY DEF SecondProbe, Ready, StartFails, Phase
  <1>4. task' \in [Threads -> Task] /\ Starts'
    BY <1>1, <1>2, GoesOn DEF Places
  <1>5. ProxyTypeOK'
    BY <1>1, <1>3, <1>4 DEF ProxyInv, ProxyTypeOK
  <1>6. QED
    BY <1>1, <1>4, <1>5, NodesUntouched DEF ProxyInv

LEMMA StopEmbeddedKeeps ==
  ASSUME ProxyInv, NEW t \in Threads, StopEmbedded(t)
  PROVE  ProxyInv'
  <1>1. task[t].at = "stop" /\ Go(t, "idle") /\ alive' \subseteq alive
        /\ mgr' = [proc |-> 0, running |-> FALSE]
        /\ UNCHANGED <<node, flight, boot, ops, batch, lease, asker, works, disturbed, spawns>>
    BY DEF StopEmbedded, Halt, slots, run
  <1>2. task' \in [Threads -> Task] /\ Starts'
    BY <1>1, GoesOn DEF Places
  <1>3. 0 \in 0 .. MaxSpawns
    BY EmbeddedAssumption DEF EmbeddedAssumption
  <1>4. ProxyTypeOK'
    BY <1>1, <1>2, <1>3 DEF ProxyInv, ProxyTypeOK
  <1>5. QED
    BY <1>1, <1>2, <1>4, NodesUntouched DEF ProxyInv

LEMMA StartRunKeeps ==
  ASSUME ProxyInv, NEW t \in Threads, StartRun(t)
  PROVE  ProxyInv'
  <1>1. task[t].at = "launch" /\ Go(t, "idle")
        /\ batch' = [at |-> "running", unhealthy |-> FALSE]
        /\ UNCHANGED <<node, flight, mgr, alive, boot, ops, lease, asker, works, disturbed, spawns>>
    BY DEF StartRun, slots
  <1>2. task' \in [Threads -> Task] /\ Starts'
    BY <1>1, GoesOn DEF Places
  <1>3. ProxyTypeOK'
    BY <1>1, <1>2 DEF ProxyInv, ProxyTypeOK
  <1>4. QED
    BY <1>1, <1>2, <1>3, NodesUntouched DEF ProxyInv

-----------------------------------------------------------------------------
(* The nodes, and the batch that leases them. *)

\* A probe's answer: the loads stay, and a healthy node is well.
LEMMA Answered ==
  ASSUME ProxyInv, NEW n \in Nodes, NEW ok \in BOOLEAN, Answer(n, ok)
  PROVE  /\ node' \in [Nodes -> Slot]
         /\ \A m \in Nodes : node'[m].load = node[m].load
         /\ \A m \in Nodes : node'[m].health = "healthy" => ~node'[m].sick
  <1> DEFINE s == IF ok THEN Passed(node[n]) ELSE Failed(node[n])
  <1>1. node \in [Nodes -> Slot] /\ node[n] \in Slot
    BY DEF ProxyInv, ProxyTypeOK
  <1>2. s \in Slot /\ s.load = node[n].load /\ (s.health = "healthy" => ~s.sick)
    BY <1>1 DEF Slot, Passed, Failed
  <1>3. node' = [node EXCEPT ![n] = s]
    BY DEF Answer
  <1> HIDE DEF s
  <1>4. QED
    BY <1>1, <1>2, <1>3 DEF ProxyInv, HealthyIsWell

LEMMA ProbeEndsKeeps ==
  ASSUME ProxyInv, NEW n \in Nodes, ProbeEnds(n)
  PROVE  ProxyInv'
  <1>1. UNCHANGED <<mgr, alive, boot, task, ops, batch, lease, asker, works, disturbed, spawns>>
    BY DEF ProbeEnds, service, run
  <1>2. PICK ok \in BOOLEAN : Answer(n, ok)
    BY DEF ProbeEnds
  <1>3. flight' \in [Nodes -> 0 .. MaxFlight]
    <2>1. flight \in [Nodes -> 0 .. MaxFlight] /\ MaxFlight \in Nat
      BY EmbeddedAssumption DEF ProxyInv, ProxyTypeOK, EmbeddedAssumption
    <2>2. flight[n] - 1 \in 0 .. MaxFlight
      BY <2>1 DEF ProbeEnds
    <2>3. flight' = [flight EXCEPT ![n] = flight[n] - 1]
      BY DEF ProbeEnds
    <2>4. QED
      BY <2>1, <2>2, <2>3
  <1>4. Leases' /\ HealthyIsWell'
    BY <1>1, <1>2, Answered, TableKept
  <1>5. ProxyTypeOK'
    BY <1>1, <1>2, <1>3, Answered DEF ProxyInv, ProxyTypeOK
  <1>6. QED
    BY <1>1, <1>4, <1>5, StartsUntouched DEF ProxyInv

LEMMA ReprobeKeeps ==
  ASSUME ProxyInv, NEW n \in Nodes, Reprobe(n)
  PROVE  ProxyInv'
  <1>1. UNCHANGED <<flight, mgr, alive, boot, task, ops, batch, lease, works, disturbed, spawns>>
        /\ asker' = [asker EXCEPT !.left = @ \ {n}]
    BY DEF Reprobe, service
  <1>2. PICK ok \in BOOLEAN : Answer(n, ok)
    BY DEF Reprobe
  <1>3. asker' \in [worker : Workers \cup {None}, left : SUBSET Nodes] /\ asker'.worker = asker.worker
    BY <1>1 DEF ProxyInv, ProxyTypeOK
  <1>4. node' \in [Nodes -> Slot]
        /\ \A m \in Nodes : node'[m].load = node[m].load
        /\ HealthyIsWell'
    BY <1>2, Answered DEF HealthyIsWell
  <1>5. ProxyTypeOK'
    BY <1>1, <1>3, <1>4 DEF ProxyInv, ProxyTypeOK
  <1>6. \A m \in Nodes : Leasing(m)' = Leasing(m)
    BY <1>1 DEF Leasing
  <1>7. Leases'
    BY <1>1, <1>3, <1>4, <1>6 DEF ProxyInv, Leases, LoadCounted, AskerWaits
  <1>8. QED
    BY <1>1, <1>4, <1>5, <1>7, StartsUntouched DEF ProxyInv

LEMMA CoolsKeeps ==
  ASSUME ProxyInv, NEW n \in Nodes, Cools(n)
  PROVE  ProxyInv'
  <1>1. UNCHANGED <<flight, mgr, alive, boot, task, ops, batch, lease, asker, works, disturbed, spawns>>
    BY DEF Cools, service, run
  <1> DEFINE s == [node[n] EXCEPT !.health = "due"]
  <1>2. node \in [Nodes -> Slot] /\ node[n] \in Slot
    BY DEF ProxyInv, ProxyTypeOK
  <1>3. s \in Slot /\ s.load = node[n].load /\ s.health # "healthy"
    BY <1>2 DEF Slot
  <1>4. node' = [node EXCEPT ![n] = s]
    BY DEF Cools
  <1> HIDE DEF s
  <1>5. /\ node' \in [Nodes -> Slot]
        /\ \A m \in Nodes : node'[m].load = node[m].load
        /\ \A m \in Nodes : node'[m].health = "healthy" => ~node'[m].sick
    BY <1>2, <1>3, <1>4 DEF ProxyInv, HealthyIsWell
  <1>6. ProxyTypeOK'
    BY <1>1, <1>5 DEF ProxyInv, ProxyTypeOK
  <1>7. QED
    BY <1>1, <1>5, <1>6, TableKept, StartsUntouched DEF ProxyInv

LEMMA RevivedTable ==
  ASSUME ProxyInv
  PROVE  /\ Revived \in [Nodes -> Slot]
         /\ \A m \in Nodes : Revived[m].load = node[m].load /\ Revived[m].sick = node[m].sick
         /\ \A m \in Nodes : Revived[m].health = "healthy" <=> node[m].health = "healthy"
  <1>1. \A m \in Nodes : node[m] \in Slot
    BY DEF ProxyInv, ProxyTypeOK
  <1>2. QED
    BY <1>1 DEF Revived, Slot, Health

LEMMA CheckHealthKeeps ==
  ASSUME ProxyInv, CheckHealth
  PROVE  ProxyInv'
  <1>1. UNCHANGED <<flight, mgr, alive, boot, task, ops, lease, asker, works, disturbed, spawns>>
        /\ node' = Revived
    BY DEF CheckHealth, service
  <1>2. batch' \in [at : {"none", "running", "done"}, unhealthy : BOOLEAN]
    BY DEF CheckHealth, ProxyInv, ProxyTypeOK
  <1>3. Leases' /\ HealthyIsWell'
    BY <1>1, RevivedTable, TableKept DEF ProxyInv, HealthyIsWell
  <1>4. ProxyTypeOK'
    BY <1>1, <1>2, RevivedTable DEF ProxyInv, ProxyTypeOK
  <1>5. QED
    BY <1>1, <1>3, <1>4, StartsUntouched DEF ProxyInv

\* A lease is taken of a healthy node, from a table with the loads of now.
LEMMA Granted ==
  ASSUME ProxyInv, NEW w \in Workers, lease[w].node = None, Idle \/ asker.worker = w,
         NEW tab \in [Nodes -> Slot],
         \A m \in Nodes : tab[m].load = node[m].load /\ tab[m].sick = node[m].sick,
         \A m \in Nodes : tab[m].health = "healthy" <=> node[m].health = "healthy",
         NEW S \in SUBSET Healthy, Grant(w, S, tab), UNCHANGED disturbed,
         asker'.worker = None
  PROVE  /\ node' \in [Nodes -> Slot]
         /\ lease' \in [Workers -> [node : Nodes \cup {None}, tried : SUBSET Nodes]]
         /\ Leases' /\ HealthyIsWell'
         /\ ~node[lease'[w].node].sick
         /\ \A v \in Workers \ {w} : lease'[v] = lease[v]
  <1>1. PICK n \in Healthy : /\ node' = [tab EXCEPT ![n].load = @ + 1]
                             /\ lease' = [lease EXCEPT ![w].node = n]
    BY DEF Grant, Least
  <1>2. n \in Nodes /\ node[n].health = "healthy"
    BY DEF Healthy, Health
  <1>3. /\ lease' \in [Workers -> [node : Nodes \cup {None}, tried : SUBSET Nodes]]
        /\ Cardinality(Leasing(n)') = Cardinality(Leasing(n)) + 1
        /\ \A m \in Nodes \ {n} : Leasing(m)' = Leasing(m)
    BY <1>1, <1>2, LeaseTaken DEF ProxyInv
  <1>4. /\ Cardinality(Leasing(n)) \in Nat /\ Cardinality(Workers) \in Nat
        /\ tab[n].load \in Nat /\ tab[n].load <= Cardinality(Leasing(n))
        /\ ~disturbed => tab[n].load = Cardinality(Leasing(n))
    BY <1>2, LeasingFinite DEF ProxyInv, Leases, LoadCounted, Slot
  <1>5. Cardinality(Leasing(n)) + 1 <= Cardinality(Workers)
    <2>1. Leasing(n) \in SUBSET Workers /\ w \notin Leasing(n) /\ IsFiniteSet(Workers)
          /\ None \notin Nodes
      BY <1>2, EmbeddedAssumption DEF EmbeddedAssumption, Leasing
    <2>2. IsFiniteSet(Leasing(n))
      BY LeasingFinite
    <2>3. Cardinality(Leasing(n) \cup {w}) = Cardinality(Leasing(n)) + 1
      BY <2>1, <2>2, FS_AddElement
    <2>4. Leasing(n) \cup {w} \in SUBSET Workers
      BY <2>1
    <2>5. QED
      BY <2>1, <2>3, <2>4, FS_Subset
  <1> DEFINE s == [tab[n] EXCEPT !.load = @ + 1]
  <1>6. tab[n].load + 1 \in 0 .. Cardinality(Workers)
    BY <1>4, <1>5
  <1>7. s \in Slot /\ s.load = tab[n].load + 1 /\ s.sick = node[n].sick
    BY <1>2, <1>6 DEF Slot
  <1>8. node' = [tab EXCEPT ![n] = s]
    BY <1>1
  <1> HIDE DEF s
  <1>9. node'[n] = s /\ \A m \in Nodes \ {n} : node'[m] = tab[m]
    BY <1>2, <1>8
  <1>10. node' \in [Nodes -> Slot]
    BY <1>2, <1>7, <1>8
  <1>11. ~node[n].sick
    BY <1>2 DEF ProxyInv, HealthyIsWell
  <1>12. HealthyIsWell'
    BY <1>7, <1>9, <1>11 DEF HealthyIsWell, ProxyInv
  <1>13. LoadCounted'
    <2> SUFFICES ASSUME NEW m \in Nodes
                 PROVE  /\ node'[m].load <= Cardinality(Leasing(m)')
                        /\ ~disturbed' => node'[m].load = Cardinality(Leasing(m)')
      BY DEF LoadCounted
    <2>1. CASE m = n
      BY <2>1, <1>3, <1>4, <1>7, <1>9
    <2>2. CASE m # n
      BY <2>2, <1>3, <1>9 DEF ProxyInv, Leases, LoadCounted
    <2>3. QED
      BY <2>1, <2>2
  <1>14. lease'[w].node = n /\ \A v \in Workers \ {w} : lease'[v] = lease[v]
    BY <1>1 DEF ProxyInv, ProxyTypeOK
  <1>15. QED
    BY <1>3, <1>10, <1>11, <1>12, <1>13, <1>14 DEF Leases, AskerWaits

\* A worker that leaves its slot had no node.
LEMMA Left ==
  ASSUME ProxyInv, NEW w \in Workers, lease[w].node = None, Over(w)
  PROVE  /\ lease' \in [Workers -> [node : Nodes \cup {None}, tried : SUBSET Nodes]]
         /\ \A m \in Nodes : Leasing(m)' = Leasing(m)
         /\ \A v \in Workers : lease'[v].node = lease[v].node
  <1>1. lease \in [Workers -> [node : Nodes \cup {None}, tried : SUBSET Nodes]]
    BY DEF ProxyInv, ProxyTypeOK
  <1>2. Free \in [node : Nodes \cup {None}, tried : SUBSET Nodes] /\ Free.node = None
    BY DEF Free
  <1>3. lease' = [lease EXCEPT ![w] = Free]
    BY DEF Over
  <1>4. lease' \in [Workers -> [node : Nodes \cup {None}, tried : SUBSET Nodes]]
    BY <1>1, <1>2, <1>3
  <1>5. \A v \in Workers : lease'[v].node = lease[v].node
    BY <1>1, <1>2, <1>3
  <1>6. QED
    BY <1>4, <1>5 DEF Leasing

LEMMA AcquireKeeps ==
  ASSUME ProxyInv, NEW w \in Workers, Acquire(w)
  PROVE  /\ ProxyInv'
         /\ \A v \in Workers : lease[v].node = None /\ lease'[v].node # None => ~node[lease'[v].node].sick
  <1> DEFINE fit == Healthy \ lease[w].tried
             due == {n \in Nodes : Revived[n].health = "pending"}
  <1>1. Idle /\ lease[w].node = None
        /\ UNCHANGED <<flight, mgr, alive, boot, task, ops, batch, works, disturbed, spawns>>
    BY DEF Acquire, service
  <1>2. CASE fit # {} /\ Grant(w, fit, Revived) /\ UNCHANGED asker
    <2>1. fit \in SUBSET Healthy /\ asker'.worker = None
      BY <1>1, <1>2 DEF Idle
    <2>2. /\ node' \in [Nodes -> Slot]
          /\ lease' \in [Workers -> [node : Nodes \cup {None}, tried : SUBSET Nodes]]
          /\ Leases' /\ HealthyIsWell'
          /\ ~node[lease'[w].node].sick
          /\ \A v \in Workers \ {w} : lease'[v] = lease[v]
      BY <1>1, <1>2, <2>1, RevivedTable, Granted
    <2>3. ProxyTypeOK'
      BY <1>1, <1>2, <2>2 DEF ProxyInv, ProxyTypeOK
    <2>4. QED
      BY <1>1, <2>2, <2>3, StartsUntouched DEF ProxyInv
  <1>3. CASE node' = Revived /\ asker' = [worker |-> w, left |-> due] /\ UNCHANGED lease
    <2>1. asker' \in [worker : Workers \cup {None}, left : SUBSET Nodes] /\ asker'.worker = w
      BY <1>3
    <2>2. ProxyTypeOK'
      BY <1>1, <1>3, <2>1, RevivedTable DEF ProxyInv, ProxyTypeOK
    <2>3. \A m \in Nodes : Leasing(m)' = Leasing(m)
      BY <1>3 DEF Leasing
    <2>4. Leases'
      BY <1>1, <1>3, <2>1, <2>3, RevivedTable DEF ProxyInv, Leases, LoadCounted, AskerWaits
    <2>5. HealthyIsWell'
      BY <1>3, RevivedTable DEF ProxyInv, HealthyIsWell
    <2>6. QED
      BY <1>1, <1>3, <2>2, <2>4, <2>5, StartsUntouched DEF ProxyInv
  <1>4. CASE node' = Revived /\ Over(w) /\ UNCHANGED asker
    <2>1. ProxyTypeOK'
      BY <1>1, <1>4, RevivedTable, Left DEF ProxyInv, ProxyTypeOK
    <2>2. Leases'
      BY <1>1, <1>4, RevivedTable, Left DEF ProxyInv, Leases, LoadCounted, AskerWaits, Idle
    <2>3. HealthyIsWell'
      BY <1>4, RevivedTable DEF ProxyInv, HealthyIsWell
    <2>4. QED
      BY <1>1, <1>4, <2>1, <2>2, <2>3, Left, StartsUntouched DEF ProxyInv
  <1>5. QED
    BY <1>2, <1>3, <1>4 DEF Acquire

LEMMA SelectKeeps ==
  ASSUME ProxyInv, Select
  PROVE  /\ ProxyInv'
         /\ \A v \in Workers : lease[v].node = None /\ lease'[v].node # None => ~node[lease'[v].node].sick
  <1> DEFINE w == asker.worker
             fit == Healthy \ lease[w].tried
  <1>1. ~Idle /\ asker' = [worker |-> None, left |-> {}]
        /\ UNCHANGED <<flight, mgr, alive, boot, task, ops, batch, works, disturbed, spawns>>
    BY DEF Select, service
  <1>2. w \in Workers /\ lease[w].node = None
    BY <1>1 DEF ProxyInv, ProxyTypeOK, Leases, AskerWaits, Idle
  <1>3. asker' \in [worker : Workers \cup {None}, left : SUBSET Nodes] /\ asker'.worker = None
    BY <1>1
  <1>4. CASE Grant(w, fit, node)
    <2>1. fit \in SUBSET Healthy /\ node \in [Nodes -> Slot]
      BY DEF ProxyInv, ProxyTypeOK
    <2>2. /\ node' \in [Nodes -> Slot]
          /\ lease' \in [Workers -> [node : Nodes \cup {None}, tried : SUBSET Nodes]]
          /\ Leases' /\ HealthyIsWell'
          /\ ~node[lease'[w].node].sick
          /\ \A v \in Workers \ {w} : lease'[v] = lease[v]
      BY <1>1, <1>2, <1>3, <1>4, <2>1, Granted
    <2>3. ProxyTypeOK'
      BY <1>1, <1>3, <2>2 DEF ProxyInv, ProxyTypeOK
    <2>4. QED
      BY <1>1, <2>2, <2>3, StartsUntouched DEF ProxyInv
  <1>5. CASE Over(w) /\ UNCHANGED node
    <2>1. ProxyTypeOK'
      BY <1>1, <1>2, <1>3, <1>5, Left DEF ProxyInv, ProxyTypeOK
    <2>2. Leases'
      BY <1>1, <1>2, <1>3, <1>5, Left DEF ProxyInv, Leases, LoadCounted, AskerWaits
    <2>3. HealthyIsWell'
      BY <1>5 DEF ProxyInv, HealthyIsWell
    <2>4. QED
      BY <1>1, <1>2, <1>5, <2>1, <2>2, <2>3, Left, StartsUntouched DEF ProxyInv
  <1>6. QED
    BY <1>4, <1>5 DEF Select

\* A lease is given back on the table of now, whose slot may never have
\* counted it: the load stops at nothing.
LEMMA ReleaseKeeps ==
  ASSUME ProxyInv, NEW w \in Workers, Release(w)
  PROVE  ProxyInv' /\ \A v \in Workers : lease'[v].node # None => lease'[v].node = lease[v].node
  <1>1. Idle /\ lease[w].node # None
        /\ UNCHANGED <<flight, mgr, alive, boot, task, ops, batch, asker, works, disturbed, spawns>>
    BY DEF Release, service
  <1>2. PICK n \in Nodes : n = lease[w].node
    BY <1>1 DEF ProxyInv, ProxyTypeOK
  <1>3. PICK failed \in BOOLEAN :
          /\ node' = [node EXCEPT ![n] = Returned(@, failed)]
          /\ lease' = [lease EXCEPT ![w] = IF failed THEN [Free EXCEPT !.tried = lease[w].tried \cup {n}]
                                           ELSE Free]
    BY <1>2 DEF Release
  <1> DEFINE r == IF failed THEN [Free EXCEPT !.tried = lease[w].tried \cup {n}] ELSE Free
             s == Returned(node[n], failed)
  <1>4. lease \in [Workers -> [node : Nodes \cup {None}, tried : SUBSET Nodes]]
        /\ node \in [Nodes -> Slot]
    BY DEF ProxyInv, ProxyTypeOK
  <1>5. n \in Nodes /\ lease[w].node = n
    BY <1>2
  <1>6. r \in [node : {None}, tried : SUBSET Nodes]
    BY <1>4, <1>5 DEF Free
  <1>7. lease' = [lease EXCEPT ![w] = r] /\ node' = [node EXCEPT ![n] = s]
    BY <1>3
  <1>8. Cardinality(Workers) \in Nat /\ Cardinality(Leasing(n)) \in Nat
    BY LeasingFinite
  <1>9. node[n] \in Slot /\ node[n].load \in 0 .. Cardinality(Workers)
    BY <1>4, <1>5 DEF Slot
  <1> DEFINE l == IF node[n].load = 0 THEN 0 ELSE node[n].load - 1
  <1>10. l \in 0 .. Cardinality(Workers)
    BY <1>8, <1>9
  <1>11. s \in Slot /\ s.load = l /\ (s.health = "healthy" => node[n].health = "healthy" /\ s.sick = node[n].sick)
    <2>1. s = IF failed THEN Failed([node[n] EXCEPT !.load = l]) ELSE [node[n] EXCEPT !.load = l]
      BY <1>9 DEF Returned
    <2> HIDE DEF l, s
    <2>2. QED
      BY <1>9, <1>10, <2>1 DEF Slot, Failed
  <1> HIDE DEF r, s
  <1>12. /\ lease' \in [Workers -> [node : Nodes \cup {None}, tried : SUBSET Nodes]]
         /\ Cardinality(Leasing(n)) > 0
         /\ Cardinality(Leasing(n)') = Cardinality(Leasing(n)) - 1
         /\ \A m \in Nodes \ {n} : Leasing(m)' = Leasing(m)
    BY <1>5, <1>6, <1>7, LeaseGiven DEF ProxyInv
  <1>13. node' \in [Nodes -> Slot] /\ node'[n] = s /\ \A m \in Nodes \ {n} : node'[m] = node[m]
    BY <1>4, <1>5, <1>7, <1>11
  <1>14. ProxyTypeOK'
    BY <1>1, <1>12, <1>13 DEF ProxyInv, ProxyTypeOK
  <1>15. LoadCounted'
    <2> SUFFICES ASSUME NEW m \in Nodes
                 PROVE  /\ node'[m].load <= Cardinality(Leasing(m)')
                        /\ ~disturbed' => node'[m].load = Cardinality(Leasing(m)')
      BY DEF LoadCounted
    <2>1. CASE m = n
      <3>1. node[n].load <= Cardinality(Leasing(n)) /\ (~disturbed => node[n].load = Cardinality(Leasing(n)))
        BY <1>5 DEF ProxyInv, Leases, LoadCounted
      <3>2. QED
        BY <2>1, <3>1, <1>1, <1>8, <1>9, <1>11, <1>12, <1>13 DEF Slot
    <2>2. CASE m # n
      BY <2>2, <1>1, <1>12, <1>13 DEF ProxyInv, Leases, LoadCounted
    <2>3. QED
      BY <2>1, <2>2
  <1>16. AskerWaits' /\ HealthyIsWell'
    BY <1>1, <1>11, <1>13 DEF ProxyInv, AskerWaits, HealthyIsWell, Idle
  <1>17. \A v \in Workers : lease'[v].node # None => lease'[v].node = lease[v].node
    BY <1>4, <1>6, <1>7
  <1>18. QED
    BY <1>1, <1>14, <1>15, <1>16, <1>17, StartsUntouched DEF ProxyInv, Leases

LEMMA OutsideKeeps ==
  ASSUME ProxyInv, RunEnds \/ Mended \/ Crashes
  PROVE  ProxyInv' /\ UNCHANGED lease
  <1>1. UNCHANGED <<node, flight, mgr, boot, task, ops, lease, asker, disturbed, spawns>>
        /\ alive' \subseteq alive /\ works' \in BOOLEAN
    BY DEF ProxyInv, ProxyTypeOK, RunEnds, Mended, Crashes, slots, service, run
  <1>2. batch' \in [at : {"none", "running", "done"}, unhealthy : BOOLEAN]
    <2>1. CASE RunEnds
      BY <2>1 DEF RunEnds
    <2>2. CASE UNCHANGED batch
      BY <2>2 DEF ProxyInv, ProxyTypeOK
    <2>3. QED
      BY <2>1, <2>2 DEF Mended, Crashes, run
  <1>3. ProxyTypeOK'
    BY <1>1, <1>2 DEF ProxyInv, ProxyTypeOK
  <1>4. QED
    BY <1>1, <1>3, NodesUntouched, StartsUntouched DEF ProxyInv

-----------------------------------------------------------------------------
LEMMA ProxyBegins == ProxyInit => ProxyInv
  <1> SUFFICES ASSUME ProxyInit PROVE ProxyInv
    OBVIOUS
  <1>1. 0 \in 0 .. Cardinality(Workers) /\ 0 \in 0 .. MaxSpawns /\ 0 \in 0 .. MaxOps
        /\ 0 \in 0 .. MaxFlight /\ 1 \in 0 .. MaxSpawns /\ MaxSpawns \in Nat /\ MaxSpawns >= 1
    BY LeasingFinite, EmbeddedAssumption DEF EmbeddedAssumption
  <1>2. NewSlot \in Slot /\ Rest \in Task /\ Rest.at = "idle"
    BY <1>1 DEF NewSlot, Slot, Rest, Task, Ops
  <1>3. Free \in [node : Nodes \cup {None}, tried : SUBSET Nodes]
    BY DEF Free
  <1>4. ProxyTypeOK
    <2>1. spawns \in 0 .. MaxSpawns /\ alive \subseteq 1 .. MaxSpawns
      BY <1>1 DEF ProxyInit
    <2>2. node \in [Nodes -> Slot] /\ task \in [Threads -> Task]
          /\ lease \in [Workers -> [node : Nodes \cup {None}, tried : SUBSET Nodes]]
          /\ flight \in [Nodes -> 0 .. MaxFlight]
      BY <1>1, <1>2, <1>3 DEF ProxyInit
    <2>3. boot \in Phase /\ works \in BOOLEAN /\ disturbed \in BOOLEAN /\ ops \in 0 .. MaxOps
          /\ batch \in [at : {"none", "running", "done"}, unhealthy : BOOLEAN]
          /\ asker \in [worker : Workers \cup {None}, left : SUBSET Nodes]
          /\ mgr \in [proc : 0 .. MaxSpawns, running : BOOLEAN]
      BY <1>1 DEF ProxyInit, Phase
    <2>4. QED
      BY <2>1, <2>2, <2>3 DEF ProxyTypeOK
  <1>5. \A n \in Nodes : Leasing(n) = {} /\ node[n] = NewSlot
    BY EmbeddedAssumption DEF ProxyInit, Leasing, Free, EmbeddedAssumption
  <1>6. LoadCounted
    BY <1>5, FS_EmptySet DEF LoadCounted, NewSlot
  <1>7. AskerWaits /\ HealthyIsWell
    BY <1>5 DEF ProxyInit, AskerWaits, HealthyIsWell, NewSlot
  <1>8. Starts
    BY <1>2 DEF ProxyInit, Starts, OneAtWork, AliveKnown
  <1>9. QED
    BY <1>4, <1>6, <1>7, <1>8 DEF ProxyInv, Leases

\* Every step keeps the invariant, and a lease that appears is of a well node.
LEMMA ProxyStep ==
  ASSUME ProxyInv, [ProxyNext]_proxyVars
  PROVE  /\ ProxyInv'
         /\ \A v \in Workers : lease[v].node = None /\ lease'[v].node # None => ~node[lease'[v].node].sick
  <1>1. CASE UNCHANGED proxyVars
    <2>1. UNCHANGED <<node, flight, mgr, alive, boot, task, ops, batch, lease, asker, works, disturbed, spawns>>
      BY <1>1 DEF proxyVars, slots, service, run
    <2>2. ProxyTypeOK'
      BY <2>1 DEF ProxyInv, ProxyTypeOK
    <2>3. QED
      BY <2>1, <2>2, NodesUntouched, StartsUntouched DEF ProxyInv
  <1>2. ASSUME NEW t \in Threads, Request(t) \/ Step(t)
        PROVE  ProxyInv' /\ UNCHANGED lease
    <2>1. UNCHANGED lease
      BY <1>2 DEF Request, Step, Ensure, StopOld, CleanUp, Spawn, WaitPort, Assign, EarlyReady,
                  SecondProbe, StopEmbedded, StartRun, run
    <2>2. QED
      BY <1>2, <2>1, RequestKeeps, EnsureKeeps, StopOldKeeps, CleanUpKeeps, SpawnKeeps, WaitPortKeeps,
         AssignKeeps, EarlyReadyKeeps, SecondProbeKeeps, StopEmbeddedKeeps, StartRunKeeps DEF Step
  <1>3. ASSUME NEW n \in Nodes, ProbeEnds(n) \/ Cools(n) \/ Reprobe(n)
        PROVE  ProxyInv' /\ UNCHANGED lease
    BY <1>3, ProbeEndsKeeps, CoolsKeeps, ReprobeKeeps DEF ProbeEnds, Cools, Reprobe, run
  <1>4. CASE CheckHealth
    BY <1>4, CheckHealthKeeps DEF CheckHealth
  <1>5. QED
    BY <1>1, <1>2, <1>3, <1>4, AcquireKeeps, SelectKeeps, ReleaseKeeps, OutsideKeeps DEF ProxyNext

\* What the requests of the console, the probes and the batch keep of the table
\* of nodes and of the mihomo processes, after each step (EmbeddedProxyManager).
THEOREM ProxyInvariant == ProxySpec => []ProxyInv
  <1>1. ProxyInv /\ [ProxyNext]_proxyVars => ProxyInv'
    BY ProxyStep
  <1>2. QED
    BY <1>1, ProxyBegins, PTL DEF ProxySpec

\* The load of every node is the number of workers that lease it, unless a start
\* has replaced the table under leases, and one start at a time leaves one
\* mihomo (acquire, release and start of EmbeddedProxyManager).
THEOREM NodesAreSafe == ProxySpec => []NodesSafe
  <1>1. ProxyInv => NodesSafe
    BY DEF ProxyInv, Leases, LoadCounted, Starts, AliveKnown, NodesSafe, LoadIsLeases,
           NothingLeftOver, Leasing
  <1>2. QED
    BY <1>1, ProxyInvariant, PTL

\* Whatever probes, cooldowns and reloads come between, none of the paths to a
\* lease takes a node that has failed before a probe of it has ended well
\* (_lease_candidates and acquire, after a release that reports a failure).
THEOREM SickNodesRest == ProxySpec => NoLeaseWhileSick
  <1>1. ProxyInv /\ [ProxyNext]_proxyVars
        => [\A w \in Workers : lease[w].node = None /\ lease'[w].node # None
              => ~node[lease'[w].node].sick]_proxyVars
    BY ProxyStep
  <1>2. QED
    BY <1>1, ProxyInvariant, PTL DEF ProxySpec, NoLeaseWhileSick
=============================================================================
