---------------------------- MODULE DesktopProofs ----------------------------
(***************************************************************************)
(* Reading and writing a list in parts: for any lists, any size of a page, *)
(* any clients and any number of faults, the browser blocks what one saved *)
(* policy says, and a list in force is one that a client meant, in full.   *)
(*                                                                         *)
(* Both follow from what a reader or a writer has after some pages: the    *)
(* domains that come first in the list, up to its offset.                  *)
(***************************************************************************)
EXTENDS Desktop, FiniteSetTheorems, SequenceTheorems, TLAPS

\* The domains of the list up to the offset.
Rank(list, d) == Cardinality({e \in list : e <= d})
UpTo(list, offset) == {d \in list : Rank(list, d) <= offset}

-----------------------------------------------------------------------------
(* Pages. *)

LEMMA RankBounds ==
    ASSUME NEW list \in SUBSET Domains, NEW d \in list
    PROVE  Rank(list, d) \in 1 .. Cardinality(list) /\ Cardinality(list) \in Nat
  <1>1. IsFiniteSet(list) /\ d \in Nat
    BY ListAssumption, FS_Subset
  <1>2. {e \in list : e <= d} \in SUBSET list /\ d \in {e \in list : e <= d}
    BY <1>1
  <1>3. Rank(list, d) <= Cardinality(list) /\ IsFiniteSet({e \in list : e <= d})
    BY <1>1, <1>2, FS_Subset DEF Rank
  <1>4. Rank(list, d) \in Nat /\ Cardinality(list) \in Nat
    BY <1>1, <1>3, FS_CardinalityType DEF Rank
  <1>5. Rank(list, d) # 0
    BY <1>2, <1>3, FS_EmptySet DEF Rank
  <1> QED BY <1>3, <1>4, <1>5

LEMMA NothingUpToZero ==
    ASSUME NEW list \in SUBSET Domains
    PROVE  UpTo(list, 0) = {}
  BY RankBounds DEF UpTo

\* A page adds the domains up to the next offset.
LEMMA PageExtends ==
    ASSUME NEW list \in SUBSET Domains, NEW offset \in Nat
    PROVE  UpTo(list, offset) \cup Page(list, offset) = UpTo(list, offset + PageSize)
  <1>1. ASSUME NEW d \in list
        PROVE  /\ d \in UpTo(list, offset) <=> Rank(list, d) <= offset
               /\ d \in Page(list, offset) <=> Rank(list, d) \in (offset + 1) .. (offset + PageSize)
               /\ d \in UpTo(list, offset + PageSize) <=> Rank(list, d) <= offset + PageSize
    BY DEF UpTo, Page, Rank
  <1>2. ASSUME NEW d \in list
        PROVE  d \in UpTo(list, offset) \cup Page(list, offset) <=> d \in UpTo(list, offset + PageSize)
    BY <1>1, RankBounds, ListAssumption
  <1>3. /\ UpTo(list, offset) \subseteq list /\ Page(list, offset) \subseteq list
        /\ UpTo(list, offset + PageSize) \subseteq list
    BY DEF UpTo, Page
  <1> QED BY <1>2, <1>3

\* The last page completes the list.
LEMMA PageCompletes ==
    ASSUME NEW list \in SUBSET Domains, NEW offset \in Nat, Finished(list, offset)
    PROVE  UpTo(list, offset) \cup Page(list, offset) = list
  <1>1. ASSUME NEW d \in list
        PROVE  Rank(list, d) <= offset + PageSize
    BY RankBounds, ListAssumption DEF Finished
  <1>2. UpTo(list, offset + PageSize) = list
    BY <1>1 DEF UpTo
  <1> QED BY <1>2, PageExtends

-----------------------------------------------------------------------------
(* The policies that were saved. *)

Policy == [list : SUBSET Domains, uses : BOOLEAN]
PastInv == past \in Seq(Policy) /\ past # <<>>

\* What a step may do to them.
Grows == past' = past \/ \E p \in Policy : past' = Append(past, p)

LEMMA PolicyInForce ==
    ASSUME PastInv
    PROVE  policy \in Policy /\ Revision \in 1 .. Len(past) /\ policy = past[Revision]
  BY DEF PastInv, policy, Revision, Last

LEMMA PastGrows ==
    ASSUME PastInv, Grows
    PROVE  /\ PastInv'
           /\ Len(past) \in Nat /\ Len(past') \in Nat /\ Len(past) <= Len(past')
           /\ \A i \in 1 .. Len(past) : past'[i] = past[i]
           /\ past' = past \/ \E p \in Policy : Len(past') = Len(past) + 1 /\ past'[Len(past')] = p
                                                 /\ past' = Append(past, p)
  <1>1. CASE past' = past
    BY <1>1 DEF PastInv
  <1>2. ASSUME NEW p \in Policy, past' = Append(past, p)
        PROVE  /\ PastInv' /\ Len(past') = Len(past) + 1 /\ past'[Len(past')] = p
               /\ \A i \in 1 .. Len(past) : past'[i] = past[i]
    <2>1. past \in Seq(Policy)
      BY DEF PastInv
    <2> QED BY <1>2, <2>1, AppendProperties DEF PastInv
  <1>3. Len(past) \in Nat
    BY DEF PastInv
  <1> QED BY <1>1, <1>2, <1>3 DEF Grows

-----------------------------------------------------------------------------
(* The browser. *)

Browsers == [at : {"idle", "page", "apply"}, revision : Nat, active : BOOLEAN,
             list : SUBSET Domains, offset : Nat]

\* What the policy of a revision lets the browser block.
Called(p, isActive) == IF p.uses /\ isActive THEN p.list ELSE {}

\* A refresh has the pages of one revision up to its offset, or all of them.
Reads(b) ==
    /\ b \in Browsers
    /\ b.at # "idle" => b.revision \in 1 .. Len(past)
    /\ b.at = "page" => /\ past[b.revision].uses /\ b.active
                        /\ b.list = UpTo(past[b.revision].list, b.offset)
    /\ b.at = "apply" => b.list = Called(past[b.revision], b.active)
AppliedFrom(a) ==
    a # None => /\ a.revision \in 1 .. Len(past)
                /\ a.blocked = Called(past[a.revision], a.active) \ Excluded

BrowserInv == Reads(browser) /\ AppliedFrom(applied)

LEMMA GrowthKeepsBrowser ==
    ASSUME PastInv, BrowserInv, Grows, UNCHANGED browserVars
    PROVE  BrowserInv'
  <1>1. /\ Len(past) \in Nat /\ Len(past') \in Nat /\ Len(past) <= Len(past')
        /\ \A i \in 1 .. Len(past) : past'[i] = past[i]
    BY PastGrows
  <1>2. Reads(browser)'
    BY <1>1 DEF BrowserInv, Reads, browserVars, Called
  <1>3. AppliedFrom(applied)'
    BY <1>1 DEF BrowserInv, AppliedFrom, browserVars, Called
  <1> QED BY <1>2, <1>3 DEF BrowserInv

LEMMA FetchPolicyReads ==
    ASSUME PastInv, BrowserInv, active \in BOOLEAN, FetchPolicy
    PROVE  BrowserInv'
  <1>1. policy \in Policy /\ Revision \in 1 .. Len(past) /\ policy = past[Revision] /\ Len(past) \in Nat
    BY PolicyInForce DEF PastInv
  <1>2. past' = past /\ applied' = applied
    BY DEF FetchPolicy, Resting
  <1>3. /\ browser'.at = IF policy.uses /\ active THEN "page" ELSE "apply"
        /\ browser'.revision = Revision /\ browser'.active = active
        /\ browser'.list = {} /\ browser'.offset = 0 /\ browser' \in Browsers
    BY <1>1 DEF FetchPolicy, Browsers
  <1>4. UpTo(policy.list, 0) = {}
    BY <1>1, NothingUpToZero DEF Policy
  <1>5. Reads(browser)'
    BY <1>1, <1>2, <1>3, <1>4 DEF Reads, Called, Policy
  <1> QED BY <1>2, <1>5 DEF BrowserInv, AppliedFrom

\* A page of the same revision is a page of the same list.
LEMMA FetchPageReads ==
    ASSUME PastInv, BrowserInv, FetchPage
    PROVE  BrowserInv'
  <1> DEFINE ended == policy.list = {} \/ ~SameRevision
             list == policy.list
             offset == browser.offset
  <1>1. policy \in Policy /\ Revision \in 1 .. Len(past) /\ policy = past[Revision] /\ Len(past) \in Nat
    BY PolicyInForce DEF PastInv
  <1>2. past' = past /\ applied' = applied
    BY DEF FetchPage, Resting
  <1>3. browser \in Browsers /\ browser.at = "page"
    BY DEF FetchPage, BrowserInv, Reads
  <1>4. CASE ended
    <2>1. browser' = [browser EXCEPT !.at = "idle"]
      BY <1>4 DEF FetchPage
    <2>2. browser'.at = "idle" /\ browser' \in Browsers
      BY <1>3, <2>1 DEF Browsers
    <2> QED BY <1>2, <2>2 DEF BrowserInv, Reads, AppliedFrom
  <1>5. CASE ~ended
    <2>1. browser.revision = Revision /\ policy.uses /\ browser.active /\ browser.list = UpTo(list, offset)
      BY <1>1, <1>3, <1>5 DEF SameRevision, BrowserInv, Reads
    <2>2. list \in SUBSET Domains /\ offset \in Nat
      BY <1>1, <1>3 DEF Policy, Browsers
    <2>3. Page(list, offset) \subseteq Domains /\ offset + PageSize \in Nat
      BY <2>2, ListAssumption DEF Page
    <2>4. /\ browser'.list = browser.list \cup Page(list, offset)
          /\ browser'.offset = offset + PageSize
          /\ browser'.at = IF Finished(list, offset) THEN "apply" ELSE "page"
          /\ browser'.revision = browser.revision /\ browser'.active = browser.active
          /\ browser' \in Browsers
      BY <1>3, <1>5, <2>3 DEF FetchPage, Browsers
    <2>5. browser'.list = UpTo(list, offset + PageSize)
      BY <2>1, <2>2, <2>4, PageExtends
    <2>6. Finished(list, offset) => browser'.list = list
      BY <2>1, <2>2, <2>4, PageCompletes
    <2>7. Reads(browser)'
      BY <1>1, <1>2, <2>1, <2>4, <2>5, <2>6 DEF Reads, Called
    <2> QED BY <1>2, <2>7 DEF BrowserInv, AppliedFrom
  <1> QED BY <1>4, <1>5

LEMMA ApplyPolicyReads ==
    ASSUME PastInv, BrowserInv, ApplyPolicy
    PROVE  BrowserInv'
  <1>1. past' = past
    BY DEF ApplyPolicy, Resting
  <1>2. browser \in Browsers /\ browser.at = "apply"
    BY DEF ApplyPolicy, BrowserInv, Reads
  <1>3. browser'.at = "idle" /\ browser' \in Browsers
    BY <1>2 DEF ApplyPolicy, Browsers
  <1>4. /\ browser.revision \in 1 .. Len(past)
        /\ browser.list = Called(past[browser.revision], browser.active)
    BY <1>2 DEF BrowserInv, Reads
  <1>5. AppliedFrom(applied)'
    BY <1>1, <1>4 DEF ApplyPolicy, AppliedFrom
  <1> QED BY <1>1, <1>3, <1>5 DEF BrowserInv, Reads

LEMMA BrowserReads ==
    ASSUME PastInv, BrowserInv, active \in BOOLEAN, Browser \/ RefreshFails
    PROVE  BrowserInv' /\ past' = past
  <1>1. CASE RefreshFails
    <2>1. past' = past /\ applied' = applied /\ browser' = [browser EXCEPT !.at = "idle"]
      BY <1>1 DEF RefreshFails, Resting
    <2>2. browser'.at = "idle" /\ browser' \in Browsers
      BY <2>1 DEF BrowserInv, Reads, Browsers
    <2> QED BY <2>1, <2>2 DEF BrowserInv, Reads, AppliedFrom
  <1>2. CASE Browser
    BY <1>2, FetchPolicyReads, FetchPageReads, ApplyPolicyReads
       DEF Browser, FetchPolicy, FetchPage, ApplyPolicy, Resting
  <1> QED BY <1>1, <1>2

-----------------------------------------------------------------------------
(* The clients and what they have staged. *)

ImportKinds == {"list", "native", "rules"}
Staged == [owner : Clients, kind : ImportKinds, list : SUBSET Domains, old : BOOLEAN]
ClientState == [at : {"idle", "read", "begin", "chunk", "commit", "cancel"},
                kind : ImportKinds \cup {None}, list : SUBSET Domains, offset : Nat,
                token : Tokens \cup {None}]

\* The service has the pages that were sent, if what is staged is still the client's.
Sent(c, me, s) ==
    s # None /\ s.owner = c /\ s.kind = me.kind
        => s.list = IF me.at = "commit" THEN me.list ELSE UpTo(me.list, me.offset)

\* A client with an upload under way means its list.
Uploads(c, me, st, m) ==
    /\ me \in ClientState
    /\ me.at \in {"begin", "chunk", "commit"} => /\ me.kind \in ImportKinds
                                                 /\ me.kind # "rules" => me.list \in m
    /\ me.at = "begin" => me.offset = 0
    /\ me.at \in {"chunk", "commit"} => me.token \in Tokens /\ Sent(c, me, st[me.token])

StagedOK(st) == st \in [Tokens -> Staged \cup {None}]
UploadInv ==
    /\ StagedOK(staged) /\ client \in [Clients -> ClientState]
    /\ \A c \in Clients : Uploads(c, client[c], staged, meant)

\* The lists that were in force.
MeantInv == \A i \in 1 .. Len(past) : past[i].list \in meant \cup {{}}

\* What a step may do to what a client has staged, other than that client's.
Undisturbed(c, st, new) ==
    \A t \in Tokens : \/ new[t] = None
                      \/ new[t].owner # c
                      \/ /\ st[t] # None /\ st[t].owner = c
                         /\ st[t].kind = new[t].kind /\ st[t].list = new[t].list

LEMMA UndisturbedUploads ==
    ASSUME NEW c, NEW me, NEW st, NEW new, NEW m, NEW n,
           Uploads(c, me, st, m), Undisturbed(c, st, new), m \subseteq n
    PROVE  Uploads(c, me, new, n)
  <1>1. me.at \in {"chunk", "commit"} => me.token \in Tokens /\ Sent(c, me, new[me.token])
    <2> SUFFICES ASSUME me.at \in {"chunk", "commit"}
                 PROVE  me.token \in Tokens /\ Sent(c, me, new[me.token])
      OBVIOUS
    <2>1. me.token \in Tokens /\ Sent(c, me, st[me.token])
      BY DEF Uploads
    <2>2. \/ new[me.token] = None
          \/ new[me.token].owner # c
          \/ /\ st[me.token] # None /\ st[me.token].owner = c
             /\ st[me.token].kind = new[me.token].kind /\ st[me.token].list = new[me.token].list
      BY <2>1 DEF Undisturbed
    <2> QED BY <2>1, <2>2 DEF Sent
  <1> QED BY <1>1 DEF Uploads

\* A step of one client, which leaves the others' uploads alone.
LEMMA OneClient ==
    ASSUME UploadInv, NEW c \in Clients, NEW next, client' = [client EXCEPT ![c] = next],
           StagedOK(staged'), meant \subseteq meant',
           \A d \in Clients \ {c} : Undisturbed(d, staged, staged'),
           Uploads(c, next, staged', meant')
    PROVE  UploadInv'
  <1>1. client' \in [Clients -> ClientState]
    BY DEF UploadInv, Uploads
  <1>2. client'[c] = next /\ \A d \in Clients \ {c} : client'[d] = client[d]
    BY DEF UploadInv
  <1>3. ASSUME NEW d \in Clients
        PROVE  Uploads(d, client'[d], staged', meant')
    <2>1. CASE d = c
      BY <1>2, <2>1
    <2>2. CASE d # c
      <3>1. Uploads(d, client[d], staged, meant) /\ Undisturbed(d, staged, staged')
        BY <2>2 DEF UploadInv
      <3> QED BY <1>2, <2>2, <3>1, UndisturbedUploads
    <2> QED BY <2>1, <2>2
  <1> QED BY <1>1, <1>3 DEF UploadInv

\* A client that has nothing under way.
LEMMA NothingUnderWay ==
    ASSUME NEW c, NEW me \in ClientState, me.at \in {"idle", "read", "cancel"}, NEW st, NEW m
    PROVE  Uploads(c, me, st, m)
  BY DEF Uploads

LEMMA IdleIsState == Idle \in ClientState /\ Idle.at = "idle"
  BY DEF Idle, ClientState

LEMMA CancellingIsState ==
    ASSUME UploadInv, NEW c \in Clients
    PROVE  Cancelling(c) \in ClientState /\ Cancelling(c).at = "cancel"
  BY DEF UploadInv, Cancelling, ClientState

\* A step that only drops what was staged, all of it or some.
LEMMA Dropping ==
    ASSUME UploadInv, NEW st, StagedOK(st), \A t \in Tokens : st[t] = None \/ st[t] = staged[t],
           NEW c
    PROVE  Undisturbed(c, staged, st)
  BY DEF Undisturbed

LEMMA WithoutDrops ==
    ASSUME UploadInv, NEW c \in Clients
    PROVE  StagedOK(Without(c)) /\ \A t \in Tokens : Without(c)[t] = None \/ Without(c)[t] = staged[t]
  BY DEF UploadInv, StagedOK, Without

-----------------------------------------------------------------------------
(* Steps of a client. *)

LEMMA StartUploadKeeps ==
    ASSUME UploadInv, NEW c \in Clients, StartUpload(c)
    PROVE  UploadInv' /\ past' = past
  <1> DEFINE list(f, k) == [Idle EXCEPT !.at = "begin", !.kind = k, !.list = f]
             rules == [Idle EXCEPT !.at = "begin", !.kind = "rules"]
             read == [Idle EXCEPT !.at = "read", !.kind = "list"]
  <1>1. staged' = staged /\ past' = past
    BY DEF StartUpload
  <1>2. StagedOK(staged') /\ \A d : Undisturbed(d, staged, staged')
    BY <1>1, Dropping DEF UploadInv
  <1>3. ASSUME NEW f \in Files, NEW k \in {"list", "native"},
               Becomes(c, list(f, k)), meant' = meant \cup {f}
        PROVE  UploadInv'
    <2>1. list(f, k) \in ClientState /\ list(f, k).at = "begin" /\ list(f, k).kind = k
          /\ list(f, k).list = f /\ list(f, k).offset = 0
      BY ListAssumption DEF Idle, ClientState, ImportKinds
    <2>2. Uploads(c, list(f, k), staged', meant')
      BY <1>3, <2>1 DEF Uploads, ImportKinds
    <2> HIDE DEF list
    <2> QED BY <1>1, <1>2, <1>3, <2>2, OneClient DEF Becomes
  <1>4. CASE Becomes(c, rules) /\ meant' = meant
    <2>1. rules \in ClientState /\ rules.at = "begin" /\ rules.kind = "rules" /\ rules.offset = 0
      BY DEF Idle, ClientState, ImportKinds
    <2>2. Uploads(c, rules, staged', meant')
      BY <2>1 DEF Uploads, ImportKinds
    <2> HIDE DEF rules
    <2> QED BY <1>1, <1>2, <1>4, <2>2, OneClient DEF Becomes
  <1>5. CASE Becomes(c, read) /\ meant' = meant
    <2>1. read \in ClientState /\ read.at = "read"
      BY DEF Idle, ClientState, ImportKinds
    <2>2. Uploads(c, read, staged', meant')
      BY <2>1, NothingUnderWay
    <2> HIDE DEF read
    <2> QED BY <1>1, <1>2, <1>5, <2>2, OneClient DEF Becomes
  <1>6. \/ \E f \in Files, k \in {"list", "native"} : Becomes(c, list(f, k)) /\ meant' = meant \cup {f}
        \/ Becomes(c, rules) /\ meant' = meant
        \/ Becomes(c, read) /\ meant' = meant
    BY DEF StartUpload
  <1> QED BY <1>1, <1>3, <1>4, <1>5, <1>6

\* A client that goes to rest or cancels, while the service drops some of what it has.
LEMMA Quits ==
    ASSUME UploadInv, NEW c \in Clients, NEW next,
           next = Idle \/ next = Cancelling(c), Becomes(c, next), meant' = meant,
           staged' = staged \/ staged' = Without(c)
    PROVE  UploadInv'
  <1>1. next \in ClientState /\ next.at \in {"idle", "cancel"}
    BY IdleIsState, CancellingIsState
  <1>2. StagedOK(staged') /\ \A t \in Tokens : staged'[t] = None \/ staged'[t] = staged[t]
    BY WithoutDrops DEF UploadInv
  <1>3. \A d \in Clients : Undisturbed(d, staged, staged')
    BY <1>2, Dropping
  <1>4. Uploads(c, next, staged', meant')
    BY <1>1, NothingUnderWay
  <1> QED BY <1>2, <1>3, <1>4, OneClient DEF Becomes

LEMMA ReadPageKeeps ==
    ASSUME PastInv, UploadInv, NEW c \in Clients, ReadPage(c)
    PROVE  UploadInv' /\ past' = past /\ meant \subseteq meant'
  <1> DEFINE me == client[c]
             read == me.list \cup Page(policy.list, me.offset)
             next == [me EXCEPT !.list = read, !.offset = @ + PageSize]
             edited(new) == [Idle EXCEPT !.at = "begin", !.kind = "list", !.list = new]
  <1>1. staged' = staged /\ past' = past
    BY DEF ReadPage
  <1>2. StagedOK(staged') /\ \A d : Undisturbed(d, staged, staged')
    BY <1>1, Dropping DEF UploadInv
  <1>3. me \in ClientState /\ me.at = "read" /\ me.offset + PageSize \in Nat
    <2>1. me \in ClientState /\ me.at = "read"
      BY DEF UploadInv, ReadPage
    <2> QED BY <2>1, ListAssumption DEF ClientState
  <1>4. read \in SUBSET Domains
    BY <1>3, PolicyInForce DEF Policy, Page, ClientState
  <1>5. CASE Becomes(c, Idle) /\ meant' = meant
    BY <1>1, <1>5, Quits
  <1>6. CASE Becomes(c, next) /\ meant' = meant
    <2>1. next \in ClientState /\ next.at = "read"
      BY <1>3, <1>4 DEF ClientState
    <2>2. Uploads(c, next, staged', meant')
      BY <2>1, NothingUnderWay
    <2> HIDE DEF next
    <2> QED BY <1>1, <1>2, <1>6, <2>2, OneClient DEF Becomes
  <1>7. ASSUME NEW new \in SUBSET Domains, Becomes(c, edited(new)), meant' = meant \cup {new}
        PROVE  UploadInv' /\ meant \subseteq meant'
    <2>1. edited(new) \in ClientState /\ edited(new).at = "begin" /\ edited(new).kind = "list"
          /\ edited(new).list = new /\ edited(new).offset = 0
      BY DEF Idle, ClientState, ImportKinds
    <2>2. Uploads(c, edited(new), staged', meant')
      BY <1>7, <2>1 DEF Uploads, ImportKinds
    <2> HIDE DEF edited
    <2> QED BY <1>1, <1>2, <1>7, <2>2, OneClient DEF Becomes
  <1>8. \/ Becomes(c, Idle) /\ meant' = meant
        \/ Becomes(c, next) /\ meant' = meant
        \/ \E new \in SUBSET Domains : Becomes(c, edited(new)) /\ meant' = meant \cup {new}
    <2>1. ASSUME NEW d \in Domains
          PROVE  (IF d \in read THEN read \ {d} ELSE read \cup {d}) \in SUBSET Domains
      BY <1>4
    <2> HIDE DEF read
    <2> QED BY <2>1 DEF ReadPage, read
  <1> QED BY <1>1, <1>5, <1>6, <1>7, <1>8

LEMMA NewTokenIsFree ==
    ASSUME UploadInv, ~(Cardinality(StagedTokens) >= MaxStaged)
    PROVE  NewToken \in Tokens /\ staged[NewToken] = None
  <1>1. Cardinality(Tokens) \in Nat
    BY ListAssumption, FS_CardinalityType
  <1>2. StagedTokens # Tokens
    BY <1>1, ListAssumption
  <1>3. \E t \in Tokens : t \notin StagedTokens
    BY <1>2 DEF StagedTokens
  <1>4. NewToken \in Tokens /\ NewToken \notin StagedTokens
    BY <1>3 DEF NewToken
  <1> QED BY <1>4 DEF StagedTokens

LEMMA BeginKeeps ==
    ASSUME UploadInv, NEW c \in Clients, Begin(c)
    PROVE  UploadInv' /\ past' = past /\ meant' = meant
  <1> DEFINE me == client[c]
             t == NewToken
             new == [owner |-> c, kind |-> me.kind, list |-> {}, old |-> FALSE]
             next == [me EXCEPT !.at = "chunk", !.token = t]
  <1>1. past' = past /\ meant' = meant
    BY DEF Begin
  <1>2. CASE Cardinality(StagedTokens) >= MaxStaged
    BY <1>1, <1>2, Quits DEF Begin
  <1>3. CASE ~(Cardinality(StagedTokens) >= MaxStaged)
    <2>1. t \in Tokens /\ staged[t] = None
      BY <1>3, NewTokenIsFree
    <2> HIDE DEF t
    <2>2. me \in ClientState /\ me.at = "begin" /\ Uploads(c, me, staged, meant)
      BY DEF UploadInv, Begin
    <2>3. me.kind \in ImportKinds /\ me.list \in SUBSET Domains /\ me.offset = 0
          /\ (me.kind # "rules" => me.list \in meant)
      BY <2>2 DEF Uploads, ClientState
    <2>4. staged' = [staged EXCEPT ![t] = new] /\ (Becomes(c, next) \/ Becomes(c, Idle))
      BY <1>3 DEF Begin, Answered, t
    <2>5. new \in Staged
      BY <2>3 DEF Staged
    <2>6. StagedOK(staged') /\ staged'[t] = new /\ \A u \in Tokens \ {t} : staged'[u] = staged[u]
      BY <2>1, <2>4, <2>5 DEF UploadInv, StagedOK
    <2>7. ASSUME NEW d \in Clients \ {c}
          PROVE  Undisturbed(d, staged, staged')
      BY <2>6 DEF Undisturbed
    <2>8. CASE Becomes(c, next)
      <3>1. /\ next \in ClientState /\ next.at = "chunk" /\ next.token = t
            /\ next.kind = me.kind /\ next.list = me.list /\ next.offset = 0
        BY <2>1, <2>2, <2>3 DEF ClientState
      <3>2. new.list = UpTo(next.list, next.offset)
        BY <2>3, <3>1, NothingUpToZero
      <3>3. Sent(c, next, staged'[next.token])
        BY <2>6, <3>1, <3>2 DEF Sent
      <3>4. Uploads(c, next, staged', meant')
        BY <1>1, <2>1, <2>3, <3>1, <3>3 DEF Uploads
      <3> HIDE DEF next
      <3> QED BY <1>1, <2>6, <2>7, <2>8, <3>4, OneClient DEF Becomes
    <2>9. CASE Becomes(c, Idle)
      <3>1. Uploads(c, Idle, staged', meant')
        BY IdleIsState, NothingUnderWay
      <3> QED BY <1>1, <2>6, <2>7, <2>9, <3>1, OneClient DEF Becomes
    <2> QED BY <1>1, <2>4, <2>8, <2>9
  <1> QED BY <1>2, <1>3, <1>1

\* What is staged for the client, as it uses it.
LEMMA StageIsSent ==
    ASSUME UploadInv, NEW c \in Clients, client[c].at \in {"chunk", "commit"}, Stage(c) # None
    PROVE  LET me == client[c] IN
           /\ me.token \in Tokens /\ Stage(c) = staged[me.token]
           /\ Stage(c) \in Staged /\ Stage(c).owner = c /\ Stage(c).kind = me.kind
           /\ Stage(c).list = IF me.at = "commit" THEN me.list ELSE UpTo(me.list, me.offset)
  <1> DEFINE me == client[c]
             s == staged[me.token]
  <1>1. me.token \in Tokens /\ Sent(c, me, s)
    BY DEF UploadInv, Uploads
  <1>2. s # None /\ s.owner = c /\ s.kind = me.kind /\ Stage(c) = s
    BY DEF Stage
  <1>3. s \in Staged
    BY <1>1, <1>2 DEF UploadInv, StagedOK
  <1> QED BY <1>1, <1>2, <1>3 DEF Sent

LEMMA SendChunkKeeps ==
    ASSUME UploadInv, NEW c \in Clients, SendChunk(c)
    PROVE  UploadInv' /\ past' = past /\ meant' = meant
  <1> DEFINE me == client[c]
             t == me.token
             page == Page(me.list, me.offset)
             commit == [me EXCEPT !.at = "commit"]
             further == [me EXCEPT !.offset = @ + PageSize]
  <1>1. past' = past /\ meant' = meant /\ me.at = "chunk"
    BY DEF SendChunk
  <1>2. CASE Stage(c) = None
    BY <1>1, <1>2, Quits DEF SendChunk
  <1>3. CASE Stage(c) # None
    <2>1. /\ t \in Tokens /\ staged[t] \in Staged /\ staged[t].owner = c /\ staged[t].kind = me.kind
          /\ staged[t].list = UpTo(me.list, me.offset)
      BY <1>1, <1>3, StageIsSent
    <2>2. me \in ClientState /\ Uploads(c, me, staged, meant)
      BY DEF UploadInv
    <2>3. /\ me.kind \in ImportKinds /\ me.list \in SUBSET Domains /\ me.offset \in Nat
          /\ (me.kind # "rules" => me.list \in meant) /\ me.offset + PageSize \in Nat
      BY <1>1, <2>2, ListAssumption DEF Uploads, ClientState
    <2>4. page \in SUBSET Domains
      BY <2>3 DEF Page
    <2>5. staged' = [staged EXCEPT ![t].list = @ \cup page]
      BY <1>3 DEF SendChunk
    <2> HIDE DEF page
    <2>6. /\ staged'[t].owner = c /\ staged'[t].kind = me.kind /\ staged'[t] \in Staged
          /\ staged'[t].list = UpTo(me.list, me.offset) \cup page
          /\ \A u \in Tokens \ {t} : staged'[u] = staged[u]
          /\ StagedOK(staged')
      <3>1. [staged[t] EXCEPT !.list = @ \cup page] \in Staged
        BY <2>1, <2>4 DEF Staged
      <3> QED BY <2>1, <2>5, <3>1 DEF UploadInv, StagedOK, Staged
    <2>7. ASSUME NEW d \in Clients \ {c}
          PROVE  Undisturbed(d, staged, staged')
      <3>1. ASSUME NEW u \in Tokens
            PROVE  \/ staged'[u] = None
                   \/ staged'[u].owner # d
                   \/ /\ staged[u] # None /\ staged[u].owner = d
                      /\ staged[u].kind = staged'[u].kind /\ staged[u].list = staged'[u].list
        BY <2>6
      <3> QED BY <3>1 DEF Undisturbed
    <2>8. ASSUME NEW next, Becomes(c, next), Uploads(c, next, staged', meant')
          PROVE  UploadInv'
      BY <1>1, <2>6, <2>7, <2>8, OneClient DEF Becomes
    <2>9. CASE Finished(me.list, me.offset) /\ Becomes(c, commit)
      <3>1. /\ commit \in ClientState /\ commit.at = "commit" /\ commit.token = t
            /\ commit.kind = me.kind /\ commit.list = me.list
        BY <2>2 DEF ClientState
      <3>2. staged'[t].list = me.list
        BY <2>3, <2>6, <2>9, PageCompletes DEF page
      <3>3. Uploads(c, commit, staged', meant')
        BY <1>1, <2>1, <2>3, <3>1, <3>2 DEF Uploads, Sent
      <3> QED BY <1>1, <2>8, <2>9, <3>3
    <2>10. CASE Becomes(c, further)
      <3>1. /\ further \in ClientState /\ further.at = "chunk" /\ further.token = t
            /\ further.kind = me.kind /\ further.list = me.list /\ further.offset = me.offset + PageSize
        BY <1>1, <2>2, <2>3 DEF ClientState
      <3>2. staged'[t].list = UpTo(further.list, further.offset)
        BY <2>3, <2>6, <3>1, PageExtends DEF page
      <3>3. Uploads(c, further, staged', meant')
        BY <1>1, <2>1, <2>3, <3>1, <3>2 DEF Uploads, Sent
      <3> QED BY <1>1, <2>8, <2>10, <3>3
    <2>11. CASE Becomes(c, Cancelling(c))
      <3>1. Uploads(c, Cancelling(c), staged', meant')
        BY CancellingIsState, NothingUnderWay
      <3> QED BY <1>1, <2>8, <2>11, <3>1
    <2>12. \/ Finished(me.list, me.offset) /\ Becomes(c, commit)
           \/ Becomes(c, further)
           \/ Becomes(c, Cancelling(c))
      BY <1>3 DEF SendChunk, Answered, NextCall
    <2> QED BY <1>1, <2>9, <2>10, <2>11, <2>12
  <1> QED BY <1>2, <1>3

\* A commit saves what is in force, or the list that its client meant.
LEMMA CommittedIsMeant ==
    ASSUME PastInv, MeantInv, UploadInv, NEW c \in Clients, client[c].at = "commit", Stage(c) # None
    PROVE  Committed(Stage(c)) \in Policy /\ Committed(Stage(c)).list \in meant \cup {{}}
  <1> DEFINE s == Stage(c)
  <1>1. s \in Staged /\ s.kind = client[c].kind /\ s.list = client[c].list
    BY StageIsSent
  <1>2. client[c].kind # "rules" => client[c].list \in meant
    BY DEF UploadInv, Uploads
  <1>3. policy \in Policy /\ policy.list \in meant \cup {{}}
    BY PolicyInForce DEF MeantInv
  <1> HIDE DEF s
  <1> QED BY <1>1, <1>2, <1>3 DEF Committed, Policy, Staged, s

LEMMA MeantGrows ==
    ASSUME PastInv, MeantInv, NEW p \in Policy, p.list \in meant \cup {{}},
           past' = Append(past, p), meant' = meant
    PROVE  MeantInv' /\ Grows
  <1>1. Grows
    BY DEF Grows
  <1>2. Len(past') = Len(past) + 1 /\ past'[Len(past')] = p
        /\ \A i \in 1 .. Len(past) : past'[i] = past[i]
    BY AppendProperties DEF PastInv
  <1>3. Len(past) \in Nat
    BY DEF PastInv
  <1> QED BY <1>1, <1>2, <1>3 DEF MeantInv

LEMMA MeantKept ==
    ASSUME MeantInv, past' = past, meant \subseteq meant'
    PROVE  MeantInv' /\ Grows
  BY DEF MeantInv, Grows

LEMMA CommitKeeps ==
    ASSUME PastInv, MeantInv, UploadInv, NEW c \in Clients, Commit(c)
    PROVE  UploadInv' /\ MeantInv' /\ Grows
  <1> DEFINE next == Committed(Stage(c))
  <1>1. meant' = meant /\ client[c].at = "commit"
    BY DEF Commit
  <1>2. /\ staged' = staged \/ staged' = Without(c)
        /\ Becomes(c, Idle) \/ Becomes(c, Cancelling(c))
    BY DEF Commit, Answered
  <1>3. UploadInv'
    BY <1>1, <1>2, Quits
  <1>4. CASE past' = past
    BY <1>1, <1>3, <1>4, MeantKept
  <1>5. CASE Stage(c) # None /\ past' = Append(past, next)
    BY <1>1, <1>3, <1>5, CommittedIsMeant, MeantGrows
  <1>6. past' = past \/ (Stage(c) # None /\ past' = Append(past, next))
    BY DEF Commit
  <1> QED BY <1>4, <1>5, <1>6

LEMMA CancelAndAbandonKeep ==
    ASSUME UploadInv, NEW c \in Clients, Cancel(c) \/ Abandon(c)
    PROVE  UploadInv' /\ past' = past /\ meant' = meant
  <1>1. /\ staged' = staged \/ staged' = Without(c)
        /\ Becomes(c, Idle) \/ Becomes(c, Cancelling(c))
        /\ past' = past /\ meant' = meant
    BY DEF Cancel, Abandon
  <1> QED BY <1>1, Quits

-----------------------------------------------------------------------------
(* Steps of the service. *)

\* No client moves, and what is staged stays or goes.
LEMMA ServiceDrops ==
    ASSUME UploadInv, client' = client, meant' = meant, StagedOK(staged'),
           \A t \in Tokens : \/ staged'[t] = None
                             \/ /\ staged[t] # None /\ staged'[t].owner = staged[t].owner
                                /\ staged'[t].kind = staged[t].kind /\ staged'[t].list = staged[t].list
    PROVE  UploadInv'
  <1>1. ASSUME NEW c \in Clients
        PROVE  Undisturbed(c, staged, staged')
    BY DEF Undisturbed
  <1>2. ASSUME NEW c \in Clients
        PROVE  Uploads(c, client'[c], staged', meant')
    <2>1. Uploads(c, client[c], staged, meant)
      BY DEF UploadInv
    <2> QED BY <1>1, <2>1, UndisturbedUploads
  <1> QED BY <1>2 DEF UploadInv

LEMMA ServiceKeeps ==
    ASSUME PastInv, MeantInv, UploadInv, Age \/ Expire \/ Restart \/ EditPolicy
    PROVE  UploadInv' /\ MeantInv' /\ Grows
  <1>1. CASE Age
    <2>1. /\ client' = client /\ meant' = meant /\ past' = past
          /\ staged' = [t \in Tokens |-> IF staged[t] = None THEN None
                                         ELSE [staged[t] EXCEPT !.old = TRUE]]
      BY <1>1 DEF Age
    <2>2. ASSUME NEW t \in Tokens, staged[t] # None
          PROVE  /\ [staged[t] EXCEPT !.old = TRUE] \in Staged
                 /\ [staged[t] EXCEPT !.old = TRUE].owner = staged[t].owner
                 /\ [staged[t] EXCEPT !.old = TRUE].kind = staged[t].kind
                 /\ [staged[t] EXCEPT !.old = TRUE].list = staged[t].list
      <3>1. staged[t] \in Staged
        BY <2>2 DEF UploadInv, StagedOK
      <3> QED BY <3>1 DEF Staged
    <2>3. StagedOK(staged')
      BY <2>1, <2>2 DEF StagedOK
    <2>4. ASSUME NEW t \in Tokens
          PROVE  \/ staged'[t] = None
                 \/ /\ staged[t] # None /\ staged'[t].owner = staged[t].owner
                    /\ staged'[t].kind = staged[t].kind /\ staged'[t].list = staged[t].list
      BY <2>1, <2>2
    <2> QED BY <2>1, <2>3, <2>4, ServiceDrops, MeantKept
  <1>2. CASE Expire \/ Restart
    <2>1. client' = client /\ meant' = meant /\ past' = past
      BY <1>2 DEF Expire, Restart
    <2>2. StagedOK(staged') /\ \A t \in Tokens : staged'[t] = None \/ (staged[t] # None /\ staged'[t] = staged[t])
      BY <1>2 DEF Expire, Restart, UploadInv, StagedOK
    <2> QED BY <2>1, <2>2, ServiceDrops, MeantKept
  <1>3. CASE EditPolicy
    <2>1. client' = client /\ meant' = meant /\ staged' = staged
      BY <1>3 DEF EditPolicy
    <2>2. UploadInv'
      BY <2>1 DEF UploadInv
    <2>3. policy \in Policy /\ policy.list \in meant \cup {{}}
      BY PolicyInForce DEF MeantInv
    <2>4. past' = past \/ \E p \in Policy : p.list \in meant \cup {{}} /\ past' = Append(past, p)
      BY <1>3, <2>3 DEF EditPolicy, Saved, Policy
    <2> QED BY <2>1, <2>2, <2>4, MeantKept, MeantGrows
  <1> QED BY <1>1, <1>2, <1>3

-----------------------------------------------------------------------------
(* All steps. *)

DesktopInv == PastInv /\ BrowserInv /\ MeantInv /\ UploadInv /\ active \in BOOLEAN

LEMMA InitHolds ==
    ASSUME Init
    PROVE  DesktopInv
  <1>1. PICK f \in Files : past = <<[list |-> f, uses |-> TRUE]>>
    BY DEF Init, ListInit
  <1>2. f \in SUBSET Domains /\ [list |-> f, uses |-> TRUE] \in Policy
    BY ListAssumption DEF Policy
  <1>3. PastInv /\ Len(past) = 1 /\ past[1].list = f
    BY <1>1, <1>2 DEF PastInv
  <1>4. policy.list = f
    BY <1>3 DEF policy, Last
  <1>5. MeantInv
    BY <1>3, <1>4 DEF MeantInv, Init, ListInit
  <1>6. BrowserInv
    BY DEF BrowserInv, Reads, AppliedFrom, Browsers, Init, ListInit
  <1>7. UploadInv
    <2>1. client = [c \in Clients |-> Idle] /\ staged = [t \in Tokens |-> None]
      BY DEF Init, ListInit
    <2>2. \A c \in Clients : Uploads(c, client[c], staged, meant)
      BY <2>1, IdleIsState, NothingUnderWay
    <2> QED BY <2>1, <2>2, IdleIsState DEF UploadInv, StagedOK
  <1> QED BY <1>3, <1>5, <1>6, <1>7 DEF DesktopInv, Init, ListInit

\* A step that leaves the clients, what is staged and the policies as they are.
LEMMA UploadsUnchanged ==
    ASSUME UploadInv, MeantInv, UNCHANGED <<past, staged, client, meant>>
    PROVE  UploadInv' /\ MeantInv' /\ Grows
  BY MeantKept DEF UploadInv

LEMMA ClientStepKeeps ==
    ASSUME DesktopInv, NEW c \in Clients, StartUpload(c) \/ Client(c) \/ Abandon(c)
    PROVE  DesktopInv'
  <1>1. PastInv /\ BrowserInv /\ MeantInv /\ UploadInv
    BY DEF DesktopInv
  <1>2. UNCHANGED <<active, browserVars>>
    BY DEF StartUpload, Client, Abandon, ReadPage, Begin, SendChunk, Commit, Cancel, Rest
  <1>3. UploadInv' /\ MeantInv' /\ Grows
    <2>1. CASE StartUpload(c)
      <3>1. meant \subseteq meant'
        BY <2>1 DEF StartUpload
      <3> QED BY <1>1, <2>1, <3>1, StartUploadKeeps, MeantKept
    <2>2. CASE Commit(c)
      BY <1>1, <2>2, CommitKeeps
    <2>3. CASE ReadPage(c)
      BY <1>1, <2>3, ReadPageKeeps, MeantKept
    <2>4. CASE Begin(c) \/ SendChunk(c) \/ Cancel(c) \/ Abandon(c)
      BY <1>1, <2>4, BeginKeeps, SendChunkKeeps, CancelAndAbandonKeep, MeantKept
    <2> QED BY <2>1, <2>2, <2>3, <2>4 DEF Client
  <1>4. PastInv' /\ BrowserInv'
    BY <1>1, <1>2, <1>3, PastGrows, GrowthKeepsBrowser
  <1> QED BY <1>2, <1>3, <1>4 DEF DesktopInv

LEMMA ServiceStepKeeps ==
    ASSUME DesktopInv, Age \/ Expire \/ Restart \/ EditPolicy
    PROVE  DesktopInv'
  <1>1. UploadInv' /\ MeantInv' /\ Grows
    BY ServiceKeeps DEF DesktopInv
  <1>2. UNCHANGED browserVars /\ active' \in BOOLEAN
    BY DEF DesktopInv, Age, Expire, Restart, EditPolicy
  <1> QED BY <1>1, <1>2, PastGrows, GrowthKeepsBrowser DEF DesktopInv

LEMMA BrowserStepKeeps ==
    ASSUME DesktopInv, Browser \/ RefreshFails
    PROVE  DesktopInv'
  <1>1. BrowserInv' /\ past' = past
    BY BrowserReads DEF DesktopInv
  <1>2. UNCHANGED <<past, staged, client, meant, active>>
    BY <1>1 DEF Browser, FetchPolicy, FetchPage, ApplyPolicy, RefreshFails, Resting
  <1>3. UploadInv' /\ MeantInv'
    BY <1>2, UploadsUnchanged DEF DesktopInv
  <1> QED BY <1>1, <1>2, <1>3 DEF DesktopInv, PastInv

\* The window reads and changes nothing.
LEMMA WindowKeeps ==
    ASSUME DesktopInv, UNCHANGED <<past, active, staged, client, meant, browser, applied>>
    PROVE  DesktopInv'
  <1>1. UploadInv' /\ MeantInv'
    BY UploadsUnchanged DEF DesktopInv
  <1>2. BrowserInv' /\ PastInv' /\ active' \in BOOLEAN
    BY DEF DesktopInv, BrowserInv, Reads, AppliedFrom, PastInv
  <1> QED BY <1>1, <1>2 DEF DesktopInv

LEMMA DesktopInvHolds == Spec => []DesktopInv
  <1>1. Init => DesktopInv
    BY InitHolds
  <1>2. DesktopInv /\ [Next]_vars => DesktopInv'
    <2> SUFFICES ASSUME DesktopInv, [Next]_vars
                 PROVE  DesktopInv'
      OBVIOUS
    <2>1. CASE Service
      BY <2>1, ClientStepKeeps, ServiceStepKeeps DEF Service
    <2>2. CASE Browser \/ RefreshFails
      BY <2>2, BrowserStepKeeps
    <2>3. CASE DesktopSteps \/ ReadFails
      BY <2>3, WindowKeeps
         DEF DesktopSteps, StartRefresh, ReadStatus, ReadRules, ReadLists, ShowSnapshot, ShowError,
             ReadFails, Served, listVars, browserVars
    <2>4. CASE UNCHANGED vars
      BY <2>4, WindowKeeps DEF vars
    <2> QED BY <2>1, <2>2, <2>3, <2>4 DEF Next, OfBrowser, OfWindow, Failures
  <1> QED BY <1>1, <1>2, PTL DEF Spec

-----------------------------------------------------------------------------

\* What the browser applied is what one saved policy says, with the whole list
\* and without the domains its rule excludes, however the policy was edited,
\* replaced or deleted between two pages.  (expand_managed_lists)
THEOREM AppliedIsOnePolicyAlways == Spec => []AppliedIsOnePolicy
  <1>1. DesktopInv => AppliedIsOnePolicy
    <2> SUFFICES ASSUME DesktopInv, applied # None
                 PROVE  LET of == past[applied.revision] IN
                        applied.blocked = IF of.uses /\ applied.active THEN of.list \ Excluded ELSE {}
      BY DEF AppliedIsOnePolicy
    <2>1. applied.blocked = Called(past[applied.revision], applied.active) \ Excluded
      BY DEF DesktopInv, BrowserInv, AppliedFrom
    <2> QED BY <2>1 DEF Called
  <1> QED BY <1>1, DesktopInvHolds, PTL

\* A list in force is one that a client meant, in full: no answer that is lost, no
\* expiry, no restart and no other client's upload leaves a part of it in the
\* policy.  (The handlers of staged imports and their callers.)
THEOREM UploadsAreWholeAlways == Spec => []UploadsAreWhole
  <1>1. DesktopInv => UploadsAreWhole
    BY DEF DesktopInv, PastInv, MeantInv, UploadsAreWhole
  <1> QED BY <1>1, DesktopInvHolds, PTL
=============================================================================
