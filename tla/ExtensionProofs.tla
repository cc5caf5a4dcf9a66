-------------------------- MODULE ExtensionProofs --------------------------
(***************************************************************************)
(* Proofs about the browser extension.  Allowance, with the service that   *)
(* hands out the leases: a report that may be dropped is saved, no second  *)
(* of a browser is reported twice, and no browser spends more than a whole *)
(* budget and the cap of a day, for any browsers, allowances, leases and   *)
(* faults.  ChromiumAdapter: the matchers and the session rules, for any   *)
(* rules and policies.                                                     *)
(***************************************************************************)
EXTENDS Allowance, ChromiumAdapter, FiniteSetTheorems, TLAPS

Elems(q) == {q[i] : i \in DOMAIN q}

\* All rows there are of a browser: accepted, waiting, and in its storage.
Rows(b, x, k, L) == {r \in L : r.by = b} \cup Elems(x.pending) \cup Elems(k)

Apart(r, s) == r = s \/ r.to <= s.from \/ s.to <= r.from

\* What holds of the tracker x and the storage k of browser b, with ledger L, at t.
Sound(b, x, k, L, t) ==
    /\ x \in Tracker /\ k \in Seq(Row)
    /\ x.lease # None => x.lease.by = b
    /\ x.call.lease # None => x.call.lease.by = b
    /\ x.call.kind = "report" => x.pending # <<>>
    /\ x.call.kind = "report" /\ x.call.answer = "ok" => Head(x.pending) \in L
    /\ \A r \in Rows(b, x, k, L) :
          r \in Row /\ r.by = b /\ r.to <= t /\ (x.last # None => r.to <= x.last)
    /\ \A r, s \in Rows(b, x, k, L) : Apart(r, s)

\* The inductive invariant.
AllowanceInv ==
    /\ TypeOK
    /\ ledger = stored
    /\ \A b \in Browsers : Sound(b, tracker[b], kept[b], ledger, now)

-----------------------------------------------------------------------------
(* Queues. *)

LEMMA TailElems ==
    ASSUME NEW S, NEW q \in Seq(S), q # <<>>
    PROVE  Tail(q) \in Seq(S) /\ Elems(Tail(q)) \subseteq Elems(q) /\ Head(q) \in Elems(q)
BY DEF Elems

LEMMA AppendElems ==
    ASSUME NEW S, NEW q \in Seq(S), NEW e \in S
    PROVE  /\ Append(q, e) \in Seq(S) /\ Append(q, e) # <<>>
           /\ Elems(Append(q, e)) = Elems(q) \cup {e}
           /\ q # <<>> => Head(Append(q, e)) = Head(q)
<1>1. DOMAIN Append(q, e) = 1 .. Len(q) + 1 /\ DOMAIN q = 1 .. Len(q) /\ Len(q) \in Nat
  OBVIOUS
<1>2. \A i \in 1 .. Len(q) : Append(q, e)[i] = q[i]
  OBVIOUS
<1>3. Append(q, e)[Len(q) + 1] = e
  OBVIOUS
<1>4. Elems(Append(q, e)) = Elems(q) \cup {e}
  BY <1>1, <1>2, <1>3 DEF Elems
<1>5. Append(q, e) \in Seq(S) /\ Append(q, e) # <<>>
  <2>1. Append(q, e) \in Seq(S) /\ Len(Append(q, e)) = Len(q) + 1
    OBVIOUS
  <2>2. Len(<<>>) = 0
    OBVIOUS
  <2>3. QED BY <2>1, <2>2, <1>1
<1>6. ASSUME q # <<>> PROVE Head(Append(q, e)) = Head(q)
  <2>1. Len(q) >= 1
    BY <1>6
  <2>2. Append(q, e)[1] = q[1]
    BY <2>1, <1>2
  <2>3. Head(q) = q[1] /\ Head(Append(q, e)) = Append(q, e)[1]
    BY <1>5, <1>6
  <2>4. QED BY <2>2, <2>3
<1>7. QED BY <1>4, <1>5, <1>6

-----------------------------------------------------------------------------
(* What the functions of the tracker preserve. *)

\* Rows that are sound stay so when the tracker keeps them and its last heartbeat
\* does not go back.
LEMMA FewerRows ==
    ASSUME NEW b, NEW x, NEW k, NEW L, NEW t, Sound(b, x, k, L, t),
           NEW y \in Tracker, NEW m \in Seq(Row),
           Elems(y.pending) \subseteq Elems(x.pending) \cup Elems(k),
           Elems(m) \subseteq Elems(x.pending) \cup Elems(k),
           y.last = x.last \/ y.last = None
    PROVE  /\ \A r \in Rows(b, y, m, L) :
                r \in Row /\ r.by = b /\ r.to <= t /\ (y.last # None => r.to <= y.last)
           /\ \A r, s \in Rows(b, y, m, L) : Apart(r, s)
<1>1. Rows(b, y, m, L) \subseteq Rows(b, x, k, L)
  BY DEF Rows
<1>2. QED BY <1>1 DEF Sound

LEMMA PumpedSound ==
    ASSUME NEW b, NEW x, NEW k, NEW L, NEW t, 
           Sound(b, [x EXCEPT !.call = Idle], k, L, t), x \in Tracker
    PROVE  Sound(b, Pumped(x), k, L, t)
<1> DEFINE y == [x EXCEPT !.call = Idle]
           z == Pumped(x)
<1>1. /\ z \in Tracker /\ z.lease = x.lease /\ z.last = x.last /\ z.pending = x.pending
      /\ z.call.lease = None /\ z.call.answer = "none"
      /\ z.call.kind = "report" => x.pending # <<>>
  BY DEF Pumped, Tracker, Call, Answers, SendReport, SendRequest, Idle
<1>2. y \in Tracker /\ y.lease = x.lease /\ y.last = x.last /\ y.pending = x.pending
  BY DEF Tracker, Call, Answers, Idle
<1>3. Rows(b, z, k, L) = Rows(b, y, k, L)
  BY <1>1, <1>2 DEF Rows
<1>4. QED BY <1>1, <1>2, <1>3 DEF Sound

\* Not being busy is always sound.
LEMMA IdleSound ==
    ASSUME NEW b, NEW x, NEW k, NEW L, NEW t, Sound(b, x, k, L, t)
    PROVE  Sound(b, [x EXCEPT !.call = Idle], k, L, t)
<1> DEFINE y == [x EXCEPT !.call = Idle]
<1>1. /\ y \in Tracker /\ y.lease = x.lease /\ y.last = x.last /\ y.pending = x.pending
      /\ y.call = Idle
  BY DEF Sound, Tracker, Call, Answers, Idle
<1>2. Rows(b, y, k, L) = Rows(b, x, k, L)
  BY <1>1 DEF Rows
<1>3. Idle.kind = "idle" /\ Idle.lease = None
  BY DEF Idle
<1>4. QED BY <1>1, <1>2, <1>3 DEF Sound

LEMMA TouchedSound ==
    ASSUME NEW b, NEW x, NEW k, NEW L, NEW t, Sound(b, x, k, L, t)
    PROVE  Sound(b, Touched(x), k, L, t)
<1>1. x \in Tracker
  BY DEF Sound
<1>2. Sound(b, [x EXCEPT !.call = Idle], k, L, t)
  BY IdleSound
<1>3. Sound(b, Pumped(x), k, L, t)
  BY <1>1, <1>2, PumpedSound
<1>4. QED BY <1>3 DEF Touched

LEMMA CountedSound ==
    ASSUME NEW b, NEW x, NEW k, NEW L, NEW t \in Nat, Sound(b, x, k, L, t),
           x.last # None, x.lease # None
    PROVE  /\ Counted(x, t) \in Row /\ Counted(x, t).by = b
           /\ Counted(x, t).from >= x.last /\ Counted(x, t).to <= t
<1>1. x.last \in Nat /\ x.lease \in Lease /\ x.lease.by = b
  BY DEF Sound, Tracker
<1>2. QED BY <1>1 DEF Counted, Row, Lease, Later, Least

\* A heartbeat: the new report lies after all that the tracker reported before.
LEMMA AdvancedSound ==
    ASSUME NEW b, NEW x, NEW k, NEW L, NEW t \in Nat, Sound(b, x, k, L, t)
    PROVE  Sound(b, Advanced(x, t), k, L, t)
<1> DEFINE r == Counted(x, t)
           y == Advanced(x, t)
<1>a. x \in Tracker /\ x.pending \in Seq(Row)
  BY DEF Sound, Tracker
<1>1. ASSUME y.pending = x.pending, y.last = t, y \in Tracker, y.call = x.call,
             y.lease # None => y.lease = x.lease
      PROVE  Sound(b, y, k, L, t)
  <2>1. Rows(b, y, k, L) = Rows(b, x, k, L)
    BY <1>1 DEF Rows
  <2>2. QED BY <1>1, <2>1 DEF Sound
<1>2. CASE x.last = None \/ t - x.last > Gap \/ ~x.viewing \/ x.lease = None
  <2>1. y \in Tracker /\ y.pending = x.pending /\ y.last = t /\ y.call = x.call
        /\ (y.lease # None => y.lease = x.lease)
    BY <1>2, <1>a DEF Advanced, Tracker
  <2>2. QED BY <2>1, <1>1
<1>3. CASE ~(x.last = None \/ t - x.last > Gap \/ ~x.viewing \/ x.lease = None)
  <2>1. r \in Row /\ r.by = b /\ r.from >= x.last /\ r.to <= t
    BY <1>3, CountedSound
  <2>2. /\ y.last = t /\ y.call = x.call /\ (y.lease # None => y.lease = x.lease)
        /\ y.pending = IF r.from < r.to THEN Append(x.pending, r) ELSE x.pending
        /\ y \in Tracker
    <3>1. Append(x.pending, r) \in Seq(Row)
      BY <2>1, <1>a, AppendElems
    <3>2. QED BY <3>1, <1>3, <1>a DEF Advanced, Tracker
  <2>3. CASE ~(r.from < r.to)
    BY <2>2, <2>3, <1>1
  <2>4. CASE r.from < r.to
    <3>1. y.pending = Append(x.pending, r) /\ y.pending # <<>>
          /\ Elems(y.pending) = Elems(x.pending) \cup {r}
          /\ (x.pending # <<>> => Head(y.pending) = Head(x.pending))
      BY <2>1, <2>2, <2>4, <1>a, AppendElems
    <3>2. Rows(b, y, k, L) = Rows(b, x, k, L) \cup {r}
      BY <3>1 DEF Rows
    <3>3. \A s \in Rows(b, x, k, L) : s \in Row /\ s.by = b /\ s.to <= t /\ s.to <= x.last
      BY <1>3 DEF Sound
    <3>4. \A s \in Rows(b, x, k, L) : Apart(r, s) /\ Apart(s, r)
      <4>1. x.last \in Nat
        BY <1>3 DEF Sound, Tracker
      <4>2. QED BY <3>3, <2>1, <4>1 DEF Apart, Row
    <3>5. \A s, u \in Rows(b, y, k, L) : Apart(s, u)
      <4>1. Apart(r, r) /\ \A s, u \in Rows(b, x, k, L) : Apart(s, u)
        BY DEF Apart, Sound
      <4>2. QED BY <4>1, <3>2, <3>4
    <3>6. QED BY <3>1, <3>2, <3>3, <3>5, <2>1, <2>2 DEF Sound
  <2>5. QED BY <2>3, <2>4
<1>4. QED BY <1>2, <1>3

\* Another page, another tab, another focus: the lease is given up.
LEMMA LookedSound ==
    ASSUME NEW b, NEW x, NEW k, NEW L, NEW t, NEW v \in BOOLEAN, Sound(b, x, k, L, t)
    PROVE  Sound(b, [x EXCEPT !.lease = None, !.viewing = v, !.call.fresh = FALSE], k, L, t)
<1> DEFINE y == [x EXCEPT !.lease = None, !.viewing = v, !.call.fresh = FALSE]
<1>1. /\ y \in Tracker /\ y.lease = None /\ y.last = x.last /\ y.pending = x.pending
      /\ y.call.lease = x.call.lease /\ y.call.kind = x.call.kind
      /\ y.call.answer = x.call.answer
  BY DEF Sound, Tracker, Call
<1>2. Rows(b, y, k, L) = Rows(b, x, k, L)
  BY <1>1 DEF Rows
<1>3. QED BY <1>1, <1>2 DEF Sound

-----------------------------------------------------------------------------
(* The actions. *)

LEMMA InitInv == ASSUME Init PROVE AllowanceInv
<1>1. TypeOK
  BY AllowanceAssumption DEF Init, TypeOK, FreshTracker, Idle, Tracker, Call, Answers
<1>2. ASSUME NEW b \in Browsers PROVE Sound(b, tracker[b], kept[b], ledger, now)
  <2>1. tracker[b] = FreshTracker /\ kept[b] = <<>> /\ ledger = {}
    BY DEF Init
  <2>2. FreshTracker \in Tracker /\ FreshTracker.lease = None /\ FreshTracker.call = Idle
        /\ FreshTracker.pending = <<>> /\ Idle.kind = "idle" /\ Idle.lease = None
    BY DEF FreshTracker, Idle, Tracker, Call, Answers
  <2>3. Rows(b, FreshTracker, <<>>, {}) = {}
    BY <2>2 DEF Rows, Elems
  <2>4. <<>> \in Seq(Row)
    OBVIOUS
  <2>5. QED BY <2>1, <2>2, <2>3, <2>4 DEF Sound
<1>3. QED BY <1>1, <1>2 DEF AllowanceInv, Init

\* A step of browser b leaves the others as they are.
LEMMA BrowserStepInv ==
    ASSUME AllowanceInv, NEW b \in Browsers, NEW x, NEW k,
           tracker' = [tracker EXCEPT ![b] = x], kept' = [kept EXCEPT ![b] = k],
           UNCHANGED <<service, trusted, now>>, faults' \in 0 .. MaxFaults,
           Sound(b, x, k, ledger, now)
    PROVE  AllowanceInv'
<1>1. tracker \in [Browsers -> Tracker] /\ kept \in [Browsers -> Seq(Row)]
  BY DEF AllowanceInv, TypeOK
<1>2. x \in Tracker /\ k \in Seq(Row)
  BY DEF Sound
<1>3. TypeOK'
  BY <1>1, <1>2 DEF AllowanceInv, TypeOK, service, ruleVars
<1>4. ledger' = ledger /\ stored' = stored /\ now' = now
  BY DEF service
<1>5. ASSUME NEW c \in Browsers PROVE Sound(c, tracker'[c], kept'[c], ledger, now)
  <2>1. CASE c = b
    BY <2>1, <1>1
  <2>2. CASE c # b
    <3>1. tracker'[c] = tracker[c] /\ kept'[c] = kept[c]
      BY <2>2, <1>1
    <3>2. QED BY <3>1 DEF AllowanceInv
  <2>3. QED BY <2>1, <2>2
<1>6. QED BY <1>3, <1>4, <1>5 DEF AllowanceInv

\* The same when its storage is left alone.
LEMMA TrackerStepInv ==
    ASSUME AllowanceInv, NEW b \in Browsers, NEW x, Becomes(b, x), BrowserStep,
           UNCHANGED kept, faults' \in 0 .. MaxFaults, Sound(b, x, kept[b], ledger, now)
    PROVE  AllowanceInv'
<1>1. kept' = [kept EXCEPT ![b] = kept[b]]
  BY DEF AllowanceInv, TypeOK
<1>2. QED BY <1>1, BrowserStepInv DEF Becomes, BrowserStep

LEMMA Known ==
    ASSUME AllowanceInv, NEW b \in Browsers
    PROVE  /\ Sound(b, tracker[b], kept[b], ledger, now)
           /\ tracker[b] \in Tracker /\ kept[b] \in Seq(Row)
           /\ now \in Nat /\ faults \in 0 .. MaxFaults
BY AllowanceAssumption DEF AllowanceInv, TypeOK

LEMMA SpendBound ==
    ASSUME AllowanceInv, Spend PROVE faults' \in 0 .. MaxFaults
BY AllowanceAssumption DEF AllowanceInv, TypeOK, Spend

LEMMA PulseInv ==
    ASSUME AllowanceInv, NEW b \in Browsers, Pulse(b) PROVE AllowanceInv'
<1>1. Sound(b, Touched(Advanced(tracker[b], now)), kept[b], ledger, now)
  <2>1. Sound(b, Advanced(tracker[b], now), kept[b], ledger, now)
    BY Known, AdvancedSound
  <2>2. QED BY <2>1, TouchedSound
<1>2. QED BY <1>1, Known, TrackerStepInv DEF Pulse

LEMMA LookInv ==
    ASSUME AllowanceInv, NEW b \in Browsers, NEW v \in BOOLEAN, Look(b, v) PROVE AllowanceInv'
<1> DEFINE x == Advanced(tracker[b], now)
           y == [x EXCEPT !.lease = None, !.viewing = v, !.call.fresh = FALSE]
<1>1. Sound(b, x, kept[b], ledger, now)
  BY Known, AdvancedSound
<1>2. Sound(b, y, kept[b], ledger, now)
  BY <1>1, LookedSound
<1>3. Sound(b, Touched(y), kept[b], ledger, now)
  BY <1>2, TouchedSound
<1>4. Becomes(b, Touched(y)) /\ BrowserStep /\ UNCHANGED <<kept, faults>>
  BY DEF Look
<1>5. QED BY <1>3, <1>4, Known, TrackerStepInv

\* A report leaves the queue.
LEMMA TailSound ==
    ASSUME NEW b, NEW x, NEW k, NEW L, NEW t, Sound(b, x, k, L, t), x.pending # <<>>
    PROVE  Sound(b, Pumped([x EXCEPT !.pending = Tail(@)]), k, L, t)
<1> DEFINE y == [x EXCEPT !.pending = Tail(@)]
           z == [y EXCEPT !.call = Idle]
<1>1. x \in Tracker /\ x.pending \in Seq(Row)
  BY DEF Sound, Tracker
<1>2. Tail(x.pending) \in Seq(Row) /\ Elems(Tail(x.pending)) \subseteq Elems(x.pending)
  BY <1>1, TailElems
<1>3. y \in Tracker /\ y.pending = Tail(x.pending) /\ y.last = x.last /\ y.lease = x.lease
  BY <1>1, <1>2 DEF Tracker
<1>4. z \in Tracker /\ z.pending = Tail(x.pending) /\ z.last = x.last /\ z.lease = x.lease
      /\ z.call.kind = "idle" /\ z.call.lease = None
  BY <1>3 DEF Tracker, Call, Answers, Idle
<1>5. Sound(b, z, k, L, t)
  <2>1. Rows(b, z, k, L) \subseteq Rows(b, x, k, L)
    BY <1>2, <1>4 DEF Rows
  <2>2. QED BY <1>4, <2>1 DEF Sound
<1>6. QED BY <1>3, <1>5, PumpedSound

LEMMA ReportAnsweredInv ==
    ASSUME AllowanceInv, NEW b \in Browsers, ReportAnswered(b) PROVE AllowanceInv'
<1> DEFINE x == tracker[b]
           failed == [x EXCEPT !.lease = None, !.call = Idle]
           z == Pumped([x EXCEPT !.pending = Tail(@)])
           y == IF x.call.answer = "failed" THEN failed ELSE z
<1>1. Sound(b, x, kept[b], ledger, now) /\ x \in Tracker
  BY Known
<1>2. Sound(b, failed, kept[b], ledger, now)
  <2>1. /\ failed \in Tracker /\ failed.lease = None /\ failed.last = x.last
        /\ failed.pending = x.pending /\ failed.call.kind = "idle"
        /\ failed.call.lease = None
    BY <1>1 DEF Tracker, Call, Answers, Idle
  <2>2. Rows(b, failed, kept[b], ledger) = Rows(b, x, kept[b], ledger)
    BY <2>1 DEF Rows
  <2>3. QED BY <1>1, <2>1, <2>2 DEF Sound
<1>3. x.pending # <<>>
  BY <1>1 DEF ReportAnswered, Sound
<1>4. Sound(b, z, kept[b], ledger, now)
  BY <1>1, <1>3, TailSound
<1>5. Becomes(b, y) /\ BrowserStep /\ UNCHANGED <<kept, faults>>
  BY DEF ReportAnswered
<1>6. Sound(b, y, kept[b], ledger, now)
  BY <1>2, <1>4
<1>7. QED BY <1>5, <1>6, Known, TrackerStepInv

LEMMA LeaseAnsweredInv ==
    ASSUME AllowanceInv, NEW b \in Browsers, LeaseAnswered(b) PROVE AllowanceInv'
<1> DEFINE x == tracker[b]
           l == x.call.lease
           y == IF ~x.call.fresh \/ ~x.viewing
                THEN [x EXCEPT !.lease = None, !.call = Idle]
                ELSE IF l = None THEN [x EXCEPT !.call = Idle]
                ELSE [x EXCEPT !.lease = l, !.call = Idle,
                        !.last = IF @ = None THEN Later(now, l.from)
                                 ELSE Later(@, l.from)]
<1>1. Sound(b, x, kept[b], ledger, now) /\ x \in Tracker /\ now \in Nat
  BY Known
<1>2. /\ y \in Tracker /\ y.pending = x.pending /\ y.call = Idle
      /\ y.lease # None => y.lease = x.lease \/ (y.lease = l /\ l # None)
      /\ \/ y.last = x.last
         \/ y.last \in Nat /\ x.last = None /\ y.last >= now
         \/ y.last \in Nat /\ x.last \in Nat \ {None} /\ y.last >= x.last
  <2>1. Idle \in Call
    BY DEF Idle, Call, Answers
  <2>2. x.call \in Call /\ (l # None => l \in Lease /\ l.from \in Nat)
    BY <1>1 DEF Tracker, Call, Lease
  <2>3. CASE ~x.call.fresh \/ ~x.viewing \/ l = None
    BY <1>1, <2>1, <2>3 DEF Tracker
  <2>4. CASE ~(~x.call.fresh \/ ~x.viewing \/ l = None)
    <3> DEFINE last == IF x.last = None THEN Later(now, l.from) ELSE Later(x.last, l.from)
    <3>1. y = [x EXCEPT !.lease = l, !.call = Idle, !.last = last]
      BY <2>4
    <3>2. x.last \in Nat \cup {None}
      BY <1>1 DEF Tracker
    <3>3. last \in Nat
      BY <1>1, <2>2, <2>4, <3>2 DEF Later
    <3>4. \/ x.last = None /\ last >= now
          \/ x.last \in Nat \ {None} /\ last >= x.last
      BY <1>1, <2>2, <2>4, <3>2 DEF Later
    <3>5. y \in Tracker /\ y.pending = x.pending /\ y.call = Idle
          /\ y.lease = l /\ y.last = last
      BY <1>1, <2>1, <2>2, <2>4, <3>1, <3>3 DEF Tracker
    <3>6. QED BY <2>4, <3>3, <3>4, <3>5
  <2>5. QED BY <2>3, <2>4
<1>3. Sound(b, y, kept[b], ledger, now)
  <2>1. Rows(b, y, kept[b], ledger) = Rows(b, x, kept[b], ledger)
    BY <1>2 DEF Rows
  <2>2. \A r \in Rows(b, y, kept[b], ledger) :
          r \in Row /\ r.by = b /\ r.to <= now /\ (y.last # None => r.to <= y.last)
    <3>1. TAKE r \in Rows(b, y, kept[b], ledger)
    <3>2. r \in Row /\ r.by = b /\ r.to <= now /\ (x.last # None => r.to <= x.last)
      BY <1>1, <2>1 DEF Sound
    <3>3. r.to \in Nat
      BY <3>2 DEF Row
    <3>4. y.last # None => r.to <= y.last
      BY <1>1, <1>2, <3>2, <3>3
    <3>5. QED BY <3>2, <3>4
  <2>3. Idle.kind = "idle" /\ Idle.lease = None
    BY DEF Idle
  <2>4. QED BY <1>1, <1>2, <2>1, <2>2, <2>3 DEF Sound
<1>4. Becomes(b, y) /\ BrowserStep /\ UNCHANGED <<kept, faults>>
  BY DEF LeaseAnswered
<1>5. QED BY <1>3, <1>4, Known, TrackerStepInv

LEMMA FlushInv ==
    ASSUME AllowanceInv, NEW b \in Browsers, Flush(b) PROVE AllowanceInv'
<1> DEFINE x == tracker[b]
<1>1. Sound(b, x, kept[b], ledger, now) /\ x.pending \in Seq(Row)
  BY Known DEF Tracker
<1>2. Sound(b, x, x.pending, ledger, now)
  <2>1. Rows(b, x, x.pending, ledger) \subseteq Rows(b, x, kept[b], ledger)
    BY DEF Rows
  <2>2. QED BY <1>1, <2>1 DEF Sound
<1>3. tracker' = [tracker EXCEPT ![b] = x]
  BY DEF Flush, AllowanceInv, TypeOK
<1>4. QED BY <1>2, <1>3, Known, BrowserStepInv DEF Flush, BrowserStep

LEMMA RestartBrowserInv ==
    ASSUME AllowanceInv, NEW b \in Browsers, RestartBrowser(b) PROVE AllowanceInv'
<1> DEFINE x == tracker[b]
           y == [FreshTracker EXCEPT !.pending = kept[b]]
<1>1. Sound(b, x, kept[b], ledger, now) /\ kept[b] \in Seq(Row)
  BY Known
<1>2. y \in Tracker /\ y.pending = kept[b] /\ y.lease = None /\ y.last = None
      /\ y.call.kind = "idle" /\ y.call.lease = None
  BY <1>1 DEF FreshTracker, Tracker, Call, Answers, Idle
<1>3. Sound(b, y, kept[b], ledger, now)
  <2>1. Rows(b, y, kept[b], ledger) \subseteq Rows(b, x, kept[b], ledger)
    BY <1>2 DEF Rows
  <2>2. QED BY <1>1, <1>2, <2>1 DEF Sound
<1>4. QED BY <1>3, SpendBound, TrackerStepInv DEF RestartBrowser

\* An answer that is neither an acceptance nor a lease.
LEMMA AnswerSound ==
    ASSUME NEW b, NEW x, NEW k, NEW L, NEW t, Sound(b, x, k, L, t), NEW a \in Answers,
           a = "ok" /\ x.call.kind = "report" => Head(x.pending) \in L
    PROVE  Sound(b, [x EXCEPT !.call.answer = a], k, L, t)
<1> DEFINE y == [x EXCEPT !.call.answer = a]
<1>1. /\ y \in Tracker /\ y.lease = x.lease /\ y.last = x.last /\ y.pending = x.pending
      /\ y.call.lease = x.call.lease /\ y.call.kind = x.call.kind /\ y.call.answer = a
  BY DEF Sound, Tracker, Call
<1>2. Rows(b, y, k, L) = Rows(b, x, k, L)
  BY <1>1 DEF Rows
<1>3. QED BY <1>1, <1>2 DEF Sound

\* A lease is answered, or the answer is lost.
LEMMA LeaseSound ==
    ASSUME NEW b, NEW x, NEW k, NEW L, NEW t, Sound(b, x, k, L, t),
           NEW a \in Answers, NEW l \in Lease \cup {None}, l # None => l.by = b,
           x.call.kind = "lease" \/ a = "failed"
    PROVE  Sound(b, [x EXCEPT !.call.answer = a, !.call.lease = l], k, L, t)
<1> DEFINE y == [x EXCEPT !.call.answer = a, !.call.lease = l]
<1>1. /\ y \in Tracker /\ y.lease = x.lease /\ y.last = x.last /\ y.pending = x.pending
      /\ y.call.lease = l /\ y.call.kind = x.call.kind /\ y.call.answer = a
  BY DEF Sound, Tracker, Call
<1>2. Rows(b, y, k, L) = Rows(b, x, k, L)
  BY <1>1 DEF Rows
<1>3. QED BY <1>1, <1>2 DEF Sound

LEMMA LoseCallInv ==
    ASSUME AllowanceInv, NEW b \in Browsers, LoseCall(b) PROVE AllowanceInv'
<1> DEFINE y == [tracker[b] EXCEPT !.call.answer = "failed", !.call.lease = None]
<1>1. Sound(b, y, kept[b], ledger, now)
  BY Known, LeaseSound DEF Answers
<1>2. Becomes(b, y)
  BY DEF LoseCall, Becomes, AllowanceInv, TypeOK
<1>3. QED BY <1>1, <1>2, SpendBound, TrackerStepInv DEF LoseCall

\* The ledger takes the report at the head of a queue, or stays as it is.
LEMMA ServeReportInv ==
    ASSUME AllowanceInv, NEW b \in Browsers, ServeReport(b) PROVE AllowanceInv'
<1> DEFINE x == tracker[b]
           r == Head(x.pending)
<1>1. Sound(b, x, kept[b], ledger, now) /\ x \in Tracker
      /\ tracker \in [Browsers -> Tracker] /\ kept \in [Browsers -> Seq(Row)]
  BY Known DEF AllowanceInv, TypeOK
<1>2. x.call.kind = "report" /\ x.pending # <<>> /\ x.pending \in Seq(Row)
  BY <1>1 DEF ServeReport, InFlight, Sound, Tracker
<1>3. r \in Elems(x.pending) /\ r \in Rows(b, x, kept[b], ledger) /\ r \in Row /\ r.by = b
  BY <1>1, <1>2, TailElems DEF Rows, Sound
<1>4. PICK a \in Answers :
        /\ Answer(b, a)
        /\ \/ a = "ok" /\ r \in ledger /\ UNCHANGED <<ledger, stored, faults>>
           \/ a # "ok" /\ UNCHANGED <<ledger, stored>> /\ faults' \in 0 .. MaxFaults
           \/ a = "ok" /\ Accept(r) /\ UNCHANGED faults
  <2>1. Refusal(r) \in {"none", "not_found", "failed"}
    BY DEF Refusal
  <2>2. CASE KnownReport(r) /\ Answer(b, "ok") /\ UNCHANGED <<ledger, stored, faults>>
    BY <2>2 DEF KnownReport, Answers
  <2>3. CASE Refusal(r) # "none" /\ Answer(b, Refusal(r)) /\ UNCHANGED <<ledger, stored, faults>>
    BY <2>1, <2>3, Known DEF Answers
  <2>4. CASE Accept(r) /\ Answer(b, "ok") /\ UNCHANGED faults
    BY <2>4 DEF Answers
  <2>5. CASE Spend /\ Answer(b, "failed") /\ UNCHANGED <<ledger, stored>>
    BY <2>5, SpendBound DEF Answers
  <2>6. QED BY <2>2, <2>3, <2>4, <2>5 DEF ServeReport
<1>5. ledger' = stored' /\ ledger \subseteq ledger' /\ ledger' \subseteq ledger \cup {r}
      /\ faults' \in 0 .. MaxFaults /\ (a = "ok" => r \in ledger')
  BY <1>4, Known DEF Accept, AllowanceInv
<1>6. ASSUME NEW c \in Browsers PROVE Sound(c, tracker[c], kept[c], ledger', now)
  <2>1. Sound(c, tracker[c], kept[c], ledger, now)
    BY Known
  <2>2. Rows(c, tracker[c], kept[c], ledger') = Rows(c, tracker[c], kept[c], ledger)
    BY <1>3, <1>5 DEF Rows
  <2>3. QED BY <1>5, <2>1, <2>2 DEF Sound
<1>7. ASSUME NEW c \in Browsers PROVE Sound(c, tracker'[c], kept'[c], ledger', now')
  <2>1. kept' = kept /\ now' = now
    BY DEF ServeReport
  <2>2. CASE c = b
    <3>1. tracker'[c] = [x EXCEPT !.call.answer = a]
      BY <1>1, <1>4, <2>2 DEF Answer
    <3>2. Sound(b, x, kept[b], ledger', now)
      BY <1>6
    <3>3. Sound(b, [x EXCEPT !.call.answer = a], kept[b], ledger', now)
      BY <1>5, <3>2, AnswerSound
    <3>4. QED BY <2>1, <2>2, <3>1, <3>3
  <2>3. CASE c # b
    <3>1. tracker'[c] = tracker[c]
      BY <1>1, <1>4, <2>3 DEF Answer
    <3>2. QED BY <1>6, <2>1, <3>1
  <2>4. QED BY <2>2, <2>3
<1>8. TypeOK'
  <2>1. tracker' \in [Browsers -> Tracker]
    <3>1. tracker' = [tracker EXCEPT ![b].call.answer = a]
      BY <1>4 DEF Answer
    <3>2. tracker'[b] \in Tracker
      BY <1>7 DEF Sound
    <3>3. QED BY <1>1, <3>1, <3>2
  <2>2. ledger' \subseteq Row /\ stored' \subseteq Row
    BY <1>3, <1>5 DEF AllowanceInv, TypeOK
  <2>3. QED BY <1>5, <2>1, <2>2 DEF ServeReport, ruleVars, AllowanceInv, TypeOK
<1>9. QED BY <1>5, <1>7, <1>8 DEF AllowanceInv

LEMMA ServeLeaseInv ==
    ASSUME AllowanceInv, NEW b \in Browsers, ServeLease(b) PROVE AllowanceInv'
<1> DEFINE x == tracker[b]
<1>1. Sound(b, x, kept[b], ledger, now) /\ x \in Tracker /\ x.call.kind = "lease"
      /\ tracker \in [Browsers -> Tracker] /\ now \in Nat
  BY Known DEF AllowanceInv, TypeOK, ServeLease, InFlight
<1>2. PICK a \in Answers, l \in Lease \cup {None} :
        /\ l # None => l.by = b
        /\ tracker' = [tracker EXCEPT ![b].call.answer = a, ![b].call.lease = l]
        /\ leases' \subseteq leases \cup {l} /\ leases' \subseteq Lease
        /\ issued' \in 0 .. MaxLeases
  <2>1. leases \subseteq Lease /\ issued \in 0 .. MaxLeases /\ Kept(leases) \subseteq leases
    BY DEF AllowanceInv, TypeOK, Kept
  <2>2. CASE \E d \in Lengths : Grants(b, d)
    <3>1. PICK d \in Lengths : Grants(b, d)
      BY <2>2
    <3> DEFINE l == [by |-> b, id |-> issued + 1, from |-> now, to |-> now + d]
    <3>2. d \in Nat
      BY AllowanceAssumption DEF Lengths
    <3>3. l \in Lease /\ l.by = b
      BY <1>1, <2>1, <3>2 DEF Lease
    <3>4. tracker' = [tracker EXCEPT ![b].call.answer = "ok", ![b].call.lease = l]
      BY <3>1 DEF Grants
    <3>5. leases' \subseteq leases \cup {l} /\ leases' \subseteq Lease
      BY <2>1, <3>1, <3>3 DEF Grants
    <3>6. issued' \in 0 .. MaxLeases
      BY <2>1, <3>1, AllowanceAssumption DEF Grants
    <3>7. "ok" \in Answers /\ l \in Lease \cup {None} /\ (l # None => l.by = b)
      BY <3>3 DEF Answers
    <3> HIDE DEF l
    <3>8. QED BY <3>4, <3>5, <3>6, <3>7
  <2>3. CASE Answer(b, "failed") /\ UNCHANGED issued /\ leases' \subseteq leases
    <3> DEFINE l == x.call.lease
    <3>1. l \in Lease \cup {None} /\ (l # None => l.by = b)
      BY <1>1 DEF Sound, Tracker, Call
    <3>2. tracker' = [tracker EXCEPT ![b].call.answer = "failed", ![b].call.lease = l]
      BY <1>1, <2>3 DEF Answer, Tracker, Call
    <3>3. QED BY <2>1, <2>3, <3>1, <3>2 DEF Answers
  <2>4. QED BY <2>1, <2>2, <2>3 DEF ServeLease
<1> DEFINE y == [x EXCEPT !.call.answer = a, !.call.lease = l]
<1>3. Sound(b, y, kept[b], ledger, now)
  BY <1>1, <1>2, LeaseSound
<1>4. tracker' = [tracker EXCEPT ![b] = y]
  BY <1>1, <1>2
<1>5. ASSUME NEW c \in Browsers PROVE Sound(c, tracker'[c], kept[c], ledger, now)
  <2>1. CASE c = b
    BY <1>1, <1>3, <1>4, <2>1
  <2>2. CASE c # b
    BY <1>1, <1>4, <2>2, Known
  <2>3. QED BY <2>1, <2>2
<1>6. UNCHANGED <<allowance, enabled, steady, ledger, stored, kept, trusted, now, faults>>
  BY DEF ServeLease, ruleVars
<1>7. TypeOK'
  <2>1. y \in Tracker
    BY <1>3 DEF Sound
  <2>2. QED BY <1>1, <1>2, <1>4, <1>6, <2>1 DEF AllowanceInv, TypeOK
<1>8. QED BY <1>5, <1>6, <1>7 DEF AllowanceInv

\* Steps that leave ledger, queues and trackers alone; time only makes rows older.
LEMMA OtherStepInv ==
    ASSUME AllowanceInv, RestartService \/ Elapse \/ \E on \in BOOLEAN : EnableRule(on) \/ SetTrust(on)
    PROVE  AllowanceInv'
<1>1. ledger' = ledger /\ stored' = stored /\ UNCHANGED <<tracker, kept>>
      /\ now' \in Nat /\ now' >= now
  BY AllowanceAssumption
     DEF RestartService, Elapse, EnableRule, SetTrust, service, ruleVars, AllowanceInv, TypeOK
<1>2. TypeOK'
  <2>1. CASE RestartService
    BY <2>1, SpendBound DEF RestartService, ruleVars, AllowanceInv, TypeOK
  <2>2. CASE Elapse
    BY <2>2, AllowanceAssumption DEF Elapse, service, ruleVars, AllowanceInv, TypeOK
  <2>3. CASE \E on \in BOOLEAN : EnableRule(on)
    BY <2>3, SpendBound DEF EnableRule, AllowanceInv, TypeOK
  <2>4. CASE \E on \in BOOLEAN : SetTrust(on)
    BY <2>4, SpendBound DEF SetTrust, service, ruleVars, AllowanceInv, TypeOK
  <2>5. QED BY <2>1, <2>2, <2>3, <2>4
<1>3. ASSUME NEW b \in Browsers PROVE Sound(b, tracker[b], kept[b], ledger, now')
  <2>1. Sound(b, tracker[b], kept[b], ledger, now) /\ now \in Nat
    BY Known
  <2>2. \A r \in Rows(b, tracker[b], kept[b], ledger) : r.to <= now'
    BY <1>1, <2>1 DEF Sound, Row
  <2>3. QED BY <2>1, <2>2 DEF Sound
<1>4. QED BY <1>1, <1>2, <1>3 DEF AllowanceInv

-----------------------------------------------------------------------------
(* The theorems. *)

LEMMA AllowanceStep == AllowanceInv /\ [Next]_vars => AllowanceInv'
<1>1. SUFFICES ASSUME AllowanceInv, [Next]_vars PROVE AllowanceInv'
  OBVIOUS
<1>2. CASE UNCHANGED vars
  BY <1>1, <1>2 DEF vars, service, ruleVars, AllowanceInv, TypeOK
<1>3. ASSUME NEW b \in Browsers,
             \/ ServeReport(b) \/ ServeLease(b)
             \/ Pulse(b) \/ ReportAnswered(b) \/ LeaseAnswered(b)
             \/ Flush(b) \/ RestartBrowser(b) \/ LoseCall(b)
             \/ \E v \in BOOLEAN : Look(b, v)
      PROVE  AllowanceInv'
  BY <1>1, <1>3, ServeReportInv, ServeLeaseInv, PulseInv, ReportAnsweredInv,
     LeaseAnsweredInv, FlushInv, RestartBrowserInv, LoseCallInv, LookInv
<1>4. CASE RestartService \/ Elapse \/ \E on \in BOOLEAN : EnableRule(on) \/ SetTrust(on)
  BY <1>1, <1>4, OtherStepInv
<1>5. QED BY <1>1, <1>2, <1>3, <1>4 DEF Next

LEMMA Invariance == Spec => []AllowanceInv
BY InitInv, AllowanceStep, PTL DEF Spec

\* The ledger, the leases and the trackers stay well typed, whatever is lost and
\* restarts.
THEOREM AllowanceTypeCorrect == Spec => []TypeOK
<1>1. AllowanceInv => TypeOK
  BY DEF AllowanceInv
<1>2. QED BY <1>1, Invariance, PTL

\* A report that a browser is about to drop as accepted is in the service's file.
THEOREM AcceptedIsStoredAlways == Spec => []AcceptedIsStored
<1>1. AllowanceInv => AcceptedIsStored
  BY DEF AllowanceInv, AcceptedIsStored, Sound
<1>2. QED BY <1>1, Invariance, PTL

\* No second of a browser is reported twice, whatever is lost, repeated or
\* restored from its storage.
THEOREM NoSecondTwiceEver == Spec => []NoSecondTwice
<1>1. ASSUME AllowanceInv PROVE NoSecondTwice
  <2>1. ASSUME NEW r \in Row, NEW s \in Row, r # s, Apart(r, s)
        PROVE  Units({r}) \cap Units({s}) = {}
    BY <2>1 DEF Apart, Units, Row
  <2>2. QED BY <1>1, <2>1 DEF AllowanceInv, NoSecondTwice, Sound, Rows, Elems
<1>2. QED BY <1>1, Invariance, PTL

\* Every second that a browser was told is accepted is counted, and counted once.
THEOREM UsageAccountedAlways == Spec => []UsageAccounted
<1>1. AcceptedIsStored /\ NoSecondTwice => UsageAccounted
  BY DEF UsageAccounted
<1>2. QED BY <1>1, AcceptedIsStoredAlways, NoSecondTwiceEver, PTL

-----------------------------------------------------------------------------
(* Numbers and queues. *)

LEMMA HeadAndTail ==
    ASSUME NEW S, NEW q \in Seq(S), q # <<>>
    PROVE  Elems(q) = {Head(q)} \cup Elems(Tail(q))
<1>1. /\ DOMAIN q = 1 .. Len(q) /\ Len(q) \in Nat /\ Len(q) >= 1 /\ Head(q) = q[1]
      /\ DOMAIN Tail(q) = 1 .. Len(q) - 1
  OBVIOUS
<1>2. \A i \in 1 .. Len(q) - 1 : Tail(q)[i] = q[i + 1]
  OBVIOUS
<1>3. ASSUME NEW i \in 1 .. Len(q), i # 1 PROVE q[i] = Tail(q)[i - 1]
  <2>1. i - 1 \in 1 .. Len(q) - 1 /\ (i - 1) + 1 = i
    BY <1>1, <1>3
  <2>2. QED BY <1>2, <2>1
<1>4. ASSUME NEW i \in 1 .. Len(q) PROVE q[i] \in {Head(q)} \cup Elems(Tail(q))
  <2>1. CASE i = 1
    BY <1>1, <2>1
  <2>2. CASE i # 1
    <3>1. i - 1 \in 1 .. Len(q) - 1
      BY <1>1, <2>2
    <3>2. QED BY <1>1, <1>3, <2>2, <3>1 DEF Elems
  <2>3. QED BY <2>1, <2>2
<1>5. Elems(q) \subseteq {Head(q)} \cup Elems(Tail(q))
  BY <1>1, <1>4 DEF Elems
<1>6. {Head(q)} \cup Elems(Tail(q)) \subseteq Elems(q)
  BY TailElems
<1>7. QED BY <1>5, <1>6

LEMMA LengthOfLease ==
    ASSUME NEW i \in Nat, NEW d \in Nat
    PROVE  /\ IsFiniteSet(i .. i + d - 1) /\ Cardinality(i .. i + d - 1) = d
           /\ i .. i + d - 1 \subseteq Nat
<1> DEFINE j == i + d - 1
<1>1. i \in Int /\ j \in Int /\ i .. j \subseteq Nat
  OBVIOUS
<1>2. d = IF i > j THEN 0 ELSE j - i + 1
  OBVIOUS
<1> HIDE DEF j
<1>3. IsFiniteSet(i .. j) /\ Cardinality(i .. j) = d
  BY <1>1, <1>2, FS_Interval
<1>4. QED BY <1>1, <1>3 DEF j

LEMMA SameExtent ==
    ASSUME NEW l, NEW i \in Nat, NEW d \in Nat, l.from = i, l.to = i + d
    PROVE  l.from .. l.to - 1 = i .. i + d - 1
<1> DEFINE j == l.from
           m == l.to
<1>1. j = i /\ m = i + d
  OBVIOUS
<1> HIDE DEF j, m
<1>2. j .. m - 1 = i .. i + d - 1
  BY <1>1
<1>3. QED BY <1>2 DEF j, m

LEMMA SameLength ==
    ASSUME NEW l, NEW J, IsFiniteSet(J)
    PROVE  IsFiniteSet({l} \X J) /\ Cardinality({l} \X J) = Cardinality(J)
<1> DEFINE L == {l}
<1>1. IsFiniteSet(L) /\ Cardinality(L) = 1
  BY FS_Singleton
<1> HIDE DEF L
<1>2. IsFiniteSet(L \X J) /\ Cardinality(L \X J) = Cardinality(L) * Cardinality(J)
  BY <1>1, FS_Product
<1>3. Cardinality(J) \in Nat
  BY FS_CardinalityType
<1>4. QED BY <1>1, <1>2, <1>3 DEF L

LEMMA DivGrows ==
    ASSUME NEW n \in Nat \ {0}, NEW i \in Nat, NEW j \in Nat, i <= j
    PROVE  i \div n \in Nat /\ j \div n \in Nat /\ i \div n <= j \div n
OBVIOUS

LEMMA SamePeriod ==
    ASSUME NEW n \in Nat \ {0}, NEW i \in Nat, NEW j \in Nat, i <= j,
           j < (i \div n + 1) * n
    PROVE  j \div n = i \div n
OBVIOUS

-----------------------------------------------------------------------------
(* The budget of one browser. *)

LeaseIds == {l.id : l \in leases}
Extent(l) == IF l = None THEN {} ELSE l.from .. l.to - 1

\* What browser b has or may still get accepted: the rows of the ledger L, the
\* waiting ones whose leases the service knows by the identities I, and the lease
\* in use or on its way.
Countable(b, x, L, I) == {r \in L : r.by = b} \cup {r \in Elems(x.pending) : r.lease \in I}
Potential(b, x, L, I) ==
    Units(Countable(b, x, L, I)) \cup Extent(x.lease) \cup Extent(x.call.lease)

InPeriod(S, k) == {s \in S : s \div Cycle = k}
InDay(S, k) == {s \in S : s \div Day = k}
Affordable(a, S) ==
    \A k \in Nat :
        /\ a.mode = "total" => Cardinality(InPeriod(S, k)) <= a.quota
        /\ Cardinality(InDay(S, k)) <= a.cap

\* A tracker asks for a lease when it has none and nothing waits; leases and rows
\* are numbered up to n.
OneLease(x, k, n) ==
    /\ x.lease # None => x.lease.id <= n
    /\ x.call.lease # None => x.call.lease.id <= n /\ x.call.kind = "lease"
    /\ x.call.kind = "lease" => x.pending = <<>> /\ x.lease = None
    /\ \A r \in Elems(x.pending) \cup Elems(k) : r.lease <= n

\* What the storage k alone remembers is of no use any more, and what may still
\* be accepted is affordable.
Tight(a, b, x, k, L, I) ==
    /\ \A r \in Elems(k) : r \in L \/ r \in Elems(x.pending) \/ r.lease \notin I
    /\ x.call.kind = "report" /\ x.call.answer = "not_found" => Head(x.pending).lease \notin I
    /\ Affordable(a, Potential(b, x, L, I))

BudgetInv ==
    /\ IsFiniteSet(ReservedSeconds(leases))
    /\ LiveLeasesWithinBudget
    /\ \A l \in leases : l.id <= issued
    /\ steady => enabled
    /\ \A b \in Browsers :
         /\ OneLease(tracker[b], kept[b], issued)
         /\ steady => Tight(allowance, b, tracker[b], kept[b], ledger, LeaseIds)

LEMMA AllowanceNumbers ==
    ASSUME AllowanceInv
    PROVE  /\ allowance.quota \in Nat /\ allowance.cap \in Nat
           /\ Cycle \in Nat \ {0} /\ Day \in Nat \ {0} /\ Length \in Nat /\ Length <= Cycle
           /\ now \in Nat /\ issued \in Nat
BY AllowanceAssumption DEF AllowanceInv, TypeOK

LEMMA UnitsAreNat ==
    ASSUME NEW R \in SUBSET Row, NEW t \in Nat, \A r \in R : r.to <= t
    PROVE  /\ Units(R) \subseteq Nat /\ \A s \in Units(R) : s < t
           /\ IsFiniteSet(Units(R))
<1>1. Units(R) \subseteq Nat /\ \A s \in Units(R) : s < t
  BY DEF Units, Row
<1>2. QED BY <1>1, FS_BoundedSetOfNaturals

LEMMA ExtentFinite ==
    ASSUME NEW l \in Lease \cup {None}
    PROVE  Extent(l) \subseteq Nat /\ IsFiniteSet(Extent(l))
<1>1. CASE l = None
  BY <1>1, FS_EmptySet DEF Extent
<1>2. CASE l # None
  <2>1. l.from \in Nat /\ l.to \in Nat
    BY <1>2 DEF Lease
  <2>2. Extent(l) = l.from .. l.to - 1
    BY <1>2 DEF Extent
  <2>3. l.from .. l.to - 1 \subseteq Nat
    BY <2>1
  <2>4. IsFiniteSet(l.from .. l.to - 1)
    BY <2>1, FS_Interval
  <2>5. QED BY <2>2, <2>3, <2>4
<1>3. QED BY <1>1, <1>2

LEMMA PotentialFinite ==
    ASSUME NEW b, NEW x, NEW k, NEW L, NEW t \in Nat, Sound(b, x, k, L, t), NEW I
    PROVE  Potential(b, x, L, I) \subseteq Nat /\ IsFiniteSet(Potential(b, x, L, I))
<1>1. Countable(b, x, L, I) \subseteq Row /\ \A r \in Countable(b, x, L, I) : r.to <= t
  BY DEF Countable, Sound, Rows
<1>2. Units(Countable(b, x, L, I)) \subseteq Nat /\ IsFiniteSet(Units(Countable(b, x, L, I)))
  BY <1>1, UnitsAreNat
<1>3. x.lease \in Lease \cup {None} /\ x.call.lease \in Lease \cup {None}
  BY DEF Sound, Tracker, Call
<1>4. QED BY <1>2, <1>3, ExtentFinite, FS_Union DEF Potential

LEMMA AffordableShrinks ==
    ASSUME NEW a, a.quota \in Nat, a.cap \in Nat,
           NEW S, IsFiniteSet(S), Affordable(a, S), NEW T \in SUBSET S
    PROVE  Affordable(a, T)
<1> SUFFICES ASSUME NEW k \in Nat
             PROVE  /\ a.mode = "total" => Cardinality(InPeriod(T, k)) <= a.quota
                    /\ Cardinality(InDay(T, k)) <= a.cap
  BY DEF Affordable
<1>1. /\ InPeriod(S, k) \in SUBSET S /\ InPeriod(T, k) \in SUBSET InPeriod(S, k)
      /\ InDay(S, k) \in SUBSET S /\ InDay(T, k) \in SUBSET InDay(S, k)
  BY DEF InPeriod, InDay
<1>2. IsFiniteSet(InPeriod(S, k)) /\ IsFiniteSet(InDay(S, k))
  BY <1>1, FS_Subset
<1>3. /\ Cardinality(InPeriod(T, k)) <= Cardinality(InPeriod(S, k))
      /\ Cardinality(InDay(T, k)) <= Cardinality(InDay(S, k))
  BY <1>1, <1>2, FS_Subset
<1>4. /\ Cardinality(InPeriod(T, k)) \in Nat /\ Cardinality(InPeriod(S, k)) \in Nat
      /\ Cardinality(InDay(T, k)) \in Nat /\ Cardinality(InDay(S, k)) \in Nat
  BY <1>1, <1>2, FS_Subset, FS_CardinalityType
<1>5. /\ a.mode = "total" => Cardinality(InPeriod(S, k)) <= a.quota
      /\ Cardinality(InDay(S, k)) <= a.cap
  BY DEF Affordable
<1>6. QED BY <1>3, <1>4, <1>5

\* What keeps a tracker tight: nothing new may be accepted.
LEMMA TightShrinks ==
    ASSUME NEW a, a.quota \in Nat, a.cap \in Nat, NEW t \in Nat,
           NEW b, NEW x, NEW k, NEW L, NEW I, Sound(b, x, k, L, t),
           Tight(a, b, x, k, L, I), NEW y, NEW m, NEW M, NEW J,
           \A r \in Elems(m) : r \in M \/ r \in Elems(y.pending) \/ r.lease \notin J,
           y.call.kind = "report" /\ y.call.answer = "not_found" => Head(y.pending).lease \notin J,
           Potential(b, y, M, J) \subseteq Potential(b, x, L, I)
    PROVE  Tight(a, b, y, m, M, J)
<1>1. IsFiniteSet(Potential(b, x, L, I))
  BY PotentialFinite
<1>2. Affordable(a, Potential(b, y, M, J))
  BY <1>1, AffordableShrinks DEF Tight
<1>3. QED BY <1>2 DEF Tight

LEMMA PotentialGrows ==
    ASSUME NEW b, NEW x, NEW L, NEW I, NEW y, NEW M, NEW J,
           Countable(b, y, M, J) \subseteq Countable(b, x, L, I),
           Extent(y.lease) \cup Extent(y.call.lease) \subseteq Extent(x.lease) \cup Extent(x.call.lease)
    PROVE  Potential(b, y, M, J) \subseteq Potential(b, x, L, I)
BY DEF Potential, Units

LEMMA NoExtent == Extent(None) = {}
BY DEF Extent

\* What BudgetInv says of one tracker and one storage.
Held(b, x, k) ==
    /\ OneLease(x, k, issued)
    /\ steady => Tight(allowance, b, x, k, ledger, LeaseIds)

\* A call ends or starts and the queue stays.
LEMMA CallEnds ==
    ASSUME AllowanceInv, NEW b, NEW x, NEW k, Sound(b, x, k, ledger, now), Held(b, x, k), NEW y,
           y.pending = x.pending, y.lease \in {None, x.lease, x.call.lease}, y.call.lease = None,
           y.call.answer # "not_found",
           y.call.kind = "lease" => y.pending = <<>> /\ y.lease = None
    PROVE  Held(b, y, k)
<1>1. OneLease(y, k, issued)
  BY DEF Held, OneLease
<1>2. ASSUME steady PROVE Tight(allowance, b, y, k, ledger, LeaseIds)
  <2>1. Potential(b, y, ledger, LeaseIds) \subseteq Potential(b, x, ledger, LeaseIds)
    BY NoExtent, PotentialGrows DEF Countable
  <2>2. \A r \in Elems(k) : r \in ledger \/ r \in Elems(y.pending) \/ r.lease \notin LeaseIds
    BY <1>2 DEF Held, Tight
  <2>3. QED BY <1>2, <2>1, <2>2, AllowanceNumbers, TightShrinks DEF Held
<1>3. QED BY <1>1, <1>2 DEF Held

LEMMA PumpedHeld ==
    ASSUME AllowanceInv, NEW b, NEW x \in Tracker, NEW k,
           Sound(b, [x EXCEPT !.call = Idle], k, ledger, now), Held(b, [x EXCEPT !.call = Idle], k)
    PROVE  Held(b, Pumped(x), k)
<1> DEFINE y == [x EXCEPT !.call = Idle]
           z == Pumped(x)
<1>1. /\ z.lease = x.lease /\ z.pending = x.pending
      /\ z.call.lease = None /\ z.call.answer = "none"
      /\ z.call.kind = "lease" => x.pending = <<>> /\ x.lease = None
  BY DEF Pumped, Tracker, SendReport, SendRequest, Idle
<1>2. y.lease = x.lease /\ y.pending = x.pending
  BY DEF Tracker
<1> HIDE DEF y, z
<1>3. QED BY <1>1, <1>2, CallEnds DEF y, z

LEMMA TouchedHeld ==
    ASSUME AllowanceInv, NEW b, NEW x, NEW k, Sound(b, x, k, ledger, now), Held(b, x, k)
    PROVE  Held(b, Touched(x), k)
<1> DEFINE y == [x EXCEPT !.call = Idle]
<1>1. x \in Tracker
  BY DEF Sound
<1>2. Sound(b, y, k, ledger, now)
  BY IdleSound
<1>3. /\ y.pending = x.pending /\ y.lease = x.lease /\ y.call.lease = None
      /\ y.call.answer = "none" /\ y.call.kind = "idle"
  BY <1>1 DEF Tracker, Idle
<1>4. Held(b, y, k)
  <2> HIDE DEF y
  <2>1. QED BY <1>3, CallEnds
<1>5. Held(b, Pumped(x), k)
  BY <1>1, <1>2, <1>4, PumpedHeld
<1>6. QED BY <1>5 DEF Touched

\* A heartbeat reports part of the lease, if anything.
LEMMA AdvancedIs ==
    ASSUME NEW b, NEW x, NEW k, NEW L, NEW t \in Nat, Sound(b, x, k, L, t)
    PROVE  LET y == Advanced(x, t)
               r == Counted(x, t)
           IN  /\ y.call = x.call /\ (y.lease = x.lease \/ y.lease = None)
               /\ \/ y.pending = x.pending
                  \/ /\ x.lease # None /\ y.pending = Append(x.pending, r)
                     /\ r \in Row /\ r.by = b /\ r.lease = x.lease.id
                     /\ r.from >= x.lease.from /\ r.to <= x.lease.to
<1> DEFINE y == Advanced(x, t)
           r == Counted(x, t)
<1>1. x \in Tracker
  BY DEF Sound
<1>2. CASE x.last = None \/ t - x.last > Gap \/ ~x.viewing \/ x.lease = None
  BY <1>1, <1>2 DEF Advanced, Tracker
<1>3. CASE ~(x.last = None \/ t - x.last > Gap \/ ~x.viewing \/ x.lease = None)
  <2>1. r \in Row /\ r.by = b
    BY <1>3, CountedSound
  <2>2. x.lease \in Lease /\ x.last \in Nat
    BY <1>1, <1>3 DEF Tracker
  <2>3. r.lease = x.lease.id /\ r.from >= x.lease.from /\ r.to <= x.lease.to
    BY <2>2 DEF Counted, Lease, Later, Least
  <2>4. /\ y.call = x.call /\ (y.lease = x.lease \/ y.lease = None)
        /\ y.pending = x.pending \/ y.pending = Append(x.pending, r)
    BY <1>1, <1>3 DEF Advanced, Tracker
  <2> HIDE DEF y, r
  <2>5. QED BY <1>3, <2>1, <2>3, <2>4 DEF y, r
<1>4. QED BY <1>2, <1>3

LEMMA AdvancedHeld ==
    ASSUME AllowanceInv, NEW b, NEW x, NEW k, Sound(b, x, k, ledger, now), Held(b, x, k)
    PROVE  Held(b, Advanced(x, now), k)
<1> DEFINE y == Advanced(x, now)
           r == Counted(x, now)
<1>1. /\ y.call = x.call /\ (y.lease = x.lease \/ y.lease = None)
      /\ \/ y.pending = x.pending
         \/ /\ x.lease # None /\ y.pending = Append(x.pending, r)
            /\ r \in Row /\ r.by = b /\ r.lease = x.lease.id
            /\ r.from >= x.lease.from /\ r.to <= x.lease.to
  BY AllowanceNumbers, AdvancedIs
<1>2. x \in Tracker /\ x.pending \in Seq(Row)
  BY DEF Sound, Tracker
<1> HIDE DEF y, r
<1>3. /\ Elems(x.pending) \subseteq Elems(y.pending)
      /\ \A s \in Elems(y.pending) :
            \/ s \in Elems(x.pending)
            \/ /\ x.lease # None /\ s \in Row /\ s.by = b /\ s.lease = x.lease.id
               /\ s.from >= x.lease.from /\ s.to <= x.lease.to
      /\ x.pending # <<>> => Head(y.pending) = Head(x.pending)
      /\ x.lease = None => y.pending = x.pending
  <2>1. CASE y.pending = x.pending
    BY <2>1
  <2>2. CASE /\ x.lease # None /\ y.pending = Append(x.pending, r)
             /\ r \in Row /\ r.by = b /\ r.lease = x.lease.id
             /\ r.from >= x.lease.from /\ r.to <= x.lease.to
    <3>1. /\ Elems(y.pending) = Elems(x.pending) \cup {r}
          /\ x.pending # <<>> => Head(y.pending) = Head(x.pending)
      BY <1>2, <2>2, AppendElems
    <3>2. QED BY <2>2, <3>1
  <2>3. QED BY <1>1, <2>1, <2>2
<1>4. OneLease(y, k, issued)
  BY <1>1, <1>3 DEF Held, OneLease
<1>5. ASSUME steady PROVE Tight(allowance, b, y, k, ledger, LeaseIds)
  <2>1. \A s \in Elems(k) : s \in ledger \/ s \in Elems(y.pending) \/ s.lease \notin LeaseIds
    BY <1>3, <1>5 DEF Held, Tight
  <2>2. y.call.kind = "report" /\ y.call.answer = "not_found" => Head(y.pending).lease \notin LeaseIds
    BY <1>1, <1>3, <1>5 DEF Held, Tight, Sound
  <2>3. Potential(b, y, ledger, LeaseIds) \subseteq Potential(b, x, ledger, LeaseIds)
    <3>1. ASSUME NEW s \in Countable(b, y, ledger, LeaseIds), NEW u \in s.from .. s.to - 1,
                 s \notin Countable(b, x, ledger, LeaseIds)
          PROVE  u \in Extent(x.lease)
      <4>1. /\ x.lease # None /\ s \in Row
            /\ s.from >= x.lease.from /\ s.to <= x.lease.to
        BY <1>3, <3>1 DEF Countable
      <4>2. x.lease \in Lease
        BY <1>2, <4>1 DEF Tracker
      <4>3. Extent(x.lease) = x.lease.from .. x.lease.to - 1
        BY <4>1 DEF Extent
      <4>4. s.from \in Nat /\ s.to \in Nat /\ x.lease.from \in Nat /\ x.lease.to \in Nat
        BY <4>1, <4>2 DEF Row, Lease
      <4>5. QED BY <3>1, <4>1, <4>3, <4>4
    <3>2. Units(Countable(b, y, ledger, LeaseIds))
            \subseteq Units(Countable(b, x, ledger, LeaseIds)) \cup Extent(x.lease)
      BY <3>1 DEF Units
    <3>3. /\ Extent(y.lease) \subseteq Extent(x.lease)
          /\ Extent(y.call.lease) = Extent(x.call.lease)
      BY <1>1, NoExtent
    <3>4. QED BY <3>2, <3>3 DEF Potential
  <2>4. QED BY <1>5, <2>1, <2>2, <2>3, AllowanceNumbers, TightShrinks DEF Held
<1>6. QED BY <1>4, <1>5 DEF Held, y

LEMMA LookedHeld ==
    ASSUME AllowanceInv, NEW b, NEW x, NEW k, NEW v \in BOOLEAN,
           Sound(b, x, k, ledger, now), Held(b, x, k)
    PROVE  Held(b, [x EXCEPT !.lease = None, !.viewing = v, !.call.fresh = FALSE], k)
<1> DEFINE y == [x EXCEPT !.lease = None, !.viewing = v, !.call.fresh = FALSE]
<1>1. /\ y.lease = None /\ y.pending = x.pending /\ y.call.lease = x.call.lease
      /\ y.call.kind = x.call.kind /\ y.call.answer = x.call.answer
  BY DEF Sound, Tracker, Call
<1> HIDE DEF y
<1>2. OneLease(y, k, issued)
  BY <1>1 DEF Held, OneLease
<1>3. ASSUME steady PROVE Tight(allowance, b, y, k, ledger, LeaseIds)
  <2>1. Potential(b, y, ledger, LeaseIds) \subseteq Potential(b, x, ledger, LeaseIds)
    BY <1>1, NoExtent, PotentialGrows DEF Countable
  <2>2. Tight(allowance, b, x, k, ledger, LeaseIds)
    BY <1>3 DEF Held
  <2>3. /\ \A r \in Elems(k) : r \in ledger \/ r \in Elems(y.pending) \/ r.lease \notin LeaseIds
        /\ y.call.kind = "report" /\ y.call.answer = "not_found" => Head(y.pending).lease \notin LeaseIds
    BY <1>1, <2>2 DEF Tight
  <2>4. QED BY <2>1, <2>2, <2>3, AllowanceNumbers, TightShrinks
<1>4. QED BY <1>2, <1>3, <1>1 DEF Held, y

\* A step of browser b with the service aside.
LEMMA BrowserStepBudget ==
    ASSUME AllowanceInv, BudgetInv, NEW b \in Browsers, NEW x, NEW k,
           tracker' = [tracker EXCEPT ![b] = x], kept' = [kept EXCEPT ![b] = k],
           UNCHANGED <<service, trusted, now>>, Held(b, x, k)
    PROVE  BudgetInv'
<1>1. tracker \in [Browsers -> Tracker] /\ kept \in [Browsers -> Seq(Row)]
  BY DEF AllowanceInv, TypeOK
<1>2. /\ leases' = leases /\ issued' = issued /\ now' = now /\ ledger' = ledger
      /\ steady' = steady /\ enabled' = enabled /\ allowance' = allowance
  BY DEF service, ruleVars
<1>3. LeaseIds' = LeaseIds /\ ReservedSeconds(leases)' = ReservedSeconds(leases)
  BY <1>2 DEF LeaseIds, ReservedSeconds, Reserving
<1>4. LiveLeasesWithinBudget'
  BY <1>2, <1>3 DEF BudgetInv, LiveLeasesWithinBudget, Reserved
<1>5. ASSUME NEW c \in Browsers PROVE Held(c, tracker'[c], kept'[c])
  <2>1. CASE c = b
    BY <1>1, <2>1
  <2>2. CASE c # b
    BY <1>1, <2>2 DEF BudgetInv, Held
  <2>3. QED BY <2>1, <2>2
<1>6. QED BY <1>2, <1>3, <1>4, <1>5 DEF BudgetInv, Held

LEMMA TrackerStepBudget ==
    ASSUME AllowanceInv, BudgetInv, NEW b \in Browsers, NEW x, Becomes(b, x), BrowserStep,
           UNCHANGED kept, Held(b, x, kept[b])
    PROVE  BudgetInv'
<1>1. kept' = [kept EXCEPT ![b] = kept[b]]
  BY DEF AllowanceInv, TypeOK
<1>2. QED BY <1>1, BrowserStepBudget DEF Becomes, BrowserStep

LEMMA KnownHeld ==
    ASSUME AllowanceInv, BudgetInv, NEW b \in Browsers
    PROVE  Sound(b, tracker[b], kept[b], ledger, now) /\ Held(b, tracker[b], kept[b])
BY DEF AllowanceInv, BudgetInv, Held

LEMMA PulseBudget ==
    ASSUME AllowanceInv, BudgetInv, NEW b \in Browsers, Pulse(b) PROVE BudgetInv'
<1>1. Sound(b, Advanced(tracker[b], now), kept[b], ledger, now)
  BY Known, AdvancedSound
<1>2. Held(b, Advanced(tracker[b], now), kept[b])
  BY KnownHeld, AdvancedHeld
<1>3. Held(b, Touched(Advanced(tracker[b], now)), kept[b])
  BY <1>1, <1>2, TouchedHeld
<1>4. QED BY <1>3, TrackerStepBudget DEF Pulse

LEMMA LookBudget ==
    ASSUME AllowanceInv, BudgetInv, NEW b \in Browsers, NEW v \in BOOLEAN, Look(b, v)
    PROVE  BudgetInv'
<1> DEFINE x == Advanced(tracker[b], now)
           y == [x EXCEPT !.lease = None, !.viewing = v, !.call.fresh = FALSE]
<1>1. Sound(b, x, kept[b], ledger, now) /\ Held(b, x, kept[b])
  BY Known, KnownHeld, AdvancedSound, AdvancedHeld
<1>2. Sound(b, y, kept[b], ledger, now) /\ Held(b, y, kept[b])
  BY <1>1, LookedSound, LookedHeld
<1>3. Held(b, Touched(y), kept[b])
  BY <1>2, TouchedHeld
<1>4. Becomes(b, Touched(y)) /\ BrowserStep /\ UNCHANGED <<kept, faults>>
  BY DEF Look
<1>5. QED BY <1>3, <1>4, TrackerStepBudget

LEMMA LoseCallBudget ==
    ASSUME AllowanceInv, BudgetInv, NEW b \in Browsers, LoseCall(b) PROVE BudgetInv'
<1> DEFINE x == tracker[b]
           y == [x EXCEPT !.call.answer = "failed", !.call.lease = None]
<1>1. /\ y.pending = x.pending /\ y.lease = x.lease /\ y.call.lease = None
      /\ y.call.answer = "failed" /\ y.call.kind = x.call.kind
  BY Known DEF Tracker, Call
<1>2. y.call.kind = "lease" => y.pending = <<>> /\ y.lease = None
  BY <1>1, KnownHeld DEF Held, OneLease
<1>3. Becomes(b, y) /\ BrowserStep /\ UNCHANGED kept
  BY DEF LoseCall, Becomes, AllowanceInv, TypeOK
<1> HIDE DEF y
<1>4. Held(b, y, kept[b])
  BY <1>1, <1>2, KnownHeld, CallEnds
<1>5. QED BY <1>3, <1>4, TrackerStepBudget

LEMMA FlushBudget ==
    ASSUME AllowanceInv, BudgetInv, NEW b \in Browsers, Flush(b) PROVE BudgetInv'
<1> DEFINE x == tracker[b]
<1>1. Held(b, x, x.pending)
  BY KnownHeld DEF Held, OneLease, Tight
<1>2. tracker' = [tracker EXCEPT ![b] = x]
  BY DEF Flush, AllowanceInv, TypeOK
<1>3. QED BY <1>1, <1>2, BrowserStepBudget DEF Flush, BrowserStep

LEMMA RestartBrowserBudget ==
    ASSUME AllowanceInv, BudgetInv, NEW b \in Browsers, RestartBrowser(b) PROVE BudgetInv'
<1> DEFINE x == tracker[b]
           k == kept[b]
           y == [FreshTracker EXCEPT !.pending = k]
<1>1. /\ y.pending = k /\ y.lease = None /\ y.call.lease = None
      /\ y.call.kind = "idle"
  BY DEF FreshTracker, Idle
<1> HIDE DEF y
<1>2. OneLease(y, k, issued)
  BY <1>1, KnownHeld DEF Held, OneLease
<1>3. ASSUME steady PROVE Tight(allowance, b, y, k, ledger, LeaseIds)
  <2>1. Tight(allowance, b, x, k, ledger, LeaseIds) /\ Sound(b, x, k, ledger, now)
    BY <1>3, KnownHeld DEF Held
  <2>2. Countable(b, y, ledger, LeaseIds) \subseteq Countable(b, x, ledger, LeaseIds)
    BY <1>1, <2>1 DEF Countable, Tight, Sound, Rows
  <2>3. Potential(b, y, ledger, LeaseIds) \subseteq Potential(b, x, ledger, LeaseIds)
    BY <1>1, <2>2, NoExtent, PotentialGrows
  <2>4. QED BY <1>1, <2>1, <2>3, AllowanceNumbers, TightShrinks
<1>4. Becomes(b, y) /\ BrowserStep /\ UNCHANGED kept
  BY DEF RestartBrowser, y
<1>5. QED BY <1>2, <1>3, <1>4, TrackerStepBudget DEF Held

\* A report leaves the queue as accepted, or as one of a lease that is not known.
LEMMA ReportAnsweredBudget ==
    ASSUME AllowanceInv, BudgetInv, NEW b \in Browsers, ReportAnswered(b) PROVE BudgetInv'
<1> DEFINE x == tracker[b]
           k == kept[b]
           failed == [x EXCEPT !.lease = None, !.call = Idle]
           y == [x EXCEPT !.pending = Tail(@)]
           z == [y EXCEPT !.call = Idle]
<1>1. Sound(b, x, k, ledger, now) /\ Held(b, x, k) /\ x \in Tracker /\ x.pending \in Seq(Row)
  BY Known, KnownHeld DEF Tracker
<1>2. /\ x.call.kind = "report" /\ x.call.answer # "none" /\ x.pending # <<>>
      /\ BrowserStep /\ UNCHANGED kept
      /\ x.call.answer = "failed" => Becomes(b, failed)
      /\ x.call.answer # "failed" => Becomes(b, Pumped(y))
  BY <1>1 DEF ReportAnswered, Sound
<1>3. CASE x.call.answer = "failed"
  <2>1. /\ failed.pending = x.pending /\ failed.lease = None /\ failed.call.lease = None
        /\ failed.call.answer = "none" /\ failed.call.kind = "idle"
    BY <1>1 DEF Tracker, Idle
  <2> HIDE DEF failed
  <2>2. Held(b, failed, k)
    BY <1>1, <2>1, CallEnds
  <2>3. QED BY <1>2, <1>3, <2>2, TrackerStepBudget
<1>4. CASE x.call.answer \in {"ok", "not_found"}
  <2> DEFINE h == Head(x.pending)
  <2>1. Tail(x.pending) \in Seq(Row) /\ Elems(Tail(x.pending)) \subseteq Elems(x.pending)
    BY <1>1, <1>2, TailElems
  <2>2. Elems(x.pending) = Elems(Tail(x.pending)) \cup {h}
    BY <1>1, <1>2, HeadAndTail
  <2>3. y \in Tracker /\ y.pending = Tail(x.pending) /\ y.lease = x.lease
    BY <1>1, <2>1 DEF Tracker
  <2>4. z \in Tracker /\ z.pending = Tail(x.pending) /\ z.last = x.last /\ z.lease = x.lease
        /\ z.call.kind = "idle" /\ z.call.lease = None
    BY <1>1, <2>1 DEF Tracker, Call, Answers, Idle
  <2>5. Sound(b, z, k, ledger, now)
    <3>1. Rows(b, z, k, ledger) \subseteq Rows(b, x, k, ledger)
      BY <2>1, <2>4 DEF Rows
    <3> HIDE DEF z
    <3>2. QED BY <1>1, <2>4, <3>1 DEF Sound
  <2>6. Held(b, z, k)
    <3> HIDE DEF z
    <3>1. OneLease(z, k, issued)
      BY <1>1, <2>1, <2>4 DEF Held, OneLease
    <3>2. ASSUME steady PROVE Tight(allowance, b, z, k, ledger, LeaseIds)
      <4>1. Tight(allowance, b, x, k, ledger, LeaseIds)
        BY <1>1, <3>2 DEF Held
      <4>2. h \in ledger \/ h.lease \notin LeaseIds
        BY <1>1, <1>2, <1>4, <4>1 DEF Sound, Tight
      <4>3. \A r \in Elems(k) : r \in ledger \/ r \in Elems(z.pending) \/ r.lease \notin LeaseIds
        BY <2>2, <2>4, <4>1, <4>2 DEF Tight
      <4>4. Potential(b, z, ledger, LeaseIds) \subseteq Potential(b, x, ledger, LeaseIds)
        <5>1. Countable(b, z, ledger, LeaseIds) \subseteq Countable(b, x, ledger, LeaseIds)
          BY <2>1, <2>4 DEF Countable
        <5>2. QED BY <2>4, <5>1, NoExtent, PotentialGrows
      <4>5. QED BY <1>1, <2>4, <4>1, <4>3, <4>4, AllowanceNumbers, TightShrinks
    <3>3. QED BY <3>1, <3>2 DEF Held
  <2>7. Held(b, Pumped(y), k)
    BY <2>3, <2>5, <2>6, PumpedHeld
  <2>8. QED BY <1>2, <1>4, <2>7, TrackerStepBudget
<1>5. x.call.answer \in Answers
  BY <1>1 DEF Tracker, Call
<1>6. QED BY <1>2, <1>3, <1>4, <1>5 DEF Answers

LEMMA LeaseAnsweredBudget ==
    ASSUME AllowanceInv, BudgetInv, NEW b \in Browsers, LeaseAnswered(b) PROVE BudgetInv'
<1> DEFINE x == tracker[b]
           l == x.call.lease
           last == IF x.last = None THEN Later(now, l.from) ELSE Later(x.last, l.from)
           y == IF ~x.call.fresh \/ ~x.viewing
                THEN [x EXCEPT !.lease = None, !.call = Idle]
                ELSE IF l = None THEN [x EXCEPT !.call = Idle]
                ELSE [x EXCEPT !.lease = l, !.call = Idle, !.last = last]
<1>1. Sound(b, x, kept[b], ledger, now) /\ Held(b, x, kept[b]) /\ x \in Tracker
  BY Known, KnownHeld
<1>2. /\ y.pending = x.pending /\ y.lease \in {None, x.lease, l}
      /\ y.call.lease = None /\ y.call.answer = "none" /\ y.call.kind = "idle"
  <2>1. /\ y.pending = x.pending /\ y.lease \in {None, x.lease, l} /\ y.call = Idle
    BY <1>1 DEF Tracker
  <2>2. Idle.lease = None /\ Idle.answer = "none" /\ Idle.kind = "idle"
    BY DEF Idle
  <2> HIDE DEF y
  <2>3. QED BY <2>1, <2>2
<1>3. Becomes(b, y) /\ BrowserStep /\ UNCHANGED kept
  BY DEF LeaseAnswered
<1> HIDE DEF y
<1>4. Held(b, y, kept[b])
  BY <1>1, <1>2, CallEnds
<1>5. QED BY <1>3, <1>4, TrackerStepBudget

\* Leases that are forgotten, and new ones that no row is of yet.
LEMMA LeasesChangeHeld ==
    ASSUME AllowanceInv, NEW b, NEW x, NEW k, Sound(b, x, k, ledger, now), Held(b, x, k),
           issued \in Nat, NEW n \in Nat, n >= issued,
           NEW J, \A j \in J : j \in LeaseIds \/ j > issued
    PROVE  OneLease(x, k, n) /\ (steady => Tight(allowance, b, x, k, ledger, J))
<1>1. /\ x \in Tracker /\ k \in Seq(Row)
      /\ \A r \in Rows(b, x, k, ledger) : r \in Row
      /\ x.call.kind = "report" => x.pending # <<>>
  BY DEF Sound
<1>2. OneLease(x, k, issued) /\ x.pending \in Seq(Row)
  BY <1>1 DEF Held, Tracker
<1>3. \A r \in Elems(x.pending) \cup Elems(k) : r.lease \in Nat /\ r.lease <= issued
  BY <1>1, <1>2 DEF OneLease, Rows, Row
<1>4. OneLease(x, k, n)
  <2>1. /\ x.lease # None => x.lease.id \in Nat
        /\ x.call.lease # None => x.call.lease.id \in Nat
    BY <1>1 DEF Tracker, Call, Lease
  <2>2. \A i \in Nat : i <= issued => i <= n
    OBVIOUS
  <2>3. QED BY <1>2, <1>3, <2>1, <2>2 DEF OneLease
<1>5. \A r \in Elems(x.pending) \cup Elems(k) : r.lease \notin LeaseIds => r.lease \notin J
  BY <1>3
<1>6. ASSUME steady PROVE Tight(allowance, b, x, k, ledger, J)
  <2>1. Tight(allowance, b, x, k, ledger, LeaseIds)
    BY <1>6 DEF Held
  <2>2. \A r \in Elems(k) : r \in ledger \/ r \in Elems(x.pending) \/ r.lease \notin J
    BY <1>5, <2>1 DEF Tight
  <2>3. x.call.kind = "report" /\ x.call.answer = "not_found" => Head(x.pending).lease \notin J
    BY <1>1, <1>2, <1>5, <2>1, TailElems DEF Tight
  <2>4. Countable(b, x, ledger, J) \subseteq Countable(b, x, ledger, LeaseIds)
    BY <1>5 DEF Countable
  <2>5. Potential(b, x, ledger, J) \subseteq Potential(b, x, ledger, LeaseIds)
    BY <2>4, PotentialGrows
  <2>6. QED BY <2>1, <2>2, <2>3, <2>5, AllowanceNumbers, TightShrinks
<1>7. QED BY <1>4, <1>6

\* Fewer leases, later: fewer seconds are reserved.
LEMMA FewerReserved ==
    ASSUME AllowanceInv, BudgetInv, leases' \subseteq leases, now' \in Nat, now' >= now,
           allowance' = allowance
    PROVE  IsFiniteSet(ReservedSeconds(leases))' /\ LiveLeasesWithinBudget'
<1>1. ReservedSeconds(leases)' \subseteq ReservedSeconds(leases)
  <2>1. \A l \in leases : l.to \in Nat
    BY DEF AllowanceInv, TypeOK, Lease
  <2>2. \A l \in leases' : l \in leases /\ (l.to > now' => l.to > now)
    BY <2>1, AllowanceNumbers
  <2>3. QED BY <2>2 DEF ReservedSeconds, Reserving
<1>2. IsFiniteSet(ReservedSeconds(leases)) /\ LiveLeasesWithinBudget
  BY DEF BudgetInv
<1>3. /\ IsFiniteSet(ReservedSeconds(leases)')
      /\ Cardinality(ReservedSeconds(leases)') <= Cardinality(ReservedSeconds(leases))
  BY <1>1, <1>2, FS_Subset
<1>4. Cardinality(ReservedSeconds(leases)') \in Nat /\ Cardinality(ReservedSeconds(leases)) \in Nat
  BY <1>2, <1>3, FS_CardinalityType
<1>5. /\ Cardinality(ReservedSeconds(leases)') <= allowance.quota
      /\ Cardinality(ReservedSeconds(leases)') <= allowance.cap
  BY <1>2, <1>3, <1>4, AllowanceNumbers DEF LiveLeasesWithinBudget, Reserved
<1>6. QED BY <1>3, <1>5 DEF LiveLeasesWithinBudget, Reserved

\* The service judges the report of a browser that knows nothing of the others.
LEMMA ServeReportBudget ==
    ASSUME AllowanceInv, BudgetInv, NEW b \in Browsers, ServeReport(b) PROVE BudgetInv'
<1> DEFINE x == tracker[b]
           r == Head(x.pending)
<1>1. /\ Sound(b, x, kept[b], ledger, now) /\ Held(b, x, kept[b])
      /\ x \in Tracker /\ tracker \in [Browsers -> Tracker]
  BY Known, KnownHeld DEF AllowanceInv, TypeOK
<1>2. x.call.kind = "report" /\ x.pending # <<>> /\ x.pending \in Seq(Row)
  BY <1>1 DEF ServeReport, InFlight, Sound, Tracker
<1>3. r \in Elems(x.pending) /\ r.by = b
  BY <1>1, <1>2, TailElems DEF Rows, Sound
<1>4. PICK a \in Answers :
        /\ Answer(b, a)
        /\ a = "not_found" => Refusal(r) = "not_found"
        /\ \/ ledger' = ledger
           \/ ledger' = ledger \cup {r} /\ Refusal(r) = "none"
  <2>1. Refusal(r) \in {"none", "not_found", "failed"}
    BY DEF Refusal
  <2>2. CASE Answer(b, "ok") /\ ledger' = ledger
    BY <2>2 DEF Answers
  <2>3. CASE Answer(b, Refusal(r)) /\ ledger' = ledger
    BY <2>1, <2>3 DEF Answers
  <2>4. CASE Refusal(r) = "none" /\ Accept(r) /\ Answer(b, "ok")
    BY <2>4 DEF Accept, Answers
  <2>5. CASE Answer(b, "failed") /\ ledger' = ledger
    BY <2>5 DEF Answers
  <2>6. QED BY <2>2, <2>3, <2>4, <2>5 DEF ServeReport
<1> DEFINE y == [x EXCEPT !.call.answer = a]
<1>5. /\ tracker' = [tracker EXCEPT ![b] = y]
      /\ y.pending = x.pending /\ y.lease = x.lease /\ y.call.lease = x.call.lease
      /\ y.call.kind = x.call.kind /\ y.call.answer = a
  BY <1>1, <1>4 DEF Answer, Tracker, Call
<1> HIDE DEF x, y
<1>6. UNCHANGED <<allowance, enabled, steady, leases, issued, kept, now>>
  BY DEF ServeReport, ruleVars
<1>7. LeaseIds' = LeaseIds
  BY <1>6 DEF LeaseIds
<1>8. Refusal(r) = "none" => r.lease \in LeaseIds
  BY DEF Refusal, LeaseIds
<1>9. Refusal(r) = "not_found" /\ enabled => r.lease \notin LeaseIds
  BY DEF Refusal, LeaseIds
<1>10. ASSUME NEW c \in Browsers
       PROVE  /\ OneLease(tracker'[c], kept[c], issued)
              /\ steady => Tight(allowance, c, tracker'[c], kept[c], ledger', LeaseIds)
  <2>1. CASE c = b
    <3>1. tracker'[c] = y
      BY <1>1, <1>5, <2>1
    <3>2. OneLease(y, kept[b], issued)
      BY <1>1, <1>5 DEF Held, OneLease
    <3>3. ASSUME steady PROVE Tight(allowance, b, y, kept[b], ledger', LeaseIds)
      <4>1. Tight(allowance, b, x, kept[b], ledger, LeaseIds) /\ enabled
        BY <1>1, <3>3 DEF Held, BudgetInv
      <4>2. \A s \in Elems(kept[b]) : s \in ledger' \/ s \in Elems(y.pending) \/ s.lease \notin LeaseIds
        BY <1>4, <1>5, <4>1 DEF Tight
      <4>3. y.call.kind = "report" /\ y.call.answer = "not_found" => Head(y.pending).lease \notin LeaseIds
        BY <1>4, <1>5, <1>9, <4>1
      <4>4. Countable(b, y, ledger', LeaseIds) \subseteq Countable(b, x, ledger, LeaseIds)
        BY <1>3, <1>4, <1>5, <1>8 DEF Countable
      <4>5. Potential(b, y, ledger', LeaseIds) \subseteq Potential(b, x, ledger, LeaseIds)
        BY <1>5, <4>4, PotentialGrows
      <4>6. QED BY <1>1, <4>1, <4>2, <4>3, <4>5, AllowanceNumbers, TightShrinks
    <3>4. QED BY <2>1, <3>1, <3>2, <3>3
  <2>2. CASE c # b
    <3>1. tracker'[c] = tracker[c]
      BY <1>1, <1>5, <2>2
    <3>2. Sound(c, tracker[c], kept[c], ledger, now) /\ Held(c, tracker[c], kept[c])
      BY KnownHeld
    <3>3. ASSUME steady PROVE Tight(allowance, c, tracker[c], kept[c], ledger', LeaseIds)
      <4>1. Tight(allowance, c, tracker[c], kept[c], ledger, LeaseIds)
        BY <3>2, <3>3 DEF Held
      <4>2. /\ \A s \in Elems(kept[c]) :
                  s \in ledger' \/ s \in Elems(tracker[c].pending) \/ s.lease \notin LeaseIds
            /\ tracker[c].call.kind = "report" /\ tracker[c].call.answer = "not_found"
                  => Head(tracker[c].pending).lease \notin LeaseIds
        BY <1>4, <4>1 DEF Tight
      <4>3. Countable(c, tracker[c], ledger', LeaseIds) \subseteq Countable(c, tracker[c], ledger, LeaseIds)
        BY <1>3, <1>4, <2>2 DEF Countable
      <4>4. Potential(c, tracker[c], ledger', LeaseIds) \subseteq Potential(c, tracker[c], ledger, LeaseIds)
        BY <4>3, PotentialGrows
      <4>5. QED BY <3>2, <4>1, <4>2, <4>4, AllowanceNumbers, TightShrinks
    <3>4. QED BY <3>1, <3>2, <3>3 DEF Held
  <2>3. QED BY <2>1, <2>2
<1>11. IsFiniteSet(ReservedSeconds(leases))' /\ LiveLeasesWithinBudget'
  BY <1>6, AllowanceNumbers, FewerReserved
<1>12. (\A l \in leases' : l.id <= issued') /\ (steady' => enabled')
  BY <1>6 DEF BudgetInv
<1>13. \A c \in Browsers :
         /\ OneLease(tracker'[c], kept'[c], issued')
         /\ steady' => Tight(allowance', c, tracker'[c], kept'[c], ledger', LeaseIds')
  BY <1>6, <1>7, <1>10
<1>14. QED BY <1>11, <1>12, <1>13 DEF BudgetInv

\* A lease from i on for d, of at most what the period and the day have left.
LEMMA NewLeaseAffordable ==
    ASSUME NEW a, a.quota \in Nat, a.cap \in Nat, NEW S, S \subseteq Nat, IsFiniteSet(S),
           NEW U, U \subseteq S, Affordable(a, U),
           NEW i \in Nat, NEW d \in Nat, \A s \in S : s < i,
           a.mode = "total" => Cardinality(InPeriod(S, i \div Cycle)) + d <= a.quota,
           i + d <= (i \div Cycle + 1) * Cycle,
           Cardinality(InDay(S, i \div Day)) + d <= a.cap,
           Cycle \in Nat \ {0}, Day \in Nat \ {0}
    PROVE  Affordable(a, U \cup (i .. i + d - 1))
<1> DEFINE I == i .. i + d - 1
<1>1. IsFiniteSet(I) /\ Cardinality(I) = d /\ I \subseteq Nat
  BY LengthOfLease
<1>2. IsFiniteSet(U)
  BY FS_Subset
<1>3. ASSUME NEW T, T \subseteq S PROVE Cardinality(T \cup I) <= Cardinality(T) + d /\ IsFiniteSet(T \cup I) /\ IsFiniteSet(T)
  <2>1. IsFiniteSet(T)
    BY <1>3, FS_Subset
  <2>2. /\ IsFiniteSet(T \cup I)
        /\ Cardinality(T \cup I) = Cardinality(T) + Cardinality(I) - Cardinality(T \cap I)
    BY <1>1, <2>1, FS_Union
  <2>3. Cardinality(T \cap I) \in Nat /\ Cardinality(T) \in Nat
    <3>1. IsFiniteSet(T \cap I)
      BY <2>1, FS_Intersection
    <3>2. QED BY <2>1, <3>1, FS_CardinalityType
  <2>4. QED BY <1>1, <2>1, <2>2, <2>3
<1> HIDE DEF I
\* What fits beside the lease stays within the bound.
<1>4. ASSUME NEW T, T \subseteq S, NEW m \in Nat, Cardinality(T) + d <= m, NEW V, V \subseteq T \cup I
      PROVE  Cardinality(V) <= m
  <2>1. /\ Cardinality(T \cup I) <= Cardinality(T) + d
        /\ IsFiniteSet(T \cup I) /\ IsFiniteSet(T)
    BY <1>3, <1>4
  <2>2. Cardinality(V) <= Cardinality(T \cup I) /\ IsFiniteSet(V)
    BY <1>4, <2>1, FS_Subset
  <2>3. Cardinality(V) \in Nat /\ Cardinality(T \cup I) \in Nat /\ Cardinality(T) \in Nat
    BY <2>1, <2>2, FS_CardinalityType
  <2>4. QED BY <1>4, <2>1, <2>2, <2>3
<1>5. ASSUME NEW k \in Nat, a.mode = "total" PROVE Cardinality(InPeriod(U \cup I, k)) <= a.quota
  <2>1. CASE k = i \div Cycle
    <3>1. InPeriod(U \cup I, k) \subseteq InPeriod(S, k) \cup I /\ InPeriod(S, k) \subseteq S
      BY DEF InPeriod
    <3>2. Cardinality(InPeriod(S, k)) + d <= a.quota
      BY <1>5, <2>1
    <3>3. QED BY <1>4, <3>1, <3>2
  <2>2. CASE k # i \div Cycle
    <3>1. ASSUME NEW s \in I PROVE s \div Cycle = i \div Cycle
      <4>1. s \in Nat /\ s >= i /\ s < (i \div Cycle + 1) * Cycle
        BY <1>5 DEF I
      <4>2. QED BY <4>1, SamePeriod
    <3>2. InPeriod(U \cup I, k) = InPeriod(U, k)
      BY <2>2, <3>1 DEF InPeriod
    <3>3. QED BY <1>5, <3>2 DEF Affordable
  <2>3. QED BY <2>1, <2>2
<1>6. ASSUME NEW k \in Nat PROVE Cardinality(InDay(U \cup I, k)) <= a.cap
  <2>1. CASE k = i \div Day
    <3>1. InDay(U \cup I, k) \subseteq InDay(S, k) \cup I /\ InDay(S, k) \subseteq S
      BY DEF InDay
    <3>2. QED BY <1>4, <2>1, <3>1
  <2>2. CASE k < i \div Day
    <3>1. ASSUME NEW s \in I PROVE s \div Day >= i \div Day /\ s \div Day \in Nat /\ i \div Day \in Nat
      <4>1. s \in Nat /\ s >= i
        BY DEF I
      <4>2. QED BY <4>1, DivGrows
    <3>2. InDay(U \cup I, k) = InDay(U, k)
      BY <2>2, <3>1 DEF InDay
    <3>3. QED BY <3>2 DEF Affordable
  <2>3. CASE k > i \div Day
    <3>1. ASSUME NEW s \in U PROVE s \div Day <= i \div Day /\ s \div Day \in Nat /\ i \div Day \in Nat
      <4>1. s \in Nat /\ s <= i
        OBVIOUS
      <4>2. QED BY <4>1, DivGrows
    <3>2. InDay(U \cup I, k) \subseteq {} \cup I
      <4>1. \A s \in U : s \div Day # k
        BY <2>3, <3>1
      <4>2. QED BY <4>1 DEF InDay
    <3>3. Cardinality({}) + d <= a.cap
      <4>1. IsFiniteSet(InDay(S, i \div Day))
        BY FS_Subset DEF InDay
      <4>2. Cardinality(InDay(S, i \div Day)) \in Nat
        BY <4>1, FS_CardinalityType
      <4>3. QED BY <4>2, FS_EmptySet
    <3>4. {} \subseteq S
      OBVIOUS
    <3>5. QED BY <1>4, <3>2, <3>3, <3>4
  <2>4. i \div Day \in Nat
    BY DivGrows
  <2>5. QED BY <2>1, <2>2, <2>3, <2>4
<1>7. QED BY <1>5, <1>6 DEF Affordable, I

LEMMA InPeriodStarts ==
    ASSUME NEW n \in Nat \ {0}, NEW i \in Nat
    PROVE  i >= (i \div n) * n /\ i \div n \in Nat
OBVIOUS

\* What the service checks before it gives a lease.
LEMMA LengthFits ==
    ASSUME AllowanceInv, IsFiniteSet(ReservedSeconds(leases)), NEW d \in Lengths
    PROVE  LET S == Before(Units(ledger), now)
           IN  /\ d \in Nat /\ d >= 1
               /\ Reserved(leases) + d <= allowance.quota /\ Reserved(leases) + d <= allowance.cap
               /\ S \subseteq Nat /\ IsFiniteSet(S)
               /\ allowance.mode = "total"
                     => Cardinality(InPeriod(S, now \div Cycle)) + d <= allowance.quota
               /\ now + d <= (now \div Cycle + 1) * Cycle
               /\ Cardinality(InDay(S, now \div Day)) + d <= allowance.cap
<1> DEFINE S == Before(Units(ledger), now)
           p == PeriodUsed(S, now)
           u == DayUsed(S, now)
<1>1. S \subseteq Nat /\ IsFiniteSet(S)
  <2>1. Units(ledger) \subseteq Nat
    BY DEF AllowanceInv, TypeOK, Units, Row
  <2>2. S \in SUBSET Nat /\ \A s \in S : s <= now
    BY <2>1, AllowanceNumbers DEF Before
  <2>3. QED BY <2>2, AllowanceNumbers, FS_BoundedSetOfNaturals
<1>2. d \in Nat /\ d >= 1
  BY AllowanceAssumption DEF Lengths
<1>3. now + d <= OccurrenceEnd(now) /\ Reserved(leases) + d <= Remaining(S, now)
  BY DEF Lengths
<1> HIDE DEF S
<1>4. p \in Nat /\ u \in Nat
  <2>1. IsFiniteSet({s \in UsedInPeriod(S, now) : s >= WindowStart(S, now)})
    BY <1>1, FS_Subset DEF UsedInPeriod
  <2>2. IsFiniteSet({s \in S : s \div Day = now \div Day})
    BY <1>1, FS_Subset
  <2>3. QED BY <2>1, <2>2, FS_CardinalityType DEF PeriodUsed, DayUsed
<1>5. u = Cardinality(InDay(S, now \div Day))
  BY DEF DayUsed, InDay
<1>6. ASSUME allowance.mode = "total" PROVE p = Cardinality(InPeriod(S, now \div Cycle))
  <2>1. WindowStart(S, now) = (now \div Cycle) * Cycle
    BY <1>6 DEF WindowStart, Occurrence
  <2>2. \A s \in S : s >= (s \div Cycle) * Cycle
    BY <1>1, AllowanceNumbers, InPeriodStarts
  <2>3. {s \in UsedInPeriod(S, now) : s >= WindowStart(S, now)} = InPeriod(S, now \div Cycle)
    BY <2>1, <2>2 DEF UsedInPeriod, Occurrence, InPeriod
  <2>4. QED BY <2>3 DEF PeriodUsed
<1>7. Reserved(leases) \in Nat
  BY FS_CardinalityType DEF Reserved
<1> HIDE DEF p, u
<1>8. /\ Reserved(leases) + d + p <= allowance.quota
      /\ Reserved(leases) + d + u <= allowance.cap
  <2>1. Reserved(leases) + d <= Least(Left(allowance.quota, p), Left(allowance.cap, u))
    BY <1>3 DEF Remaining, p, u
  <2>2. QED BY <1>2, <1>4, <1>7, <2>1, AllowanceNumbers DEF Least, Left
<1>9. now + d <= (now \div Cycle + 1) * Cycle
  <2>1. now \div Cycle \in Nat
    BY AllowanceNumbers, InPeriodStarts
  <2>2. now + d <= (now \div Cycle) * Cycle + Length
    BY <1>3 DEF OccurrenceEnd, Occurrence
  <2>3. (now \div Cycle + 1) * Cycle = (now \div Cycle) * Cycle + Cycle
    BY <2>1, AllowanceNumbers
  <2>4. (now \div Cycle) * Cycle \in Nat
    BY <2>1, AllowanceNumbers
  <2>5. QED BY <1>2, <2>2, <2>3, <2>4, AllowanceNumbers
<1>10. /\ Reserved(leases) + d <= allowance.quota /\ Reserved(leases) + d <= allowance.cap
       /\ d + p <= allowance.quota /\ d + u <= allowance.cap
  BY <1>2, <1>4, <1>7, <1>8, AllowanceNumbers
<1>11. /\ allowance.mode = "total" => Cardinality(InPeriod(S, now \div Cycle)) + d <= allowance.quota
       /\ Cardinality(InDay(S, now \div Day)) + d <= allowance.cap
  BY <1>2, <1>4, <1>5, <1>6, <1>10
<1>12. QED BY <1>1, <1>2, <1>9, <1>10, <1>11 DEF S

\* A new lease is reserved beside those that are still in use.
LEMMA GrantReserves ==
    ASSUME AllowanceInv, BudgetInv, NEW d \in Lengths, NEW l \in Lease,
           l.from = now, l.to = now + d,
           leases' = Kept(leases) \cup {l}, now' = now, allowance' = allowance
    PROVE  IsFiniteSet(ReservedSeconds(leases))' /\ LiveLeasesWithinBudget'
<1> DEFINE R == ReservedSeconds(leases)
           I == {l} \X (now .. now + d - 1)
           T == ReservedSeconds(leases)'
<1>1. IsFiniteSet(R) /\ Cardinality(R) \in Nat /\ Reserved(leases) = Cardinality(R)
  BY FS_CardinalityType DEF BudgetInv, Reserved
<1>2. d \in Nat /\ d >= 1 /\ now \in Nat
      /\ Reserved(leases) + d <= allowance.quota /\ Reserved(leases) + d <= allowance.cap
  BY <1>1, LengthFits, AllowanceNumbers
<1>3. IsFiniteSet(I) /\ Cardinality(I) = d
  <2> DEFINE J == now .. now + d - 1
  <2>1. IsFiniteSet(J) /\ Cardinality(J) = d
    BY <1>2, LengthOfLease
  <2> HIDE DEF J
  <2>2. IsFiniteSet({l} \X J) /\ Cardinality({l} \X J) = d
    BY <1>2, <2>1, SameLength
  <2>3. QED BY <2>2 DEF J
<1>4. T \subseteq R \cup I
  <2>1. \A x \in leases' : x \in leases \/ x = l
    BY DEF Kept
  <2>2. \A x \in leases' : (x.to > now)' <=> x.to > now
    OBVIOUS
  <2>3. T = UNION {{x} \X (x.from .. x.to - 1) : x \in {y \in leases' : y.to > now}}
    BY DEF ReservedSeconds, Reserving
  <2>4. R = UNION {{x} \X (x.from .. x.to - 1) : x \in {y \in leases : y.to > now}}
    BY DEF ReservedSeconds, Reserving
  <2>5. {l} \X (l.from .. l.to - 1) = I
    <3>1. l.from .. l.to - 1 = now .. now + d - 1
      BY <1>2, SameExtent
    <3>2. QED BY <3>1
  <2>6. ASSUME NEW x \in leases', x.to > now
        PROVE  {x} \X (x.from .. x.to - 1) \subseteq R \cup I
    <3> HIDE DEF I, T
    <3>1. CASE x = l
      BY <2>5, <3>1
    <3>2. CASE x # l
      <4>1. x \in leases
        BY <2>1, <3>2
      <4>2. QED BY <2>4, <2>6, <4>1
    <3>3. QED BY <3>1, <3>2
  <2> HIDE DEF R, I, T
  <2>7. QED BY <2>3, <2>6
<1> HIDE DEF R, I, T
<1>5. /\ IsFiniteSet(R \cup I)
      /\ Cardinality(R \cup I) = Cardinality(R) + Cardinality(I) - Cardinality(R \cap I)
  BY <1>1, <1>3, FS_Union
<1>6. Cardinality(R \cap I) \in Nat
  <2>1. IsFiniteSet(R \cap I)
    BY <1>1, FS_Intersection
  <2>2. QED BY <2>1, FS_CardinalityType
<1>7. IsFiniteSet(T) /\ Cardinality(T) <= Cardinality(R \cup I)
  BY <1>4, <1>5, FS_Subset
<1>8. Cardinality(T) \in Nat
  BY <1>7, FS_CardinalityType
<1>9. Cardinality(T) <= allowance.quota /\ Cardinality(T) <= allowance.cap
  BY <1>1, <1>2, <1>3, <1>5, <1>6, <1>7, <1>8, AllowanceNumbers
<1>10. QED BY <1>7, <1>9 DEF LiveLeasesWithinBudget, Reserved, T

LEMMA ServeLeaseBudget ==
    ASSUME AllowanceInv, BudgetInv, NEW b \in Browsers, ServeLease(b) PROVE BudgetInv'
<1> DEFINE x == tracker[b]
           S == Before(Units(ledger), now)
<1>1. /\ Sound(b, x, kept[b], ledger, now) /\ Held(b, x, kept[b])
      /\ x \in Tracker /\ tracker \in [Browsers -> Tracker] /\ x.call.kind = "lease"
  BY Known, KnownHeld DEF AllowanceInv, TypeOK, ServeLease, InFlight
<1>2. UNCHANGED <<allowance, enabled, steady, ledger, kept, now>>
  BY DEF ServeLease, ruleVars
<1>3. x.pending = <<>> /\ x.lease = None /\ Elems(x.pending) = {}
  BY <1>1 DEF Held, OneLease, Elems
<1>4. CASE \E d \in Lengths : Grants(b, d)
  <2>1. PICK d \in Lengths : Grants(b, d)
    BY <1>4
  <2> DEFINE l == [by |-> b, id |-> issued + 1, from |-> now, to |-> now + d]
             y == [x EXCEPT !.call.answer = "ok", !.call.lease = l]
             J == LeaseIds'
  <2>2. /\ d \in Nat /\ d >= 1 /\ S \subseteq Nat /\ IsFiniteSet(S)
        /\ allowance.mode = "total" => Cardinality(InPeriod(S, now \div Cycle)) + d <= allowance.quota
        /\ now + d <= (now \div Cycle + 1) * Cycle
        /\ Cardinality(InDay(S, now \div Day)) + d <= allowance.cap
    BY LengthFits DEF BudgetInv
  <2>3. l \in Lease /\ l.from = now /\ l.to = now + d /\ l.id = issued + 1
    BY <2>2, AllowanceNumbers DEF Lease
  <2>4. /\ leases' = Kept(leases) \cup {l} /\ issued' = issued + 1
        /\ tracker' = [tracker EXCEPT ![b] = y]
    BY <1>1, <2>1 DEF Grants, Tracker, Call
  <2>5. /\ y.pending = x.pending /\ y.lease = None /\ y.call.lease = l
        /\ y.call.kind = "lease"
    BY <1>1, <1>3 DEF Tracker, Call
  <2>6. IsFiniteSet(ReservedSeconds(leases))' /\ LiveLeasesWithinBudget'
    <3> HIDE DEF l, y
    <3>1. QED BY <1>2, <2>3, <2>4, GrantReserves
  <2>7. Kept(leases) \subseteq leases /\ \A m \in leases : m.id \in Nat /\ m.id <= issued
    BY DEF Kept, BudgetInv, AllowanceInv, TypeOK, Lease
  <2> HIDE DEF l, y
  <2>8. \A m \in leases' : m.id <= issued'
    BY <2>3, <2>4, <2>7, AllowanceNumbers
  <2>9. \A j \in J : j \in LeaseIds \/ j > issued
    BY <2>3, <2>4, <2>7, AllowanceNumbers DEF LeaseIds
  <2>10. issued + 1 \in Nat /\ issued + 1 >= issued
    BY AllowanceNumbers
  <2> HIDE DEF J
  <2>11. ASSUME NEW c \in Browsers
         PROVE  /\ OneLease(tracker[c], kept[c], issued + 1)
                /\ steady => Tight(allowance, c, tracker[c], kept[c], ledger, J)
    BY <2>9, <2>10, KnownHeld, LeasesChangeHeld, AllowanceNumbers
  <2>12. OneLease(y, kept[b], issued + 1)
    BY <1>3, <2>3, <2>5, <2>10, <2>11 DEF OneLease
  <2>13. ASSUME steady PROVE Tight(allowance, b, y, kept[b], ledger, J)
    <3> DEFINE U == Units({r \in ledger : r.by = b})
    <3>1. Tight(allowance, b, x, kept[b], ledger, J)
      BY <2>11, <2>13
    <3>2. U \subseteq Potential(b, x, ledger, J)
      BY DEF Units, Potential, Countable
    <3>3. Affordable(allowance, U)
      BY <1>1, <3>1, <3>2, PotentialFinite, AffordableShrinks, AllowanceNumbers DEF Tight
    <3>4. U \subseteq S /\ \A s \in S : s < now
      <4>1. \A r \in ledger : r.by = b => r \in Row /\ r.to <= now
        BY <1>1 DEF Sound, Rows
      <4>2. QED BY <4>1, AllowanceNumbers DEF Units, Before, Row
    <3>5. Affordable(allowance, U \cup (now .. now + d - 1))
      <4> HIDE DEF U, S
      <4>1. QED BY <2>2, <3>3, <3>4, AllowanceNumbers, NewLeaseAffordable
    <3>6. Potential(b, y, ledger, J) \subseteq U \cup (now .. now + d - 1)
      <4>1. Countable(b, y, ledger, J) = {r \in ledger : r.by = b}
        BY <1>3, <2>5 DEF Countable
      <4>2. l.from .. l.to - 1 = now .. now + d - 1
        BY <2>2, <2>3, AllowanceNumbers, SameExtent
      <4>3. Extent(l) \subseteq now .. now + d - 1
        BY <4>2 DEF Extent
      <4>4. QED BY <2>5, <4>1, <4>3, NoExtent DEF Potential
    <3>7. IsFiniteSet(U \cup (now .. now + d - 1))
      <4>1. IsFiniteSet(U)
        BY <2>2, <3>4, FS_Subset
      <4>2. IsFiniteSet(now .. now + d - 1)
        BY <2>2, AllowanceNumbers, LengthOfLease
      <4>3. QED BY <4>1, <4>2, FS_Union
    <3>8. Affordable(allowance, Potential(b, y, ledger, J))
      <4> HIDE DEF U
      <4>1. QED BY <3>5, <3>6, <3>7, AllowanceNumbers, AffordableShrinks
    <3>9. \A r \in Elems(kept[b]) : r \in ledger \/ r \in Elems(y.pending) \/ r.lease \notin J
      BY <2>5, <3>1 DEF Tight
    <3>10. QED BY <2>5, <3>8, <3>9 DEF Tight
  <2>14. ASSUME NEW c \in Browsers
         PROVE  /\ OneLease(tracker'[c], kept[c], issued + 1)
                /\ steady => Tight(allowance, c, tracker'[c], kept[c], ledger, J)
    <3>1. CASE c = b
      <4>1. tracker'[c] = y
        BY <1>1, <2>4, <3>1
      <4>2. QED BY <2>12, <2>13, <3>1, <4>1
    <3>2. CASE c # b
      <4>1. tracker'[c] = tracker[c]
        BY <1>1, <2>4, <3>2
      <4>2. QED BY <2>11, <4>1
    <3>3. QED BY <3>1, <3>2
  <2>15. \A c \in Browsers :
            /\ OneLease(tracker'[c], kept'[c], issued')
            /\ steady' => Tight(allowance', c, tracker'[c], kept'[c], ledger', LeaseIds')
    BY <1>2, <2>4, <2>14 DEF J
  <2>16. steady' => enabled'
    BY <1>2 DEF BudgetInv
  <2>17. QED BY <2>6, <2>8, <2>15, <2>16 DEF BudgetInv
<1>5. CASE leases' \subseteq leases /\ UNCHANGED issued /\ Answer(b, "failed")
  <2> DEFINE y == [x EXCEPT !.call.answer = "failed"]
             J == LeaseIds'
  <2>1. /\ tracker' = [tracker EXCEPT ![b] = y]
        /\ y.pending = x.pending /\ y.lease = x.lease /\ y.call.lease = x.call.lease
        /\ y.call.kind = "lease"
    BY <1>1, <1>5 DEF Answer, Tracker, Call
  <2>2. IsFiniteSet(ReservedSeconds(leases))' /\ LiveLeasesWithinBudget'
    BY <1>2, <1>5, AllowanceNumbers, FewerReserved
  <2>3. (\A m \in leases' : m.id <= issued') /\ (steady' => enabled')
    BY <1>2, <1>5 DEF BudgetInv
  <2>4. \A j \in J : j \in LeaseIds
    BY <1>5 DEF LeaseIds
  <2> HIDE DEF y, J
  <2>5. ASSUME NEW c \in Browsers
        PROVE  /\ OneLease(tracker[c], kept[c], issued)
               /\ steady => Tight(allowance, c, tracker[c], kept[c], ledger, J)
    BY <2>4, KnownHeld, LeasesChangeHeld, AllowanceNumbers
  <2>6. OneLease(y, kept[b], issued)
    BY <2>1, <2>5, <1>1 DEF OneLease
  <2>7. ASSUME steady PROVE Tight(allowance, b, y, kept[b], ledger, J)
    <3>1. Potential(b, y, ledger, J) = Potential(b, x, ledger, J)
      BY <2>1 DEF Potential, Countable
    <3>2. QED BY <2>1, <2>5, <2>7, <3>1 DEF Tight
  <2>8. ASSUME NEW c \in Browsers
        PROVE  /\ OneLease(tracker'[c], kept[c], issued)
               /\ steady => Tight(allowance, c, tracker'[c], kept[c], ledger, J)
    <3>1. CASE c = b
      <4>1. tracker'[c] = y
        BY <1>1, <2>1, <3>1
      <4>2. QED BY <2>6, <2>7, <3>1, <4>1
    <3>2. CASE c # b
      <4>1. tracker'[c] = tracker[c]
        BY <1>1, <2>1, <3>2
      <4>2. QED BY <2>5, <4>1
    <3>3. QED BY <3>1, <3>2
  <2>9. \A c \in Browsers :
            /\ OneLease(tracker'[c], kept'[c], issued')
            /\ steady' => Tight(allowance', c, tracker'[c], kept'[c], ledger', LeaseIds')
    BY <1>2, <1>5, <2>8 DEF J
  <2>10. QED BY <2>2, <2>3, <2>9 DEF BudgetInv
<1>6. QED BY <1>4, <1>5 DEF ServeLease, Kept

\* Steps of the service and of the environment that no browser takes part in.
LEMMA OtherStepBudget ==
    ASSUME AllowanceInv, BudgetInv,
           RestartService \/ Elapse \/ \E on \in BOOLEAN : EnableRule(on) \/ SetTrust(on)
    PROVE  BudgetInv'
<1>1. /\ UNCHANGED <<allowance, ledger, issued, tracker, kept>>
      /\ leases' \subseteq leases /\ now' \in Nat /\ now' >= now
      /\ steady' => steady /\ (steady' => enabled')
  BY AllowanceNumbers
     DEF RestartService, Elapse, EnableRule, SetTrust, service, ruleVars, AllowanceInv, BudgetInv
<1>2. IsFiniteSet(ReservedSeconds(leases))' /\ LiveLeasesWithinBudget'
  BY <1>1, FewerReserved
<1>3. \A l \in leases' : l.id <= issued'
  BY <1>1 DEF BudgetInv
<1> DEFINE J == LeaseIds'
<1>4. \A j \in J : j \in LeaseIds
  BY <1>1 DEF LeaseIds
<1> HIDE DEF J
<1>5. ASSUME NEW c \in Browsers
      PROVE  /\ OneLease(tracker[c], kept[c], issued)
             /\ steady => Tight(allowance, c, tracker[c], kept[c], ledger, J)
  BY <1>4, KnownHeld, LeasesChangeHeld, AllowanceNumbers
<1>6. \A c \in Browsers :
          /\ OneLease(tracker'[c], kept'[c], issued')
          /\ steady' => Tight(allowance', c, tracker'[c], kept'[c], ledger', LeaseIds')
  BY <1>1, <1>5 DEF J
<1>7. QED BY <1>1, <1>2, <1>3, <1>6 DEF BudgetInv

LEMMA InitBudget == ASSUME Init PROVE BudgetInv
<1>1. /\ allowance \in Allowances /\ enabled = TRUE /\ ledger = {} /\ leases = {} /\ issued = 0
  BY DEF Init
<1>2. ReservedSeconds(leases) = {} /\ LeaseIds = {}
  BY <1>1 DEF ReservedSeconds, LeaseIds
<1>3. allowance.quota \in Nat /\ allowance.cap \in Nat
  BY <1>1, AllowanceAssumption
<1>4. IsFiniteSet(ReservedSeconds(leases)) /\ LiveLeasesWithinBudget
  BY <1>2, <1>3, FS_EmptySet DEF LiveLeasesWithinBudget, Reserved
<1>5. ASSUME NEW b \in Browsers
      PROVE  OneLease(tracker[b], kept[b], issued) /\ Tight(allowance, b, tracker[b], kept[b], ledger, LeaseIds)
  <2>1. tracker[b] = FreshTracker /\ kept[b] = <<>>
    BY DEF Init
  <2>2. /\ FreshTracker.lease = None /\ FreshTracker.call.lease = None
        /\ FreshTracker.call.kind = "idle" /\ FreshTracker.pending = <<>>
    BY DEF FreshTracker, Idle
  <2>3. Elems(<<>>) = {}
    BY DEF Elems
  <2>4. Potential(b, FreshTracker, {}, {}) = {}
    BY <2>2, NoExtent DEF Potential, Countable, Units
  <2>5. Affordable(allowance, {})
    <3>1. \A k : InPeriod({}, k) = {} /\ InDay({}, k) = {}
      BY DEF InPeriod, InDay
    <3>2. QED BY <1>3, <3>1, FS_EmptySet DEF Affordable
  <2>6. QED BY <1>1, <1>2, <2>1, <2>2, <2>3, <2>4, <2>5 DEF OneLease, Tight
<1>6. QED BY <1>1, <1>4, <1>5 DEF BudgetInv

LEMMA BudgetStep == AllowanceInv /\ BudgetInv /\ [Next]_vars => BudgetInv'
<1>1. SUFFICES ASSUME AllowanceInv, BudgetInv, [Next]_vars PROVE BudgetInv'
  OBVIOUS
<1>2. CASE UNCHANGED vars
  <2>1. UNCHANGED <<service, tracker, kept, now>>
    BY <1>2 DEF vars
  <2>2. UNCHANGED <<allowance, enabled, steady, ledger, leases, issued>>
    BY <2>1 DEF service, ruleVars
  <2>3. IsFiniteSet(ReservedSeconds(leases))' /\ LiveLeasesWithinBudget'
    BY <1>1, <2>1, <2>2, AllowanceNumbers, FewerReserved
  <2>4. LeaseIds' = LeaseIds
    BY <2>2 DEF LeaseIds
  <2>5. QED BY <1>1, <2>1, <2>2, <2>3, <2>4 DEF BudgetInv
<1>3. ASSUME NEW b \in Browsers,
             \/ ServeReport(b) \/ ServeLease(b)
             \/ Pulse(b) \/ ReportAnswered(b) \/ LeaseAnswered(b)
             \/ Flush(b) \/ RestartBrowser(b) \/ LoseCall(b)
             \/ \E v \in BOOLEAN : Look(b, v)
      PROVE  BudgetInv'
  BY <1>1, <1>3, ServeReportBudget, ServeLeaseBudget, PulseBudget, ReportAnsweredBudget,
     LeaseAnsweredBudget, FlushBudget, RestartBrowserBudget, LoseCallBudget, LookBudget
<1>4. CASE RestartService \/ Elapse \/ \E on \in BOOLEAN : EnableRule(on) \/ SetTrust(on)
  BY <1>1, <1>4, OtherStepBudget
<1>5. QED BY <1>1, <1>2, <1>3, <1>4 DEF Next

LEMMA BudgetInvariance == Spec => []BudgetInv
BY InitBudget, Invariance, BudgetStep, PTL DEF Spec

\* What a browser has spent is affordable.
LEMMA SpentAffordable ==
    ASSUME AllowanceInv, BudgetInv, steady, NEW b \in Browsers
    PROVE  Affordable(allowance, Units({r \in ledger : r.by = b}))
<1>1. Sound(b, tracker[b], kept[b], ledger, now) /\ Held(b, tracker[b], kept[b])
  BY KnownHeld
<1>2. Units({r \in ledger : r.by = b}) \subseteq Potential(b, tracker[b], ledger, LeaseIds)
  BY DEF Units, Potential, Countable
<1>3. QED BY <1>1, <1>2, PotentialFinite, AffordableShrinks, AllowanceNumbers DEF Held, Tight

LEMMA AffordableRespects ==
    ASSUME AllowanceInv, NEW S, S \subseteq Nat, Affordable(allowance, S)
    PROVE  PeriodsRespected(S) /\ DaysRespected(S)
<1>1. \A i \in S : i \div Cycle \in Nat /\ i \div Day \in Nat
  BY AllowanceNumbers, DivGrows
<1>2. QED BY <1>1 DEF Affordable, InPeriod, InDay, PeriodsRespected, DaysRespected

\* Leases that may still be used, those that a browser has given up included, never
\* add up to more than the budget or the day's cap.
THEOREM LiveLeasesWithinBudgetAlways == Spec => []LiveLeasesWithinBudget
<1>1. BudgetInv => LiveLeasesWithinBudget
  BY DEF BudgetInv
<1>2. QED BY <1>1, BudgetInvariance, PTL

\* No browser gets more accepted in a local day than the cap, for any allowance.
THEOREM DayCapRespected ==
    Spec => [](steady => \A b \in Browsers : DaysRespected(Units({r \in ledger : r.by = b})))
<1>1. AllowanceInv /\ BudgetInv =>
        (steady => \A b \in Browsers : DaysRespected(Units({r \in ledger : r.by = b})))
  <2>1. SUFFICES ASSUME AllowanceInv, BudgetInv, steady, NEW b \in Browsers
                 PROVE  DaysRespected(Units({r \in ledger : r.by = b}))
    OBVIOUS
  <2>2. Units({r \in ledger : r.by = b}) \subseteq Nat
    BY <2>1 DEF AllowanceInv, TypeOK, Units, Row
  <2>3. QED BY <2>1, <2>2, SpentAffordable, AffordableRespects
<1>2. QED BY <1>1, Invariance, BudgetInvariance, PTL

\* No browser gets more accepted than a whole budget allows in a period and a day;
\* budgets refilled by windows are left to the runs.
THEOREM WholeBudgetsHold ==
    Spec => [](allowance.mode = "total" => NoBrowserOverspends)
<1>1. AllowanceInv /\ BudgetInv => (allowance.mode = "total" => NoBrowserOverspends)
  <2>1. SUFFICES ASSUME AllowanceInv, BudgetInv, allowance.mode = "total", steady, NEW b \in Browsers
                 PROVE  InBudget({r \in ledger : r.by = b})
    BY DEF NoBrowserOverspends, EachInBudget
  <2> DEFINE S == Units({r \in ledger : r.by = b})
  <2>2. S \subseteq Nat
    BY <2>1 DEF AllowanceInv, TypeOK, Units, Row
  <2>3. PeriodsRespected(S) /\ DaysRespected(S)
    BY <2>1, <2>2, SpentAffordable, AffordableRespects
  <2>4. WindowsRespected(S)
    BY <2>1 DEF WindowsRespected
  <2>5. QED BY <2>3, <2>4 DEF InBudget
<1>2. QED BY <1>1, Invariance, BudgetInvariance, PTL

-----------------------------------------------------------------------------
(* The adapter of the browser extension. *)

\* From the update of the dynamic rules to the end of the refresh, and after
\* it, the rules are those of the policy that the refresh takes over.
MatchersInv ==
    /\ Paused \/ refreshed => ready
    /\ refresh.at = "replaced" => dynamic = Blocks(refresh.doc)
    /\ refresh.at = "committed" => dynamic = Blocks(applied)
    /\ up /\ refreshed /\ ~Paused => dynamic = Blocks(applied)

\* What the session rules should be.
Target == {b \in Numbered(Timed(applied)) : b.site \notin available}

\* In the first life of the worker it knows the session rules; the last update
\* of the queue removes all of them and adds those that there should be.
LeasesInv ==
    stops = 0 =>
        /\ up
        /\ ~ready => snapshot = NoPolicy
        /\ session = blockIds
        /\ lease \in Timed(applied) \cup {NoSite}
        /\ rebuild # NotRunning => /\ rebuild.remove = {b.id : b \in blockIds}
                                   /\ waiting = 0 => rebuild.add = Target
        /\ Queued = 0 /\ applied # NoPolicy => session = Target

AdapterInv == AdapterTypeOK /\ MatchersInv /\ LeasesInv

LEMMA NumberedRules == ASSUME NEW sites PROVE Numbered(sites) \subseteq SessionRule
<1> SUFFICES ASSUME NEW n \in Numbers, Rules[n] \in sites
             PROVE  [id |-> Cardinality({m \in 1 .. n : Rules[m] \in sites}), site |-> Rules[n]] \in SessionRule
  BY DEF Numbered
<1>1. Rules \in Seq(Sites) /\ Numbers = 1 .. Len(Rules) /\ Len(Rules) \in Nat
  BY ChromiumAssumption DEF Numbers
<1>2. Rules[n] \in Sites
  BY <1>1
<1> DEFINE S == {m \in 1 .. n : Rules[m] \in sites}
<1>3. IsFiniteSet(1 .. n) /\ Cardinality(1 .. n) = n
  BY <1>1, FS_Interval
<1>4. S \subseteq 1 .. n /\ n \in S
  BY <1>1
<1>5. IsFiniteSet(S) /\ Cardinality(S) <= n
  BY <1>3, <1>4, FS_Subset
<1>6. Cardinality(S) \in Nat /\ Cardinality(S) # 0
  BY <1>4, <1>5, FS_CardinalityType, FS_EmptySet
<1>7. Cardinality(S) \in Numbers
  BY <1>1, <1>5, <1>6
<1> QED BY <1>2, <1>7 DEF SessionRule

LEMMA KindsOfSites == ASSUME NEW p PROVE Blocks(p) \subseteq Sites /\ Timed(p) \subseteq Sites
BY DEF Blocks, Timed, OfKind

LEMMA NoPolicyIsEmpty == Blocks(NoPolicy) = {} /\ Timed(NoPolicy) = {}
BY DEF Blocks, Timed, OfKind

Stages == {"idle", "asking", "answered", "replaced", "committed"}

LEMMA RefreshTyped ==
    ASSUME NEW r \in Refresh, NEW a \in Stages, NEW d \in Policies \cup {NoPolicy}, NEW n \in Nat
    PROVE  /\ [r EXCEPT !.at = a] \in Refresh /\ [r EXCEPT !.at = a].at = a
           /\ [r EXCEPT !.at = a, !.doc = d] \in Refresh /\ [r EXCEPT !.at = a, !.doc = d].at = a
           /\ [r EXCEPT !.at = a, !.ahead = n] \in Refresh
           /\ [r EXCEPT !.at = a, !.ahead = n].at = a
           /\ [r EXCEPT !.at = a].doc = r.doc
BY DEF Refresh, Stages

LEMMA IdleRefreshTyped == IdleRefresh \in Refresh /\ IdleRefresh.at = "idle"
BY DEF IdleRefresh, Refresh

LEMMA NearerTyped ==
    /\ \A r \in Refresh : Nearer(r) \in Refresh /\ Nearer(r).at = r.at /\ Nearer(r).doc = r.doc
    /\ \A o \in Opening : Nearer(o) \in Opening
    /\ \A l \in Leaving : Nearer(l) \in Leaving
BY DEF Nearer, Refresh, Opening, Leaving

\* Only what the worker keeps outside of its memory is left.
LEMMA MemoryTyped ==
    ASSUME NEW b \in BOOLEAN, Memory(b)
    PROVE  /\ up' = b /\ ready' = FALSE /\ restoring' = 0 /\ applied' = NoPolicy /\ available' = {}
           /\ blockIds' = {} /\ waiting' = 0 /\ rebuild' = NotRunning
           /\ refresh' \in Refresh /\ refresh'.at \in {"idle", "asking"}
           /\ url' = NoSite /\ lease' = NoSite /\ opening' = NotRunning /\ leaving' = {} /\ refreshed' = FALSE
BY DEF Memory, Refresh, IdleRefresh

LEMMA QueuedIsNat == AdapterTypeOK => Queued \in Nat
BY DEF Queued, AdapterTypeOK

LEMMA AdapterInitInv == AdapterInit => AdapterInv
<1> SUFFICES ASSUME AdapterInit PROVE AdapterInv
  OBVIOUS
<1>1. refresh \in Refresh /\ refresh.at = "asking"
  BY IdleRefreshTyped, RefreshTyped DEF AdapterInit, Stages, IdleRefresh, Refresh
<1>2. /\ policy \in Policies /\ dynamic = {} /\ session = {} /\ snapshot = NoPolicy
      /\ up = TRUE /\ ready = FALSE /\ restoring = 0 /\ applied = NoPolicy /\ available = {}
      /\ blockIds = {} /\ waiting = 0 /\ rebuild = NotRunning
      /\ url = NoSite /\ lease = NoSite /\ opening = NotRunning /\ leaving = {} /\ seen = NoSite
      /\ page = NoSite /\ front = TRUE /\ refreshed = FALSE
      /\ stops = 0 /\ edits = 0 /\ failures = 0
  BY DEF AdapterInit
<1>3. AdapterTypeOK
  <2>1. 0 \in Nat /\ 0 \in 0 .. MaxFailures /\ 0 \in 0 .. MaxEdits
    BY ChromiumAssumption
  <2>2. refresh \in Refresh /\ applied \in Policies \cup {NoPolicy} /\ snapshot \in Policies \cup {NoPolicy}
    BY <1>1, <1>2
  <2>3. up \in BOOLEAN /\ ready \in BOOLEAN /\ refreshed \in BOOLEAN /\ front \in BOOLEAN
    BY <1>2, Zenon
  <2>4. /\ opening \in Opening \cup {NotRunning} /\ leaving \subseteq Leaving /\ rebuild \in Update \cup {NotRunning}
        /\ url \in Sites \cup {NoSite} /\ lease \in Sites \cup {NoSite}
        /\ seen \in Sites \cup {NoSite} /\ page \in Sites \cup {NoSite}
    BY <1>2, Zenon
  <2>5. /\ restoring \in Nat /\ waiting \in Nat
        /\ stops \in 0 .. MaxFailures /\ edits \in 0 .. MaxEdits /\ failures \in 0 .. MaxFailures
    BY <1>2, <2>1, Zenon
  <2>6. /\ policy \in Policies /\ dynamic \subseteq Sites /\ session \subseteq SessionRule
        /\ available \subseteq Sites /\ blockIds \subseteq SessionRule
    BY <1>2, Zenon
  <2> QED BY <2>2, <2>3, <2>4, <2>5, <2>6 DEF AdapterTypeOK
<1>4. MatchersInv
  BY <1>1, <1>2 DEF MatchersInv, Paused
<1>5. LeasesInv
  BY <1>2 DEF LeasesInv
<1> QED BY <1>3, <1>4, <1>5 DEF AdapterInv

LEMMA WakeTyped == ASSUME AdapterTypeOK, Wake PROVE AdapterTypeOK'
BY DEF Wake, AdapterTypeOK, Refresh, IdleRefresh, Memory, published, browser, tab, bounds

LEMMA StartRebuildTyped == ASSUME AdapterTypeOK, StartRebuild PROVE AdapterTypeOK'
<1> DEFINE new == [remove |-> {b.id : b \in blockIds},
                   add |-> {b \in Numbered(Timed(applied)) : b.site \notin available}]
<1>1. new \in Update
  BY NumberedRules DEF AdapterTypeOK, Update, SessionRule
<1>2. waiting - 1 \in Nat
  BY DEF StartRebuild, AdapterTypeOK
<1>3. rebuild' = new /\ waiting' = waiting - 1
  BY DEF StartRebuild
<1> HIDE DEF new
<1> QED BY <1>1, <1>2, <1>3
        DEF StartRebuild, AdapterTypeOK, navigation, published, browser, start, tracking, tab, bounds

LEMMA EndRebuildTyped == ASSUME AdapterTypeOK, EndRebuild PROVE AdapterTypeOK'
<1>1. rebuild \in Update
  BY DEF EndRebuild, AdapterTypeOK
<1>2. session' \subseteq SessionRule /\ blockIds' \subseteq SessionRule
  BY <1>1 DEF EndRebuild, AdapterTypeOK, Believed, Update
<1>3. refresh' \in Refresh
  BY NearerTyped DEF EndRebuild, AdapterTypeOK
<1>4. opening' \in Opening \cup {NotRunning} /\ leaving' \subseteq Leaving
  BY NearerTyped DEF EndRebuild, AdapterTypeOK
<1>5. restoring' \in Nat
  BY DEF EndRebuild, AdapterTypeOK
<1> QED BY <1>2, <1>3, <1>4, <1>5
        DEF EndRebuild, AdapterTypeOK, published, tracking, tab, bounds

LEMMA RestoreTyped == ASSUME AdapterTypeOK, Restore PROVE AdapterTypeOK'
BY DEF Restore, AdapterTypeOK, navigation, Enqueue, Queued, published, browser, tracking, tab, bounds

LEMMA ReadyTyped == ASSUME AdapterTypeOK, Ready PROVE AdapterTypeOK'
BY DEF Ready, AdapterTypeOK, navigation, published, browser, queue, tracking, tab, bounds

LEMMA AskTyped == ASSUME AdapterTypeOK, Ask PROVE AdapterTypeOK'
<1>1. refresh' \in Refresh
  BY RefreshTyped DEF Ask, AdapterTypeOK, Stages
<1> QED BY <1>1 DEF Ask, AdapterTypeOK, navigation, published, browser, queue, start, tracking, tab, bounds

LEMMA ReplaceTyped == ASSUME AdapterTypeOK, Replace PROVE AdapterTypeOK'
BY KindsOfSites DEF Replace, AdapterTypeOK, navigation, Refresh, published, queue, start, tracking, tab,
       bounds

LEMMA CommitTyped == ASSUME AdapterTypeOK, Commit PROVE AdapterTypeOK'
<1>1. refresh' \in Refresh
  <2>1. refresh \in Refresh /\ Queued + 1 \in Nat
    BY QueuedIsNat DEF AdapterTypeOK
  <2>2. [refresh EXCEPT !.at = "committed", !.ahead = Queued + 1] \in Refresh
    BY <2>1 DEF Refresh
  <2> QED BY <2>2 DEF Commit
<1>2. applied' \in Policies \cup {NoPolicy} /\ waiting' \in Nat
  BY DEF Commit, AdapterTypeOK, Refresh, Enqueue
<1> QED BY <1>1, <1>2
        DEF Commit, AdapterTypeOK, navigation, published, browser, start, tab, bounds

LEMMA EndRefreshTyped == ASSUME AdapterTypeOK, EndRefresh PROVE AdapterTypeOK'
BY KindsOfSites DEF EndRefresh, AdapterTypeOK, navigation, Refresh, IdleRefresh, Redirected, published,
       queue, start, tracking, bounds

LEMMA SyncTabTyped == ASSUME AdapterTypeOK, SyncTab PROVE AdapterTypeOK'
BY KindsOfSites DEF SyncTab, AdapterTypeOK, navigation, Enqueue, Reconsider, Context, published,
       browser, start, tab, bounds

LEMMA ObserveTyped == ASSUME AdapterTypeOK, Observe PROVE AdapterTypeOK'
BY KindsOfSites DEF Observe, AdapterTypeOK, navigation, Opening, Enqueue, Reconsider, Context,
       published, browser, start, tracking, bounds

LEMMA DecideOpeningTyped == ASSUME AdapterTypeOK, DecideOpening PROVE AdapterTypeOK'
<1>1. opening \in Opening /\ Queued \in Nat
  BY QueuedIsNat DEF DecideOpening, AdapterTypeOK
<1>2. [opening EXCEPT !.at = "waiting", !.ahead = Queued] \in Opening
  BY <1>1 DEF Opening
<1>3. opening' \in Opening \cup {NotRunning} /\ page' \in Sites \cup {NoSite}
  BY <1>2 DEF DecideOpening, AdapterTypeOK
<1> QED BY <1>3 DEF DecideOpening, AdapterTypeOK, navigation, published, browser, queue, start, tracking, bounds

LEMMA OpenSiteTyped == ASSUME AdapterTypeOK, OpenSite PROVE AdapterTypeOK'
BY DEF OpenSite, AdapterTypeOK, navigation, Opening, Refused, Load, published, browser, queue, start,
       tracking, bounds

LEMMA QueueRefreshTyped == ASSUME AdapterTypeOK, QueueRefresh PROVE AdapterTypeOK'
BY DEF QueueRefresh, AdapterTypeOK, navigation, Refresh, published, browser, queue, start, tracking,
       tab, bounds

LEMMA RefreshFailsTyped == ASSUME AdapterTypeOK, RefreshFails PROVE AdapterTypeOK'
BY ChromiumAssumption DEF RefreshFails, AdapterTypeOK, navigation, Refresh, IdleRefresh, Fault, published, browser, queue,
       start, tracking, tab

LEMMA StopTyped == ASSUME AdapterTypeOK, Stop PROVE AdapterTypeOK'
<1>1. stops' \in 0 .. MaxFailures
  BY ChromiumAssumption DEF Stop, AdapterTypeOK
<1>2. /\ up' = FALSE /\ ready' = FALSE /\ restoring' = 0 /\ applied' = NoPolicy /\ available' = {}
      /\ blockIds' = {} /\ waiting' = 0 /\ rebuild' = NotRunning /\ refresh' \in Refresh
      /\ url' = NoSite /\ lease' = NoSite /\ opening' = NotRunning /\ leaving' = {} /\ refreshed' = FALSE
  BY MemoryTyped DEF Stop
<1> QED BY <1>1, <1>2 DEF Stop, AdapterTypeOK, published, browser, tab

LEMMA BrowserRestartsTyped == ASSUME AdapterTypeOK, BrowserRestarts PROVE AdapterTypeOK'
<1>1. stops' \in 0 .. MaxFailures
  BY ChromiumAssumption DEF BrowserRestarts, AdapterTypeOK
<1>2. /\ up' = FALSE /\ ready' = FALSE /\ restoring' = 0 /\ applied' = NoPolicy /\ available' = {}
      /\ blockIds' = {} /\ waiting' = 0 /\ rebuild' = NotRunning /\ refresh' \in Refresh
      /\ url' = NoSite /\ lease' = NoSite /\ opening' = NotRunning /\ leaving' = {} /\ refreshed' = FALSE
  BY MemoryTyped DEF BrowserRestarts
<1> QED BY <1>1, <1>2 DEF BrowserRestarts, AdapterTypeOK, published

LEMMA LeaseGrantedTyped == ASSUME AdapterTypeOK, LeaseGranted PROVE AdapterTypeOK'
BY KindsOfSites DEF LeaseGranted, AdapterTypeOK, navigation, Enqueue, Reconsider, Match, published,
       browser, start, tab, bounds

LEMMA PageLeavesTyped == ASSUME AdapterTypeOK, PageLeaves PROVE AdapterTypeOK'
<1>1. leaving' \subseteq Leaving /\ page' \in Sites \cup {NoSite}
  BY DEF PageLeaves, AdapterTypeOK, Redirected
<1> QED BY <1>1 DEF PageLeaves, AdapterTypeOK, published, browser, start, queue, tracking, bounds

LEMMA LeaseExhaustedTyped == ASSUME AdapterTypeOK, LeaseExhausted PROVE AdapterTypeOK'
<1>1. [site |-> Match, ahead |-> Queued + 1] \in Leaving
  BY KindsOfSites, QueuedIsNat DEF LeaseExhausted, Match, AdapterTypeOK, Leaving
<1>2. /\ available' \subseteq Sites /\ waiting' \in Nat /\ refresh' \in Refresh
      /\ leaving' \subseteq Leaving
  BY <1>1 DEF LeaseExhausted, AdapterTypeOK, Refresh, Enqueue, Reconsider
<1> QED BY <1>2 DEF LeaseExhausted, AdapterTypeOK, published, browser, start, tracking, tab, bounds

LEMMA LeaseEndsTyped == ASSUME AdapterTypeOK, LeaseEnds PROVE AdapterTypeOK'
BY KindsOfSites DEF LeaseEnds, AdapterTypeOK, navigation, Enqueue, Reconsider, published, browser,
       start, tab, bounds

LEMMA LeaveTyped == ASSUME AdapterTypeOK, Leave PROVE AdapterTypeOK'
<1>1. /\ available' \subseteq Sites /\ waiting' \in Nat
      /\ url' \in Sites \cup {NoSite} /\ lease' \in Sites \cup {NoSite}
  BY DEF Leave, Context, Reconsider, Enqueue, AdapterTypeOK, tracking
<1> QED BY <1>1 DEF Leave, AdapterTypeOK, navigation, published, browser, start, bounds

LEMMA ReturnTyped == ASSUME AdapterTypeOK, Return PROVE AdapterTypeOK'
BY DEF Return, AdapterTypeOK, navigation, published, browser, queue, start, tracking, bounds

LEMMA NavigateTyped == ASSUME AdapterTypeOK, NEW s \in Sites, Navigate(s) PROVE AdapterTypeOK'
BY DEF Navigate, AdapterTypeOK, navigation, Refused, Load, published, browser, queue, start, tracking,
       bounds

LEMMA PublishTyped == ASSUME AdapterTypeOK, NEW p \in Policies, Publish(p) PROVE AdapterTypeOK'
BY ChromiumAssumption DEF Publish, AdapterTypeOK, navigation, browser, queue, start, tracking, tab

-----------------------------------------------------------------------------
(* The matchers. *)

LEMMA MatchersFrame ==
    ASSUME MatchersInv, UNCHANGED <<refresh, refreshed, ready, dynamic, applied, up>>
    PROVE  MatchersInv'
BY DEF MatchersInv, Paused, Blocks, OfKind

\* A refresh that has not touched the rules, or fails before it does.
LEMMA MatchersAside ==
    ASSUME MatchersInv, UNCHANGED <<refreshed, ready, dynamic, applied, up>>,
           ~Paused, refresh'.at \notin {"replaced", "committed"}
    PROVE  MatchersInv'
BY DEF MatchersInv, Paused, Blocks, OfKind

LEMMA MatchersForgotten ==
    ASSUME NEW b \in BOOLEAN, Memory(b)
    PROVE  MatchersInv'
BY MemoryTyped DEF MatchersInv, Paused

LEMMA StartRebuildMatchers == ASSUME AdapterInv, StartRebuild PROVE MatchersInv'
BY MatchersFrame DEF StartRebuild, AdapterInv, published, browser, start, queue, tracking, tab, bounds

LEMMA SyncTabMatchers == ASSUME AdapterInv, SyncTab PROVE MatchersInv'
BY MatchersFrame DEF SyncTab, AdapterInv, published, browser, start, queue, tracking, tab, bounds

LEMMA ObserveMatchers == ASSUME AdapterInv, Observe PROVE MatchersInv'
BY MatchersFrame DEF Observe, AdapterInv, published, browser, start, queue, tracking, tab, bounds

LEMMA DecideOpeningMatchers == ASSUME AdapterInv, DecideOpening PROVE MatchersInv'
BY MatchersFrame DEF DecideOpening, AdapterInv, published, browser, start, queue, tracking, tab, bounds

LEMMA PageLeavesMatchers == ASSUME AdapterInv, PageLeaves PROVE MatchersInv'
BY MatchersFrame DEF PageLeaves, AdapterInv, published, browser, start, queue, tracking, tab, bounds

LEMMA OpenSiteMatchers == ASSUME AdapterInv, OpenSite PROVE MatchersInv'
BY MatchersFrame DEF OpenSite, AdapterInv, published, browser, start, queue, tracking, tab, bounds

LEMMA LeaseGrantedMatchers == ASSUME AdapterInv, LeaseGranted PROVE MatchersInv'
BY MatchersFrame DEF LeaseGranted, AdapterInv, published, browser, start, queue, tracking, tab, bounds

LEMMA LeaseEndsMatchers == ASSUME AdapterInv, LeaseEnds PROVE MatchersInv'
BY MatchersFrame DEF LeaseEnds, AdapterInv, published, browser, start, queue, tracking, tab, bounds

LEMMA LeaveMatchers == ASSUME AdapterInv, Leave PROVE MatchersInv'
BY MatchersFrame DEF Leave, AdapterInv, published, browser, start, queue, tracking, tab, bounds

LEMMA ReturnMatchers == ASSUME AdapterInv, Return PROVE MatchersInv'
BY MatchersFrame DEF Return, AdapterInv, published, browser, start, queue, tracking, tab, bounds

LEMMA NavigateMatchers == ASSUME AdapterInv, NEW s \in Sites, Navigate(s) PROVE MatchersInv'
BY MatchersFrame DEF Navigate, AdapterInv, published, browser, start, queue, tracking, tab, bounds

LEMMA PublishMatchers == ASSUME AdapterInv, NEW p \in Policies, Publish(p) PROVE MatchersInv'
BY MatchersFrame DEF Publish, AdapterInv, published, browser, start, queue, tracking, tab, bounds

LEMMA WakeMatchers == ASSUME AdapterInv, Wake PROVE MatchersInv'
BY MatchersForgotten DEF Wake

LEMMA StopMatchers == ASSUME AdapterInv, Stop PROVE MatchersInv'
BY MatchersForgotten DEF Stop

LEMMA BrowserRestartsMatchers == ASSUME AdapterInv, BrowserRestarts PROVE MatchersInv'
BY MatchersForgotten DEF BrowserRestarts

LEMMA EndRebuildMatchers == ASSUME AdapterInv, EndRebuild PROVE MatchersInv'
<1>1. refresh'.at = refresh.at /\ refresh'.doc = refresh.doc
  BY NearerTyped DEF EndRebuild, AdapterInv, AdapterTypeOK
<1> QED BY <1>1 DEF EndRebuild, AdapterInv, MatchersInv, Paused, Blocks, OfKind

LEMMA RestoreMatchers == ASSUME AdapterInv, Restore PROVE MatchersInv'
BY DEF Restore, AdapterInv, MatchersInv, Paused, browser

LEMMA ReadyMatchers == ASSUME AdapterInv, Ready PROVE MatchersInv'
BY DEF Ready, AdapterInv, MatchersInv, Paused, browser

LEMMA QueueRefreshMatchers == ASSUME AdapterInv, QueueRefresh PROVE MatchersInv'
<1>1. refresh'.at = "asking"
  BY DEF QueueRefresh, AdapterInv, AdapterTypeOK, Refresh
<1> QED BY <1>1, MatchersAside DEF QueueRefresh, AdapterInv, Paused, browser, start

LEMMA AskMatchers == ASSUME AdapterInv, Ask PROVE MatchersInv'
<1>1. refresh'.at = "answered"
  BY DEF Ask, AdapterInv, AdapterTypeOK, Refresh
<1> QED BY <1>1, MatchersAside DEF Ask, AdapterInv, Paused, browser, start

LEMMA RefreshFailsMatchers == ASSUME AdapterInv, RefreshFails PROVE MatchersInv'
<1>1. refresh'.at = "idle"
  BY DEF RefreshFails, IdleRefresh
<1> QED BY <1>1, MatchersAside DEF RefreshFails, AdapterInv, Paused, browser, start

LEMMA LeaseExhaustedMatchers == ASSUME AdapterInv, LeaseExhausted PROVE MatchersInv'
<1>1. CASE refresh.at = "idle"
  <2>1. refresh'.at = "asking"
    BY <1>1 DEF LeaseExhausted, AdapterInv, AdapterTypeOK, Refresh
  <2> QED BY <1>1, <2>1, MatchersAside DEF LeaseExhausted, AdapterInv, Paused, browser, start
<1>2. CASE refresh.at # "idle"
  BY <1>2, MatchersFrame DEF LeaseExhausted, AdapterInv, browser, start
<1> QED BY <1>1, <1>2

\* The browser takes the rules of the answer, then the worker the answer itself.
LEMMA ReplaceMatchers == ASSUME AdapterInv, Replace PROVE MatchersInv'
<1>1. refresh'.at = "replaced" /\ refresh'.doc = refresh.doc /\ Blocks(refresh.doc)' = Blocks(refresh'.doc)
  BY DEF Replace, AdapterInv, AdapterTypeOK, Refresh, Blocks, OfKind
<1> QED BY <1>1 DEF Replace, MatchersInv, Paused, start

LEMMA CommitMatchers == ASSUME AdapterInv, Commit PROVE MatchersInv'
<1>1. refresh'.at = "committed"
  BY DEF Commit, AdapterInv, AdapterTypeOK, Refresh
<1>2. dynamic' = Blocks(refresh.doc)
  BY DEF Commit, AdapterInv, MatchersInv, browser
<1> QED BY <1>1, <1>2 DEF Commit, AdapterInv, MatchersInv, Paused, start, Blocks, OfKind

LEMMA EndRefreshMatchers == ASSUME AdapterInv, EndRefresh PROVE MatchersInv'
BY DEF EndRefresh, AdapterInv, MatchersInv, Paused, start, IdleRefresh, Blocks, OfKind

-----------------------------------------------------------------------------
(* The session rules. *)

LEMMA LeasesFrame ==
    ASSUME LeasesInv, UNCHANGED <<stops, up, ready, snapshot, session, blockIds, lease, applied,
                                  available, rebuild, waiting>>
    PROVE  LeasesInv'
<1>1. Timed(applied)' = Timed(applied)
  BY DEF Timed, OfKind
<1>2. Target' = Target
  BY <1>1 DEF Target, Numbered
<1>3. Queued' = Queued
  BY DEF Queued
<1> QED BY <1>1, <1>2, <1>3 DEF LeasesInv

\* A callback of the tracker: what is available changes only with an update
\* that waits.
TrackerStep ==
    /\ UNCHANGED <<stops, up, ready, snapshot, session, blockIds, rebuild, applied>>
    /\ stops = 0 => lease' \in Timed(applied) \cup {NoSite}
    /\ stops = 0 => \/ available' = available /\ waiting' = waiting
                    \/ waiting' = waiting + 1

LEMMA LeasesTracked ==
    ASSUME AdapterTypeOK, LeasesInv, TrackerStep
    PROVE  LeasesInv'
<1> SUFFICES ASSUME stops' = 0
             PROVE  /\ up' /\ (~ready' => snapshot' = NoPolicy) /\ session' = blockIds'
                    /\ lease' \in Timed(applied)' \cup {NoSite}
                    /\ rebuild' # NotRunning => /\ rebuild'.remove = {b.id : b \in blockIds'}
                                                /\ waiting' = 0 => rebuild'.add = Target'
                    /\ Queued' = 0 /\ applied' # NoPolicy => session' = Target'
  BY DEF LeasesInv
<1>1. Timed(applied)' = Timed(applied)
  BY DEF TrackerStep, Timed, OfKind
<1>2. CASE available' = available /\ waiting' = waiting
  <2>1. Target' = Target /\ Queued' = Queued
    BY <1>1, <1>2 DEF Target, Queued, Numbered, TrackerStep
  <2> QED BY <1>1, <1>2, <2>1 DEF LeasesInv, TrackerStep
<1>3. CASE waiting' = waiting + 1
  <2>1. waiting' # 0 /\ Queued' # 0
    BY <1>3 DEF AdapterTypeOK, Queued
  <2> QED BY <1>1, <1>3, <2>1 DEF LeasesInv, TrackerStep
<1> QED BY <1>2, <1>3 DEF TrackerStep

LEMMA ContextTracks ==
    ASSUME LeasesInv, stops = 0, NEW u, NEW m, Context(u, m)
    PROVE  /\ lease' \in Timed(applied) \cup {NoSite}
           /\ (available' = available /\ waiting' = waiting) \/ waiting' = waiting + 1
BY DEF Context, Reconsider, Enqueue, LeasesInv

LEMMA DecideOpeningLeases == ASSUME AdapterInv, DecideOpening PROVE LeasesInv'
BY LeasesFrame DEF DecideOpening, AdapterInv, published, browser, start, queue, tracking, tab, bounds

LEMMA PageLeavesLeases == ASSUME AdapterInv, PageLeaves PROVE LeasesInv'
BY LeasesFrame DEF PageLeaves, AdapterInv, published, browser, start, queue, tracking, tab, bounds

LEMMA OpenSiteLeases == ASSUME AdapterInv, OpenSite PROVE LeasesInv'
BY LeasesFrame DEF OpenSite, AdapterInv, published, browser, start, queue, tracking, tab, bounds

LEMMA QueueRefreshLeases == ASSUME AdapterInv, QueueRefresh PROVE LeasesInv'
BY LeasesFrame DEF QueueRefresh, AdapterInv, published, browser, start, queue, tracking, tab, bounds

LEMMA AskLeases == ASSUME AdapterInv, Ask PROVE LeasesInv'
BY LeasesFrame DEF Ask, AdapterInv, published, browser, start, queue, tracking, tab, bounds

LEMMA RefreshFailsLeases == ASSUME AdapterInv, RefreshFails PROVE LeasesInv'
BY LeasesFrame DEF RefreshFails, AdapterInv, published, browser, start, queue, tracking, tab, bounds

LEMMA ReturnLeases == ASSUME AdapterInv, Return PROVE LeasesInv'
BY LeasesFrame DEF Return, AdapterInv, published, browser, start, queue, tracking, tab, bounds

LEMMA NavigateLeases == ASSUME AdapterInv, NEW s \in Sites, Navigate(s) PROVE LeasesInv'
BY LeasesFrame DEF Navigate, AdapterInv, published, browser, start, queue, tracking, tab, bounds

LEMMA PublishLeases == ASSUME AdapterInv, NEW p \in Policies, Publish(p) PROVE LeasesInv'
BY LeasesFrame DEF Publish, AdapterInv, published, browser, start, queue, tracking, tab, bounds

LEMMA SyncTabLeases == ASSUME AdapterInv, SyncTab PROVE LeasesInv'
<1>1. UNCHANGED <<stops, up, ready, snapshot, session, blockIds, rebuild, applied>>
  BY DEF SyncTab, browser, start, bounds
<1>2. ASSUME stops = 0
      PROVE  /\ lease' \in Timed(applied) \cup {NoSite}
             /\ (available' = available /\ waiting' = waiting) \/ waiting' = waiting + 1
  BY <1>2, ContextTracks DEF SyncTab, Match, Reconsider, Enqueue, AdapterInv, LeasesInv, tracking
<1> QED BY <1>1, <1>2, LeasesTracked DEF TrackerStep, AdapterInv

LEMMA LeaveLeases == ASSUME AdapterInv, Leave PROVE LeasesInv'
<1>1. UNCHANGED <<stops, up, ready, snapshot, session, blockIds, rebuild, applied>>
  BY DEF Leave, browser, start, bounds
<1>2. ASSUME stops = 0
      PROVE  /\ lease' \in Timed(applied) \cup {NoSite}
             /\ (available' = available /\ waiting' = waiting) \/ waiting' = waiting + 1
  BY <1>2, ContextTracks DEF Leave, Match, Reconsider, Enqueue, AdapterInv, LeasesInv, tracking
<1> QED BY <1>1, <1>2, LeasesTracked DEF TrackerStep, AdapterInv

LEMMA ObserveLeases == ASSUME AdapterInv, Observe PROVE LeasesInv'
<1>1. UNCHANGED <<stops, up, ready, snapshot, session, blockIds, rebuild, applied>>
  BY DEF Observe, browser, start, bounds
<1>2. ASSUME stops = 0
      PROVE  /\ lease' \in Timed(applied) \cup {NoSite}
             /\ (available' = available /\ waiting' = waiting) \/ waiting' = waiting + 1
  BY <1>2, ContextTracks DEF Observe, Match, Reconsider, Enqueue, AdapterInv, LeasesInv, tracking
<1> QED BY <1>1, <1>2, LeasesTracked DEF TrackerStep, AdapterInv

LEMMA LeaseGrantedLeases == ASSUME AdapterInv, LeaseGranted PROVE LeasesInv'
<1>1. UNCHANGED <<stops, up, ready, snapshot, session, blockIds, rebuild, applied>>
  BY DEF LeaseGranted, browser, start, bounds
<1>2. ASSUME stops = 0
      PROVE  /\ lease' \in Timed(applied) \cup {NoSite}
             /\ (available' = available /\ waiting' = waiting) \/ waiting' = waiting + 1
  BY <1>2, ContextTracks DEF LeaseGranted, Match, Reconsider, Enqueue, AdapterInv, LeasesInv, tracking
<1> QED BY <1>1, <1>2, LeasesTracked DEF TrackerStep, AdapterInv

LEMMA LeaseExhaustedLeases == ASSUME AdapterInv, LeaseExhausted PROVE LeasesInv'
<1>1. UNCHANGED <<stops, up, ready, snapshot, session, blockIds, rebuild, applied>>
  BY DEF LeaseExhausted, browser, start, bounds
<1>2. ASSUME stops = 0
      PROVE  /\ lease' \in Timed(applied) \cup {NoSite}
             /\ (available' = available /\ waiting' = waiting) \/ waiting' = waiting + 1
  BY <1>2, ContextTracks DEF LeaseExhausted, Match, Reconsider, Enqueue, AdapterInv, LeasesInv, tracking
<1> QED BY <1>1, <1>2, LeasesTracked DEF TrackerStep, AdapterInv

LEMMA LeaseEndsLeases == ASSUME AdapterInv, LeaseEnds PROVE LeasesInv'
<1>1. UNCHANGED <<stops, up, ready, snapshot, session, blockIds, rebuild, applied>>
  BY DEF LeaseEnds, browser, start, bounds
<1>2. ASSUME stops = 0
      PROVE  /\ lease' \in Timed(applied) \cup {NoSite}
             /\ (available' = available /\ waiting' = waiting) \/ waiting' = waiting + 1
  BY <1>2, ContextTracks DEF LeaseEnds, Match, Reconsider, Enqueue, AdapterInv, LeasesInv, tracking
<1> QED BY <1>1, <1>2, LeasesTracked DEF TrackerStep, AdapterInv

LEMMA WakeLeases == ASSUME AdapterInv, Wake PROVE LeasesInv'
BY DEF Wake, AdapterInv, LeasesInv, bounds

LEMMA StopLeases == ASSUME AdapterInv, Stop PROVE LeasesInv'
<1>1. stops' # 0
  BY DEF Stop, AdapterInv, AdapterTypeOK
<1> QED BY <1>1 DEF LeasesInv

LEMMA BrowserRestartsLeases == ASSUME AdapterInv, BrowserRestarts PROVE LeasesInv'
<1>1. stops' # 0
  BY DEF BrowserRestarts, AdapterInv, AdapterTypeOK
<1> QED BY <1>1 DEF LeasesInv

LEMMA RestoreLeases == ASSUME AdapterInv, Restore PROVE LeasesInv'
BY DEF Restore, AdapterInv, LeasesInv, bounds

LEMMA ReadyLeases == ASSUME AdapterInv, Ready PROVE LeasesInv'
BY DEF Ready, AdapterInv, LeasesInv, Target, Queued, Numbered, Timed, OfKind, browser, queue, tracking, bounds

LEMMA ReplaceLeases == ASSUME AdapterInv, Replace PROVE LeasesInv'
BY LeasesFrame DEF Replace, AdapterInv, start, queue, tracking, bounds

\* The new policy's update waits behind the others.
LEMMA CommitLeases == ASSUME AdapterInv, Commit PROVE LeasesInv'
<1>1. waiting' # 0 /\ Queued' # 0
  BY DEF Commit, Enqueue, AdapterInv, AdapterTypeOK, Queued
<1> QED BY <1>1 DEF Commit, AdapterInv, LeasesInv, browser, start, bounds

LEMMA EndRefreshLeases == ASSUME AdapterInv, EndRefresh PROVE LeasesInv'
<1>1. ready /\ ready' = ready
  BY DEF EndRefresh, AdapterInv, MatchersInv, Paused, start
<1>2. UNCHANGED <<stops, up, session, blockIds, lease, applied, available, rebuild, waiting>>
  BY DEF EndRefresh, queue, tracking, bounds
<1>3. Timed(applied)' = Timed(applied)
  BY <1>2 DEF Timed, OfKind
<1>4. Target' = Target
  BY <1>2, <1>3 DEF Target, Numbered
<1>5. Queued' = Queued
  BY <1>2 DEF Queued
<1> QED BY <1>1, <1>2, <1>3, <1>4, <1>5 DEF AdapterInv, LeasesInv

\* The last update to start sees what is available now.
LEMMA StartRebuildLeases == ASSUME AdapterInv, StartRebuild PROVE LeasesInv'
<1>1. /\ rebuild' = [remove |-> {b.id : b \in blockIds}, add |-> Target]
      /\ UNCHANGED <<stops, up, ready, snapshot, session, blockIds, lease, applied, available>>
  BY DEF StartRebuild, Target, browser, start, tracking, bounds
<1>2. rebuild' # NotRunning /\ Queued' # 0
  <2>1. rebuild' \in Update /\ waiting' \in Nat
    BY <1>1, NumberedRules DEF StartRebuild, AdapterInv, AdapterTypeOK, Update, SessionRule, Target
  <2>2. rebuild' # NotRunning
    BY <2>1, ChromiumAssumption
  <2>3. Queued' = waiting' + 1
    BY <2>2 DEF Queued
  <2>4. \A n \in Nat : n + 1 # 0
    OBVIOUS
  <2> QED BY <2>1, <2>2, <2>3, <2>4, Zenon
<1>3. Target' = Target /\ Timed(applied)' = Timed(applied)
  BY <1>1 DEF Target, Numbered, Timed, OfKind
<1> QED BY <1>1, <1>2, <1>3 DEF AdapterInv, LeasesInv

\* All numbers that the browser has are removed, so none is refused.
LEMMA EndRebuildLeases == ASSUME AdapterInv, EndRebuild PROVE LeasesInv'
<1> SUFFICES ASSUME stops = 0 PROVE LeasesInv'
  BY DEF EndRebuild, LeasesInv, bounds
<1>1. UNCHANGED <<stops, up, ready, snapshot, lease, applied, available, waiting>> /\ rebuild' = NotRunning
  BY DEF EndRebuild, tracking, bounds
<1>2. {b \in session : b.id \notin rebuild.remove} = {}
  BY DEF EndRebuild, AdapterInv, LeasesInv
<1>3. session' = rebuild.add /\ blockIds' = rebuild.add
  BY <1>2 DEF EndRebuild, Believed
<1>4. Target' = Target /\ Timed(applied)' = Timed(applied)
  BY <1>1 DEF Target, Numbered, Timed, OfKind
<1>5. Queued' = 0 => waiting = 0
  BY <1>1 DEF Queued, AdapterInv, AdapterTypeOK
<1>6. rebuild # NotRunning
  BY DEF EndRebuild
<1> QED BY <1>1, <1>3, <1>4, <1>5, <1>6 DEF AdapterInv, LeasesInv

LEMMA AdapterInvNext == ASSUME AdapterInv, [AdapterNext]_adapterVars PROVE AdapterInv'
<1> USE DEF AdapterInv
<1>1. CASE Wake
  BY <1>1, WakeTyped, WakeMatchers, WakeLeases
<1>2. CASE StartRebuild
  BY <1>2, StartRebuildTyped, StartRebuildMatchers, StartRebuildLeases
<1>3. CASE EndRebuild
  BY <1>3, EndRebuildTyped, EndRebuildMatchers, EndRebuildLeases
<1>4. CASE Restore
  BY <1>4, RestoreTyped, RestoreMatchers, RestoreLeases
<1>5. CASE Ready
  BY <1>5, ReadyTyped, ReadyMatchers, ReadyLeases
<1>6. CASE Ask
  BY <1>6, AskTyped, AskMatchers, AskLeases
<1>7. CASE Replace
  BY <1>7, ReplaceTyped, ReplaceMatchers, ReplaceLeases
<1>8. CASE Commit
  BY <1>8, CommitTyped, CommitMatchers, CommitLeases
<1>9. CASE EndRefresh
  BY <1>9, EndRefreshTyped, EndRefreshMatchers, EndRefreshLeases
<1>10. CASE SyncTab
  BY <1>10, SyncTabTyped, SyncTabMatchers, SyncTabLeases
<1>11. CASE Observe
  BY <1>11, ObserveTyped, ObserveMatchers, ObserveLeases
<1>12. CASE DecideOpening
  BY <1>12, DecideOpeningTyped, DecideOpeningMatchers, DecideOpeningLeases
<1>13. CASE OpenSite
  BY <1>13, OpenSiteTyped, OpenSiteMatchers, OpenSiteLeases
<1>14. CASE QueueRefresh
  BY <1>14, QueueRefreshTyped, QueueRefreshMatchers, QueueRefreshLeases
<1>15. CASE RefreshFails
  BY <1>15, RefreshFailsTyped, RefreshFailsMatchers, RefreshFailsLeases
<1>16. CASE Stop
  BY <1>16, StopTyped, StopMatchers, StopLeases
<1>17. CASE BrowserRestarts
  BY <1>17, BrowserRestartsTyped, BrowserRestartsMatchers, BrowserRestartsLeases
<1>18. CASE LeaseGranted
  BY <1>18, LeaseGrantedTyped, LeaseGrantedMatchers, LeaseGrantedLeases
<1>19. CASE LeaseExhausted
  BY <1>19, LeaseExhaustedTyped, LeaseExhaustedMatchers, LeaseExhaustedLeases
<1>20. CASE LeaseEnds
  BY <1>20, LeaseEndsTyped, LeaseEndsMatchers, LeaseEndsLeases
<1>21. CASE Leave
  BY <1>21, LeaveTyped, LeaveMatchers, LeaveLeases
<1>22. CASE Return
  BY <1>22, ReturnTyped, ReturnMatchers, ReturnLeases
<1>23. ASSUME NEW s \in Sites, Navigate(s) PROVE AdapterInv'
  BY <1>23, NavigateTyped, NavigateMatchers, NavigateLeases
<1>24. ASSUME NEW p \in Policies, Publish(p) PROVE AdapterInv'
  BY <1>24, PublishTyped, PublishMatchers, PublishLeases
<1>25. CASE PageLeaves
  BY <1>25, PageLeavesTyped, PageLeavesMatchers, PageLeavesLeases
<1>26. CASE UNCHANGED adapterVars
  <2>1. AdapterTypeOK'
    BY <1>26 DEF adapterVars, AdapterTypeOK
  <2> QED BY <1>26, <2>1, MatchersFrame, LeasesFrame DEF adapterVars
<1> QED BY <1>1, <1>2, <1>3, <1>4, <1>5, <1>6, <1>7, <1>8, <1>9, <1>10, <1>11, <1>12, <1>13, <1>14, <1>15, <1>16, <1>17, <1>18, <1>19, <1>20, <1>21, <1>22, <1>23, <1>24, <1>25, <1>26
        DEF AdapterNext, Worker

LEMMA AdapterInvHolds == AdapterSpec => []AdapterInv
<1>1. AdapterInv /\ [AdapterNext]_adapterVars => AdapterInv'
  BY AdapterInvNext
<1> QED BY AdapterInitInv, <1>1, PTL DEF AdapterSpec

\* The adapter's state, and the browser's rules, stay well typed for any rules,
\* policies and queue.
THEOREM AdapterTypeCorrect == AdapterSpec => []AdapterTypeOK
<1>1. AdapterInv => AdapterTypeOK
  BY DEF AdapterInv
<1> QED BY AdapterInvHolds, <1>1, PTL

\* apply_policy: once a refresh of this life of the worker has ended, and outside
\* the next one's update, the matchers are those of the browser's rules.
THEOREM MatchersFollowRulesAlways == AdapterSpec => []MatchersFollowRules
<1>1. AdapterInv => MatchersFollowRules
  BY DEF AdapterInv, MatchersInv, MatchersFollowRules
<1> QED BY AdapterInvHolds, <1>1, PTL

\* rebuild_timed_blocks: when no update waits, the session rules of a worker that
\* was never stopped are those of the timed rules without a lease.
THEOREM LeasesDecideAtFirstAlways == AdapterSpec => []LeasesDecideAtFirst
<1>1. AdapterInv => LeasesDecideAtFirst
  BY DEF AdapterInv, LeasesInv, LeasesDecideAtFirst, LeasesDecide, Target
<1> QED BY AdapterInvHolds, <1>1, PTL
=============================================================================
