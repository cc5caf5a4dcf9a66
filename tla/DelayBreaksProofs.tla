------------------------- MODULE DelayBreaksProofs -------------------------
(***************************************************************************)
(* What is true of DelayBreaks for every set of rules, every wait and      *)
(* every break: a break is taken only in the time that was asked for, a    *)
(* running countdown is not moved, and a restart knows every countdown.    *)
(***************************************************************************)
EXTENDS DelayBreaks, TLAPS

\* A row belongs to the last request for its rule: the countdown ends a whole
\* wait after it, and a break that has started did so no earlier.
Due(row, ask, t) ==
    /\ row.pending_until = ask.at + ask.wait
    /\ row.length = ask.length
    /\ Started(row) => /\ row.break_until = row.pending_until + row.length
                       /\ row.pending_until <= t

Good(f, ask, t) == IsBreaks(f) /\ \A r \in DOMAIN f : Due(f[r], ask[r], t)

Asks == [Rules -> [at : Nat, wait : Nat, length : Nat]]

\* The inductive invariant.
DelayInv == TypeOK /\ NothingUnsaved /\ Good(stored, asked, now)

-----------------------------------------------------------------------------
(* The rows an operation leaves. *)

LEMMA NothingGood == \A ask, t : Good(Nothing, ask, t)
BY DEF Good, IsBreaks, Nothing

LEMMA WithoutGood ==
    ASSUME NEW f, NEW ask, NEW t, Good(f, ask, t), NEW K
    PROVE  /\ Good(Without(f, K), ask, t)
           /\ DOMAIN Without(f, K) = DOMAIN f \ K
           /\ \A x \in DOMAIN f \ K : Without(f, K)[x] = f[x]
BY DEF Without, Restrict, Good, IsBreaks

\* Time does not spoil a row.
LEMMA GoodLater ==
    ASSUME NEW f, NEW ask, NEW t \in Nat, Good(f, ask, t)
    PROVE  Good(f, ask, t + 1)
<1>1. \A r \in DOMAIN f : f[r].pending_until \in Nat
  BY DEF Good, IsBreaks, Break
<1>2. QED BY <1>1 DEF Good, Due

\* An advance drops rows, and starts breaks whose countdown has ended.
LEMMA AdvancedGood ==
    ASSUME NEW f, Good(f, asked, now), now \in Nat
    PROVE  /\ Good(Advanced(f), asked, now)
           /\ DOMAIN Advanced(f) \subseteq DOMAIN f
           /\ \A r \in DOMAIN Advanced(f) :
                /\ Advanced(f)[r].pending_until = f[r].pending_until
                /\ Advanced(f)[r].length = f[r].length
                /\ Running(f[r]) => Running(Advanced(f)[r])
           /\ \A r \in DOMAIN f :
                Running(f[r]) /\ lock[r] # NoDelay => r \in DOMAIN Advanced(f)
<1>1. CASE ~trusted
  BY <1>1 DEF Advanced
<1>2. CASE trusted
  <2> DEFINE kept == {r \in DOMAIN f :
                        /\ lock[r] # NoDelay
                        /\ ~(Started(f[r]) /\ f[r].break_until <= now)}
             starts(r) == ~Started(f[r]) /\ f[r].pending_until <= now
             g == Advanced(f)
  <2>1. g = [r \in kept |-> IF starts(r) THEN StartBreak(f[r]) ELSE f[r]]
    BY <1>2 DEF Advanced
  <2>2. DOMAIN g = kept /\ kept \subseteq DOMAIN f
    BY <2>1
  <2>3. ASSUME NEW r \in DOMAIN f, Running(f[r]), lock[r] # NoDelay PROVE r \in kept
    <3>1. f[r] \in Break /\ (Started(f[r]) => f[r].pending_until <= now)
      BY DEF Good, IsBreaks, Due
    <3>2. ~(Started(f[r]) /\ f[r].break_until <= now)
      BY <2>3, <3>1 DEF Running, Break
    <3>3. QED BY <2>3, <3>2
  <2> HIDE DEF kept
  <2>4. ASSUME NEW r \in kept
        PROVE  /\ g[r] \in Break
               /\ Due(g[r], asked[r], now)
               /\ g[r].pending_until = f[r].pending_until
               /\ g[r].length = f[r].length
               /\ Running(f[r]) => Running(g[r])
    <3>1. f[r] \in Break /\ Due(f[r], asked[r], now)
      BY <2>2 DEF Good, IsBreaks
    <3>2. CASE starts(r)
      <4>1. /\ g[r] = [f[r] EXCEPT !.break_until = f[r].pending_until + f[r].length]
            /\ f[r].pending_until <= now
            /\ ~Started(f[r])
        BY <2>1, <3>2 DEF StartBreak
      <4>2. QED BY <4>1, <3>1 DEF Break, Due, Started, Running, NotStarted
    <3>3. CASE ~starts(r)
      BY <2>1, <3>1, <3>3
    <3>4. QED BY <3>2, <3>3
  <2>5. Good(g, asked, now)
    <3>1. g = [r \in kept |-> g[r]]
      BY <2>1
    <3>2. DOMAIN g \subseteq Rules
      BY <2>2 DEF Good, IsBreaks
    <3>3. IsBreaks(g)
      BY <2>2, <2>4, <3>1, <3>2 DEF IsBreaks
    <3>4. QED BY <2>2, <2>4, <3>3 DEF Good
  <2>6. QED BY <2>2, <2>3, <2>4, <2>5
<1>3. QED BY <1>1, <1>2

\* The same of the rows a command or tick goes on with.
LEMMA CurrentGood ==
    ASSUME NEW f, Good(f, asked, now), now \in Nat, NEW current \in {f, Advanced(f)}
    PROVE  /\ Good(current, asked, now)
           /\ DOMAIN current \subseteq DOMAIN f
           /\ \A r \in DOMAIN current :
                /\ current[r].pending_until = f[r].pending_until
                /\ current[r].length = f[r].length
                /\ Running(f[r]) => Running(current[r])
           /\ \A r \in DOMAIN f :
                Running(f[r]) /\ lock[r] # NoDelay => r \in DOMAIN current
BY AdvancedGood

\* The row a request makes.
LEMMA RequestedGood ==
    ASSUME TypeOK, NEW f, Good(f, asked, now), NEW r \in Rules, lock[r] # NoDelay,
           NEW ask, ask = [asked EXCEPT ![r] = NewAsk(r)],
           NEW g, g = WithKey(f, r, NewBreak(r))
    PROVE  /\ Good(g, ask, now)
           /\ ask \in Asks
           /\ DOMAIN g = DOMAIN f \cup {r}
           /\ \A x \in DOMAIN f : x # r => g[x] = f[x]
<1> DEFINE item == NewBreak(r)
<1>1. lock[r] \in Delay
  BY DelayAssumption DEF TypeOK
<1>2. /\ now \in Nat /\ asked \in Asks
      /\ lock[r].wait \in Nat /\ lock[r].length \in Nat \ {0}
  BY <1>1 DEF TypeOK, Delay, Asks
<1>3. item \in Break /\ ~Started(item)
  BY <1>2 DEF Break, Started, NotStarted, NewBreak
<1>4. /\ g = [x \in DOMAIN f \cup {r} |-> IF x = r THEN item ELSE f[x]]
      /\ DOMAIN g = DOMAIN f \cup {r}
      /\ g[r] = item
      /\ \A x \in DOMAIN f : x # r => g[x] = f[x]
  BY DEF WithKey
<1>5. /\ ask \in Asks
      /\ ask[r] = NewAsk(r)
      /\ \A x \in Rules : x # r => ask[x] = asked[x]
  BY <1>2 DEF NewAsk, Asks
<1>6. IsBreaks(g)
  BY <1>3, <1>4 DEF Good, IsBreaks
<1>7. ASSUME NEW x \in DOMAIN g
      PROVE  Due(g[x], ask[x], now)
  <2>1. CASE x = r
    BY <2>1, <1>3, <1>4, <1>5 DEF Due, NewBreak, NewAsk
  <2>2. CASE x # r
    BY <2>2, <1>4, <1>5 DEF Good, IsBreaks
  <2>3. QED BY <2>1, <2>2
<1>8. QED BY <1>4, <1>5, <1>6, <1>7 DEF Good

-----------------------------------------------------------------------------
(* The invariant. *)

LEMMA ItemsGood ==
    ASSUME DelayInv, up
    PROVE  items = stored /\ Good(items, asked, now) /\ now \in Nat
BY DEF DelayInv, NothingUnsaved, TypeOK

LEMMA SpendType == ASSUME NEW cost \in 0 .. 2, faults \in 0 .. MaxFaults, Spend(cost)
                   PROVE  faults' \in 0 .. MaxFaults
BY DelayAssumption DEF Spend

LEMMA EnforcedType == \A f, l : Enforced(f, l) \subseteq Rules
BY DEF Enforced

\* No step moves a countdown that is running.
DelayStep ==
    \A r \in DOMAIN stored \cap DOMAIN stored' :
        Running(stored[r]) => /\ stored'[r].pending_until = stored[r].pending_until
                              /\ stored'[r].length = stored[r].length

LEMMA InvInit == Init => DelayInv
<1> SUFFICES ASSUME Init PROVE DelayInv
  OBVIOUS
<1>1. Good(Nothing, asked, now)
  BY NothingGood
<1>2. blocked \subseteq Rules
  BY EnforcedType DEF Init
<1>3. TypeOK
  BY <1>1, <1>2, DelayAssumption DEF Init, TypeOK, Good, Never
<1>4. QED BY <1>1, <1>3 DEF Init, NothingUnsaved, DelayInv

LEMMA RequestStep ==
    ASSUME DelayInv, NEW r \in Rules, Request(r)
    PROVE  DelayInv' /\ DelayStep
<1> PICK current \in {items, Advanced(items)}, cost \in 0 .. 1,
         out \in {"saved", "removed", "crash"} : Request(r)!(current, cost, out)
  BY DEF Request
<1>1. up /\ TypeOK /\ items = stored /\ Good(items, asked, now) /\ now \in Nat
  BY ItemsGood DEF DelayInv
<1>2. /\ Good(current, asked, now)
      /\ DOMAIN current \subseteq DOMAIN stored
      /\ \A x \in DOMAIN current :
            /\ current[x].pending_until = stored[x].pending_until
            /\ current[x].length = stored[x].length
            /\ Running(stored[x]) => Running(current[x])
      /\ \A x \in DOMAIN stored :
            Running(stored[x]) /\ lock[x] # NoDelay => x \in DOMAIN current
  BY <1>1, CurrentGood
<1>3. /\ lock[r] # NoDelay
      /\ r \in DOMAIN current => ~Running(current[r])
      /\ stored' = IF out = "removed" THEN Without(current, {r})
                   ELSE WithKey(current, r, NewBreak(r))
      /\ items' = IF out = "crash" THEN Nothing ELSE stored'
      /\ up' = (out # "crash")
      /\ Spend(IF out = "saved" THEN cost ELSE cost + 1)
      /\ blocked' = BlockedAfter(current)
      /\ lock' = lock /\ active' = active /\ trusted' = trusted /\ now' = now
      /\ asked' = IF out = "removed" THEN asked ELSE [asked EXCEPT ![r] = NewAsk(r)]
  OBVIOUS
<1>4. /\ Good(stored', asked', now')
      /\ asked' \in Asks
      /\ \A x \in DOMAIN stored' : x # r => x \in DOMAIN current /\ stored'[x] = current[x]
      /\ r \in DOMAIN stored' => out # "removed"
  <2>1. CASE out = "removed"
    <3>1. stored' = Without(current, {r}) /\ asked' = asked /\ now' = now
      BY <2>1, <1>3
    <3>2. /\ Good(Without(current, {r}), asked, now)
          /\ DOMAIN Without(current, {r}) = DOMAIN current \ {r}
          /\ \A x \in DOMAIN current \ {r} : Without(current, {r})[x] = current[x]
      BY <1>2, WithoutGood
    <3>3. asked \in Asks
      BY <1>1 DEF TypeOK, Asks
    <3>4. QED BY ONLY <3>1, <3>2, <3>3
  <2>2. CASE out # "removed"
    <3>1. stored' = WithKey(current, r, NewBreak(r)) /\ asked' = [asked EXCEPT ![r] = NewAsk(r)]
      BY <2>2, <1>3
    <3>2. /\ Good(stored', asked', now)
          /\ asked' \in Asks
          /\ DOMAIN stored' = DOMAIN current \cup {r}
          /\ \A x \in DOMAIN current : x # r => stored'[x] = current[x]
      <4>1. TypeOK /\ Good(current, asked, now) /\ lock[r] # NoDelay
        BY <1>1, <1>2, <1>3
      <4>2. QED BY ONLY <4>1, <3>1, r \in Rules, RequestedGood
    <3>3. QED BY <3>2, <2>2, <1>3
  <2>3. QED BY <2>1, <2>2
<1>5. blocked' \subseteq Rules
  BY <1>1, <1>3, EnforcedType DEF TypeOK, BlockedAfter
<1>6. faults' \in 0 .. MaxFaults
  <2>1. (IF out = "saved" THEN cost ELSE cost + 1) \in 0 .. 2
    OBVIOUS
  <2>2. QED BY <2>1, <1>1, <1>3, SpendType DEF TypeOK
<1>7. IsBreaks(stored)' /\ IsBreaks(items)' /\ NothingUnsaved'
  BY <1>3, <1>4, NothingGood DEF Good, IsBreaks, NothingUnsaved
<1>8. TypeOK'
  BY <1>1, <1>3, <1>4, <1>5, <1>6, <1>7 DEF TypeOK, Asks
<1>9. DelayStep
  <2> SUFFICES ASSUME NEW x \in DOMAIN stored \cap DOMAIN stored', Running(stored[x])
               PROVE  /\ stored'[x].pending_until = stored[x].pending_until
                      /\ stored'[x].length = stored[x].length
    BY DEF DelayStep
  <2>1. CASE x # r
    BY <2>1, <1>2, <1>4
  <2>2. CASE x = r
    BY <2>2, <1>2, <1>3
  <2>3. QED BY <2>1, <2>2
<1>10. Good(stored, asked, now)'
  BY <1>4 DEF Good, IsBreaks, Due, Started
<1>11. QED BY <1>7, <1>8, <1>9, <1>10 DEF DelayInv

\* A step that leaves the requests and the clock alone and writes rows that are
\* good and are those of before, some dropped, keeps the invariant.
LEMMA WriteStep ==
    ASSUME DelayInv,
           asked' = asked, now' = now,
           Good(stored', asked, now),
           DOMAIN stored' \subseteq DOMAIN stored,
           \A x \in DOMAIN stored' : /\ stored'[x].pending_until = stored[x].pending_until
                                    /\ stored'[x].length = stored[x].length,
           IsBreaks(items'), up' => items' = stored',
           lock' \in [Rules -> Delays \cup {NoDelay}], active' \in [Rules -> BOOLEAN],
           blocked' \subseteq Rules, trusted' \in BOOLEAN, up' \in BOOLEAN,
           faults' \in 0 .. MaxFaults
    PROVE  DelayInv' /\ DelayStep
<1>1. IsBreaks(stored)' /\ IsBreaks(items)' /\ Good(stored, asked, now)'
  BY DEF Good, IsBreaks, Due, Started
<1>2. TypeOK'
  BY <1>1 DEF TypeOK, DelayInv
<1>3. QED BY <1>1, <1>2 DEF DelayInv, NothingUnsaved, DelayStep

LEMMA CancelStep ==
    ASSUME DelayInv, NEW r \in Rules, Cancel(r)
    PROVE  DelayInv' /\ DelayStep
<1> PICK current \in {items, Advanced(items)}, cost \in 0 .. 1 : Cancel(r)!(current, cost)
  BY DEF Cancel
<1>1. up /\ TypeOK /\ items = stored /\ Good(items, asked, now) /\ now \in Nat
  BY ItemsGood DEF DelayInv
<1>2. /\ Good(current, asked, now)
      /\ DOMAIN current \subseteq DOMAIN stored
      /\ \A x \in DOMAIN current : /\ current[x].pending_until = stored[x].pending_until
                                    /\ current[x].length = stored[x].length
  BY <1>1, CurrentGood
<1>3. /\ stored' = Without(current, {r}) /\ items' = stored'
      /\ Spend(cost) /\ blocked' = BlockedAfter(current)
      /\ lock' = lock /\ active' = active /\ trusted' = trusted /\ now' = now
      /\ up' = up /\ asked' = asked
  OBVIOUS
<1>4. /\ Good(Without(current, {r}), asked, now)
      /\ DOMAIN Without(current, {r}) = DOMAIN current \ {r}
      /\ \A x \in DOMAIN current \ {r} : Without(current, {r})[x] = current[x]
  BY <1>2, WithoutGood
<1>5. /\ Good(stored', asked, now) /\ IsBreaks(items')
      /\ DOMAIN stored' \subseteq DOMAIN stored
      /\ \A x \in DOMAIN stored' : /\ stored'[x].pending_until = stored[x].pending_until
                                    /\ stored'[x].length = stored[x].length
  BY ONLY <1>2, <1>3, <1>4 DEF Good
<1>6. blocked' \subseteq Rules /\ faults' \in 0 .. MaxFaults
  BY <1>1, <1>3, EnforcedType, SpendType DEF TypeOK, BlockedAfter
<1>7. /\ lock' \in [Rules -> Delays \cup {NoDelay}] /\ active' \in [Rules -> BOOLEAN]
      /\ trusted' \in BOOLEAN /\ up' \in BOOLEAN
  BY <1>1, <1>3 DEF TypeOK
<1>8. QED BY <1>3, <1>5, <1>6, <1>7, WriteStep

LEMMA OtherCommandStep == ASSUME DelayInv, OtherCommand PROVE DelayInv' /\ DelayStep
<1>1. up /\ TypeOK /\ items = stored /\ Good(items, asked, now) /\ now \in Nat
  BY ItemsGood DEF DelayInv, OtherCommand
<1>2. /\ stored' = Advanced(items) /\ items' = stored'
      /\ blocked' \in {blocked, Enforced(Advanced(items), lock)}
      /\ Spend(0) \/ Spend(1)
      /\ lock' = lock /\ active' = active /\ trusted' = trusted /\ now' = now
      /\ up' = up /\ asked' = asked
  BY DEF OtherCommand
<1>3. /\ Good(stored', asked, now) /\ IsBreaks(items')
      /\ DOMAIN stored' \subseteq DOMAIN stored
      /\ \A x \in DOMAIN stored' : /\ stored'[x].pending_until = stored[x].pending_until
                                    /\ stored'[x].length = stored[x].length
  BY <1>1, <1>2, AdvancedGood DEF Good
<1>4. blocked' \subseteq Rules /\ faults' \in 0 .. MaxFaults
  BY <1>1, <1>2, EnforcedType, SpendType DEF TypeOK
<1>5. /\ lock' \in [Rules -> Delays \cup {NoDelay}] /\ active' \in [Rules -> BOOLEAN]
      /\ trusted' \in BOOLEAN /\ up' \in BOOLEAN
  BY <1>1, <1>2 DEF TypeOK
<1>6. QED BY <1>2, <1>3, <1>4, <1>5, WriteStep

LEMMA SaveLockStep ==
    ASSUME DelayInv, NEW r \in Rules, NEW new \in Delays \cup {NoDelay}, SaveLock(r, new)
    PROVE  DelayInv' /\ DelayStep
<1> PICK current \in {items, Advanced(items)}, cost \in 0 .. 1,
         out \in {"done", "unreconciled", "unpruned", "crash"} :
            SaveLock(r, new)!(current, cost, out)
  BY DEF SaveLock
<1> DEFINE unlocked == {x \in Rules : lock'[x] = NoDelay}
           pruned == Without(current, unlocked)
<1>1. up /\ TypeOK /\ items = stored /\ Good(items, asked, now) /\ now \in Nat
  BY ItemsGood DEF DelayInv
<1>2. /\ Good(current, asked, now)
      /\ DOMAIN current \subseteq DOMAIN stored
      /\ \A x \in DOMAIN current : /\ current[x].pending_until = stored[x].pending_until
                                    /\ current[x].length = stored[x].length
  BY <1>1, CurrentGood
<1>3. /\ stored' = IF out = "done" THEN pruned ELSE current
      /\ items' = IF out = "crash" THEN Nothing ELSE stored'
      /\ up' = (out # "crash")
      /\ Spend(IF out = "done" THEN cost ELSE cost + 1)
      /\ lock' = [lock EXCEPT ![r] = new]
      /\ active' = active /\ trusted' = trusted /\ now' = now /\ asked' = asked
  OBVIOUS
<1>4. blocked' \in {Enforced(current, lock'), BlockedAfter(current)}
  OBVIOUS
<1>5. PICK K : K = unlocked
  OBVIOUS
<1>6. /\ Good(Without(current, K), asked, now)
      /\ DOMAIN Without(current, K) = DOMAIN current \ K
      /\ \A x \in DOMAIN current \ K : Without(current, K)[x] = current[x]
  BY <1>2, WithoutGood
<1>7. stored' \in {Without(current, K), current} /\ items' \in {Nothing, stored'}
      /\ (up' => items' = stored')
  BY <1>3, <1>5
<1>8. /\ Good(stored', asked, now) /\ IsBreaks(items')
      /\ DOMAIN stored' \subseteq DOMAIN stored
      /\ \A x \in DOMAIN stored' : /\ stored'[x].pending_until = stored[x].pending_until
                                    /\ stored'[x].length = stored[x].length
  BY ONLY <1>2, <1>6, <1>7, NothingGood DEF Good
<1>9. blocked' \subseteq Rules
  BY <1>1, <1>4, EnforcedType DEF TypeOK, BlockedAfter
<1>10. faults' \in 0 .. MaxFaults
  <2>1. (IF out = "done" THEN cost ELSE cost + 1) \in 0 .. 2
    OBVIOUS
  <2>2. QED BY <2>1, <1>1, <1>3, SpendType DEF TypeOK
<1>11. /\ lock' \in [Rules -> Delays \cup {NoDelay}] /\ active' \in [Rules -> BOOLEAN]
       /\ trusted' \in BOOLEAN /\ up' \in BOOLEAN
  BY <1>1, <1>3 DEF TypeOK
<1>12. QED BY <1>3, <1>7, <1>8, <1>9, <1>10, <1>11, WriteStep

LEMMA TickStep == ASSUME DelayInv, Tick PROVE DelayInv' /\ DelayStep
<1> PICK current \in {items, Advanced(items)}, cost \in 0 .. 1, fails \in BOOLEAN :
        Tick!(current, cost, fails)
  BY DEF Tick
<1>1. up /\ TypeOK /\ items = stored /\ Good(items, asked, now) /\ now \in Nat
  BY ItemsGood DEF DelayInv
<1>2. /\ Good(current, asked, now)
      /\ DOMAIN current \subseteq DOMAIN stored
      /\ \A x \in DOMAIN current : /\ current[x].pending_until = stored[x].pending_until
                                    /\ current[x].length = stored[x].length
  BY <1>1, CurrentGood
<1>3. /\ stored' = current /\ up' = ~fails
      /\ items' \in {Nothing, current} /\ (up' => items' = stored')
      /\ blocked' \in {blocked, Enforced(current, lock)}
      /\ Spend(IF fails THEN cost + 1 ELSE cost)
      /\ lock' = lock /\ active' = active /\ trusted' = trusted
      /\ now' = now /\ asked' = asked
  OBVIOUS
<1>4. Good(stored', asked, now) /\ IsBreaks(items')
  BY ONLY <1>2, <1>3, NothingGood DEF Good
<1>5. blocked' \subseteq Rules
  BY <1>1, <1>3, EnforcedType DEF TypeOK
<1>6. faults' \in 0 .. MaxFaults
  <2>1. (IF fails THEN cost + 1 ELSE cost) \in 0 .. 2
    OBVIOUS
  <2>2. QED BY <2>1, <1>1, <1>3, SpendType DEF TypeOK
<1>7. /\ lock' \in [Rules -> Delays \cup {NoDelay}] /\ active' \in [Rules -> BOOLEAN]
      /\ trusted' \in BOOLEAN /\ up' \in BOOLEAN
  BY <1>1, <1>3 DEF TypeOK
<1>8. QED BY <1>2, <1>3, <1>4, <1>5, <1>6, <1>7, WriteStep

LEMMA StartStep == ASSUME DelayInv, Start PROVE DelayInv' /\ DelayStep
<1> PICK current \in {stored, Advanced(stored)}, cost \in 0 .. 1, fails \in BOOLEAN :
        Start!(current, cost, fails)
  BY DEF Start
<1>1. TypeOK /\ Good(stored, asked, now) /\ now \in Nat
  BY DEF DelayInv, TypeOK
<1>2. /\ Good(current, asked, now)
      /\ DOMAIN current \subseteq DOMAIN stored
      /\ \A x \in DOMAIN current : /\ current[x].pending_until = stored[x].pending_until
                                    /\ current[x].length = stored[x].length
  BY <1>1, CurrentGood
<1>3. /\ stored' = current /\ up' = ~fails
      /\ items' \in {Nothing, current} /\ (up' => items' = stored')
      /\ blocked' \in {blocked, Enforced(current, lock)}
      /\ Spend(IF fails THEN cost + 1 ELSE cost)
      /\ lock' = lock /\ active' = active /\ trusted' = trusted
      /\ now' = now /\ asked' = asked
  OBVIOUS
<1>4. Good(stored', asked, now) /\ IsBreaks(items')
  BY ONLY <1>2, <1>3, NothingGood DEF Good
<1>5. blocked' \subseteq Rules
  BY <1>1, <1>3, EnforcedType DEF TypeOK
<1>6. faults' \in 0 .. MaxFaults
  <2>1. (IF fails THEN cost + 1 ELSE cost) \in 0 .. 2
    OBVIOUS
  <2>2. QED BY <2>1, <1>1, <1>3, SpendType DEF TypeOK
<1>7. /\ lock' \in [Rules -> Delays \cup {NoDelay}] /\ active' \in [Rules -> BOOLEAN]
      /\ trusted' \in BOOLEAN /\ up' \in BOOLEAN
  BY <1>1, <1>3 DEF TypeOK
<1>8. QED BY <1>2, <1>3, <1>4, <1>5, <1>6, <1>7, WriteStep

LEMMA EnvironmentStep == ASSUME DelayInv, Environment PROVE DelayInv' /\ DelayStep
<1>1. CASE Elapse
  <2>1. /\ now' = now + 1 /\ now \in Nat
        /\ UNCHANGED <<lock, active, items, stored, blocked, trusted, up, faults, asked>>
    BY <1>1 DEF Elapse, DelayInv, TypeOK
  <2>2. Good(stored', asked', now')
    BY <2>1, GoodLater DEF DelayInv
  <2>3. Good(stored, asked, now)'
    BY <2>2 DEF Good, IsBreaks, Due, Started
  <2>4. TypeOK' /\ NothingUnsaved'
    BY <2>1 DEF DelayInv, TypeOK, NothingUnsaved, IsBreaks
  <2>5. QED BY <2>1, <2>3, <2>4 DEF DelayInv, DelayStep
<1>2. CASE Crash \/ ChangeTrust \/ \E r \in Rules : Turn(r)
  <2>1. /\ stored' = stored /\ asked' = asked /\ now' = now
        /\ lock' = lock /\ blocked' = blocked
        /\ items' \in {Nothing, items} /\ (up' => items' = items /\ up' = up)
    BY <1>2 DEF Crash, ChangeTrust, Turn
  <2>2. active' \in [Rules -> BOOLEAN] /\ trusted' \in BOOLEAN /\ up' \in BOOLEAN
    BY <1>2 DEF Crash, ChangeTrust, Turn, DelayInv, TypeOK
  <2>3. faults' \in 0 .. MaxFaults
    BY <1>2, SpendType DEF Crash, ChangeTrust, Turn, DelayInv, TypeOK
  <2>4. Good(stored', asked, now) /\ IsBreaks(items') /\ (up' => items' = stored')
    BY <2>1, NothingGood DEF DelayInv, TypeOK, Good, NothingUnsaved
  <2>5. lock' \in [Rules -> Delays \cup {NoDelay}] /\ blocked' \subseteq Rules
    BY <2>1 DEF DelayInv, TypeOK
  <2>6. QED BY <2>1, <2>2, <2>3, <2>4, <2>5, WriteStep
<1>3. QED BY <1>1, <1>2 DEF Environment

LEMMA NextStep == ASSUME DelayInv, [Next]_vars PROVE DelayInv' /\ [DelayStep]_vars
<1>1. CASE Next
  BY <1>1, RequestStep, CancelStep, OtherCommandStep, SaveLockStep, TickStep, StartStep,
     EnvironmentStep DEF Next, Command
<1>2. CASE UNCHANGED vars
  BY <1>2 DEF vars, DelayInv, TypeOK, NothingUnsaved, Good, IsBreaks, Due, Started
<1>3. QED BY <1>1, <1>2

-----------------------------------------------------------------------------
(* The theorems. *)

\* The invariant holds in every reachable state.
THEOREM DelayInvHolds == Spec => []DelayInv
BY InvInit, NextStep, PTL DEF Spec

\* Every variable keeps its type, and a restart continues with the countdowns and
\* breaks the service had.
THEOREM DelayTypeCorrect == Spec => [](TypeOK /\ NothingUnsaved)
<1>1. DelayInv => TypeOK /\ NothingUnsaved
  BY DEF DelayInv
<1>2. QED BY <1>1, DelayInvHolds, PTL

\* A rule is left out of the enforcement only in the time that was asked for:
\* after the whole wait and for no longer than the break.
THEOREM BreaksAreWaitedForAlways == Spec => []BreaksAreWaitedFor
<1>1. ASSUME DelayInv PROVE BreaksAreWaitedFor
  <2> SUFFICES ASSUME NEW r \in Rules, up, OnBreak(items, lock, r)
               PROVE  now - asked[r].at
                        \in asked[r].wait .. (asked[r].wait + asked[r].length - 1)
    BY DEF BreaksAreWaitedFor
  <2>1. r \in DOMAIN stored /\ Started(stored[r]) /\ now < stored[r].break_until
    BY <1>1 DEF OnBreak, DelayInv, NothingUnsaved
  <2>2. Due(stored[r], asked[r], now)
    BY <1>1, <2>1 DEF DelayInv, Good
  <2>3. /\ now \in Nat
        /\ asked[r].at \in Nat /\ asked[r].wait \in Nat /\ asked[r].length \in Nat
    BY <1>1 DEF DelayInv, TypeOK
  <2>4. QED BY <2>1, <2>2, <2>3 DEF Due
<1>2. QED BY <1>1, DelayInvHolds, PTL

\* A countdown or break that is running is moved by no request and no restart.
THEOREM RequestsDoNotMoveItEver == Spec => RequestsDoNotMoveIt
<1>1. DelayInv /\ [Next]_vars => [DelayStep]_vars
  BY NextStep
<1>2. QED BY <1>1, DelayInvHolds, PTL DEF Spec, RequestsDoNotMoveIt, DelayStep
=============================================================================
