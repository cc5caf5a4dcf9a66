--------------------------- MODULE StatisticsProofs ---------------------------
(***************************************************************************)
(* Two results for any programs, mounts, rules and numbers of failures: a  *)
(* program that is blocked all the time it waits does not run, and what a  *)
(* browser counts is added up once.                                        *)
(***************************************************************************)
EXTENDS Statistics, FiniteSetTheorems, SequenceTheorems, TLAPS

-----------------------------------------------------------------------------
(* Blocked programs. *)

\* The mounts of the blocked paths are marked, and those of the paths that are
\* about to be blocked.
MarksInv ==
    /\ \A p \in blocked : MountOf[p] \in marks
    /\ pass = "marked" => \A p \in wanted : MountOf[p] \in marks

\* A program waits because its path is blocked, or was free at some time; the
\* listener allows the latter only.
WaitingInv ==
    /\ ~appUp => waiting = {} /\ hand = Nobody
    /\ hand # Nobody => hand \in Hand
    /\ \A p \in waiting : p \in blocked \/ p \in freed
    /\ hand # Nobody /\ hand.at \in {"deny", "allow"} => hand.path \in waiting
    /\ hand # Nobody /\ hand.at = "allow" => hand.path \in freed

AppInv == MarksInv /\ WaitingInv /\ slipped = FALSE

LEMMA AppUnchanged ==
    ASSUME AppInv, UNCHANGED <<appUp, marks, blocked, waiting, hand, wanted, pass, freed, slipped>>
    PROVE  AppInv'
  BY DEF AppInv, MarksInv, WaitingInv

LEMMA ExecWaits ==
    ASSUME AppInv, NEW p \in Paths, Exec(p)
    PROVE  AppInv'
  <1>1. UNCHANGED <<appUp, marks, blocked, hand, wanted, pass>>
    BY DEF Exec, listener
  <1>2. p \notin waiting
    BY DEF Exec
  <1>3. CASE appUp /\ MountOf[p] \in marks
    <2>1. /\ waiting' = waiting \cup {p} /\ slipped' = slipped
          /\ freed' = IF p \in blocked THEN freed \ {p} ELSE freed \cup {p}
      BY <1>3 DEF Exec
    <2> QED BY <1>1, <1>2, <1>3, <2>1 DEF AppInv, MarksInv, WaitingInv
  <1>4. CASE ~(appUp /\ MountOf[p] \in marks)
    <2>1. UNCHANGED <<waiting, freed>> /\ slipped' = (slipped \/ (appUp /\ p \in blocked))
      BY <1>4 DEF Exec
    <2>2. ~(appUp /\ p \in blocked)
      BY <1>4 DEF AppInv, MarksInv
    <2> QED BY <1>1, <2>1, <2>2 DEF AppInv, MarksInv, WaitingInv
  <1> QED BY <1>3, <1>4

LEMMA ListenerWaits ==
    ASSUME AppInv, Listener \/ ListenerFails
    PROVE  AppInv'
  <1> USE DEF AppInv, MarksInv, WaitingInv, Hand
  <1>1. ASSUME NEW p \in Paths, Decide(p)
        PROVE  AppInv'
    <2>1. /\ p \in waiting /\ hand' = [path |-> p, at |-> IF p \in blocked THEN "deny" ELSE "allow"]
          /\ UNCHANGED <<appUp, marks, blocked, waiting, wanted, pass, freed, slipped>>
      BY <1>1 DEF Decide, kernel
    <2>2. hand'.path = p /\ hand'.at = (IF p \in blocked THEN "deny" ELSE "allow")
      BY <2>1
    <2> QED BY <2>1, <2>2
  <1>2. CASE Respond
    <2>1. /\ hand # Nobody /\ hand.at \in {"deny", "allow"} /\ waiting' = waiting \ {hand.path}
          /\ UNCHANGED <<appUp, marks, blocked, wanted, pass, freed>>
      BY <1>2 DEF Respond
    <2>2. CASE hand.at = "deny"
      <3>1. hand' = [hand EXCEPT !.at = "record"] /\ slipped' = slipped
        BY <1>2, <2>2 DEF Respond
      <3>2. hand'.at = "record" /\ hand' \in Hand
        BY <2>1, <3>1
      <3> QED BY <2>1, <3>1, <3>2
    <2>3. CASE hand.at # "deny"
      <3>1. hand' = Nobody /\ slipped' = (slipped \/ hand.path \notin freed)
        BY <1>2, <2>3 DEF Respond
      <3> QED BY <2>1, <2>3, <3>1
    <2> QED BY <2>2, <2>3
  <1>3. CASE ListenerFails
    <2>1. /\ hand' = Nobody /\ waiting' \subseteq waiting
          /\ UNCHANGED <<appUp, marks, blocked, wanted, pass, freed, slipped>>
      BY <1>3 DEF ListenerFails
    <2> QED BY <2>1
  <1>4. CASE Record
    <2>1. /\ hand # Nobody
          /\ (hand' = Nobody \/ hand' = [hand EXCEPT !.at = "drop"])
          /\ UNCHANGED <<appUp, marks, blocked, waiting, wanted, pass, freed, slipped>>
      BY <1>4 DEF Record, kernel
    <2>2. [hand EXCEPT !.at = "drop"].at = "drop"
          /\ [hand EXCEPT !.at = "drop"] \in Hand
      BY <2>1
    <2> QED BY <2>1, <2>2
  <1>5. CASE Drop
    BY <1>5 DEF Drop, kernel
  <1> QED BY <1>1, <1>2, <1>3, <1>4, <1>5 DEF Listener

\* The end of the service lets go of every program.
LEMMA GoneWaits ==
    ASSUME Gone, wanted' = wanted, slipped' = FALSE
    PROVE  AppInv'
  BY DEF Gone, AppInv, MarksInv, WaitingInv

LEMMA TickWaits ==
    ASSUME AppInv, Tick
    PROVE  AppInv'
  <1> USE DEF AppInv, MarksInv, WaitingInv
  <1>1. CASE StartReconcile
    BY <1>1 DEF StartReconcile, BlockedUntilMarked, MainStep, listener
  <1>2. CASE MarkMounts
    <2>1. UNCHANGED <<appUp, blocked, waiting, hand, wanted, freed, slipped>>
      BY <1>2 DEF MarkMounts, MainStep, listener
    <2>2. \/ marks' = marks \cup {MountOf[p] : p \in wanted}
          \/ marks' = marks /\ pass' = "drain"
      BY <1>2 DEF MarkMounts
    <2> QED BY <2>1, <2>2
  <1>3. CASE ReplaceBlocked
    BY <1>3 DEF ReplaceBlocked, MainStep, listener
  <1>4. CASE \/ ReconcileNetwork \/ Take \/ StartMerge \/ MergeOne \/ MergeDropped \/ Persist
             \/ RunPrograms \/ Check
    <2>1. /\ UNCHANGED <<appUp, marks, blocked, waiting, hand, wanted, freed, slipped>>
          /\ pass # "marked" /\ pass' # "marked"
      BY <1>4 DEF ReconcileNetwork, Take, StartMerge, MergeOne, MergeDropped, Persist, RunPrograms, Check,
                  MainStep, listener
    <2> QED BY <2>1
  <1>5. CASE Shutdown
    BY <1>5, GoneWaits DEF Shutdown
  <1>6. CASE StartService
    <2>1. /\ ~appUp /\ blocked' = wanted /\ marks' = {MountOf[p] : p \in wanted}
          /\ UNCHANGED <<wanted, waiting, hand, pass, freed, slipped>>
      BY <1>6 DEF StartService
    <2> QED BY <2>1
  <1> QED BY <1>1, <1>2, <1>3, <1>4, <1>5, <1>6 DEF Tick

LEMMA ApplicationsWait ==
    ASSUME AppInv, AppNext
    PROVE  AppInv'
  <1>1. CASE EditApplications
    BY <1>1 DEF EditApplications, AppInv, MarksInv, WaitingInv, kernel, listener
  <1>2. CASE Elapse \/ Clear
    BY <1>2, AppUnchanged DEF Elapse, Clear, MainStep, listener
  <1>3. CASE Crash
    BY <1>3, GoneWaits DEF Crash, AppInv
  <1> QED BY <1>1, <1>2, <1>3, ExecWaits, ListenerWaits, TickWaits DEF AppNext

\* While the service runs, a program whose path is blocked from its execution to
\* its answer does not run, whatever the rules become meanwhile and whenever the
\* listener answers.  (FanotifyEnforcer.set_blocked and _handle_event.)
THEOREM BlockedProgramsWaitAlways == Spec => []BlockedProgramsWait
  <1>1. Init => AppInv
    BY DEF Init, AppInit, AppInv, MarksInv, WaitingInv
  <1>2. AppInv /\ [Next]_statisticsVars => AppInv'
    <2>1. ASSUME AppInv, OfWebsites \/ UNCHANGED statisticsVars
          PROVE  AppInv'
      BY <2>1, AppUnchanged DEF OfWebsites, statisticsVars, appVars
    <2> QED BY <2>1, ApplicationsWait DEF Next, OfApplications
  <1>3. AppInv => BlockedProgramsWait
    BY DEF AppInv, BlockedProgramsWait
  <1> QED BY <1>1, <1>2, <1>3, PTL DEF Spec
-----------------------------------------------------------------------------
(* Denials. *)

\* Statistics, whatever the order of their rows.
Tallies(s) == s \in [count : PathCounts, order : {s.order}, dropped : Nat]

\* Taken denials wait for nothing but the merge, and nothing outlives the service.
QueueInv ==
    /\ buffer \in Seq(Paths) /\ taken \in Seq(Paths) /\ dropped \in Nat /\ overflown \in Int
    /\ expected \in [Paths -> Int] /\ Tallies(stats) /\ Tallies(appDisk)
    /\ pass \notin {"drain", "merge"} => taken = <<>>
    /\ ~appUp => buffer = <<>> /\ taken = <<>> /\ dropped = 0

AccountInv == AppInv /\ QueueInv /\ DenialsAccounted

LEMMA TimesIs ==
    ASSUME NEW p, NEW seq \in Seq(Paths)
    PROVE  Times(p, seq) \in Nat /\ IsFiniteSet({i \in DOMAIN seq : seq[i] = p})
  <1>1. IsFiniteSet(1 .. Len(seq)) /\ DOMAIN seq = 1 .. Len(seq)
    BY FS_Interval, LenProperties
  <1>2. IsFiniteSet({i \in DOMAIN seq : seq[i] = p})
    BY <1>1, FS_Subset
  <1> QED BY <1>2, FS_CardinalityType DEF Times

LEMMA TimesEmpty ==
    ASSUME NEW p PROVE Times(p, <<>>) = 0
  <1>1. {i \in DOMAIN <<>> : <<>>[i] = p} = {}
    OBVIOUS
  <1> QED BY <1>1, FS_EmptySet DEF Times

LEMMA TimesAppend ==
    ASSUME NEW p, NEW seq \in Seq(Paths), NEW q \in Paths
    PROVE  Times(p, Append(seq, q)) = Times(p, seq) + (IF q = p THEN 1 ELSE 0)
  <1> DEFINE n == Len(seq) + 1
             old == {i \in DOMAIN seq : seq[i] = p}
             new == {i \in DOMAIN Append(seq, q) : Append(seq, q)[i] = p}
  <1>1. /\ n \in Nat /\ DOMAIN seq = 1 .. n - 1 /\ DOMAIN Append(seq, q) = 1 .. n
        /\ Append(seq, q)[n] = q /\ \A i \in 1 .. n - 1 : Append(seq, q)[i] = seq[i]
    BY AppendProperties, LenProperties
  <1>2. IsFiniteSet(old) /\ n \notin old /\ Cardinality(old) \in Nat
    <2>1. IsFiniteSet(old)
      BY TimesIs
    <2>2. n \notin old
      BY <1>1
    <2> QED BY <2>1, <2>2, FS_CardinalityType
  <1>3. new = IF q = p THEN old \cup {n} ELSE old
    BY <1>1
  <1>4. Cardinality(old \cup {n}) = Cardinality(old) + 1
    BY <1>2, FS_AddElement
  <1> HIDE DEF n, old, new
  <1>5. Cardinality(new) = Cardinality(old) + (IF q = p THEN 1 ELSE 0)
    BY <1>2, <1>3, <1>4
  <1> QED BY <1>5 DEF Times, old, new

LEMMA TimesTail ==
    ASSUME NEW p, NEW seq \in Seq(Paths), seq # <<>>
    PROVE  /\ Head(seq) \in Paths /\ Tail(seq) \in Seq(Paths)
           /\ Times(p, seq) = Times(p, Tail(seq)) + (IF Head(seq) = p THEN 1 ELSE 0)
  <1> DEFINE n == Len(seq)
             whole == {i \in DOMAIN seq : seq[i] = p}
             later == {i \in whole : i > 1}
             rest == {i \in DOMAIN Tail(seq) : Tail(seq)[i] = p}
  <1>1. /\ n \in Nat \ {0} /\ DOMAIN seq = 1 .. n /\ Head(seq) = seq[1]
        /\ Tail(seq) \in Seq(Paths) /\ DOMAIN Tail(seq) = 1 .. n - 1
        /\ \A i \in 1 .. n - 1 : Tail(seq)[i] = seq[i + 1]
    BY HeadTailProperties, LenProperties, EmptySeq
  <1>2. Head(seq) \in Paths
    BY <1>1, ElementOfSeq
  <1>3. IsFiniteSet(whole) /\ IsFiniteSet(rest)
    BY <1>1, TimesIs
  <1>4. IsFiniteSet(later)
    BY <1>3, FS_Subset
  <1>5. Cardinality(rest) = Cardinality(later)
    <2> DEFINE f == [i \in rest |-> i + 1]
    <2>1. ASSUME NEW i \in rest PROVE f[i] \in later
      BY <1>1
    <2>2. ASSUME NEW j \in later PROVE \E i \in rest : f[i] = j
      <3>1. j \in 2 .. n /\ seq[j] = p
        BY <1>1
      <3>2. j - 1 \in 1 .. n - 1 /\ (j - 1) + 1 = j
        BY <1>1, <3>1
      <3>3. Tail(seq)[j - 1] = seq[(j - 1) + 1]
        BY <1>1, <3>2
      <3>4. j - 1 \in rest
        BY <1>1, <3>1, <3>2, <3>3
      <3> QED BY <3>2, <3>4
    <2>3. ASSUME NEW i \in rest, NEW j \in rest, f[i] = f[j] PROVE i = j
      <3>1. i \in Int /\ j \in Int /\ i + 1 = j + 1
        BY <1>1, <2>3
      <3> QED BY <3>1
    <2>4. f \in Bijection(rest, later)
      BY <2>1, <2>2, <2>3 DEF Bijection, Injection, Surjection, IsInjective
    <2> QED BY <1>3, <2>4, FS_Bijection DEF ExistsBijection
  <1>6. Cardinality(later) \in Nat
    BY <1>4, FS_CardinalityType
  <1>7. whole = IF Head(seq) = p THEN later \cup {1} ELSE later
    BY <1>1
  <1>8. Cardinality(later \cup {1}) = Cardinality(later) + 1
    <2>1. 1 \notin later
      OBVIOUS
    <2> QED BY <1>4, <2>1, FS_AddElement
  <1> HIDE DEF n, whole, later, rest
  <1>9. Cardinality(whole) = Cardinality(rest) + (IF Head(seq) = p THEN 1 ELSE 0)
    BY <1>5, <1>6, <1>7, <1>8
  <1> QED BY <1>1, <1>2, <1>9 DEF Times, whole, rest

\* A denial that is recorded adds to the count of its path; the row that makes room
\* loses its count.
LEMMA RecordedTallies ==
    ASSUME NEW s, Tallies(s), NEW path \in Paths
    PROVE  LET next == Recorded(s, path)
           IN  /\ Tallies(next) /\ next.dropped = s.dropped
               /\ \A p \in Paths : next.count[p] = IF p = path THEN s.count[p] + 1
                                                   ELSE IF p \in Evicted(s, path) THEN 0 ELSE s.count[p]
  <1> DEFINE tally == [p \in Paths |-> IF p = path THEN s.count[p] + 1
                                       ELSE IF p \in Evicted(s, path) THEN 0 ELSE s.count[p]]
  <1>1. PICK order : Recorded(s, path) = [s EXCEPT !.count = tally, !.order = order]
    BY Zenon DEF Recorded
  <1>2. s.count \in PathCounts
    BY DEF Tallies
  <1>3. tally \in PathCounts
    BY <1>2 DEF PathCounts
  <1> HIDE DEF tally
  <1>4. /\ Tallies(Recorded(s, path)) /\ Recorded(s, path).dropped = s.dropped
        /\ Recorded(s, path).count = tally
    BY <1>1, <1>3 DEF Tallies
  <1> QED BY <1>4 DEF tally

\* What the invariant says of one path.
Accounted(p) == expected[p] = stats.count[p] + Times(p, taken) + Times(p, buffer) + HandCounts[p]

LEMMA NumbersOfPath ==
    ASSUME QueueInv, NEW p \in Paths
    PROVE  /\ expected[p] \in Int /\ stats.count[p] \in Nat
           /\ Times(p, taken) \in Nat /\ Times(p, buffer) \in Nat
           /\ HandCounts[p] = IF InHand(p) THEN 1 ELSE 0
           /\ stats.dropped \in Nat /\ appDisk.dropped \in Nat
  <1>1. stats.count \in [Paths -> Nat] /\ stats.dropped \in Nat /\ appDisk.dropped \in Nat
    BY DEF QueueInv, Tallies, PathCounts
  <1>2. Times(p, taken) \in Nat /\ Times(p, buffer) \in Nat
    BY TimesIs DEF QueueInv
  <1> QED BY <1>1, <1>2 DEF QueueInv, HandCounts

LEMMA AccountUnchanged ==
    ASSUME QueueInv, DenialsAccounted,
           UNCHANGED <<appUp, HandCounts, buffer, taken, dropped, expected, overflown, stats, appDisk>>,
           pass' \in {"drain", "merge"} \/ taken = <<>>
    PROVE  QueueInv' /\ DenialsAccounted'
  BY DEF QueueInv, DenialsAccounted, Tallies, Times

LEMMA ListenerAccounts ==
    ASSUME AccountInv, Listener \/ ListenerFails
    PROVE  QueueInv' /\ DenialsAccounted'
  <1> USE DEF AccountInv
  <1>1. /\ UNCHANGED <<appUp, taken, pass, stats, appDisk>>
        /\ hand # Nobody => appUp /\ hand \in Hand /\ hand.path \in Paths
    <2>1. UNCHANGED <<appUp, taken, pass, stats, appDisk>>
      BY DEF Listener, ListenerFails, Decide, Respond, Record, Drop, memory
    <2> QED BY <2>1 DEF AppInv, WaitingInv, Hand
  <1>2. pass \in {"drain", "merge"} \/ taken = <<>>
    BY DEF QueueInv
  <1>3. ASSUME NEW p \in Paths, Decide(p)
        PROVE  QueueInv' /\ DenialsAccounted'
    <2>1. /\ hand = Nobody /\ hand'.at \in {"deny", "allow"}
          /\ UNCHANGED <<buffer, dropped, expected, overflown>>
      BY <1>3 DEF Decide, queued
    <2>2. UNCHANGED HandCounts
      BY <2>1 DEF HandCounts, InHand
    <2> QED BY <1>1, <1>2, <2>1, <2>2, AccountUnchanged
  <1>4. CASE ListenerFails
    <2>1. /\ hand' = Nobody /\ (hand = Nobody \/ hand.at \in {"deny", "allow"})
          /\ UNCHANGED <<buffer, dropped, expected, overflown>>
      BY <1>4 DEF ListenerFails, queued
    <2>2. UNCHANGED HandCounts
      BY <2>1 DEF HandCounts, InHand
    <2> QED BY <1>1, <1>2, <2>1, <2>2, AccountUnchanged
  <1>5. CASE Respond
    <2>1. /\ hand # Nobody /\ hand.at \in {"deny", "allow"} /\ hand.path \in Paths
          /\ UNCHANGED <<buffer, dropped, overflown>>
      BY <1>1, <1>5 DEF Respond, queued
    <2>2. CASE hand.at = "deny"
      <3>1. /\ hand' = [hand EXCEPT !.at = "record"]
            /\ expected' = [expected EXCEPT ![hand.path] = @ + 1]
        BY <1>5, <2>2 DEF Respond
      <3>2. /\ hand' # Nobody /\ hand'.at = "record" /\ hand'.path = hand.path
        <4>1. hand' \in Hand
          BY <1>1, <2>1, <3>1 DEF Hand
        <4> QED BY <1>1, <2>1, <3>1, <4>1, ApplicationAssumption DEF Hand
      <3>3. ASSUME NEW p \in Paths
            PROVE  /\ HandCounts'[p] = HandCounts[p] + (IF p = hand.path THEN 1 ELSE 0)
                   /\ expected'[p] = expected[p] + (IF p = hand.path THEN 1 ELSE 0)
        <4>1. HandCounts[p] = 0 /\ HandCounts'[p] = (IF p = hand.path THEN 1 ELSE 0)
          BY <2>1, <2>2, <3>2 DEF HandCounts, InHand
        <4>2. expected'[p] = IF p = hand.path THEN expected[p] + 1 ELSE expected[p]
          BY <3>1 DEF QueueInv
        <4> QED BY <4>1, <4>2, NumbersOfPath
      <3>4. expected' \in [Paths -> Int]
        BY <2>1, <3>1 DEF QueueInv
      <3>5. ASSUME appUp, NEW p \in Paths PROVE Accounted(p)'
        <4>1. Accounted(p)
          BY <3>5 DEF DenialsAccounted, Accounted
        <4>2. UNCHANGED <<stats.count[p], Times(p, taken), Times(p, buffer)>>
          BY <1>1, <2>1 DEF Times
        <4>3. HandCounts[p] \in Int
          BY NumbersOfPath
        <4> QED BY <3>3, <4>1, <4>2, <4>3, NumbersOfPath DEF Accounted
      <3> QED BY <1>1, <2>1, <3>4, <3>5 DEF QueueInv, DenialsAccounted, Accounted
    <2>3. CASE hand.at = "allow"
      <3>1. hand' = Nobody /\ expected' = expected
        BY <1>5, <2>3 DEF Respond
      <3>2. UNCHANGED HandCounts
        BY <2>3, <3>1 DEF HandCounts, InHand
      <3> QED BY <1>1, <1>2, <2>1, <3>1, <3>2, AccountUnchanged
    <2> QED BY <2>1, <2>2, <2>3
  <1>6. CASE Record
    <2>1. /\ hand # Nobody /\ hand.at = "record" /\ hand.path \in Paths
          /\ UNCHANGED <<dropped, expected, overflown>>
      BY <1>1, <1>6 DEF Record
    <2>2. CASE Len(buffer) < MaxQueue
      <3>1. buffer' = Append(buffer, hand.path) /\ hand' = Nobody
        BY <1>6, <2>2 DEF Record
      <3>2. buffer' \in Seq(Paths)
        BY <2>1, <3>1, AppendProperties DEF QueueInv
      <3>3. ASSUME appUp, NEW p \in Paths PROVE Accounted(p)'
        <4>1. Accounted(p)
          BY <3>3 DEF DenialsAccounted, Accounted
        <4>2. Times(p, buffer') = Times(p, buffer) + (IF hand.path = p THEN 1 ELSE 0)
          BY <2>1, <3>1, TimesAppend DEF QueueInv
        <4>3. HandCounts'[p] = 0 /\ HandCounts[p] = (IF hand.path = p THEN 1 ELSE 0)
          BY <2>1, <3>1 DEF HandCounts, InHand
        <4>4. UNCHANGED <<stats.count[p], Times(p, taken), expected[p]>>
              /\ Times(p, buffer)' = Times(p, buffer')
          BY <1>1, <2>1 DEF Times
        <4> QED BY <4>1, <4>2, <4>3, <4>4, NumbersOfPath DEF Accounted
      <3>4. ~appUp => FALSE
        BY <1>1, <2>1
      <3> QED BY <1>1, <2>1, <3>2, <3>3, <3>4 DEF QueueInv, DenialsAccounted, Accounted
    <2>3. CASE ~(Len(buffer) < MaxQueue)
      <3>1. hand' = [hand EXCEPT !.at = "drop"] /\ buffer' = buffer
        BY <1>6, <2>3 DEF Record
      <3>2. hand' # Nobody /\ hand'.at = "drop" /\ hand'.path = hand.path
        <4>1. hand' \in Hand
          BY <1>1, <2>1, <3>1 DEF Hand
        <4> QED BY <1>1, <2>1, <3>1, <4>1, ApplicationAssumption DEF Hand
      <3>3. UNCHANGED HandCounts
        BY <2>1, <3>2 DEF HandCounts, InHand
      <3> QED BY <1>1, <1>2, <2>1, <3>1, <3>3, AccountUnchanged
    <2> QED BY <2>2, <2>3
  <1>7. CASE Drop
    <2>1. /\ hand # Nobody /\ hand.at = "drop" /\ hand.path \in Paths /\ hand' = Nobody
          /\ dropped' = dropped + 1 /\ overflown' = overflown + 1
          /\ expected' = [expected EXCEPT ![hand.path] = @ - 1] /\ buffer' = buffer
      BY <1>1, <1>7 DEF Drop
    <2>2. expected' \in [Paths -> Int] /\ dropped' \in Nat /\ overflown' \in Int
      BY <2>1 DEF QueueInv
    <2>3. ASSUME appUp, NEW p \in Paths PROVE Accounted(p)'
      <3>1. Accounted(p)
        BY <2>3 DEF DenialsAccounted, Accounted
      <3>2. HandCounts'[p] = 0 /\ HandCounts[p] = (IF hand.path = p THEN 1 ELSE 0)
        BY <2>1 DEF HandCounts, InHand
      <3>3. expected'[p] = expected[p] - (IF hand.path = p THEN 1 ELSE 0)
        BY <2>1, NumbersOfPath DEF QueueInv
      <3>4. UNCHANGED <<stats.count[p], Times(p, taken), Times(p, buffer)>>
        BY <1>1, <2>1 DEF Times
      <3> QED BY <3>1, <3>2, <3>3, <3>4, NumbersOfPath DEF Accounted
    <2>4. appUp => overflown' = stats'.dropped + dropped'
      <3>1. appUp => overflown = stats.dropped + dropped
        BY DEF DenialsAccounted
      <3>2. stats.dropped \in Nat /\ dropped \in Nat
        BY DEF QueueInv, Tallies
      <3> QED BY <1>1, <2>1, <3>1, <3>2
    <2>5. appUp
      BY <1>1, <2>1
    <2> QED BY <1>1, <2>1, <2>2, <2>3, <2>4, <2>5 DEF QueueInv, DenialsAccounted, Accounted
  <1> QED BY <1>3, <1>4, <1>5, <1>6, <1>7 DEF Listener

LEMMA TakeAccounts ==
    ASSUME AccountInv, Take
    PROVE  QueueInv' /\ DenialsAccounted'
  <1> USE DEF AccountInv
  <1>1. /\ appUp /\ buffer # <<>> /\ taken' = Append(taken, Head(buffer)) /\ buffer' = Tail(buffer)
        /\ pass = "drain"
        /\ UNCHANGED <<appUp, hand, dropped, pass, expected, overflown, stats, appDisk>>
    BY DEF Take, MainStep, listener, memory
  <1>2. Head(buffer) \in Paths /\ buffer' \in Seq(Paths) /\ taken' \in Seq(Paths)
    BY <1>1, TimesTail, AppendProperties DEF QueueInv
  <1>3. ASSUME NEW p \in Paths PROVE Accounted(p)'
    <2>1. Accounted(p)
      BY <1>1 DEF DenialsAccounted, Accounted
    <2>2. Times(p, buffer) = Times(p, buffer') + (IF Head(buffer) = p THEN 1 ELSE 0)
      BY <1>1, TimesTail DEF QueueInv
    <2>3. Times(p, taken') = Times(p, taken) + (IF Head(buffer) = p THEN 1 ELSE 0)
      BY <1>1, <1>2, TimesAppend DEF QueueInv
    <2>4. HandCounts'[p] = HandCounts[p] /\ HandCounts[p] \in Int
      BY <1>1, NumbersOfPath DEF HandCounts, InHand
    <2>5. /\ Times(p, buffer)' = Times(p, buffer') /\ Times(p, taken)' = Times(p, taken')
          /\ Times(p, buffer') \in Nat
      BY <1>2, TimesIs DEF Times
    <2>6. expected[p] = stats.count[p] + Times(p, taken) + Times(p, buffer) + HandCounts[p]
      BY <2>1 DEF Accounted
    <2>7. expected[p] = stats.count[p] + Times(p, taken') + Times(p, buffer') + HandCounts[p]
      BY <2>2, <2>3, <2>4, <2>5, <2>6, NumbersOfPath
    <2> HIDE DEF AccountInv
    <2> QED BY <1>1, <2>4, <2>5, <2>7 DEF Accounted
  <1> QED BY <1>1, <1>2, <1>3 DEF QueueInv, DenialsAccounted, Accounted, Tallies

LEMMA MergeOneAccounts ==
    ASSUME AccountInv, MergeOne
    PROVE  QueueInv' /\ DenialsAccounted'
  <1> USE DEF AccountInv
  <1> DEFINE path == Head(taken)
             gone == Evicted(stats, path)
  <1>1. /\ appUp /\ taken # <<>> /\ stats' = Recorded(stats, path) /\ taken' = Tail(taken)
        /\ pass = "merge"
        /\ expected' = [p \in Paths |-> IF p \in gone THEN expected[p] - stats.count[p] ELSE expected[p]]
        /\ UNCHANGED <<appUp, hand, buffer, dropped, pass, overflown, appDisk>>
    BY DEF MergeOne, MainStep, listener, queued
  <1>2. path \in Paths /\ taken' \in Seq(Paths)
    BY <1>1, TimesTail DEF QueueInv
  <1>3. path \notin gone
    BY DEF Evicted
  <1> HIDE DEF path, gone
  <1>4. /\ Tallies(stats') /\ stats'.dropped = stats.dropped
        /\ \A p \in Paths : stats'.count[p] = IF p = path THEN stats.count[p] + 1
                                              ELSE IF p \in gone THEN 0 ELSE stats.count[p]
    BY <1>1, <1>2, RecordedTallies DEF QueueInv, gone
  <1>5. expected' \in [Paths -> Int]
    BY <1>1, NumbersOfPath
  <1>6. ASSUME NEW p \in Paths PROVE Accounted(p)'
    <2>1. Accounted(p)
      BY <1>1 DEF DenialsAccounted, Accounted
    <2>2. Times(p, taken) = Times(p, taken') + (IF path = p THEN 1 ELSE 0)
      BY <1>1, TimesTail DEF QueueInv, path
    <2>3. HandCounts'[p] = HandCounts[p] /\ HandCounts[p] \in Int
      BY <1>1, NumbersOfPath DEF HandCounts, InHand
    <2>4. /\ Times(p, taken)' = Times(p, taken') /\ Times(p, taken') \in Nat
          /\ Times(p, buffer)' = Times(p, buffer)
      BY <1>1, <1>2, TimesIs DEF Times
    <2>5. expected'[p] = IF p \in gone THEN expected[p] - stats.count[p] ELSE expected[p]
      BY <1>1
    <2>6. stats'.count[p] = IF p = path THEN stats.count[p] + 1
                            ELSE IF p \in gone THEN 0 ELSE stats.count[p]
      BY <1>4
    <2>7. expected[p] = stats.count[p] + Times(p, taken) + Times(p, buffer) + HandCounts[p]
      BY <2>1 DEF Accounted
    <2>8. expected'[p] = stats'.count[p] + Times(p, taken') + Times(p, buffer) + HandCounts[p]
      BY <1>3, <2>2, <2>3, <2>4, <2>5, <2>6, <2>7, NumbersOfPath
    <2>9. Times(p, buffer) \in Nat
      BY NumbersOfPath
    <2> HIDE DEF AccountInv
    <2> QED BY <2>3, <2>4, <2>8, <2>9 DEF Accounted
  <1> QED BY <1>1, <1>2, <1>4, <1>5, <1>6 DEF QueueInv, DenialsAccounted, Accounted, Tallies

LEMMA MergeDroppedAccounts ==
    ASSUME AccountInv, MergeDropped
    PROVE  QueueInv' /\ DenialsAccounted'
  <1> USE DEF AccountInv
  <1>1. /\ appUp /\ taken = <<>> /\ dropped' = 0
        /\ stats' = [stats EXCEPT !.dropped = @ + dropped]
        /\ UNCHANGED <<appUp, hand, buffer, taken, expected, overflown, appDisk>>
    BY DEF MergeDropped, MainStep, listener
  <1>2. Tallies(stats') /\ stats'.count = stats.count /\ stats'.dropped = stats.dropped + dropped
    <2>1. stats \in [count : PathCounts, order : {stats.order}, dropped : Nat] /\ dropped \in Nat
      BY DEF QueueInv, Tallies
    <2>2. stats' = [count |-> stats.count, order |-> stats.order, dropped |-> stats.dropped + dropped]
      BY <1>1, <2>1
    <2> QED BY <2>1, <2>2 DEF Tallies
  <1>3. UNCHANGED HandCounts
    BY <1>1 DEF HandCounts, InHand
  <1>4. overflown' = stats'.dropped + dropped'
    <2>1. stats.dropped \in Nat /\ dropped \in Nat
      BY DEF QueueInv, Tallies
    <2> QED BY <1>1, <1>2, <2>1 DEF DenialsAccounted
  <1> QED BY <1>1, <1>2, <1>3, <1>4 DEF QueueInv, DenialsAccounted, Tallies, Times

LEMMA ClearAccounts ==
    ASSUME AccountInv, Clear
    PROVE  QueueInv' /\ DenialsAccounted'
  <1> USE DEF AccountInv
  <1>1. /\ appUp /\ pass = "idle" /\ stats' = NoStatistics /\ buffer' = <<>> /\ dropped' = 0
        /\ expected' = HandCounts /\ overflown' = 0 /\ appDisk' \in {appDisk, NoStatistics}
        /\ UNCHANGED <<appUp, hand, pass, taken>>
    BY DEF Clear, ClearedBuffer, MainStep, listener
  <1>2. taken = <<>>
    BY <1>1 DEF QueueInv
  <1>3. Tallies(NoStatistics) /\ NoStatistics.dropped = 0 /\ \A p \in Paths : NoStatistics.count[p] = 0
    BY DEF Tallies, NoStatistics, NoCounts, PathCounts
  <1>4. HandCounts' = HandCounts /\ HandCounts \in [Paths -> Int]
        /\ \A p \in Paths : HandCounts[p] \in Int
    BY <1>1 DEF HandCounts, InHand
  <1>5. QueueInv'
    BY <1>1, <1>2, <1>3, <1>4, EmptySeq DEF QueueInv
  <1>6. ASSUME NEW p \in Paths PROVE Accounted(p)'
    <2>1. Times(p, taken)' = 0 /\ Times(p, buffer)' = 0
      BY <1>1, <1>2, TimesEmpty DEF Times
    <2> QED BY <1>1, <1>3, <1>4, <2>1 DEF Accounted
  <1> QED BY <1>1, <1>3, <1>5, <1>6 DEF DenialsAccounted, Accounted

LEMMA GoneAccounts ==
    ASSUME AccountInv, Gone, appDisk' = appDisk
    PROVE  QueueInv' /\ DenialsAccounted'
  <1>1. Tallies(NoStatistics) /\ NoCounts \in [Paths -> Int]
    BY DEF Tallies, NoStatistics, NoCounts, PathCounts
  <1> QED BY <1>1, EmptySeq DEF AccountInv, Gone, QueueInv, DenialsAccounted, Tallies

LEMMA StartAccounts ==
    ASSUME AccountInv, StartService
    PROVE  QueueInv' /\ DenialsAccounted'
  <1> USE DEF AccountInv
  <1>1. /\ ~appUp /\ stats' = appDisk /\ expected' = appDisk.count /\ overflown' = appDisk.dropped
        /\ UNCHANGED <<hand, buffer, dropped, pass, taken, appDisk>>
    BY DEF StartService, queued
  <1>2. hand = Nobody /\ buffer = <<>> /\ taken = <<>> /\ dropped = 0
    BY <1>1 DEF AppInv, WaitingInv, QueueInv
  <1>3. appDisk.count \in [Paths -> Int] /\ appDisk.dropped \in Nat
    BY DEF QueueInv, Tallies, PathCounts
  <1>4. ASSUME NEW p \in Paths PROVE Accounted(p)'
    <2>1. Times(p, taken)' = 0 /\ Times(p, buffer)' = 0
      BY <1>1, <1>2, TimesEmpty DEF Times
    <2>2. HandCounts'[p] = 0
      BY <1>1, <1>2 DEF HandCounts, InHand
    <2> QED BY <1>1, <1>3, <2>1, <2>2 DEF Accounted
  <1> QED BY <1>1, <1>2, <1>3, <1>4 DEF QueueInv, DenialsAccounted, Accounted, Tallies

LEMMA ApplicationsAccount ==
    ASSUME AccountInv, AppNext
    PROVE  QueueInv' /\ DenialsAccounted'
  <1> USE DEF AccountInv
  <1>1. CASE \/ EditApplications \/ (\E p \in Paths : Exec(p)) \/ StartReconcile \/ MarkMounts
             \/ ReplaceBlocked \/ ReconcileNetwork \/ StartMerge \/ RunPrograms \/ Check \/ Elapse
    <2>1. UNCHANGED <<appUp, hand, buffer, taken, dropped, expected, overflown, stats, appDisk>>
      BY <1>1 DEF EditApplications, Exec, StartReconcile, MarkMounts, ReplaceBlocked, ReconcileNetwork,
                  StartMerge, RunPrograms, Check, Elapse, MainStep, listener, queued, memory
    <2>2. pass' \in {"drain", "merge"} \/ taken = <<>>
      BY <1>1 DEF EditApplications, Exec, StartReconcile, MarkMounts, ReplaceBlocked, ReconcileNetwork,
                  StartMerge, RunPrograms, Check, Elapse, QueueInv
    <2>3. UNCHANGED HandCounts
      BY <2>1 DEF HandCounts, InHand
    <2> QED BY <2>1, <2>2, <2>3, AccountUnchanged
  <1>2. CASE Persist
    <2>1. /\ UNCHANGED <<appUp, hand, buffer, taken, dropped, expected, overflown, stats>>
          /\ pass = "persist" /\ appDisk' \in {appDisk, stats}
      BY <1>2 DEF Persist, Saves, MainStep, listener, queued
    <2>2. UNCHANGED HandCounts
      BY <2>1 DEF HandCounts, InHand
    <2> QED BY <2>1, <2>2 DEF QueueInv, DenialsAccounted, Tallies, Times
  <1>3. CASE Shutdown \/ Crash
    BY <1>3, GoneAccounts DEF Shutdown, Crash
  <1> QED BY <1>1, <1>2, <1>3, ListenerAccounts, TakeAccounts, MergeOneAccounts, MergeDroppedAccounts,
             ClearAccounts, StartAccounts
          DEF AppNext, Tick

\* The threads lose no denial between them, count none twice, and a cleared one does
\* not come back: for any number of programs, any sizes of the buffer and of the
\* statistics, and wherever the service ends.  (DenialBuffer.record, drain and
\* discard, _drain_statistics, _cmd_clear_denial_stats.)
THEOREM DenialsAccountedAlways == Spec => []DenialsAccounted
  <1>1. Init => AccountInv
    <2> SUFFICES ASSUME Init PROVE AccountInv
      OBVIOUS
    <2>1. AppInit
      BY DEF Init
    <2>2. AppInv
      BY <2>1 DEF AppInit, AppInv, MarksInv, WaitingInv
    <2>3. /\ Tallies(NoStatistics) /\ NoCounts \in [Paths -> Int] /\ NoStatistics.dropped = 0
          /\ \A p \in Paths : NoCounts[p] = 0 /\ NoStatistics.count[p] = 0
      BY DEF Tallies, NoStatistics, NoCounts, PathCounts
    <2>4. QueueInv
      BY <2>1, <2>3, EmptySeq DEF AppInit, QueueInv
    <2>5. ASSUME NEW p \in Paths PROVE Accounted(p)
      BY <2>1, <2>3, TimesEmpty DEF AppInit, Accounted, HandCounts, InHand
    <2> QED BY <2>1, <2>2, <2>3, <2>4, <2>5 DEF AppInit, AccountInv, DenialsAccounted, Accounted
  <1>2. AccountInv /\ [Next]_statisticsVars => AccountInv'
    <2>1. ASSUME AccountInv, OfWebsites \/ UNCHANGED statisticsVars
          PROVE  AccountInv'
      <3>1. UNCHANGED appVars
        BY <2>1 DEF OfWebsites, statisticsVars
      <3>2. AppInv'
        BY <2>1, <3>1, AppUnchanged DEF AccountInv, appVars
      <3>3. UNCHANGED HandCounts /\ (pass' \in {"drain", "merge"} \/ taken = <<>>)
        BY <2>1, <3>1 DEF appVars, HandCounts, InHand, AccountInv, QueueInv
      <3> QED BY <2>1, <3>1, <3>2, <3>3, AccountUnchanged DEF AccountInv, appVars
    <2>2. ASSUME AccountInv, OfApplications
          PROVE  AccountInv'
      BY <2>2, ApplicationsWait, ApplicationsAccount DEF AccountInv, OfApplications
    <2> QED BY <2>1, <2>2 DEF Next
  <1>3. AccountInv => DenialsAccounted
    BY DEF AccountInv
  <1> QED BY <1>1, <1>2, <1>3, PTL DEF Spec
-----------------------------------------------------------------------------
(* Reports of websites. *)

Counts == [Rules -> Int]

CountsInv ==
    /\ count \in Counts /\ reported \in Counts /\ stored \in [count : Counts, reported : Counts]
    /\ report \in Counts /\ observed \in Counts /\ added \in Counts
    /\ lost \in Counts /\ repeated \in Counts

\* Denials under way are not more than are pending: Chromium drops an entry whose
\* reported part reaches its count.
WithinPending ==
    running /\ step \in {"asked", "counted"} /\ what = "denials" =>
        \A r \in Rules : report[r] <= count[r] - reported[r]

\* ReportsCountOnce, of one rule.
Left(r) == IF running THEN count[r] - reported[r] ELSE stored.count[r] - stored.reported[r]
Twice(r) == IF step = "counted" THEN report[r] ELSE 0
Balance == \A r \in Rules : observed[r] + repeated[r] + Twice(r) = added[r] + Left(r) + lost[r]

WebInv == CountsInv /\ WithinPending /\ Balance

LEMMA SumIs ==
    ASSUME NEW f \in Counts, NEW g \in Counts
    PROVE  Sum(f, g) \in Counts /\ \A r \in Rules : Sum(f, g)[r] = f[r] + g[r]
  BY DEF Sum, Counts

LEMMA MinusIs ==
    ASSUME NEW f \in Counts, NEW g \in Counts
    PROVE  Minus(f, g) \in Counts /\ \A r \in Rules : Minus(f, g)[r] = f[r] - g[r]
  BY DEF Minus, Counts

LEMMA OnlyIs ==
    ASSUME NEW f \in Counts, NEW kept
    PROVE  /\ Only(f, kept) \in Counts
           /\ \A r \in Rules : Only(f, kept)[r] = IF r \in kept THEN f[r] ELSE 0
  BY DEF Only, Counts

LEMMA ZeroIs == Zero \in Counts /\ \A r \in Rules : Zero[r] = 0
  BY DEF Zero, Counts

LEMMA CountsAre ==
    ASSUME CountsInv, NEW r \in Rules
    PROVE  /\ count[r] \in Int /\ reported[r] \in Int /\ report[r] \in Int
           /\ stored.count[r] \in Int /\ stored.reported[r] \in Int
           /\ observed[r] \in Int /\ added[r] \in Int /\ lost[r] \in Int /\ repeated[r] \in Int
  BY DEF CountsInv, Counts

LEMMA WebUnchanged ==
    ASSUME WebInv,
           UNCHANGED <<running, count, reported, stored, step, report, what, observed, added,
                       lost, repeated>>
    PROVE  WebInv'
  BY DEF WebInv, CountsInv, WithinPending, Balance, Left, Twice

LEMMA RequestCounts ==
    ASSUME WebInv, NEW q \in Rules, Request(q)
    PROVE  WebInv'
  <1>1. /\ running /\ count' = [count EXCEPT ![q] = @ + 1]
        /\ observed' = [observed EXCEPT ![q] = @ + 1]
        /\ stored' = stored \/ stored' = [stored EXCEPT !.count = count']
        /\ UNCHANGED <<running, reported, step, report, what, added, lost, repeated>>
    BY DEF Request, Mine, refresh
  <1>2. count' \in Counts /\ observed' \in Counts
    BY <1>1 DEF WebInv, CountsInv, Counts
  <1>3. CountsInv'
    BY <1>1, <1>2 DEF WebInv, CountsInv
  <1>4. \A r \in Rules : /\ count'[r] = IF r = q THEN count[r] + 1 ELSE count[r]
                         /\ observed'[r] = IF r = q THEN observed[r] + 1 ELSE observed[r]
    BY <1>1 DEF WebInv, CountsInv, Counts
  <1>5. WithinPending' /\ Balance'
    BY <1>1, <1>4, CountsAre DEF WebInv, WithinPending, Balance, Left, Twice
  <1> QED BY <1>3, <1>5 DEF WebInv

LEMMA BackUpCounts ==
    ASSUME WebInv, BackUp
    PROVE  WebInv'
  <1>1. /\ running /\ stored' = Copy
        /\ UNCHANGED <<running, count, reported, step, report, what, observed, added, lost, repeated>>
    BY DEF BackUp, Mine, refresh, history
  <1> QED BY <1>1 DEF Copy, WebInv, CountsInv, WithinPending, Balance, Left, Twice

LEMMA ApplyCounts ==
    ASSUME WebInv, Apply
    PROVE  WebInv'
  <1>1. /\ running /\ step = "apply" /\ step' \in {"report", "idle"}
        /\ stored' = stored \/ stored' = [stored EXCEPT !.count = count']
        /\ UNCHANGED <<running, reported, report, what, observed, added, repeated>>
    BY DEF Apply, Mine
  <1>2. CASE UNCHANGED <<count, lost>>
    BY <1>1, <1>2 DEF WebInv, CountsInv, WithinPending, Balance, Left, Twice
  <1>3. CASE \E kept : /\ count' = Only(count, kept)
                       /\ lost' = Sum(lost, Minus(count, Only(count, kept)))
    <2>1. PICK kept : /\ count' = Only(count, kept)
                      /\ lost' = Sum(lost, Minus(count, Only(count, kept)))
      BY <1>3
    <2>2. count \in Counts /\ lost \in Counts /\ Only(count, kept) \in Counts
      BY OnlyIs DEF WebInv, CountsInv
    <2>3. Minus(count, count') \in Counts
          /\ \A r \in Rules : Minus(count, count')[r] = count[r] - count'[r]
      BY <2>1, <2>2, MinusIs
    <2>4. lost' \in Counts /\ \A r \in Rules : lost'[r] = lost[r] + (count[r] - count'[r])
      BY <2>1, <2>2, <2>3, SumIs
    <2>5. CountsInv'
      BY <1>1, <2>1, <2>2, <2>4 DEF WebInv, CountsInv
    <2>6. \A r \in Rules : count'[r] \in Int
      BY <2>1, <2>2 DEF Counts
    <2>7. WithinPending' /\ Balance'
      BY <1>1, <2>4, <2>6, CountsAre DEF WebInv, WithinPending, Balance, Left, Twice
    <2> QED BY <2>5, <2>7 DEF WebInv
  <1> QED BY <1>2, <1>3 DEF Apply

LEMMA SendReportCounts ==
    ASSUME WebInv, SendReport
    PROVE  WebInv'
  <1>1. /\ step = "report"
        /\ \/ step' = "idle" /\ report' = report
           \/ step' = "asked" /\ report' = Entries
        /\ UNCHANGED <<running, count, reported, stored, what, observed, added, lost, repeated>>
    BY DEF SendReport, Mine, extension, history
  <1>2. Pending \in Counts /\ \A r \in Rules : Pending[r] = count[r] - reported[r]
    BY MinusIs DEF Pending, WebInv, CountsInv
  <1>3. Entries \in Counts /\ \A r \in Rules : Entries[r] <= Pending[r]
    BY <1>2, WebsiteAssumption DEF Entries, Smaller, Counts
  <1> QED BY <1>1, <1>2, <1>3 DEF WebInv, CountsInv, WithinPending, Balance, Left, Twice

LEMMA CountReportCounts ==
    ASSUME WebInv, CountReport
    PROVE  WebInv'
  <1>1. /\ step = "asked" /\ added' = Sum(added, report)
        /\ UNCHANGED <<running, count, reported, stored, report, what, observed, lost>>
    BY DEF CountReport, Counted, Mine, extension
  <1>2. added' \in Counts /\ \A r \in Rules : added'[r] = added[r] + report[r]
    BY <1>1, SumIs DEF WebInv, CountsInv
  <1>3. CASE step' = "counted" /\ repeated' = repeated
    <2>1. CountsInv' /\ WithinPending'
      BY <1>1, <1>2, <1>3 DEF WebInv, CountsInv, WithinPending
    <2>2. Balance'
      BY <1>1, <1>2, <1>3, CountsAre DEF WebInv, Balance, Left, Twice
    <2> QED BY <2>1, <2>2 DEF WebInv
  <1>4. CASE step' = "refused" /\ repeated' = Sum(repeated, report)
    <2>1. repeated' \in Counts /\ \A r \in Rules : repeated'[r] = repeated[r] + report[r]
      BY <1>4, SumIs DEF WebInv, CountsInv
    <2>2. CountsInv' /\ WithinPending'
      BY <1>1, <1>2, <1>4, <2>1 DEF WebInv, CountsInv, WithinPending
    <2>3. \A r \in Rules : Left(r) \in Int /\ Left(r)' = Left(r) /\ Twice(r) = 0 /\ Twice(r)' = 0
      BY <1>1, <1>4, CountsAre DEF WebInv, Left, Twice
    <2>4. Balance'
      BY <1>1, <1>2, <2>1, <2>3, CountsAre DEF WebInv, Balance
    <2> QED BY <2>2, <2>4 DEF WebInv
  <1> QED BY <1>3, <1>4 DEF CountReport

\* The one place where WithinPending is needed: an entry that goes had exactly
\* the report left.
LEMMA AcceptedCounts ==
    ASSUME WebInv, Accepted
    PROVE  WebInv'
  <1>1. /\ running /\ step = "counted" /\ step' = "idle" /\ report' = Zero
        /\ stored' = [count |-> count', reported |-> reported']
        /\ UNCHANGED <<running, what, observed, added, lost, repeated>>
    BY DEF Accepted, Mine, service, history
  <1>2. report \in Counts /\ count \in Counts /\ reported \in Counts /\ Zero \in Counts
    BY ZeroIs DEF WebInv, CountsInv
  <1>3. /\ count' \in Counts /\ reported' \in Counts
        /\ \A r \in Rules : count'[r] - reported'[r] = (count[r] - reported[r]) - report[r]
    <2>1. CASE browser = "chromium" /\ what = "denials"
      <3> DEFINE sum == Sum(reported, report)
                 whole == {r \in Rules : report[r] > 0 /\ sum[r] >= count[r]}
      <3>1. reported' = Only(sum, Rules \ whole) /\ count' = Only(count, Rules \ whole)
        BY <2>1 DEF Accepted
      <3>2. sum \in Counts /\ \A r \in Rules : sum[r] = reported[r] + report[r]
        BY <1>2, SumIs
      <3>3. /\ Only(sum, Rules \ whole) \in Counts
            /\ \A r \in Rules : Only(sum, Rules \ whole)[r] = IF r \in Rules \ whole THEN sum[r] ELSE 0
        BY <3>2, OnlyIs
      <3>4. /\ Only(count, Rules \ whole) \in Counts
            /\ \A r \in Rules : Only(count, Rules \ whole)[r] = IF r \in Rules \ whole THEN count[r] ELSE 0
        BY <1>2, OnlyIs
      <3>5. \A r \in Rules : report[r] <= count[r] - reported[r]
        BY <1>1, <2>1 DEF WebInv, WithinPending
      <3>6. ASSUME NEW r \in Rules
            PROVE  count'[r] - reported'[r] = (count[r] - reported[r]) - report[r]
        <4>1. count[r] \in Int /\ reported[r] \in Int /\ report[r] \in Int
          BY CountsAre DEF WebInv
        <4>2. CASE r \in whole
          <5>1. count'[r] = 0 /\ reported'[r] = 0
            BY <3>1, <3>3, <3>4, <4>2
          <5>2. reported[r] + report[r] >= count[r]
            BY <3>2, <4>2
          <5> QED BY <3>5, <4>1, <5>1, <5>2
        <4>3. CASE r \notin whole
          <5>1. count'[r] = count[r] /\ reported'[r] = reported[r] + report[r]
            BY <3>1, <3>2, <3>3, <3>4, <4>3
          <5> QED BY <4>1, <5>1
        <4> QED BY <4>2, <4>3
      <3> QED BY <3>1, <3>3, <3>4, <3>6
    <2>2. CASE ~(browser = "chromium" /\ what = "denials")
      <3>1. count' = Minus(count, report) /\ reported' = reported
        BY <2>2 DEF Accepted, Retired
      <3>2. count' \in Counts /\ \A r \in Rules : count'[r] = count[r] - report[r]
        BY <1>2, <3>1, MinusIs
      <3> QED BY <1>2, <3>1, <3>2, CountsAre DEF WebInv
    <2> QED BY <2>1, <2>2
  <1>4. CountsInv' /\ WithinPending'
    BY <1>1, <1>2, <1>3 DEF WebInv, CountsInv, WithinPending
  <1>5. Balance'
    <2> SUFFICES ASSUME NEW r \in Rules
                 PROVE  observed[r] + repeated[r] + 0 = added[r] + (count'[r] - reported'[r]) + lost[r]
      BY <1>1 DEF Balance, Left, Twice
    <2>1. observed[r] + repeated[r] + report[r] = added[r] + (count[r] - reported[r]) + lost[r]
      BY <1>1 DEF WebInv, Balance, Left, Twice
    <2> QED BY <1>3, <2>1, CountsAre DEF WebInv
  <1> QED BY <1>4, <1>5 DEF WebInv

LEMMA RefusedCounts ==
    ASSUME WebInv, Refused
    PROVE  WebInv'
  <1>1. /\ running /\ step' = "idle" /\ report' = Zero
        /\ UNCHANGED <<running, count, reported, stored, what, observed, added, lost>>
    BY DEF Refused, Mine, extension, service
  <1>2. CASE step = "refused" /\ repeated' = repeated
    BY <1>1, <1>2, ZeroIs, CountsAre DEF WebInv, CountsInv, WithinPending, Balance, Left, Twice
  <1>3. CASE step = "counted" /\ repeated' = Sum(repeated, report)
    <2>1. repeated' \in Counts /\ \A r \in Rules : repeated'[r] = repeated[r] + report[r]
      BY <1>3, SumIs DEF WebInv, CountsInv
    <2>2. CountsInv' /\ WithinPending'
      BY <1>1, <2>1, ZeroIs DEF WebInv, CountsInv, WithinPending
    <2>3. Balance'
      BY <1>1, <1>3, <2>1, CountsAre DEF WebInv, Balance, Left, Twice
    <2> QED BY <2>2, <2>3 DEF WebInv
  <1> QED BY <1>2, <1>3 DEF Refused

LEMMA StopCounts ==
    ASSUME WebInv, Stop
    PROVE  WebInv'
  <1> DEFINE answered == IF step = "counted" THEN Sum(repeated, report) ELSE repeated
  <1>1. /\ running /\ ~running' /\ count' = Zero /\ reported' = Zero /\ repeated' = answered
        /\ step' \in {"asked", "idle"} /\ report' \in {report, Zero}
        /\ stored' \in {stored, NoCopy}
        /\ lost' = Sum(lost, Minus(Pending, Minus(stored'.count, stored'.reported)))
        /\ UNCHANGED <<what, observed, added>>
    BY DEF Stop, Mine, service
  <1>2. Zero \in Counts /\ NoCopy \in [count : Counts, reported : Counts]
    BY ZeroIs DEF NoCopy
  <1>3. stored' \in [count : Counts, reported : Counts] /\ report' \in Counts
    BY <1>1, <1>2 DEF WebInv, CountsInv
  <1> DEFINE kept == Minus(stored'.count, stored'.reported)
  <1>4. kept \in Counts /\ \A r \in Rules : kept[r] = stored'.count[r] - stored'.reported[r]
    BY <1>3, MinusIs
  <1>5. Pending \in Counts /\ \A r \in Rules : Pending[r] = count[r] - reported[r]
    BY MinusIs DEF Pending, WebInv, CountsInv
  <1>6. Minus(Pending, kept) \in Counts /\ \A r \in Rules : Minus(Pending, kept)[r] = Pending[r] - kept[r]
    BY <1>4, <1>5, MinusIs
  <1>7. lost' \in Counts /\ \A r \in Rules : lost'[r] = lost[r] + ((count[r] - reported[r]) - kept[r])
    BY <1>1, <1>5, <1>6, SumIs DEF WebInv, CountsInv
  <1>8. repeated' \in Counts /\ \A r \in Rules : repeated'[r] = repeated[r] + Twice(r)
    BY <1>1, SumIs, CountsAre DEF WebInv, CountsInv, Twice
  <1>9. CountsInv' /\ WithinPending'
    BY <1>1, <1>2, <1>3, <1>7, <1>8 DEF WebInv, CountsInv, WithinPending
  <1>10. Balance'
    <2> SUFFICES ASSUME NEW r \in Rules
                 PROVE  observed[r] + repeated'[r] + 0
                            = added[r] + (stored'.count[r] - stored'.reported[r]) + lost'[r]
      BY <1>1 DEF Balance, Left, Twice
    <2>1. observed[r] + repeated[r] + Twice(r) = added[r] + (count[r] - reported[r]) + lost[r]
      BY <1>1 DEF WebInv, Balance, Left
    <2>2. stored'.count[r] \in Int /\ stored'.reported[r] \in Int
      BY <1>3 DEF Counts
    <2>3. Twice(r) \in Int
      BY CountsAre DEF WebInv, Twice
    <2>4. /\ lost'[r] = lost[r] + ((count[r] - reported[r]) - (stored'.count[r] - stored'.reported[r]))
          /\ repeated'[r] = repeated[r] + Twice(r)
      BY <1>4, <1>7, <1>8
    <2> HIDE DEF kept, answered
    <2> QED BY <2>1, <2>2, <2>3, <2>4, CountsAre DEF WebInv
  <1> QED BY <1>9, <1>10 DEF WebInv

LEMMA StartCounts ==
    ASSUME WebInv, Start
    PROVE  WebInv'
  <1>1. /\ ~running /\ running' /\ count' = stored.count /\ reported' = stored.reported
        /\ step' = "idle" /\ report' = Zero
        /\ repeated' = IF step = "counted" THEN Sum(repeated, report) ELSE repeated
        /\ UNCHANGED <<stored, what, observed, added, lost>>
    BY DEF Start, Mine, service
  <1>2. repeated' \in Counts /\ \A r \in Rules : repeated'[r] = repeated[r] + Twice(r)
    BY <1>1, SumIs, CountsAre DEF WebInv, CountsInv, Twice
  <1>3. CountsInv' /\ WithinPending'
    BY <1>1, <1>2, ZeroIs DEF WebInv, CountsInv, WithinPending
  <1>4. Balance'
    <2> SUFFICES ASSUME NEW r \in Rules
                 PROVE  observed[r] + repeated'[r] + 0
                            = added[r] + (stored.count[r] - stored.reported[r]) + lost[r]
      BY <1>1 DEF Balance, Left, Twice
    <2>1. observed[r] + repeated[r] + Twice(r)
              = added[r] + (stored.count[r] - stored.reported[r]) + lost[r]
      BY <1>1 DEF WebInv, Balance, Left
    <2>2. Twice(r) \in Int
      BY CountsAre DEF WebInv, Twice
    <2> QED BY <1>2, <2>1, <2>2, CountsAre DEF WebInv
  <1> QED BY <1>3, <1>4 DEF WebInv

LEMMA WebsitesCount ==
    ASSUME WebInv, WebNext
    PROVE  WebInv'
  <1>1. CASE Fetch
    <2>1. step = "idle" /\ step' = "apply"
          /\ UNCHANGED <<running, count, reported, stored, report, what, observed, added, lost, repeated>>
      BY <1>1 DEF Fetch, Mine, extension, history
    <2> QED BY <2>1 DEF WebInv, CountsInv, WithinPending, Balance, Left, Twice
  <1>2. CASE RefuseReport
    <2>1. step = "asked" /\ step' = "refused"
          /\ UNCHANGED <<running, count, reported, stored, report, what, observed, added, lost, repeated>>
      BY <1>2 DEF RefuseReport, Mine, extension, history
    <2> QED BY <2>1 DEF WebInv, CountsInv, WithinPending, Balance, Left, Twice
  <1>3. CASE EditRules \/ PassDay
    BY <1>3, WebUnchanged DEF EditRules, PassDay, Mine, extension, refresh, history
  <1> QED BY <1>1, <1>2, <1>3, RequestCounts, BackUpCounts, ApplyCounts, SendReportCounts,
             CountReportCounts, AcceptedCounts, RefusedCounts, StopCounts, StartCounts
          DEF WebNext, Refreshing

\* What a browser counted is pending there or added by the service, once, but for
\* what went with a rule, a stop or an answer that was lost; for any rules and any
\* number of requests, stops and failures.  (acknowledge_matches, retire_usage.)
THEOREM ReportsCountOnceAlways == Spec => []ReportsCountOnce
  <1>1. Init => WebInv
    <2> SUFFICES ASSUME Init PROVE WebInv
      OBVIOUS
    <2>1. /\ running = TRUE /\ count = Zero /\ reported = Zero /\ stored = NoCopy /\ step = "idle"
          /\ report = Zero /\ observed = Zero /\ added = Zero /\ lost = Zero /\ repeated = Zero
      BY DEF Init, WebInit
    <2> QED BY <2>1, ZeroIs DEF WebInv, CountsInv, WithinPending, Balance, Left, Twice, NoCopy
  <1>2. WebInv /\ [Next]_statisticsVars => WebInv'
    <2>1. ASSUME WebInv, OfApplications \/ UNCHANGED statisticsVars
          PROVE  WebInv'
      BY <2>1, WebUnchanged DEF OfApplications, statisticsVars, webVars
    <2> QED BY <2>1, WebsitesCount DEF Next, OfWebsites
  <1>3. WebInv => ReportsCountOnce
    <2> SUFFICES ASSUME WebInv PROVE ReportsCountOnce
      OBVIOUS
    <2> DEFINE left == IF running THEN Pending ELSE Minus(stored.count, stored.reported)
               twice == IF step = "counted" THEN report ELSE Zero
    <2>1. left \in Counts /\ \A r \in Rules : left[r] = Left(r)
      BY MinusIs DEF WebInv, CountsInv, Pending, Left
    <2>2. twice \in Counts /\ \A r \in Rules : twice[r] = Twice(r)
      BY ZeroIs DEF WebInv, CountsInv, Twice
    <2>3. \A r \in Rules : Left(r) \in Int /\ Twice(r) \in Int
      BY <2>1, <2>2 DEF Counts
    <2> HIDE DEF left, twice
    <2>4. ASSUME NEW r \in Rules
          PROVE  Sum(observed, Sum(repeated, twice))[r] = Sum(added, Sum(left, lost))[r]
      <3>1. observed[r] + repeated[r] + Twice(r) = added[r] + Left(r) + lost[r]
        BY DEF WebInv, Balance
      <3>2. /\ Sum(observed, Sum(repeated, twice))[r] = observed[r] + (repeated[r] + Twice(r))
            /\ Sum(added, Sum(left, lost))[r] = added[r] + (Left(r) + lost[r])
        BY <2>2, <2>1 DEF Sum
      <3> QED BY <2>3, <3>1, <3>2, CountsAre DEF WebInv
    <2>5. Sum(observed, Sum(repeated, twice)) = Sum(added, Sum(left, lost))
      BY <2>4 DEF Sum
    <2> QED BY <2>5 DEF ReportsCountOnce, left, twice
  <1> QED BY <1>1, <1>2, <1>3, PTL DEF Spec
=============================================================================
