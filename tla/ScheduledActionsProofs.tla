----------------------- MODULE ScheduledActionsProofs -----------------------
(***************************************************************************)
(* The user's choice of notifications survives every command, whoever runs *)
(* it and wherever it fails.  The argument is about one desktop: each      *)
(* outcome of a command, applied to a desktop that keeps the choice,       *)
(* leaves one that does.                                                   *)
(*                                                                         *)
(* An occurrence that ran and was saved does not run again.  The argument  *)
(* is about one schedule: its occurrences do not come back after another   *)
(* one, so that comparing with the last that ran is enough.                *)
(*                                                                         *)
(* The views agree with the enforcement.  A change of the activity is a    *)
(* boundary that the code looks at, or the transition of the zone; and a   *)
(* walk from change to change keeps what it has shown, up to where it is.  *)
(***************************************************************************)
EXTENDS ScheduledActions, WellFoundedInduction, TLAPS

\* A desktop that keeps the choice p.
Keeps(d, p) ==
    /\ d.keys \in Preference
    /\ d.saved = NotSaved => d.keys = p
    /\ d.saved # NotSaved => d.saved = p

PreferenceInv == pref \in Preference /\ Keeps(Desktop, pref)

-----------------------------------------------------------------------------
(* The outcomes of a command. *)

\* Keys that are set from one preference to another, in part, are a preference.
LEMMA PartIsPreference ==
    ASSUME NEW from \in Preference, NEW to \in Preference, NEW k \in PartlySet(from, to)
    PROVE  k \in Preference
  BY DEF PartlySet, Preference

LEMMA SilentIsPreference == Silent \in Preference
  BY DEF Silent, Preference

\* What block keeps is the choice, and it is no missing file.
LEMMA KeptIsChoice ==
    ASSUME NEW p \in Preference, NEW d, Keeps(d, p)
    PROVE  Kept(d) = p /\ p # NotSaved
  BY ActionsAssumption DEF Keeps, Kept

LEMMA BlockedKeeps ==
    ASSUME NEW p \in Preference, NEW d, Keeps(d, p)
    PROVE  Keeps(Blocked(d), p)
  BY KeptIsChoice, SilentIsPreference DEF Keeps, Blocked

LEMMA PartlyBlockedKeeps ==
    ASSUME NEW p \in Preference, NEW d, Keeps(d, p), NEW e \in PartlyBlocked(d)
    PROVE  Keeps(e, p)
  <1>1. CASE e = d
    BY <1>1
  <1>2. ASSUME NEW k \in PartlySet(d.keys, Silent), e = [keys |-> k, saved |-> Kept(d)]
        PROVE  Keeps(e, p)
    <2>1. k \in Preference
      BY PartIsPreference, SilentIsPreference DEF Keeps
    <2> QED BY <1>2, <2>1, KeptIsChoice DEF Keeps
  <1> QED BY <1>1, <1>2 DEF PartlyBlocked

LEMMA RestoredKeeps ==
    ASSUME NEW p \in Preference, NEW d, Keeps(d, p)
    PROVE  Keeps(Restored(d), p)
  BY DEF Keeps, Restored

LEMMA PartlyRestoredKeeps ==
    ASSUME NEW p \in Preference, NEW d, Keeps(d, p), NEW e \in PartlyRestored(d)
    PROVE  Keeps(e, p)
  <1>1. CASE d.saved = NotSaved
    BY <1>1 DEF PartlyRestored
  <1>2. CASE d.saved # NotSaved /\ e = Restored(d)
    BY <1>2, RestoredKeeps
  <1>3. ASSUME d.saved # NotSaved,
               NEW k \in PartlySet(d.keys, d.saved), e = [keys |-> k, saved |-> d.saved]
        PROVE  Keeps(e, p)
    <2>1. k \in Preference
      BY <1>3, PartIsPreference DEF Keeps
    <2> QED BY <1>3, <2>1 DEF Keeps
  <1> QED BY <1>1, <1>2, <1>3 DEF PartlyRestored

LEMMA RunKeeps ==
    ASSUME NEW p \in Preference, NEW d, Keeps(d, p), NEW block \in BOOLEAN
    PROVE  /\ Keeps(Run(d, block), p)
           /\ \A e \in Failing(d, block) : Keeps(e, p)
  BY BlockedKeeps, RestoredKeeps, PartlyBlockedKeeps, PartlyRestoredKeeps DEF Run, Failing

-----------------------------------------------------------------------------
(* The steps. *)

\* A step that leaves a desktop which keeps the choice.
LEMMA BecomesKeeps ==
    ASSUME PreferenceInv, NEW d, Keeps(d, pref), Becomes(d)
    PROVE  PreferenceInv'
  BY DEF PreferenceInv, Becomes, Keeps, Desktop

LEMMA DesktopUnchanged ==
    ASSUME PreferenceInv, UNCHANGED desktop
    PROVE  PreferenceInv'
  BY DEF PreferenceInv, Keeps, Desktop, desktop

\* The pass of a tick.
LEMMA PassKeeps ==
    ASSUME PreferenceInv, Passing \/ EndLookUnsaved
    PROVE  PreferenceInv'
  <1>1. CASE StartLook \/ EndLook \/ EndLookUnsaved
    BY <1>1, DesktopUnchanged DEF StartLook, EndLook, EndLookUnsaved
  <1>2. ASSUME NEW i \in Ids, Skip(i)
        PROVE  PreferenceInv'
    BY <1>2, DesktopUnchanged DEF Skip
  <1>3. ASSUME NEW i \in Ids, GiveBack(i)
        PROVE  PreferenceInv'
    BY <1>3, RunKeeps, BecomesKeeps DEF GiveBack, PreferenceInv
  <1>4. ASSUME NEW i \in Ids, Fire(i)
        PROVE  PreferenceInv'
    <2>1. CASE items[i].kind = "notifications"
      BY <1>4, <2>1, RunKeeps, BecomesKeeps DEF Fire, PreferenceInv
    <2>2. CASE items[i].kind # "notifications"
      BY <1>4, <2>2, DesktopUnchanged DEF Fire
    <2> QED BY <2>1, <2>2
  <1> QED BY <1>1, <1>2, <1>3, <1>4 DEF Passing

\* A command that fails anywhere.
LEMMA FailKeeps ==
    ASSUME PreferenceInv, NEW i \in Ids, Fail(i)
    PROVE  PreferenceInv'
  <1>1. CASE items[i].kind = "notifications"
    <2>1. PICK d \in Failing(Desktop, Begins(i)) : Becomes(d)
      BY <1>1 DEF Fail
    <2>2. Begins(i) \in BOOLEAN
      BY DEF Begins, LooksAt
    <2>3. Keeps(d, pref)
      BY <2>1, <2>2, RunKeeps DEF PreferenceInv
    <2> QED BY <2>1, <2>3, BecomesKeeps
  <1>2. CASE items[i].kind # "notifications"
    BY <1>2, DesktopUnchanged DEF Fail
  <1> QED BY <1>1, <1>2

\* The commands that put and delete an action.
LEMMA CommandsKeep ==
    ASSUME PreferenceInv, NEW i \in Ids,
           \/ PutAction(i) \/ PutActionFails(i) \/ DeleteAction(i) \/ DeleteActionFails(i)
           \/ SetActionEnabled(i) \/ RetryDue(i)
    PROVE  PreferenceInv'
  <1> USE DEF PreferenceInv
  <1>1. CASE PutAction(i)
    <2>1. Becomes(Run(Desktop, FALSE)) \/ UNCHANGED desktop
      BY <1>1 DEF PutAction
    <2> QED BY <2>1, RunKeeps, BecomesKeeps, DesktopUnchanged
  <1>2. CASE PutActionFails(i)
    <2>1. PICK d \in PartlyRestored(Desktop)
                 \cup {Run(Restored(Desktop), TRUE)} \cup PartlyBlocked(Restored(Desktop)) :
               Becomes(d)
      BY <1>2 DEF PutActionFails
    <2>2. Keeps(Restored(Desktop), pref)
      BY RestoredKeeps
    <2>3. Keeps(d, pref)
      BY <2>1, <2>2, PartlyRestoredKeeps, RunKeeps, PartlyBlockedKeeps
    <2> QED BY <2>1, <2>3, BecomesKeeps
  <1>3. CASE DeleteAction(i)
    <2>1. Becomes(Run(Desktop, FALSE)) \/ UNCHANGED desktop
      BY <1>3 DEF DeleteAction
    <2> QED BY <2>1, RunKeeps, BecomesKeeps, DesktopUnchanged
  <1>4. CASE DeleteActionFails(i)
    BY <1>4, PartlyRestoredKeeps, BecomesKeeps DEF DeleteActionFails
  <1>5. CASE SetActionEnabled(i) \/ RetryDue(i)
    BY <1>5, DesktopUnchanged DEF SetActionEnabled, RetryDue
  <1> QED BY <1>1, <1>2, <1>3, <1>4, <1>5

\* The user.
LEMMA UserKeeps ==
    ASSUME PreferenceInv, UserRuns \/ UserRunFails \/ UserChooses
    PROVE  PreferenceInv'
  <1>1. CASE UserRuns
    BY <1>1, RunKeeps, BecomesKeeps DEF UserRuns, PreferenceInv
  <1>2. CASE UserRunFails
    BY <1>2, RunKeeps, BecomesKeeps DEF UserRunFails, PreferenceInv
  <1>3. CASE UserChooses
    BY <1>3 DEF UserChooses, PreferenceInv, Keeps, Desktop
  <1> QED BY <1>1, <1>2, <1>3

\* The process and the clock.
LEMMA ProcessKeeps ==
    ASSUME PreferenceInv, Close \/ CloseFails \/ Die \/ Start \/ Elapse \/ SetTrust
    PROVE  PreferenceInv'
  <1>1. CASE Close
    <2>1. Becomes(Run(Desktop, FALSE)) \/ UNCHANGED desktop
      BY <1>1 DEF Close
    <2> QED BY <2>1, RunKeeps, BecomesKeeps, DesktopUnchanged DEF PreferenceInv
  <1>2. CASE CloseFails
    BY <1>2, PartlyRestoredKeeps, BecomesKeeps DEF CloseFails, PreferenceInv
  <1>3. CASE Die
    <2>1. CASE UNCHANGED desktop
      BY <2>1, DesktopUnchanged
    <2>2. ASSUME NEW i \in look.todo, NEW d \in Failing(Desktop, Begins(i)), Becomes(d)
          PROVE  PreferenceInv'
      <3>1. Begins(i) \in BOOLEAN
        BY DEF Begins, LooksAt
      <3>2. Keeps(d, pref)
        BY <2>2, <3>1, RunKeeps DEF PreferenceInv
      <3> QED BY <2>2, <3>2, BecomesKeeps
    <2>3. UNCHANGED desktop \/ \E i \in look.todo : \E d \in Failing(Desktop, Begins(i)) : Becomes(d)
      BY <1>3 DEF Die
    <2> QED BY <2>1, <2>2, <2>3
  <1>4. CASE Start \/ Elapse \/ SetTrust
    BY <1>4, DesktopUnchanged DEF Start, Elapse, SetTrust
  <1> QED BY <1>1, <1>2, <1>3, <1>4

-----------------------------------------------------------------------------

\* Whoever runs the notifications command, and wherever it fails, the user's
\* choice is what the desktop has while nothing is saved, and what is saved while
\* it is blocked.  (notifications.block and restore_saved_state, run by the
\* service's pass, its handlers, its end and the user.)
THEOREM PreferenceKeptAlways == Spec => []PreferenceKept
  <1>1. Init => PreferenceInv
    BY DEF Init, PreferenceInv, Keeps, Desktop, Preference
  <1>2. PreferenceInv /\ [Next]_vars => PreferenceInv'
    <2> SUFFICES ASSUME PreferenceInv, [Next]_vars
                 PROVE  PreferenceInv'
      OBVIOUS
    <2>1. CASE Next
      BY <2>1, PassKeeps, FailKeeps, CommandsKeep, UserKeeps, ProcessKeeps DEF Next
    <2>2. CASE UNCHANGED vars
      BY <2>2, DesktopUnchanged DEF vars, desktop
    <2> QED BY <2>1, <2>2
  <1>3. PreferenceInv => PreferenceKept
    BY DEF PreferenceInv, Keeps, Desktop, PreferenceKept
  <1> QED BY <1>1, <1>2, <1>3, PTL DEF Spec

-----------------------------------------------------------------------------
(* Occurrences of one schedule. *)

\* A set of numbers has a least one.
LEMMA LeastOfNaturals ==
    ASSUME NEW S \in SUBSET Nat, S # {}
    PROVE  \E n \in S : \A m \in S : n <= m
  <1>1. PICK n \in S : \A m \in S : ~(<<m, n>> \in OpToRel(<, Nat))
    BY NatLessThanWellFounded, WFMin
  <1>2. ASSUME NEW m \in S PROVE n <= m
    <2>1. ~(<<m, n>> \in OpToRel(<, Nat))
      BY <1>1
    <2>2. m \in Nat /\ n \in Nat
      OBVIOUS
    <2>3. ~(m < n)
      BY <2>1, <2>2 DEF OpToRel
    <2> QED BY <2>2, <2>3
  <1> QED BY <1>2

\* Multiples of different numbers are apart.
LEMMA MultiplesApart ==
    ASSUME NEW x \in Int, NEW y \in Int, NEW c \in Nat, x < y
    PROVE  x * c + c <= y * c
  <1>1. (y - x - 1) * c >= 0
    OBVIOUS
  <1>2. (y - x - 1) * c = y * c - (x * c + c)
    OBVIOUS
  <1>3. x * c \in Int /\ y * c \in Int
    OBVIOUS
  <1> QED BY <1>1, <1>2, <1>3

\* The row that an action is due for covers the local time.
LEMMA DueRowCovers ==
    ASSUME NEW s, WeeklySchedule(s), NEW local \in Int, DueRow(s, local) # <<>>
    PROVE  \E d \in Int, i \in DOMAIN s.rows :
               DueRow(s, local) = <<d, i>> /\ Covers(s.rows[i], d, local)
  <1> DEFINE rows(date) == {i \in DOMAIN s.rows : Covers(s.rows[i], date, local)}
             first(set) == CHOOSE i \in set : \A j \in set : i <= j
             today == Date(local)
  <1>1. today \in Int /\ today - 1 \in Int
    BY ScheduleAssumption DEF Date
  <1>2. DOMAIN s.rows \subseteq Nat
    BY DEF WeeklySchedule
  <1>3. ASSUME NEW date, rows(date) # {}
        PROVE  first(rows(date)) \in rows(date)
    <2>1. rows(date) \in SUBSET Nat
      BY <1>2
    <2>2. \E i \in rows(date) : \A j \in rows(date) : i <= j
      BY <1>3, <2>1, LeastOfNaturals
    <2> QED BY <2>2
  <1>4. CASE rows(today) # {}
    <2>1. DueRow(s, local) = <<today, first(rows(today))>>
      BY <1>4 DEF DueRow
    <2>2. first(rows(today)) \in rows(today)
      BY <1>3, <1>4
    <2> QED BY <1>1, <2>1, <2>2
  <1>5. CASE rows(today) = {} /\ rows(today - 1) # {}
    <2>1. DueRow(s, local) = <<today - 1, first(rows(today - 1))>>
      BY <1>5 DEF DueRow
    <2>2. first(rows(today - 1)) \in rows(today - 1)
      BY <1>3, <1>5
    <2> QED BY <1>1, <2>1, <2>2
  <1>6. CASE rows(today) = {} /\ rows(today - 1) = {}
    BY <1>6 DEF DueRow
  <1> QED BY <1>4, <1>5, <1>6

\* A row that starts on a date, as the same row of the first week and whole weeks.
LEMMA RowInWeek ==
    ASSUME NEW row \in WeeklyRow, NEW d \in Int
    PROVE  LET w == d % Week
               q == d \div Week
           IN  /\ w \in Weekday /\ q \in Int
               /\ RowStart(row, d) = RowStart(row, w) + q * (Week * DayLength)
               /\ RowEnd(row, d) = RowEnd(row, w) + q * (Week * DayLength)
               /\ RowStart(row, w) \in 0 .. Week * DayLength - 1
               /\ RowEnd(row, w) \in RowStart(row, w) + 1 .. RowStart(row, w) + DayLength
  <1> DEFINE w == d % Week
             q == d \div Week
  <1>1. w \in 0 .. 6 /\ q \in Int /\ d = 7 * q + w
    BY DEF Week
  <1>2. DayLength \in Nat \ {0}
    BY ScheduleAssumption
  <1>3. row.start \in 0 .. DayLength - 1 /\ row.end \in 0 .. DayLength - 1
    BY DEF WeeklyRow, DayUnit
  <1> HIDE DEF w, q
  <1>4. d * DayLength = w * DayLength + q * (7 * DayLength)
    BY <1>1, <1>2
  <1>5. (d + 1) * DayLength = (w + 1) * DayLength + q * (7 * DayLength)
    BY <1>1, <1>2
  <1>6. w * DayLength + DayLength <= 7 * DayLength /\ w * DayLength >= 0
    BY <1>1, <1>2, MultiplesApart
  <1>7. (w + 1) * DayLength = w * DayLength + DayLength
    BY <1>1, <1>2
  <1>8. /\ w * DayLength \in Int /\ q * (7 * DayLength) \in Int
        /\ d * DayLength \in Int /\ (d + 1) * DayLength \in Int /\ (w + 1) * DayLength \in Int
    BY <1>1, <1>2
  <1>9. RowStart(row, d) = RowStart(row, w) + q * (7 * DayLength)
    BY <1>3, <1>4, <1>8 DEF RowStart
  <1>10. RowEnd(row, d) = RowEnd(row, w) + q * (7 * DayLength)
    <2>1. CASE row.end <= row.start
      BY <2>1, <1>3, <1>5, <1>8 DEF RowEnd
    <2>2. CASE ~(row.end <= row.start)
      BY <2>2, <1>3, <1>4, <1>8 DEF RowEnd
    <2> QED BY <2>1, <2>2
  <1>11. RowStart(row, w) \in 0 .. 7 * DayLength - 1
    BY <1>2, <1>3, <1>6, <1>8 DEF RowStart
  <1>12. RowEnd(row, w) \in RowStart(row, w) + 1 .. RowStart(row, w) + DayLength
    <2>1. CASE row.end <= row.start
      BY <2>1, <1>2, <1>3, <1>7, <1>8 DEF RowStart, RowEnd
    <2>2. CASE ~(row.end <= row.start)
      BY <2>2, <1>2, <1>3, <1>8 DEF RowStart, RowEnd
    <2> QED BY <2>1, <2>2
  <1> QED BY <1>1, <1>9, <1>10, <1>11, <1>12 DEF Week, Weekday, w, q

\* A row that covers a local time does so in the local week, cut at its end.
LEMMA RowOfWeekCovers ==
    ASSUME NEW s, WeeklySchedule(s), NEW i \in DOMAIN s.rows, NEW d \in Int, NEW local \in Int,
           Covers(s.rows[i], d, local)
    PROVE  \E k \in Int, from \in Int, to \in Int :
               /\ <<i, from, to>> \in RowsOfWeek(s)
               /\ 0 <= from /\ to <= Week * DayLength
               /\ from <= local - k * (Week * DayLength) /\ local - k * (Week * DayLength) < to
  <1> DEFINE row == s.rows[i]
             w == d % Week
             q == d \div Week
             end == Week * DayLength
             from == RowStart(row, w)
             to == RowEnd(row, w)
  <1>1. row \in WeeklyRow
    BY DEF WeeklySchedule
  <1>2. /\ w \in Weekday /\ q \in Int
        /\ RowStart(row, d) = from + q * end /\ RowEnd(row, d) = to + q * end
        /\ from \in 0 .. end - 1 /\ to \in from + 1 .. from + DayLength
    BY <1>1, RowInWeek
  <1>3. end \in Nat /\ DayLength \in Nat /\ DayLength <= end
    BY ScheduleAssumption DEF Week
  <1>4. w \in row.days /\ w % Week = w
    BY <1>2 DEF Covers, Weekday, Week
  <1>5. <<i, w>> \in RowDates(s, Weekday)
    BY <1>2, <1>4 DEF RowDates
  <1>6. (IF to <= end THEN {<<i, from, to>>} ELSE {<<i, from, end>>, <<i, 0, to - end>>})
            \subseteq RowsOfWeek(s)
    BY <1>5 DEF RowsOfWeek
  <1>7. q * end \in Int /\ (q + 1) * end \in Int /\ (q + 1) * end = q * end + end
    BY <1>2, <1>3
  <1> HIDE DEF row, w, q, end, from, to
  <1>8. from + q * end <= local /\ local < to + q * end
    BY <1>2 DEF Covers, row
  <1>9. from \in Int /\ to \in Int /\ 0 <= from /\ from < end
    BY <1>2, <1>3
  <1>10. CASE to <= end
    <2>1. <<i, from, to>> \in RowsOfWeek(s)
      BY <1>6, <1>10
    <2>2. from <= local - q * end /\ local - q * end < to
      BY <1>7, <1>8, <1>9
    <2> QED BY <1>2, <1>9, <1>10, <2>1, <2>2 DEF end
  <1>11. CASE ~(to <= end) /\ local < end + q * end
    <2>1. <<i, from, end>> \in RowsOfWeek(s)
      BY <1>6, <1>11
    <2>2. from <= local - q * end /\ local - q * end < end
      BY <1>3, <1>7, <1>8, <1>9, <1>11
    <2>3. end \in Int /\ end <= end
      BY <1>3
    <2> QED BY <1>2, <1>9, <2>1, <2>2, <2>3 DEF end
  <1>12. CASE ~(to <= end) /\ ~(local < end + q * end)
    <2>1. <<i, 0, to - end>> \in RowsOfWeek(s)
      BY <1>6, <1>12
    <2>2. 0 <= local - (q + 1) * end /\ local - (q + 1) * end < to - end
      BY <1>3, <1>7, <1>8, <1>9, <1>12
    <2>3. to - end \in Int /\ to - end <= end /\ 0 \in Int /\ q + 1 \in Int
      BY <1>2, <1>3, <1>9
    <2> QED BY <2>1, <2>2, <2>3 DEF end
  <1> QED BY <1>10, <1>11, <1>12

\* A local time has one place in the week.
LEMMA OnePlaceInWeek ==
    ASSUME NEW c \in Nat, NEW m \in 0 .. c - 1, NEW n \in 0 .. c - 1, NEW j \in Int, NEW k \in Int,
           m + j * c = n + k * c
    PROVE  m = n
  <1>1. j * c \in Int /\ k * c \in Int
    OBVIOUS
  <1>2. CASE j < k
    BY <1>1, <1>2, MultiplesApart
  <1>3. CASE k < j
    BY <1>1, <1>3, MultiplesApart
  <1> QED BY <1>1, <1>2, <1>3

\* Two rows that start at different times and cover the same one overlap.
LEMMA CoveredTwice ==
    ASSUME NEW s, WeeklySchedule(s), NEW local \in Int,
           NEW i \in DOMAIN s.rows, NEW d \in Int, Covers(s.rows[i], d, local),
           NEW j \in DOMAIN s.rows, NEW e \in Int, Covers(s.rows[j], e, local),
           RowStart(s.rows[i], d) # RowStart(s.rows[j], e)
    PROVE  HasOverlappingRows(s)
  <1> DEFINE end == Week * DayLength
  <1>1. end \in Nat /\ DayLength \in Nat
    BY ScheduleAssumption DEF Week
  <1>2. PICK k \in Int, from \in Int, to \in Int :
               /\ <<i, from, to>> \in RowsOfWeek(s)
               /\ 0 <= from /\ to <= end
               /\ from <= local - k * end /\ local - k * end < to
    BY RowOfWeekCovers
  <1>3. PICK kk \in Int, ff \in Int, tt \in Int :
               /\ <<j, ff, tt>> \in RowsOfWeek(s)
               /\ 0 <= ff /\ tt <= end
               /\ ff <= local - kk * end /\ local - kk * end < tt
    BY RowOfWeekCovers
  <1> HIDE DEF end
  <1>4. k * end \in Int /\ kk * end \in Int
    BY <1>1
  <1>5. local - k * end = local - kk * end
    <2> DEFINE m == local - k * end
               n == local - kk * end
    <2>1. m \in 0 .. end - 1 /\ n \in 0 .. end - 1
      BY <1>1, <1>2, <1>3, <1>4
    <2>2. m + k * end = n + kk * end
      BY <1>4
    <2> HIDE DEF m, n
    <2>3. m = n
      BY <1>1, <2>1, <2>2, OnePlaceInWeek
    <2> QED BY <2>3 DEF m, n
  <1>6. i # j
    <2> SUFFICES ASSUME i = j PROVE FALSE
      OBVIOUS
    <2>1. d # e
      BY DEF RowStart
    <2>2. s.rows[i] \in WeeklyRow
      BY DEF WeeklySchedule
    <2>3. ASSUME NEW x \in Int, NEW y \in Int, x < y, Covers(s.rows[i], x, local), Covers(s.rows[i], y, local)
          PROVE  FALSE
      <3> DEFINE start == s.rows[i].start
      <3>1. /\ RowStart(s.rows[i], x) = x * DayLength + start
            /\ RowStart(s.rows[i], y) = y * DayLength + start /\ start \in Int
        BY <2>2 DEF RowStart, WeeklyRow, DayUnit
      <3>2. RowEnd(s.rows[i], x) <= RowStart(s.rows[i], x) + DayLength
        <4>1. s.rows[i].end \in 0 .. DayLength - 1 /\ start \in 0 .. DayLength - 1
          BY <2>2 DEF WeeklyRow, DayUnit
        <4>2. x * DayLength \in Int /\ (x + 1) * DayLength = x * DayLength + DayLength
          BY <1>1
        <4> QED BY <1>1, <4>1, <4>2 DEF RowStart, RowEnd
      <3>3. x * DayLength + DayLength <= y * DayLength
        BY <1>1, <2>3, MultiplesApart
      <3>4. RowStart(s.rows[i], y) <= local /\ local < RowEnd(s.rows[i], x)
        BY <2>3 DEF Covers
      <3>5. x * DayLength \in Int /\ y * DayLength \in Int
        BY <1>1
      <3>6. RowEnd(s.rows[i], x) \in Int
        BY <2>2, <1>1 DEF RowEnd, WeeklyRow, DayUnit
      <3> QED BY <1>1, <3>1, <3>2, <3>3, <3>4, <3>5, <3>6
    <2> QED BY <2>1, <2>3
  <1>7. CASE from <= ff
    <2>1. ff < to
      BY <1>2, <1>3, <1>4, <1>5
    <2> DEFINE r == <<i, from, to>>
               t == <<j, ff, tt>>
    <2>2. r # t /\ r[2] = from /\ t[2] = ff /\ r[3] = to
      BY <1>6
    <2> QED BY <1>2, <1>3, <1>7, <2>1, <2>2 DEF HasOverlappingRows, WeeklySchedule
  <1>8. CASE ff <= from
    <2>1. from < tt
      BY <1>2, <1>3, <1>4, <1>5
    <2> DEFINE r == <<j, ff, tt>>
               t == <<i, from, to>>
    <2>2. r # t /\ r[2] = ff /\ t[2] = from /\ r[3] = tt
      BY <1>6
    <2> QED BY <1>2, <1>3, <1>8, <2>1, <2>2 DEF HasOverlappingRows, WeeklySchedule
  <1> QED BY <1>7, <1>8

\* In a schedule whose rows do not overlap, and whose zone keeps its offset, no
\* occurrence comes back after another one.
LEMMA OccurrencesDoNotReturn ==
    ASSUME NEW s, OneTimeSchedule(s) \/ WeeklySchedule(s), ~HasOverlappingRows(s), ~ChangesOffset(s),
           NEW t \in Int, NEW u \in Int, NEW v \in Int, t <= u, u <= v,
           OccurrenceStart(s, t) = OccurrenceStart(s, v),
           OccurrenceStart(s, t) # None, OccurrenceStart(s, u) # None
    PROVE  OccurrenceStart(s, u) = OccurrenceStart(s, t)
  <1>1. CASE s.kind = "one_time"
    BY <1>1 DEF OccurrenceStart
  <1>2. CASE WeeklySchedule(s)
    <2> DEFINE offset == s.zone.before
               starts(i, d) == RowStart(s.rows[i], d)
    <2>1. s.kind = "weekly" /\ s.zone \in Zone /\ s.zone.after = offset /\ offset \in Int
      BY <1>2 DEF WeeklySchedule, ChangesOffset, Zone
    <2>2. ASSUME NEW x \in Int
          PROVE  Local(s.zone, x) = x + offset
      BY <2>1 DEF Local, Offset
    <2>3. ASSUME NEW x \in Int, OccurrenceStart(s, x) # None
          PROVE  \E d \in Int, i \in DOMAIN s.rows :
                     /\ Covers(s.rows[i], d, x + offset)
                     /\ starts(i, d) \in Int /\ OccurrenceStart(s, x) = starts(i, d) - offset
      <3>1. DueRow(s, x + offset) # <<>> /\ x + offset \in Int
        BY <2>1, <2>2, <2>3 DEF OccurrenceStart
      <3>2. PICK d \in Int, i \in DOMAIN s.rows :
                     DueRow(s, x + offset) = <<d, i>> /\ Covers(s.rows[i], d, x + offset)
        BY <1>2, <3>1, DueRowCovers
      <3>3. starts(i, d) \in Int
        <4>1. s.rows[i] \in WeeklyRow /\ d * DayLength \in Int
          BY <1>2, ScheduleAssumption DEF WeeklySchedule
        <4> QED BY <4>1 DEF RowStart, WeeklyRow, DayUnit
      <3>4. OccurrenceStart(s, x) = Utc(s.zone, starts(i, d), 0)
        BY <2>1, <2>2, <3>1, <3>2 DEF OccurrenceStart
      <3>5. Utc(s.zone, starts(i, d), 0) = starts(i, d) - offset
        BY <2>1, <3>3 DEF Utc, Zone
      <3> QED BY <3>2, <3>3, <3>4, <3>5
    <2>4. PICK d1 \in Int, i1 \in DOMAIN s.rows :
                     /\ Covers(s.rows[i1], d1, t + offset)
                     /\ starts(i1, d1) \in Int /\ OccurrenceStart(s, t) = starts(i1, d1) - offset
      BY <2>3
    <2>5. PICK d2 \in Int, i2 \in DOMAIN s.rows :
                     /\ Covers(s.rows[i2], d2, u + offset)
                     /\ starts(i2, d2) \in Int /\ OccurrenceStart(s, u) = starts(i2, d2) - offset
      BY <2>3
    <2>6. PICK d3 \in Int, i3 \in DOMAIN s.rows :
                     /\ Covers(s.rows[i3], d3, v + offset)
                     /\ starts(i3, d3) \in Int /\ OccurrenceStart(s, v) = starts(i3, d3) - offset
      BY <2>3
    <2>7. starts(i1, d1) = starts(i3, d3)
      <3> DEFINE a == starts(i1, d1)
                 b == starts(i3, d3)
      <3>1. /\ a \in Int /\ b \in Int /\ offset \in Int
            /\ OccurrenceStart(s, t) = a - offset /\ OccurrenceStart(s, v) = b - offset
        BY <2>1, <2>4, <2>6
      <3>2. OccurrenceStart(s, t) = OccurrenceStart(s, v)
        OBVIOUS
      <3> HIDE DEF a, b, offset
      <3>3. a - offset = b - offset
        BY <3>1, <3>2
      <3>4. a = b
        BY <3>1, <3>3
      <3> QED BY <3>4 DEF a, b
    <2>8. Covers(s.rows[i3], d3, u + offset)
      <3>1. RowEnd(s.rows[i3], d3) \in Int
        <4>1. s.rows[i3] \in WeeklyRow /\ d3 * DayLength \in Int /\ (d3 + 1) * DayLength \in Int
          BY <1>2, ScheduleAssumption DEF WeeklySchedule
        <4> QED BY <4>1 DEF RowEnd, WeeklyRow, DayUnit
      <3>2. starts(i3, d3) <= t + offset
        BY <2>4, <2>7 DEF Covers
      <3> QED BY <2>1, <2>6, <3>1, <3>2 DEF Covers
    <2>9. starts(i2, d2) = starts(i3, d3)
      <3>1. u + offset \in Int
        BY <2>1
      <3> HIDE DEF offset
      <3> QED BY <1>2, <2>5, <2>8, <3>1, CoveredTwice
    <2> QED BY <2>4, <2>5, <2>7, <2>9
  <1> QED BY <1>1, <1>2 DEF OneTimeSchedule

\* An occurrence starts at an instant.
LEMMA OccurrenceIsInt ==
    ASSUME NEW s, OneTimeSchedule(s) \/ WeeklySchedule(s), NEW t \in Int
    PROVE  OccurrenceStart(s, t) \in Int \cup {None}
  <1>1. CASE OneTimeSchedule(s)
    BY <1>1 DEF OneTimeSchedule, OccurrenceStart
  <1>2. CASE WeeklySchedule(s)
    <2> DEFINE local == Local(s.zone, t)
    <2>1. s.kind = "weekly" /\ s.zone \in Zone
      BY <1>2 DEF WeeklySchedule
    <2>2. local \in Int
      BY <2>1 DEF Local, Offset, Zone
    <2>3. CASE DueRow(s, local) = <<>>
      BY <2>1, <2>3 DEF OccurrenceStart
    <2>4. CASE DueRow(s, local) # <<>>
      <3>1. PICK d \in Int, i \in DOMAIN s.rows : DueRow(s, local) = <<d, i>>
        BY <1>2, <2>2, <2>4, DueRowCovers
      <3> DEFINE start == RowStart(s.rows[i], d)
      <3>2. start \in Int
        <4>1. s.rows[i] \in WeeklyRow /\ d * DayLength \in Int
          BY <1>2, ScheduleAssumption DEF WeeklySchedule
        <4> QED BY <4>1 DEF RowStart, WeeklyRow, DayUnit
      <3>3. OccurrenceStart(s, t) = Utc(s.zone, start, 0)
        BY <2>1, <2>4, <3>1 DEF OccurrenceStart
      <3> HIDE DEF start
      <3>4. Utc(s.zone, start, 0) \in Int
        BY <2>1, <3>2 DEF Utc, Zone
      <3> QED BY <3>3, <3>4
    <2> QED BY <2>3, <2>4
  <1> QED BY <1>1, <1>2

-----------------------------------------------------------------------------
(* Occurrences. *)

Excused(s) == HasOverlappingRows(s) \/ ChangesOffset(s)
StartOf(item, t) == Starts[item.schedule][t]

\* The occurrences that ran began in the past, none after the one that is noted.
RanBefore(item, occurrences, past) ==
    occurrences # {} =>
        /\ item # NoItem
        /\ \E t \in 0 .. past :
              /\ item.fired = StartOf(item, t) /\ item.fired # None
              /\ \A o \in occurrences : o # None /\ \E u \in 0 .. t : o = StartOf(item, u)

\* The time of the last look at the clock.
Past == IF look = NotLooking THEN now ELSE look.at

\* What a pass is about to save of an action is the item, or the item with the
\* occurrence it is in.
NotedOf(i) ==
    \/ look.updated[i] = items[i] /\ \A c \in look.changed : c[1] # i
    \/ /\ i \notin look.todo /\ items[i] # NoItem
       /\ LET o == StartOf(items[i], look.at)
          IN  /\ o # None /\ look.updated[i] = [items[i] EXCEPT !.fired = o]
              /\ \A c \in look.changed : c[1] = i => c[2] = o

LookInv ==
    look # NotLooking =>
        /\ look.at \in 0 .. now
        /\ look.todo \subseteq {i \in Ids : items[i] # NoItem}
        /\ look = [todo |-> look.todo, at |-> look.at, updated |-> look.updated,
                   changed |-> look.changed]
        /\ look.updated \in [Ids -> Item \cup {NoItem}]
        /\ \A i \in Ids : NotedOf(i)

OnceInv ==
    /\ now \in Instants /\ items \in [Ids -> Item \cup {NoItem}]
    /\ ran \in [Ids -> SUBSET Int] /\ again \subseteq Ids
    /\ LookInv
    /\ \A i \in Ids : RanBefore(items[i], ran[i], Past)
    /\ \A i \in again : items[i] # NoItem /\ Excused(ScheduleOf[items[i].schedule])

LEMMA StartIsInt ==
    ASSUME NEW item \in Item, NEW t \in Instants
    PROVE  /\ StartOf(item, t) = OccurrenceStart(ScheduleOf[item.schedule], t)
           /\ StartOf(item, t) \in Int \cup {None}
  <1>1. item.schedule \in ActionSchedules /\ t \in Int
    BY DEF Item, Instants
  <1>2. OccurrenceStart(ScheduleOf[item.schedule], t) \in Int \cup {None}
    BY <1>1, ActionsAssumption, OccurrenceIsInt
  <1> QED BY <1>1, <1>2 DEF StartOf, Starts

\* Up to an instant there are only instants.
LEMMA EarlierInstant ==
    ASSUME NEW t \in Instants, NEW u \in 0 .. t
    PROVE  u \in Instants /\ u \in Int /\ t \in Int /\ u <= t
  BY ActionsAssumption DEF Instants

\* What ran before an instant ran before a later one.
LEMMA RanLater ==
    ASSUME NEW item, NEW occurrences, NEW past \in Int, NEW later \in Int, past <= later,
           RanBefore(item, occurrences, past)
    PROVE  RanBefore(item, occurrences, later)
  <1>1. 0 .. past \subseteq 0 .. later
    OBVIOUS
  <1> QED BY <1>1 DEF RanBefore

\* The occurrence a pass is in is saved with the ones before it.
LEMMA RanNext ==
    ASSUME NEW item \in Item, NEW occurrences, NEW more, NEW at \in Instants, NEW saved2,
           RanBefore(item, occurrences, at),
           StartOf(item, at) # None, saved2 = [item EXCEPT !.fired = StartOf(item, at)],
           more \subseteq occurrences \cup {StartOf(item, at)}
    PROVE  saved2 \in Item /\ RanBefore(saved2, more, at)
  <1> DEFINE o == StartOf(item, at)
  <1>1. o \in Int
    BY StartIsInt
  <1>2. /\ saved2 \in Item /\ saved2.fired = o /\ saved2.schedule = item.schedule
    BY <1>1 DEF Item
  <1>3. saved2 # NoItem
    BY <1>2, ActionsAssumption
  <1>4. \A u : StartOf(saved2, u) = StartOf(item, u)
    BY <1>2 DEF StartOf
  <1>5. at \in 0 .. at
    BY DEF Instants
  <1>6. ASSUME NEW p \in more
        PROVE  p # None /\ \E u \in 0 .. at : p = StartOf(saved2, u)
    <2>1. CASE p = o
      BY <1>4, <1>5, <2>1
    <2>2. CASE p \in occurrences
      <3>1. PICK t \in 0 .. at : \A q \in occurrences : q # None /\ \E u \in 0 .. t : q = StartOf(item, u)
        BY <2>2 DEF RanBefore
      <3>2. PICK u \in 0 .. t : p # None /\ p = StartOf(item, u)
        BY <2>2, <3>1
      <3>3. u \in 0 .. at
        BY <3>1, <3>2 DEF Instants
      <3> QED BY <1>4, <3>2, <3>3
    <2> QED BY <1>6, <2>1, <2>2
  <1> QED BY <1>2, <1>3, <1>4, <1>5, <1>6 DEF RanBefore

\* An occurrence that is due and ran before comes back, which only the excused
\* schedules do.
LEMMA DueTwiceIsExcused ==
    ASSUME NEW item \in Item, NEW occurrences, NEW at \in Instants,
           RanBefore(item, occurrences, at),
           StartOf(item, at) \in occurrences, item.fired # StartOf(item, at)
    PROVE  Excused(ScheduleOf[item.schedule])
  <1> DEFINE s == ScheduleOf[item.schedule]
  <1>1. PICK t \in 0 .. at :
              /\ item.fired = StartOf(item, t) /\ item.fired # None
              /\ \A o \in occurrences : o # None /\ \E u \in 0 .. t : o = StartOf(item, u)
    BY DEF RanBefore
  <1>2. PICK u \in 0 .. t : StartOf(item, at) # None /\ StartOf(item, at) = StartOf(item, u)
    BY <1>1
  <1>3. t \in Instants /\ u \in Instants /\ u <= t /\ t <= at
    <2>1. t \in Instants /\ t <= at
      BY EarlierInstant
    <2> QED BY <2>1, EarlierInstant
  <1>4. t \in Int /\ u \in Int /\ at \in Int
    BY <1>3 DEF Instants
  <1>5. /\ StartOf(item, at) = OccurrenceStart(s, at)
        /\ StartOf(item, t) = OccurrenceStart(s, t)
        /\ StartOf(item, u) = OccurrenceStart(s, u)
    BY <1>3, StartIsInt
  <1>6. OneTimeSchedule(s) \/ WeeklySchedule(s)
    BY ActionsAssumption DEF Item
  <1> SUFFICES ASSUME ~Excused(s) PROVE FALSE
    OBVIOUS
  <1>7. ~HasOverlappingRows(s) /\ ~ChangesOffset(s)
    BY DEF Excused
  <1> HIDE DEF s
  <1>8. OccurrenceStart(s, t) = OccurrenceStart(s, u)
    BY <1>1, <1>2, <1>3, <1>4, <1>5, <1>6, <1>7, OccurrencesDoNotReturn
  <1> QED BY <1>1, <1>2, <1>5, <1>8

-----------------------------------------------------------------------------
(* The steps. *)

LEMMA OnceUnchanged ==
    ASSUME OnceInv, UNCHANGED <<now, items, look, ran, again>>
    PROVE  OnceInv'
  <1>1. UNCHANGED Past /\ UNCHANGED LookInv
    BY DEF Past, LookInv, NotedOf
  <1> QED BY <1>1 DEF OnceInv

\* Between passes nothing is noted.
LEMMA PastIsPast ==
    ASSUME OnceInv
    PROVE  Past \in Instants /\ Past <= now /\ now \in Instants
  <1>1. CASE look = NotLooking
    BY <1>1 DEF OnceInv, Past, Instants
  <1>2. CASE look # NotLooking
    <2>1. look.at \in 0 .. now /\ now \in Instants /\ Past = look.at
      BY <1>2 DEF OnceInv, LookInv, Past
    <2> QED BY <2>1, EarlierInstant
  <1> QED BY <1>1, <1>2

LEMMA StartLookOnce ==
    ASSUME OnceInv, StartLook
    PROVE  OnceInv'
  <1>1. UNCHANGED <<now, items, ran, again>> /\ look = NotLooking
    BY DEF StartLook, clock, history
  <1>2. look' = [todo |-> {i \in Ids : items[i] # NoItem}, at |-> now,
                 updated |-> items, changed |-> {}]
    BY DEF StartLook
  <1>3. Past' = Past
    BY <1>1, <1>2 DEF Past
  <1>4. LookInv'
    BY <1>1, <1>2 DEF OnceInv, LookInv, NotedOf, Instants
  <1> QED BY <1>1, <1>3, <1>4 DEF OnceInv

\* An action that does not run is taken off the list.
LEMMA LookedAtOnce ==
    ASSUME OnceInv, look # NotLooking, NEW i \in Ids, LookedAt(i), UNCHANGED <<now, items, ran, again>>
    PROVE  OnceInv'
  <1>1. /\ look' = [todo |-> look.todo \ {i}, at |-> look.at, updated |-> look.updated,
                    changed |-> look.changed]
    BY DEF OnceInv, LookInv, LookedAt
  <1>2. look'.todo = look.todo \ {i} /\ look'.at = look.at /\ look'.updated = look.updated
        /\ look'.changed = look.changed
    BY <1>1
  <1>3. Past' = look.at \/ Past' = now
    BY <1>2 DEF Past
  <1>4. LookInv'
    BY <1>1, <1>2 DEF OnceInv, LookInv, NotedOf
  <1>5. Past' \in Int /\ Past \in Int /\ Past <= Past'
    BY <1>3, PastIsPast DEF Past, Instants
  <1>6. \A j \in Ids : RanBefore(items[j], ran[j], Past')
    BY <1>5, RanLater DEF OnceInv
  <1> QED BY <1>4, <1>6 DEF OnceInv

LEMMA FireOnce ==
    ASSUME OnceInv, NEW i \in Ids, Fire(i)
    PROVE  OnceInv'
  <1> DEFINE o == StartOf(items[i], look.at)
  <1>1. UNCHANGED <<now, items, ran>> /\ look # NotLooking /\ i \in look.todo
    BY DEF Fire, clock, Begins, LooksAt
  <1>2. items[i] \in Item /\ look.at \in Instants /\ look.at \in Int
    <2>1. items[i] # NoItem /\ look.at \in 0 .. now
      BY <1>1 DEF OnceInv, LookInv
    <2> QED BY <2>1, EarlierInstant DEF OnceInv
  <1>3. Occurrence(i) = o /\ o # None /\ items[i].fired # o
    <2>1. Due(items[i], look.at) # None
      BY DEF Fire, Begins, Occurrence
    <2> QED BY <2>1 DEF Due, OccurrenceAt, StartOf, Occurrence
  <1>4. look.updated[i] = items[i] /\ \A c \in look.changed : c[1] # i
    BY <1>1 DEF OnceInv, LookInv, NotedOf
  <1>5. look' = [todo |-> look.todo \ {i}, at |-> look.at,
                 updated |-> [look.updated EXCEPT ![i].fired = o],
                 changed |-> look.changed \cup {<<i, o>>}]
    BY <1>1, <1>3 DEF OnceInv, LookInv, Fire, Noted
  <1>6. look'.updated = [look.updated EXCEPT ![i].fired = o]
        /\ look'.todo = look.todo \ {i} /\ look'.at = look.at /\ look'.changed = look.changed \cup {<<i, o>>}
    BY <1>5
  <1>7. look.updated \in [Ids -> Item \cup {NoItem}]
    BY <1>1 DEF OnceInv, LookInv
  <1>8. look'.updated[i] = [items[i] EXCEPT !.fired = o]
        /\ \A j \in Ids \ {i} : look'.updated[j] = look.updated[j]
    BY <1>4, <1>6, <1>7
  <1> HIDE DEF o
  <1>9. [items[i] EXCEPT !.fired = o] \in Item
    BY <1>2, <1>3, StartIsInt DEF Item, o
  <1>10. ASSUME NEW j \in Ids PROVE NotedOf(j)'
    <2>1. CASE j = i
      <3>1. \A c \in look'.changed : c[1] = i => c[2] = o
        BY <1>4, <1>6
      <3>2. i \notin look'.todo /\ items'[i] # NoItem
        BY <1>1, <1>2, <1>6, ActionsAssumption
      <3> QED BY <1>1, <1>3, <1>6, <1>8, <2>1, <3>1, <3>2 DEF NotedOf, StartOf, o
    <2>2. CASE j # i
      <3>1. NotedOf(j)
        BY <1>1 DEF OnceInv, LookInv
      <3>2. look'.updated[j] = look.updated[j]
        BY <1>8, <2>2
      <3>3. \A c \in look'.changed : c[1] = j => c \in look.changed
        BY <1>6, <2>2
      <3> QED BY <1>1, <1>6, <3>1, <3>2, <3>3 DEF NotedOf, StartOf
    <2> QED BY <2>1, <2>2
  <1>11. LookInv'
    <2>1. look'.updated \in [Ids -> Item \cup {NoItem}]
      BY <1>6, <1>7, <1>8, <1>9
    <2>2. look' = [todo |-> look'.todo, at |-> look'.at, updated |-> look'.updated,
                   changed |-> look'.changed]
      BY <1>5, <1>6
    <2>3. look'.at \in 0 .. now' /\ look'.todo \subseteq {j \in Ids : items'[j] # NoItem}
      BY <1>1, <1>6 DEF OnceInv, LookInv
    <2> QED BY <1>10, <2>1, <2>2, <2>3 DEF LookInv
  <1>12. \A j \in Ids : RanBefore(items[j], ran[j], Past')
    <2>1. Past = look.at
      BY <1>1 DEF Past
    <2>2. Past' = look.at \/ Past' = now
      BY <1>1, <1>6 DEF Past
    <2>3. Past' \in Int /\ Past \in Int /\ Past <= Past'
      BY <2>1, <2>2, PastIsPast DEF Instants
    <2> QED BY <2>3, RanLater DEF OnceInv
  <1>13. ASSUME NEW j \in again'
         PROVE  j \in Ids /\ items[j] # NoItem /\ Excused(ScheduleOf[items[j].schedule])
    <2>1. again' = IF o \in ran[i] THEN again \cup {i} ELSE again
      BY <1>3 DEF Fire
    <2>2. CASE j \in again
      BY <2>2 DEF OnceInv
    <2>3. CASE j = i /\ o \in ran[i]
      <3>1. RanBefore(items[i], ran[i], look.at)
        BY <1>1 DEF OnceInv, Past
      <3>2. Excused(ScheduleOf[items[i].schedule])
        BY <1>2, <1>3, <2>3, <3>1, DueTwiceIsExcused DEF o
      <3> QED BY <1>2, <2>3, <3>2, ActionsAssumption
    <2> QED BY <1>13, <2>1, <2>2, <2>3
  <1> QED BY <1>1, <1>11, <1>12, <1>13 DEF OnceInv

\* The save at the end of a pass.
LEMMA EndLookOnce ==
    ASSUME OnceInv, EndLook
    PROVE  OnceInv'
  <1>1. /\ UNCHANGED <<now, again>> /\ look # NotLooking /\ look' = NotLooking
        /\ items' = look.updated /\ look.todo = {}
        /\ ran' = [i \in Ids |-> ran[i] \cup {c[2] : c \in {p \in look.changed : p[1] = i}}]
    BY DEF EndLook, Pass, clock
  <1>2. look.at \in 0 .. now /\ look.at \in Instants /\ Past' = now /\ Past = look.at
    <2>1. look.at \in 0 .. now /\ now \in Instants
      BY <1>1 DEF OnceInv, LookInv
    <2> QED BY <1>1, <2>1, EarlierInstant DEF Past
  <1>3. items' \in [Ids -> Item \cup {NoItem}]
    BY <1>1 DEF OnceInv, LookInv
  <1>4. ASSUME NEW i \in Ids
        PROVE  /\ ran'[i] \in SUBSET Int
               /\ RanBefore(items'[i], ran'[i], now)
               /\ items[i] # NoItem => /\ items'[i] # NoItem
                                       /\ items'[i].schedule = items[i].schedule
    <2> DEFINE more == {c[2] : c \in {p \in look.changed : p[1] = i}}
    <2>1. ran'[i] = ran[i] \cup more /\ ran[i] \in SUBSET Int /\ RanBefore(items[i], ran[i], look.at)
      BY <1>1, <1>2 DEF OnceInv
    <2>2. look.at \in Int /\ now \in Int /\ look.at <= now
      BY <1>2 DEF OnceInv, Instants
    <2>3. CASE look.updated[i] = items[i] /\ \A c \in look.changed : c[1] # i
      <3>1. more = {}
        BY <2>3
      <3>2. ran'[i] = ran[i] /\ items'[i] = items[i]
        BY <1>1, <2>1, <2>3, <3>1
      <3> QED BY <2>1, <2>2, <3>2, RanLater
    <2>4. CASE /\ items[i] # NoItem
               /\ LET o == StartOf(items[i], look.at)
                  IN  /\ o # None /\ look.updated[i] = [items[i] EXCEPT !.fired = o]
                      /\ \A c \in look.changed : c[1] = i => c[2] = o
      <3> DEFINE o == StartOf(items[i], look.at)
      <3>1. more \subseteq {o}
        BY <2>4
      <3>2. ran'[i] \subseteq ran[i] \cup {o}
        BY <2>1, <3>1
      <3>3. items[i] \in Item
        BY <2>4 DEF OnceInv
      <3>4. o \in Int
        BY <1>2, <2>4, <3>3, StartIsInt
      <3>5. items'[i] = [items[i] EXCEPT !.fired = o] /\ o # None
        BY <1>1, <2>4
      <3>6. items'[i] \in Item /\ RanBefore(items'[i], ran'[i], look.at)
        BY <1>2, <2>1, <3>2, <3>3, <3>5, RanNext
      <3>7. RanBefore(items'[i], ran'[i], now)
        BY <2>2, <3>6, RanLater
      <3>8. items'[i].schedule = items[i].schedule
        BY <3>3, <3>5 DEF Item
      <3>9. ran'[i] \in SUBSET Int
        BY <2>1, <3>2, <3>4
      <3> QED BY <3>6, <3>7, <3>8, <3>9, ActionsAssumption
    <2>5. NotedOf(i)
      BY <1>1 DEF OnceInv, LookInv
    <2> QED BY <2>3, <2>4, <2>5 DEF NotedOf
  <1>5. LookInv'
    BY <1>1 DEF LookInv
  <1>6. ran' \in [Ids -> SUBSET Int]
    BY <1>1, <1>4
  <1>7. \A i \in again' : items'[i] # NoItem /\ Excused(ScheduleOf[items'[i].schedule])
    BY <1>1, <1>4 DEF OnceInv
  <1> QED BY <1>1, <1>2, <1>3, <1>4, <1>5, <1>6, <1>7 DEF OnceInv

\* A pass that ends without its save, or with its process, leaves the past.
LEMMA LookLostOnce ==
    ASSUME OnceInv, look' = NotLooking, UNCHANGED <<now, items, ran, again>>
    PROVE  OnceInv'
  <1>1. Past' = now /\ LookInv'
    BY DEF Past, LookInv
  <1>2. Past \in Int /\ now \in Int /\ Past <= now
    BY PastIsPast DEF Instants
  <1>3. \A j \in Ids : RanBefore(items[j], ran[j], now)
    BY <1>2, RanLater DEF OnceInv
  <1> QED BY <1>1, <1>3 DEF OnceInv

LEMMA ElapseOnce ==
    ASSUME OnceInv, Elapse
    PROVE  OnceInv'
  <1>1. /\ UNCHANGED <<items, look, ran, again>> /\ now' = now + 1 /\ now < MaxTime
    BY DEF Elapse, history
  <1>2. now' \in Instants /\ now \in Int
    BY <1>1, ActionsAssumption DEF OnceInv, Instants
  <1>3. Past \in Int /\ Past' \in Int /\ Past <= Past'
    BY <1>1, <1>2, PastIsPast DEF Past, Instants
  <1>4. LookInv'
    BY <1>1, <1>2 DEF OnceInv, LookInv, NotedOf
  <1>5. \A j \in Ids : RanBefore(items[j], ran[j], Past')
    BY <1>3, RanLater DEF OnceInv
  <1> QED BY <1>1, <1>2, <1>4, <1>5 DEF OnceInv

\* A new item begins without a past, and so does one that is deleted.
LEMMA PutOnce ==
    ASSUME OnceInv, NEW i \in Ids, NEW item \in Item \cup {NoItem}, Put(i, item),
           look = NotLooking, UNCHANGED <<now, look>>
    PROVE  OnceInv'
  <1>1. /\ items' = [items EXCEPT ![i] = item] /\ ran' = [ran EXCEPT ![i] = {}]
        /\ again' = again \ {i}
    BY DEF Put
  <1>2. UNCHANGED Past /\ LookInv'
    BY DEF Past, LookInv
  <1>3. ASSUME NEW j \in Ids PROVE RanBefore(items'[j], ran'[j], Past)
    <2>1. CASE j = i
      BY <1>1, <2>1 DEF OnceInv, RanBefore
    <2>2. CASE j # i
      BY <1>1, <2>2 DEF OnceInv
    <2> QED BY <2>1, <2>2
  <1> QED BY <1>1, <1>2, <1>3 DEF OnceInv

LEMMA SetActionEnabledOnce ==
    ASSUME OnceInv, NEW i \in Ids, SetActionEnabled(i)
    PROVE  OnceInv'
  <1>1. /\ items' = [items EXCEPT ![i].enabled = ~@] /\ items[i] # NoItem
        /\ UNCHANGED <<now, look, ran, again>> /\ look = NotLooking
    BY DEF SetActionEnabled, Idle, clock, history
  <1>2. items[i] \in Item
    BY <1>1 DEF OnceInv
  <1>3. /\ items'[i] \in Item /\ items'[i].fired = items[i].fired
        /\ items'[i].schedule = items[i].schedule /\ items'[i] # NoItem
    BY <1>1, <1>2, ActionsAssumption DEF OnceInv, Item
  <1>4. \A j \in Ids \ {i} : items'[j] = items[j]
    BY <1>1 DEF OnceInv
  <1>5. items' \in [Ids -> Item \cup {NoItem}]
    BY <1>1, <1>3, <1>4 DEF OnceInv
  <1>6. UNCHANGED Past /\ LookInv'
    BY <1>1 DEF Past, LookInv
  <1>7. ASSUME NEW j \in Ids PROVE RanBefore(items'[j], ran[j], Past)
    <2>1. RanBefore(items[j], ran[j], Past)
      BY DEF OnceInv
    <2> QED BY <1>3, <1>4, <2>1 DEF RanBefore, StartOf
  <1>8. \A j \in again : items'[j] # NoItem /\ Excused(ScheduleOf[items'[j].schedule])
    BY <1>3, <1>4 DEF OnceInv
  <1> QED BY <1>1, <1>5, <1>6, <1>7, <1>8 DEF OnceInv

LEMMA StepOnce ==
    ASSUME OnceInv, Next
    PROVE  OnceInv'
  <1>1. CASE StartLook
    BY <1>1, StartLookOnce
  <1>2. ASSUME NEW i \in Ids, Skip(i) \/ GiveBack(i) \/ Fail(i)
        PROVE  OnceInv'
    <2>1. look # NotLooking /\ LookedAt(i) /\ UNCHANGED <<now, items, ran, again>>
      BY <1>2 DEF Skip, GiveBack, Fail, Begins, Ends, LooksAt, clock, history
    <2> QED BY <2>1, LookedAtOnce
  <1>3. ASSUME NEW i \in Ids, Fire(i)
        PROVE  OnceInv'
    BY <1>3, FireOnce
  <1>4. CASE EndLook
    BY <1>4, EndLookOnce
  <1>5. CASE EndLookUnsaved \/ Die
    BY <1>5, LookLostOnce DEF EndLookUnsaved, Die, clock, history
  <1>6. ASSUME NEW i \in Ids, PutAction(i) \/ DeleteAction(i)
        PROVE  OnceInv'
    <2>1. \E item \in Item \cup {NoItem} : Put(i, item)
      BY <1>6 DEF PutAction, DeleteAction, Item
    <2>2. look = NotLooking /\ UNCHANGED <<now, look>>
      BY <1>6 DEF PutAction, DeleteAction, Idle, clock
    <2> QED BY <2>1, <2>2, PutOnce
  <1>7. ASSUME NEW i \in Ids, SetActionEnabled(i)
        PROVE  OnceInv'
    BY <1>7, SetActionEnabledOnce
  <1>8. ASSUME NEW i \in Ids, RetryDue(i) \/ PutActionFails(i) \/ DeleteActionFails(i)
        PROVE  OnceInv'
    BY <1>8, OnceUnchanged DEF RetryDue, PutActionFails, DeleteActionFails, clock, history
  <1>9. CASE UserRuns \/ UserRunFails \/ UserChooses \/ Close \/ CloseFails \/ Start \/ SetTrust
    BY <1>9, OnceUnchanged
       DEF UserRuns, UserRunFails, UserChooses, Close, CloseFails, Start, SetTrust, clock, history
  <1>10. CASE Elapse
    BY <1>10, ElapseOnce
  <1> QED BY <1>1, <1>2, <1>3, <1>4, <1>5, <1>6, <1>7, <1>8, <1>9, <1>10 DEF Next, Passing

\* An occurrence that ran and was saved does not run again, for any number of
\* actions and schedules, unless the rows of its schedule overlap or the offset of
\* its zone changes: whatever fails in a pass, whenever the process ends, and
\* however late a tick comes.  (ScheduledAction.occurrence_at compares with the one
\* occurrence that is saved; that this is enough is what the theorem shows.)
THEOREM OccurrencesRunOnceAlways == Spec => []OccurrencesRunOnce
  <1>1. Init => OnceInv
    BY ActionsAssumption DEF Init, OnceInv, Instants, LookInv, RanBefore
  <1>2. OnceInv /\ [Next]_vars => OnceInv'
    BY StepOnce, OnceUnchanged DEF vars
  <1>3. OnceInv => OccurrencesRunOnce
    BY DEF OnceInv, OccurrencesRunOnce, Excused
  <1> QED BY <1>1, <1>2, <1>3, PTL DEF Spec

-----------------------------------------------------------------------------
(* The next change of a schedule. *)

\* Some row that starts on some date is in progress.
InProgress(s, local) == \E i \in DOMAIN s.rows, d \in Int : Covers(s.rows[i], d, local)

\* The date of a local time, by the beginning of its day.
LEMMA DateIs ==
    ASSUME NEW local \in Int
    PROVE  /\ Date(local) \in Int /\ Date(local) * DayLength \in Int
           /\ Date(local) * DayLength <= local /\ local < Date(local) * DayLength + DayLength
  BY ScheduleAssumption DEF Date

LEMMA DateBetween ==
    ASSUME NEW local \in Int, NEW d \in Int, NEW k \in Nat,
           d * DayLength <= local, local < d * DayLength + k * DayLength
    PROVE  d <= Date(local) /\ Date(local) < d + k
  <1>1. DayLength \in Nat /\ DayLength > 0
    BY ScheduleAssumption
  <1> DEFINE e == Date(local)
  <1>2. e \in Int /\ e * DayLength \in Int /\ e * DayLength <= local /\ local < e * DayLength + DayLength
    BY DateIs
  <1> HIDE DEF e
  <1>3. d * DayLength \in Int /\ (d + k) * DayLength = d * DayLength + k * DayLength
        /\ (d + k) * DayLength \in Int
    BY <1>1
  <1>4. ~(e < d)
    <2>1. e < d => e * DayLength + DayLength <= d * DayLength
      BY <1>1, <1>2, MultiplesApart
    <2> QED BY <1>1, <1>2, <1>3, <2>1
  <1>5. ~(d + k <= e)
    <2>1. CASE d + k < e
      <3>1. (d + k) * DayLength + DayLength <= e * DayLength
        BY <1>1, <1>2, <2>1, MultiplesApart
      <3> QED BY <1>1, <1>2, <1>3, <3>1
    <2>2. CASE d + k = e
      BY <1>2, <1>3, <2>2
    <2> QED BY <1>2, <2>1, <2>2
  <1> QED BY <1>2, <1>4, <1>5 DEF e

\* Where the row of a date starts and ends.
LEMMA RowTimes ==
    ASSUME NEW row \in WeeklyRow, NEW d \in Int
    PROVE  /\ d * DayLength \in Int
           /\ RowStart(row, d) \in Int /\ RowEnd(row, d) \in Int
           /\ RowStart(row, d) \in d * DayLength .. d * DayLength + DayLength - 1
           /\ RowEnd(row, d) > RowStart(row, d)
           /\ RowEnd(row, d) <= RowStart(row, d) + DayLength
  <1>1. DayLength \in Nat /\ DayLength > 0
    BY ScheduleAssumption
  <1>2. row.start \in 0 .. DayLength - 1 /\ row.end \in 0 .. DayLength - 1
    BY DEF WeeklyRow, DayUnit
  <1>3. d * DayLength \in Int /\ (d + 1) * DayLength = d * DayLength + DayLength
    BY <1>1
  <1>4. RowStart(row, d) = d * DayLength + row.start
    BY DEF RowStart
  <1>5. RowEnd(row, d) = d * DayLength + (IF row.end <= row.start THEN DayLength ELSE 0) + row.end
    BY <1>1, <1>2, <1>3 DEF RowEnd
  <1> QED BY <1>1, <1>2, <1>3, <1>4, <1>5

LEMMA CoveredFrom ==
    ASSUME NEW row \in WeeklyRow, NEW d \in Int, NEW local \in Int,
           RowStart(row, d) <= local, local <= RowEnd(row, d)
    PROVE  d = Date(local) \/ d = Date(local) - 1
  <1>1. DayLength \in Nat /\ DayLength > 0
    BY ScheduleAssumption
  <1>2. /\ RowStart(row, d) \in Int /\ RowEnd(row, d) \in Int /\ d * DayLength \in Int
        /\ RowStart(row, d) >= d * DayLength /\ RowStart(row, d) < d * DayLength + DayLength
        /\ RowEnd(row, d) <= RowStart(row, d) + DayLength
    BY <1>1, RowTimes
  <1>3. d * DayLength <= local /\ local < d * DayLength + 2 * DayLength
    BY <1>1, <1>2
  <1>4. d <= Date(local) /\ Date(local) < d + 2 /\ Date(local) \in Int
    BY <1>3, DateBetween, DateIs
  <1> QED BY <1>4

LEMMA LocalIsInt ==
    ASSUME NEW zone \in Zone, NEW t \in Int
    PROVE  Local(zone, t) \in Int /\ Offset(zone, t) \in {zone.before, zone.after}
           /\ zone.before \in Int /\ zone.after \in Int /\ zone.shift \in Int
  BY DEF Zone, Local, Offset

LEMMA ActiveIs ==
    ASSUME NEW s, WeeklySchedule(s), NEW t \in Int
    PROVE  IsActive(s, t) <=> InProgress(s, Local(s.zone, t))
  <1> DEFINE local == Local(s.zone, t)
  <1>1. local \in Int /\ Date(local) \in Int
    BY DateIs, LocalIsInt DEF WeeklySchedule
  <1> HIDE DEF local
  <1>2. IsActive(s, t) <=> \E i \in DOMAIN s.rows, back \in {0, 1} : Covers(s.rows[i], Date(local) - back, local)
    BY DEF IsActive, WeeklySchedule, local
  <1>3. ASSUME NEW i \in DOMAIN s.rows, NEW d \in Int, Covers(s.rows[i], d, local)
        PROVE  \E back \in {0, 1} : Covers(s.rows[i], Date(local) - back, local)
    <2>1. s.rows[i] \in WeeklyRow
      BY DEF WeeklySchedule
    <2>2. RowStart(s.rows[i], d) <= local /\ local < RowEnd(s.rows[i], d) /\ RowEnd(s.rows[i], d) \in Int
      BY <1>3, <2>1, RowTimes DEF Covers
    <2>3. d = Date(local) \/ d = Date(local) - 1
      BY <1>1, <2>1, <2>2, CoveredFrom
    <2>4. d = Date(local) - 0 \/ d = Date(local) - 1
      BY <1>1, <2>3
    <2> QED BY <1>3, <2>4
  <1>4. \A back \in {0, 1} : Date(local) - back \in Int
    BY <1>1
  <1>5. (\E i \in DOMAIN s.rows, back \in {0, 1} : Covers(s.rows[i], Date(local) - back, local))
          <=> InProgress(s, local)
    BY <1>3, <1>4 DEF InProgress
  <1> QED BY <1>2, <1>5 DEF local

\* Where activity changes, a row starts or ends.
BoundaryAt(s, local) ==
    \E i \in DOMAIN s.rows, d \in Int :
        /\ d % Week \in s.rows[i].days
        /\ RowStart(s.rows[i], d) = local \/ RowEnd(s.rows[i], d) = local

LEMMA BoundaryFrom ==
    ASSUME NEW s, WeeklySchedule(s), NEW local \in Int, NEW l \in Int, NEW m \in Int,
           InProgress(s, l), ~InProgress(s, m),
           (l = local /\ m = local - 1) \/ (l = local - 1 /\ m = local)
    PROVE  BoundaryAt(s, local)
  <1>1. PICK i \in DOMAIN s.rows, d \in Int : Covers(s.rows[i], d, l)
    BY DEF InProgress
  <1>2. s.rows[i] \in WeeklyRow
    BY DEF WeeklySchedule
  <1>3. RowStart(s.rows[i], d) \in Int /\ RowEnd(s.rows[i], d) \in Int
    BY <1>2, RowTimes
  <1>4. ~Covers(s.rows[i], d, m)
    BY DEF InProgress
  <1>5. d % Week \in s.rows[i].days /\ RowStart(s.rows[i], d) <= l /\ l < RowEnd(s.rows[i], d)
    BY <1>1 DEF Covers
  <1>6. ~(RowStart(s.rows[i], d) <= m /\ m < RowEnd(s.rows[i], d))
    BY <1>4, <1>5 DEF Covers
  <1>7. RowStart(s.rows[i], d) = local \/ RowEnd(s.rows[i], d) = local
    BY <1>3, <1>5, <1>6
  <1> QED BY <1>5, <1>7 DEF BoundaryAt

LEMMA BoundaryThere ==
    ASSUME NEW s, WeeklySchedule(s), NEW local \in Int,
           ~(InProgress(s, local - 1) <=> InProgress(s, local))
    PROVE  BoundaryAt(s, local)
  <1>1. local - 1 \in Int
    OBVIOUS
  <1>2. CASE InProgress(s, local) /\ ~InProgress(s, local - 1)
    BY ONLY WeeklySchedule(s), local \in Int, <1>1, <1>2, BoundaryFrom
  <1>3. CASE InProgress(s, local - 1) /\ ~InProgress(s, local)
    BY ONLY WeeklySchedule(s), local \in Int, <1>1, <1>3, BoundaryFrom
  <1> QED BY <1>2, <1>3

\* An instant is one of the two that its local time may mean.
LEMMA LocalMeans ==
    ASSUME NEW zone \in Zone, NEW u \in Int
    PROVE  \E f \in {0, 1} : Utc(zone, Local(zone, u), f) = u
  <1>1. zone.before \in Int /\ zone.after \in Int /\ zone.shift \in Int
    BY DEF Zone
  <1>2. Utc(zone, Local(zone, u), 0) = u \/ Utc(zone, Local(zone, u), 1) = u
    <2>1. CASE u < zone.shift
      BY <1>1, <2>1 DEF Utc, Local, Offset
    <2>2. CASE ~(u < zone.shift)
      BY <1>1, <2>2 DEF Utc, Local, Offset
    <2> QED BY <2>1, <2>2
  <1> QED BY <1>2

\* No change of the activity within eight days is missing from the events, when the
\* zone's offset changes by no more than a day.
LEMMA EventFound ==
    ASSUME NEW s, WeeklySchedule(s), NEW t \in Int, NEW u \in Int,
           t < u, u <= t + 8 * DayLength, ~(IsActive(s, u - 1) <=> IsActive(s, u)),
           s.zone.after - s.zone.before \in -DayLength .. DayLength
    PROVE  u \in WeeklyEvents(s, t)
  <1> DEFINE zone == s.zone
             first == Date(Local(zone, t)) - 2
             local == Local(zone, u)
  <1>1. zone \in Zone /\ u - 1 \in Int /\ DayLength \in Nat /\ DayLength > 0
    BY ScheduleAssumption DEF WeeklySchedule
  <1>2. zone.before \in Int /\ zone.after \in Int /\ zone.shift \in Int /\ local \in Int
        /\ Local(zone, t) \in Int
    BY <1>1, LocalIsInt
  <1>3. CASE u = zone.shift
    <2>1. t - 2 * DayLength < u /\ u <= t + 10 * DayLength
      BY <1>1
    <2>2. u \in {v \in {s.zone.shift} : t - 2 * DayLength < v /\ v <= t + 10 * DayLength}
      BY <1>3, <2>1
    <2>3. u \in WeeklyCandidates(s, t)
      BY <2>2 DEF WeeklyCandidates
    <2> QED BY <2>3 DEF WeeklyEvents
  <1>4. CASE u # zone.shift
    <2>1. Local(zone, u - 1) = local - 1
      <3>1. Offset(zone, u - 1) = Offset(zone, u)
        BY <1>2, <1>4 DEF Offset
      <3>2. Offset(zone, u) \in Int
        BY <1>1, <1>2, LocalIsInt
      <3> QED BY <3>1, <3>2 DEF Local
    <2>2. ~(InProgress(s, local - 1) <=> InProgress(s, local))
      BY <1>1, <2>1, ActiveIs
    <2> HIDE DEF local
    <2>3. PICK i \in DOMAIN s.rows, d \in Int :
             /\ d % Week \in s.rows[i].days
             /\ RowStart(s.rows[i], d) = local \/ RowEnd(s.rows[i], d) = local
      BY <1>2, <2>2, BoundaryThere DEF BoundaryAt
    <2>4. s.rows[i] \in WeeklyRow
      BY DEF WeeklySchedule
    <2>5. d = Date(local) \/ d = Date(local) - 1
      <3>1. RowStart(s.rows[i], d) <= local /\ local <= RowEnd(s.rows[i], d)
        BY <1>2, <2>3, <2>4, RowTimes
      <3> QED BY <1>2, <2>4, <3>1, CoveredFrom
    <2>6. Local(zone, t) - DayLength < local /\ local <= Local(zone, t) + 9 * DayLength
      BY <1>1, <1>2 DEF local, Local, Offset
    <2>7. Date(local) >= first + 1 /\ Date(local) <= first + 11 /\ first \in Int /\ Date(local) \in Int
      <3> DEFINE here == Local(zone, t)
                 a == Date(here)
                 b == Date(local)
      <3>1. /\ a \in Int /\ a * DayLength \in Int
            /\ a * DayLength <= here /\ here < a * DayLength + DayLength
            /\ b \in Int /\ b * DayLength \in Int
            /\ b * DayLength <= local /\ local < b * DayLength + DayLength
        BY <1>2, DateIs
      <3> HIDE DEF a, b, here
      <3>2. here - DayLength < local /\ local <= here + 9 * DayLength /\ here \in Int
        BY <1>2, <2>6 DEF here
      <3>3. ~(b < a - 1)
        <4>1. (a - 1) * DayLength = a * DayLength - DayLength
          BY <1>1, <3>1
        <4>2. b < a - 1 => b * DayLength + DayLength <= (a - 1) * DayLength
          BY <1>1, <3>1, MultiplesApart
        <4> QED BY <1>1, <1>2, <3>1, <3>2, <4>1, <4>2
      <3>4. ~(a + 9 < b)
        <4>1. (a + 9) * DayLength = a * DayLength + 9 * DayLength
          BY <1>1, <3>1
        <4>2. a + 9 < b => (a + 9) * DayLength + DayLength <= b * DayLength
          BY <1>1, <3>1, MultiplesApart
        <4> QED BY <1>1, <1>2, <3>1, <3>2, <4>1, <4>2
      <3>5. first = a - 2
        BY DEF a, here
      <3> HIDE DEF first
      <3>6. b >= first + 1 /\ b <= first + 11 /\ first \in Int
        BY <3>1, <3>3, <3>4, <3>5
      <3> QED BY <3>1, <3>6 DEF b
    <2>8. d \in first .. first + 11
      BY <2>5, <2>7
    <2>9. <<i, d>> \in RowDates(s, first .. first + 11)
      BY <2>3, <2>8 DEF RowDates
    <2>10. PICK f \in {0, 1} : Utc(zone, local, f) = u
      BY <1>1, LocalMeans DEF local
    <2> HIDE DEF first
    <2>11. u \in UNION {{Utc(zone, RowStart(s.rows[p[1]], p[2]), g), Utc(zone, RowEnd(s.rows[p[1]], p[2]), g)}
               : p \in RowDates(s, first .. first + 11), g \in {0, 1}}
      <3> DEFINE p == <<i, d>>
                 P == RowDates(s, first .. first + 11)
                 E(q, g) == {Utc(zone, RowStart(s.rows[q[1]], q[2]), g), Utc(zone, RowEnd(s.rows[q[1]], q[2]), g)}
      <3>1. p \in P /\ p[1] = i /\ p[2] = d
        BY <2>9
      <3> HIDE DEF p, P
      <3>2. u \in E(p, f)
        BY <2>3, <2>10, <3>1
      <3> HIDE DEF E
      <3>3. u \in UNION {E(q, g) : q \in P, g \in {0, 1}}
        BY <3>1, <3>2
      <3> QED BY <3>3 DEF E, P
    <2>12. u \in WeeklyCandidates(s, t)
      BY <2>11 DEF WeeklyCandidates, first
    <2> QED BY <2>12 DEF WeeklyEvents
  <1> QED BY <1>3, <1>4

\* A conversion gives an instant.
LEMMA UtcIsInt ==
    ASSUME NEW zone \in Zone, NEW local \in Int, NEW f \in {0, 1}
    PROVE  Utc(zone, local, f) \in Int
  BY DEF Zone, Utc

LEMMA EventsAreInts ==
    ASSUME NEW s, WeeklySchedule(s), NEW t \in Int
    PROVE  WeeklyEvents(s, t) \subseteq Int
  <1> DEFINE zone == s.zone
             P == RowDates(s, Date(Local(zone, t)) - 2 .. Date(Local(zone, t)) - 2 + 11)
             E(q, g) == {Utc(zone, RowStart(s.rows[q[1]], q[2]), g), Utc(zone, RowEnd(s.rows[q[1]], q[2]), g)}
  <1>1. zone \in Zone /\ zone.shift \in Int /\ Local(zone, t) \in Int
    BY LocalIsInt DEF WeeklySchedule
  <1>2. ASSUME NEW q \in P, NEW g \in {0, 1} PROVE E(q, g) \subseteq Int
    <2>1. q[1] \in DOMAIN s.rows /\ q[2] \in Int
      BY <1>1, DateIs DEF RowDates
    <2>2. s.rows[q[1]] \in WeeklyRow
      BY <2>1 DEF WeeklySchedule
    <2>3. RowStart(s.rows[q[1]], q[2]) \in Int /\ RowEnd(s.rows[q[1]], q[2]) \in Int
      BY <2>1, <2>2, RowTimes
    <2> QED BY <1>1, <2>3, UtcIsInt
  <1> HIDE DEF P, E
  <1>3. UNION {E(q, g) : q \in P, g \in {0, 1}} \subseteq Int
    BY <1>2
  <1>4. WeeklyCandidates(s, t) \subseteq Int
    BY <1>1, <1>3 DEF WeeklyCandidates, P, E
  <1> QED BY <1>4 DEF WeeklyEvents

\* Instants after t have an earliest one.
LEMMA EarliestIs ==
    ASSUME NEW t \in Int, NEW S, S \subseteq {u \in Int : u > t}, S # {}
    PROVE  /\ Earliest(S) \in S
           /\ \A v \in S : Earliest(S) <= v
  <1> DEFINE N == {u - t : u \in S}
  <1>1. N \in SUBSET Nat /\ N # {}
    OBVIOUS
  <1>2. PICK n \in N : \A m \in N : n <= m
    BY <1>1, LeastOfNaturals
  <1>3. PICK u \in S : n = u - t
    BY <1>2
  <1>4. ASSUME NEW v \in S PROVE u <= v
    <2>1. v - t \in N
      OBVIOUS
    <2> HIDE DEF N
    <2>2. u - t <= v - t
      BY <1>2, <1>3, <2>1
    <2> QED BY <1>3, <2>2
  <1> QED BY <1>3, <1>4 DEF Earliest

LEMMA IsActiveIsBoolean ==
    ASSUME NEW s, NEW t
    PROVE  IsActive(s, t) \in BOOLEAN
  BY DEF IsActive

LEMMA NextOfWeekly ==
    ASSUME NEW s, WeeklySchedule(s), NEW t \in Int,
           ChangesByADay(s.zone)
    PROVE  ChangeIsReal(s, t) /\ NoChangeIsMissed(s, t)
  <1> DEFINE later == {u \in WeeklyEvents(s, t) : u > t /\ IsActive(s, u) # IsActive(s, t)}
  <1>1. NextStateChange(s, t) = Earliest(later)
    BY DEF NextStateChange, WeeklySchedule
  <1>2. later \subseteq {u \in Int : u > t}
    BY EventsAreInts
  <1>3. ChangeIsReal(s, t)
    <2>1. CASE later = {}
      BY <1>1, <2>1, ScheduleAssumption DEF Earliest, ChangeIsReal
    <2>2. CASE later # {}
      <3>1. Earliest(later) \in later
        BY <1>2, <2>2, EarliestIs
      <3> QED BY <1>1, <3>1 DEF ChangeIsReal
    <2> QED BY <2>1, <2>2
  <1>4. ASSUME NEW u \in t + 1 .. t + 8 * DayLength, IsActive(s, u) # IsActive(s, t)
        PROVE  NextStateChange(s, t) \in t + 1 .. u
    <2> DEFINE near == {v \in Int : v > t /\ v <= u /\ IsActive(s, v) # IsActive(s, t)}
               first == Earliest(near)
    <2>1. near # {} /\ near \subseteq {v \in Int : v > t}
      BY <1>4, ScheduleAssumption
    <2> HIDE DEF near
    <2>2. first \in near /\ \A v \in near : first <= v
      BY <2>1, EarliestIs
    <2> HIDE DEF first
    <2>3. first \in Int /\ first > t /\ first <= u /\ IsActive(s, first) # IsActive(s, t)
      BY <2>2 DEF near
    <2>4. IsActive(s, first - 1) = IsActive(s, t)
      <3>1. CASE first = t + 1
        BY <3>1
      <3>2. CASE first # t + 1
        <4>1. first - 1 \in Int /\ first - 1 > t /\ first - 1 <= u /\ ~(first <= first - 1)
          BY <2>3, <3>2
        <4>2. first - 1 \notin near
          BY <2>2, <4>1
        <4> QED BY <4>1, <4>2 DEF near
      <3> QED BY <3>1, <3>2
    <2>5. ~(IsActive(s, first - 1) <=> IsActive(s, first))
      BY <2>3, <2>4, IsActiveIsBoolean
    <2>6. first \in WeeklyEvents(s, t)
      <3>1. t < first /\ first <= t + 8 * DayLength /\ first \in Int
        BY <1>4, <2>3, ScheduleAssumption
      <3> QED BY <2>5, <3>1, EventFound DEF ChangesByADay
    <2>7. first \in later
      BY <2>3, <2>6
    <2> HIDE DEF later
    <2>8. Earliest(later) \in later /\ Earliest(later) <= first
      BY <1>2, <2>7, EarliestIs
    <2>9. Earliest(later) \in Int /\ Earliest(later) > t
      BY <1>2, <2>8
    <2>10. u \in Int
      BY <1>4, ScheduleAssumption
    <2> QED BY <1>1, <2>3, <2>8, <2>9, <2>10
  <1> QED BY <1>3, <1>4 DEF NoChangeIsMissed

LEMMA NextOfOneTime ==
    ASSUME NEW s, OneTimeSchedule(s), s.start < s.end, NEW t \in Int
    PROVE  ChangeIsReal(s, t) /\ NoChangeIsMissed(s, t)
  <1>1. s.kind = "one_time" /\ s.start \in Int /\ s.end \in Int /\ DayLength \in Nat /\ None \notin Int
    BY ScheduleAssumption DEF OneTimeSchedule
  <1>2. \A u \in Int : IsActive(s, u) <=> s.start <= u /\ u < s.end
    BY <1>1 DEF IsActive
  <1>3. NextStateChange(s, t) = IF t < s.start THEN s.start ELSE IF t < s.end THEN s.end ELSE None
    BY <1>1 DEF NextStateChange
  <1>4. ChangeIsReal(s, t)
    BY <1>1, <1>2, <1>3, IsActiveIsBoolean DEF ChangeIsReal
  <1>5. ASSUME NEW u \in t + 1 .. t + 8 * DayLength, IsActive(s, u) # IsActive(s, t)
        PROVE  NextStateChange(s, t) \in t + 1 .. u
    <2>1. u \in Int /\ u > t
      BY <1>1
    <2>2. ~(IsActive(s, u) <=> IsActive(s, t))
      BY <1>5, IsActiveIsBoolean
    <2> QED BY <1>1, <1>2, <1>3, <2>1, <2>2
  <1> QED BY <1>4, <1>5 DEF NoChangeIsMissed

\* The cycle an instant is in, and what is left of it.
LEMMA CycleIs ==
    ASSUME NEW x \in Int, NEW c \in Nat \ {0}
    PROVE  /\ x \div c \in Int /\ (x \div c) * c \in Int
           /\ (x \div c) * c <= x /\ x < (x \div c) * c + c
           /\ x % c = x - (x \div c) * c
  OBVIOUS

\* An instant of a cycle gives what is left of it.
LEMMA RestIs ==
    ASSUME NEW x \in Int, NEW c \in Nat \ {0}, NEW k \in Int,
           k * c <= x, x < k * c + c
    PROVE  x % c = x - k * c
  <1> DEFINE q == x \div c
  <1>1. q \in Int /\ q * c \in Int /\ q * c <= x /\ x < q * c + c /\ x % c = x - q * c
    BY CycleIs
  <1> HIDE DEF q
  <1>2. c \in Nat /\ k * c \in Int
    OBVIOUS
  <1>3. ~(q < k)
    <2>1. q < k => q * c + c <= k * c
      BY <1>1, <1>2, MultiplesApart
    <2> QED BY <1>1, <1>2, <2>1
  <1>4. ~(k < q)
    <2>1. k < q => k * c + c <= q * c
      BY <1>1, <1>2, MultiplesApart
    <2> QED BY <1>1, <1>2, <2>1
  <1>5. q = k
    BY <1>1, <1>3, <1>4
  <1> QED BY <1>1, <1>5

LEMMA NextOfPomodoro ==
    ASSUME NEW s, PomodoroSchedule(s), NEW t \in Int
    PROVE  ChangeIsReal(s, t) /\ NoChangeIsMissed(s, t)
  <1> DEFINE cycle == s.work + s.break
             end   == PomodoroEnd(s)
             k     == (t - s.start) \div cycle
             kc    == k * cycle
             begun == s.start + kc
             lastc == (s.cycles - 1) * cycle
             next  == NextStateChange(s, t)
  <1>1. /\ s.kind = "pomodoro" /\ s.start \in Int /\ s.work \in Nat \ {0} /\ s.break \in Nat \ {0}
        /\ s.cycles \in Nat \ {0} /\ DayLength \in Nat /\ None \notin Int
        /\ cycle \in Nat \ {0} /\ cycle > s.work
    BY ScheduleAssumption DEF PomodoroSchedule
  <1>2. end = s.start + lastc + s.work /\ lastc \in Int /\ end \in Int /\ lastc >= 0
    <2>1. lastc = s.work * (s.cycles - 1) + s.break * (s.cycles - 1)
      BY <1>1
    <2>2. s.work * s.cycles = s.work * (s.cycles - 1) + s.work
      BY <1>1
    <2>3. s.work * (s.cycles - 1) \in Int /\ s.break * (s.cycles - 1) \in Int
          /\ s.work * (s.cycles - 1) >= 0 /\ s.break * (s.cycles - 1) >= 0
      BY <1>1
    <2> HIDE DEF lastc
    <2> QED BY <1>1, <2>1, <2>2, <2>3 DEF PomodoroEnd
  <1>3. t - s.start \in Int
    BY <1>1
  <1>4. /\ k \in Int /\ kc \in Int /\ kc <= t - s.start /\ t - s.start < kc + cycle
    <2> HIDE DEF cycle
    <2> QED BY <1>1, <1>3, CycleIs
  <1>5. next = IF t < s.start THEN s.start
               ELSE IF t >= end THEN None
               ELSE IF t < begun + s.work THEN begun + s.work ELSE begun + cycle
    BY <1>1 DEF NextStateChange
  <1>6. \A u \in Int : IsActive(s, u) <=>
            s.start <= u /\ u < end /\ (u - s.start) % cycle < s.work
    BY <1>1 DEF IsActive
  <1>7. ASSUME NEW u \in Int, begun <= u, u < begun + cycle
        PROVE  IsActive(s, u) <=> s.start <= u /\ u < end /\ u < begun + s.work
    <2>1. u - s.start \in Int /\ kc <= u - s.start /\ u - s.start < kc + cycle
      BY <1>1, <1>4, <1>7
    <2>2. (u - s.start) % cycle = u - s.start - kc
      <3> HIDE DEF cycle
      <3> QED BY <1>1, <1>4, <2>1, RestIs
    <2> HIDE DEF cycle, end, kc
    <2> QED BY <1>1, <1>4, <1>6, <2>2
  <1>8. (k + 1) * cycle = kc + cycle
    <2> HIDE DEF cycle, k
    <2> QED BY <1>1, <1>4
  \* The cycle of an instant before the end starts no later than the last one.
  <1>9. t < end => kc <= lastc
    <2>1. k > s.cycles - 1 => lastc + cycle <= kc
      <3>1. s.cycles - 1 \in Int /\ cycle \in Nat
        BY <1>1
      <3> HIDE DEF cycle, k
      <3> QED BY <1>1, <1>4, <3>1, MultiplesApart
    <2>2. k < s.cycles - 1 => kc + cycle <= lastc
      <3>1. s.cycles - 1 \in Int /\ cycle \in Nat
        BY <1>1
      <3> HIDE DEF cycle, k
      <3> QED BY <1>1, <1>4, <3>1, MultiplesApart
    <2>3. k = s.cycles - 1 => kc = lastc
      OBVIOUS
    <2>4. s.cycles - 1 \in Int
      BY <1>1
    <2> HIDE DEF cycle, end, kc, lastc, k
    <2> QED BY <1>1, <1>2, <1>4, <2>1, <2>2, <2>3, <2>4
  \* A break that has begun before the end is followed by another cycle.
  <1>10. t < end /\ t >= begun + s.work => kc + cycle <= lastc
    <2>1. k < s.cycles - 1 => kc + cycle <= lastc
      <3>1. s.cycles - 1 \in Int /\ cycle \in Nat
        BY <1>1
      <3> HIDE DEF cycle, k
      <3> QED BY <1>1, <1>4, <3>1, MultiplesApart
    <2>2. k > s.cycles - 1 => lastc + cycle <= kc
      <3>1. s.cycles - 1 \in Int /\ cycle \in Nat
        BY <1>1
      <3> HIDE DEF cycle, k
      <3> QED BY <1>1, <1>4, <3>1, MultiplesApart
    <2>3. k = s.cycles - 1 => kc = lastc
      OBVIOUS
    <2>4. s.cycles - 1 \in Int
      BY <1>1
    <2> HIDE DEF cycle, end, kc, lastc, k
    <2> QED BY <1>1, <1>2, <1>4, <2>1, <2>2, <2>3, <2>4
  <1> HIDE DEF cycle, end, k, kc, lastc, next
  \* The next cycle is active where it begins, unless the schedule is over.
  <1>11. ASSUME t >= s.start, kc + cycle <= lastc PROVE IsActive(s, begun + cycle)
    <2>1. begun + cycle - s.start \in Int /\ begun + cycle - s.start = kc + cycle
      BY <1>1, <1>4
    <2> DEFINE x == begun + cycle - s.start
               j == k + 1
    <2>2. x % cycle = 0
      <3>1. /\ j \in Int /\ x \in Int /\ x = j * cycle
            /\ j * cycle <= x /\ x < j * cycle + cycle
        <4>1. x \in Int /\ x = kc + cycle
          BY <2>1
        <4>2. j * cycle = kc + cycle
          BY <1>8
        <4>3. j \in Int
          BY <1>4
        <4> HIDE DEF j, x
        <4> QED BY <1>1, <4>1, <4>2, <4>3
      <3> HIDE DEF j, x
      <3>2. x % cycle = x - j * cycle
        BY <1>1, <3>1, RestIs
      <3>3. x - x = 0
        BY <3>1
      <3> QED BY <3>1, <3>2, <3>3
    <2>3. begun + cycle < end
      BY <1>1, <1>2, <1>4, <1>11
    <2>4. s.start <= begun + cycle /\ begun + cycle \in Int
      BY <1>1, <1>4, <1>11
    <2> DEFINE u == begun + cycle
    <2>5. u \in Int /\ s.start <= u /\ u < end /\ x = u - s.start
      <3>1. x = u - s.start
        BY <1>1, <1>4
      <3>2. u \in Int /\ s.start <= u /\ u < end
        <4> HIDE DEF begun
        <4> QED BY <2>3, <2>4
      <3> HIDE DEF u, x
      <3> QED BY <3>1, <3>2
    <2> HIDE DEF u, x
    <2>6. (u - s.start) % cycle < s.work
      BY <1>1, <2>2, <2>5
    <2>7. IsActive(s, u)
      BY <1>6, <2>5, <2>6
    <2> QED BY <2>7 DEF u
  <1>12. \A u \in Int : IsActive(s, u) \in BOOLEAN
    BY IsActiveIsBoolean
  <1>13. CASE t < s.start
    <2>1. next = s.start
      BY <1>5, <1>13
    <2>2. IsActive(s, s.start)
      <3>1. (s.start - s.start) % cycle = 0
        BY <1>1
      <3> QED BY <1>1, <1>2, <1>6, <3>1
    <2>3. ~IsActive(s, t)
      BY <1>1, <1>6, <1>13
    <2>4. \A u \in t + 1 .. t + 8 * DayLength : IsActive(s, u) => s.start \in t + 1 .. u
      BY <1>1, <1>6, <1>13
    <2>5. ChangeIsReal(s, t)
      BY <1>1, <1>13, <2>1, <2>2, <2>3 DEF ChangeIsReal, next
    <2>6. ASSUME NEW u \in t + 1 .. t + 8 * DayLength, IsActive(s, u) # IsActive(s, t)
          PROVE  next \in t + 1 .. u
      <3>1. IsActive(s, u)
        BY <2>3, <2>6, IsActiveIsBoolean
      <3> QED BY <2>1, <2>4, <3>1
    <2> QED BY <2>5, <2>6 DEF NoChangeIsMissed, next
  <1>14. CASE t >= s.start /\ t >= end
    <2>1. next = None
      BY <1>1, <1>5, <1>14
    <2>2. \A u \in Int : u >= t => ~IsActive(s, u)
      BY <1>1, <1>2, <1>6, <1>14
    <2>3. ~IsActive(s, t) /\ \A u \in t + 1 .. t + 8 * DayLength : ~IsActive(s, u)
      BY <1>1, <2>2
    <2> QED BY <1>1, <1>12, <2>1, <2>3 DEF ChangeIsReal, NoChangeIsMissed, next
  <1>15. CASE t >= s.start /\ t < end /\ t < begun + s.work
    <2>1. next = begun + s.work
      <3> HIDE DEF begun
      <3> QED BY <1>1, <1>2, <1>5, <1>15
    <2>2. begun + s.work \in Int /\ begun + s.work <= end /\ begun <= t
          /\ begun + s.work < begun + cycle /\ begun \in Int /\ end \in Int
      <3>1. kc <= lastc
        BY <1>9, <1>15
      <3> QED BY <1>1, <1>2, <1>4, <3>1
    <2>3. \A u \in Int : t <= u /\ u < begun + s.work => IsActive(s, u)
      <3> HIDE DEF begun
      <3>1. ASSUME NEW u \in Int, t <= u, u < begun + s.work
            PROVE  begun <= u /\ u < begun + cycle /\ s.start <= u /\ u < end
        BY <1>1, <1>15, <2>2, <3>1
      <3> QED BY <1>7, <3>1
    <2>4. ~IsActive(s, begun + s.work)
      <3> DEFINE u == begun + s.work
      <3>1. u \in Int /\ begun <= u /\ u < begun + cycle /\ ~(u < begun + s.work)
        BY <1>1, <2>2
      <3> HIDE DEF begun, u
      <3>2. ~IsActive(s, u)
        BY <1>7, <3>1
      <3> QED BY <3>2 DEF u
    <2> HIDE DEF begun
    <2>5. IsActive(s, t) /\ next > t
      BY <1>1, <1>15, <2>1, <2>2, <2>3
    <2>6. ChangeIsReal(s, t)
      BY <1>12, <2>1, <2>4, <2>5 DEF ChangeIsReal, next
    <2>7. \A u \in t + 1 .. t + 8 * DayLength : ~IsActive(s, u) => next \in t + 1 .. u
      BY <1>1, <1>15, <2>1, <2>2, <2>3
    <2>8. NoChangeIsMissed(s, t)
      BY <1>12, <2>5, <2>7, IsActiveIsBoolean DEF NoChangeIsMissed, next
    <2> QED BY <2>6, <2>8
  <1>16. CASE t >= s.start /\ t < end /\ t >= begun + s.work
    <2>1. next = begun + cycle
      <3>1. begun \in Int
        BY <1>1, <1>4
      <3> HIDE DEF begun
      <3> QED BY <1>1, <1>2, <1>5, <1>16, <3>1
    <2>2. begun + cycle \in Int /\ begun + cycle > t /\ begun \in Int
      BY <1>1, <1>4
    <2>3. IsActive(s, begun + cycle)
      BY <1>10, <1>11, <1>16
    <2>4. \A u \in Int : t <= u /\ u < begun + cycle => ~IsActive(s, u)
      <3> HIDE DEF begun
      <3> QED BY <1>1, <1>2, <1>7, <1>16, <2>2
    <2> HIDE DEF begun
    <2>5. ~IsActive(s, t) /\ next > t
      BY <1>1, <1>16, <2>1, <2>2, <2>4
    <2>6. ChangeIsReal(s, t)
      BY <1>12, <2>1, <2>3, <2>5 DEF ChangeIsReal, next
    <2>7. \A u \in t + 1 .. t + 8 * DayLength : IsActive(s, u) => next \in t + 1 .. u
      BY <1>1, <1>16, <2>1, <2>2, <2>4
    <2>8. NoChangeIsMissed(s, t)
      BY <1>12, <2>5, <2>7, IsActiveIsBoolean DEF NoChangeIsMissed, next
    <2> QED BY <2>6, <2>8
  <1>17. begun \in Int /\ end \in Int
    BY <1>1, <1>2, <1>4
  <1> QED BY <1>1, <1>13, <1>14, <1>15, <1>16, <1>17

\* The next change that the overview and the list of rules show is exact, for every
\* schedule of a rule and every instant, as long as the zone's offset changes by no
\* more than a day: what is shown is a change, and no change of the next eight days is
\* left out.  (_weekly_events looks at no other instants than the boundaries of twelve
\* dates, with both offsets, and the transition: the theorem shows that they suffice.)
THEOREM NextChangeIsExact ==
    \A s, t : RuleSchedule(s) /\ t \in Int => ChangeIsReal(s, t) /\ NoChangeIsMissed(s, t)
  <1> SUFFICES ASSUME NEW s, NEW t \in Int, RuleSchedule(s)
               PROVE  ChangeIsReal(s, t) /\ NoChangeIsMissed(s, t)
    OBVIOUS
  <1>1. CASE OneTimeSchedule(s) /\ s.start < s.end
    BY <1>1, NextOfOneTime
  <1>2. CASE PomodoroSchedule(s)
    BY <1>2, NextOfPomodoro
  <1>3. CASE WeeklySchedule(s) /\ ChangesByADay(s.zone)
    BY <1>3, NextOfWeekly
  <1>4. CASE s.kind = "indefinite"
    <2>1. \A u : IsActive(s, u) = TRUE
      BY <1>4, IsActiveIsBoolean DEF IsActive
    <2>2. NextStateChange(s, t) = None
      BY <1>4 DEF NextStateChange
    <2> QED BY <2>1, <2>2, ScheduleAssumption DEF ChangeIsReal, NoChangeIsMissed
  <1> QED BY <1>1, <1>2, <1>3, <1>4 DEF RuleSchedule

-----------------------------------------------------------------------------
(* The days of the overview. *)

\* A recursive function over the first numbers is defined by its equation.
LEMMA WalkExists ==
    ASSUME NEW s, NEW from, NEW to, NEW n \in Nat
    PROVE  \E walk : walk = [m \in 0 .. n |->
               IF m = 0 THEN WalkStart(s, from) ELSE Step(s, from, to, walk[m - 1])]
  <1> DEFINE Good(m) == \E walk : walk = [j \in 0 .. m |->
                 IF j = 0 THEN WalkStart(s, from) ELSE Step(s, from, to, walk[j - 1])]
             bad == {m \in Nat : ~Good(m)}
  <1>1. Good(0)
    <2> DEFINE walk == [j \in 0 .. 0 |-> WalkStart(s, from)]
    <2>1. walk = [j \in 0 .. 0 |-> IF j = 0 THEN WalkStart(s, from) ELSE Step(s, from, to, walk[j - 1])]
      OBVIOUS
    <2> QED BY <2>1
  <1>2. ASSUME NEW m \in Nat, Good(m) PROVE Good(m + 1)
    <2>1. PICK walk : walk = [j \in 0 .. m |->
              IF j = 0 THEN WalkStart(s, from) ELSE Step(s, from, to, walk[j - 1])]
      BY <1>2
    <2> DEFINE next == [j \in 0 .. m + 1 |-> IF j <= m THEN walk[j] ELSE Step(s, from, to, walk[m])]
    <2>2. DOMAIN next = 0 .. m + 1
      OBVIOUS
    <2>3. ASSUME NEW j \in 0 .. m + 1
          PROVE  next[j] = IF j = 0 THEN WalkStart(s, from) ELSE Step(s, from, to, next[j - 1])
      <3>1. CASE j = 0
        <4>1. next[0] = walk[0] /\ 0 \in 0 .. m
          BY <1>2
        <4> HIDE DEF next
        <4> QED BY <2>1, <3>1, <4>1
      <3>2. CASE j # 0 /\ j <= m
        <4>1. next[j] = walk[j] /\ next[j - 1] = walk[j - 1] /\ j \in 0 .. m
          BY <3>2
        <4>2. walk[j] = Step(s, from, to, walk[j - 1])
          BY <2>1, <3>2, <4>1
        <4> HIDE DEF next
        <4> QED BY <3>2, <4>1, <4>2
      <3>3. CASE j = m + 1
        <4>1. next[j] = Step(s, from, to, walk[m]) /\ next[j - 1] = walk[m] /\ j # 0
          BY <3>3
        <4> HIDE DEF next
        <4> QED BY <4>1
      <3> QED BY <3>1, <3>2, <3>3
    <2>4. next = [j \in 0 .. m + 1 |->
              IF j = 0 THEN WalkStart(s, from) ELSE Step(s, from, to, next[j - 1])]
      <3>1. next = [j \in 0 .. m + 1 |-> next[j]]
        BY <2>2
      <3> HIDE DEF next
      <3> QED BY <2>3, <3>1
    <2> QED BY <2>4
  <1> HIDE DEF Good
  <1>3. bad = {}
    <2> SUFFICES ASSUME bad # {} PROVE FALSE
      OBVIOUS
    <2>1. PICK m \in bad : \A j \in bad : m <= j
      BY LeastOfNaturals
    <2>2. m # 0 /\ m \in Nat /\ ~Good(m)
      BY <1>1, <2>1
    <2>3. m - 1 \in Nat /\ m - 1 \notin bad
      BY <2>1, <2>2
    <2>4. Good(m - 1)
      BY <2>3
    <2>5. Good((m - 1) + 1)
      BY <1>2, <2>3, <2>4
    <2>6. (m - 1) + 1 = m
      BY <2>2
    <2> QED BY <2>2, <2>5, <2>6
  <1>4. Good(n)
    BY <1>3
  <1> QED BY <1>4 DEF Good

\* A property of the start of a walk that every step keeps is one of its end.
LEMMA WalkEndIs ==
    ASSUME NEW s, NEW from, NEW to
    PROVE  \E walk : /\ walk = [m \in 0 .. Transitions |->
                           IF m = 0 THEN WalkStart(s, from) ELSE Step(s, from, to, walk[m - 1])]
                     /\ WalkEnd(s, from, to) = walk[Transitions]
  <1>1. Transitions \in Nat
    BY ScheduleAssumption
  <1> DEFINE F == CHOOSE walk : walk = [m \in 0 .. Transitions |->
                           IF m = 0 THEN WalkStart(s, from) ELSE Step(s, from, to, walk[m - 1])]
  <1>2. F = [m \in 0 .. Transitions |->
                           IF m = 0 THEN WalkStart(s, from) ELSE Step(s, from, to, F[m - 1])]
    BY <1>1, WalkExists
  <1>3. WalkEnd(s, from, to) = F[Transitions]
    BY DEF WalkEnd
  <1> QED BY <1>2, <1>3

\* How far a walk has got, of a day that begins at the given instant.
Reached(from, place) == IF place.cursor < from THEN from ELSE place.cursor

\* What is known of a place: the closed intervals and the open one are the activity up to
\* where the walk has got, and beyond it nothing changes when the walk is over.
PlaceTyped(from, to, place) ==
    /\ place \in [cursor : Int, open : Int \cup {None}, closed : SUBSET (Int \X Int),
                  over : BOOLEAN]
    /\ place.cursor \in from - 1 .. to - 1
    /\ place.open \in (from .. Reached(from, place)) \cup {None}
    /\ \A r \in place.closed : from <= r[1] /\ r[1] < r[2] /\ r[2] <= Reached(from, place)
ShownAt(place, x) ==
    \/ \E r \in place.closed : r[1] <= x /\ x < r[2]
    \/ place.open # None /\ place.open <= x
PlaceShows(s, from, place) ==
    \A x \in from .. Reached(from, place) : IsActive(s, x) <=> ShownAt(place, x)
PlaceApart(place) ==
    /\ \A r, q \in place.closed : r # q => r[2] < q[1] \/ q[2] < r[1]
    /\ place.open # None => \A r \in place.closed : r[2] < place.open
PlaceEnds(s, from, to, place) ==
    place.over => \A x \in Reached(from, place) .. to - 1 :
                      IsActive(s, x) = IsActive(s, Reached(from, place))
PlaceInv(s, from, to, place) ==
    /\ PlaceTyped(from, to, place)
    /\ PlaceShows(s, from, place)
    /\ PlaceApart(place)
    /\ PlaceEnds(s, from, to, place)

LEMMA WalkBegins ==
    ASSUME NEW s, NEW from \in Int, NEW to \in Int, from < to
    PROVE  PlaceInv(s, from, to, WalkStart(s, from))
  <1> DEFINE place == WalkStart(s, from)
  <1>1. /\ place.cursor = from - 1 /\ place.closed = {} /\ place.over = FALSE
        /\ place.open = IF IsActive(s, from) THEN from ELSE None
        /\ place \in [cursor : Int, open : Int \cup {None}, closed : SUBSET (Int \X Int),
                      over : BOOLEAN]
    BY DEF WalkStart
  <1> HIDE DEF place
  <1>2. Reached(from, place) = from
    BY <1>1 DEF Reached
  <1>3. PlaceTyped(from, to, place)
    BY <1>1, <1>2 DEF PlaceTyped
  <1>4. IsActive(s, from) <=> place.open # None /\ place.open <= from
    <2>1. from # None
      BY ScheduleAssumption
    <2> QED BY <1>1, <2>1
  <1>5. PlaceShows(s, from, place)
    <2>1. \A x \in from .. from : x = from
      OBVIOUS
    <2> QED BY <1>1, <1>2, <1>4, <2>1 DEF PlaceShows, ShownAt
  <1>6. PlaceApart(place) /\ PlaceEnds(s, from, to, place)
    BY <1>1 DEF PlaceApart, PlaceEnds
  <1> QED BY <1>3, <1>5, <1>6 DEF PlaceInv, place

\* From where a walk has got, the activity stays as it is up to the next change.
LEMMA SameUntilChange ==
    ASSUME NEW s, RuleSchedule(s), NEW from \in Int, NEW to \in Int, to <= from + 2 * DayLength,
           NEW place, PlaceTyped(from, to, place),
           NEW x \in Int, Reached(from, place) <= x, x < to,
           ~(NextStateChange(s, place.cursor) \in place.cursor + 1 .. x)
    PROVE  IsActive(s, x) = IsActive(s, Reached(from, place))
  <1> DEFINE c == place.cursor
             m == Reached(from, place)
  <1>1. c \in Int /\ from - 1 <= c /\ c < to /\ DayLength \in Nat \ {0}
    BY ScheduleAssumption DEF PlaceTyped
  <1>2. m \in Int /\ m >= c /\ m >= from /\ (m = c \/ m = c + 1)
    BY <1>1 DEF Reached
  <1> HIDE DEF c, m
  <1>3. NoChangeIsMissed(s, c)
    BY <1>1, NextChangeIsExact
  <1>4. ASSUME NEW u \in Int, c < u, u <= x PROVE IsActive(s, u) = IsActive(s, c)
    <2>1. u \in c + 1 .. c + 8 * DayLength
      BY <1>1, <1>4
    <2>2. ~(NextStateChange(s, c) \in c + 1 .. u)
      <3>1. ~(NextStateChange(s, c) \in c + 1 .. x)
        BY DEF c
      <3>2. c + 1 .. u \subseteq c + 1 .. x
        BY <1>1, <1>4
      <3> QED BY <3>1, <3>2
    <2> QED BY <1>3, <2>1, <2>2 DEF NoChangeIsMissed
  <1>5. m <= x
    BY DEF m
  <1>6. IsActive(s, m) = IsActive(s, c)
    BY <1>1, <1>2, <1>4, <1>5
  <1>7. IsActive(s, x) = IsActive(s, c)
    <2>1. CASE x = c
      BY <2>1
    <2>2. CASE x # c
      BY <1>1, <1>2, <1>4, <1>5, <2>2
    <2> QED BY <2>1, <2>2
  <1> QED BY <1>6, <1>7 DEF m

LEMMA NextIsTyped ==
    ASSUME NEW s, RuleSchedule(s), NEW t \in Int
    PROVE  NextStateChange(s, t) \in Int \cup {None}
  <1>1. CASE s.kind = "indefinite"
    BY <1>1 DEF NextStateChange
  <1>2. CASE OneTimeSchedule(s)
    BY <1>2 DEF NextStateChange, OneTimeSchedule
  <1>3. CASE PomodoroSchedule(s)
    <2> DEFINE cycle == s.work + s.break
               begun == s.start + ((t - s.start) \div cycle) * cycle
    <2>1. s.start \in Int /\ s.work \in Int /\ cycle \in Nat \ {0} /\ s.kind = "pomodoro"
          /\ t - s.start \in Int
      BY <1>3 DEF PomodoroSchedule
    <2>2. begun \in Int
      <3> HIDE DEF cycle
      <3>1. ((t - s.start) \div cycle) * cycle \in Int
        BY <2>1, CycleIs
      <3> QED BY <2>1, <3>1
    <2>3. NextStateChange(s, t) \in {s.start, None, begun + s.work, begun + cycle}
      BY <2>1 DEF NextStateChange
    <2> HIDE DEF begun, cycle
    <2> QED BY <2>1, <2>2, <2>3
  <1>4. CASE WeeklySchedule(s)
    <2> DEFINE later == {u \in WeeklyEvents(s, t) : u > t /\ IsActive(s, u) # IsActive(s, t)}
    <2>1. NextStateChange(s, t) = Earliest(later)
      BY <1>4 DEF NextStateChange, WeeklySchedule
    <2>2. later \subseteq {u \in Int : u > t}
      BY <1>4, EventsAreInts
    <2>3. CASE later = {}
      BY <2>1, <2>3 DEF Earliest
    <2>4. CASE later # {}
      <3> HIDE DEF later
      <3>1. Earliest(later) \in later
        BY <2>2, <2>4, EarliestIs
      <3> QED BY <2>1, <2>2, <3>1
    <2> QED BY <2>3, <2>4
  <1> QED BY <1>1, <1>2, <1>3, <1>4 DEF RuleSchedule

LEMMA StepKeeps ==
    ASSUME NEW s, RuleSchedule(s), NEW from \in Int, NEW to \in Int, to <= from + 2 * DayLength,
           NEW place, PlaceInv(s, from, to, place)
    PROVE  PlaceInv(s, from, to, Step(s, from, to, place))
  <1> DEFINE change == NextStateChange(s, place.cursor)
             c == place.cursor
             m == Reached(from, place)
             next == Step(s, from, to, place)
             Place == [cursor : Int, open : Int \cup {None}, closed : SUBSET (Int \X Int),
                       over : BOOLEAN]
  <1>1. /\ PlaceTyped(from, to, place) /\ PlaceShows(s, from, place) /\ PlaceApart(place)
        /\ PlaceEnds(s, from, to, place)
    BY DEF PlaceInv
  <1>2. /\ place \in Place /\ c \in Int /\ from - 1 <= c /\ c < to
        /\ m \in Int /\ m >= c /\ m >= from /\ (m = c \/ (m = from /\ c = from - 1))
        /\ place.open \in (from .. m) \cup {None}
        /\ \A r \in place.closed : from <= r[1] /\ r[1] < r[2] /\ r[2] <= m
        /\ \A r \in place.closed : r[1] \in Int /\ r[2] \in Int
    BY <1>1 DEF PlaceTyped, Reached
  <1>3. None \notin Int
    BY ScheduleAssumption
  <1> HIDE DEF change, m, Place
  \* The walk is over, or ends here.
  <1>4. CASE place.over \/ change = None \/ change >= to
    <2>1. next = [place EXCEPT !.over = TRUE]
      BY <1>4 DEF Step, change
    <2>2. /\ next.cursor = c /\ next.open = place.open /\ next.closed = place.closed
          /\ next.over = TRUE /\ next \in Place
      BY <1>2, <2>1 DEF Place
    <2> HIDE DEF next
    <2>3. Reached(from, next) = m
      BY <2>2 DEF Reached, m
    <2>4. PlaceTyped(from, to, next) /\ PlaceShows(s, from, next) /\ PlaceApart(next)
      <3>1. PlaceTyped(from, to, next)
        BY <1>1, <2>2, <2>3 DEF PlaceTyped, Place, m
      <3>2. PlaceShows(s, from, next)
        BY <1>1, <2>2, <2>3 DEF PlaceShows, ShownAt, m
      <3>3. PlaceApart(next)
        BY <1>1, <2>2 DEF PlaceApart
      <3> QED BY <3>1, <3>2, <3>3
    <2>5. ASSUME NEW x \in m .. to - 1 PROVE IsActive(s, x) = IsActive(s, m)
      <3>1. CASE place.over
        BY <1>1, <3>1 DEF PlaceEnds, m
      <3>2. CASE change = None \/ change >= to
        <4>1. x \in Int /\ m <= x /\ x < to
          BY <1>2
        <4>2. ~(change \in c + 1 .. x)
          BY <1>2, <1>3, <3>2, <4>1
        <4> QED BY <1>1, <4>1, <4>2, SameUntilChange DEF m, change
      <3> QED BY <1>4, <3>1, <3>2
    <2>6. PlaceEnds(s, from, to, next)
      BY <2>3, <2>5 DEF PlaceEnds
    <2> QED BY <2>4, <2>6 DEF PlaceInv, next
  \* The activity changes within the day.
  <1>5. CASE ~(place.over \/ change = None \/ change >= to)
    <2>1. change \in Int /\ change < to /\ change > c /\ IsActive(s, change) # IsActive(s, c)
      <3>1. change \in Int
        BY <1>2, <1>5, NextIsTyped DEF change
      <3>2. ChangeIsReal(s, c)
        BY <1>2, NextChangeIsExact
      <3> QED BY <1>2, <1>5, <3>1, <3>2 DEF ChangeIsReal, change
    <2>2. /\ next.cursor = change /\ next.over = FALSE /\ next \in Place
          /\ next.open = IF IsActive(s, change)
                         THEN IF place.open = None THEN IF change > from THEN change ELSE from
                              ELSE place.open
                         ELSE None
          /\ next.closed = IF IsActive(s, change) \/ place.open = None THEN place.closed
                           ELSE place.closed \cup {<<place.open, change>>}
      <3>1. place.over = FALSE
        BY <1>2, <1>5 DEF Place
      <3>2. CASE IsActive(s, change)
        <4>1. next = [place EXCEPT !.cursor = change,
                        !.open = IF @ = None THEN IF change > from THEN change ELSE from ELSE @]
          BY <1>5, <3>2 DEF Step, change
        <4> HIDE DEF next
        <4> QED BY <1>2, <2>1, <3>1, <3>2, <4>1 DEF Place
      <3>3. CASE ~IsActive(s, change)
        <4>1. next = [place EXCEPT !.cursor = change, !.open = None,
                           !.closed = IF place.open = None THEN @
                                      ELSE @ \cup {<<place.open, change>>}]
          BY <1>5, <3>3 DEF Step, change
        <4>2. place.open # None => <<place.open, change>> \in Int \X Int
          BY <1>2, <2>1
        <4> HIDE DEF next
        <4> QED BY <1>2, <2>1, <3>1, <3>3, <4>1, <4>2 DEF Place
      <3> QED BY <3>2, <3>3
    <2> HIDE DEF next
    <2>3. Reached(from, next) = IF change < from THEN from ELSE change
      BY <2>2 DEF Reached
    <2>4. change >= from /\ Reached(from, next) = change
      BY <1>2, <2>1, <2>3
    <2>5. PlaceEnds(s, from, to, next)
      BY <2>2 DEF PlaceEnds
    <2>6. IsActive(s, m) <=> place.open # None
      <3>1. m \in from .. m
        BY <1>2
      <3>2. IsActive(s, m) <=> ShownAt(place, m)
        BY <1>1, <3>1 DEF PlaceShows, m
      <3>3. \A r \in place.closed : ~(m < r[2])
        BY <1>2
      <3>4. place.open # None => place.open <= m
        BY <1>2
      <3> QED BY <3>2, <3>3, <3>4 DEF ShownAt
    \* A change at the beginning of the day is in the walk already.
    <2>7. CASE change = m
      <3>1. change = from /\ (IsActive(s, change) <=> place.open # None)
        BY <1>2, <2>1, <2>6, <2>7
      <3>2. next.open = place.open /\ next.closed = place.closed
        BY <2>2, <3>1
      <3>3. PlaceTyped(from, to, next)
        BY <1>2, <2>1, <2>2, <2>4, <2>7, <3>2 DEF PlaceTyped, Place
      <3>4. PlaceShows(s, from, next)
        BY <1>1, <2>4, <2>7, <3>2 DEF PlaceShows, ShownAt, m
      <3>5. PlaceApart(next)
        BY <1>1, <3>2 DEF PlaceApart
      <3> QED BY <2>5, <3>3, <3>4, <3>5 DEF PlaceInv, next
    <2>8. CASE change # m
      <3>1. change > m
        BY <1>2, <2>1, <2>8
      <3>2. ASSUME NEW x \in Int, m <= x, x < change
            PROVE  IsActive(s, x) <=> place.open # None
        <4>1. ~(change \in c + 1 .. x) /\ x < to
          BY <1>2, <2>1, <3>2
        <4>2. IsActive(s, x) = IsActive(s, m)
          BY <1>1, <3>2, <4>1, SameUntilChange DEF m, change
        <4> QED BY <2>6, <4>2
      <3>3. IsActive(s, change) <=> place.open = None
        <4>1. CASE m = c
          BY <2>1, <2>6, <4>1, IsActiveIsBoolean
        <4>2. CASE m = from /\ c = from - 1
          <5>1. from \in c + 1 .. c + 8 * DayLength
            BY <1>2, <4>2, ScheduleAssumption
          <5>2. ~(change \in c + 1 .. from)
            BY <1>2, <2>1, <3>1, <4>2
          <5>3. IsActive(s, from) = IsActive(s, c)
            BY <1>2, <5>1, <5>2, NextChangeIsExact DEF NoChangeIsMissed, change
          <5> QED BY <2>1, <2>6, <4>2, <5>3, IsActiveIsBoolean
        <4> QED BY <1>2, <4>1, <4>2
      <3>4. CASE IsActive(s, change)
        <4>1. place.open = None /\ next.open = change /\ next.closed = place.closed
          BY <1>2, <2>1, <2>2, <3>1, <3>3, <3>4
        <4>2. PlaceTyped(from, to, next)
          BY <1>2, <2>1, <2>2, <2>4, <3>1, <4>1 DEF PlaceTyped, Place
        <4>3. ASSUME NEW x \in from .. change PROVE IsActive(s, x) <=> ShownAt(next, x)
          <5>1. CASE x <= m
            <6>1. IsActive(s, x) <=> ShownAt(place, x)
              BY <1>1, <1>2, <2>1, <5>1 DEF PlaceShows, m
            <6>2. ~(change <= x) /\ change # None
              BY <1>2, <1>3, <2>1, <3>1, <5>1
            <6> QED BY <4>1, <6>1, <6>2 DEF ShownAt
          <5>2. CASE m < x /\ x < change
            <6>1. ~IsActive(s, x)
              BY <1>2, <2>1, <3>2, <4>1, <5>2
            <6>2. ~(change <= x) /\ \A r \in place.closed : ~(x < r[2])
              BY <1>2, <2>1, <5>2
            <6> QED BY <4>1, <6>1, <6>2 DEF ShownAt
          <5>3. CASE x = change
            BY <1>3, <2>1, <3>4, <4>1, <5>3 DEF ShownAt
          <5> QED BY <1>2, <2>1, <5>1, <5>2, <5>3
        <4>4. PlaceShows(s, from, next)
          BY <2>4, <4>3 DEF PlaceShows
        <4>5. PlaceApart(next)
          <5>1. \A r \in place.closed : r[2] < change
            BY <1>2, <2>1, <3>1
          <5> QED BY <1>1, <4>1, <5>1 DEF PlaceApart
        <4> QED BY <2>5, <4>2, <4>4, <4>5 DEF PlaceInv, next
      <3>5. CASE ~IsActive(s, change)
        <4>1. /\ place.open # None /\ place.open \in Int /\ from <= place.open /\ place.open <= m
              /\ next.open = None /\ next.closed = place.closed \cup {<<place.open, change>>}
          BY <1>2, <2>2, <3>3, <3>5
        <4>2. PlaceTyped(from, to, next)
          BY <1>2, <2>1, <2>2, <2>4, <3>1, <4>1 DEF PlaceTyped, Place
        <4>3. ASSUME NEW x \in from .. change PROVE IsActive(s, x) <=> ShownAt(next, x)
          <5>1. ShownAt(next, x) <=> \/ \E r \in place.closed : r[1] <= x /\ x < r[2]
                                     \/ place.open <= x /\ x < change
            <6> DEFINE new == <<place.open, change>>
            <6>1. new[1] = place.open /\ new[2] = change
              OBVIOUS
            <6>2. next.closed = place.closed \cup {new} /\ next.open = None
              BY <4>1
            <6> HIDE DEF new
            <6> QED BY <6>1, <6>2 DEF ShownAt
          <5>2. CASE x <= m
            <6>1. IsActive(s, x) <=> ShownAt(place, x)
              BY <1>1, <1>2, <2>1, <5>2 DEF PlaceShows, m
            <6>2. x < change
              BY <1>2, <2>1, <3>1, <5>2
            <6> QED BY <4>1, <5>1, <6>1, <6>2 DEF ShownAt
          <5>3. CASE m < x /\ x < change
            <6>1. IsActive(s, x)
              BY <1>2, <2>1, <3>2, <4>1, <5>3
            <6>2. place.open <= x
              BY <1>2, <4>1, <5>3
            <6> QED BY <5>3, <5>1, <6>1, <6>2
          <5>4. CASE x = change
            <6>1. (\A r \in place.closed : ~(x < r[2])) /\ ~(x < change)
              BY <1>2, <2>1, <3>1, <5>4
            <6> QED BY <3>5, <5>4, <5>1, <6>1
          <5> QED BY <1>2, <2>1, <5>2, <5>3, <5>4
        <4>4. PlaceShows(s, from, next)
          BY <2>4, <4>3 DEF PlaceShows
        <4>5. PlaceApart(next)
          <5>1. \A r \in place.closed : r[2] < place.open
            BY <1>1, <4>1 DEF PlaceApart
          <5> QED BY <1>1, <4>1, <5>1 DEF PlaceApart
        <4> QED BY <2>5, <4>2, <4>4, <4>5 DEF PlaceInv, next
      <3> QED BY <3>4, <3>5
    <2> QED BY <2>7, <2>8
  <1> QED BY <1>4, <1>5

LEMMA WalkKeeps ==
    ASSUME NEW s, RuleSchedule(s), NEW from \in Int, NEW to \in Int,
           from < to, to <= from + 2 * DayLength
    PROVE  PlaceInv(s, from, to, WalkEnd(s, from, to))
  <1>1. Transitions \in Nat
    BY ScheduleAssumption
  <1>2. PICK walk : /\ walk = [m \in 0 .. Transitions |->
                          IF m = 0 THEN WalkStart(s, from) ELSE Step(s, from, to, walk[m - 1])]
                    /\ WalkEnd(s, from, to) = walk[Transitions]
    BY WalkEndIs
  <1> DEFINE bad == {m \in 0 .. Transitions : ~PlaceInv(s, from, to, walk[m])}
  <1>3. bad = {}
    <2> SUFFICES ASSUME bad # {} PROVE FALSE
      OBVIOUS
    <2>1. bad \subseteq Nat
      BY <1>1
    <2>2. PICK m \in bad : \A j \in bad : m <= j
      BY <2>1, LeastOfNaturals
    <2>3. m \in 0 .. Transitions /\ ~PlaceInv(s, from, to, walk[m])
      BY <2>2
    <2>4. CASE m = 0
      <3>1. walk[m] = WalkStart(s, from)
        BY <1>2, <2>3, <2>4
      <3> QED BY <2>3, <3>1, WalkBegins
    <2>5. CASE m # 0
      <3>1. m - 1 \in 0 .. Transitions /\ ~(m <= m - 1)
        BY <1>1, <2>3, <2>5
      <3>2. PlaceInv(s, from, to, walk[m - 1])
        BY <2>2, <3>1
      <3>3. walk[m] = Step(s, from, to, walk[m - 1])
        BY <1>2, <2>3, <2>5
      <3> QED BY <2>3, <3>2, <3>3, StepKeeps
    <2> QED BY <2>4, <2>5
  <1>4. Transitions \in 0 .. Transitions
    BY <1>1
  <1> QED BY <1>2, <1>3, <1>4

\* A day is no longer than two, and an instant is of the day of its date.
LEMMA DayStartIs ==
    ASSUME NEW zone \in Zone, ChangesByADay(zone), NEW date \in Int
    PROVE  /\ DayStart(zone, date) \in Int /\ DayStart(zone, date + 1) \in Int
           /\ DayStart(zone, date + 1) <= DayStart(zone, date) + 2 * DayLength
  <1>1. DayLength \in Nat \ {0}
    BY ScheduleAssumption
  <1> DEFINE x == date * DayLength
             y == (date + 1) * DayLength
  <1>2. x \in Int /\ y \in Int /\ y = x + DayLength
    BY <1>1
  <1> HIDE DEF x, y
  <1>3. zone.before \in Int /\ zone.after \in Int /\ zone.shift \in Int
        /\ zone.after - zone.before <= DayLength /\ zone.before - zone.after <= DayLength
    BY <1>1 DEF Zone, ChangesByADay
  <1>4. Utc(zone, x, 0) \in {x - zone.before, x - zone.after}
        /\ Utc(zone, y, 0) \in {y - zone.before, y - zone.after}
    BY DEF Utc
  <1>5. DayStart(zone, date) = Utc(zone, x, 0) /\ DayStart(zone, date + 1) = Utc(zone, y, 0)
    BY DEF DayStart, x, y
  <1> QED BY <1>1, <1>2, <1>3, <1>4, <1>5

LEMMA InItsDay ==
    ASSUME NEW zone \in Zone, KeepsMidnight(zone), NEW t \in Int
    PROVE  /\ DayStart(zone, Date(Local(zone, t))) <= t
           /\ t < DayStart(zone, Date(Local(zone, t)) + 1)
  <1> DEFINE local == Local(zone, t)
             d == Date(local)
             x == d * DayLength
             y == (d + 1) * DayLength
             p == zone.shift + zone.before
             q == zone.shift + zone.after
  <1>1. DayLength \in Nat /\ DayLength > 0
    BY ScheduleAssumption
  <1>2. /\ zone.before \in Int /\ zone.after \in Int /\ zone.shift \in Int
        /\ local \in Int /\ p \in Int /\ q \in Int
    BY LocalIsInt
  <1>3. local = t + (IF t < zone.shift THEN zone.before ELSE zone.after)
    BY DEF Local, Offset
  <1> HIDE DEF local
  <1>4. d \in Int /\ x \in Int /\ x <= local /\ local < x + DayLength
    BY <1>2, DateIs
  <1> HIDE DEF d
  <1>5. y = x + DayLength /\ y \in Int
    BY <1>1, <1>4
  \* Neither midnight is strictly between the local times that a transition joins.
  <1>6. ASSUME NEW e \in Int, NEW v \in Int, v = e * DayLength
        PROVE  ~(p < v /\ v < q) /\ ~(q < v /\ v < p)
    <2>1. Date(p - 1) <= Date(q) /\ Date(q - 1) <= Date(p)
      BY DEF KeepsMidnight
    <2>2. ASSUME NEW a \in Int, NEW b \in Int, a < v, v < b, Date(b - 1) <= Date(a)
          PROVE  FALSE
      <3>1. Date(a) \in Int /\ Date(a) * DayLength \in Int /\ Date(a) * DayLength <= a
            /\ Date(b - 1) \in Int /\ Date(b - 1) * DayLength \in Int
            /\ b - 1 < Date(b - 1) * DayLength + DayLength
        BY <2>2, DateIs
      <3> DEFINE i == Date(a)
                 j == Date(b - 1)
      <3>2. i \in Int /\ j \in Int /\ i * DayLength \in Int /\ j * DayLength \in Int
            /\ i * DayLength <= a /\ b - 1 < j * DayLength + DayLength /\ j <= i
        BY <2>2, <3>1
      <3> HIDE DEF i, j
      <3>3. i < e
        <4>1. e < i => v + DayLength <= i * DayLength
          BY <1>1, <1>6, <3>2, MultiplesApart
        <4>2. e = i => v = i * DayLength
          BY <1>6
        <4> HIDE DEF p, q
        <4> QED BY <1>1, <1>6, <2>2, <3>2, <4>1, <4>2
      <3>4. j < e
        BY <1>6, <3>2, <3>3
      <3>5. j * DayLength + DayLength <= v
        BY <1>1, <1>6, <3>2, <3>4, MultiplesApart
      <3> QED BY <1>1, <1>6, <2>2, <3>2, <3>5
    <2> HIDE DEF p, q
    <2> QED BY <1>2, <2>1, <2>2
  <1>7. d + 1 \in Int
    BY <1>4
  <1>8. ~(p < x /\ x < q) /\ ~(q < x /\ x < p) /\ ~(p < y /\ y < q) /\ ~(q < y /\ y < p)
    <2> HIDE DEF p, q
    <2>1. ~(p < x /\ x < q) /\ ~(q < x /\ x < p)
      BY <1>4, <1>6
    <2>2. ~(p < y /\ y < q) /\ ~(q < y /\ y < p)
      BY <1>5, <1>6, <1>7
    <2> QED BY <2>1, <2>2
  <1>9. DayStart(zone, d) = Utc(zone, x, 0) /\ DayStart(zone, d + 1) = Utc(zone, y, 0)
    BY DEF DayStart
  <1> HIDE DEF x, y
  <1>10. Utc(zone, x, 0) <= t
    BY <1>2, <1>3, <1>4, <1>8 DEF Utc
  <1>11. t < Utc(zone, y, 0)
    BY <1>1, <1>2, <1>3, <1>4, <1>5, <1>8 DEF Utc
  <1> QED BY <1>9, <1>10, <1>11 DEF d, local

\* The overview of a day [from, to) shows exactly the time in which the rule is enforced,
\* in intervals that do not touch, when the walk through the day came to its end.
THEOREM DayIsExact ==
    ASSUME NEW s, RuleSchedule(s), NEW zone \in Zone, ChangesByADay(zone), NEW date \in Int,
           WalkEnd(s, DayStart(zone, date), DayStart(zone, date + 1)).over
    PROVE  LET shown == DailyIntervals(s, date, zone, FALSE)
           IN  /\ \A t \in DayStart(zone, date) .. DayStart(zone, date + 1) - 1 :
                      IsActive(s, t) <=> \E r \in shown : r[1] <= t /\ t < r[2]
               /\ DayStart(zone, date) < DayStart(zone, date + 1) =>
                      \A r, q \in shown : r # q => r[2] < q[1] \/ q[2] < r[1]
  <1> DEFINE from == DayStart(zone, date)
             to == DayStart(zone, date + 1)
             last == WalkEnd(s, from, to)
             shown == DailyIntervals(s, date, zone, FALSE)
             m == Reached(from, last)
             tail == <<last.open, to>>
  <1>1. from \in Int /\ to \in Int /\ to <= from + 2 * DayLength
    BY DayStartIs
  <1>2. shown = IF last.open = None THEN last.closed ELSE last.closed \cup {tail}
    BY DEF DailyIntervals
  <1>3. tail[1] = last.open /\ tail[2] = to
    OBVIOUS
  <1>4. last.over
    OBVIOUS
  <1> HIDE DEF from, to, last, shown, tail
  <1>5. ASSUME from < to PROVE PlaceInv(s, from, to, last)
    BY <1>1, <1>5, WalkKeeps DEF last
  <1>6. ASSUME from < to
        PROVE  /\ last.open \in (from .. m) \cup {None} /\ m \in Int /\ from <= m /\ m < to
               /\ \A r \in last.closed : r[1] \in Int /\ r[2] \in Int /\ r[1] < r[2] /\ r[2] <= m
               /\ PlaceShows(s, from, last) /\ PlaceApart(last)
               /\ PlaceEnds(s, from, to, last)
    BY <1>1, <1>5, <1>6 DEF PlaceInv, PlaceTyped, Reached
  <1> HIDE DEF m
  <1>7. None \notin Int
    BY ScheduleAssumption
  <1>8. ASSUME NEW t \in from .. to - 1
        PROVE  IsActive(s, t) <=> \E r \in shown : r[1] <= t /\ t < r[2]
    <2>1. from < to /\ t \in Int /\ from <= t /\ t < to
      BY <1>1
    <2>2. (\E r \in shown : r[1] <= t /\ t < r[2]) <=> ShownAt(last, t)
      BY <1>2, <1>3, <2>1 DEF ShownAt
    <2>3. CASE t <= m
      BY <1>6, <2>1, <2>2, <2>3 DEF PlaceShows, m
    <2>4. CASE m < t
      <3>1. IsActive(s, t) = IsActive(s, m)
        BY <1>4, <1>6, <2>1, <2>4 DEF PlaceEnds, m
      <3>2. IsActive(s, m) <=> ShownAt(last, m)
        BY <1>6, <2>1 DEF PlaceShows, m
      <3>3. \A r \in last.closed : ~(m < r[2]) /\ ~(t < r[2])
        BY <1>6, <2>1, <2>4
      <3>4. last.open # None => last.open <= m /\ last.open <= t
        BY <1>6, <2>1, <2>4
      <3>5. ShownAt(last, m) <=> ShownAt(last, t)
        BY <3>3, <3>4 DEF ShownAt
      <3> QED BY <2>2, <3>1, <3>2, <3>5
    <2> QED BY <1>6, <2>1, <2>3, <2>4
  <1>9. ASSUME from < to, NEW r \in shown, NEW q \in shown, r # q
        PROVE  r[2] < q[1] \/ q[2] < r[1]
    BY <1>2, <1>3, <1>6, <1>9 DEF PlaceApart
  <1> QED BY <1>8, <1>9 DEF from, to, shown

LEMMA ViewsAgreeAt ==
    ASSUME WalksEnd, NEW t \in ViewInstants
    PROVE  Agrees[t]
  <1>1. DayLength \in Nat \ {0} /\ LastView \in Nat /\ t \in Int /\ 0 <= t /\ t <= LastView
    BY ScheduleAssumption DEF ViewInstants
  <1>2. ASSUME NEW s \in RuleSchedules PROVE NextChangeIsFirst(s, t)
    BY <1>1, <1>2, ViewAssumption, NextChangeIsExact DEF NextChangeIsFirst
  <1>3. ASSUME NEW s \in RuleSchedules, NEW zone \in Zones PROVE DayShowsActivity(s, zone, t)
    <2> DEFINE local == Local(zone, t)
               date == Date(local)
               from == DayStart(zone, date)
               to == DayStart(zone, date + 1)
               shown == DailyIntervals(s, date, zone, FALSE)
    <2>1. /\ zone \in Zone /\ ChangesByADay(zone) /\ KeepsMidnight(zone) /\ RuleSchedule(s)
          /\ zone.before \in -DayLength .. DayLength /\ zone.after \in -DayLength .. DayLength
      BY <1>3, ViewAssumption DEF ViewerZone
    <2>2. local \in Int /\ -DayLength <= local /\ local <= LastView + DayLength
      BY <1>1, <2>1 DEF Local, Offset, Zone
    <2> HIDE DEF local
    <2>3. date \in ViewDates /\ date \in Int
      <3>1. date \in Int /\ date >= -1
        BY <1>1, <2>2 DEF Date
      <3>2. date <= LastView \div DayLength + 1
        <4> DEFINE j == LastView \div DayLength
        <4>1. j \in Int /\ j * DayLength \in Int /\ LastView < j * DayLength + DayLength
          BY <1>1, DateIs DEF Date
        <4>2. date * DayLength <= local /\ date * DayLength \in Int
          BY <2>2, DateIs
        <4> HIDE DEF j, date
        <4>3. j + 1 < date => (j + 1) * DayLength + DayLength <= date * DayLength
          BY <1>1, <3>1, <4>1, MultiplesApart
        <4>4. (j + 1) * DayLength = j * DayLength + DayLength
          BY <1>1, <4>1
        <4> QED BY <1>1, <2>2, <3>1, <4>1, <4>2, <4>3, <4>4 DEF j
      <3> QED BY <1>1, <3>1, <3>2 DEF ViewDates
    <2>4. from <= t /\ t < to /\ from \in Int /\ to \in Int
      BY <1>1, <2>1, <2>3, InItsDay, DayStartIs DEF local
    <2>5. WalkEnd(s, from, to).over
      BY <1>3, <2>3 DEF WalksEnd
    <2>6. /\ IsActive(s, t) <=> \E r \in shown : r[1] <= t /\ t < r[2]
          /\ \A r, q \in shown : r # q => r[2] < q[1] \/ q[2] < r[1]
      <3>1. t \in from .. to - 1 /\ from < to
        BY <1>1, <2>4
      <3> HIDE DEF date
      <3> QED BY <2>1, <2>3, <2>5, <3>1, DayIsExact
    <2>7. Days[s][zone][date] = shown
      <3> HIDE DEF date
      <3> QED BY <1>3, <2>3 DEF Days
    <2> QED BY <2>6, <2>7 DEF DayShowsActivity, local
  <1> QED BY <1>2, <1>3 DEF Agrees

\* What a user is shown of a rule, now or for a time to come, is what is enforced: the
\* next change and the overview of every day, for all schedules and for all zones that
\* change their offset by no more than a day and not across midnight, as long as the
\* walks through the days end.  (In a day of 25 hours they may not: schedule_view.py
\* allows for two changes of a row in a day, and a row of the hour that comes twice has
\* four.)
THEOREM ViewsAgreeAlways == ASSUME WalksEnd PROVE Spec => []ViewsAgree
  <1>1. Init => OnceInv
    BY ActionsAssumption DEF Init, OnceInv, Instants, LookInv, RanBefore
  <1>2. OnceInv /\ [Next]_vars => OnceInv'
    BY StepOnce, OnceUnchanged DEF vars
  <1>3. OnceInv => ViewsAgree
    <2> SUFFICES ASSUME OnceInv, NEW t \in now .. LastView PROVE Agrees[t]
      BY DEF ViewsAgree
    <2>1. t \in ViewInstants
      BY ActionsAssumption, ScheduleAssumption DEF OnceInv, Instants, ViewInstants
    <2> QED BY <2>1, ViewsAgreeAt
  <1> QED BY <1>1, <1>2, <1>3, PTL DEF Spec

=============================================================================
