---------------------------- MODULE TrustedClock ----------------------------
(***************************************************************************)
(* The service's clock: UTC derived from the time since boot, the wall     *)
(* clock it is compared with at every look, the latch that a jump of the   *)
(* wall clock sets, and the high-water time, both persisted with the       *)
(* policy.  A process takes its base from the wall clock when it starts,   *)
(* or, when the system time is not synchronized then, once it is.          *)
(***************************************************************************)
EXTENDS Integers

CONSTANTS
    Tolerance,          \* by how much the wall clock may differ
    CheckpointPeriod,   \* the 60 seconds between checkpoints
    LockTime,           \* the length of a timed lock
    Outcomes,           \* what happens to a write, see WriteOutcomes
    WallValues,         \* to what the wall clock may be set
    MaxTime, MaxWall    \* bounds on the time since boot and on the first wall clock

WriteOutcomes == {"saved", "failed"}

ASSUME ClockAssumption ==
    /\ Tolerance \in Nat /\ CheckpointPeriod \in Nat /\ LockTime \in Nat
    /\ MaxTime \in Nat /\ MaxWall \in Nat
    /\ Outcomes \subseteq WriteOutcomes /\ WallValues \subseteq Nat

VARIABLES
    boot, wall, synced,    \* CLOCK_BOOTTIME, time.time and the synchronizer
    clock,                 \* the TrustedClock of the process
    disk,                  \* high_water_utc and clock_untrusted of the signed policy
    up,
    lastTrusted, checkpointed,   \* the service's _last_clock_trusted, _last_checkpoint
    lock,                  \* a timed lock set in this process, see SetLock
    detected               \* history: a jump was detected and latched, root has not cleared it

clockVars == <<boot, wall, synced, clock, disk, up, lastTrusted, checkpointed, lock, detected>>
worldVars == <<boot, wall, synced>>
serviceVars == <<lastTrusted, checkpointed>>

Clock == [base : Nat, baseBoot : Nat,   \* the wall clock and boot time it counts from
          last : Nat,                   \* the time it last gave
          high : Nat,                   \* the high-water time, 0 when there is none
          trusted : BOOLEAN,
          waiting : BOOLEAN]            \* for the first synchronization
NoLock == [until |-> 0, due |-> 0]
NoClock == [base |-> 0, baseBoot |-> 0, last |-> 0, high |-> 0, trusted |-> FALSE, waiting |-> FALSE]

ClockTypeOK ==
    /\ boot \in Nat /\ wall \in Nat /\ synced \in BOOLEAN
    /\ clock \in Clock
    /\ disk \in [high : Nat, latch : BOOLEAN]
    /\ up \in BOOLEAN
    /\ lastTrusted \in BOOLEAN /\ checkpointed \in Nat
    /\ lock \in [until : Nat, due : Nat]
    /\ detected \in BOOLEAN

Later(s, t) == IF s >= t THEN s ELSE t
Close(s, t) == s - t <= Tolerance /\ t - s <= Tolerance

-----------------------------------------------------------------------------
(* The clock, as functions of what it reads. *)

\* Mutant: a latched clock waits for synchronization like any other.
NewClockWaiting ==
    [base |-> wall, baseBoot |-> boot, last |-> Later(wall, disk.high), high |-> disk.high,
     trusted |-> ~disk.latch /\ synced,
     waiting |-> ~synced]

\* __init__: a clock that was latched stays so; one that is not synchronized is
\* not trusted until it is.
NewClock ==
    [base |-> wall, baseBoot |-> boot, last |-> Later(wall, disk.high), high |-> disk.high,
     trusted |-> ~disk.latch /\ synced,
     waiting |-> ~disk.latch /\ ~synced]

\* Mutant: the time is the wall clock's.
WallTime(c) == wall

Elapsed(c) == c.base + (boot - c.baseBoot)

\* now() of a clock that counts from its base.
Count(c) ==
    LET forward == Later(c.last, Elapsed(c))
        last    == Later(forward, c.high)
    IN  [c EXCEPT !.last = last,
                  !.trusted = /\ c.trusted
                              /\ Close(wall, Elapsed(c))
                              /\ last = Elapsed(c)]

\* The first synchronization is accepted unless it is before the saved time.
Accepts(c) == c.waiting /\ synced /\ wall + Tolerance >= c.high

\* The clock that now() works with: a waiting one follows its first reading
\* until it accepts the synchronized time as its base.
Rebased(c) ==
    IF ~c.waiting THEN c
    ELSE IF Accepts(c) THEN [c EXCEPT !.base = wall, !.baseBoot = boot, !.last = wall,
                                      !.trusted = TRUE, !.waiting = FALSE]
    ELSE [c EXCEPT !.last = Later(c.last, Elapsed(c)), !.waiting = ~synced]

\* now(), and what it detects: a trusted clock that is not trusted any more
\* saves the time as its high-water time.
Look(c) ==
    IF c.waiting /\ ~Accepts(c) THEN Rebased(c)
    ELSE LET d == Count(Rebased(c))
         IN  IF Rebased(c).trusted /\ ~d.trusted
             THEN [d EXCEPT !.high = Later(d.high, d.last)]
             ELSE d

Detects(c) == (c.trusted \/ Accepts(c)) /\ ~Look(c).trusted

-----------------------------------------------------------------------------
(* The service's use of it. *)

\* The writes of a look: the latch, if it is set now.
Written(out) ==
    IF Detects(clock) /\ out = "saved" THEN [high |-> Look(clock).high, latch |-> TRUE] ELSE disk

\* The process ends, and its memory is gone.
ProcessEnds ==
    /\ up' = FALSE
    /\ clock' = NoClock
    /\ lastTrusted' = FALSE /\ checkpointed' = 0
    /\ lock' = NoLock
    /\ UNCHANGED <<worldVars, disk, detected>>

\* Any handler, and any step of tick, that asks for the time.  When the write
\* fails a handler answers with an error and goes on; tick ends the process.
LookAtClock(out) ==
    /\ up
    /\ out \in Outcomes
    /\ clock' = Look(clock)
    /\ disk' = Written(out)
    /\ detected' = (detected \/ (Detects(clock) /\ out = "saved"))
    /\ UNCHANGED <<worldVars, up, serviceVars, lock>>

\* _save: the policy is persisted with the time and the latch of that moment.
\* With `lock' the save is that of a timed lock, which needs a trusted clock.
SavePolicy(setLock) ==
    /\ up
    /\ clock' = Look(clock)
    /\ disk' = [high |-> Look(clock).last, latch |-> ~Look(clock).trusted]
    /\ detected' = (detected \/ Detects(clock))
    /\ setLock => Look(clock).trusted
    /\ lock' = IF setLock
               THEN [until |-> Look(clock).last + LockTime, due |-> boot + LockTime]
               ELSE lock
    /\ UNCHANGED <<worldVars, up, serviceVars>>

\* Mutant: the loss of trust waits for the next periodic checkpoint.
CheckpointByPeriodOnly == boot - checkpointed >= CheckpointPeriod

\* The end of tick: a checkpoint each period and when trust was lost since the
\* last tick.
CheckpointDue == (lastTrusted /\ ~clock.trusted) \/ boot - checkpointed >= CheckpointPeriod

Tick ==
    LET now  == Look(clock)
        high == Later(now.high, now.last)
    IN  /\ up
        /\ IF CheckpointDue
           THEN /\ clock' = [now EXCEPT !.high = high]
                /\ disk' = [high |-> high, latch |-> ~now.trusted]
                /\ checkpointed' = boot
                /\ detected' = (detected \/ Detects(clock))
           ELSE UNCHANGED <<clock, disk, checkpointed, detected>>
        /\ lastTrusted' = clock.trusted
        /\ UNCHANGED <<worldVars, up, lock>>

\* clear_latch, by root: the wall clock must agree with the elapsed time and
\* with the saved time.
ClearLatch(out) ==
    /\ up
    /\ out \in Outcomes
    /\ synced
    /\ Close(wall, Elapsed(clock))
    /\ wall + Tolerance >= clock.high
    /\ LET last == Later(Elapsed(clock), clock.high)
       IN  /\ clock' = [clock EXCEPT !.trusted = TRUE, !.waiting = FALSE, !.last = last]
           /\ disk' = IF out = "saved" THEN [high |-> last, latch |-> FALSE] ELSE disk
    /\ detected' = FALSE
    /\ UNCHANGED <<worldVars, up, serviceVars, lock>>

\* At any time; also the end of a tick whose write fails.
ServiceCrashes == up /\ ProcessEnds

\* A new process; its service has seen a trusted clock so far.
ServiceStarts ==
    /\ ~up
    /\ up' = TRUE
    /\ clock' = NewClock
    /\ lastTrusted' = clock'.trusted
    /\ checkpointed' = boot
    /\ lock' = NoLock
    /\ UNCHANGED <<worldVars, disk, detected>>

\* Time passes on both clocks; the user or the system sets the wall clock; the
\* synchronization of system time comes and goes.
Elapse ==
    /\ boot < MaxTime
    /\ boot' = boot + 1
    /\ wall' = wall + 1
    /\ UNCHANGED <<synced, clock, disk, up, serviceVars, lock, detected>>

SetWall(w) ==
    /\ wall' = w
    /\ UNCHANGED <<boot, synced, clock, disk, up, serviceVars, lock, detected>>

Synchronize(s) ==
    /\ synced' = s
    /\ UNCHANGED <<boot, wall, clock, disk, up, serviceVars, lock, detected>>

-----------------------------------------------------------------------------
ClockInit ==
    /\ boot = 0
    /\ wall \in 1 .. MaxWall
    /\ synced \in BOOLEAN
    /\ disk = [high |-> 0, latch |-> FALSE]
    /\ up = TRUE
    /\ clock = NewClock
    /\ lastTrusted = clock.trusted
    /\ checkpointed = 0
    /\ lock = NoLock
    /\ detected = FALSE

ServiceSteps ==
    \/ \E out \in WriteOutcomes : LookAtClock(out) \/ ClearLatch(out)
    \/ Tick
    \/ \E setLock \in BOOLEAN : SavePolicy(setLock)
    \/ ServiceStarts

World ==
    \/ Elapse
    \/ \E w \in WallValues : SetWall(w)
    \/ \E s \in BOOLEAN : Synchronize(s)
    \/ ServiceCrashes

ClockNext == ServiceSteps \/ World

\* The loop of serve_forever runs tick, which looks at the clock, and systemd
\* starts the process again.
Fairness ==
    /\ WF_clockVars(LookAtClock("saved"))
    /\ WF_clockVars(Tick)
    /\ WF_clockVars(ServiceStarts)

ClockSpec == ClockInit /\ [][ClockNext]_clockVars /\ Fairness

-----------------------------------------------------------------------------
(* Properties. *)

\* A jump that was detected and saved keeps the clock untrusted until root
\* clears the latch, through crashes, restarts and synchronizations.
LatchSurvives == up /\ detected => ~clock.trusted

\* Within a process the time never goes back, whatever happens to the wall
\* clock; only the first synchronization may correct it.
TimeNeverGoesBack ==
    [][up /\ up' /\ ~(clock.waiting /\ ~clock'.waiting) => clock'.last >= clock.last]_clockVars

\* A timed lock lasts its time on the boot clock: the process's clock does not
\* show the end of the lock before that time has passed, whatever happens to
\* the wall clock and to its trust.
LocksLast == up /\ lock # NoLock /\ clock.last >= lock.until => boot >= lock.due

\* Trust that was lost since the last tick is persisted as the latch by the next
\* one, even when a handler has met it first and its write has failed; unless the
\* process ends or root restores the trust first.
LostTrustIsSaved ==
    (up /\ lastTrusted /\ ~clock.trusted) ~> (disk.latch \/ clock.trusted \/ ~up)

\* A clock that was only not synchronized is trusted in the end when the system
\* time stays synchronized and nobody sets it.
RecoversAfterSync == <>[](up /\ synced) => <>[](clock.trusted)
=============================================================================
