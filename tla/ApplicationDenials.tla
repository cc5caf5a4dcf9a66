------------------------- MODULE ApplicationDenials -------------------------
(***************************************************************************)
(* Blocked applications.  A thread of the service answers the kernel each  *)
(* time a program is executed on a watched mount, and puts the denials in  *)
(* a bounded buffer.  The main thread replaces the set of blocked paths,   *)
(* and in each tick takes the denials out, merges them into the statistics *)
(* and saves these from time to time.                                      *)
(*                                                                         *)
(* The kernel holds a program back until it is answered.  When the service *)
(* goes, the kernel lets go of all of them, and watches nothing.           *)
(***************************************************************************)
EXTENDS FiniteSetsExt, SequencesExt, Integers

CONSTANTS
    Paths, Mounts,
    MountOf,       \* the mount that covers each path
    OwnMounts,     \* the mounts of the programs that the service itself runs
    MaxQueue,      \* MAX_QUEUE_SIZE: denials that the buffer holds
    MaxRows,       \* MAX_PATHS: rows of the statistics
    Nobody,        \* the listener has no program in hand
    MaxExecs, MaxEdits,
    MaxTrouble     \* bound on failures and restarts

\* A program in the listener's hand, and how far the listener is with it.
Hand == [path : Paths, at : {"deny", "allow", "record", "drop"}]

ASSUME ApplicationAssumption ==
    /\ Nobody \notin Hand
    /\ IsFiniteSet(Paths) /\ MountOf \in [Paths -> Mounts] /\ OwnMounts \subseteq Mounts
    /\ MaxQueue \in Nat \ {0} /\ MaxRows \in Nat \ {0}
    /\ MaxExecs \in Nat /\ MaxEdits \in Nat /\ MaxTrouble \in Nat

VARIABLES
    wanted,       \* the paths that the active rules block
    appUp,        \* the service runs and its fanotify group is open
    healthy, listening,
    marks,        \* _mounts: the mounts that the kernel watches
    blocked,      \* _blocked
    waiting,      \* programs that the kernel holds back, with a file of theirs
    held,         \* programs whose file is closed: only the group's end frees them
    hand,         \* the program that the listener has in hand
    buffer, dropped,
    pass,         \* where the main thread is
    taken,        \* the denials it took out of the buffer
    closing,      \* close() is under way
    stats,        \* _statistics
    appDisk,      \* statistics.json
    dirty, recent,
    freed,        \* history: waiting programs whose path was not blocked at some time
    slipped,      \* history: a program ran that was blocked all the time
    expected,     \* history: denials of each path that the statistics are to show
    overflown,    \* history: denials for which there was no room in the buffer
    execs, appEdits, troubles

kernel == <<marks, waiting, held>>
listener == <<listening, hand>>
queued == <<buffer, dropped>>
memory == <<stats, dirty, recent>>
appBounds == <<execs, appEdits, troubles>>
appVars == <<wanted, appUp, healthy, listening, marks, blocked, waiting, held, hand, buffer,
             dropped, pass, taken, closing, stats, appDisk, dirty, recent, freed, slipped, expected,
             overflown, execs, appEdits, troubles>>

Trouble == troubles < MaxTrouble /\ troubles' = troubles + 1

-----------------------------------------------------------------------------
(* Statistics: a count for each path that has a row, the paths in the order   *)
(* of their last denial, and a count of drops.                                *)

PathCounts == [Paths -> Nat]
NoCounts == [p \in Paths |-> 0]
Statistics == [count : PathCounts, order : Seq(Paths), dropped : Nat]
NoStatistics == [count |-> NoCounts, order |-> <<>>, dropped |-> 0]

\* The listener has answered, and not put the denial in the buffer yet.
InHand(p) == hand # Nobody /\ hand.at \in {"record", "drop"} /\ hand.path = p
HandCounts == [p \in Paths |-> IF InHand(p) THEN 1 ELSE 0]

Times(p, seq) == Cardinality({i \in DOMAIN seq : seq[i] = p})

\* The row of the oldest denial makes room for a new one.
Evicted(s, path) ==
    {p \in Paths \ {path} : /\ path \notin ToSet(s.order) /\ Len(s.order) >= MaxRows
                            /\ p = Head(s.order)}

\* StatisticsState.record
Recorded(s, path) ==
    LET gone == Evicted(s, path)
    IN  [s EXCEPT !.count = [p \in Paths |-> IF p = path THEN @[p] + 1
                                             ELSE IF p \in gone THEN 0 ELSE @[p]],
                  !.order = Append(SelectSeq(@, LAMBDA p : p # path /\ p \notin gone), path)]

-----------------------------------------------------------------------------
AppInit ==
    /\ wanted = {} /\ appUp = TRUE /\ healthy = TRUE /\ listening = TRUE
    /\ marks = {} /\ blocked = {} /\ waiting = {} /\ held = {} /\ hand = Nobody
    /\ buffer = <<>> /\ dropped = 0 /\ pass = "idle" /\ taken = <<>> /\ closing = FALSE
    /\ stats = NoStatistics /\ appDisk = NoStatistics /\ dirty = FALSE /\ recent = FALSE
    /\ freed = {} /\ slipped = FALSE /\ expected = NoCounts /\ overflown = 0
    /\ execs = 0 /\ appEdits = 0 /\ troubles = 0

\* The rules are evaluated where a reconciliation begins.
EditApplications ==
    /\ pass = "idle" /\ appEdits < MaxEdits /\ appEdits' = appEdits + 1
    /\ \E w \in SUBSET Paths : w # wanted /\ wanted' = w
    /\ UNCHANGED <<appUp, healthy, kernel, listener, blocked, queued, pass, taken, closing, memory, appDisk,
                   freed, slipped, expected, overflown, execs, troubles>>

\* A program is executed: on a watched mount it waits for the answer.
Exec(p) ==
    /\ execs < MaxExecs /\ p \notin waiting \cup held
    /\ execs' = execs + 1
    /\ IF appUp /\ MountOf[p] \in marks
       THEN /\ waiting' = waiting \cup {p}
            /\ freed' = IF p \in blocked THEN freed \ {p} ELSE freed \cup {p}
            /\ UNCHANGED slipped
       ELSE /\ slipped' = (slipped \/ (appUp /\ p \in blocked))
            /\ UNCHANGED <<waiting, freed>>
    /\ UNCHANGED <<wanted, appUp, healthy, marks, held, listener, blocked, queued, pass, taken, closing,
                   memory, appDisk, expected, overflown, appEdits, troubles>>

-----------------------------------------------------------------------------
(* The listener. *)

\* _handle_event, until it has decided.
Decide(p) ==
    /\ listening /\ hand = Nobody /\ p \in waiting
    /\ hand' = [path |-> p, at |-> IF p \in blocked THEN "deny" ELSE "allow"]
    /\ UNCHANGED <<wanted, appUp, healthy, kernel, listening, blocked, queued, pass, taken, closing, memory,
                   appDisk, freed, slipped, expected, overflown, appBounds>>

\* _respond
Respond ==
    /\ listening /\ hand # Nobody /\ hand.at \in {"deny", "allow"}
    /\ waiting' = waiting \ {hand.path}
    /\ IF hand.at = "deny"
       THEN /\ hand' = [hand EXCEPT !.at = "record"]
            /\ expected' = [expected EXCEPT ![hand.path] = @ + 1]
            /\ UNCHANGED slipped
       ELSE /\ hand' = Nobody /\ slipped' = (slipped \/ hand.path \notin freed)
            /\ UNCHANGED expected
    /\ UNCHANGED <<wanted, appUp, healthy, marks, held, listening, blocked, queued, pass, taken, closing,
                   memory, appDisk, freed, overflown, appBounds>>

\* Mutant: a thread that ends leaves the service as it was.
EndsUnnoticed == healthy
Ends == FALSE

\* The file cannot be read, or the answer not written: the file is closed and
\* the thread ends.  Or the kernel's queue fails, and the thread ends.
ListenerFails ==
    /\ listening /\ Trouble
    /\ \/ /\ hand # Nobody /\ hand.at \in {"deny", "allow"}
          /\ waiting' = waiting \ {hand.path} /\ held' = held \cup {hand.path}
       \/ hand = Nobody /\ UNCHANGED <<waiting, held>>
    /\ hand' = Nobody /\ listening' = FALSE /\ healthy' = Ends
    /\ UNCHANGED <<wanted, appUp, marks, blocked, queued, pass, taken, closing, memory, appDisk, freed,
                   slipped, expected, overflown, execs, appEdits>>

\* DenialBuffer.record
Record ==
    /\ listening /\ hand # Nobody /\ hand.at = "record"
    /\ IF Len(buffer) < MaxQueue
       THEN buffer' = Append(buffer, hand.path) /\ hand' = Nobody
       ELSE hand' = [hand EXCEPT !.at = "drop"] /\ UNCHANGED buffer
    /\ UNCHANGED <<wanted, appUp, healthy, kernel, listening, blocked, dropped, pass, taken, closing, memory,
                   appDisk, freed, slipped, expected, overflown, appBounds>>

Drop ==
    /\ listening /\ hand # Nobody /\ hand.at = "drop"
    /\ dropped' = dropped + 1 /\ hand' = Nobody
    /\ expected' = [expected EXCEPT ![hand.path] = @ - 1] /\ overflown' = overflown + 1
    /\ UNCHANGED <<wanted, appUp, healthy, kernel, listening, blocked, buffer, pass, taken, closing, memory,
                   appDisk, freed, slipped, appBounds>>

-----------------------------------------------------------------------------
(* The main thread: a tick, then at most one command, and the next tick. A    *)
(* command that changes the rules reconciles as well, and the reconciliation  *)
(* of the tick that follows at once is the one that is modelled.             *)

MainStep == <<wanted, appUp, waiting, held, listener>>

\* A program of the service's own is held back as any other, until it is answered.
Starts == listening \/ OwnMounts \cap marks = {}

\* Mutant: the set is replaced before the mounts are marked.
BlockedBeforeMarks == wanted
BlockedUntilMarked == blocked

\* _reconcile
StartReconcile ==
    /\ appUp /\ pass = "idle" /\ pass' = "marking"
    /\ blocked' = BlockedUntilMarked
    /\ UNCHANGED <<MainStep, healthy, marks, queued, taken, memory, appDisk, closing, freed,
                   slipped, expected, overflown, appBounds>>

\* set_blocked: the mounts first.  One that cannot be marked ends the service.
MarkMounts ==
    /\ appUp /\ pass = "marking"
    /\ \/ /\ marks' = marks \cup {MountOf[p] : p \in wanted} /\ pass' = "marked"
          /\ UNCHANGED <<healthy, closing, troubles>>
       \/ /\ Trouble /\ ~(\A p \in wanted : MountOf[p] \in marks)
          /\ healthy' = FALSE /\ pass' = "drain" /\ closing' = TRUE /\ UNCHANGED marks
    /\ UNCHANGED <<MainStep, blocked, queued, taken, memory, appDisk, freed, slipped, expected, overflown,
                   execs, appEdits>>

ReplaceBlocked ==
    /\ appUp /\ pass = "marked" /\ pass' \in {"controls", "drain"}
    /\ blocked' = wanted /\ freed' = freed \cup (waiting \ wanted)
    /\ UNCHANGED <<MainStep, healthy, marks, queued, taken, memory, appDisk, closing, slipped,
                   expected, overflown, appBounds>>

\* _reconcile_network runs nft, where network controls are on.  What fails ends
\* the service.
ReconcileNetwork ==
    /\ appUp /\ pass = "controls" /\ Starts /\ pass' = "drain"
    /\ \/ UNCHANGED <<healthy, closing, troubles>>
       \/ Trouble /\ healthy' = FALSE /\ closing' = TRUE
    /\ UNCHANGED <<MainStep, marks, blocked, queued, taken, memory, appDisk, freed, slipped, expected,
                   overflown, execs, appEdits>>

\* _drain_statistics: DenialBuffer.drain takes one denial after the other.
Take ==
    /\ appUp /\ pass = "drain" /\ buffer # <<>>
    /\ taken' = Append(taken, Head(buffer)) /\ buffer' = Tail(buffer)
    /\ UNCHANGED <<MainStep, healthy, marks, blocked, dropped, pass, memory, appDisk, closing, freed,
                   slipped, expected, overflown, appBounds>>

StartMerge ==
    /\ appUp /\ pass = "drain" /\ buffer = <<>> /\ pass' = "merge"
    /\ UNCHANGED <<MainStep, healthy, marks, blocked, queued, taken, memory, appDisk, closing, freed,
                   slipped, expected, overflown, appBounds>>

\* Each denial is recorded; only the main thread reads the statistics meanwhile.
MergeOne ==
    /\ appUp /\ pass = "merge" /\ taken # <<>>
    /\ stats' = Recorded(stats, Head(taken)) /\ dirty' = TRUE /\ taken' = Tail(taken)
    /\ expected' = [p \in Paths |-> IF p \in Evicted(stats, Head(taken))
                                    THEN expected[p] - stats.count[p] ELSE expected[p]]
    /\ UNCHANGED <<MainStep, healthy, marks, blocked, queued, pass, recent, appDisk, closing, freed,
                   slipped, overflown, appBounds>>

\* The count of drops is read and reset at once.
MergeDropped ==
    /\ appUp /\ pass = "merge" /\ taken = <<>> /\ pass' = "persist"
    /\ stats' = [stats EXCEPT !.dropped = @ + dropped]
    /\ dirty' = (dirty \/ dropped > 0) /\ dropped' = 0
    /\ UNCHANGED <<MainStep, healthy, marks, blocked, buffer, taken, recent, appDisk, closing, freed,
                   slipped, expected, overflown, appBounds>>

\* _persist_statistics: at most once in five seconds, unless it must.
Saves(force) ==
    \/ ~dirty /\ UNCHANGED <<appDisk, dirty, recent, troubles>>
    \/ dirty /\ recent /\ ~force /\ UNCHANGED <<appDisk, dirty, recent, troubles>>
    \/ /\ dirty /\ (force \/ ~recent) /\ recent' = TRUE
       /\ \/ appDisk' = stats /\ dirty' = FALSE /\ UNCHANGED troubles
          \/ Trouble /\ dirty' = dirty /\ UNCHANGED appDisk

Persist ==
    /\ appUp /\ pass = "persist" /\ pass' \in {"programs", "check"}
    /\ Saves(closing)
    /\ UNCHANGED <<MainStep, healthy, marks, blocked, queued, taken, stats, closing, freed, slipped,
                   expected, overflown, execs, appEdits>>

\* _run_scheduled_actions runs what is due, and close() lets notifications in again.
RunPrograms ==
    /\ appUp /\ pass = "programs" /\ Starts /\ pass' = "check"
    /\ UNCHANGED <<MainStep, healthy, marks, blocked, queued, taken, memory, appDisk, closing, freed,
                   slipped, expected, overflown, appBounds>>

Elapse ==
    /\ recent /\ recent' = FALSE
    /\ UNCHANGED <<MainStep, healthy, marks, blocked, queued, pass, taken, stats, dirty, appDisk,
                   closing, freed, slipped, expected, overflown, appBounds>>

\* An unhealthy tick raises: the service closes, which drains and saves again.
Check ==
    /\ appUp /\ pass = "check" /\ ~closing
    /\ IF healthy THEN pass' = "idle" /\ UNCHANGED closing
       ELSE pass' = "drain" /\ closing' = TRUE
    /\ UNCHANGED <<MainStep, healthy, marks, blocked, queued, taken, memory, appDisk, freed,
                   slipped, expected, overflown, appBounds>>

\* Mutant: what waits in the buffer is left there.
LeftBuffer == buffer
ClearedBuffer == <<>>

\* clear_denial_stats, which answers though it could not save.
Clear ==
    /\ appUp /\ pass = "idle" /\ appEdits < MaxEdits /\ appEdits' = appEdits + 1
    /\ stats' = NoStatistics /\ buffer' = ClearedBuffer /\ dropped' = 0
    /\ expected' = HandCounts /\ overflown' = 0
    /\ recent' = TRUE
    /\ \/ appDisk' = NoStatistics /\ dirty' = FALSE /\ UNCHANGED troubles
       \/ Trouble /\ dirty' = TRUE /\ UNCHANGED appDisk
    /\ UNCHANGED <<MainStep, healthy, marks, blocked, pass, taken, closing, freed, slipped, execs>>

-----------------------------------------------------------------------------
(* The service ends, and starts again. *)

\* The kernel's group is closed: programs run.
Gone ==
    /\ appUp' = FALSE /\ healthy' = FALSE /\ listening' = FALSE /\ hand' = Nobody
    /\ marks' = {} /\ waiting' = {} /\ held' = {} /\ freed' = {}
    /\ blocked' = {} /\ buffer' = <<>> /\ dropped' = 0 /\ pass' = "idle" /\ taken' = <<>>
    /\ stats' = NoStatistics /\ dirty' = FALSE /\ recent' = FALSE /\ closing' = FALSE
    /\ expected' = NoCounts /\ overflown' = 0

Shutdown ==
    /\ appUp /\ pass = "check" /\ closing /\ Gone
    /\ UNCHANGED <<wanted, appDisk, slipped, appBounds>>

Crash ==
    /\ appUp /\ Trouble /\ Gone
    /\ UNCHANGED <<wanted, appDisk, slipped, execs, appEdits>>

StartService ==
    /\ ~appUp /\ appUp' = TRUE /\ healthy' = TRUE /\ listening' = TRUE
    /\ blocked' = wanted /\ marks' = {MountOf[p] : p \in wanted}
    /\ stats' = appDisk /\ expected' = appDisk.count /\ overflown' = appDisk.dropped
    /\ UNCHANGED <<wanted, waiting, held, hand, queued, pass, taken, appDisk, dirty, recent, closing,
                   freed, slipped, appBounds>>

-----------------------------------------------------------------------------
Listener == (\E p \in Paths : Decide(p)) \/ Respond \/ Record \/ Drop
Tick == \/ StartReconcile \/ MarkMounts \/ ReplaceBlocked \/ ReconcileNetwork \/ Take \/ StartMerge
        \/ MergeOne \/ MergeDropped \/ Persist \/ RunPrograms \/ Check \/ Shutdown \/ StartService

AppNext ==
    \/ EditApplications \/ (\E p \in Paths : Exec(p))
    \/ Listener \/ ListenerFails
    \/ Tick \/ Elapse \/ Clear \/ Crash

-----------------------------------------------------------------------------
(* Properties. *)

\* A denial of a path is in the hand of the listener, in the buffer, taken, or
\* shown by the statistics, unless its row made room for another, and one that found
\* no room is counted as dropped: the threads lose none between them, count none
\* twice, and a cleared one does not come back.
DenialsAccounted ==
    appUp => /\ \A p \in Paths : expected[p] = stats.count[p] + Times(p, taken) + Times(p, buffer)
                                               + HandCounts[p]
             /\ overflown = stats.dropped + dropped

\* While the service runs, a program whose path was blocked from its execution
\* to its answer does not run: mounts are marked before the set is replaced.
BlockedProgramsWait == ~slipped

\* The service runs a program on a mount that it watches, and nobody answers: the
\* group stays open, for the main thread does not get to close it.
Stuck == appUp /\ pass \in {"controls", "programs"} /\ ~Starts

\* Every program is answered, unless the service is stuck in one of its own: a
\* listener that ends takes the service with it, and the kernel lets go.
ExecsAreAnswered ==
    \A p \in Paths : (p \in waiting \cup held) ~> (p \notin waiting \cup held \/ Stuck)

\* Every program is answered.  The code does not see to it: README.md says that a
\* service whose listener failed reports it, and one that is stuck reports nothing.
ExecsAreAlwaysAnswered == \A p \in Paths : (p \in waiting \cup held) ~> (p \notin waiting \cup held)
==============================================================================
