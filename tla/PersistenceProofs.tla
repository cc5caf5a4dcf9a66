-------------------------- MODULE PersistenceProofs --------------------------
(***************************************************************************)
(* Proofs about what the service keeps over crashes.  ProtectedStore: its  *)
(* files, with the steps of each write, their failures and the loss of     *)
(* power, implement StableRegister, for any set of values and any number   *)
(* of faults.  TrustedClock: the latch, the time and the locks, for any    *)
(* tolerance, wall clock and number of crashes.  Installation: what its    *)
(* scripts report, and what an interrupted one leaves, for any number of   *)
(* scripts and of failures.                                                *)
(***************************************************************************)
EXTENDS ProtectedStore, TrustedClock, Installation, TLAPS

\* What the files hold is the last saved state, or one whose save did not return.
HoldsCandidates ==
    /\ \A p \in Paths :
         /\ file[p] \in Content => file[p].value \in candidates
         /\ durable[p] \in Content => durable[p].value \in candidates
    /\ process \in {"running", "saving"} => memory \in candidates

\* A path from which the state can be loaded whatever happens next to the other.
Safe(p) == file[p] \in Content /\ durable[p] \in Content

\* No save has ever reached the disk.
Fresh ==
    /\ Empty \in candidates
    /\ \A p \in Paths : durable[p] = Absent /\ file[p] # Damaged

Recoverable ==
    /\ Fresh \/ Safe("primary") \/ (mirrored /\ Safe("backup"))
    /\ ~mirrored => file["backup"] = Absent /\ durable["backup"] = Absent

\* How far the save in progress has come.
SaveInProgress ==
    /\ ~Writing => saving = NoValue
    /\ Writing =>
        /\ saving \in candidates
        /\ ~mirrored => target = "primary"
        /\ step = "sync" =>
             /\ file[target] # Absent
             /\ file[target] \in Content => file[target].value = saving
        /\ target = "primary" =>
             /\ file["backup"] \in Content => file["backup"].value = saving
             /\ durable["backup"] \in Content => durable["backup"].value = saving

StoreInv == TypeOK /\ HoldsCandidates /\ Recoverable /\ SaveInProgress

-----------------------------------------------------------------------------
LEMMA PathsAre == "primary" \in Paths /\ "backup" \in Paths /\ \A p \in Paths : p = "primary" \/ p = "backup"
BY DEF Paths

LEMMA FileKinds ==
    /\ \A c \in File : c \in Content \/ c = Absent \/ c = Damaged
    /\ Absent \notin Content /\ Damaged \notin Content /\ Absent # Damaged
BY FileAssumption DEF File

\* What would be loaded is always a candidate: loading is never refused.
LEMMA LoadedIsCandidate == StoreInv => Loaded \in candidates
<1> SUFFICES ASSUME StoreInv PROVE Loaded \in candidates
  OBVIOUS
<1>1. CASE Whole("primary")
  BY <1>1, PathsAre DEF Loaded, Whole, StoreInv, HoldsCandidates
<1>2. CASE ~Whole("primary") /\ mirrored /\ Whole("backup")
  BY <1>2, PathsAre DEF Loaded, Whole, StoreInv, HoldsCandidates
<1>3. CASE ~Whole("primary") /\ ~(mirrored /\ Whole("backup"))
  <2>1. Fresh
    BY <1>3 DEF Whole, StoreInv, Recoverable, Safe
  <2>2. \A p \in Paths : file[p] \in File
    BY DEF StoreInv, TypeOK
  <2>3. \A p \in Paths : file[p] = Absent
    BY <1>3, <2>1, <2>2, PathsAre, FileKinds DEF Whole, StoreInv, Recoverable, Fresh
  <2>4. Loaded = Empty
    BY <1>3, <2>3 DEF Loaded
  <2>5. QED BY <2>1, <2>4 DEF Fresh
<1>4. QED BY <1>1, <1>2, <1>3

LEMMA StoreInit == Init => StoreInv
<1> SUFFICES ASSUME Init PROVE StoreInv
  OBVIOUS
<1>1. CASE file = [p \in Paths |-> Absent] /\ key = "absent" /\ candidates = {Empty}
  BY <1>1, PathsAre, FileKinds, ValuesAssumption
     DEF Init, StoreInv, TypeOK, HoldsCandidates, Recoverable, Fresh, SaveInProgress,
         Writing, Processes, Steps, File
<1>2. ASSUME key = "whole",
             NEW v \in Values, NEW version \in IF mirrored THEN Versions ELSE {"current"},
             file = [p \in Paths |-> IF p = "primary" \/ mirrored
                                     THEN [value |-> v, version |-> version]
                                     ELSE Absent],
             candidates = {v}
      PROVE  StoreInv
  <2>1. version \in Versions
    BY <1>2 DEF Versions
  <2>2. [value |-> v, version |-> version] \in Content
    BY <2>1 DEF Content
  <2>3. file["primary"] = [value |-> v, version |-> version]
    BY <1>2, PathsAre
  <2>4. file["backup"] = IF mirrored THEN [value |-> v, version |-> version] ELSE Absent
    BY <1>2, PathsAre
  <2>5. TypeOK
    BY <1>2, <2>2, ValuesAssumption DEF Init, TypeOK, Processes, Steps, Paths, File
  <2>6. HoldsCandidates
    BY <1>2, <2>3, <2>4, PathsAre, FileKinds DEF Init, HoldsCandidates
  <2>7. Recoverable
    BY <1>2, <2>2, <2>3, <2>4 DEF Init, Recoverable, Safe
  <2>8. SaveInProgress
    BY DEF Init, SaveInProgress, Writing
  <2>9. QED BY <2>5, <2>6, <2>7, <2>8 DEF StoreInv
<1>3. QED BY <1>1, <1>2 DEF Init

-----------------------------------------------------------------------------
(* Each step keeps the invariant. *)

\* Files, candidates and the write in progress stay as they are.
FilesKept ==
    /\ UNCHANGED <<mirrored, fileVars, writeVars, candidates>>
    /\ key' \in {"absent", "partial", "whole"}
    /\ process' \in Processes
    /\ source' \in Paths
    /\ memory' \in Values
    /\ faults' \in Nat
    /\ ~Writing /\ ~Writing'
    /\ process' \in {"running", "saving"} => memory' \in candidates

LEMMA FilesKeptStep == ASSUME StoreInv, FilesKept PROVE StoreInv'
<1>1. TypeOK'
  BY DEF FilesKept, StoreInv, TypeOK, fileVars, writeVars
<1>2. HoldsCandidates'
  BY DEF FilesKept, StoreInv, HoldsCandidates, fileVars
<1>3. Recoverable'
  BY DEF FilesKept, StoreInv, Recoverable, Fresh, Safe, fileVars
<1>4. SaveInProgress'
  BY DEF FilesKept, StoreInv, SaveInProgress, writeVars
<1>5. QED BY <1>1, <1>2, <1>3, <1>4 DEF StoreInv

LEMMA StartStep == ASSUME StoreInv, Start PROVE StoreInv'
<1>1. FilesKept
  BY PathsAre DEF Start, FilesKept, StoreInv, TypeOK, Writing, Processes
<1>2. QED BY <1>1, FilesKeptStep

LEMMA WriteKeyStep == ASSUME StoreInv, WriteKey PROVE StoreInv'
<1>1. FilesKept
  BY DEF WriteKey, FilesKept, StoreInv, TypeOK, Writing, Processes
<1>2. QED BY <1>1, FilesKeptStep

LEMMA LoadCurrentStep == ASSUME StoreInv, LoadCurrent PROVE StoreInv'
<1>1. file[source].value \in candidates /\ file[source].value \in Values
  BY DEF LoadCurrent, Whole, StoreInv, TypeOK, HoldsCandidates, Content
<1>2. FilesKept
  BY <1>1 DEF LoadCurrent, FilesKept, StoreInv, TypeOK, Writing, Processes
<1>3. QED BY <1>2, FilesKeptStep

\* When no file exists, none ever did, and the empty system is a candidate.
LEMMA NoFilesIsFresh ==
    ASSUME StoreInv, \A p \in Paths : file[p] = Absent
    PROVE  Empty \in candidates
BY PathsAre, FileKinds DEF StoreInv, Recoverable, Safe, Fresh

LEMMA NextSourceResult ==
    ASSUME StoreInv, NextSource
    PROVE  /\ source' \in Paths
           /\ process' \in {"loading", "running", "refused"}
           /\ memory' \in Values
           /\ process' = "running" => memory' \in candidates
<1>1. CASE source = "primary" /\ mirrored
  BY <1>1, PathsAre DEF NextSource, StoreInv, TypeOK
<1>2. CASE ~(source = "primary" /\ mirrored) /\ \A p \in Paths : file[p] = Absent
  BY <1>2, NoFilesIsFresh, ValuesAssumption DEF NextSource, StoreInv, TypeOK
<1>3. CASE ~(source = "primary" /\ mirrored) /\ ~(\A p \in Paths : file[p] = Absent)
  BY <1>3 DEF NextSource, StoreInv, TypeOK
<1>4. QED BY <1>1, <1>2, <1>3

LEMMA LoadFailsStep == ASSUME StoreInv, LoadFails PROVE StoreInv'
<1>1. FilesKept
  BY NextSourceResult DEF LoadFails, FilesKept, StoreInv, TypeOK, Writing, Processes
<1>2. QED BY <1>1, FilesKeptStep

LEMMA BeginWriteStep ==
    ASSUME StoreInv, ~Writing, NEW v \in Values, BeginWrite(v),
           process' \in {"saving", "migrating"},
           process' = "saving" => process = "running"
    PROVE  StoreInv'
<1>1. TypeOK'
  BY PathsAre DEF BeginWrite, StoreInv, TypeOK, First, Processes, Steps, fileVars
<1>2. HoldsCandidates'
  BY DEF BeginWrite, StoreInv, HoldsCandidates, fileVars
<1>3. Recoverable'
  BY DEF BeginWrite, StoreInv, Recoverable, Fresh, Safe, fileVars
<1>4. SaveInProgress'
  BY FileKinds DEF BeginWrite, StoreInv, SaveInProgress, Recoverable, Writing, First, fileVars
<1>5. QED BY <1>1, <1>2, <1>3, <1>4 DEF StoreInv

LEMMA LoadOldStep == ASSUME StoreInv, LoadOld PROVE StoreInv'
<1>1. file[source].value \in Values
  BY DEF LoadOld, Whole, Content
<1>2. QED BY <1>1, BeginWriteStep DEF LoadOld, Writing

LEMMA SaveStep == ASSUME StoreInv, NEW v \in Values, Save(v) PROVE StoreInv'
BY BeginWriteStep DEF Save, Writing

LEMMA ReplaceStep == ASSUME StoreInv, Replace PROVE StoreInv'
<1> DEFINE c == [value |-> saving, version |-> "current"]
<1>1. saving \in Values /\ saving \in candidates /\ target \in Paths
  BY DEF Replace, StoreInv, TypeOK, SaveInProgress
<1>2. c \in Content /\ c.value = saving
  BY <1>1 DEF Content, Versions
<1> HIDE DEF c
<1>3. file' = [file EXCEPT ![target] = c]
  BY DEF Replace, c
<1>4. file'[target] = c /\ \A p \in Paths : p # target => file'[p] = file[p]
  BY <1>1, <1>3 DEF StoreInv, TypeOK
<1>5. TypeOK'
  BY <1>2, <1>3 DEF Replace, StoreInv, TypeOK, File, Steps
<1>6. HoldsCandidates'
  BY <1>1, <1>2, <1>4 DEF Replace, StoreInv, HoldsCandidates
<1>7. Recoverable'
  <2>1. ~mirrored => target = "primary"
    BY DEF Replace, StoreInv, SaveInProgress
  <2>2. \A p \in Paths : Safe(p) => Safe(p)'
    BY <1>2, <1>4 DEF Replace, Safe
  <2>3. Fresh => Fresh'
    BY <1>2, <1>4, FileKinds DEF Replace, Fresh
  <2>4. ~mirrored => file'["backup"] = Absent
    BY <1>4, <2>1, PathsAre DEF StoreInv, Recoverable
  <2>5. QED BY <2>2, <2>3, <2>4, PathsAre DEF Replace, StoreInv, Recoverable
<1>8. SaveInProgress'
  BY <1>1, <1>2, <1>4, FileKinds, PathsAre DEF Replace, StoreInv, SaveInProgress, Writing
<1>9. QED BY <1>5, <1>6, <1>7, <1>8 DEF StoreInv

\* What the directory holds when it is synced for the last time: no file is
\* left with another value.
LEMMA SavedEverywhere ==
    ASSUME StoreInv, SyncDirectory, target = "primary"
    PROVE  /\ \A p \in Paths : file[p] \in Content => file[p].value = saving
           /\ file["primary"] \in Content \/ (mirrored /\ Safe("backup"))
<1>1. Writing /\ step = "sync"
  BY DEF SyncDirectory
<1>2. file["primary"] # Absent /\ file["primary"] \in File
  BY <1>1, PathsAre DEF StoreInv, TypeOK, SaveInProgress
<1>3. file["primary"] = Damaged => mirrored /\ Safe("backup")
  BY FileKinds, PathsAre DEF StoreInv, Recoverable, Safe, Fresh
<1>4. \A p \in Paths : file[p] \in Content => file[p].value = saving
  BY <1>1, PathsAre DEF StoreInv, SaveInProgress
<1>5. QED BY <1>2, <1>3, <1>4, FileKinds

LEMMA SyncDirectoryStep == ASSUME StoreInv, SyncDirectory PROVE StoreInv'
<1>1. Writing /\ step = "sync" /\ saving \in Values /\ saving \in candidates /\ saving # NoValue
  BY ValuesAssumption DEF SyncDirectory, StoreInv, TypeOK, SaveInProgress
<1>2. file' = file /\ durable' = file /\ mirrored' = mirrored
  BY DEF SyncDirectory
<1>3. \A p \in Paths : Safe(p) => Safe(p)'
  BY <1>2 DEF Safe
<1>4. file[target] # Absent /\ target \in Paths /\ file[target] \in File
  BY <1>1 DEF StoreInv, TypeOK, SaveInProgress
<1>5. Recoverable'
  <2>1. CASE Fresh
    <3>1. file[target] \in Content
      BY <1>4, <2>1, FileKinds DEF Fresh
    <3>2. target = "backup" => mirrored
      BY <1>1 DEF StoreInv, SaveInProgress
    <3>3. QED BY <1>2, <1>4, <3>1, <3>2, PathsAre DEF StoreInv, Recoverable, Safe
  <2>2. CASE Safe("primary") \/ (mirrored /\ Safe("backup"))
    BY <1>2, <1>3, <2>2, PathsAre DEF StoreInv, Recoverable
  <2>3. QED BY <2>1, <2>2 DEF StoreInv, Recoverable
<1>6. CASE target = "backup"
  <2>1. UNCHANGED <<process, saving, memory, candidates>> /\ target' = "primary" /\ step' = "write"
    BY <1>6 DEF SyncDirectory
  <2>2. TypeOK'
    BY <1>2, <2>1, PathsAre DEF SyncDirectory, StoreInv, TypeOK, Steps
  <2>3. HoldsCandidates'
    BY <1>2, <2>1 DEF StoreInv, HoldsCandidates
  <2>4. SaveInProgress'
    BY <1>1, <1>2, <1>6, <2>1 DEF StoreInv, SaveInProgress, Writing
  <2>5. QED BY <1>5, <2>2, <2>3, <2>4 DEF StoreInv
<1>7. CASE target = "primary"
  <2>1. /\ process' = "running" /\ saving' = NoValue /\ memory' = saving
        /\ candidates' = {saving} /\ target' = "primary" /\ step' = "write"
    BY <1>7 DEF SyncDirectory
  <2>2. TypeOK'
    BY <1>1, <1>2, <2>1, PathsAre DEF SyncDirectory, StoreInv, TypeOK, Steps, Processes
  <2>3. HoldsCandidates'
    BY <1>2, <1>7, <2>1, SavedEverywhere DEF HoldsCandidates
  <2>4. SaveInProgress'
    BY <2>1 DEF SaveInProgress, Writing
  <2>5. QED BY <1>5, <2>2, <2>3, <2>4 DEF StoreInv
<1>8. QED BY <1>4, <1>6, <1>7, PathsAre

LEMMA WriteFailsStep == ASSUME StoreInv, WriteFails PROVE StoreInv'
<1>1. /\ UNCHANGED <<mirrored, file, durable, key, target, step, candidates>>
      /\ saving' = NoValue /\ faults' \in Nat
  BY DEF WriteFails, StoreInv, TypeOK, fileVars
<1>2. /\ source' \in Paths /\ memory' \in Values
      /\ process' \in {"loading", "running", "refused"}
      /\ process' = "running" => memory' \in candidates
  <2>1. CASE process = "saving"
    BY <2>1 DEF WriteFails, StoreInv, TypeOK, HoldsCandidates
  <2>2. CASE process # "saving"
    BY <2>2, NextSourceResult DEF WriteFails
  <2>3. QED BY <2>1, <2>2
<1>3. TypeOK'
  BY <1>1, <1>2 DEF StoreInv, TypeOK, Processes
<1>4. HoldsCandidates'
  BY <1>1, <1>2 DEF StoreInv, HoldsCandidates
<1>5. Recoverable'
  BY <1>1 DEF StoreInv, Recoverable, Fresh, Safe
<1>6. SaveInProgress'
  BY <1>1, <1>2 DEF SaveInProgress, Writing
<1>7. QED BY <1>3, <1>4, <1>5, <1>6 DEF StoreInv

\* The process is gone; of the files, each is as it was or as the disk has it.
LEMMA DiesStep ==
    ASSUME StoreInv, Dies, faults' \in Nat,
           file' \in [Paths -> File], durable' \in [Paths -> File],
           \A p \in Paths : file'[p] \in {file[p], durable[p]} /\ durable'[p] \in {durable[p], file'[p]}
    PROVE  StoreInv'
<1>1. TypeOK'
  BY DEF Dies, StoreInv, TypeOK, Processes
<1>2. HoldsCandidates'
  BY DEF Dies, StoreInv, HoldsCandidates
<1>3. \A p \in Paths : Safe(p) => Safe(p)'
  BY DEF Safe
<1>4. Fresh => Fresh' \/ Safe("primary")' \/ (mirrored /\ Safe("backup")')
  <2> SUFFICES ASSUME Fresh, ~Fresh'
               PROVE  Safe("primary")' \/ (mirrored /\ Safe("backup")')
    OBVIOUS
  <2>1. \A p \in Paths : file'[p] # Damaged
    BY FileKinds DEF Fresh
  <2>2. PICK p \in Paths : durable'[p] # Absent
    BY <2>1 DEF Fresh, Dies
  <2>3. durable'[p] = file'[p] /\ file'[p] \in Content
    BY <2>1, <2>2, FileKinds DEF Fresh
  <2>4. Safe(p)'
    BY <2>3 DEF Safe
  <2>5. p = "backup" => mirrored
    BY <2>2, <2>3, FileKinds DEF StoreInv, Recoverable
  <2>6. QED BY <2>4, <2>5, PathsAre
<1>5. Recoverable'
  BY <1>3, <1>4, PathsAre DEF Dies, StoreInv, Recoverable
<1>6. SaveInProgress'
  BY DEF Dies, SaveInProgress, Writing
<1>7. QED BY <1>1, <1>2, <1>5, <1>6 DEF StoreInv

LEMMA ExitStep == ASSUME StoreInv, Exit PROVE StoreInv'
BY DiesStep DEF Exit, StoreInv, TypeOK, fileVars

LEMMA CrashStep == ASSUME StoreInv, Crash PROVE StoreInv'
BY DiesStep DEF Crash, StoreInv, TypeOK, fileVars

LEMMA LosePowerStep == ASSUME StoreInv, LosePower PROVE StoreInv'
BY DiesStep DEF LosePower, StoreInv, TypeOK

LEMMA DamageStep == ASSUME StoreInv, NEW p \in Paths, Damage(p) PROVE StoreInv'
<1>1. /\ file' = [file EXCEPT ![p] = Damaged] /\ durable' = [durable EXCEPT ![p] = Damaged]
      /\ UNCHANGED <<mirrored, key, process, source, target, step, saving, memory, candidates>>
      /\ mirrored /\ faults' \in Nat
  BY DEF Damage, StoreInv, TypeOK, writeVars
<1>2. /\ file'[p] = Damaged /\ durable'[p] = Damaged
      /\ \A q \in Paths : q # p => file'[q] = file[q] /\ durable'[q] = durable[q]
  BY <1>1 DEF StoreInv, TypeOK
<1>3. \A q \in Paths : q # p => Safe(q)
  BY DEF Damage, Safe, Whole
<1>4. TypeOK'
  BY <1>1 DEF StoreInv, TypeOK, File
<1>5. HoldsCandidates'
  BY <1>1, <1>2, FileKinds DEF StoreInv, HoldsCandidates
<1>6. Recoverable'
  BY <1>1, <1>2, <1>3, PathsAre DEF Recoverable, Safe
<1>7. SaveInProgress'
  BY <1>1, <1>2, FileKinds, PathsAre DEF StoreInv, TypeOK, SaveInProgress, Writing
<1>8. QED BY <1>4, <1>5, <1>6, <1>7 DEF StoreInv

LEMMA StoreNext == ASSUME StoreInv, [Next]_vars PROVE StoreInv'
<1>1. CASE Service
  BY <1>1, StartStep, WriteKeyStep, LoadCurrentStep, LoadOldStep, LoadFailsStep,
     ReplaceStep, SyncDirectoryStep, ExitStep DEF Service
<1>2. CASE Environment
  BY <1>2, SaveStep, WriteFailsStep, CrashStep, LosePowerStep, DamageStep DEF Environment
<1>3. CASE UNCHANGED vars
  BY <1>3 DEF vars, StoreInv, TypeOK, HoldsCandidates, Recoverable, Fresh, Safe,
     SaveInProgress, Writing
<1>4. QED BY <1>1, <1>2, <1>3 DEF Next

\* The inductive invariant of the files.
THEOREM StoreInvHolds == Spec => []StoreInv
<1>1. StoreInv /\ [Next]_vars => StoreInv'
  BY StoreNext
<1>2. QED BY StoreInit, <1>1, PTL DEF Spec

\* Every variable keeps its type.
THEOREM StoreTypeCorrect == Spec => []TypeOK
<1>1. StoreInv => TypeOK
  BY DEF StoreInv
<1>2. QED BY <1>1, StoreInvHolds, PTL

\* The service never works with a state that a later save has replaced, whatever
\* number of errors, crashes, losses of power and damaged files come in between.
THEOREM NeverStaleAlways == Spec => []NeverStale
<1>1. StoreInv => NeverStale
  BY DEF StoreInv, HoldsCandidates, NeverStale
<1>2. QED BY <1>1, StoreInvHolds, PTL

-----------------------------------------------------------------------------
(* The refinement. *)

LEMMA RegisterInit == Init => Register!Init
<1> SUFFICES ASSUME Init PROVE Register!Init
  OBVIOUS
<1>1. StoreInv
  BY StoreInit
<1>2. QED BY <1>1, LoadedIsCandidate DEF Init, StoreInv, TypeOK, Register!Init

LEMMA SameFilesLoadTheSame ==
    ASSUME UNCHANGED <<mirrored, file, candidates>>
    PROVE  Loaded' = Loaded
BY DEF Loaded, Whole

LEMMA LoadedIsCandidateNext == (StoreInv => Loaded \in candidates)'
BY LoadedIsCandidate, PTL

LEMMA SyncIsReturn ==
    ASSUME StoreInv, StoreInv', SyncDirectory
    PROVE  Register!Next
<1>1. Writing /\ saving \in Values /\ saving # NoValue
  BY ValuesAssumption DEF SyncDirectory, StoreInv, TypeOK, SaveInProgress
<1>2. CASE target = "backup"
  BY <1>2, LoadedIsCandidateNext DEF SyncDirectory, Register!Next, Register!Settle
<1>3. CASE target = "primary"
  <2>1. saving' = NoValue /\ candidates' = {saving}
    BY <1>3 DEF SyncDirectory
  <2>2. Loaded' = saving
    BY <2>1, LoadedIsCandidateNext
  <2>3. QED BY <1>1, <2>1, <2>2 DEF Register!Next, Register!Return
<1>4. QED BY <1>2, <1>3, PathsAre DEF StoreInv, TypeOK

\* A step that begins no save and ends none moves the register among its
\* candidates at most.
LEMMA OtherStepsSettle ==
    ASSUME StoreInv', candidates' = candidates, saving' = saving \/ saving' = NoValue
    PROVE  Register!Next
BY LoadedIsCandidateNext DEF Register!Next, Register!Settle, Register!Abort

LEMMA BeginWriteBegins ==
    ASSUME StoreInv, ~Writing, NEW v \in Values, BeginWrite(v)
    PROVE  Register!Next
<1>1. Loaded' = Loaded
  BY DEF BeginWrite, Loaded, Whole, fileVars
<1>2. Register!Begin(v)
  BY <1>1 DEF BeginWrite, Register!Begin, StoreInv, SaveInProgress
<1>3. QED BY <1>2 DEF Register!Next

LEMMA StepRefines ==
    ASSUME StoreInv, StoreInv', [Next]_vars
    PROVE  [Register!Next]_<<Loaded, candidates, saving>>
<1>1. CASE SyncDirectory
  BY <1>1, SyncIsReturn
<1>2. CASE LoadOld
  <2>1. file[source].value \in Values /\ ~Writing
    BY <1>2 DEF LoadOld, Whole, Content, Writing
  <2>2. QED BY <1>2, <2>1, BeginWriteBegins DEF LoadOld
<1>3. CASE \E v \in Values : Save(v)
  <2>1. PICK v \in Values : Save(v)
    BY <1>3
  <2>2. QED BY <2>1, BeginWriteBegins DEF Save, Writing
<1>4. CASE \/ Start \/ WriteKey \/ LoadCurrent \/ LoadFails \/ Replace \/ Exit
           \/ WriteFails \/ Crash \/ LosePower \/ (\E p \in Paths : Damage(p))
  <2>1. candidates' = candidates /\ (saving' = saving \/ saving' = NoValue)
    BY <1>4 DEF Start, WriteKey, LoadCurrent, LoadFails, Replace, Exit, WriteFails, Crash,
       LosePower, Damage, Dies, writeVars
  <2>2. QED BY <2>1, OtherStepsSettle
<1>5. CASE UNCHANGED vars
  BY <1>5, SameFilesLoadTheSame DEF vars
<1>6. QED BY <1>1, <1>2, <1>3, <1>4, <1>5 DEF Next, Service, Environment

\* The two files implement the register: a save that returned is what any later
\* start loads, and one that failed or was cut off never brings back a state
\* older than the last save that returned.
THEOREM StoreImplementsRegister == Spec => RegisterSpec
<1>1. StoreInv /\ StoreInv' /\ [Next]_vars => [Register!Next]_<<Loaded, candidates, saving>>
  BY StepRefines
<1>2. QED BY <1>1, RegisterInit, StoreInvHolds, PTL DEF Spec, RegisterSpec, Register!Spec

-----------------------------------------------------------------------------
(* The service's clock, whose latch and high-water time are persisted too. *)

\* A detected jump is on the disk and in the process; a clock that has been
\* trusted never waits for its first synchronization again.
LatchKept ==
    /\ clock.trusted => ~clock.waiting
    /\ detected => disk.latch /\ (up => ~clock.trusted /\ ~clock.waiting)

\* The clock gives the elapsed time or a high-water time it has reached.
CountsFromBase ==
    up => clock.baseBoot <= boot /\ clock.last <= Later(Elapsed(clock), clock.high)

\* Since a lock was set, the clock has counted from one base, which it has not
\* gone ahead of.
LockOnBase ==
    lock # NoLock =>
        /\ up /\ ~clock.waiting
        /\ clock.last <= Elapsed(clock) /\ clock.high <= Elapsed(clock)
        /\ lock.until - lock.due = clock.base - clock.baseBoot

ClockInv == ClockTypeOK /\ LatchKept /\ CountsFromBase /\ LockOnBase

LEMMA LaterIs ==
    ASSUME NEW s \in Nat, NEW t \in Nat
    PROVE  Later(s, t) \in Nat /\ Later(s, t) >= s /\ Later(s, t) >= t /\ (Later(s, t) = s \/ Later(s, t) = t)
BY DEF Later

\* The clock that now() works with is typed, and keeps the base unless it waited.
LEMMA RebasedIs ==
    ASSUME ClockInv, up
    PROVE  LET r == Rebased(clock)
           IN  /\ r \in Clock
               /\ r.baseBoot <= boot
               /\ Elapsed(r) \in Nat
               /\ r.high = clock.high
               /\ r.last <= Later(Elapsed(r), r.high)
               /\ ~(clock.waiting /\ ~r.waiting) => r.last >= clock.last
               /\ ~clock.waiting => r = clock
               /\ clock.waiting /\ ~Accepts(clock) => ~r.trusted
               /\ Accepts(clock) => r.trusted /\ ~r.waiting
<1> USE DEF ClockInv, ClockTypeOK, Clock
<1>1. CASE ~clock.waiting
  BY <1>1 DEF Rebased, CountsFromBase, Elapsed, Accepts
<1>2. CASE clock.waiting /\ Accepts(clock)
  <2>1. Rebased(clock) = [base |-> wall, baseBoot |-> boot, last |-> wall, high |-> clock.high,
                          trusted |-> TRUE, waiting |-> FALSE]
    BY <1>2 DEF Rebased
  <2> QED BY <1>2, <2>1 DEF Elapsed, Later
<1>3. CASE clock.waiting /\ ~Accepts(clock)
  <2>1. Rebased(clock) = [base |-> clock.base, baseBoot |-> clock.baseBoot,
                          last |-> Later(clock.last, Elapsed(clock)), high |-> clock.high,
                          trusted |-> clock.trusted, waiting |-> ~synced]
    BY <1>3 DEF Rebased
  <2>2. Elapsed(clock) \in Nat
    BY DEF Elapsed, CountsFromBase
  <2>3. Later(clock.last, Elapsed(clock)) \in Nat
    BY <2>2, LaterIs
  <2> QED BY <1>3, <2>1, <2>2, <2>3 DEF Elapsed, Later, CountsFromBase, LatchKept
<1> QED BY <1>1, <1>2, <1>3

\* What now() leaves: its time does not go back, a lost trust does not return,
\* a trusted time is the elapsed time.
LEMMA LookIs ==
    ASSUME ClockInv, up
    PROVE  LET d == Look(clock)
           IN  /\ d \in Clock
               /\ d.baseBoot <= boot
               /\ Elapsed(d) \in Nat
               /\ d.last <= Later(Elapsed(d), d.high)
               /\ d.trusted => ~d.waiting /\ d.last = Elapsed(d) /\ d.high <= d.last
               /\ ~(clock.waiting /\ ~d.waiting) => d.last >= clock.last
               /\ ~clock.trusted /\ ~clock.waiting => ~d.trusted
               /\ ~clock.waiting => ~d.waiting /\ d.base = clock.base /\ d.baseBoot = clock.baseBoot
               /\ ~clock.waiting /\ clock.last <= Elapsed(clock) /\ clock.high <= Elapsed(clock)
                    => d.last <= Elapsed(d) /\ d.high <= Elapsed(d)
               /\ Detects(clock) => ~d.waiting /\ (clock.trusted \/ clock.waiting)
<1> DEFINE r == Rebased(clock)
           d == Count(r)
<1>1. /\ r \in Clock /\ r.baseBoot <= boot /\ Elapsed(r) \in Nat /\ r.high = clock.high
      /\ r.last <= Later(Elapsed(r), r.high)
      /\ ~(clock.waiting /\ ~r.waiting) => r.last >= clock.last
      /\ ~clock.waiting => r = clock
      /\ clock.waiting /\ ~Accepts(clock) => ~r.trusted
      /\ Accepts(clock) => r.trusted /\ ~r.waiting
  BY RebasedIs
<1>a. ClockTypeOK /\ clock \in Clock /\ boot \in Nat /\ wall \in Nat
  BY DEF ClockInv, ClockTypeOK
<1>b. clock.trusted => ~clock.waiting
  BY DEF ClockInv, LatchKept
<1>2. CASE clock.waiting /\ ~Accepts(clock)
  <2>1. Look(clock) = r
    BY <1>2 DEF Look
  <2>2. ~Detects(clock)
    BY <1>2, <1>b DEF Detects
  <2> QED BY <1>1, <1>2, <2>1, <2>2
<1>3. CASE ~(clock.waiting /\ ~Accepts(clock))
  <2>1. ~r.waiting
    BY <1>1, <1>3
  <2> DEFINE t == Later(Later(r.last, Elapsed(r)), r.high)
             ok == r.trusted /\ Close(wall, Elapsed(r)) /\ t = Elapsed(r)
  <2>2. d = [r EXCEPT !.last = t, !.trusted = ok]
    BY DEF Count
  <2>3. /\ t \in Nat /\ t >= r.last /\ t >= r.high /\ t >= Elapsed(r)
        /\ t = Elapsed(r) \/ t = r.high \/ t = r.last
        /\ ok \in BOOLEAN
        /\ ok => r.trusted /\ t = Elapsed(r)
    BY <1>1 DEF Later, Clock
  <2> HIDE DEF t, ok, r
  <2>4. d = [base |-> r.base, baseBoot |-> r.baseBoot, last |-> t, high |-> r.high,
             trusted |-> ok, waiting |-> FALSE]
    BY <1>1, <2>1, <2>2 DEF Clock
  <2> HIDE DEF d
  <2>5. Look(clock) = IF r.trusted /\ ~d.trusted THEN [d EXCEPT !.high = Later(d.high, d.last)] ELSE d
    BY <1>3 DEF Look, r, d
  <2> DEFINE h == IF r.trusted /\ ~ok THEN t ELSE r.high
  <2>6. Look(clock) = [base |-> r.base, baseBoot |-> r.baseBoot, last |-> t, high |-> h,
                       trusted |-> ok, waiting |-> FALSE]
    <3>1. d.trusted = ok /\ d.high = r.high /\ d.last = t
      BY <2>4
    <3>2. CASE r.trusted /\ ~ok
      <4>1. Later(d.high, d.last) = t
        BY <1>1, <2>3, <3>1 DEF Later, Clock
      <4>2. Look(clock) = [d EXCEPT !.high = t]
        BY <2>5, <3>1, <3>2, <4>1
      <4> QED BY <2>4, <3>2, <4>2
    <3>3. CASE ~(r.trusted /\ ~ok)
      BY <2>4, <2>5, <3>1, <3>3
    <3> QED BY <3>2, <3>3
  <2>7. /\ h \in Nat /\ h >= r.high /\ h <= t
        /\ ok => h = r.high
    BY <1>1, <2>3 DEF Clock
  <2>8. Detects(clock) => clock.trusted \/ clock.waiting
    BY DEF Detects, Accepts
  <2>9. Elapsed(Look(clock)) = Elapsed(r)
    BY <2>6 DEF Elapsed
  <2> HIDE DEF h
  <2>10. ~clock.trusted /\ ~clock.waiting => ~ok
    BY <1>1, <2>3
  <2>11. Look(clock) \in Clock
    BY <1>1, <2>3, <2>6, <2>7 DEF Clock
  <2>12. t <= Later(Elapsed(r), h)
    BY <1>1, <2>3, <2>7 DEF Later, Clock
  <2>13. ~clock.waiting /\ clock.last <= Elapsed(clock) /\ clock.high <= Elapsed(clock)
           => t <= Elapsed(r) /\ h <= Elapsed(r)
    BY <1>1, <2>3, <2>7 DEF Later, Clock
  <2>14. clock.last <= t \/ (clock.waiting /\ ~r.waiting)
    BY <1>1, <1>a, <2>3 DEF Clock
  <2> QED BY <1>1, <1>3, <2>1, <2>3, <2>6, <2>7, <2>8, <2>9, <2>10, <2>11, <2>12, <2>13, <2>14
<1> QED BY <1>2, <1>3

-----------------------------------------------------------------------------
LEMMA ClockInvInit == ClockInit => ClockInv
<1> SUFFICES ASSUME ClockInit PROVE ClockInv
  OBVIOUS
<1>1. clock = [base |-> wall, baseBoot |-> 0, last |-> wall, high |-> 0,
               trusted |-> synced, waiting |-> ~synced]
  BY ClockAssumption DEF ClockInit, NewClock, Later
<1>2. /\ boot = 0 /\ up = TRUE /\ lock = NoLock /\ detected = FALSE /\ checkpointed = 0
      /\ disk = [high |-> 0, latch |-> FALSE] /\ synced \in BOOLEAN /\ wall \in Nat
      /\ lastTrusted = synced
  BY <1>1, ClockAssumption DEF ClockInit
<1>3. ClockTypeOK
  BY <1>1, <1>2 DEF ClockTypeOK, Clock, NoLock
<1>4. CountsFromBase
  BY <1>1, <1>2 DEF CountsFromBase, Later, Elapsed
<1> QED BY <1>1, <1>2, <1>3, <1>4 DEF ClockInv, LatchKept, LockOnBase

LEMMA IsClock ==
    ASSUME NEW base \in Nat, NEW start \in Nat, NEW last \in Nat, NEW high \in Nat,
           NEW trusted \in BOOLEAN, NEW w \in BOOLEAN
    PROVE  [base |-> base, baseBoot |-> start, last |-> last, high |-> high,
            trusted |-> trusted, waiting |-> w] \in Clock
BY DEF Clock

\* A step that looks at the clock may then raise its high-water time to its
\* time, write the disk, and set a lock that counts from the clock's base.
LEMMA LookStep ==
    ASSUME ClockInv, up, up', UNCHANGED worldVars,
           NEW h, h = Look(clock).high \/ h = Look(clock).last,
           clock' = [Look(clock) EXCEPT !.high = h],
           lastTrusted' \in BOOLEAN, checkpointed' \in Nat, up' \in BOOLEAN,
           disk' \in [high : Nat, latch : BOOLEAN],
           detected' \in BOOLEAN,
           detected' => disk'.latch /\ (detected \/ Detects(clock)),
           \/ lock' = lock
           \/ /\ Look(clock).trusted
              /\ lock' = [until |-> Look(clock).last + LockTime, due |-> boot + LockTime]
    PROVE  ClockInv'
<1> DEFINE d == Look(clock)
<1>1. /\ d \in Clock
      /\ d.baseBoot <= boot
      /\ d.last <= Later(Elapsed(d), d.high)
      /\ d.trusted => ~d.waiting /\ d.last = Elapsed(d) /\ d.high <= d.last
      /\ ~clock.trusted /\ ~clock.waiting => ~d.trusted
      /\ ~clock.waiting => ~d.waiting /\ d.base = clock.base /\ d.baseBoot = clock.baseBoot
      /\ ~clock.waiting /\ clock.last <= Elapsed(clock) /\ clock.high <= Elapsed(clock)
            => d.last <= Elapsed(d) /\ d.high <= Elapsed(d)
      /\ Detects(clock) => ~d.waiting
  BY LookIs
<1>2. Elapsed(d) \in Nat
  BY LookIs
<1>3. Detects(clock) => ~d.trusted
  BY DEF Detects
<1>4. /\ boot' = boot /\ wall' = wall /\ synced' = synced
      /\ boot \in Nat /\ wall \in Nat /\ synced \in BOOLEAN /\ lock \in [until : Nat, due : Nat]
      /\ LatchKept /\ LockOnBase
  BY DEF ClockInv, ClockTypeOK, worldVars
<1> HIDE DEF d
<1>5. clock' = [base |-> d.base, baseBoot |-> d.baseBoot, last |-> d.last, high |-> h,
                trusted |-> d.trusted, waiting |-> d.waiting]
  <2>1. clock' = [d EXCEPT !.high = h]
    BY DEF d
  <2> QED BY <1>1, <2>1 DEF Clock
<1>6. h \in Nat /\ (h = d.high \/ h = d.last)
  BY <1>1 DEF d, Clock
<1>7. clock' \in Clock
  <2>1. /\ d.base \in Nat /\ d.baseBoot \in Nat /\ d.last \in Nat /\ d.high \in Nat
        /\ d.trusted \in BOOLEAN /\ d.waiting \in BOOLEAN
    BY <1>1 DEF Clock
  <2>2. h \in Nat
    BY <1>6
  <2>3. [base |-> d.base, baseBoot |-> d.baseBoot, last |-> d.last, high |-> h,
         trusted |-> d.trusted, waiting |-> d.waiting] \in Clock
    BY <2>1, <2>2, IsClock, Zenon
  <2> QED BY <1>5, <2>3, Zenon
<1>8. Elapsed(clock)' = Elapsed(d)
  BY <1>4, <1>5 DEF Elapsed
<1>9. LatchKept'
  BY <1>1, <1>3, <1>4, <1>5 DEF LatchKept
<1>10. CountsFromBase'
  <2>1. d.last <= Later(Elapsed(d), h)
    BY <1>1, <1>2, <1>6 DEF Later, Clock
  <2>2. Later(Elapsed(clock), clock.high)' = Later(Elapsed(d), h)
    BY <1>5, <1>8 DEF Later
  <2> QED BY <1>1, <1>4, <1>5, <2>1, <2>2 DEF CountsFromBase
<1>11. LockOnBase' /\ lock' \in [until : Nat, due : Nat]
  <2>1. CASE lock' = lock
    <3>1. lock # NoLock => d.last <= Elapsed(d) /\ d.high <= Elapsed(d) /\ h <= Elapsed(d)
                           /\ ~d.waiting /\ lock.until - lock.due = d.base - d.baseBoot
      BY <1>1, <1>4, <1>6 DEF LockOnBase
    <3> QED BY <1>4, <1>5, <1>8, <2>1, <3>1 DEF LockOnBase, NoLock
  <2>2. CASE d.trusted /\ lock' = [until |-> d.last + LockTime, due |-> boot + LockTime]
    <3>1. d.last + LockTime \in Nat /\ boot + LockTime \in Nat
      BY <1>1, <1>4, ClockAssumption DEF Clock
    <3>2. d.last - boot = d.base - d.baseBoot
      BY <1>1, <1>4, <2>2 DEF Elapsed, Clock
    <3>3. (d.last + LockTime) - (boot + LockTime) = d.base - d.baseBoot
      BY <1>1, <1>4, <3>2, ClockAssumption DEF Clock
    <3>4. lock'.until - lock'.due = clock'.base - clock'.baseBoot
      BY <1>5, <2>2, <3>3
    <3>5. ~d.waiting /\ d.last = Elapsed(d) /\ h <= Elapsed(d)
      BY <1>1, <1>6, <2>2 DEF Clock
    <3> QED BY <1>1, <1>2, <1>5, <1>8, <2>2, <3>1, <3>4, <3>5 DEF LockOnBase, Clock
  <2> QED BY <2>1, <2>2 DEF d
<1> QED BY <1>4, <1>7, <1>9, <1>10, <1>11 DEF ClockInv, ClockTypeOK

-----------------------------------------------------------------------------
LEMMA LookAtClockStep == ASSUME ClockInv, NEW out, LookAtClock(out) PROVE ClockInv'
<1>1. Look(clock) \in Clock /\ up /\ up' = up
  BY LookIs DEF LookAtClock
<1>2. clock' = [Look(clock) EXCEPT !.high = Look(clock).high]
  BY <1>1 DEF LookAtClock, Clock
<1>3. disk' \in [high : Nat, latch : BOOLEAN]
  BY <1>1 DEF LookAtClock, Written, ClockInv, ClockTypeOK, Clock
<1>4. detected' => disk'.latch /\ (detected \/ Detects(clock))
  BY DEF LookAtClock, Written, ClockInv, LatchKept
<1>5. detected' \in BOOLEAN
  BY DEF LookAtClock, ClockInv, ClockTypeOK
<1>6. lastTrusted' \in BOOLEAN /\ checkpointed' \in Nat /\ up' \in BOOLEAN /\ UNCHANGED worldVars
  BY DEF LookAtClock, ClockInv, ClockTypeOK, serviceVars
<1>7. lock' = lock
  BY DEF LookAtClock
<1> QED BY <1>1, <1>2, <1>3, <1>4, <1>5, <1>6, <1>7, LookStep

LEMMA SavePolicyStep == ASSUME ClockInv, NEW setLock, SavePolicy(setLock) PROVE ClockInv'
<1>1. Look(clock) \in Clock /\ up /\ up' = up
  BY LookIs DEF SavePolicy
<1>2. clock' = [Look(clock) EXCEPT !.high = Look(clock).high]
  BY <1>1 DEF SavePolicy, Clock
<1>3. disk' \in [high : Nat, latch : BOOLEAN] /\ disk'.latch = ~Look(clock).trusted
  BY <1>1 DEF SavePolicy, Clock
<1>4. detected' => disk'.latch /\ (detected \/ Detects(clock))
  BY <1>1, <1>3, LookIs DEF SavePolicy, ClockInv, LatchKept, Detects
<1>5. detected' \in BOOLEAN
  BY DEF SavePolicy, ClockInv, ClockTypeOK
<1>6. lastTrusted' \in BOOLEAN /\ checkpointed' \in Nat /\ up' \in BOOLEAN /\ UNCHANGED worldVars
  BY DEF SavePolicy, ClockInv, ClockTypeOK, serviceVars
<1>7. \/ lock' = lock
      \/ /\ Look(clock).trusted
         /\ lock' = [until |-> Look(clock).last + LockTime, due |-> boot + LockTime]
  BY DEF SavePolicy
<1> QED BY <1>1, <1>2, <1>3, <1>4, <1>5, <1>6, <1>7, LookStep

LEMMA TickStep == ASSUME ClockInv, Tick PROVE ClockInv'
<1> DEFINE d == Look(clock)
           high == Later(d.high, d.last)
<1>1. d \in Clock /\ up /\ up' = up
  BY LookIs DEF Tick
<1>2. CASE CheckpointDue
  <2>1. /\ clock' = [d EXCEPT !.high = high]
        /\ disk' = [high |-> high, latch |-> ~d.trusted]
        /\ checkpointed' = boot /\ detected' = (detected \/ Detects(clock))
        /\ lastTrusted' = clock.trusted /\ UNCHANGED <<worldVars, up, lock>>
    BY <1>2 DEF Tick
  <2>2. high \in Nat /\ (high = d.high \/ high = d.last)
    BY <1>1, LaterIs DEF Clock
  <2>3. detected' => disk'.latch /\ (detected \/ Detects(clock))
    BY <1>1, <2>1, LookIs DEF ClockInv, LatchKept, Detects
  <2> HIDE DEF high
  <2>4. disk' \in [high : Nat, latch : BOOLEAN]
    BY <1>1, <2>1, <2>2 DEF Clock
  <2> QED BY <1>1, <2>1, <2>2, <2>3, <2>4, LookStep DEF ClockInv, ClockTypeOK, Clock
<1>3. CASE ~CheckpointDue
  <2>1. UNCHANGED <<boot, wall, synced, clock, disk, up, checkpointed, lock, detected>>
        /\ lastTrusted' = clock.trusted
    BY <1>3 DEF Tick, worldVars
  <2> QED BY <2>1 DEF ClockInv, ClockTypeOK, Clock, LatchKept, CountsFromBase, LockOnBase, Elapsed, Later
<1> QED BY <1>2, <1>3

LEMMA ClearLatchStep == ASSUME ClockInv, NEW out, ClearLatch(out) PROVE ClockInv'
<1> DEFINE last == Later(Elapsed(clock), clock.high)
<1>1. /\ up /\ UNCHANGED <<boot, wall, synced, up, lastTrusted, checkpointed, lock>>
      /\ clock' = [clock EXCEPT !.trusted = TRUE, !.waiting = FALSE, !.last = last]
      /\ disk' = IF out = "saved" THEN [high |-> last, latch |-> FALSE] ELSE disk
      /\ detected' = FALSE
  BY DEF ClearLatch, worldVars, serviceVars
<1>2. /\ clock \in Clock /\ Elapsed(clock) \in Nat
      /\ clock.baseBoot <= boot /\ boot \in Nat
      /\ last \in Nat /\ (last = Elapsed(clock) \/ last = clock.high) /\ last >= clock.high
  BY <1>1, LaterIs DEF ClockInv, ClockTypeOK, CountsFromBase, Elapsed, Clock
<1> DEFINE e == Elapsed(clock)
<1>a. last = Later(e, clock.high)
  OBVIOUS
<1>3. clock' = [base |-> clock.base, baseBoot |-> clock.baseBoot, last |-> last, high |-> clock.high,
                trusted |-> TRUE, waiting |-> FALSE]
  BY <1>1, <1>2 DEF Clock
<1>4. Elapsed(clock)' = e
  BY <1>1, <1>3 DEF Elapsed
<1> HIDE DEF last, e
<1>5. clock' \in Clock /\ disk' \in [high : Nat, latch : BOOLEAN]
  BY <1>1, <1>2, <1>3 DEF Clock, ClockInv, ClockTypeOK
<1>6. LatchKept' 
  BY <1>1, <1>3 DEF LatchKept
<1>7. CountsFromBase'
  <2>1. Later(Elapsed(clock), clock.high)' = Later(e, clock.high)
    BY <1>3, <1>4 DEF Later
  <2> QED BY <1>1, <1>2, <1>3, <1>a, <2>1 DEF CountsFromBase
<1>8. LockOnBase'
  BY <1>1, <1>2, <1>3, <1>4 DEF ClockInv, LockOnBase, e
<1> QED BY <1>1, <1>5, <1>6, <1>7, <1>8 DEF ClockInv, ClockTypeOK

LEMMA ServiceCrashesStep == ASSUME ClockInv, ServiceCrashes PROVE ClockInv'
BY DEF ServiceCrashes, ProcessEnds, NoClock, NoLock, worldVars, ClockInv, ClockTypeOK, Clock,
       LatchKept, CountsFromBase, LockOnBase

LEMMA ServiceStartsStep == ASSUME ClockInv, ServiceStarts PROVE ClockInv'
<1>1. /\ up' = TRUE /\ UNCHANGED <<boot, wall, synced, disk, detected>> /\ lock' = NoLock
      /\ lastTrusted' = clock'.trusted /\ checkpointed' = boot
      /\ clock' = [base |-> wall, baseBoot |-> boot, last |-> Later(wall, disk.high),
                   high |-> disk.high, trusted |-> ~disk.latch /\ synced,
                   waiting |-> ~disk.latch /\ ~synced]
  BY DEF ServiceStarts, worldVars, NewClock
<1>2. boot \in Nat /\ wall \in Nat /\ disk \in [high : Nat, latch : BOOLEAN] /\ synced \in BOOLEAN
      /\ Later(wall, disk.high) \in Nat
  BY LaterIs DEF ClockInv, ClockTypeOK
<1>3. ClockTypeOK'
  BY <1>1, <1>2 DEF ClockInv, ClockTypeOK, Clock, NoLock
<1>4. Elapsed(clock)' = wall
  BY <1>1, <1>2 DEF Elapsed
<1>5. CountsFromBase'
  <2>1. Later(Elapsed(clock), clock.high)' = Later(wall, disk.high)
    BY <1>1, <1>4 DEF Later
  <2> QED BY <1>1, <1>2, <2>1 DEF CountsFromBase
<1> QED BY <1>1, <1>3, <1>5 DEF ClockInv, LatchKept, LockOnBase

LEMMA WorldStep ==
    ASSUME ClockInv, boot' \in Nat, boot' >= boot, wall' \in Nat, synced' \in BOOLEAN,
           UNCHANGED <<clock, disk, up, lastTrusted, checkpointed, lock, detected>>
    PROVE  ClockInv'
<1>1. /\ boot \in Nat /\ clock \in Clock
      /\ clock' = clock
  BY DEF ClockInv, ClockTypeOK
<1>2. Elapsed(clock)' = clock.base + (boot' - clock.baseBoot)
  BY <1>1 DEF Elapsed
<1>3. Elapsed(clock) = clock.base + (boot - clock.baseBoot)
  BY DEF Elapsed
<1> DEFINE e == Elapsed(clock)
           f == clock.base + (boot' - clock.baseBoot)
<1>4. e <= f /\ e \in Int /\ f \in Int
  BY <1>1, <1>3 DEF Clock
<1>a. Elapsed(clock)' = f
  BY <1>2
<1> HIDE DEF e, f
<1>5. CountsFromBase'
  <2>1. Later(Elapsed(clock), clock.high)' = Later(f, clock.high)
    BY <1>1, <1>a DEF Later
  <2>2. Later(e, clock.high) <= Later(f, clock.high) /\ Later(e, clock.high) \in Int /\ Later(f, clock.high) \in Int
    BY <1>1, <1>4 DEF Later, Clock
  <2>3. up => clock.last <= Later(e, clock.high) /\ clock.baseBoot <= boot
    BY DEF ClockInv, CountsFromBase, e
  <2>4. up => clock.last <= Later(f, clock.high) /\ clock.baseBoot <= boot'
    BY <1>1, <2>2, <2>3 DEF Clock
  <2> QED BY <1>1, <2>1, <2>4 DEF CountsFromBase
<1>6. LockOnBase'
  <2>1. lock # NoLock => clock.last <= f /\ clock.high <= f
    BY <1>1, <1>4 DEF ClockInv, LockOnBase, Clock, e
  <2> QED BY <1>1, <1>a, <2>1 DEF ClockInv, LockOnBase
<1> QED BY <1>5, <1>6 DEF ClockInv, ClockTypeOK, LatchKept

LEMMA ClockInvNext == ASSUME ClockInv, [ClockNext]_clockVars PROVE ClockInv'
<1>1. CASE UNCHANGED clockVars
  BY <1>1, WorldStep DEF clockVars, ClockInv, ClockTypeOK
<1>2. CASE ServiceSteps
  BY <1>2, LookAtClockStep, ClearLatchStep, TickStep, SavePolicyStep, ServiceStartsStep DEF ServiceSteps
<1>3. CASE Elapse
  BY <1>3, WorldStep DEF Elapse, serviceVars, ClockInv, ClockTypeOK
<1>4. ASSUME NEW w \in WallValues, SetWall(w) PROVE ClockInv'
  BY <1>4, WorldStep, ClockAssumption DEF SetWall, serviceVars, ClockInv, ClockTypeOK
<1>5. ASSUME NEW s \in BOOLEAN, Synchronize(s) PROVE ClockInv'
  BY <1>5, WorldStep DEF Synchronize, serviceVars, ClockInv, ClockTypeOK
<1>6. CASE ServiceCrashes
  BY <1>6, ServiceCrashesStep
<1> QED BY <1>1, <1>2, <1>3, <1>4, <1>5, <1>6 DEF ClockNext, World

LEMMA ClockInvHolds == ClockSpec => []ClockInv
<1>1. ClockInv /\ [ClockNext]_clockVars => ClockInv'
  BY ClockInvNext
<1> QED BY ClockInvInit, <1>1, PTL DEF ClockSpec

\* TrustedClock: the service's clock stays well typed for any tolerance, times
\* and settings of the wall clock.
THEOREM ClockTypeCorrect == ClockSpec => []ClockTypeOK
<1>1. ClockInv => ClockTypeOK
  BY DEF ClockInv
<1> QED BY ClockInvHolds, <1>1, PTL

\* TrustedClock.now, _mark_untrusted: a jump that was detected and saved keeps
\* the clock untrusted until root clears the latch.
THEOREM LatchSurvivesAlways == ClockSpec => []LatchSurvives
<1>1. ClockInv => LatchSurvives
  BY DEF ClockInv, LatchKept, LatchSurvives
<1> QED BY ClockInvHolds, <1>1, PTL

\* A timed lock lasts its time on the boot clock, however the wall clock is set.
THEOREM LocksLastAlways == ClockSpec => []LocksLast
<1>1. ASSUME ClockInv PROVE LocksLast
  <2> SUFFICES ASSUME up, lock # NoLock, clock.last >= lock.until PROVE boot >= lock.due
    BY DEF LocksLast
  <2> QED BY <1>1 DEF ClockInv, LockOnBase, ClockTypeOK, Clock, Elapsed
<1> QED BY ClockInvHolds, <1>1, PTL

\* TrustedClock.now: within a process the time never goes back, except to the
\* first synchronization.
THEOREM TimeNeverGoesBackAlways == ClockSpec => TimeNeverGoesBack
<1> DEFINE Kept == up /\ up' /\ ~(clock.waiting /\ ~clock'.waiting) => clock'.last >= clock.last
<1>1. ASSUME ClockInv, [ClockNext]_clockVars PROVE [Kept]_clockVars
  <2> SUFFICES ASSUME up, up', ~(clock.waiting /\ ~clock'.waiting) PROVE clock'.last >= clock.last
    OBVIOUS
  <2> USE <1>1
  <2>a. clock \in Clock
    BY DEF ClockInv, ClockTypeOK
  <2>b. Look(clock) \in Clock /\ (~(clock.waiting /\ ~Look(clock).waiting) => Look(clock).last >= clock.last)
    BY LookIs
  <2>1. CASE clock' = clock
    BY <2>1, <2>a DEF Clock
  <2>2. ASSUME NEW out, LookAtClock(out) PROVE clock'.last >= clock.last
    BY <2>2, <2>b DEF LookAtClock
  <2>3. ASSUME NEW setLock, SavePolicy(setLock) PROVE clock'.last >= clock.last
    BY <2>3, <2>b DEF SavePolicy
  <2>4. ASSUME Tick, clock' # clock PROVE clock'.last >= clock.last
    <3>1. clock' = [Look(clock) EXCEPT !.high = Later(Look(clock).high, Look(clock).last)]
      BY <2>4 DEF Tick
    <3>2. clock'.last = Look(clock).last /\ clock'.waiting = Look(clock).waiting
      BY <2>b, <3>1 DEF Clock
    <3> QED BY <2>b, <3>2
  <2>5. ASSUME NEW out, ClearLatch(out) PROVE clock'.last >= clock.last
    <3>1. clock' = [clock EXCEPT !.trusted = TRUE, !.waiting = FALSE,
                                 !.last = Later(Elapsed(clock), clock.high)]
      BY <2>5 DEF ClearLatch
    <3>2. clock'.last = Later(Elapsed(clock), clock.high)
      BY <2>a, <3>1 DEF Clock
    <3> QED BY <2>a, <3>2 DEF ClockInv, CountsFromBase
  <2>6. ~ServiceStarts /\ ~ServiceCrashes
    BY DEF ServiceStarts, ServiceCrashes, ProcessEnds
  <2>7. CASE clock' # clock
    BY <2>2, <2>3, <2>4, <2>5, <2>6, <2>7
       DEF ClockNext, ServiceSteps, World, Elapse, SetWall, Synchronize, clockVars
  <2> QED BY <2>1, <2>7
<1> QED BY ClockInvHolds, <1>1, PTL DEF ClockSpec, TimeNeverGoesBack

-----------------------------------------------------------------------------
(* Installation: what a script has done before each of its steps.           *)

\* The steps after each file is copied, after owner.uid is written, and after systemd starts
\* the service with the host.
AfterEnable == {"enableFence", "startFence", "restart"}
AfterOwner == {"enable"} \cup AfterEnable
AfterDropin ==
    {"desktop", "icons", "manifests", "owner_manifests", "legacy", "mark", "owner"} \cup AfterOwner
AfterFence == {"dropin"} \cup AfterDropin
AfterDns == {"fence"} \cup AfterFence
AfterEntry == {"dns"} \cup AfterDns
AfterUnit == {"network_entry"} \cup AfterEntry
AfterPrograms == {"cli", "unit"} \cup AfterUnit
AfterPackage == {"programs"} \cup AfterPrograms
AfterOptIn == {"package"} \cup AfterPackage

\* What is foreign was there first, outside of the directory of the installation, and where
\* the directory is, nothing that it needs is foreign.
Ownership ==
    /\ \A p \in Path : files[p] = "foreign" => p \in {"cli", "unit", "desktop", "icons", "dns", "account"}
    /\ prefix => \A p \in {"cli", "unit", "desktop", "icons", "dns"} : files[p] # "foreign"
    /\ ~prefix => \A p \in Inside \cup Menus \cup {"unit"} : ~Left(p)

\* Who may have set what.
ServiceFacts ==
    /\ running => wanted
    /\ fenceOn \/ table => optIn = "ours"

\* What the installer has done before a step.
Installing == job.kind = "install" /\ at # "idle"
InstallFacts ==
    Installing =>
        /\ at \in {"account", "optIn"} \cup AfterOptIn
        /\ at \notin AfterOptIn => job.network
        /\ at \in AfterOptIn => (optIn = "ours" <=> job.network) /\ optIn # "broken"
        /\ at \in {"network_entry", "dns", "fence", "dropin", "enableFence", "startFence"} => job.network
        /\ \A p \in {"cli", "unit", "desktop", "icons", "dns"} : files[p] # "foreign"
        /\ job.network => files["account"] # "foreign"
        /\ ~job.network => \A p \in Assets : ~There(p)
        /\ at \in AfterPackage => Mine("package") /\ prefix
        /\ at \in AfterPrograms => Mine("programs")
        /\ at \in AfterUnit => Mine("unit")
        /\ job.network =>
             /\ at \in AfterEntry => Mine("network_entry")
             /\ at \in AfterDns => Mine("dns")
             /\ at \in AfterFence => Mine("fence")
             /\ at \in AfterDropin => Mine("dropin")
        /\ at \in AfterOwner => owner = "ours"
        /\ at \in AfterEnable => enabled

\* The steps of uninstall.py, from the last to the first.
AtState == {"owner", "key", "policy"}
AfterManifests == {"owner_manifests", "prefix"} \cup AtState
AfterMenus == {"manifests"} \cup AfterManifests
AfterRemovedUnit == {"desktop", "legacy"} \cup AfterMenus
AfterCli == {"icons", "unit"} \cup AfterRemovedUnit
AfterAssets == {"account", "cli"} \cup AfterCli
AfterTeardown == Assets \cup AfterAssets
AfterHosts == {"teardown", "table", "disableFence", "optOut"} \cup AfterTeardown
AfterNotifications == {"hosts"} \cup AfterHosts
AfterStop == {"notifications"} \cup AfterNotifications

\* What uninstall.py has done before a step.
Removing == job.kind = "uninstall" /\ at # "idle"
RemovalFacts ==
    Removing =>
        /\ at \in {"disable", "stop"} \cup AfterStop
        /\ at # "disable" => ~enabled
        /\ at \in AfterStop => ~wanted
        /\ at \in AfterNotifications => (job.known => ~muted)
        /\ at \in AfterHosts => ~hosts
        /\ at \in AfterTeardown => optIn = "none"
        /\ at \in {"fence", "dropin"} \cup AfterAssets => ~Left("dns")
        /\ at \in {"dropin"} \cup AfterAssets => ~Left("fence")
        /\ at \in AfterAssets => ~Left("dropin")
        /\ at \in AfterCli => ~Left("cli")
        /\ at \in {"unit"} \cup AfterRemovedUnit => ~Left("icons")
        /\ at \in AfterRemovedUnit => ~Left("unit")
        /\ at \in {"legacy"} \cup AfterMenus => ~Left("desktop")
        /\ at \in AfterMenus => ~Left("legacy")
        /\ at \in AfterManifests => ~Left("manifests")
        /\ at \in {"prefix"} \cup AtState => (job.known => ~Left("owner_manifests"))
        /\ at \notin {"key", "policy"} => (job.known => owner = "ours")
        /\ at \notin AtState => prefix
        /\ at \in AtState => ~prefix
        /\ at \in {"key", "policy"} => owner = "none" /\ job.purge

\* What the recovery has done before a step.
RecoveryFacts ==
    /\ job.kind = "recover" => at \in {"idle", "teardown", "table", "disableFence", "optOut"}
    /\ job.kind = "none" => at = "idle"
    /\ at \in {"table", "disableFence", "optOut"} => ~wanted
    /\ at \in {"disableFence", "optOut"} => ~table
    /\ at = "optOut" => ~fenceOn

\* Without the opt-in, an installation that was not given the option finds nothing of the
\* network controls, and leaves nothing.
OptionFacts ==
    job.kind = "install" /\ ~job.flag =>
        /\ optIn = "ours" \/ \A p \in Assets : ~There(p)
        /\ Installing => (job.network => optIn = "ours")

ReportFacts ==
    /\ at # "idle" => report = "none"
    /\ report = "removed" => job.kind = "uninstall"

InstallInv ==
    /\ InstallTypeOK /\ Ownership /\ ServiceFacts /\ InstallFacts /\ RemovalFacts /\ RecoveryFacts
    /\ OptionFacts /\ ReportFacts /\ EndsAsReported

-----------------------------------------------------------------------------
(* Kinds of steps.                                                          *)

InstallStep ==
    \/ WriteOptIn \/ CopyPackage \/ CopyFile \/ RemoveLegacy \/ WriteOwner \/ EnableService
    \/ EnableFence \/ StartFence \/ RestartService
RecoveryStep == Teardown \/ RemoveTable \/ DisableFence \/ RemoveOptIn
RemovalStep ==
    \/ DisableService \/ StopService \/ RestoreOwnerNotifications \/ ClearHosts \/ RemoveFile
    \/ RemovePrefix \/ RemoveOwner \/ RemoveKey \/ RemovePolicy
BeginStep ==
    \/ \E flag \in BOOLEAN : StartInstall(flag)
    \/ StartRecovery
    \/ \E purge \in BOOLEAN : StartRemoval(purge)
EndStep ==
    \/ CopyPackageFails \/ CopyFileFails \/ WriteStateFails \/ RemovePrefixFails \/ ScriptEnds
    \/ Reboot
ServiceStep == StartService \/ Enforce \/ Notify \/ SaveRules \/ SaveLedger \/ ServiceDies

\* Every step is one of the installer, of the removal of the network controls, of uninstall.py,
\* the start of a script, its early end, or a step of the service.
LEMMA StepKinds ==
    InstallNext =>
        InstallStep \/ RecoveryStep \/ RemovalStep \/ BeginStep \/ EndStep \/ ServiceStep
  BY DEF InstallNext, InstallStep, RecoveryStep, RemovalStep, BeginStep, EndStep, ServiceStep

\* A script starts where none is, and then goes on or ends; nothing else moves it.
LEMMA StartsOnce ==
    BeginStep => /\ at = "idle" /\ report' = "none" /\ job'.kind \in {"install", "uninstall", "recover"}
                 /\ UNCHANGED <<tree, state, systemd, effects, troubles>>
  BY DEF BeginStep, StartInstall, StartRecovery, StartRemoval, Begins

\* A script that ends early leaves what the state directory and systemd hold, but for a file
\* that it was writing.
LEMMA EndsIdle ==
    EndStep =>
        /\ at' = "idle"
        /\ UNCHANGED <<signed, needs, enabled, fenceOn, hosts, muted, job, report, scripts>>
        /\ UNCHANGED state \/ WriteStateFails
  BY DEF EndStep, CopyPackageFails, CopyFileFails, WriteStateFails, RemovePrefixFails, ScriptEnds,
         Reboot, state, systemd, effects

\* The installer's steps are taken by the installer.
LEMMA InstallsOn == InstallStep => Installing /\ UNCHANGED <<job, scripts, troubles>>
  BY DEF InstallStep, WriteOptIn, CopyPackage, CopyFile, RemoveLegacy, WriteOwner, EnableService,
         EnableFence, StartFence, RestartService, Installs, GoesOn, Installing, Path, Inside,
         Assets, Menus

\* The removal of the network controls touches no file of the installation.
LEMMA RecoversOn ==
    RecoveryStep => /\ at \in {"teardown", "table", "disableFence", "optOut"}
                    /\ UNCHANGED <<job, scripts, troubles, tree, owner, signed, needs, enabled, hosts>>
  BY DEF RecoveryStep, Teardown, RemoveTable, DisableFence, RemoveOptIn, Recovers, GoesOn, tree,
         state, systemd, effects

\* The steps of uninstall.py are taken by uninstall.py.
LEMMA RemovesOn == RemovalStep => Removing /\ UNCHANGED <<job, scripts, troubles>>
  BY DEF RemovalStep, DisableService, StopService, RestoreOwnerNotifications, ClearHosts,
         RemoveFile, RemovePrefix, RemoveOwner, RemoveKey, RemovePolicy, Removes, GoesOn,
         Removing, Path, Inside, Assets, Menus

\* The service writes no file of the installation, and moves no script.
LEMMA ServiceKeeps ==
    ServiceStep => UNCHANGED <<tree, owner, optIn, enabled, wanted, fenceOn, script>>
  BY DEF ServiceStep, StartService, Enforce, Notify, SaveRules, SaveLedger, ServiceDies, tree,
         state, systemd, script

-----------------------------------------------------------------------------
(* The values of the variables.                                             *)

\* With and Without keep the type of files.
LEMMA PathsWritten ==
    ASSUME files \in [Path -> {"none", "ours", "broken", "foreign"}], NEW S
    PROVE  /\ With(S) \in [Path -> {"none", "ours", "broken", "foreign"}]
           /\ Without(S) \in [Path -> {"none", "ours", "broken", "foreign"}]
  BY DEF With, Without

LEMMA TreeType ==
    ASSUME InstallTypeOK, InstallNext
    PROVE  files' \in [Path -> {"none", "ours", "broken", "foreign"}] /\ prefix' \in BOOLEAN
<1> USE DEF InstallTypeOK, tree
<1>1. \/ files' = files \/ CopyFileFails
      \/ \E S \in SUBSET Path : files' = With(S) \/ files' = Without(S)
  <2>1. CASE InstallStep
    BY <2>1
         DEF InstallStep, WriteOptIn, CopyPackage, CopyFile, RemoveLegacy, WriteOwner,
             EnableService, EnableFence, StartFence, RestartService, Path, Inside, Menus, Assets
  <2>2. CASE RemovalStep
    BY <2>2
         DEF RemovalStep, DisableService, StopService, RestoreOwnerNotifications, ClearHosts,
             RemoveFile, RemovePrefix, RemoveOwner, RemoveKey, RemovePolicy, Path
  <2>3. CASE EndStep
    BY <2>3
         DEF EndStep, CopyPackageFails, CopyFileFails, WriteStateFails, RemovePrefixFails,
             ScriptEnds, Reboot, Path, Inside
  <2> QED BY <2>1, <2>2, <2>3, StepKinds, RecoversOn, StartsOnce, ServiceKeeps
<1>2. files' \in [Path -> {"none", "ours", "broken", "foreign"}]
  BY <1>1, PathsWritten DEF CopyFileFails
<1>3. prefix' \in BOOLEAN
  <2>1. InstallStep => prefix' \in {prefix, TRUE}
    BY DEF InstallStep, WriteOptIn, CopyPackage, CopyFile, RemoveLegacy, WriteOwner,
           EnableService, EnableFence, StartFence, RestartService
  <2>2. RemovalStep => prefix' \in {prefix, FALSE}
    BY DEF RemovalStep, DisableService, StopService, RestoreOwnerNotifications, ClearHosts,
           RemoveFile, RemovePrefix, RemoveOwner, RemoveKey, RemovePolicy
  <2>3. EndStep => prefix' \in {prefix, TRUE}
    BY DEF EndStep, CopyPackageFails, CopyFileFails, WriteStateFails, RemovePrefixFails, ScriptEnds,
           Reboot
  <2> QED BY <2>1, <2>2, <2>3, StepKinds, RecoversOn, StartsOnce, ServiceKeeps
<1> QED BY <1>2, <1>3

LEMMA EffectsType ==
    ASSUME InstallTypeOK, InstallNext
    PROVE  hosts' \in BOOLEAN /\ table' \in BOOLEAN /\ muted' \in BOOLEAN
<1> USE DEF InstallTypeOK, effects, ServiceStops
<1>1. CASE InstallStep
  BY <1>1
       DEF InstallStep, WriteOptIn, CopyPackage, CopyFile, RemoveLegacy, WriteOwner,
           EnableService, EnableFence, StartFence, RestartService
<1>2. CASE RecoveryStep
  BY <1>2 DEF RecoveryStep, Teardown, RemoveTable, DisableFence, RemoveOptIn
<1>3. CASE RemovalStep
  BY <1>3
       DEF RemovalStep, DisableService, StopService, RestoreOwnerNotifications, ClearHosts,
           RemoveFile, RemovePrefix, RemoveOwner, RemoveKey, RemovePolicy
<1>4. CASE EndStep
  <2>1. table' \in BOOLEAN
    BY <1>4
         DEF EndStep, CopyPackageFails, CopyFileFails, WriteStateFails, RemovePrefixFails,
             ScriptEnds, Reboot, BootFence, Mine
  <2> QED BY <1>4, <2>1, EndsIdle
<1>5. CASE ServiceStep
  BY <1>5 DEF ServiceStep, StartService, Enforce, Notify, SaveRules, SaveLedger, ServiceDies
<1> QED BY <1>1, <1>2, <1>3, <1>4, <1>5, StepKinds, StartsOnce

LEMMA ScriptType ==
    ASSUME InstallTypeOK, InstallNext
    PROVE  /\ job' \in [kind : {"none", "install", "uninstall", "recover"}, flag : BOOLEAN,
                      network : BOOLEAN, purge : BOOLEAN, known : BOOLEAN]
           /\ report' \in {"none", "installed", "removed", "recovered"}
           /\ scripts' \in 0 .. MaxScripts /\ troubles' \in 0 .. MaxTrouble
<1> USE InstallationAssumption DEF InstallTypeOK, GoesOn, script
<1>1. CASE InstallStep
  BY <1>1
       DEF Installs, InstallStep, WriteOptIn, CopyPackage, CopyFile, RemoveLegacy, WriteOwner,
           EnableService, EnableFence, StartFence, RestartService
<1>2. CASE RecoveryStep
  BY <1>2 DEF Recovers, RecoveryStep, Teardown, RemoveTable, DisableFence, RemoveOptIn
<1>3. CASE RemovalStep
  BY <1>3
       DEF Removes, RemovalStep, DisableService, StopService, RestoreOwnerNotifications,
           ClearHosts, RemoveFile, RemovePrefix, RemoveOwner, RemoveKey, RemovePolicy
<1>4. CASE EndStep
  <2>1. troubles' = troubles \/ Trouble
    BY <1>4
         DEF EndStep, CopyPackageFails, CopyFileFails, WriteStateFails, RemovePrefixFails,
             ScriptEnds, Reboot
  <2>2. troubles' \in 0 .. MaxTrouble
    BY <2>1 DEF Trouble
  <2> QED BY <1>4, <2>2, EndsIdle
<1>5. CASE ServiceStep
  <2>1. troubles' = troubles \/ Trouble
    BY <1>5 DEF ServiceStep, StartService, Enforce, Notify, SaveRules, SaveLedger, ServiceDies
  <2>2. troubles' \in 0 .. MaxTrouble
    BY <2>1 DEF Trouble
  <2> QED BY <1>5, <2>2, ServiceKeeps
<1>6. CASE BeginStep
  <2>1. \E first \in {"account", "package", "teardown", "disable"},
           kind \in {"install", "uninstall", "recover"},
           flag \in BOOLEAN, network \in BOOLEAN, purge \in BOOLEAN :
             Begins(first, kind, flag, network, purge)
    BY <1>6 DEF BeginStep, StartInstall, StartRecovery, StartRemoval
  <2> QED BY <2>1 DEF Begins
<1> QED BY <1>1, <1>2, <1>3, <1>4, <1>5, <1>6, StepKinds

\* Every step keeps the types.
LEMMA InstallTypeStep ==
    ASSUME InstallTypeOK, InstallNext
    PROVE  InstallTypeOK'
<1> USE DEF InstallTypeOK, state, systemd
<1>1. signed' \in [Signed -> {"none", "fits", "stale"}] /\ needs' \in BOOLEAN
  BY DEF InstallNext, Begins, StartInstall, StartRecovery, StartRemoval, WriteOptIn,
         CopyPackageFails, CopyFileFails, WriteStateFails, CopyPackage, CopyFile, RemoveLegacy,
         WriteOwner, EnableService, EnableFence, StartFence, RestartService, Teardown, RemoveTable,
         DisableFence,
         RemoveOptIn, DisableService, StopService, RestoreOwnerNotifications, ClearHosts,
         RemoveFile, RemovePrefix, RemoveOwner, RemoveKey, RemovePolicy, RemovePrefixFails,
         ScriptEnds, Reboot, StartService, Enforce, Notify, SaveRules, SaveLedger, ServiceDies
<1>2. owner' \in {"none", "ours", "broken"} /\ optIn' \in {"none", "ours", "broken"}
  <2>1. CASE InstallStep
    BY <2>1
         DEF InstallStep, WriteOptIn, CopyPackage, CopyFile, RemoveLegacy, WriteOwner,
             EnableService, EnableFence, StartFence, RestartService
  <2>2. CASE RecoveryStep
    BY <2>2 DEF RecoveryStep, Teardown, RemoveTable, DisableFence, RemoveOptIn
  <2>3. CASE RemovalStep
    BY <2>3
         DEF RemovalStep, DisableService, StopService, RestoreOwnerNotifications, ClearHosts,
             RemoveFile, RemovePrefix, RemoveOwner, RemoveKey, RemovePolicy
  <2>4. CASE EndStep
    BY <2>4, EndsIdle DEF WriteStateFails
  <2> QED BY <2>1, <2>2, <2>3, <2>4, StepKinds, StartsOnce, ServiceKeeps
<1>3. enabled' \in BOOLEAN /\ fenceOn' \in BOOLEAN /\ wanted' \in BOOLEAN /\ running' \in BOOLEAN
  BY DEF ServiceStops, InstallNext, Begins, StartInstall, StartRecovery, StartRemoval, WriteOptIn,
         CopyPackageFails, CopyFileFails, WriteStateFails, CopyPackage, CopyFile, RemoveLegacy,
         WriteOwner, EnableService,
         EnableFence, StartFence, RestartService, Teardown, RemoveTable, DisableFence,
         RemoveOptIn, DisableService, StopService, RestoreOwnerNotifications, ClearHosts,
         RemoveFile, RemovePrefix, RemoveOwner, RemoveKey, RemovePolicy, RemovePrefixFails,
         ScriptEnds, Reboot, StartService, Enforce, Notify, SaveRules, SaveLedger, ServiceDies
<1> QED BY <1>1, <1>2, <1>3, TreeType, EffectsType, ScriptType

-----------------------------------------------------------------------------
(* Whose the files are.                                                     *)

\* No step leaves a file of ours without the directory, or one of somebody else beside it.
LEMMA OwnershipStep ==
    ASSUME InstallInv, InstallNext
    PROVE  Ownership'
<1> USE DEF Ownership, Mine, Left, Inside, Menus, Assets, Path
<1>1. CASE UNCHANGED tree
  BY <1>1 DEF InstallInv, tree
<1>2. CASE CopyPackage \/ CopyPackageFails
  BY <1>2
       DEF InstallInv, InstallTypeOK, InstallFacts, Installing, CopyPackage, CopyPackageFails,
           Installs, With, Without
<1>10. CASE CopyFileFails
  <2>1. prefix
    BY <1>10
         DEF InstallInv, InstallFacts, Installing, CopyFileFails, AfterPackage,
             AfterPrograms, AfterUnit, AfterEntry, AfterDns, AfterFence, AfterDropin, AfterOwner,
             AfterEnable
  <2>2. QED BY <1>10, <2>1 DEF InstallInv, InstallTypeOK, CopyFileFails
<1>3. CASE CopyFile
  <2>1. prefix \/ files' = With({"account"})
    BY <1>3
         DEF InstallInv, InstallFacts, Installing, CopyFile, Installs, AfterOptIn, AfterPackage,
             AfterPrograms, AfterUnit, AfterEntry, AfterDns, AfterFence, AfterDropin, AfterOwner,
             AfterEnable
  <2>2. QED BY <1>3, <2>1 DEF InstallInv, InstallTypeOK, CopyFile, With
<1>4. CASE RemoveLegacy \/ RemoveFile
  BY <1>4 DEF InstallInv, InstallTypeOK, RemoveLegacy, RemoveFile, Without
<1>5. CASE RemovePrefix \/ RemovePrefixFails
  BY <1>5
       DEF InstallInv, InstallTypeOK, RemovePrefix, RemovePrefixFails, Without, Removes,
           RemovalFacts, Removing, AfterRemovedUnit, AfterMenus, AfterManifests, AtState
<1>6. CASE InstallStep
  BY <1>1, <1>2, <1>3, <1>4, <1>6
       DEF InstallStep, WriteOptIn, WriteOwner, EnableService, EnableFence, StartFence,
           RestartService
<1>7. CASE RecoveryStep \/ BeginStep \/ ServiceStep
  BY <1>1, <1>7, RecoversOn, StartsOnce, ServiceKeeps
<1>8. CASE RemovalStep
  BY <1>1, <1>4, <1>5, <1>8
       DEF RemovalStep, DisableService, StopService, RestoreOwnerNotifications, ClearHosts,
           RemoveOwner, RemoveKey, RemovePolicy
<1>9. CASE EndStep
  BY <1>1, <1>2, <1>5, <1>9, <1>10 DEF EndStep, WriteStateFails, ScriptEnds, Reboot
<1> QED BY <1>6, <1>7, <1>8, <1>9, StepKinds

-----------------------------------------------------------------------------
(* The service.                                                             *)

\* The service runs only where systemd wants it and an owner is known, and only a host with the
\* opt-in has a fence or a table.
LEMMA ServiceStepFacts ==
    ASSUME InstallInv, InstallNext
    PROVE  ServiceFacts'
<1> USE DEF InstallInv, InstallTypeOK, ServiceFacts, state, systemd, effects
<1>1. CASE InstallStep
  <2>. at \in {"enableFence", "startFence"} => optIn = "ours"
    BY <1>1, InstallsOn
         DEF InstallFacts, AfterOptIn, AfterPackage, AfterPrograms, AfterUnit, AfterEntry,
             AfterDns, AfterFence, AfterDropin, AfterOwner, AfterEnable
  <2>1. CASE WriteOptIn
    BY <2>1 DEF WriteOptIn, Installs
  <2>2. CASE CopyPackage
    BY <2>2 DEF CopyPackage, Installs
  <2>3. CASE CopyFile
    BY <2>3 DEF CopyFile, Installs
  <2>4. CASE RemoveLegacy
    BY <2>4 DEF RemoveLegacy, Installs
  <2>5. CASE WriteOwner
    BY <2>5 DEF WriteOwner, Installs
  <2>6. CASE EnableService
    BY <2>6 DEF EnableService, Installs
  <2>7. CASE EnableFence
    BY <2>7 DEF EnableFence, Installs
  <2>8. CASE StartFence
    BY <2>8 DEF StartFence, Installs
  <2>9. CASE RestartService
    BY <2>9 DEF RestartService, Installs, ServiceStops
  <2> QED BY <1>1, <2>1, <2>2, <2>3, <2>4, <2>5, <2>6, <2>7, <2>8, <2>9 DEF InstallStep
<1>2. CASE RecoveryStep
  <2>1. CASE Teardown
    BY <2>1 DEF Teardown, ServiceStops
  <2>2. CASE RemoveTable
    BY <2>2 DEF RemoveTable
  <2>3. CASE DisableFence
    BY <2>3 DEF DisableFence
  <2>4. CASE RemoveOptIn
    BY <2>4 DEF RemoveOptIn, Recovers, RecoveryFacts
  <2> QED BY <1>2, <2>1, <2>2, <2>3, <2>4 DEF RecoveryStep
<1>3. CASE RemovalStep
  <2>. at = "owner" => ~wanted
    BY <1>3, RemovesOn
         DEF RemovalFacts, AtState, AfterManifests, AfterMenus, AfterRemovedUnit, AfterCli,
             AfterAssets,
             AfterTeardown, AfterHosts, AfterNotifications, AfterStop
  <2>1. CASE DisableService
    BY <2>1 DEF DisableService
  <2>2. CASE StopService
    BY <2>2 DEF StopService, ServiceStops
  <2>3. CASE RestoreOwnerNotifications
    BY <2>3 DEF RestoreOwnerNotifications
  <2>4. CASE ClearHosts
    BY <2>4 DEF ClearHosts
  <2>5. CASE RemoveFile
    BY <2>5 DEF RemoveFile
  <2>6. CASE RemovePrefix
    BY <2>6 DEF RemovePrefix
  <2>7. CASE RemoveOwner
    BY <2>7 DEF RemoveOwner, Removes
  <2>8. CASE RemoveKey
    BY <2>8 DEF RemoveKey
  <2>9. CASE RemovePolicy
    BY <2>9 DEF RemovePolicy
  <2> QED BY <1>3, <2>1, <2>2, <2>3, <2>4, <2>5, <2>6, <2>7, <2>8, <2>9 DEF RemovalStep
<1>4. CASE EndStep
  <2>1. CASE CopyPackageFails
    BY <2>1 DEF CopyPackageFails
  <2>2. CASE RemovePrefixFails
    BY <2>2 DEF RemovePrefixFails
  <2>3. CASE ScriptEnds
    BY <2>3 DEF ScriptEnds
  <2>4. CASE Reboot
    BY <2>4 DEF Reboot, BootFence
  <2>5. CASE CopyFileFails
    BY <2>5 DEF CopyFileFails
  <2>6. CASE WriteStateFails
    BY <2>6 DEF WriteStateFails
  <2> QED BY <1>4, <2>1, <2>2, <2>3, <2>4, <2>5, <2>6 DEF EndStep
<1>5. CASE ServiceStep
  <2>1. CASE StartService
    BY <2>1 DEF StartService
  <2>2. CASE Enforce
    BY <2>2 DEF Enforce
  <2>3. CASE Notify
    BY <2>3 DEF Notify
  <2>4. CASE SaveRules
    BY <2>4 DEF SaveRules
  <2>5. CASE SaveLedger
    BY <2>5 DEF SaveLedger
  <2>6. CASE ServiceDies
    BY <2>6 DEF ServiceDies
  <2> QED BY <1>5, <2>1, <2>2, <2>3, <2>4, <2>5, <2>6 DEF ServiceStep
<1> QED BY <1>1, <1>2, <1>3, <1>4, <1>5, StepKinds, StartsOnce

\* Nothing of the service undoes a step of the recovery: it is stopped.
LEMMA RecoveryStepFacts ==
    ASSUME InstallInv, InstallNext
    PROVE  RecoveryFacts'
<1> USE DEF InstallInv, RecoveryFacts, state, systemd, effects
<1>1. CASE InstallStep
  <2>0. at' \notin {"table", "disableFence", "optOut"} /\ job'.kind = "install"
    <3>1. CASE WriteOptIn
      BY <3>1, InstallsOn DEF WriteOptIn, Installs, GoesOn, AfterInstall, Installing
    <3>2. CASE CopyPackage
      BY <3>2, InstallsOn DEF CopyPackage, Installs, GoesOn, AfterInstall, Installing
    <3>3. CASE CopyFile
      BY <3>3, InstallsOn
           DEF CopyFile, Installs, GoesOn, AfterInstall, Installing, Path, Inside, Assets, Menus
    <3>4. CASE RemoveLegacy
      BY <3>4, InstallsOn DEF RemoveLegacy, Installs, GoesOn, AfterInstall, Installing
    <3>5. CASE WriteOwner
      BY <3>5, InstallsOn DEF WriteOwner, Installs, GoesOn, AfterInstall, Installing
    <3>6. CASE EnableService
      BY <3>6, InstallsOn DEF EnableService, Installs, GoesOn, AfterInstall, Installing
    <3>7. CASE EnableFence
      BY <3>7, InstallsOn DEF EnableFence, Installs, GoesOn, AfterInstall, Installing
    <3>8. CASE StartFence
      BY <3>8, InstallsOn DEF StartFence, Installs, GoesOn, AfterInstall, Installing
    <3>9. CASE RestartService
      BY <3>9, InstallsOn DEF RestartService, Installs, GoesOn, AfterInstall, Installing
    <3> QED BY <1>1, <3>1, <3>2, <3>3, <3>4, <3>5, <3>6, <3>7, <3>8, <3>9 DEF InstallStep
  <2> QED BY <2>0
<1>2. CASE RecoveryStep
  <2>1. CASE Teardown
    BY <2>1 DEF Teardown, NothingToTearDown
  <2>2. CASE RemoveTable
    BY <2>2 DEF RemoveTable, Recovers, GoesOn, AfterRecovery
  <2>3. CASE DisableFence
    BY <2>3 DEF DisableFence, Recovers, GoesOn, AfterRecovery
  <2>4. CASE RemoveOptIn
    BY <2>4 DEF RemoveOptIn, Recovers, GoesOn, AfterRecovery
  <2> QED BY <1>2, <2>1, <2>2, <2>3, <2>4 DEF RecoveryStep
<1>3. CASE RemovalStep
  <2>0. at' \notin {"table", "disableFence", "optOut"} /\ job'.kind = "uninstall"
    <3>1. CASE DisableService
      BY <3>1, RemovesOn DEF DisableService, Removes, GoesOn, AfterRemoval, RemovalOrder, Removing
    <3>2. CASE StopService
      BY <3>2, RemovesOn DEF StopService, Removes, GoesOn, AfterRemoval, RemovalOrder, Removing
    <3>3. CASE RestoreOwnerNotifications
      BY <3>3, RemovesOn
           DEF RestoreOwnerNotifications, Removes, GoesOn, AfterRemoval, RemovalOrder, Removing
    <3>4. CASE ClearHosts
      BY <3>4, RemovesOn DEF ClearHosts, Removes, GoesOn, AfterRemoval, RemovalOrder, Removing
    <3>5. CASE RemoveFile
      BY <3>5, RemovesOn
           DEF RemoveFile, Removes, GoesOn, AfterRemoval, RemovalOrder, Removing, Path, Inside,
               Assets, Menus
    <3>6. CASE RemovePrefix
      BY <3>6, RemovesOn DEF RemovePrefix, Removes, GoesOn, AfterRemoval, RemovalOrder, Removing
    <3>7. CASE RemoveOwner
      BY <3>7, RemovesOn DEF RemoveOwner, Removes, GoesOn, AfterRemoval, RemovalOrder, Removing
    <3>8. CASE RemoveKey
      BY <3>8, RemovesOn DEF RemoveKey, Removes, GoesOn, AfterRemoval, RemovalOrder, Removing
    <3>9. CASE RemovePolicy
      BY <3>9, RemovesOn DEF RemovePolicy, Removes, GoesOn, AfterRemoval, RemovalOrder, Removing
    <3> QED BY <1>3, <3>1, <3>2, <3>3, <3>4, <3>5, <3>6, <3>7, <3>8, <3>9 DEF RemovalStep
  <2> QED BY <2>0
<1>4. CASE EndStep
  BY <1>4, EndsIdle
<1>5. CASE ServiceStep
  <2>1. at' = at /\ job' = job /\ wanted' = wanted /\ fenceOn' = fenceOn
    BY <1>5, ServiceKeeps DEF script
  <2>2. table' = table \/ running
    BY <1>5 DEF ServiceStep, StartService, Enforce, Notify, SaveRules, SaveLedger, ServiceDies
  <2> QED BY <2>1, <2>2 DEF ServiceFacts
<1>6. CASE BeginStep
  BY <1>6 DEF BeginStep, StartInstall, StartRecovery, StartRemoval, Begins
<1> QED BY <1>1, <1>2, <1>3, <1>4, <1>5, <1>6, StepKinds

\* Nothing is reported before a script's last step.
LEMMA ReportStepFacts ==
    ASSUME InstallInv, InstallNext
    PROVE  ReportFacts'
<1> USE DEF InstallInv, ReportFacts, GoesOn
<1>1. CASE InstallStep
  <2>1. CASE WriteOptIn
    BY <2>1, <1>1, InstallsOn DEF WriteOptIn, Installing, Installs
  <2>2. CASE CopyPackage
    BY <2>2, <1>1, InstallsOn DEF CopyPackage, Installing, Installs
  <2>3. CASE CopyFile
    <3>1. Installs(at)
      BY <2>3 DEF CopyFile, Installs
    <3> QED BY <3>1, <1>1, InstallsOn DEF Installing, Installs
  <2>4. CASE RemoveLegacy
    BY <2>4, <1>1, InstallsOn DEF RemoveLegacy, Installing, Installs
  <2>5. CASE WriteOwner
    BY <2>5, <1>1, InstallsOn DEF WriteOwner, Installing, Installs
  <2>6. CASE EnableService
    BY <2>6, <1>1, InstallsOn DEF EnableService, Installing, Installs
  <2>7. CASE EnableFence
    BY <2>7, <1>1, InstallsOn DEF EnableFence, Installing, Installs
  <2>8. CASE StartFence
    BY <2>8, <1>1, InstallsOn DEF StartFence, Installing, Installs
  <2>9. CASE RestartService
    BY <2>9, <1>1, InstallsOn DEF RestartService, Installing, Installs
  <2> QED BY <1>1, <2>1, <2>2, <2>3, <2>4, <2>5, <2>6, <2>7, <2>8, <2>9 DEF InstallStep
<1>2. CASE RecoveryStep
  <2>1. CASE Teardown
    BY <2>1 DEF Teardown, Recovers, RecoveryFacts
  <2>2. CASE RemoveTable
    BY <2>2 DEF RemoveTable, Recovers, RecoveryFacts
  <2>3. CASE DisableFence
    BY <2>3 DEF DisableFence, Recovers, RecoveryFacts
  <2>4. CASE RemoveOptIn
    BY <2>4 DEF RemoveOptIn, Recovers, RecoveryFacts
  <2> QED BY <1>2, <2>1, <2>2, <2>3, <2>4 DEF RecoveryStep
<1>3. CASE RemovalStep
  <2>1. CASE DisableService
    BY <2>1, <1>3, RemovesOn DEF DisableService, Removing, Removes
  <2>2. CASE StopService
    BY <2>2, <1>3, RemovesOn DEF StopService, Removing, Removes
  <2>3. CASE RestoreOwnerNotifications
    BY <2>3, <1>3, RemovesOn DEF RestoreOwnerNotifications, Removing, Removes
  <2>4. CASE ClearHosts
    BY <2>4, <1>3, RemovesOn DEF ClearHosts, Removing, Removes
  <2>5. CASE RemoveFile
    <3>1. Removes(at)
      BY <2>5 DEF RemoveFile, Removes
    <3> QED BY <3>1, <1>3, RemovesOn DEF Removing, Removes
  <2>6. CASE RemovePrefix
    BY <2>6, <1>3, RemovesOn DEF RemovePrefix, Removing, Removes
  <2>7. CASE RemoveOwner
    BY <2>7, <1>3, RemovesOn DEF RemoveOwner, Removing, Removes
  <2>8. CASE RemoveKey
    BY <2>8, <1>3, RemovesOn DEF RemoveKey, Removing, Removes
  <2>9. CASE RemovePolicy
    BY <2>9, <1>3, RemovesOn DEF RemovePolicy, Removing, Removes
  <2> QED BY <1>3, <2>1, <2>2, <2>3, <2>4, <2>5, <2>6, <2>7, <2>8, <2>9 DEF RemovalStep
<1> QED BY <1>1, <1>2, <1>3, StepKinds, StartsOnce, EndsIdle, ServiceKeeps DEF script

-----------------------------------------------------------------------------
(* The installer.                                                           *)

\* What main has not refused is what its first step needs.
LEMMA InstallStarts ==
    ASSUME InstallInv, BeginStep
    PROVE  InstallFacts'
<1>1. CASE \E flag \in BOOLEAN : StartInstall(flag)
  <2>1. PICK flag \in BOOLEAN : StartInstall(flag)
    BY <1>1
  <2>2. /\ \A p \in {"cli", "unit", "desktop", "icons", "dns"} : files[p] # "foreign"
        /\ flag \/ optIn = "ours" => files["account"] # "foreign"
        /\ ~(flag \/ optIn = "ours") => \A p \in Assets : ~There(p)
        /\ optIn # "broken"
    BY <2>1 DEF StartInstall, InstallRefused, InstallInv, Ownership, There, Mine, Assets, Menus
  <2>3. /\ job'.kind = "install" /\ job'.network = (flag \/ optIn = "ours")
        /\ at' = IF flag \/ optIn = "ours" THEN "account" ELSE "package"
        /\ files' = files /\ optIn' = optIn
    BY <2>1 DEF StartInstall, Begins, tree, state
  <2>5. \/ at' = "account" /\ job'.network
        \/ at' = "package" /\ optIn' # "ours" /\ optIn' # "broken" /\ ~job'.network
    BY <2>2, <2>3
  <2> QED BY <2>2, <2>3, <2>5
       DEF InstallFacts, Mine, There, AfterOptIn, AfterPackage, AfterPrograms, AfterUnit,
           AfterEntry, AfterDns, AfterFence, AfterDropin, AfterOwner, AfterEnable
<1>2. CASE StartRecovery \/ \E purge \in BOOLEAN : StartRemoval(purge)
  BY <1>2 DEF StartRecovery, StartRemoval, Begins, InstallFacts, Installing
<1> QED BY <1>1, <1>2 DEF BeginStep

\* A step of the installer adds its own file to what the earlier ones have done.
LEMMA InstallGoesOn ==
    ASSUME InstallInv, InstallStep
    PROVE  InstallFacts'
<1> USE
     DEF InstallInv, InstallTypeOK, InstallFacts, Installing, Installs, GoesOn, AfterInstall,
         Mine, There, Assets, tree, state, systemd, AfterOptIn, AfterPackage, AfterPrograms,
         AfterUnit, AfterEntry, AfterDns, AfterFence, AfterDropin, AfterOwner, AfterEnable
<1>0. Installing
  BY InstallsOn
<1> QED
  <2>1. CASE WriteOptIn
    BY <2>1, <1>0 DEF WriteOptIn
  <2>2. CASE CopyPackage
    BY <2>2, <1>0 DEF CopyPackage, With, Path, Inside, Menus
  <2>3. CASE CopyFile
    BY <2>3, <1>0 DEF CopyFile, With, Path, Inside, Menus
  <2>4. CASE RemoveLegacy
    BY <2>4, <1>0 DEF RemoveLegacy, Without, Path, Inside, Menus
  <2>5. CASE WriteOwner
    BY <2>5, <1>0 DEF WriteOwner
  <2>6. CASE EnableService
    BY <2>6, <1>0 DEF EnableService
  <2>7. CASE EnableFence
    BY <2>7, <1>0 DEF EnableFence
  <2>8. CASE StartFence
    BY <2>8, <1>0 DEF StartFence
  <2>9. CASE RestartService
    BY <2>9, <1>0 DEF RestartService
  <2> QED BY <1>0, <2>1, <2>2, <2>3, <2>4, <2>5, <2>6, <2>7, <2>8, <2>9 DEF InstallStep

\* No other step disturbs it.
LEMMA InstallStepFacts ==
    ASSUME InstallInv, InstallNext
    PROVE  InstallFacts'
<1>1. CASE RecoveryStep \/ RemovalStep
  <2>1. job'.kind # "install"
    BY <1>1, RecoversOn, RemovesOn
         DEF InstallInv, InstallFacts, Installing, Removing, AfterOptIn, AfterPackage,
             AfterPrograms, AfterUnit, AfterEntry, AfterDns, AfterFence, AfterDropin, AfterOwner,
             AfterEnable
  <2> QED BY <2>1 DEF InstallFacts, Installing
<1>2. CASE EndStep
  BY <1>2, EndsIdle DEF InstallFacts, Installing
<1>3. CASE ServiceStep
  BY <1>3, ServiceKeeps DEF InstallInv, InstallFacts, Installing, tree, script, Mine, There
<1> QED BY <1>1, <1>2, <1>3, StepKinds, InstallStarts, InstallGoesOn

\* An installation without the option writes files of the network controls only with the opt-in.
LEMMA OptionStepFacts ==
    ASSUME InstallInv, InstallNext
    PROVE  OptionFacts'
<1> USE DEF InstallInv, OptionFacts, Installing, There, Assets
<1>1. CASE InstallStep
  <2>0. Installing /\ job' = job
    BY <1>1, InstallsOn
  <2>1. CASE CopyFile
    <3>1. PICK p \in Path \ {"package", "legacy"} : Installs(p) /\ files' = With({p})
      BY <2>1 DEF CopyFile
    <3>2. p \in Assets => job.network
      BY <3>1 DEF InstallFacts, Installs
    <3>3. optIn' = optIn
      BY <2>1 DEF CopyFile, state
    <3> QED BY <2>0, <3>1, <3>2, <3>3 DEF With, InstallTypeOK, Path
  <2>2. CASE WriteOptIn
    BY <2>0, <2>2 DEF WriteOptIn
  <2>3. CASE CopyPackage \/ RemoveLegacy
    BY <2>0, <2>3 DEF CopyPackage, RemoveLegacy, With, Without, InstallTypeOK, state, Path
  <2>4. CASE UNCHANGED files /\ UNCHANGED optIn
    BY <2>0, <2>4
  <2> QED BY <1>1, <2>1, <2>2, <2>3, <2>4
       DEF InstallStep, WriteOwner, EnableService, EnableFence, StartFence, RestartService, tree,
           state
<1>2. CASE RecoveryStep \/ RemovalStep
  <2>1. job'.kind # "install"
    BY <1>2, RecoversOn, RemovesOn
         DEF InstallFacts, Removing, AfterOptIn, AfterPackage,
             AfterPrograms, AfterUnit, AfterEntry, AfterDns, AfterFence, AfterDropin, AfterOwner,
             AfterEnable
  <2> QED BY <2>1
<1>3. CASE BeginStep
  <2>1. CASE \E flag \in BOOLEAN : StartInstall(flag)
    <3>1. PICK flag \in BOOLEAN : StartInstall(flag)
      BY <2>1
    <3>2. /\ job'.flag = flag /\ job'.network = (flag \/ optIn = "ours")
          /\ UNCHANGED <<files, optIn>>
      BY <3>1 DEF StartInstall, Begins, tree, state
    <3>3. flag \/ optIn = "ours" \/ \A p \in Assets : ~There(p)
      BY <3>1 DEF StartInstall, InstallRefused
    <3> QED BY <3>2, <3>3
  <2> QED BY <1>3, <2>1 DEF BeginStep, StartRecovery, StartRemoval, Begins
<1>4. CASE EndStep
  <2>0. at' = "idle" /\ job' = job
    BY <1>4, EndsIdle
  <2>1. CASE CopyPackageFails \/ CopyFileFails \/ RemovePrefixFails
    <3>1. optIn' = optIn
      BY <2>1 DEF CopyPackageFails, CopyFileFails, RemovePrefixFails, state
    <3>2. \A p \in Assets : files'[p] = files[p]
      BY <2>1
           DEF CopyPackageFails, CopyFileFails, RemovePrefixFails, Without, InstallTypeOK, Inside,
               Path
    <3> QED BY <2>0, <3>1, <3>2
  <2>2. CASE WriteStateFails
    BY <2>0, <2>2 DEF WriteStateFails, tree
  <2>3. CASE ScriptEnds \/ Reboot
    BY <2>0, <2>3 DEF ScriptEnds, Reboot, tree, state
  <2> QED BY <1>4, <2>1, <2>2, <2>3 DEF EndStep
<1>5. CASE ServiceStep
  BY <1>5, ServiceKeeps DEF tree, script
<1> QED BY <1>1, <1>2, <1>3, <1>4, <1>5, StepKinds

-----------------------------------------------------------------------------
(* The removal.                                                             *)

\* With the marker, the directory is there.
LEMMA RemovalStarts ==
    ASSUME InstallInv, BeginStep
    PROVE  RemovalFacts'
<1>1. CASE \E purge \in BOOLEAN : StartRemoval(purge)
  <2>1. prefix /\ at' = "disable" /\ prefix' = prefix
    BY <1>1 DEF StartRemoval, RemoveRefused, InstallInv, Ownership, Mine, Left, Inside, Begins, tree
  <2>2. job'.known => owner' = "ours"
    <3>1. job'.known = (owner = "ours") /\ owner' = owner
      BY <1>1 DEF StartRemoval, Begins, state
    <3> QED BY <3>1
  <2> QED BY <2>1, <2>2
       DEF RemovalFacts, AtState, AfterManifests, AfterMenus, AfterRemovedUnit, AfterCli,
           AfterAssets,
           AfterTeardown, AfterHosts, AfterNotifications, AfterStop, Assets
<1>2. CASE StartRecovery \/ \E flag \in BOOLEAN : StartInstall(flag)
  BY <1>2 DEF StartRecovery, StartInstall, Begins, RemovalFacts, Removing
<1> QED BY <1>1, <1>2 DEF BeginStep

\* The steps of the recovery are taken by uninstall.py too.
LEMMA RemovalRecovers ==
    ASSUME InstallInv, RecoveryStep
    PROVE  RemovalFacts'
<1> USE
     DEF InstallInv, InstallTypeOK, RemovalFacts, Removing, GoesOn, Recovers, AfterRecovery, Left,
         There, Assets, tree, state, systemd, effects, AtState, AfterManifests, AfterMenus,
         AfterRemovedUnit,
         AfterCli, AfterAssets, AfterTeardown, AfterHosts, AfterNotifications, AfterStop
<1> QED
  <2>1. CASE Teardown
    BY <2>1 DEF Teardown, NothingToTearDown, ServiceStops
  <2>2. CASE RemoveTable
    BY <2>2 DEF RemoveTable
  <2>3. CASE DisableFence
    BY <2>3 DEF DisableFence
  <2>4. CASE RemoveOptIn
    BY <2>4 DEF RemoveOptIn
  <2> QED BY <2>1, <2>2, <2>3, <2>4 DEF RecoveryStep

\* A step of uninstall.py removes its own part, and nothing that an earlier one removed returns.
LEMMA RemovalGoesOn ==
    ASSUME InstallInv, RemovalStep
    PROVE  RemovalFacts'
<1> USE
     DEF InstallInv, InstallTypeOK, RemovalFacts, Removing, Removes, GoesOn, AfterRemoval,
         RemovalOrder, Mine, Left, There, Assets, tree, state, systemd, effects, AtState,
         AfterManifests, AfterMenus,
         AfterRemovedUnit, AfterCli, AfterAssets, AfterTeardown, AfterHosts, AfterNotifications,
         AfterStop
<1>0. Removing
  BY RemovesOn
<1> QED
  <2>1. CASE DisableService
    BY <2>1, <1>0 DEF DisableService
  <2>2. CASE StopService
    BY <2>2, <1>0 DEF StopService, ServiceStops
  <2>3. CASE RestoreOwnerNotifications
    BY <2>3, <1>0 DEF RestoreOwnerNotifications
  <2>4. CASE ClearHosts
    BY <2>4, <1>0 DEF ClearHosts
  <2>5. CASE RemoveFile
    BY <2>5, <1>0 DEF RemoveFile, Without, Path, Inside, Menus, FileRefused, Ownership, Left
  <2>6. CASE RemovePrefix
    BY <2>6, <1>0 DEF RemovePrefix, Without, Path, Inside, Menus, Left
  <2>7. CASE RemoveOwner
    BY <2>7, <1>0 DEF RemoveOwner
  <2>8. CASE RemoveKey
    BY <2>8, <1>0 DEF RemoveKey
  <2>9. CASE RemovePolicy
    BY <2>9, <1>0 DEF RemovePolicy
  <2> QED BY <1>0, <2>1, <2>2, <2>3, <2>4, <2>5, <2>6, <2>7, <2>8, <2>9 DEF RemovalStep

\* The service, once stopped, writes nothing.
LEMMA RemovalStepFacts ==
    ASSUME InstallInv, InstallNext
    PROVE  RemovalFacts'
<1>1. CASE InstallStep
  <2>1. job'.kind = "install"
    BY <1>1, InstallsOn DEF Installing
  <2> QED BY <2>1 DEF RemovalFacts, Removing
<1>2. CASE EndStep
  BY <1>2, EndsIdle DEF RemovalFacts, Removing
<1>3. CASE ServiceStep
  <2>1. running \/ UNCHANGED <<hosts, muted>>
    BY <1>3
         DEF ServiceStep, StartService, Enforce, Notify, SaveRules, SaveLedger, ServiceDies,
             effects
  <2>2. Removing /\ at \in AfterStop => UNCHANGED <<hosts, muted>>
    BY <2>1 DEF InstallInv, RemovalFacts, ServiceFacts
  <2>3. AfterNotifications \subseteq AfterStop /\ AfterHosts \subseteq AfterStop
    BY DEF AfterStop, AfterNotifications
  <2> QED BY <1>3, <2>2, <2>3, ServiceKeeps
       DEF InstallInv, RemovalFacts, Removing, tree, script, Left
<1> QED BY <1>1, <1>2, <1>3, StepKinds, RemovalStarts, RemovalRecovers, RemovalGoesOn

-----------------------------------------------------------------------------
(* The reports.                                                             *)

\* After the last step everything has been done.
LEMMA InstallerReports ==
    ASSUME InstallInv, RestartService
    PROVE  EndsAsReported'
<1>1. report' = "installed" /\ at = "restart" /\ Installing
  BY DEF RestartService, Installs, GoesOn, AfterInstall, Installing
<1>2. enabled' /\ wanted' /\ Installed'
  BY <1>1
       DEF RestartService, InstallInv, InstallFacts, Installing, Installed, Equipped, Mine, There,
           Assets,
           tree, state, AfterOptIn, AfterPackage, AfterPrograms, AfterUnit, AfterEntry, AfterDns,
           AfterFence, AfterDropin, AfterOwner, AfterEnable
<1> QED BY <1>1, <1>2 DEF EndsAsReported

LEMMA RecoveryReports ==
    ASSUME InstallInv, RemoveOptIn, report' = "recovered"
    PROVE  EndsAsReported'
  BY DEF RemoveOptIn, Recovers, GoesOn, InstallInv, RecoveryFacts, EndsAsReported, systemd,
         effects

LEMMA RemovalReports ==
    ASSUME InstallInv, RemoveOwner \/ RemovePolicy, report' = "removed"
    PROVE  EndsAsReported'
<1> USE DEF InstallInv
<1>1. at \in {"owner", "policy"} /\ Removing /\ (RemoveOwner => ~job.purge)
  BY DEF RemoveOwner, RemovePolicy, Removes, Removing, GoesOn, AfterRemoval, RemovalOrder,
         ReportFacts
<1>2. /\ ~enabled /\ ~wanted /\ ~hosts /\ optIn = "none" /\ ~prefix
      /\ \A p \in {"dns", "fence", "dropin", "cli", "icons", "unit", "desktop", "legacy",
                  "manifests"} : ~Left(p)
      /\ job.known => ~muted /\ ~Left("owner_manifests")
      /\ at = "policy" => owner = "none"
  BY <1>1
       DEF RemovalFacts, AtState, AfterManifests, AfterMenus, AfterRemovedUnit, AfterCli,
           AfterAssets,
           AfterTeardown, AfterHosts, AfterNotifications, AfterStop
<1>3. ~running /\ ~fenceOn /\ ~table
  BY <1>2 DEF ServiceFacts
<1>4. \A p \in Path \ {"account", "owner_manifests"} : ~Left(p)
  BY <1>2 DEF Ownership, Path, Inside, Assets, Menus
<1>5. /\ UNCHANGED <<files, prefix, optIn, systemd, effects, job>>
      /\ owner' = "none"
      /\ job.purge => signed'["policy"] = "none"
  BY <1>1, <1>2 DEF RemoveOwner, RemovePolicy, Removes, GoesOn, tree, InstallTypeOK, Signed
<1> QED BY <1>2, <1>3, <1>4, <1>5 DEF EndsAsReported, Left, systemd, effects

\* Only these steps report.
LEMMA WhoReports ==
    ASSUME InstallInv, InstallStep \/ RecoveryStep \/ RemovalStep
    PROVE  \/ report' = "none"
           \/ RestartService
           \/ RemoveOptIn /\ report' = "recovered"
           \/ (RemoveOwner \/ RemovePolicy) /\ report' = "removed"
<1> USE DEF InstallInv, ReportFacts, GoesOn
<1>1. CASE InstallStep
  <2>1. CASE WriteOptIn
    BY <2>1, <1>1, InstallsOn DEF WriteOptIn, Installs, AfterInstall, Installing
  <2>2. CASE CopyPackage
    BY <2>2, <1>1, InstallsOn DEF CopyPackage, Installs, AfterInstall, Installing
  <2>3. CASE CopyFile
    BY <2>3, <1>1, InstallsOn
         DEF CopyFile, Installs, AfterInstall, Installing, Path, Inside, Assets, Menus
  <2>4. CASE RemoveLegacy
    BY <2>4, <1>1, InstallsOn DEF RemoveLegacy, Installs, AfterInstall, Installing
  <2>5. CASE WriteOwner
    BY <2>5, <1>1, InstallsOn DEF WriteOwner, Installs, AfterInstall, Installing
  <2>6. CASE EnableService
    BY <2>6, <1>1, InstallsOn DEF EnableService, Installs, AfterInstall, Installing
  <2>7. CASE EnableFence
    BY <2>7, <1>1, InstallsOn DEF EnableFence, Installs, AfterInstall, Installing
  <2>8. CASE StartFence
    BY <2>8, <1>1, InstallsOn DEF StartFence, Installs, AfterInstall, Installing
  <2>9. CASE RestartService
    BY <2>9, <1>1, InstallsOn DEF RestartService, Installs, AfterInstall, Installing
  <2> QED BY <1>1, <2>1, <2>2, <2>3, <2>4, <2>5, <2>6, <2>7, <2>8, <2>9 DEF InstallStep
<1>2. CASE RecoveryStep
  <2>1. CASE Teardown
    BY <2>1 DEF Teardown, Recovers, AfterRecovery, RecoveryFacts
  <2>2. CASE RemoveTable
    BY <2>2 DEF RemoveTable, Recovers, AfterRecovery
  <2>3. CASE DisableFence
    BY <2>3 DEF DisableFence, Recovers, AfterRecovery
  <2>4. CASE RemoveOptIn
    BY <2>4 DEF RemoveOptIn, Recovers, AfterRecovery
  <2> QED BY <1>2, <2>1, <2>2, <2>3, <2>4 DEF RecoveryStep
<1>3. CASE RemovalStep
  <2>1. CASE DisableService
    BY <2>1, <1>3, RemovesOn DEF DisableService, Removes, AfterRemoval, RemovalOrder, Removing
  <2>2. CASE StopService
    BY <2>2, <1>3, RemovesOn DEF StopService, Removes, AfterRemoval, RemovalOrder, Removing
  <2>3. CASE RestoreOwnerNotifications
    BY <2>3, <1>3, RemovesOn
         DEF RestoreOwnerNotifications, Removes, AfterRemoval, RemovalOrder, Removing
  <2>4. CASE ClearHosts
    BY <2>4, <1>3, RemovesOn DEF ClearHosts, Removes, AfterRemoval, RemovalOrder, Removing
  <2>5. CASE RemoveFile
    BY <2>5, <1>3, RemovesOn
         DEF RemoveFile, Removes, AfterRemoval, RemovalOrder, Removing, Path, Inside, Assets,
             Menus
  <2>6. CASE RemovePrefix
    BY <2>6, <1>3, RemovesOn DEF RemovePrefix, Removes, AfterRemoval, RemovalOrder, Removing
  <2>7. CASE RemoveOwner
    BY <2>7, <1>3, RemovesOn DEF RemoveOwner, Removes, AfterRemoval, RemovalOrder, Removing
  <2>8. CASE RemoveKey
    BY <2>8, <1>3, RemovesOn DEF RemoveKey, Removes, AfterRemoval, RemovalOrder, Removing
  <2>9. CASE RemovePolicy
    BY <2>9, <1>3, RemovesOn DEF RemovePolicy, Removes, AfterRemoval, RemovalOrder, Removing
  <2> QED BY <1>3, <2>1, <2>2, <2>3, <2>4, <2>5, <2>6, <2>7, <2>8, <2>9 DEF RemovalStep
<1> QED BY <1>1, <1>2, <1>3

\* After a report, no early end and no service that still works spoils it.
LEMMA EndsAsReportedStep ==
    ASSUME InstallInv, InstallNext
    PROVE  EndsAsReported'
<1>1. CASE InstallStep \/ RecoveryStep \/ RemovalStep
  <2>1. CASE report' = "none"
    BY <2>1 DEF EndsAsReported
  <2> QED BY <1>1, <2>1, WhoReports, InstallerReports, RecoveryReports, RemovalReports
<1>2. CASE BeginStep
  BY <1>2, StartsOnce DEF EndsAsReported
<1>3. CASE EndStep
  <2>1. /\ report' = report /\ UNCHANGED <<enabled, fenceOn, hosts, muted, job>>
        /\ UNCHANGED state \/ WriteStateFails
    BY <1>3, EndsIdle
  <2>2. CASE report = "none"
    BY <2>1, <2>2 DEF EndsAsReported
  <2>3. CASE at = "idle"
    <3>1. Reboot
      BY <1>3, <2>3
           DEF EndStep, CopyPackageFails, CopyFileFails, WriteStateFails, RemovePrefixFails,
               ScriptEnds
    <3>2. UNCHANGED <<tree, state>> /\ running' = FALSE /\ wanted' = enabled
      BY <3>1 DEF Reboot
    <3>3. table' => fenceOn
      BY <3>1 DEF Reboot, BootFence, InstallInv, InstallTypeOK, Mine
    <3> QED BY <2>1, <3>2, <3>3
         DEF InstallInv, EndsAsReported, Installed, Equipped, tree, state, Mine, Left, There
  <2> QED BY <2>2, <2>3 DEF InstallInv, ReportFacts
<1>4. CASE ServiceStep
  <2>1. UNCHANGED <<tree, owner, optIn, enabled, wanted, fenceOn, script>>
    BY <1>4, ServiceKeeps
  <2>2. running \/ UNCHANGED <<hosts, muted, table, signed>>
    BY <1>4
         DEF ServiceStep, StartService, Enforce, Notify, SaveRules, SaveLedger, ServiceDies,
             effects, state
  <2>3. running' => running \/ wanted
    BY <1>4
         DEF ServiceStep, StartService, Enforce, Notify, SaveRules, SaveLedger, ServiceDies,
             systemd
  <2>4. optIn = "ours" \/ table' = table
    BY <1>4
         DEF ServiceStep, StartService, Enforce, Notify, SaveRules, SaveLedger, ServiceDies,
             effects
  <2> QED BY <2>1, <2>2, <2>3, <2>4
       DEF InstallInv, ServiceFacts, EndsAsReported, Installed, Equipped, tree, script, Mine, Left,
           There
<1> QED BY <1>1, <1>2, <1>3, <1>4, StepKinds

\* Foreign files are written by no step: the installer has refused them, and uninstall.py
\* looks at whose the files are.
LEMMA OthersStayStep ==
    ASSUME InstallInv, InstallNext, NEW p \in Path, files[p] = "foreign"
    PROVE  files'[p] = "foreign"
<1>0. /\ files \in [Path -> {"none", "ours", "broken", "foreign"}]
      /\ p \in {"cli", "unit", "desktop", "icons", "dns", "account"}
  BY DEF InstallInv, InstallTypeOK, Ownership
<1>1. CASE UNCHANGED tree
  BY <1>1 DEF tree
<1>2. CASE CopyPackage \/ CopyPackageFails \/ RemovePrefix \/ RemovePrefixFails \/ RemoveLegacy
  BY <1>0, <1>2
       DEF CopyPackage, CopyPackageFails, RemovePrefix, RemovePrefixFails, RemoveLegacy, With,
           Without, Inside
<1>3. CASE CopyFile
  <2>1. PICK q \in Path : Installs(q) /\ files' = With({q})
    BY <1>3 DEF CopyFile
  <2>2. q # p
    BY <1>0, <2>1
         DEF Installs, InstallInv, InstallFacts, Installing, AfterOptIn, AfterPackage,
             AfterPrograms, AfterUnit, AfterEntry, AfterDns, AfterFence, AfterDropin, AfterOwner,
             AfterEnable
  <2> QED BY <1>0, <2>1, <2>2 DEF With
<1>4. CASE RemoveFile
  <2>1. PICK q \in Path :
          /\ Removes(q)
          /\ files' = IF (q = "account" /\ ~Mine(q)) \/ (q = "owner_manifests" /\ owner # "ours")
                      THEN files
                      ELSE Without({q})
    BY <1>4 DEF RemoveFile
  <2>2. (q = "account" /\ ~Mine(q)) \/ q # p
    BY <1>0, <1>4, <2>1
         DEF Removes, RemoveFile, FileRefused, InstallInv, RemovalFacts, Removing, AtState,
             AfterMenus, AfterRemovedUnit, AfterCli, AfterAssets, AfterTeardown, AfterHosts,
             AfterNotifications, AfterStop, Ownership, Mine, Left
  <2> QED BY <1>0, <2>1, <2>2 DEF Without
<1>5. CASE InstallStep
  BY <1>1, <1>2, <1>3, <1>5
       DEF InstallStep, WriteOptIn, WriteOwner, EnableService, EnableFence, StartFence,
           RestartService
<1>6. CASE RecoveryStep \/ BeginStep \/ ServiceStep
  BY <1>1, <1>6, RecoversOn, StartsOnce, ServiceKeeps
<1>7. CASE RemovalStep
  BY <1>1, <1>2, <1>4, <1>7
       DEF RemovalStep, DisableService, StopService, RestoreOwnerNotifications, ClearHosts,
           RemoveOwner, RemoveKey, RemovePolicy
<1>9. CASE CopyFileFails
  BY <1>0, <1>9
       DEF CopyFileFails, InstallInv, InstallFacts, Installing
<1>8. CASE EndStep
  BY <1>1, <1>2, <1>8, <1>9 DEF EndStep, WriteStateFails, ScriptEnds, Reboot
<1> QED BY <1>5, <1>6, <1>7, <1>8, StepKinds

-----------------------------------------------------------------------------
(* What holds at the start, and always.                                     *)

LEMMA InstallInvInit == InstallInit => InstallInv
<1> SUFFICES ASSUME InstallInit PROVE InstallInv
  OBVIOUS
<1>1. /\ files \in [Path -> {"none", "ours", "broken", "foreign"}]
      /\ prefix \in BOOLEAN /\ owner \in {"none", "ours"} /\ enabled = prefix /\ wanted = prefix
  BY DEF InstallInit
<1>2. InstallTypeOK
  <2>1. /\ signed \in [Signed -> {"none", "fits", "stale"}]
        /\ job \in [kind : {"none", "install", "uninstall", "recover"}, flag : BOOLEAN,
                   network : BOOLEAN, purge : BOOLEAN, known : BOOLEAN]
        /\ scripts \in 0 .. MaxScripts /\ troubles \in 0 .. MaxTrouble
    BY InstallationAssumption DEF InstallInit
  <2> QED BY <1>1, <2>1 DEF InstallInit, InstallTypeOK
<1>3. Ownership
  BY DEF InstallInit, Ownership, Path, Inside, Menus, Assets, Mine, Left
<1> QED BY <1>2, <1>3
     DEF InstallInit, InstallInv, ServiceFacts, InstallFacts, Installing, RemovalFacts, Removing,
         RecoveryFacts, OptionFacts, ReportFacts, EndsAsReported

LEMMA InstallInvStep == InstallInv /\ [InstallNext]_installVars => InstallInv'
<1>1. InstallInv /\ InstallNext => InstallInv'
  BY InstallTypeStep, OwnershipStep, ServiceStepFacts, InstallStepFacts, RemovalStepFacts,
       RecoveryStepFacts, OptionStepFacts, ReportStepFacts, EndsAsReportedStep
       DEF InstallInv
<1>2. InstallInv /\ UNCHANGED installVars => InstallInv'
  <2> SUFFICES ASSUME InstallInv, UNCHANGED installVars PROVE InstallInv'
    OBVIOUS
  <2> USE DEF InstallInv, installVars, tree, state, systemd, effects, script
  <2>1. InstallTypeOK' /\ Ownership' /\ ServiceFacts'
    BY DEF InstallTypeOK, Ownership, ServiceFacts, Mine, Left
  <2>2. InstallFacts' /\ RecoveryFacts' /\ ReportFacts' /\ OptionFacts'
    BY DEF InstallFacts, Installing, RecoveryFacts, ReportFacts, OptionFacts, Mine, There
  <2>3. RemovalFacts'
    BY DEF RemovalFacts, Removing, Left
  <2>4. EndsAsReported'
    BY DEF EndsAsReported, Installed, Equipped, Mine, Left, There
  <2> QED BY <2>1, <2>2, <2>3, <2>4
<1> QED BY <1>1, <1>2

LEMMA InstallInvAlways == InstallSpec => []InstallInv
  BY InstallInvInit, InstallInvStep, PTL DEF InstallSpec

\* The variables of Installation keep their types.
THEOREM InstallTypeCorrect == InstallSpec => []InstallTypeOK
<1>1. InstallInv => InstallTypeOK
  BY DEF InstallInv
<1> QED BY <1>1, InstallInvAlways, PTL

\* What install.py, uninstall.py and recover_network.py report is so, but for what uninstall.py
\* does not find where it could not read owner.uid; for any number of scripts, of failures
\* between two of their steps or within a file that is written in its place, and of restarts.
THEOREM EndsAsReportedAlways == InstallSpec => []EndsAsReported
<1>1. InstallInv => EndsAsReported
  BY DEF InstallInv
<1> QED BY <1>1, InstallInvAlways, PTL

\* After an interruption anywhere, install.py with --enable-network-controls, and after an
\* interrupted installation install.py with the same options, refuses only a directory that has
\* lost its marker, a broken marker, or the files of others.
THEOREM InterruptedRepeatsAlways == InstallSpec => []InterruptedRepeats
<1>1. InstallInv => InterruptedRepeats
  BY DEF InstallInv, InstallTypeOK, Ownership, OptionFacts, InterruptedRepeats, Marked,
         InstallRefused, There, Mine, Left, Path, Inside, Menus, Assets
<1> QED BY <1>1, InstallInvAlways, PTL

\* No step of a script replaces or removes a file, or the account, of somebody else.
THEOREM OthersStayAlways == InstallSpec => OthersStay
<1>1. InstallInv /\ [InstallNext]_installVars =>
        [\A p \in Path : files[p] = "foreign" => files'[p] = "foreign"]_installVars
  <2> SUFFICES ASSUME InstallInv, InstallNext, NEW p \in Path, files[p] = "foreign"
               PROVE  files'[p] = "foreign"
    OBVIOUS
  <2> QED BY OthersStayStep
<1> QED BY <1>1, InstallInvAlways, PTL DEF InstallSpec, OthersStay
==============================================================================
