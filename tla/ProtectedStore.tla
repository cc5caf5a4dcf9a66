--------------------------- MODULE ProtectedStore ---------------------------
(***************************************************************************)
(* The signed files of ProtectedStore.  The policy and the locks are kept  *)
(* twice: save replaces policy.json.bak, then policy.json, each by         *)
(* _atomic_write (a synced temporary file, a rename, a sync of the         *)
(* directory).  Every other signed state (statistics, usage, allowance     *)
(* ledger, delay breaks, scheduled actions) is one file written the same   *)
(* way.  The module models the steps of the writes, an error at each of    *)
(* them, the death of the process and the loss of power between any two,   *)
(* and the damage of one file; loading, falling back to the backup and     *)
(* the migration of an older format.                                       *)
(***************************************************************************)
EXTENDS Naturals, FiniteSets

CONSTANTS
    Values,        \* the states that are saved
    Empty,         \* the state of a system that has no files
    NoValue,
    Absent, Damaged,
    MaxFaults      \* bound on crashes, errors and damage

ASSUME ValuesAssumption ==
    /\ Empty \in Values
    /\ NoValue \notin Values
    /\ MaxFaults \in Nat

Versions == {"old", "current"}
Content == [value : Values, version : Versions]
ASSUME FileAssumption == Absent \notin Content /\ Damaged \notin Content /\ Absent # Damaged

Paths == {"backup", "primary"}
File == Content \cup {Absent, Damaged}
Steps == {"write", "sync"}

VARIABLES
    mirrored,      \* TRUE for the policy, FALSE for a state with a single file
    file,          \* what a process reads from each path
    durable,       \* what a loss of power surely leaves
    key,           \* hmac.key
    process,       \* where the process is
    source,        \* the path being loaded
    target, step,  \* the path being written, and how far
    saving,        \* the value being saved
    memory,        \* the state the service works with
    faults,
    candidates     \* history: the values saved since the last save that returned

fileVars == <<file, durable>>
writeVars == <<target, step, saving>>
vars == <<mirrored, file, durable, key, process, source, target, step, saving,
          memory, faults, candidates>>

Processes == {"down", "keying", "loading", "migrating", "running", "saving", "refused"}

TypeOK ==
    /\ mirrored \in BOOLEAN
    /\ file \in [Paths -> File] /\ durable \in [Paths -> File]
    /\ key \in {"absent", "partial", "whole"}
    /\ process \in Processes
    /\ source \in Paths /\ target \in Paths /\ step \in Steps
    /\ saving \in Values \cup {NoValue}
    /\ memory \in Values
    /\ faults \in Nat
    /\ candidates \subseteq Values

Whole(p) == file[p] \in Content
Writing == process \in {"saving", "migrating"}
\* Mutant: the backup is never written.
OnlyPrimary == "primary"

First == IF mirrored THEN "backup" ELSE "primary"

-----------------------------------------------------------------------------
(* Starting: initialize, and load. *)

\* _load_or_create_key: the key file is created empty, then written; a file of
\* another size refuses the start.
Start ==
    /\ process = "down"
    /\ CASE key = "absent"  -> key' = "partial" /\ process' = "keying"
         [] key = "partial" -> key' = key /\ process' = "refused"
         [] OTHER           -> key' = key /\ process' = "loading"
    /\ source' = "primary"
    /\ UNCHANGED <<mirrored, fileVars, writeVars, memory, faults, candidates>>

WriteKey ==
    /\ process = "keying"
    /\ key' = "whole"
    /\ process' = "loading"
    /\ UNCHANGED <<mirrored, fileVars, source, writeVars, memory, faults, candidates>>

\* A save begins with the temporary file of its first path.
BeginWrite(v) ==
    /\ saving' = v
    /\ candidates' = candidates \cup {v}
    /\ target' = First
    /\ step' = "write"
    /\ UNCHANGED <<mirrored, fileVars, key, source, memory, faults>>

\* _load_file finds a file of the current format.
LoadCurrent ==
    /\ process = "loading"
    /\ Whole(source)
    /\ file[source].version = "current"
    /\ memory' = file[source].value
    /\ process' = "running"
    /\ UNCHANGED <<mirrored, fileVars, key, source, writeVars, faults, candidates>>

\* _load_file finds an older format, converts it and saves the result.
LoadOld ==
    /\ process = "loading"
    /\ Whole(source)
    /\ file[source].version = "old"
    /\ process' = "migrating"
    /\ BeginWrite(file[source].value)

\* Mutant: the backup is never read.
NextSourceWithoutBackup ==
    LET none == \A p \in Paths : file[p] = Absent
    IN  /\ source' = source
        /\ process' = IF none THEN "running" ELSE "refused"
        /\ memory' = IF none THEN Empty ELSE memory

\* The backup is tried next.  When both have failed, a system without files
\* starts empty and any other is refused.
NextSource ==
    LET more == source = "primary" /\ mirrored
        none == ~more /\ \A p \in Paths : file[p] = Absent
    IN  /\ source' = IF more THEN "backup" ELSE source
        /\ process' = IF more THEN "loading" ELSE IF none THEN "running" ELSE "refused"
        /\ memory' = IF none THEN Empty ELSE memory

LoadFails ==
    /\ process = "loading"
    /\ ~Whole(source)
    /\ NextSource
    /\ UNCHANGED <<mirrored, fileVars, key, writeVars, faults, candidates>>

-----------------------------------------------------------------------------
(* save and _save_signed_state. *)

Save(v) ==
    /\ process = "running"
    /\ process' = "saving"
    /\ BeginWrite(v)

\* The temporary file is written, synced and renamed to the path.
Replace ==
    /\ Writing /\ step = "write"
    /\ file' = [file EXCEPT ![target] = [value |-> saving, version |-> "current"]]
    /\ step' = "sync"
    /\ UNCHANGED <<mirrored, durable, key, process, source, target, saving, memory,
                   faults, candidates>>

\* The directory is synced, which makes every rename in it durable; then the
\* primary is written, or save returns and the new state is exposed.
SyncDirectory ==
    /\ Writing /\ step = "sync"
    /\ durable' = file
    /\ step' = "write"
    /\ target' = "primary"
    /\ IF target = "backup"
       THEN UNCHANGED <<process, saving, memory, candidates>>
       ELSE /\ process' = "running"
            /\ saving' = NoValue
            /\ memory' = saving
            /\ candidates' = {saving}
    /\ UNCHANGED <<mirrored, file, key, source, faults>>

\* A step raises: before the rename nothing has changed, after it (chmod, or
\* the sync of the directory) the new file is there.  A service that runs keeps
\* the state it had; one that migrates tries the next file.
WriteFails ==
    /\ Writing
    /\ faults < MaxFaults
    /\ faults' = faults + 1
    /\ saving' = NoValue
    /\ IF process = "saving"
       THEN process' = "running" /\ UNCHANGED <<source, memory>>
       ELSE NextSource
    /\ UNCHANGED <<mirrored, fileVars, key, target, step, candidates>>

-----------------------------------------------------------------------------
(* The environment. *)

Dies ==
    /\ process' = "down"
    /\ saving' = NoValue
    /\ UNCHANGED <<mirrored, key, source, target, step, memory, candidates>>

\* A refused start ends the process.
Exit ==
    /\ process = "refused"
    /\ Dies
    /\ UNCHANGED <<fileVars, faults>>

Crash ==
    /\ process # "down"
    /\ faults < MaxFaults
    /\ faults' = faults + 1
    /\ Dies
    /\ UNCHANGED fileVars

\* A rename that was not synced may be lost.
LosePower ==
    /\ faults < MaxFaults
    /\ faults' = faults + 1
    /\ file' \in [Paths -> File]
    /\ \A p \in Paths : file'[p] \in {file[p], durable[p]}
    /\ durable' = file'
    /\ Dies

\* One of the two files is damaged, while the other is whole.
Damage(p) ==
    /\ mirrored
    /\ faults < MaxFaults
    /\ faults' = faults + 1
    /\ Whole(p)
    /\ \A q \in Paths \ {p} : Whole(q) /\ durable[q] \in Content
    /\ file' = [file EXCEPT ![p] = Damaged]
    /\ durable' = [durable EXCEPT ![p] = Damaged]
    /\ UNCHANGED <<mirrored, key, process, source, writeVars, memory, candidates>>

-----------------------------------------------------------------------------
\* A new system, or one whose files a former version or run has left.
Init ==
    /\ mirrored \in BOOLEAN
    /\ \/ file = [p \in Paths |-> Absent] /\ key = "absent" /\ candidates = {Empty}
       \/ /\ key = "whole"
          /\ \E v \in Values, version \in IF mirrored THEN Versions ELSE {"current"} :
                /\ file = [p \in Paths |-> IF p = "primary" \/ mirrored
                                           THEN [value |-> v, version |-> version]
                                           ELSE Absent]
                /\ candidates = {v}
    /\ durable = file
    /\ process = "down"
    /\ source = "primary" /\ target = "primary" /\ step = "write"
    /\ saving = NoValue
    /\ memory = Empty
    /\ faults = 0

Service ==
    \/ Start \/ WriteKey
    \/ LoadCurrent \/ LoadOld \/ LoadFails
    \/ Replace \/ SyncDirectory \/ Exit

Environment ==
    \/ \E v \in Values : Save(v)
    \/ WriteFails \/ Crash \/ LosePower
    \/ \E p \in Paths : Damage(p)

Next == Service \/ Environment

\* systemd restarts the process without a limit (Restart=always,
\* StartLimitIntervalSec=0) and the process runs.
Spec == Init /\ [][Next]_vars /\ WF_vars(Service)

-----------------------------------------------------------------------------
(* Properties. *)

\* What load returns when no step of it fails.
Loaded ==
    IF Whole("primary") THEN file["primary"].value
    ELSE IF mirrored /\ Whole("backup") THEN file["backup"].value
    ELSE IF \A p \in Paths : file[p] = Absent THEN Empty
    ELSE NoValue

Register == INSTANCE StableRegister WITH value <- Loaded
RegisterSpec == Register!Spec

\* The service never works with a state that a later save has replaced: after a
\* crash, a fall back to the backup or a migration it has the last saved state,
\* or one whose save raised or was cut off since.
NeverStale == process \in {"running", "saving"} => memory \in candidates

\* Whatever fails, a service whose key file is whole comes up again.
ComesUp == []<>(process \in {"running", "saving"}) \/ <>[](key = "partial")
=============================================================================
