---------------------------- MODULE Installation ----------------------------
(***************************************************************************)
(* The scripts that root runs on a host: install.py (also the upgrade),     *)
(* uninstall.py and recover_network.py.  Each takes its steps in a fixed    *)
(* order, may refuse, and may fail or be killed between any two of them;    *)
(* the host may restart.  The installed service, the old one during an      *)
(* upgrade, works on meanwhile.                                             *)
(*                                                                         *)
(* A path has no file, one that the scripts wrote, one that they began to   *)
(* write in its place and did not finish, or one of somebody else.          *)
(* A script that ends early leaves the host to the next one, which decides  *)
(* by what it finds whether it goes on.  Root runs one script at a time.    *)
(***************************************************************************)
EXTENDS Naturals

CONSTANTS
    MaxScripts,    \* bound on the scripts that are started
    MaxTrouble     \* bound on failures and restarts

\* Paths, or groups of paths that are written together: those below
\* /usr/lib/distraction-blocker, with its marker INSTALLATION; the units and the drop-in of
\* the network controls, and the resolver's account, which is kept like a file; the entries
\* of the desktop's menus, with the one of an older version; the manifests of the native host
\* below /usr and /etc, and their copies in the owner's home; and others.
Inside == {"package", "programs", "network_entry", "mark"}
Assets == {"dns", "fence", "dropin"}
Menus == {"desktop", "legacy"}
Path == Inside \cup Assets \cup Menus
          \cup {"account", "cli", "icons", "unit", "manifests", "owner_manifests"}

\* Signed files of /var/lib/distraction-blocker: the policy, which stands for all that
\* uninstall.py can remove, and allowance-usage.json.
Signed == {"policy", "ledger"}

ASSUME InstallationAssumption == MaxScripts \in Nat /\ MaxTrouble \in Nat

VARIABLES
    files,      \* of each path: "none", "ours", "broken" (begun and not whole) or "foreign"
    prefix,     \* /usr/lib/distraction-blocker exists
    owner,      \* owner.uid: "none", "ours" or "broken"
    optIn,      \* the marker network.enabled: "none", "ours" or "broken"
    signed,     \* of each signed file: "none", or its signature "fits" hmac.key, or is "stale"
    needs,      \* the policy has a rule with a network control
    enabled,    \* systemd starts the service with the host,
    wanted,     \*   and keeps it up
    running,    \* the service is up
    fenceOn,    \* the boot fence is enabled
    hosts,      \* there is a managed section in /etc/hosts
    table,      \* there is an nftables table of ours
    muted,      \* notifications are blocked, and the user's choice is saved
    at,         \* the next step of the script, or "idle"
    job,        \* the script, --enable-network-controls and --remove-policy, its network_on,
                \*   and whether owner.uid could be read when it started
    report,     \* what the last script has reported
    scripts, troubles

tree == <<files, prefix>>
state == <<owner, optIn, signed, needs>>
systemd == <<enabled, wanted, running, fenceOn>>
effects == <<hosts, table, muted>>
script == <<at, job, report, scripts>>
installVars == <<tree, state, systemd, effects, script, troubles>>

Mine(p) == files[p] = "ours"
There(p) == files[p] # "none"
Left(p) == files[p] \in {"ours", "broken"}
With(paths) == [p \in Path |-> IF p \in paths THEN "ours" ELSE files[p]]
Without(paths) == [p \in Path |-> IF p \in paths THEN "none" ELSE files[p]]

Trouble == troubles < MaxTrouble /\ troubles' = troubles + 1

-----------------------------------------------------------------------------
(* A host that has nothing of it, but maybe files of others; or an older     *)
(* version, with another name of its menu entry.                            *)

InstallInit ==
    /\ \/ /\ \E others \in SUBSET {"cli", "unit", "desktop", "icons", "dns", "account"} :
               files = [p \in Path |-> IF p \in others THEN "foreign" ELSE "none"]
          /\ prefix = FALSE
       \/ /\ files = [p \in Path |-> IF p \in {"package", "programs", "mark", "cli", "unit", "legacy",
                                               "manifests", "owner_manifests"} THEN "ours" ELSE "none"]
          /\ prefix = TRUE
    /\ owner = (IF prefix THEN "ours" ELSE "none") /\ enabled = prefix /\ wanted = prefix
    /\ optIn = "none" /\ signed = [f \in Signed |-> "none"] /\ needs = FALSE
    /\ running = FALSE /\ fenceOn = FALSE /\ hosts = FALSE /\ table = FALSE /\ muted = FALSE
    /\ at = "idle" /\ report = "none"
    /\ job = [kind |-> "none", flag |-> FALSE, network |-> FALSE, purge |-> FALSE, known |-> FALSE]
    /\ scripts = 0 /\ troubles = 0

-----------------------------------------------------------------------------
(* The order of the steps.                                                  *)

AfterInstall(step) ==
    [account |-> "optIn", optIn |-> "package", package |-> "programs", programs |-> "cli",
     cli |-> "unit", unit |-> IF job.network THEN "network_entry" ELSE "desktop",
     network_entry |-> "dns", dns |-> "fence", fence |-> "dropin", dropin |-> "desktop",
     desktop |-> "icons", icons |-> "manifests", manifests |-> "owner_manifests",
     owner_manifests |-> "legacy", legacy |-> "mark",
     mark |-> "owner", owner |-> "enable",
     enable |-> IF job.network THEN "enableFence" ELSE "restart",
     enableFence |-> "startFence", startFence |-> "restart", restart |-> "idle"][step]

AfterRecovery(step) ==
    [table |-> "disableFence", disableFence |-> "optOut",
     optOut |-> IF job.kind = "uninstall" THEN "dns" ELSE "idle"][step]

RemovalOrder ==
    [disable |-> "stop", stop |-> "notifications", notifications |-> "hosts", hosts |-> "teardown",
     dns |-> "fence", fence |-> "dropin", dropin |-> "account", account |-> "cli", cli |-> "icons",
     icons |-> "unit", unit |-> "desktop", desktop |-> "legacy", legacy |-> "manifests",
     manifests |-> "owner_manifests", owner_manifests |-> "prefix", prefix |-> "owner",
     owner |-> IF job.purge THEN "key" ELSE "idle", key |-> "policy", policy |-> "idle"]
\* Mutant: the directory goes before the unit and the menus.
PrefixBeforeUnit(step) ==
    [RemovalOrder EXCEPT !["icons"] = "prefix", !["prefix"] = "unit", !["owner_manifests"] = "owner"][step]
AfterRemoval(step) == RemovalOrder[step]

\* The script goes on with the next step; after the last one it reports.
GoesOn(next, result) ==
    /\ at' = next
    /\ report' = IF next = "idle" THEN result ELSE report
    /\ UNCHANGED <<job, scripts, troubles>>
Installs(step) == job.kind = "install" /\ at = step /\ GoesOn(AfterInstall(step), "installed")
Removes(step) == job.kind = "uninstall" /\ at = step /\ GoesOn(AfterRemoval(step), "removed")
Recovers(step) == at = step /\ GoesOn(AfterRecovery(step), "recovered")

Begins(step, kind, flag, network, purge) ==
    /\ at = "idle" /\ at' = step /\ report' = "none"
    /\ scripts < MaxScripts /\ scripts' = scripts + 1
    /\ job' = [kind |-> kind, flag |-> flag, network |-> network, purge |-> purge,
               known |-> owner = "ours"]
    /\ UNCHANGED <<tree, state, systemd, effects, troubles>>

\* A service that is stopped restores notifications if it still can.
ServiceStops == running' = FALSE /\ muted' \in {muted, muted /\ ~running}

-----------------------------------------------------------------------------
(* install.py                                                               *)

\* What main, installation_exists, check_cli_collision, install_files and ensure_dns_user
\* refuse before anything is changed; flag is --enable-network-controls.
InstallRefused(flag) ==
    \/ optIn = "broken"
    \/ prefix /\ ~Mine("mark")
    \/ ~prefix /\ \E p \in Menus \cup {"unit"} : There(p)
    \/ files["cli"] = "foreign" \/ files["icons"] = "foreign"
    \/ ~flag /\ optIn # "ours" /\ \E p \in Assets : There(p)
    \/ (flag \/ optIn = "ours") /\ \E p \in Assets \cup {"account"} : files[p] = "foreign"

StartInstall(flag) ==
    /\ ~InstallRefused(flag)
    /\ LET network == flag \/ optIn = "ours"
       IN  Begins(IF network THEN "account" ELSE "package", "install", flag, network, FALSE)

WriteOptIn ==
    /\ Installs("optIn") /\ optIn' = "ours"
    /\ UNCHANGED <<tree, owner, signed, needs, systemd, effects>>

\* copy_tree removes the old tree before it copies the new one; a part of one is none.
CopyPackage ==
    /\ Installs("package") /\ files' = With({"package"}) /\ prefix' = TRUE
    /\ UNCHANGED <<state, systemd, effects>>
CopyPackageFails ==
    /\ job.kind = "install" /\ at = "package" /\ at' = "idle" /\ Trouble
    /\ files' = Without({"package"}) /\ prefix' = TRUE
    /\ UNCHANGED <<state, systemd, effects, job, report, scripts>>

\* Any other file replaces the old one as a whole, or is whole when its step is over.
CopyFile ==
    /\ \E p \in Path \ {"package", "legacy"} : Installs(p) /\ files' = With({p})
    /\ UNCHANGED <<prefix, state, systemd, effects>>
\* The unit is copied and then written again in its place, as the marker of the installation
\* is: the script may be killed in between.
CopyFileFails ==
    /\ job.kind = "install" /\ at \in {"unit", "mark"} /\ at' = "idle" /\ Trouble
    /\ files' = [files EXCEPT ![at] = "broken"]
    /\ UNCHANGED <<prefix, state, systemd, effects, job, report, scripts>>

\* The names of an older version.
RemoveLegacy ==
    /\ Installs("legacy") /\ files' = Without({"legacy"})
    /\ UNCHANGED <<prefix, state, systemd, effects>>

WriteOwner ==
    /\ Installs("owner") /\ owner' = "ours"
    /\ UNCHANGED <<tree, optIn, signed, needs, systemd, effects>>

\* owner.uid is written in its place; the marker of the opt-in is created and then filled,
\* if there is none.
WriteStateFails ==
    /\ job.kind = "install" /\ at' = "idle" /\ Trouble
    /\ \/ at = "owner" /\ owner' = "broken" /\ optIn' = optIn
       \/ at = "optIn" /\ optIn = "none" /\ optIn' = "broken" /\ owner' = owner
    /\ UNCHANGED <<tree, signed, needs, systemd, effects, job, report, scripts>>

EnableService ==
    /\ Installs("enable") /\ enabled' = TRUE
    /\ UNCHANGED <<tree, state, wanted, running, fenceOn, effects>>

EnableFence ==
    /\ Installs("enableFence") /\ fenceOn' = TRUE
    /\ UNCHANGED <<tree, state, enabled, wanted, running, effects>>

StartFence ==
    /\ Installs("startFence") /\ table' = TRUE
    /\ UNCHANGED <<tree, state, systemd, hosts, muted>>

RestartService ==
    /\ Installs("restart") /\ wanted' = TRUE /\ ServiceStops
    /\ UNCHANGED <<tree, state, enabled, fenceOn, hosts, table>>

-----------------------------------------------------------------------------
(* recover_network.py, and network_teardown of uninstall.py                 *)

StartRecovery == owner = "ours" /\ Begins("teardown", "recover", FALSE, FALSE, FALSE)

\* Mutant: only the marker tells whether there are network controls.
NothingToTearDownByMarker == job.kind = "uninstall" /\ optIn = "none"
NothingToTearDown == job.kind = "uninstall" /\ optIn = "none" /\ \A p \in Assets : ~There(p)

\* uninstall.py checks whose the files are, and does not go on with a broken marker and no
\* files; systemctl fails for a unit that is not there.
TeardownRefused ==
    \/ job.kind = "uninstall" /\ \E p \in Assets : files[p] = "foreign"
    \/ owner # "ours" \/ ~There("fence")

Teardown ==
    /\ at = "teardown" /\ wanted' = FALSE /\ ServiceStops
    /\ at' = IF NothingToTearDown THEN "cli" ELSE IF TeardownRefused THEN "idle" ELSE "table"
    /\ UNCHANGED <<tree, state, enabled, fenceOn, hosts, table, job, report, scripts, troubles>>

RemoveTable ==
    /\ Recovers("table") /\ table' = FALSE
    /\ UNCHANGED <<tree, state, systemd, hosts, muted>>

DisableFence ==
    /\ Recovers("disableFence") /\ fenceOn' = FALSE
    /\ UNCHANGED <<tree, state, enabled, wanted, running, effects>>

\* A marker that is not whole is nobody's to remove.
RemoveOptIn ==
    /\ optIn # "broken" /\ Recovers("optOut") /\ optIn' = "none"
    /\ UNCHANGED <<tree, owner, signed, needs, systemd, effects>>

-----------------------------------------------------------------------------
(* uninstall.py                                                             *)

RemoveRefused == ~Mine("mark") \/ ~There("unit")

StartRemoval(purge) == ~RemoveRefused /\ Begins("disable", "uninstall", FALSE, FALSE, purge)

DisableService ==
    /\ Removes("disable") /\ enabled' = FALSE
    /\ UNCHANGED <<tree, state, wanted, running, fenceOn, effects>>

StopService ==
    /\ Removes("stop") /\ wanted' = FALSE /\ ServiceStops
    /\ UNCHANGED <<tree, state, enabled, fenceOn, hosts, table>>

\* Where owner.uid could not be read, nobody's notifications are restored.
RestoreOwnerNotifications ==
    /\ Removes("notifications") /\ muted' = (muted /\ ~job.known)
    /\ UNCHANGED <<tree, state, systemd, hosts, table>>

ClearHosts ==
    /\ Removes("hosts") /\ hosts' = FALSE
    /\ UNCHANGED <<tree, state, systemd, table, muted>>

\* A wrapper or an icon of somebody else is no file to remove, nor is his account; the copies
\* in the owner's home are found if owner.uid can be read.
FileRefused == job.kind = "uninstall" /\ at \in {"cli", "icons"} /\ files[at] = "foreign"

RemoveFile ==
    /\ ~FileRefused
    /\ \E p \in Path \ Inside :
         /\ Removes(p)
         /\ files' = IF (p = "account" /\ ~Mine(p)) \/ (p = "owner_manifests" /\ owner # "ours")
                     THEN files
                     ELSE Without({p})
    /\ UNCHANGED <<prefix, state, systemd, effects>>

RemovePrefix ==
    /\ Removes("prefix") /\ files' = Without(Inside) /\ prefix' = FALSE
    /\ UNCHANGED <<state, systemd, effects>>
\* rmtree removes one file after the other.
RemovePrefixFails ==
    /\ job.kind = "uninstall" /\ at = "prefix" /\ at' = "idle" /\ Trouble
    /\ \E some \in SUBSET Inside : files' = Without(some)
    /\ UNCHANGED <<prefix, state, systemd, effects, job, report, scripts>>

RemoveOwner ==
    /\ Removes("owner") /\ owner' = "none"
    /\ UNCHANGED <<tree, optIn, signed, needs, systemd, effects>>

\* What was signed with hmac.key fits no key that is made later.
RemoveKey ==
    /\ Removes("key") /\ signed' = [f \in Signed |-> IF signed[f] = "fits" THEN "stale" ELSE signed[f]]
    /\ UNCHANGED <<tree, owner, optIn, needs, systemd, effects>>

\* The names of POLICY_FILES, which the ledger of allowances is not among.
RemovePolicy ==
    /\ Removes("policy") /\ signed' = [signed EXCEPT !["policy"] = "none"] /\ needs' = FALSE
    /\ UNCHANGED <<tree, owner, optIn, systemd, effects>>

-----------------------------------------------------------------------------
(* Scripts that end early, the service and the host.                        *)

\* systemd may refuse to do anything with a unit that is not whole.
UnitRefused == job.kind = "uninstall" /\ at \in {"disable", "stop"} /\ ~Mine("unit")
MarkerRefused == at = "optOut" /\ optIn = "broken"

ScriptEnds ==
    /\ at # "idle" /\ at' = "idle"
    /\ IF FileRefused \/ UnitRefused \/ MarkerRefused THEN UNCHANGED troubles ELSE Trouble
    /\ UNCHANGED <<tree, state, systemd, effects, job, report, scripts>>

\* What systemd needs in order to run the service, and the service in order to come up.
Equipped ==
    /\ Mine("package") /\ Mine("programs") /\ owner = "ours"
    /\ optIn = "ours" => \A p \in Assets \cup {"network_entry"} : Mine(p)
    /\ There("dropin") => There("fence")
Installed == Mine("unit") /\ Equipped
Loads == (\A f \in Signed : signed[f] # "stale") /\ (needs => optIn = "ours")

\* A unit that is not whole may be the one that was copied and not written again.
StartService ==
    /\ wanted /\ ~running /\ Left("unit") /\ Equipped /\ Loads /\ running' = TRUE
    /\ UNCHANGED <<tree, state, enabled, wanted, fenceOn, effects, script, troubles>>

Enforce ==
    /\ running /\ hosts' \in BOOLEAN /\ table' \in (IF optIn = "ours" THEN BOOLEAN ELSE {table})
    /\ UNCHANGED <<tree, state, systemd, muted, script, troubles>>

Notify ==
    /\ running /\ muted' = ~muted
    /\ UNCHANGED <<tree, state, systemd, hosts, table, script, troubles>>

SaveRules ==
    /\ running /\ needs' \in {FALSE, optIn = "ours"} /\ signed' = [signed EXCEPT !["policy"] = "fits"]
    /\ UNCHANGED <<tree, owner, optIn, systemd, effects, script, troubles>>

SaveLedger ==
    /\ running /\ signed' = [signed EXCEPT !["ledger"] = "fits"]
    /\ UNCHANGED <<tree, owner, optIn, needs, systemd, effects, script, troubles>>

ServiceDies ==
    /\ running /\ running' = FALSE /\ Trouble
    /\ UNCHANGED <<tree, state, enabled, wanted, fenceOn, effects, script>>

BootFence ==
    /\ fenceOn /\ optIn = "ours" /\ owner = "ours"
    /\ Mine("fence") /\ Mine("network_entry") /\ Mine("package")

\* The kernel's tables are gone; the boot fence installs its own, if it can.
Reboot ==
    /\ Trouble /\ at' = "idle" /\ running' = FALSE /\ wanted' = enabled /\ table' \in {FALSE, BootFence}
    /\ UNCHANGED <<tree, state, enabled, fenceOn, hosts, muted, job, report, scripts>>

-----------------------------------------------------------------------------
InstallNext ==
    \/ \E flag \in BOOLEAN : StartInstall(flag)
    \/ WriteOptIn \/ CopyPackage \/ CopyPackageFails \/ CopyFile \/ CopyFileFails
    \/ RemoveLegacy \/ WriteOwner \/ WriteStateFails
    \/ EnableService \/ EnableFence \/ StartFence \/ RestartService
    \/ StartRecovery \/ Teardown \/ RemoveTable \/ DisableFence \/ RemoveOptIn
    \/ \E purge \in BOOLEAN : StartRemoval(purge)
    \/ DisableService \/ StopService \/ RestoreOwnerNotifications \/ ClearHosts \/ RemoveFile
    \/ RemovePrefix \/ RemovePrefixFails \/ RemoveOwner \/ RemoveKey \/ RemovePolicy
    \/ ScriptEnds \/ StartService \/ Enforce \/ Notify \/ SaveRules \/ SaveLedger \/ ServiceDies
    \/ Reboot

InstallSpec == InstallInit /\ [][InstallNext]_installVars

-----------------------------------------------------------------------------
(* Properties                                                               *)

InstallTypeOK ==
    /\ files \in [Path -> {"none", "ours", "broken", "foreign"}]
    /\ owner \in {"none", "ours", "broken"} /\ optIn \in {"none", "ours", "broken"}
    /\ signed \in [Signed -> {"none", "fits", "stale"}]
    /\ prefix \in BOOLEAN /\ needs \in BOOLEAN
    /\ enabled \in BOOLEAN /\ wanted \in BOOLEAN /\ running \in BOOLEAN /\ fenceOn \in BOOLEAN
    /\ hosts \in BOOLEAN /\ table \in BOOLEAN /\ muted \in BOOLEAN
    /\ job \in [kind : {"none", "install", "uninstall", "recover"}, flag : BOOLEAN,
               network : BOOLEAN, purge : BOOLEAN, known : BOOLEAN]
    /\ report \in {"none", "installed", "removed", "recovered"}
    /\ scripts \in 0 .. MaxScripts /\ troubles \in 0 .. MaxTrouble

\* When install.py has reported success, everything the service needs is there and whole, and
\* systemd starts it now and with the host; when uninstall.py has, nothing is left that works
\* or blocks, nor any file but the resolver's account, where it could not read owner.uid,
\* though, the owner's manifests and a block of the notifications may be left (see
\* RemovedIsAll); when recover_network.py has, the boot fence and the table are gone.  This
\* holds whatever earlier scripts left behind, however they ended, and while the service works.
EndsAsReported ==
    /\ report = "installed" => enabled /\ wanted /\ Installed
    /\ report = "removed" =>
         /\ ~enabled /\ ~wanted /\ ~running /\ ~hosts
         /\ ~prefix /\ owner = "none" /\ \A p \in Path \ {"account", "owner_manifests"} : ~Left(p)
         /\ job.known => ~muted /\ ~Left("owner_manifests")
         /\ job.purge => signed["policy"] = "none"
    /\ report \in {"removed", "recovered"} => optIn = "none" /\ ~fenceOn /\ ~table

\* What uninstall.py prints is so without exception.  The code does not ensure it: the
\* installer writes owner.uid last, and uninstall.py goes on without it.
RemovedIsAll == report = "removed" => ~muted /\ ~Left("owner_manifests")

\* The directory of the installation has its marker, and that of the opt-in is whole if it is
\* there.
Marked == (prefix => Mine("mark")) /\ optIn # "broken"

\* Wherever a script was interrupted, the installer can be run again with
\* --enable-network-controls, and an interrupted installation with the options it had, and
\* does not take what is left for somebody else's; unless the marker of the installation or
\* that of the opt-in is missing or not whole (see MarkerIsThere).  Without the option the
\* installer refuses what an interrupted removal left of the network controls.
InterruptedRepeats ==
    at = "idle" /\ Marked /\ (\A p \in Path : files[p] # "foreign") =>
        ~InstallRefused(TRUE) /\ (job.kind = "install" => ~InstallRefused(job.flag))

\* Between scripts the markers are there and whole.  The code does not ensure it: the
\* installer writes that of the installation last and in its place, and creates that of the
\* opt-in before it fills it; uninstall.py removes the former with the other files.
MarkerIsThere == at = "idle" => Marked

\* A service that was installed can load what an earlier one has left.  The code does not
\* ensure it: uninstall.py --remove-policy leaves the ledger of allowances.
InstalledLoads == report = "installed" /\ (needs => optIn = "ours") => Loads

\* No script replaces or removes what somebody else put there.
OthersStay == [][\A p \in Path : files[p] = "foreign" => files'[p] = "foreign"]_installVars
=============================================================================
