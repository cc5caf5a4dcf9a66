------------------------- MODULE NetworkEnforcement -------------------------
(***************************************************************************)
(* Network controls of the protected user: one nftables table, one         *)
(* dedicated resolver with its configuration file, and a fence that denies *)
(* the user the whole internet.  The service reconciles them with the      *)
(* active rules in each tick and around each save of the policy; each      *)
(* command it runs may fail, the process may die between any two of them,  *)
(* the host may restart, root may recover, and other programs may own a    *)
(* table or a file of the same name.                                       *)
(*                                                                         *)
(* The service has one thread: "at" is the place in the operation it is    *)
(* in, and "job" what the operation wants.                                 *)
(***************************************************************************)
EXTENDS Naturals, FiniteSets

CONSTANTS
    Domains,        \* blocked website names
    SearchDomains,  \* those whose block covers every name of a search provider
    Needs,          \* what active rules may need
    MaxFaults,      \* bound on failing commands, crashes, restarts of the host
    MaxChanges,     \* bound on changes of the policy and of the host
    NoTable, NoConf, Stopped,
    Foreign         \* a table or a file of another owner

\* "doh" stands for the controls that need no resolver.
Controls == {"whole_internet", "local_dns", "safe_search", "doh"}
Ownable == (SUBSET Controls) \ {{}}
Need == [controls : SUBSET Controls, domains : SUBSET Domains]
Conf == [domains : SUBSET Domains, safe : BOOLEAN]

ASSUME NetworkAssumption ==
    /\ SearchDomains \subseteq Domains
    /\ Needs \subseteq Need
    /\ NoTable # Foreign /\ \A c \in SUBSET Controls : c # NoTable /\ c # Foreign
    /\ NoConf # Foreign
    /\ \A c \in Conf : c # NoConf /\ c # Foreign /\ c # Stopped
    /\ MaxFaults \in Nat /\ MaxChanges \in Nat

VARIABLES
    need,       \* what the active rules of the persisted policy need
    table,      \* the controls of the table in the kernel
    conf,       \* the resolver's configuration file
    unit,       \* the configuration the resolver runs with
    marker,     \* the opt-in
    healthy,    \* enforcer._healthy
    sound,      \* service._healthy
    at, job,
    faults, changes

host == <<table, conf, unit, marker>>
flags == <<healthy, sound>>
bounds == <<faults, changes>>
vars == <<need, table, conf, unit, marker, healthy, sound, at, job, faults, changes>>

Reasons == {"start", "started", "tick", "union", "expose"}
Job == [why : Reasons,
        want : Need,
        new : Need,           \* what the policy to be saved needs
        restart : BOOLEAN,    \* the file was changed
        tries : 0 .. 2]       \* attempts at the fence that are left
Working == {"hosts", "resolver", "activate", "rules", "teardown", "fence", "done", "write"}
ServicePlaces == Working \cup {"down", "idle"}
RootPlaces == {"boot", "unfenced", "stopped", "recover", "untable", "unmark"}

TypeOK ==
    /\ need \in Need
    /\ table \in {NoTable, Foreign} \cup Ownable
    /\ conf \in {NoConf, Foreign} \cup Conf
    /\ unit \in {Stopped} \cup Conf
    /\ marker \in BOOLEAN /\ healthy \in BOOLEAN /\ sound \in BOOLEAN
    /\ at \in ServicePlaces \cup RootPlaces
    /\ job \in Job
    /\ faults \in 0 .. MaxFaults /\ changes \in 0 .. MaxChanges

Nothing == [controls |-> {}, domains |-> {}]
Task(why, want, new) ==
    [why |-> why, want |-> want, new |-> new, restart |-> FALSE, tries |-> 0]
NoJob == Task("tick", Nothing, Nothing)

Spend == faults < MaxFaults /\ faults' = faults + 1
Change == changes < MaxChanges /\ changes' = changes + 1

-----------------------------------------------------------------------------
(* Rules and configuration. *)

Owned(t) == t # NoTable /\ t # Foreign

\* _desired_ruleset: without controls there is no table.
Ruleset(controls) == IF controls = {} THEN NoTable ELSE controls
Fence == {"whole_internet"}

UsesResolver(controls) == controls \cap {"local_dns", "safe_search"} # {}

\* What the service asks the resolver for.
Wanted(n) == [domains |-> IF "local_dns" \in n.controls THEN n.domains ELSE {},
              safe    |-> "safe_search" \in n.controls]

\* render_resolver_config refuses addresses of a provider all of whose names are
\* blocked, and _prepare_resolver always passes those of every provider.
Renders(c) == c.safe => c.domains \cap SearchDomains = {}

\* The probes of resolver_health: more names may be blocked than are asked for.
Answers(u, c) == u # Stopped /\ c.domains \subseteq u.domains /\ (c.safe => u.safe)

\* Mutant: the union is of controls only.
UnionOfControls(n, m) == [controls |-> n.controls \cup m.controls, domains |-> m.domains]
UnionNeed(n, m) == [controls |-> n.controls \cup m.controls,
                    domains  |-> n.domains \cup m.domains]

-----------------------------------------------------------------------------
(* How an operation of the service begins and ends. *)

Goto(place) == at' = place /\ UNCHANGED job
Rest(place) == at' = place /\ job' = NoJob

\* NetworkEnforcer.reconcile, from its entry.
Converge(why, n, new) ==
    /\ at' = IF UsesResolver(n.controls) THEN "resolver" ELSE "rules"
    /\ job' = Task(why, n, new)

\* Service._reconcile: what is needed now; the hosts file comes first.
Reconcile(why, n) == at' = "hosts" /\ job' = Task(why, n, n)

\* The process ends; its resolver is bound to it.
Dies == Rest("down") /\ unit' = Stopped /\ UNCHANGED <<table, conf, marker>>

\* An exception ends tick and start, and with them the process; a command is answered.
Raised ==
    IF job.why \in {"start", "started", "tick"} THEN Dies
    ELSE Rest("idle") /\ UNCHANGED host

\* An exception of the enforcer, which its caller notes and passes on.
Refused == sound' = FALSE /\ Raised

\* One or two attempts at the fence, and then the exception.
FenceNext(tries) == at' = "fence" /\ job' = [job EXCEPT !.tries = tries]

\* The file is as wanted; it was changed or not.
ActivateNext(differs) == at' = "activate" /\ job' = [job EXCEPT !.restart = differs]

\* Mutant: a service that was unhealthy goes on after a good tick.
ReturnedAlive ==
    IF job.why = "start" THEN Reconcile("started", need) /\ UNCHANGED host
    ELSE IF job.why = "union" THEN Goto("write") /\ UNCHANGED host
    ELSE Rest("idle") /\ UNCHANGED host
\* The caller goes on after a reconcile that succeeded.
Returned ==
    IF job.why = "start" THEN Reconcile("started", need) /\ UNCHANGED host
    ELSE IF job.why = "union" THEN Goto("write") /\ UNCHANGED host
    ELSE IF job.why = "tick" /\ ~sound THEN Dies
    ELSE Rest("idle") /\ UNCHANGED host

-----------------------------------------------------------------------------
(* The enforcer: the resolver. *)

\* A resolver that is configured as wanted and answers is left alone.
ResolverReady ==
    /\ at = "resolver"
    /\ conf = Wanted(job.want) /\ Answers(unit, conf)
    /\ Goto("rules")
    /\ UNCHANGED <<need, host, flags, bounds>>

\* A file of another owner: nothing is changed, and nothing is fenced.
ResolverCollision ==
    /\ at = "resolver" /\ conf = Foreign
    /\ healthy' = FALSE
    /\ Refused
    /\ UNCHANGED <<need, bounds>>

\* The file is written.  It may change because a provider has other addresses.
WriteConf ==
    /\ at = "resolver" /\ conf # Foreign
    /\ Renders(Wanted(job.want))
    /\ \E differs \in BOOLEAN : (conf # Wanted(job.want) => differs) /\ ActivateNext(differs)
    /\ conf' = Wanted(job.want)
    /\ UNCHANGED <<need, table, unit, marker, flags, bounds>>

\* The owner of a file is looked at before, its content after the configuration is made.
RenderRefused ==
    /\ at = "resolver"
    /\ ~Renders(Wanted(job.want))
    /\ healthy' = FALSE
    /\ FenceNext(1)
    /\ UNCHANGED <<need, host, sound, bounds>>

\* The addresses of a provider cannot be looked up; or the file cannot be written,
\* an OSError that reconcile does not catch.
ResolverFails ==
    /\ at = "resolver"
    /\ Spend
    /\ \/ healthy' = FALSE /\ FenceNext(1) /\ UNCHANGED <<host, sound>>
       \/ conf # Foreign /\ UNCHANGED healthy /\ Refused
    /\ UNCHANGED <<need, changes>>

\* The unit is restarted for a changed file, and must answer as wanted.
Activate ==
    LET running == IF job.restart \/ unit = Stopped THEN conf ELSE unit
    IN  /\ at = "activate"
        /\ unit' = running
        /\ IF Answers(running, Wanted(job.want)) THEN Goto("rules") /\ UNCHANGED healthy
           ELSE FenceNext(1) /\ healthy' = FALSE
        /\ UNCHANGED <<need, table, conf, marker, sound, bounds>>

ActivateFails ==
    /\ at = "activate"
    /\ Spend
    /\ unit' \in {unit, Stopped, IF job.restart \/ unit = Stopped THEN conf ELSE unit}
    /\ healthy' = FALSE
    /\ FenceNext(1)
    /\ UNCHANGED <<need, table, conf, marker, sound, changes>>

\* Without controls the unit is stopped and the file removed.
Teardown ==
    /\ at = "teardown" /\ conf # Foreign
    /\ unit' = Stopped /\ conf' = NoConf
    /\ Goto("done")
    /\ UNCHANGED <<need, table, marker, flags, bounds>>

\* A file of another owner is left alone, as is the unit.
TeardownCollision ==
    /\ at = "teardown" /\ conf = Foreign
    /\ healthy' = FALSE
    /\ FenceNext(1)
    /\ UNCHANGED <<need, host, sound, bounds>>

TeardownFails ==
    /\ at = "teardown"
    /\ Spend
    /\ unit' \in {unit, Stopped}
    /\ healthy' = FALSE
    /\ FenceNext(1)
    /\ UNCHANGED <<need, table, conf, marker, sound, changes>>

-----------------------------------------------------------------------------
(* The enforcer: the table. *)

\* Mutant: a table of the name is taken to be the own one.
OursByName(t) == TRUE
\* _commit refuses a table of the name with another comment.
Ours(t) == t # Foreign

\* _apply_ruleset of what is wanted.
Rules ==
    /\ at = "rules" /\ Ours(table)
    /\ table' = Ruleset(job.want.controls)
    /\ Goto(IF job.want.controls = {} THEN "teardown" ELSE "done")
    /\ UNCHANGED <<need, conf, unit, marker, flags, bounds>>

\* Nothing is changed, and nothing is fenced.
RulesCollision ==
    /\ at = "rules" /\ ~Ours(table)
    /\ healthy' = FALSE
    /\ Refused
    /\ UNCHANGED <<need, bounds>>

\* A command fails, before the table is changed or after; both _apply_ruleset and
\* reconcile then fence.
RulesFail ==
    /\ at = "rules"
    /\ Spend
    /\ table' \in {table, IF Ours(table) THEN Ruleset(job.want.controls) ELSE table}
    /\ healthy' = FALSE
    /\ FenceNext(2)
    /\ UNCHANGED <<need, conf, unit, marker, sound, changes>>

\* fence, and the exception that led to it.
Fenced ==
    /\ at = "fence"
    /\ healthy' = FALSE /\ sound' = FALSE
    /\ table' = IF Ours(table) THEN Fence ELSE table
    /\ IF job.why \in {"start", "started", "tick"} THEN Rest("down") /\ unit' = Stopped
       ELSE Rest("idle") /\ UNCHANGED unit
    /\ UNCHANGED <<need, conf, marker, bounds>>

FenceFails ==
    /\ at = "fence"
    /\ Spend
    /\ IF job.tries = 2 THEN FenceNext(1) /\ UNCHANGED <<host, sound>> ELSE Refused
    /\ UNCHANGED <<need, healthy, changes>>

\* reconcile succeeded, and its caller goes on.
Done ==
    /\ at = "done"
    /\ healthy' = TRUE
    /\ Returned
    /\ UNCHANGED <<need, sound, bounds>>

-----------------------------------------------------------------------------
(* The service. *)

\* systemd starts it; start reconciles twice.
Start ==
    /\ at = "down"
    /\ sound' = TRUE /\ healthy' = FALSE
    /\ Reconcile("start", need)
    /\ UNCHANGED <<need, host, bounds>>

Tick ==
    /\ at = "idle"
    /\ Reconcile("tick", need)
    /\ UNCHANGED <<need, host, flags, bounds>>

\* The part of _reconcile before the network.
Hosts ==
    /\ at = "hosts"
    /\ Converge(job.why, job.want, job.new)
    /\ UNCHANGED <<need, host, flags, bounds>>

HostsFails ==
    /\ at = "hosts"
    /\ Spend
    /\ Raised
    /\ UNCHANGED <<need, flags, changes>>

\* Mutant: the policy is written before the union is enforced.
SaveWithoutUnion(n) ==
    /\ at = "idle" /\ sound /\ healthy
    /\ Change
    /\ at' = "write"
    /\ job' = Task("union", UnionNeed(need, n), n)
    /\ UNCHANGED <<need, host, flags, faults>>
\* _save of a policy that needs n: what it and the current one need is enforced first.
Save(n) ==
    LET union == UnionNeed(need, n)
    IN  /\ at = "idle" /\ sound /\ healthy
        /\ Change
        /\ IF union.controls # {} THEN Converge("union", union, n)
           ELSE at' = "write" /\ job' = Task("union", union, n)
        /\ UNCHANGED <<need, host, flags, faults>>

Write ==
    /\ at = "write"
    /\ need' = job.new
    /\ Reconcile("expose", job.new)
    /\ UNCHANGED <<host, flags, bounds>>

WriteFails ==
    /\ at = "write"
    /\ Spend
    /\ Rest("idle")
    /\ UNCHANGED <<need, host, flags, changes>>

\* The process is killed, with the policy written or not.
Crash ==
    /\ at \in Working \cup {"idle"}
    /\ Spend
    /\ need' \in {need, IF at = "write" THEN job.new ELSE need}
    /\ Dies
    /\ UNCHANGED <<flags, changes>>

-----------------------------------------------------------------------------
(* What others do. *)

\* Schedules begin and end.
Turn ==
    /\ at \in {"idle", "down", "boot", "stopped"}
    /\ Change
    /\ need' \in Needs
    /\ UNCHANGED <<host, flags, at, job, faults>>

\* Between two operations an administrator or another program changes the host.
Drift ==
    /\ at \in {"idle", "down"}
    /\ Change
    /\ \/ table' = NoTable /\ UNCHANGED <<conf, unit>>
       \/ table = NoTable /\ table' = Foreign /\ UNCHANGED <<conf, unit>>
       \/ conf' \in {NoConf, Foreign} /\ UNCHANGED <<table, unit>>
       \/ unit' = Stopped /\ UNCHANGED <<table, conf>>
    /\ UNCHANGED <<need, marker, flags, at, job, faults>>

\* The kernel's tables do not outlive the host's restart.
Reboot ==
    /\ Spend
    /\ table' = NoTable /\ unit' = Stopped
    /\ Rest(IF marker THEN "boot" ELSE "stopped")
    /\ UNCHANGED <<need, conf, marker, flags, changes>>

\* The unit that the service requires.
BootFence ==
    /\ at = "boot" /\ Ours(table)
    /\ table' = Fence
    /\ Rest("down")
    /\ UNCHANGED <<need, conf, unit, marker, flags, bounds>>

BootFenceFails ==
    /\ at = "boot"
    /\ IF Ours(table) THEN Spend ELSE UNCHANGED faults
    /\ Rest("unfenced")
    /\ UNCHANGED <<need, host, flags, changes>>

\* Root stops the service, and with it its resolver.
Recover ==
    /\ at \in ServicePlaces \cup {"unfenced", "stopped"} /\ marker
    /\ Change
    /\ unit' = Stopped
    /\ Rest("recover")
    /\ UNCHANGED <<need, table, conf, marker, flags, faults>>

RemoveResolver ==
    /\ at = "recover" /\ conf # Foreign
    /\ conf' = NoConf
    /\ Rest("untable")
    /\ UNCHANGED <<need, table, unit, marker, flags, bounds>>

RemoveTable ==
    /\ at = "untable" /\ Ours(table)
    /\ table' = NoTable
    /\ Rest("unmark")
    /\ UNCHANGED <<need, conf, unit, marker, flags, bounds>>

\* The boot fence is disabled and the marker removed.
RemoveMarker ==
    /\ at = "unmark"
    /\ marker' = FALSE
    /\ Rest("stopped")
    /\ UNCHANGED <<need, table, conf, unit, flags, bounds>>

\* Mutant: recovery goes on after a step that failed.
RecoveryGoesOn ==
    /\ at \in {"recover", "untable", "unmark"}
    /\ \/ at = "recover" /\ conf = Foreign /\ UNCHANGED <<table, faults>>
       \/ at = "untable" /\ ~Ours(table) /\ UNCHANGED <<table, faults>>
       \/ Spend /\ table' \in IF at = "untable" THEN {table, NoTable, Fence} ELSE {table}
    /\ Rest(IF at = "recover" THEN "untable" ELSE "unmark")
    /\ UNCHANGED <<need, conf, unit, marker, flags, changes>>
\* A step fails, and the marker stays.  A table that could not be removed is fenced.
RecoveryFails ==
    /\ at \in {"recover", "untable", "unmark"}
    /\ \/ at = "recover" /\ conf = Foreign /\ UNCHANGED <<table, faults>>
       \/ at = "untable" /\ ~Ours(table) /\ UNCHANGED <<table, faults>>
       \/ Spend /\ table' \in IF at = "untable" /\ Ours(table) THEN {table, NoTable, Fence}
                              ELSE {table}
    /\ Rest("stopped")
    /\ UNCHANGED <<need, conf, unit, marker, flags, changes>>

\* The installation with network controls.
OptIn ==
    /\ at = "stopped" /\ ~marker
    /\ Change
    /\ marker' = TRUE
    /\ Rest("boot")
    /\ UNCHANGED <<need, table, conf, unit, flags, faults>>

-----------------------------------------------------------------------------
Init ==
    /\ need \in Needs
    /\ table \in {NoTable, Foreign} /\ conf \in {NoConf, Foreign} /\ unit = Stopped
    /\ marker = FALSE /\ healthy = FALSE /\ sound = TRUE
    /\ at = "stopped" /\ job = NoJob
    /\ faults = 0 /\ changes = 0

Progress ==
    \/ ResolverReady \/ ResolverCollision \/ WriteConf \/ RenderRefused \/ Activate
    \/ Teardown \/ TeardownCollision \/ Rules \/ RulesCollision \/ Fenced \/ Done
    \/ Start \/ Tick \/ Hosts \/ Write

Failure ==
    \/ ResolverFails \/ ActivateFails \/ TeardownFails \/ RulesFail \/ FenceFails
    \/ HostsFails \/ WriteFails \/ Crash

Service == Progress \/ Failure \/ \E n \in Needs : Save(n)

Root ==
    \/ Reboot \/ BootFence \/ BootFenceFails
    \/ Recover \/ RemoveResolver \/ RemoveTable \/ RemoveMarker \/ RecoveryFails \/ OptIn

Next == Service \/ Root \/ Turn \/ Drift

\* systemd restarts the service whenever it ends, and runs the boot fence; the service
\* ticks at least once a second and each of its commands ends.
Spec == Init /\ [][Next]_vars /\ WF_vars(Progress) /\ WF_vars(BootFence)

-----------------------------------------------------------------------------
(* Properties. *)

\* The table t and the resolver u deny the user what n calls for.  A redirect to a
\* resolver that is stopped denies every name.
Blocks(t, u, n) ==
    \/ n.controls = {}
    \/ /\ Owned(t)
       /\ \/ "whole_internet" \in t
          \/ /\ n.controls \subseteq t
             /\ UsesResolver(n.controls) => u = Stopped \/ Answers(u, Wanted(n))
Enforced == Blocks(table, unit, need)

\* No step of the service, failing or not, takes away what blocks the user while the
\* policy in force after the step still calls for it.
NeverLessBlocked ==
    [][Service /\ Enforced => Enforced']_vars

\* A service that comes to rest and calls itself healthy enforces the policy in force.
HealthyMeansEnforced ==
    [][Service /\ at # "idle" /\ at' = "idle" /\ sound' /\ healthy' => Enforced']_vars

\* Neither the service nor root's commands change a table or a file of another owner.
ForeignUntouched ==
    [][Service \/ (Root /\ ~Reboot) =>
         /\ table = Foreign => table' = Foreign
         /\ conf = Foreign => conf' = Foreign]_vars

\* Once the opt-in is withdrawn nothing of the enforcement is left.
NothingLeftBehind ==
    ~marker => ~Owned(table) /\ unit = Stopped /\ conf \in {NoConf, Foreign}

\* What the policy in force needs, and nothing else, is enforced by a healthy service.
Exact ==
    /\ at = "idle" /\ sound /\ healthy
    /\ table = Ruleset(need.controls)
    /\ UsesResolver(need.controls) => Answers(unit, Wanted(need))
Collides == table = Foreign \/ conf = Foreign
InHandsOfRoot == at \in RootPlaces

\* Whatever failed, what the policy needs is enforced again, as long as the host is
\* in the hands of the service and nobody else owns the names.  A policy for which no
\* configuration can be made ends in the fence.
EnforcementSettles ==
    []<>(\/ Exact \/ Collides \/ InHandsOfRoot
         \/ ~Renders(Wanted(need)) /\ table = Fence)

\* Any combination of controls can be enforced.
CombinationsSettle == []<>(Exact \/ Collides \/ InHandsOfRoot)
=============================================================================
