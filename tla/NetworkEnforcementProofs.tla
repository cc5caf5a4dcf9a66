---------------------- MODULE NetworkEnforcementProofs ----------------------
(***************************************************************************)
(* NetworkEnforcement, for every set of needs and any number of failures:  *)
(* the service never takes away what blocks the user, it is healthy only   *)
(* when it enforces its policy, and a recovery leaves nothing behind.      *)
(***************************************************************************)
EXTENDS NetworkEnforcement, TLAPS

\* m calls for all that n calls for.
Covers(n, m) == n.controls \subseteq m.controls /\ n.domains \subseteq m.domains

\* What the job under way has brought about.  A reconcile wants no less than the policy
\* in force; one before a save also what the new policy needs; the resolver comes before
\* the rules that redirect to it, and the rules before the write.
JobInv ==
    /\ at \in Working => Covers(need, job.want)
    /\ at \in Working /\ job.why = "union" => Covers(job.new, job.want) /\ at # "hosts"
    /\ at = "write" => job.why = "union"
    /\ at = "activate" => conf = Wanted(job.want)
    /\ at = "rules" /\ UsesResolver(job.want.controls) => Answers(unit, Wanted(job.want))
    /\ at = "teardown" => job.want.controls = {}
    /\ at \in {"done", "write"} => Blocks(table, unit, job.want)
    /\ at = "hosts" /\ job.why = "expose" => Enforced

\* What root's commands have brought about.
RootInv ==
    /\ at \in ServicePlaces => marker
    /\ at \in RootPlaces => unit = Stopped
    /\ ~marker => at = "stopped" /\ ~Owned(table) /\ conf \in {NoConf, Foreign}
    /\ at \in {"untable", "unmark"} => conf \in {NoConf, Foreign}
    /\ at = "unmark" => ~Owned(table)

NetworkInv == TypeOK /\ JobInv /\ RootInv

-----------------------------------------------------------------------------
(* Needs. *)

\* What blocks for a need blocks for every smaller one.
LEMMA BlocksLess ==
    ASSUME NEW t, NEW u \in {Stopped} \cup Conf, NEW n \in Need, NEW m \in Need,
           Covers(n, m), Blocks(t, u, m)
    PROVE  Blocks(t, u, n)
<1>1. CASE n.controls = {}
  BY <1>1 DEF Blocks
<1>2. CASE n.controls # {}
  <2>1. m.controls # {} /\ n.controls \subseteq m.controls /\ n.domains \subseteq m.domains
    BY <1>2 DEF Covers
  <2>2. Owned(t)
    BY <2>1 DEF Blocks
  <2>3. CASE "whole_internet" \in t
    BY <2>2, <2>3 DEF Blocks
  <2>4. CASE "whole_internet" \notin t
    <3>1. m.controls \subseteq t /\ (UsesResolver(m.controls) => u = Stopped \/ Answers(u, Wanted(m)))
      BY <2>1, <2>4 DEF Blocks
    <3>2. UsesResolver(n.controls) => UsesResolver(m.controls)
      BY <2>1 DEF UsesResolver
    <3>3. Answers(u, Wanted(m)) => Answers(u, Wanted(n))
      <4>1. Wanted(n).domains \subseteq Wanted(m).domains
        BY <2>1 DEF Wanted
      <4>2. Wanted(n).safe => Wanted(m).safe
        BY <2>1 DEF Wanted
      <4> QED BY <4>1, <4>2 DEF Answers
    <3> QED BY <2>1, <2>2, <3>1, <3>2, <3>3 DEF Blocks
  <2> QED BY <2>3, <2>4
<1> QED BY <1>1, <1>2

\* The fence blocks for every need.
LEMMA FenceBlocks ==
    ASSUME NEW u, NEW n
    PROVE  Blocks(Fence, u, n)
<1>1. {} \in SUBSET Controls /\ Fence \in SUBSET Controls
  BY DEF Fence, Controls
<1>2. Owned(Fence)
  BY <1>1, NetworkAssumption DEF Owned
<1> QED BY <1>2 DEF Blocks, Fence

\* A stopped resolver blocks no less than any that runs.
LEMMA StoppedBlocks ==
    ASSUME NEW t, NEW u, NEW n, Blocks(t, u, n)
    PROVE  Blocks(t, Stopped, n)
BY DEF Blocks

LEMMA UnionCovers ==
    ASSUME NEW n \in Need, NEW m \in Need
    PROVE  /\ UnionNeed(n, m) \in Need
           /\ Covers(n, UnionNeed(n, m)) /\ Covers(m, UnionNeed(n, m))
BY DEF UnionNeed, Need, Covers

LEMMA NeedsAreCovered ==
    ASSUME NEW n \in Need
    PROVE  Covers(n, n) /\ Wanted(n) \in Conf
BY DEF Covers, Need, Wanted, Conf

-----------------------------------------------------------------------------
(* Jobs. *)

LEMMA TaskType ==
    ASSUME NEW why \in Reasons, NEW want \in Need, NEW new \in Need
    PROVE  LET task == Task(why, want, new)
           IN  task \in Job /\ task.why = why /\ task.want = want /\ task.new = new
BY DEF Task, Job

LEMMA NoJobType == NoJob \in Job
<1>1. Nothing \in Need /\ "tick" \in Reasons
  BY DEF Nothing, Need, Reasons
<1> QED BY <1>1, TaskType DEF NoJob

\* What is wanted stays the same while the job is carried out.
SameAim(j) == j \in Job /\ j.why = job.why /\ j.want = job.want /\ j.new = job.new

LEMMA ActivateNextAim ==
    ASSUME job \in Job
    PROVE  \A b \in BOOLEAN : ActivateNext(b) => at' = "activate" /\ SameAim(job')
BY DEF Job, SameAim, ActivateNext

LEMMA FenceNextAim ==
    ASSUME job \in Job
    PROVE  \A k \in {1, 2} : FenceNext(k) => at' = "fence" /\ SameAim(job')
BY DEF Job, SameAim, FenceNext

LEMMA FenceOwnable == Fence \in Ownable /\ Fence \subseteq Controls
BY DEF Fence, Ownable, Controls

LEMMA JobFields == job \in Job => job.want \in Need /\ job.new \in Need /\ job.why \in Reasons
BY DEF Job

-----------------------------------------------------------------------------
(* Types. *)

LEMMA TypeInit == Init => TypeOK
<1> SUFFICES ASSUME Init PROVE TypeOK
  OBVIOUS
<1>1. need \in Need /\ job \in Job
  BY NoJobType, NetworkAssumption DEF Init
<1>2. faults \in 0 .. MaxFaults /\ changes \in 0 .. MaxChanges
  BY NetworkAssumption DEF Init
<1>3. at \in ServicePlaces \cup RootPlaces
  BY DEF Init, RootPlaces
<1> QED BY <1>1, <1>2, <1>3 DEF Init, TypeOK

LEMMA TypeStep == TypeOK /\ JobInv /\ [Next]_vars => TypeOK'
<1> SUFFICES ASSUME TypeOK, JobInv, [Next]_vars PROVE TypeOK'
  OBVIOUS
<1> USE NoJobType, FenceOwnable, NetworkAssumption DEF TypeOK, host, flags, bounds, Working, ServicePlaces, RootPlaces
<1>s. UNCHANGED vars => TypeOK'
  BY DEF vars
<1>f. /\ \A k \in {1, 2} : FenceNext(k) => at' \in Working /\ job' \in Job
      /\ \A b \in BOOLEAN : ActivateNext(b) => at' \in Working /\ job' \in Job
  BY FenceNextAim, ActivateNextAim DEF SameAim
<1>a. at = "activate" => conf \in Conf
  BY JobFields, NeedsAreCovered DEF JobInv
<1>b. (Spend => faults' \in 0 .. MaxFaults) /\ (Change => changes' \in 0 .. MaxChanges)
  BY DEF Spend, Change
<1>1. ASSUME ResolverReady PROVE TypeOK'
  BY <1>1 DEF ResolverReady, Goto
<1>2. ASSUME ResolverCollision PROVE TypeOK'
  BY <1>2 DEF ResolverCollision, Refused, Raised, Dies, Rest
<1>3. ASSUME WriteConf PROVE TypeOK'
  BY <1>3, <1>f, JobFields, NeedsAreCovered DEF WriteConf
<1>4. ASSUME RenderRefused PROVE TypeOK'
  BY <1>4, <1>f, <1>b DEF RenderRefused
<1>5. ASSUME Activate PROVE TypeOK'
  BY <1>5, <1>f, <1>a DEF Activate, Goto
<1>6. ASSUME Teardown PROVE TypeOK'
  BY <1>6 DEF Teardown, Goto
<1>7. ASSUME TeardownCollision PROVE TypeOK'
  BY <1>7, <1>f, <1>b DEF TeardownCollision
<1>8. ASSUME Rules PROVE TypeOK'
  BY <1>8, JobFields DEF Rules, Goto, Ruleset, Ours, Need, Ownable
<1>9. ASSUME RulesCollision PROVE TypeOK'
  BY <1>9 DEF RulesCollision, Refused, Raised, Dies, Rest, Ours
<1>10. ASSUME Fenced PROVE TypeOK'
  BY <1>10 DEF Fenced, Rest, Ours
<1>11. ASSUME Done PROVE TypeOK'
  BY <1>11, TaskType DEF Done, Returned, Reconcile, Dies, Rest, Goto, Reasons
<1>12. ASSUME Start PROVE TypeOK'
  BY <1>12, TaskType DEF Start, Reconcile, Reasons
<1>13. ASSUME Tick PROVE TypeOK'
  BY <1>13, TaskType DEF Tick, Reconcile, Reasons
<1>14. ASSUME Hosts PROVE TypeOK'
  BY <1>14, JobFields, TaskType DEF Hosts, Converge
<1>15. ASSUME Write PROVE TypeOK'
  BY <1>15, JobFields, TaskType DEF Write, Reconcile, Reasons
<1>16. ASSUME ResolverFails PROVE TypeOK'
  BY <1>16, <1>f, <1>b DEF ResolverFails, Refused, Raised, Dies, Rest
<1>17. ASSUME ActivateFails PROVE TypeOK'
  BY <1>17, <1>f, <1>b, <1>a DEF ActivateFails
<1>18. ASSUME TeardownFails PROVE TypeOK'
  BY <1>18, <1>f, <1>b DEF TeardownFails
<1>19. ASSUME RulesFail PROVE TypeOK'
  BY <1>19, <1>f, <1>b, JobFields DEF RulesFail, Ours, Ruleset, Need, Ownable
<1>20. ASSUME FenceFails PROVE TypeOK'
  BY <1>20, <1>f, <1>b DEF FenceFails, Refused, Raised, Dies, Rest
<1>21. ASSUME HostsFails PROVE TypeOK'
  BY <1>21 DEF HostsFails, Spend, Raised, Dies, Rest
<1>22. ASSUME WriteFails PROVE TypeOK'
  BY <1>22 DEF WriteFails, Spend, Rest
<1>23. ASSUME Crash PROVE TypeOK'
  BY <1>23, JobFields DEF Crash, Spend, Dies, Rest
<1>24. ASSUME NEW n \in Needs, Save(n) PROVE TypeOK'
  BY <1>24, UnionCovers, TaskType DEF Save, Change, Converge, Reasons
<1>25. ASSUME Reboot PROVE TypeOK'
  BY <1>25 DEF Reboot, Spend, Rest
<1>26. ASSUME BootFence PROVE TypeOK'
  BY <1>26 DEF BootFence, Rest
<1>27. ASSUME BootFenceFails PROVE TypeOK'
  BY <1>27 DEF BootFenceFails, Spend, Rest, Ours
<1>28. ASSUME Recover PROVE TypeOK'
  BY <1>28 DEF Recover, Change, Rest
<1>29. ASSUME RemoveResolver PROVE TypeOK'
  BY <1>29 DEF RemoveResolver, Rest
<1>30. ASSUME RemoveTable PROVE TypeOK'
  BY <1>30 DEF RemoveTable, Rest
<1>31. ASSUME RemoveMarker PROVE TypeOK'
  BY <1>31 DEF RemoveMarker, Rest
<1>32. ASSUME RecoveryFails PROVE TypeOK'
  BY <1>32 DEF RecoveryFails, Spend, Rest, Ours
<1>33. ASSUME OptIn PROVE TypeOK'
  BY <1>33 DEF OptIn, Change, Rest
<1>34. ASSUME Turn PROVE TypeOK'
  BY <1>34 DEF Turn, Change
<1>35. ASSUME Drift PROVE TypeOK'
  BY <1>35 DEF Drift, Change
<1> HIDE DEF TypeOK
<1> QED
  BY <1>s, <1>1, <1>2, <1>3, <1>4, <1>5, <1>6, <1>7, <1>8, <1>9, <1>10, <1>11, <1>12, <1>13, <1>14, <1>15, <1>16, <1>17, <1>18, <1>19, <1>20, <1>21, <1>22, <1>23, <1>24, <1>25, <1>26, <1>27, <1>28, <1>29, <1>30, <1>31, <1>32, <1>33, <1>34, <1>35
  DEF Next, Service, Progress, Failure, Root

-----------------------------------------------------------------------------
(* The service and root. *)

\* The service keeps to its places and leaves the opt-in alone.
LEMMA ServiceKeepsMarker ==
    Service => at \in ServicePlaces /\ at' \in ServicePlaces /\ marker' = marker
<1> USE DEF host, flags, bounds, Working, ServicePlaces
<1>f. /\ \A k \in {1, 2} : FenceNext(k) => at' = "fence"
      /\ \A b \in BOOLEAN : ActivateNext(b) => at' = "activate"
  BY DEF FenceNext, ActivateNext
<1>r. Refused \/ Raised => at' \in {"down", "idle"} /\ marker' = marker
  BY DEF Refused, Raised, Dies, Rest
<1>1. Progress => at \in ServicePlaces /\ at' \in ServicePlaces /\ marker' = marker
  BY <1>f, <1>r DEF Progress, ResolverReady, ResolverCollision, WriteConf, RenderRefused,
     Activate, Teardown, TeardownCollision, Rules, RulesCollision, Fenced, Done, Start, Tick,
     Hosts, Write, Goto, Rest, Dies, Returned, Reconcile, Converge
<1>2. Failure => at \in ServicePlaces /\ at' \in ServicePlaces /\ marker' = marker
  BY <1>f, <1>r DEF Failure, ResolverFails, ActivateFails, TeardownFails, RulesFail,
     FenceFails, HostsFails, WriteFails, Crash, Rest, Dies
<1>3. ASSUME NEW n \in Needs, Save(n)
      PROVE  at \in ServicePlaces /\ at' \in ServicePlaces /\ marker' = marker
  BY <1>3 DEF Save, Converge
<1> QED BY <1>1, <1>2, <1>3 DEF Service

LEMMA RootStep == NetworkInv /\ [Next]_vars => RootInv'
<1> SUFFICES ASSUME TypeOK, RootInv, [Next]_vars PROVE RootInv'
  BY DEF NetworkInv
<1> USE DEF RootInv, host, flags, bounds
<1>1. CASE Service
  <2>1. at \in ServicePlaces /\ at' \in ServicePlaces /\ marker' = marker
    BY <1>1, ServiceKeepsMarker
  <2>2. at' \notin RootPlaces
    BY <2>1 DEF ServicePlaces, Working, RootPlaces
  <2>3. marker' /\ at' \notin {"untable", "unmark"}
    BY <2>1, <2>2 DEF RootPlaces
  <2> QED BY <2>2, <2>3
<1> USE DEF ServicePlaces, Working, RootPlaces
<1>2. CASE Reboot
  BY <1>2 DEF Reboot, Rest, Owned
<1>3. CASE BootFence
  BY <1>3 DEF BootFence, Rest
<1>4. CASE BootFenceFails
  BY <1>4 DEF BootFenceFails, Rest
<1>5. CASE Recover
  BY <1>5 DEF Recover, Rest
<1>6. CASE RemoveResolver
  BY <1>6 DEF RemoveResolver, Rest
<1>7. CASE RemoveTable
  BY <1>7 DEF RemoveTable, Rest, Owned
<1>8. CASE RemoveMarker
  BY <1>8 DEF RemoveMarker, Rest, Owned
<1>9. CASE RecoveryFails
  BY <1>9 DEF RecoveryFails, Rest
<1>10. CASE OptIn
  BY <1>10 DEF OptIn, Rest
<1>11. CASE Turn
  BY <1>11 DEF Turn
<1>12. CASE Drift
  BY <1>12 DEF Drift
<1>13. CASE UNCHANGED vars
  BY <1>13 DEF vars
<1> QED
  BY <1>1, <1>2, <1>3, <1>4, <1>5, <1>6, <1>7, <1>8, <1>9, <1>10, <1>11, <1>12, <1>13
  DEF Next, Root

-----------------------------------------------------------------------------
(* What the job brings about. *)

\* Nothing is asked of a service at rest.
LEMMA AtRest == at' \notin Working => JobInv'
BY DEF JobInv, Working

\* The fence serves the job that failed.
LEMMA AtFence ==
    ASSUME JobInv, at \in Working, at # "hosts", need' = need, at' = "fence", SameAim(job')
    PROVE  JobInv'
BY DEF JobInv, SameAim, Working

\* A resolver that runs for m answers for each smaller need.
LEMMA WantedAnswers ==
    ASSUME NEW n \in Need, NEW m \in Need, Covers(n, m)
    PROVE  Answers(Wanted(m), Wanted(n))
<1>1. Wanted(m) # Stopped
  BY NeedsAreCovered, NetworkAssumption
<1> QED BY <1>1 DEF Answers, Wanted, Covers

LEMMA Reconfigured ==
    ASSUME NEW t, NEW u, NEW n \in Need, NEW m \in Need, Covers(n, m), Blocks(t, u, n)
    PROVE  Blocks(t, Wanted(m), n)
BY WantedAnswers DEF Blocks

\* The rules for m block once the resolver answers.
LEMMA RulesBlock ==
    ASSUME NEW u, NEW m \in Need, UsesResolver(m.controls) => Answers(u, Wanted(m))
    PROVE  Blocks(Ruleset(m.controls), u, m)
<1>1. CASE m.controls = {}
  BY <1>1 DEF Blocks
<1>2. CASE m.controls # {}
  <2>1. m.controls \in SUBSET Controls
    BY DEF Need
  <2>2. Owned(m.controls)
    BY <2>1, NetworkAssumption DEF Owned
  <2>3. Ruleset(m.controls) = m.controls
    BY <1>2 DEF Ruleset
  <2> QED BY <2>2, <2>3 DEF Blocks
<1> QED BY <1>1, <1>2

LEMMA JobStep == NetworkInv /\ [Next]_vars => JobInv'
<1> SUFFICES ASSUME TypeOK, JobInv, [Next]_vars PROVE JobInv'
  BY DEF NetworkInv
<1> USE DEF host, flags, bounds
<1>j. job \in Job /\ need \in Need /\ job.want \in Need /\ job.new \in Need
  BY JobFields DEF TypeOK
<1>n. Needs \subseteq Need
  BY NetworkAssumption
<1>r. at' \in {"idle", "down"} \cup RootPlaces => JobInv'
  BY AtRest DEF Working, RootPlaces
<1>f. \A k \in {1, 2} :
        at \in Working /\ at # "hosts" /\ need' = need /\ FenceNext(k) => JobInv'
  BY <1>j, FenceNextAim, AtFence
<1>e. Refused \/ Raised => at' \in {"idle", "down"}
  BY DEF Refused, Raised, Dies, Rest
\* A reconcile that begins.
<1>b. \A why \in {"start", "started", "tick"} : need' = need /\ Reconcile(why, need) => JobInv'
  <2> SUFFICES ASSUME NEW why \in {"start", "started", "tick"}, need' = need,
                      Reconcile(why, need)
               PROVE  JobInv'
    OBVIOUS
  <2>1. at' = "hosts" /\ job'.why = why /\ job'.want = need
    BY <1>j, TaskType DEF Reconcile, Reasons
  <2> QED BY <1>j, <2>1, NeedsAreCovered DEF JobInv, Working
<1>1. ASSUME ResolverReady PROVE JobInv'
  BY <1>1 DEF ResolverReady, Goto, JobInv, Working
<1>2. ASSUME WriteConf PROVE JobInv'
  <2>1. at = "resolver" /\ need' = need /\ conf' = Wanted(job.want)
    BY <1>2 DEF WriteConf
  <2>2. at' = "activate" /\ SameAim(job')
    BY <1>2, <1>j, ActivateNextAim DEF WriteConf
  <2> QED BY <2>1, <2>2 DEF JobInv, SameAim, Working
<1>3. ASSUME Activate PROVE JobInv'
  <2>1. at = "activate" /\ need' = need /\ conf' = conf
    BY <1>3 DEF Activate
  <2>2. CASE FenceNext(1)
    BY <2>1, <2>2, <1>f DEF Working
  <2>3. CASE Answers(unit', Wanted(job.want)) /\ Goto("rules")
    BY <2>1, <2>3 DEF Goto, JobInv, Working
  <2> QED BY <1>3, <2>2, <2>3 DEF Activate
<1>4. ASSUME Teardown PROVE JobInv'
  <2>1. at = "teardown" /\ need' = need /\ at' = "done" /\ job' = job
    BY <1>4 DEF Teardown, Goto
  <2>2. Blocks(table', unit', job.want)
    BY <2>1 DEF JobInv, Blocks
  <2> QED BY <2>1, <2>2 DEF JobInv, Working
<1>5. ASSUME Rules PROVE JobInv'
  <2>1. at = "rules" /\ need' = need /\ unit' = unit /\ job' = job
    BY <1>5 DEF Rules, Goto
  <2>2. Blocks(table', unit', job.want)
    BY <1>5, <2>1, <1>j, RulesBlock DEF Rules, JobInv
  <2>3. at' \in {"teardown", "done"} /\ (at' = "teardown" => job.want.controls = {})
    BY <1>5 DEF Rules, Goto
  <2> QED BY <2>1, <2>2, <2>3 DEF JobInv, Working
<1>6. ASSUME Done PROVE JobInv'
  <2>1. at = "done" /\ need' = need
    BY <1>6 DEF Done
  <2>2. CASE Reconcile("started", need)
    BY <2>1, <2>2, <1>b
  <2>3. CASE job.why = "union" /\ Goto("write") /\ UNCHANGED host
    BY <2>1, <2>3 DEF Goto, JobInv, Working
  <2>4. CASE at' \in {"idle", "down"}
    BY <2>4, <1>r
  <2> QED BY <1>6, <2>2, <2>3, <2>4 DEF Done, Returned, Dies, Rest
<1>7. ASSUME Start \/ Tick PROVE JobInv'
  BY <1>7, <1>b DEF Start, Tick
<1>8. ASSUME Hosts PROVE JobInv'
  <2>1. at = "hosts" /\ need' = need /\ job.why # "union"
    BY <1>8 DEF Hosts, JobInv, Working
  <2>2. at' \in {"resolver", "rules"} /\ (at' = "rules" => ~UsesResolver(job.want.controls))
    BY <1>8 DEF Hosts, Converge
  <2>3. job'.why = job.why /\ job'.want = job.want /\ job'.new = job.new
    BY <1>8, <1>j, JobFields, TaskType DEF Hosts, Converge
  <2> QED BY <2>1, <2>2, <2>3 DEF JobInv, Working
<1>9. ASSUME Write PROVE JobInv'
  <2>1. at = "write" /\ need' = job.new /\ table' = table /\ unit' = unit
    BY <1>9 DEF Write
  <2>2. at' = "hosts" /\ job'.why = "expose" /\ job'.want = job.new
    BY <1>9, <1>j, TaskType DEF Write, Reconcile, Reasons
  <2>3. Blocks(table, unit, job.want) /\ Covers(job.new, job.want)
    BY <2>1 DEF JobInv, Working
  <2>4. unit \in {Stopped} \cup Conf
    BY DEF TypeOK
  <2>5. Enforced'
    BY <2>1, <2>3, <2>4, <1>j, BlocksLess DEF Enforced
  <2>6. Covers(need', job'.want)
    BY <2>1, <2>2, <1>j, NeedsAreCovered
  <2> QED BY <2>2, <2>5, <2>6 DEF JobInv
<1>10. ASSUME NEW n \in Needs, Save(n) PROVE JobInv'
  <2> DEFINE union == UnionNeed(need, n)
  <2>1. union \in Need /\ Covers(need, union) /\ Covers(n, union)
    BY <1>j, <1>n, UnionCovers
  <2>2. job'.why = "union" /\ job'.want = union /\ job'.new = n /\ need' = need
    BY <1>10, <1>n, <2>1, TaskType DEF Save, Converge, Reasons
  <2>3. \/ at' = "resolver"
        \/ at' = "rules" /\ ~UsesResolver(union.controls)
        \/ at' = "write" /\ union.controls = {}
    BY <1>10 DEF Save, Converge
  <2>4. union.controls = {} => Blocks(table', unit', union)
    BY DEF Blocks
  <2> HIDE DEF union
  <2> QED BY <2>1, <2>2, <2>3, <2>4 DEF JobInv
<1>11. ASSUME \/ RenderRefused \/ TeardownCollision \/ TeardownFails
              \/ ActivateFails \/ RulesFail
       PROVE  JobInv'
  BY <1>11, <1>f DEF RenderRefused, TeardownCollision, TeardownFails, ActivateFails, RulesFail,
     Working
<1>12. ASSUME ResolverFails \/ FenceFails PROVE JobInv'
  BY <1>12, <1>f, <1>e, <1>r DEF ResolverFails, FenceFails, Working
<1>13. ASSUME \/ ResolverCollision \/ RulesCollision \/ Fenced \/ HostsFails
              \/ WriteFails \/ Crash
       PROVE  JobInv'
  BY <1>13, <1>e, <1>r DEF ResolverCollision, RulesCollision, Fenced, HostsFails,
     WriteFails, Crash, Dies, Rest
<1>14. ASSUME Root PROVE JobInv'
  BY <1>14, <1>r DEF Root, Reboot, BootFence, BootFenceFails, Recover, RemoveResolver,
     RemoveTable, RemoveMarker, RecoveryFails, OptIn, Rest, RootPlaces
<1>15. ASSUME Turn \/ Drift PROVE JobInv'
  BY <1>15, <1>r DEF Turn, Drift, RootPlaces
<1>16. ASSUME UNCHANGED vars PROVE JobInv'
  BY <1>16 DEF vars, JobInv, Enforced
<1> QED
  BY <1>1, <1>2, <1>3, <1>4, <1>5, <1>6, <1>7, <1>8, <1>9, <1>10, <1>11, <1>12, <1>13,
     <1>14, <1>15, <1>16
  DEF Next, Service, Progress, Failure

\* The invariant holds in every behaviour.
THEOREM NetworkInvariant == Spec => []NetworkInv
<1>1. Init => NetworkInv
  <2> SUFFICES ASSUME Init PROVE NetworkInv
    OBVIOUS
  <2>1. TypeOK
    BY TypeInit
  <2>2. JobInv
    BY DEF Init, JobInv, Working
  <2>3. RootInv
    BY DEF Init, RootInv, ServicePlaces, Working, RootPlaces, Owned
  <2> QED BY <2>1, <2>2, <2>3 DEF NetworkInv
<1>2. NetworkInv /\ [Next]_vars => NetworkInv'
  BY TypeStep, JobStep, RootStep DEF NetworkInv
<1> QED BY <1>1, <1>2, PTL DEF Spec

\* Every variable keeps to its type.
THEOREM TypeCorrect == Spec => []TypeOK
<1>1. NetworkInv => TypeOK
  BY DEF NetworkInv
<1> QED BY <1>1, NetworkInvariant, PTL

\* A recovery that removed the opt-in removed the table, the resolver and its file before
\* (recover in network_enforcement.py).
THEOREM NothingLeftBehindAlways == Spec => []NothingLeftBehind
<1>1. NetworkInv => NothingLeftBehind
  BY DEF NetworkInv, RootInv, NothingLeftBehind, RootPlaces
<1> QED BY <1>1, NetworkInvariant, PTL

-----------------------------------------------------------------------------
(* What blocks the user stays. *)

\* Of steps that change no table, policy or resolver, or stop the resolver.
LEMMA StoppedKeeps ==
    ASSUME table' = table, need' = need, unit' \in {unit, Stopped}, Enforced
    PROVE  Enforced'
BY StoppedBlocks DEF Enforced

LEMMA KeepsBlocking == NetworkInv /\ Service /\ Enforced => Enforced'
<1> SUFFICES ASSUME TypeOK, JobInv, Service, Enforced PROVE Enforced'
  BY DEF NetworkInv
<1> USE DEF host, flags, bounds
<1>j. job \in Job /\ need \in Need /\ job.want \in Need /\ job.new \in Need
  BY JobFields DEF TypeOK
<1>c. at \in Working => Covers(need, job.want)
  BY DEF JobInv
<1>u. unit \in {Stopped} \cup Conf
  BY DEF TypeOK
<1>e. Refused \/ Raised => table' = table /\ unit' \in {unit, Stopped}
  BY DEF Refused, Raised, Dies, Rest
<1>1. ASSUME \/ ResolverReady \/ WriteConf \/ RenderRefused \/ TeardownCollision
             \/ TeardownFails \/ Done \/ Start \/ Tick \/ Hosts \/ WriteFails
      PROVE  Enforced'
  <2>1. table' = table /\ need' = need /\ unit' \in {unit, Stopped}
    BY <1>1 DEF ResolverReady, WriteConf, RenderRefused, TeardownCollision, TeardownFails,
       Done, Returned, Dies, Start, Tick, Hosts, WriteFails
  <2> QED BY <2>1, StoppedKeeps
<1>2. ASSUME \/ ResolverCollision \/ RulesCollision \/ ResolverFails \/ FenceFails
             \/ HostsFails
      PROVE  Enforced'
  <2>1. table' = table /\ need' = need /\ unit' \in {unit, Stopped}
    BY <1>2, <1>e DEF ResolverCollision, RulesCollision, ResolverFails, FenceFails, HostsFails
  <2> QED BY <2>1, StoppedKeeps
<1>3. ASSUME Activate \/ ActivateFails PROVE Enforced'
  <2>1. at = "activate" /\ table' = table /\ need' = need /\ unit' \in {unit, Stopped, conf}
    BY <1>3 DEF Activate, ActivateFails
  <2>2. conf = Wanted(job.want) /\ Covers(need, job.want)
    BY <2>1, <1>c DEF JobInv, Working
  <2>3. Blocks(table, conf, need)
    BY <2>2, <1>j, Reconfigured DEF Enforced
  <2>4. CASE unit' = conf
    BY <2>1, <2>3, <2>4 DEF Enforced
  <2> QED BY <2>1, <2>4, StoppedKeeps
<1>4. ASSUME Teardown PROVE Enforced'
  <2>1. need'.controls = {}
    BY <1>4, <1>c DEF Teardown, JobInv, Covers, Working
  <2> QED BY <2>1 DEF Enforced, Blocks
<1>5. ASSUME Rules \/ RulesFail PROVE Enforced'
  <2>1. at = "rules" /\ need' = need /\ unit' = unit
    BY <1>5 DEF Rules, RulesFail
  <2>2. CASE table' = table
    BY <2>1, <2>2, StoppedKeeps
  <2>3. CASE table' = Ruleset(job.want.controls)
    <3>1. Blocks(table', unit, job.want)
      BY <2>1, <2>3, <1>j, RulesBlock DEF JobInv
    <3>2. Blocks(table', unit, need)
      BY <2>1, <3>1, <1>c, <1>j, <1>u, BlocksLess DEF Working
    <3> QED BY <2>1, <3>2 DEF Enforced
  <2> QED BY <1>5, <2>2, <2>3 DEF Rules, RulesFail
<1>6. ASSUME Fenced PROVE Enforced'
  <2>1. need' = need /\ unit' \in {unit, Stopped}
    BY <1>6 DEF Fenced
  <2>2. CASE table' = Fence
    BY <2>2, FenceBlocks DEF Enforced
  <2>3. CASE table' = table
    BY <2>1, <2>3, StoppedKeeps
  <2> QED BY <1>6, <2>2, <2>3 DEF Fenced
<1>7. at = "write" => Blocks(table, unit, job.new) /\ Blocks(table, unit, need)
  BY <1>c, <1>j, <1>u, BlocksLess DEF JobInv, Working
<1>8. ASSUME Write \/ Crash PROVE Enforced'
  <2>1. table' = table /\ unit' \in {unit, Stopped}
    BY <1>8 DEF Write, Crash, Dies
  <2>2. need' = need \/ (need' = job.new /\ at = "write")
    BY <1>8 DEF Write, Crash
  <2>3. Blocks(table, unit, need')
    BY <2>2, <1>7 DEF Enforced
  <2> QED BY <2>1, <2>3, StoppedBlocks DEF Enforced
<1>9. ASSUME NEW n \in Needs, Save(n) PROVE Enforced'
  BY <1>9, StoppedKeeps DEF Save
<1> QED
  BY <1>1, <1>2, <1>3, <1>4, <1>5, <1>6, <1>8, <1>9 DEF Service, Progress, Failure

\* A step that ends an operation and leaves both flags set ends one that succeeded, or
\* failed only after the network was as wanted.
LEMMA HealthyEnforces ==
    NetworkInv /\ Service /\ at # "idle" /\ at' = "idle" /\ sound' /\ healthy' => Enforced'
<1> SUFFICES ASSUME TypeOK, JobInv, Service, at # "idle", at' = "idle", sound', healthy'
             PROVE  Enforced'
  BY DEF NetworkInv
<1> USE DEF host, flags, bounds
<1>j. job \in Job /\ need \in Need /\ job.want \in Need /\ unit \in {Stopped} \cup Conf
  BY JobFields DEF TypeOK
<1>1. ~ResolverCollision /\ ~RulesCollision /\ ~Fenced
  BY DEF ResolverCollision, RulesCollision, Fenced
<1>2. ~ResolverFails /\ ~FenceFails
  BY DEF ResolverFails, FenceFails, Refused, FenceNext
<1>3. /\ ~ResolverReady /\ ~WriteConf /\ ~RenderRefused /\ ~Activate /\ ~Teardown
      /\ ~TeardownCollision /\ ~Rules /\ ~Start /\ ~Tick /\ ~Hosts /\ ~Write
  BY DEF ResolverReady, WriteConf, ActivateNext, RenderRefused, FenceNext, Activate, Goto,
     Teardown, TeardownCollision, Rules, Start, Tick, Hosts, Write, Reconcile, Converge
<1>4. /\ ~ActivateFails /\ ~TeardownFails /\ ~RulesFail /\ ~Crash /\ \A n \in Needs : ~Save(n)
  BY DEF ActivateFails, TeardownFails, RulesFail, FenceNext, Crash, Dies, Rest, Save
<1>5. ASSUME Done \/ WriteFails PROVE Enforced'
  <2>1. at \in {"done", "write"} /\ need' = need /\ table' = table /\ unit' \in {unit, Stopped}
    BY <1>5 DEF Done, WriteFails, Returned, Dies
  <2>2. Blocks(table, unit, job.want) /\ Covers(need, job.want)
    BY <2>1 DEF JobInv, Working
  <2>3. Enforced
    BY <2>2, <1>j, BlocksLess DEF Enforced
  <2> QED BY <2>1, <2>3, StoppedKeeps
<1>6. ASSUME HostsFails PROVE Enforced'
  <2>1. at = "hosts" /\ need' = need /\ table' = table /\ unit' = unit
    BY <1>6 DEF HostsFails, Raised, Dies, Rest
  <2>2. job.why \notin {"start", "started", "tick"}
    BY <1>6 DEF HostsFails, Raised, Dies, Rest
  <2>3. job.why = "expose"
    BY <2>1, <2>2, <1>j, JobFields DEF JobInv, Reasons, Working
  <2> QED BY <2>1, <2>3 DEF JobInv, Enforced
<1> QED
  BY <1>1, <1>2, <1>3, <1>4, <1>5, <1>6 DEF Service, Progress, Failure

\* Neither a failing command nor a dying process, at any point of a reconcile or of a save,
\* takes away what the policy in force calls for (reconcile, _save).
THEOREM NeverLessBlockedAlways == Spec => NeverLessBlocked
<1>1. NetworkInv /\ [Next]_vars => [Service /\ Enforced => Enforced']_vars
  BY KeepsBlocking
<1> QED BY <1>1, NetworkInvariant, PTL DEF Spec, NeverLessBlocked

\* The service ends an operation with both of its flags set only when its policy is enforced
\* (healthy of service.py and of network_enforcement.py).
THEOREM HealthyMeansEnforcedAlways == Spec => HealthyMeansEnforced
<1>1. NetworkInv /\ [Next]_vars =>
        [Service /\ at # "idle" /\ at' = "idle" /\ sound' /\ healthy' => Enforced']_vars
  BY HealthyEnforces
<1> QED BY <1>1, NetworkInvariant, PTL DEF Spec, HealthyMeansEnforced

\* A table or a file of another owner survives whatever the service, the boot fence and a
\* recovery do (_commit, _write_resolver_config, _teardown_resolver, _remove_owned_table).
THEOREM ForeignUntouchedAlways == Spec => ForeignUntouched
<1> DEFINE Kept == (table = Foreign => table' = Foreign) /\ (conf = Foreign => conf' = Foreign)
<1>1. Service => Kept
  <2> USE DEF host, flags, bounds, Ours
  <2>1. Refused \/ Raised => table' = table /\ conf' = conf
    BY DEF Refused, Raised, Dies
  <2>2. Progress => Kept
    BY <2>1 DEF Progress, ResolverReady, ResolverCollision, WriteConf, RenderRefused,
       Activate, Teardown, TeardownCollision, Rules, RulesCollision, Fenced, Done, Returned,
       Dies, Start, Tick, Hosts, Write
  <2>3. Failure => Kept
    BY <2>1 DEF Failure, ResolverFails, ActivateFails, TeardownFails, RulesFail, FenceFails,
       HostsFails, WriteFails, Crash, Dies
  <2>4. ASSUME NEW n \in Needs, Save(n) PROVE Kept
    BY <2>4 DEF Save
  <2> QED BY <2>2, <2>3, <2>4 DEF Service
<1>2. Root /\ ~Reboot => Kept
  BY DEF Root, BootFence, BootFenceFails, Recover, RemoveResolver, RemoveTable, RemoveMarker,
     RecoveryFails, OptIn, Ours, host, flags, bounds
<1>3. [Next]_vars => [Service \/ (Root /\ ~Reboot) => Kept]_vars
  BY <1>1, <1>2
<1> QED BY <1>3, PTL DEF Spec, ForeignUntouched

=============================================================================
