--------------------------- MODULE ChromiumAdapter ---------------------------
(***************************************************************************)
(* The Chromium extension: a service worker that fetches the policy and    *)
(* turns it into the browser's own rules.  The dynamic rules block what    *)
(* the policy blocks.  A session rule blocks each timed rule, except while *)
(* the worker holds a lease for it.  The browser stops the worker when it  *)
(* pleases and starts it again at the next event.  The rules stay; the     *)
(* worker's memory goes.                                                   *)
(*                                                                         *)
(* One tab: it is in front or not, and shows the site of a rule or no      *)
(* site.  Each rule has one target, its site.  The service answers a lease *)
(* request by its policy: a timed rule whose budget is used up blocks.     *)
(***************************************************************************)
EXTENDS FiniteSetsExt, SequencesExt

CONSTANTS
    Rules,       \* in the order of their ids: a sequence
    Policies,    \* the policies that the service may publish
    NoPolicy, NoSite, NotRunning,
    MaxQueue,    \* bound on the session updates that wait
    MaxEdits,
    MaxFailures  \* bound on stops, restarts and refreshes that fail, together

Kinds == {"off", "block", "timed"}
Sites == ToSet(Rules)
\* A session rule's number stands for TIMED_BLOCK_BASE + index.
Numbers == DOMAIN Rules
SessionRule == [id : Numbers, site : Sites]

\* A session update that the browser was asked for; a timed navigation.
Update == [remove : SUBSET Numbers, add : SUBSET SessionRule]
Opening == [site : Sites, at : {"leasing", "waiting"}, ahead : Nat]
Leaving == [site : Sites, ahead : Nat]

ASSUME ChromiumAssumption ==
    /\ Rules \in Seq(Sites) /\ IsInjective(Rules)
    /\ Policies \subseteq [Sites -> Kinds] /\ Policies # {}
    /\ NoPolicy \notin Policies /\ NoSite \notin Sites
    /\ NotRunning \notin Update \cup Opening
    /\ MaxQueue \in Nat \ {0} /\ MaxEdits \in Nat /\ MaxFailures \in Nat

VARIABLES
    policy,      \* what the service answers
    dynamic,     \* the sites of the browser's dynamic rules
    session,     \* its session rules of timed targets
    snapshot,    \* policy_snapshot of the session storage
    up,          \* the worker runs,
    ready,       \*   and has restored what it kept
    restoring,   \* updates that it waits for before
    applied,     \* the policy of its matchers and timed_policy_rules
    available,   \* timed_available_rules
    blockIds,    \* timed_block_ids, as the session rules it believes in
    waiting,     \* tasks of session_rule_queue that have not started
    rebuild,     \* the session update that is under way
    refresh,     \* the refresh that is under way
    url,         \* active_tab_url
    lease,       \* the rule of the tracker's lease
    opening,     \* the timed navigation that is under way
    leaving,     \* used-up rules whose page leaves when their update is done
    seen,        \* a request that the worker has not looked at yet
    page,        \* the site that the tab shows
    front,       \* the tab is active, its window focused, the user not idle
    refreshed,   \* history: a refresh ended in this life of the worker
    stops, edits, failures

published == <<policy>>
browser == <<dynamic, session, snapshot>>
queue == <<blockIds, waiting, rebuild>>
start == <<ready, restoring>>
tracking == <<url, lease>>
navigation == <<opening, leaving>>
tab == <<page, front>>
bounds == <<stops, edits, failures>>
adapterVars == <<policy, dynamic, session, snapshot, up, ready, restoring, applied, available,
          blockIds, waiting, rebuild, refresh, url, lease, opening, leaving, seen, page, front,
          refreshed, stops, edits, failures>>

OfKind(p, kind) == {s \in Sites : p # NoPolicy /\ p[s] = kind}
Blocks(p) == OfKind(p, "block")
Timed(p) == OfKind(p, "timed")

Refresh == [at : {"idle", "asking", "answered", "replaced", "committed"},
            doc : Policies \cup {NoPolicy}, ahead : Nat]
IdleRefresh == [at |-> "idle", doc |-> NoPolicy, ahead |-> 0]

AdapterTypeOK ==
    /\ policy \in Policies /\ snapshot \in Policies \cup {NoPolicy}
    /\ dynamic \subseteq Sites /\ session \subseteq SessionRule
    /\ up \in BOOLEAN /\ ready \in BOOLEAN /\ restoring \in Nat
    /\ refreshed \in BOOLEAN /\ front \in BOOLEAN
    /\ applied \in Policies \cup {NoPolicy} /\ available \subseteq Sites
    /\ blockIds \subseteq SessionRule /\ waiting \in Nat
    /\ rebuild \in Update \cup {NotRunning} /\ refresh \in Refresh
    /\ url \in Sites \cup {NoSite} /\ lease \in Sites \cup {NoSite}
    /\ opening \in Opening \cup {NotRunning} /\ leaving \subseteq Leaving
    /\ seen \in Sites \cup {NoSite} /\ page \in Sites \cup {NoSite}
    /\ stops \in 0 .. MaxFailures /\ edits \in 0 .. MaxEdits /\ failures \in 0 .. MaxFailures

-----------------------------------------------------------------------------
(* The worker starts: its memory is new, and a refresh is queued. *)

Memory(isUp) ==
    /\ up' = isUp /\ ready' = FALSE /\ restoring' = 0 /\ applied' = NoPolicy /\ available' = {}
    /\ blockIds' = {} /\ waiting' = 0 /\ rebuild' = NotRunning
    /\ refresh' = [IdleRefresh EXCEPT !.at = IF isUp THEN "asking" ELSE "idle"]
    /\ url' = NoSite /\ lease' = NoSite /\ opening' = NotRunning /\ leaving' = {}
    /\ refreshed' = FALSE

AdapterInit ==
    /\ policy \in Policies /\ dynamic = {} /\ session = {} /\ snapshot = NoPolicy
    /\ up = TRUE /\ ready = FALSE /\ restoring = 0 /\ applied = NoPolicy /\ available = {}
    /\ blockIds = {} /\ waiting = 0 /\ rebuild = NotRunning
    /\ refresh = [IdleRefresh EXCEPT !.at = "asking"]
    /\ url = NoSite /\ lease = NoSite /\ opening = NotRunning /\ leaving = {} /\ seen = NoSite
    /\ page = NoSite /\ front = TRUE /\ refreshed = FALSE
    /\ stops = 0 /\ edits = 0 /\ failures = 0

\* An alarm, a request or a change of tabs starts the worker.
Wake ==
    /\ ~up /\ Memory(TRUE)
    /\ UNCHANGED <<published, browser, seen, tab, bounds>>

Stop ==
    /\ up /\ stops + failures < MaxFailures /\ stops' = stops + 1
    /\ Memory(FALSE) /\ seen' = NoSite
    /\ UNCHANGED <<published, browser, tab, edits, failures>>

\* Dynamic rules outlive the browser; what belongs to its session does not.
BrowserRestarts ==
    /\ stops + failures < MaxFailures /\ stops' = stops + 1
    /\ Memory(FALSE) /\ session' = {} /\ snapshot' = NoPolicy
    /\ seen' = NoSite /\ page' = NoSite
    /\ UNCHANGED <<published, dynamic, front, edits, failures>>

Fault == stops + failures < MaxFailures /\ failures' = failures + 1

-----------------------------------------------------------------------------
(* The queue of session updates. *)

Queued == waiting + (IF rebuild = NotRunning THEN 0 ELSE 1)
Enqueue == waiting' = waiting + 1

\* compile_dnr numbers the targets of all timed rules, leased or not.
Numbered(sites) ==
    {[id |-> Cardinality({m \in 1 .. n : Rules[m] \in sites}), site |-> Rules[n]] :
        n \in {k \in Numbers : Rules[k] \in sites}}

\* rebuild_timed_blocks, until the browser is asked.
StartRebuild ==
    /\ up /\ waiting > 0 /\ rebuild = NotRunning
    /\ rebuild' = [remove |-> {b.id : b \in blockIds},
                   add |-> {b \in Numbered(Timed(applied)) : b.site \notin available}]
    /\ waiting' = waiting - 1
    /\ UNCHANGED <<published, browser, up, start, applied, available, blockIds, refresh, tracking,
                   navigation, seen, tab, refreshed, bounds>>

Nearer(task) == IF task.ahead = 0 THEN task ELSE [task EXCEPT !.ahead = @ - 1]

\* Mutant: what is believed is read when the browser has answered.
BelievedLate(update) == {b \in Numbered(Timed(applied)) : b.site \notin available}
Believed(update) == update.add

\* The browser refuses an update that adds a number it has already.
EndRebuild ==
    /\ up /\ rebuild # NotRunning
    /\ LET rest == {b \in session : b.id \notin rebuild.remove}
       IN IF \A a \in rebuild.add, b \in rest : a.id # b.id
          THEN session' = rest \cup rebuild.add /\ blockIds' = Believed(rebuild)
          ELSE UNCHANGED <<session, blockIds>>
    /\ rebuild' = NotRunning
    /\ restoring' = IF restoring = 0 THEN 0 ELSE restoring - 1
    /\ refresh' = Nearer(refresh)
    /\ opening' = IF opening = NotRunning THEN opening ELSE Nearer(opening)
    /\ leaving' = {Nearer(l) : l \in leaving}
    /\ UNCHANGED <<published, dynamic, snapshot, up, ready, applied, available, waiting, tracking,
                   seen, tab, refreshed, bounds>>

-----------------------------------------------------------------------------
(* Restoring, and refreshing the policy. *)

\* attribution_ready: the snapshot is taken up and its update queued.
Restore ==
    /\ up /\ ~ready /\ applied = NoPolicy /\ snapshot # NoPolicy
    /\ applied' = snapshot /\ available' = {} /\ Enqueue /\ restoring' = Queued + 1
    /\ UNCHANGED <<published, browser, up, ready, blockIds, rebuild, refresh, tracking, navigation,
                   seen, tab, refreshed, bounds>>

\* Without a snapshot the requests seen so far are not looked at.
Ready ==
    /\ up /\ ~ready /\ applied = snapshot /\ restoring = 0
    /\ ready' = TRUE /\ seen' = IF applied = NoPolicy THEN NoSite ELSE seen
    /\ UNCHANGED <<published, browser, up, restoring, applied, available, queue, refresh, tracking,
                   navigation, tab, refreshed, bounds>>

\* The alarm, or on_exhausted: refreshes follow each other in a queue.
QueueRefresh ==
    /\ up /\ refresh.at = "idle"
    /\ refresh' = [refresh EXCEPT !.at = "asking"]
    /\ UNCHANGED <<published, browser, up, start, applied, available, queue, tracking, navigation,
                   seen, tab, refreshed, bounds>>

Ask ==
    /\ up /\ refresh.at = "asking"
    /\ refresh' = [refresh EXCEPT !.at = "answered", !.doc = policy]
    /\ UNCHANGED <<published, browser, up, start, applied, available, queue, tracking, navigation,
                   seen, tab, refreshed, bounds>>

\* Mutant: the matchers are replaced before the browser has accepted the rules.
RefreshFailsLate ==
    /\ up /\ Fault
    /\ refresh.at = "answered" /\ ready
    /\ applied' = refresh.doc /\ refresh' = IdleRefresh
    /\ UNCHANGED <<published, browser, up, start, available, queue, tracking, navigation, seen,
                   tab, refreshed, stops, edits>>
\* The service does not answer, or the policy does not compile, or the browser
\* refuses its rules: the old ones stay.
RefreshFails ==
    /\ up /\ Fault
    /\ \/ refresh.at = "asking"
       \/ refresh.at = "answered" /\ ready
    /\ refresh' = IdleRefresh
    /\ UNCHANGED <<published, browser, up, start, applied, available, queue, tracking, navigation,
                   seen, tab, refreshed, stops, edits>>

\* updateDynamicRules; requests are put aside from here to the end.
Replace ==
    /\ up /\ ready /\ refresh.at = "answered"
    /\ dynamic' = Blocks(refresh.doc)
    /\ refresh' = [refresh EXCEPT !.at = "replaced"]
    /\ UNCHANGED <<published, session, snapshot, up, start, applied, available, queue, tracking,
                   navigation, seen, tab, refreshed, bounds>>

\* The worker goes on when the browser has answered.
Commit ==
    /\ up /\ refresh.at = "replaced"
    /\ applied' = refresh.doc /\ lease' = NoSite /\ available' = {} /\ Enqueue
    /\ refresh' = [refresh EXCEPT !.at = "committed", !.ahead = Queued + 1]
    /\ UNCHANGED <<published, browser, up, start, blockIds, rebuild, url, navigation, seen, tab,
                   refreshed, bounds>>

\* Mutant: nothing is to be done when the policy has not changed.
RedirectedOnChange(site) == IF page = site /\ site \in Blocks(applied) /\ applied # snapshot
                            THEN NoSite ELSE page
\* redirect_active_tab_if_blocked: what the tab shows after it.
Redirected(site) ==
    IF page = site /\ (site \in Blocks(applied) \/ site \in Timed(applied) \ available)
    THEN NoSite ELSE page

Paused == refresh.at \in {"replaced", "committed"}

\* The update is done: the tab leaves, and the policy is kept.
EndRefresh ==
    /\ up /\ refresh.at = "committed" /\ refresh.ahead = 0
    /\ page' = IF front /\ url # NoSite THEN Redirected(url) ELSE page
    /\ snapshot' = applied /\ refreshed' = TRUE /\ refresh' = IdleRefresh
    /\ UNCHANGED <<published, dynamic, session, up, start, applied, available, queue, tracking,
                   navigation, seen, front, bounds>>

-----------------------------------------------------------------------------
(* The tracker's callbacks. *)

Match == IF front /\ url \in Timed(applied) THEN url ELSE NoSite

\* queue_timed_rule_block
Reconsider(site, next) ==
    /\ available' = next
    /\ IF site \in Timed(applied) THEN Enqueue ELSE UNCHANGED waiting

\* on_available
LeaseGranted ==
    /\ up /\ Match # NoSite /\ lease = NoSite /\ policy[Match] = "timed" /\ waiting < MaxQueue
    /\ lease' = Match /\ Reconsider(Match, available \cup {Match})
    /\ UNCHANGED <<published, browser, up, start, applied, blockIds, rebuild, refresh, url,
                   navigation, seen, tab, refreshed, bounds>>

\* on_exhausted: the tab leaves when the update is done, and a refresh is queued.
LeaseExhausted ==
    /\ up /\ Match # NoSite /\ lease = NoSite /\ policy[Match] = "block" /\ waiting < MaxQueue
    /\ Reconsider(Match, available \ {Match})
    /\ leaving' = leaving \cup {[site |-> Match, ahead |-> Queued + 1]}
    /\ refresh' = IF refresh.at = "idle" THEN [refresh EXCEPT !.at = "asking"] ELSE refresh
    /\ UNCHANGED <<published, browser, up, start, applied, blockIds, rebuild, tracking, opening,
                   seen, tab, refreshed, bounds>>

\* Its update is done, or was refused: the tab leaves if it still has a reason to.
PageLeaves ==
    /\ up
    /\ \E l \in leaving :
        /\ l.ahead = 0 /\ leaving' = leaving \ {l}
        /\ page' = IF front /\ url # NoSite /\ url \in Blocks(applied) \cup {l.site}
                    THEN Redirected(url) ELSE page
    /\ UNCHANGED <<published, browser, up, start, applied, available, queue, refresh, tracking,
                   opening, seen, front, refreshed, bounds>>

\* on_unavailable: the lease ends, or a report is refused.
LeaseEnds ==
    /\ up /\ lease # NoSite
    /\ lease' = NoSite /\ Reconsider(lease, available \ {lease})
    /\ UNCHANGED <<published, browser, up, start, applied, blockIds, rebuild, refresh, url,
                   navigation, seen, tab, refreshed, bounds>>

\* set_tab_match, set_active_tab, set_focused: another context gives the lease up.
Context(newUrl, match) ==
    /\ url' = newUrl
    /\ IF lease # NoSite /\ match # lease
       THEN lease' = NoSite /\ Reconsider(lease, available \ {lease})
       ELSE UNCHANGED <<lease, available, waiting>>

-----------------------------------------------------------------------------
(* The tab. *)

Refused(site) == site \in dynamic \/ \E b \in session : b.site = site

\* The user asks for a site.  The browser's rules decide, the worker is told.
Load(site) ==
    /\ page' = IF Refused(site) THEN NoSite ELSE site
    /\ seen' = site

Navigate(site) ==
    /\ front /\ seen = NoSite /\ page # site
    /\ Load(site)
    /\ UNCHANGED <<published, browser, up, start, applied, available, queue, refresh, tracking,
                   navigation, front, refreshed, bounds>>

\* Another tab or window, or idleness; and back, when the tab's site is looked up.
Leave ==
    /\ front /\ front' = FALSE
    /\ IF up THEN Context(NoSite, NoSite) ELSE UNCHANGED <<tracking, available, waiting>>
    /\ UNCHANGED <<published, browser, up, start, applied, blockIds, rebuild, refresh, navigation,
                   seen, page, refreshed, bounds>>

Return ==
    /\ ~front /\ front' = TRUE
    /\ UNCHANGED <<published, browser, up, start, applied, available, queue, refresh, tracking,
                   navigation, seen, page, refreshed, bounds>>

\* sync_active_tab
SyncTab ==
    /\ up /\ front /\ url # page /\ seen = NoSite
    /\ Context(page, IF page \in Timed(applied) THEN page ELSE NoSite)
    /\ UNCHANGED <<published, browser, up, start, applied, blockIds, rebuild, refresh, navigation,
                   seen, tab, refreshed, bounds>>

\* observe_request for a main frame.
Observe ==
    /\ up /\ ready /\ ~Paused /\ seen # NoSite /\ seen' = NoSite
    /\ \/ /\ seen \in Blocks(applied)
          /\ Context(NoSite, NoSite) /\ page' = NoSite
          /\ UNCHANGED opening
       \/ /\ seen \in Timed(applied) \ available /\ front
          /\ Context(seen, seen)
          /\ opening' = [site |-> seen, at |-> "leasing", ahead |-> 0]
          /\ UNCHANGED page
       \/ /\ seen \in Timed(applied) \ available /\ ~front
          /\ page' = NoSite /\ UNCHANGED <<tracking, available, waiting, opening>>
       \/ /\ seen \notin Blocks(applied) \cup (Timed(applied) \ available)
          /\ UNCHANGED <<tracking, available, waiting, page, opening>>
    /\ UNCHANGED <<published, browser, up, start, applied, blockIds, rebuild, refresh, leaving,
                   front, refreshed, bounds>>

\* start_timed_navigation, when the tracker has asked for a lease.
DecideOpening ==
    /\ up /\ opening # NotRunning /\ opening.at = "leasing"
    /\ IF front /\ url = opening.site
       THEN IF opening.site \in available
            THEN /\ opening' = [opening EXCEPT !.at = "waiting", !.ahead = Queued]
                 /\ UNCHANGED page
            ELSE opening' = NotRunning /\ page' = NoSite
       ELSE opening' = NotRunning /\ UNCHANGED page
    /\ UNCHANGED <<published, browser, up, start, applied, available, queue, refresh, tracking,
                   leaving, seen, front, refreshed, bounds>>

\* The session rule is gone, so the site is asked for again.
OpenSite ==
    /\ up /\ opening # NotRunning /\ opening.at = "waiting" /\ opening.ahead = 0
    /\ opening' = NotRunning
    /\ IF front /\ url = opening.site THEN Load(url) ELSE UNCHANGED <<page, seen>>
    /\ UNCHANGED <<published, browser, up, start, applied, available, queue, refresh, tracking,
                   leaving, front, refreshed, bounds>>

\* The service's policy changes, a budget that is used up included.
Publish(p) ==
    /\ edits < MaxEdits /\ edits' = edits + 1 /\ p # policy
    /\ policy' = p
    /\ UNCHANGED <<browser, up, start, applied, available, queue, refresh, tracking, navigation,
                   seen, tab, refreshed, stops, failures>>

-----------------------------------------------------------------------------
Worker == \/ Wake \/ StartRebuild \/ EndRebuild \/ Restore \/ Ready \/ Ask \/ Replace \/ Commit
          \/ EndRefresh \/ PageLeaves \/ SyncTab \/ Observe \/ DecideOpening \/ OpenSite

AdapterNext ==
    \/ Worker \/ QueueRefresh \/ RefreshFails \/ Stop \/ BrowserRestarts
    \/ LeaseGranted \/ LeaseExhausted \/ LeaseEnds
    \/ Leave \/ Return
    \/ \E s \in Sites : Navigate(s)
    \/ \E p \in Policies : Publish(p)

\* The worker's steps are taken, and the alarm comes.
AdapterFairness ==
    /\ WF_adapterVars(Wake) /\ WF_adapterVars(StartRebuild) /\ WF_adapterVars(EndRebuild)
    /\ WF_adapterVars(Restore) /\ WF_adapterVars(Ready) /\ WF_adapterVars(QueueRefresh) /\ WF_adapterVars(Ask)
    /\ WF_adapterVars(Replace) /\ WF_adapterVars(Commit) /\ WF_adapterVars(EndRefresh) /\ SF_adapterVars(SyncTab)
    /\ SF_adapterVars(Observe) /\ WF_adapterVars(DecideOpening) /\ WF_adapterVars(OpenSite)
    /\ WF_adapterVars(PageLeaves)

AdapterSpec == AdapterInit /\ [][AdapterNext]_adapterVars /\ AdapterFairness

-----------------------------------------------------------------------------
(* Properties. *)

\* When no update waits, the session rules are those of the timed rules that
\* are without a lease ("Timed rules start blocked; a successful lease removes
\* only its rule's session block").
LeasesDecide ==
    up /\ ready /\ Queued = 0 /\ applied # NoPolicy
        => session = {b \in Numbered(Timed(applied)) : b.site \notin available}

\* The same of a worker that the browser never stopped.
LeasesDecideAtFirst == stops = 0 => LeasesDecide

\* Once a refresh of this life has ended, and outside the next one's update, the
\* matchers are those of the rules that the browser applies: a policy that is
\* refused on the way changes neither (apply_policy).
MatchersFollowRules ==
    up /\ refreshed /\ ~Paused => dynamic = Blocks(applied)

\* A tab in front does not show for ever what the policy blocks.
BlockedPagesLeave ==
    \A s \in Sites : ~ <>[](front /\ page = s /\ policy[s] = "block")
==============================================================================
