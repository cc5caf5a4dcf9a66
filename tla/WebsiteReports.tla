--------------------------- MODULE WebsiteReports ---------------------------
(***************************************************************************)
(* What a browser counts and the service adds up: denied requests, and the *)
(* starts that a rule with an allowance permitted.  The browser counts at  *)
(* each request and reports after each refresh that applied a policy.      *)
(*                                                                         *)
(* Chromium stops the worker of its extension at will and keeps a copy of  *)
(* the counts for the session; Firefox writes them at every change.  An    *)
(* answer may be lost, and with it the news that a report was counted.     *)
(***************************************************************************)
EXTENDS FiniteSetsExt, Functions, Integers

CONSTANTS
    Rules,         \* one target each: the key of a count
    StartsAllowed, \* allowance_starts
    MaxEntry,      \* denials of one key in a report of Chromium's: 600
    None,          \* no report under way, no row
    MaxRequests, MaxRuleEdits, MaxDays,
    MaxLosses      \* bound on failures and restarts

ASSUME WebsiteAssumption ==
    /\ IsFiniteSet(Rules) /\ StartsAllowed \in Nat \ {0} /\ MaxEntry \in Nat \ {0}
    /\ MaxRequests \in Nat /\ MaxRuleEdits \in Nat /\ MaxDays \in Nat /\ MaxLosses \in Nat

VARIABLES
    browser, what, \* which of the counts this is, as long as it runs
    running,       \* the extension's script runs
    count,         \* match_totals, usage_totals; pending_denials, pending_usage
    reported,      \* of the count, already reported: the denials of Chromium
    backup,        \* Chromium's copy is due
    stored,        \* the copy in the browser's storage
    permitting,    \* rules of the applied policy with an allowance that is left
    fetched,       \* the same, of a policy that is read and not applied
    step,          \* where the refresh is
    report,        \* the entries under way
    allowing,      \* rules of the service with an allowance of starts
    rows,          \* _website_usage: starts of a day
    today,
    observed,      \* history: requests that were counted in the browser
    added,         \* history: what the service added
    lost, repeated,\* history: counts that went with a prune or a stop, or came twice
    requests, ruleEdits, losses

extension == <<running, count, reported, backup, stored, permitting>>
refresh == <<fetched, step, report>>
service == <<allowing, rows, today>>
history == <<observed, added, lost, repeated>>
webBounds == <<requests, ruleEdits, losses>>
webVars == <<browser, what, running, count, reported, backup, stored, permitting, fetched, step,
             report, allowing, rows, today, observed, added, lost, repeated,
             requests, ruleEdits, losses>>

Zero == [r \in Rules |-> 0]
Sum(f, g) == [r \in Rules |-> f[r] + g[r]]
Minus(f, g) == [r \in Rules |-> f[r] - g[r]]
Only(f, kept) == [r \in Rules |-> IF r \in kept THEN f[r] ELSE 0]
Smaller(m, n) == IF m < n THEN m ELSE n

Loss == losses < MaxLosses /\ losses' = losses + 1
Mine(of) == UNCHANGED <<browser, what>> /\ UNCHANGED of

Pending == Minus(count, reported)
Copy == [count |-> count, reported |-> reported]
NoCopy == [count |-> Zero, reported |-> Zero]

\* _exhausted_rule_ids and count_for: the row of another day counts as nothing.
CountFor(r) == IF rows[r] # None /\ rows[r].day = today THEN rows[r].count ELSE 0
Exhausted == {r \in Rules : CountFor(r) >= StartsAllowed}

-----------------------------------------------------------------------------
WebInit ==
    /\ browser \in {"chromium", "firefox"} /\ what \in {"denials", "starts"}
    /\ running = TRUE /\ count = Zero /\ reported = Zero /\ backup = FALSE /\ stored = NoCopy
    /\ permitting = {} /\ fetched = {} /\ step = "idle" /\ report = Zero
    /\ allowing = Rules /\ rows = [r \in Rules |-> None] /\ today = 0
    /\ observed = Zero /\ added = Zero /\ lost = Zero /\ repeated = Zero
    /\ requests = 0 /\ ruleEdits = 0 /\ losses = 0

\* observe_request, onBeforeRequest: a denial, or a start of a permitted page.
\* Firefox's record_state writes the counts each time.
Request(r) ==
    /\ running /\ requests < MaxRequests /\ requests' = requests + 1
    /\ what = "starts" => r \in permitting
    /\ count' = [count EXCEPT ![r] = @ + 1] /\ observed' = [observed EXCEPT ![r] = @ + 1]
    /\ IF browser = "firefox"
       THEN stored' = [stored EXCEPT !.count = count'] /\ UNCHANGED backup
       ELSE backup' = TRUE /\ UNCHANGED stored
    /\ Mine(<<running, reported, permitting, refresh, service, added, lost, repeated,
              ruleEdits, losses>>)

\* The timer of schedule_totals_backup, schedule_usage_backup.
BackUp ==
    /\ running /\ backup /\ backup' = FALSE /\ stored' = Copy
    /\ Mine(<<running, count, reported, permitting, refresh, service, history, webBounds>>)

-----------------------------------------------------------------------------
(* A refresh. *)

Fetch ==
    /\ running /\ step = "idle" /\ step' = "apply" /\ fetched' = allowing \ Exhausted
    /\ Mine(<<extension, report, service, history, webBounds>>)

\* Mutant: counts of rules that have no allowance any more are kept.
KeptAll(f) == Rules
Permitted(f) == f

\* apply_policy: the new set of permitted pages, and prune_usage.
Apply ==
    /\ running /\ step = "apply"
    /\ \/ /\ step' = "report" /\ permitting' = fetched
          /\ IF what = "starts"
             THEN LET kept == Permitted(fetched) IN
                  /\ count' = Only(count, kept)
                  /\ lost' = Sum(lost, Minus(count, Only(count, kept)))
             ELSE UNCHANGED <<count, lost>>
          /\ stored' = IF browser = "firefox" THEN [stored EXCEPT !.count = count'] ELSE stored
          /\ UNCHANGED losses
       \/ /\ Loss /\ step' = "idle" /\ UNCHANGED <<permitting, count, lost, stored>>
    /\ Mine(<<running, reported, backup, fetched, report, service, observed, added, repeated, requests, ruleEdits>>)

\* usage_entries; report_matches limits the count of an entry.
Entries ==
    [r \in Rules |-> IF browser = "chromium" /\ what = "denials"
                     THEN Smaller(Pending[r], MaxEntry) ELSE Pending[r]]

SendReport ==
    /\ running /\ step = "report"
    /\ IF Entries = Zero THEN step' = "idle" /\ UNCHANGED report
       ELSE step' = "asked" /\ report' = Entries
    /\ Mine(<<extension, fetched, service, history, webBounds>>)

\* fresh, then WebsiteUsageState.record: a row of another day, or of a rule that
\* has no allowance of starts, goes first.
Fresh == [r \in Rules |-> r \in allowing /\ rows[r] # None /\ rows[r].day = today]
Counted ==
    /\ rows' = IF what = "denials" THEN rows
               ELSE [r \in Rules |->
                        IF Fresh[r] THEN [rows[r] EXCEPT !.count = @ + report[r]]
                        ELSE IF report[r] > 0 THEN [day |-> today, count |-> report[r]]
                        ELSE None]
    /\ added' = Sum(added, report)

\* One entry of no such rule, and the service refuses them all.
Accepts == what = "starts" => \A r \in Rules : report[r] > 0 => r \in allowing

\* The service takes the report.  It may fail to reconcile after it has counted.
CountReport ==
    /\ step = "asked" /\ Accepts /\ Counted
    /\ \/ step' = "counted" /\ UNCHANGED <<repeated, losses>>
       \/ Loss /\ step' = "refused" /\ repeated' = Sum(repeated, report)
    /\ Mine(<<extension, fetched, report, allowing, today, observed, lost, requests, ruleEdits>>)

RefuseReport ==
    /\ step = "asked" /\ step' = "refused"
    /\ (Accepts /\ Loss) \/ (~Accepts /\ UNCHANGED losses)
    /\ Mine(<<extension, fetched, report, service, history, requests, ruleEdits>>)

\* Mutant: what was reported goes, with what came since.
RetiredWhole == [r \in Rules |-> IF report[r] > 0 THEN 0 ELSE count[r]]
Retired == Minus(count, report)

\* Counts that are reported whole go; Chromium keeps the rest of a denial's
\* count beside what of it is reported.
Accepted ==
    /\ running /\ step = "counted" /\ step' = "idle"
    /\ IF browser = "chromium" /\ what = "denials"
       THEN LET sum == Sum(reported, report)
                whole == {r \in Rules : report[r] > 0 /\ sum[r] >= count[r]}
            IN /\ reported' = Only(sum, Rules \ whole)
               /\ count' = Only(count, Rules \ whole)
       ELSE count' = Retired /\ UNCHANGED reported
    /\ stored' = [count |-> count', reported |-> reported']
    /\ report' = Zero
    /\ Mine(<<running, backup, permitting, fetched, service, history, webBounds>>)

\* Refused, or the host went away.  The answer of a counted report may be lost.
Refused ==
    /\ running
    /\ \/ step = "refused" /\ UNCHANGED <<repeated, losses>>
       \/ step = "counted" /\ Loss /\ repeated' = Sum(repeated, report)
    /\ step' = "idle" /\ report' = Zero
    /\ Mine(<<extension, fetched, service, observed, added, lost, requests, ruleEdits>>)

-----------------------------------------------------------------------------
(* The script stops and starts. *)

\* The worker stops, or the browser: Chromium's session storage goes with it.
Stop ==
    /\ running /\ Loss /\ running' = FALSE /\ backup' = FALSE
    /\ \E session \in {"kept", "gone"} :
          LET copy == IF session = "kept" THEN stored ELSE NoCopy IN
          /\ browser = "firefox" => session = "kept"
          /\ stored' = copy
          /\ lost' = Sum(lost, Minus(Pending, Minus(copy.count, copy.reported)))
          /\ permitting' = IF session = "kept" THEN permitting ELSE {}
    /\ count' = Zero /\ reported' = Zero
    /\ repeated' = IF step = "counted" THEN Sum(repeated, report) ELSE repeated
    /\ step' = IF step = "asked" THEN "asked" ELSE "idle"
    /\ report' = IF step = "asked" THEN report ELSE Zero
    /\ Mine(<<fetched, service, observed, added, requests, ruleEdits>>)

\* The host of a report under way goes with the browser.
Start ==
    /\ ~running /\ running' = TRUE
    /\ count' = stored.count /\ reported' = stored.reported
    /\ step' = "idle" /\ report' = Zero
    /\ repeated' = IF step = "counted" THEN Sum(repeated, report) ELSE repeated
    /\ Mine(<<backup, stored, permitting, fetched, service, observed, added, lost, webBounds>>)

EditRules ==
    /\ ruleEdits < MaxRuleEdits /\ ruleEdits' = ruleEdits + 1
    /\ \E a \in SUBSET Rules : a # allowing /\ allowing' = a
    /\ Mine(<<extension, refresh, rows, today, history, requests, losses>>)

PassDay ==
    /\ today < MaxDays /\ today' = today + 1
    /\ Mine(<<extension, refresh, allowing, rows, observed, added, lost, repeated, webBounds>>)

-----------------------------------------------------------------------------
Refreshing ==
    \/ Fetch \/ Apply \/ SendReport \/ CountReport \/ RefuseReport \/ Accepted \/ Refused \/ Start

WebNext == (\E r \in Rules : Request(r)) \/ BackUp \/ Refreshing \/ Stop \/ EditRules \/ PassDay

-----------------------------------------------------------------------------
(* Properties. *)

\* Each denial and each start is counted once: it is pending in the browser or
\* added by the service, and never both or neither, unless a policy dropped its
\* rule, the script stopped before the copy was made, or an answer was lost.
ReportsCountOnce ==
    LET left == IF running THEN Pending ELSE Minus(stored.count, stored.reported)
        twice == IF step = "counted" THEN report ELSE Zero
    IN Sum(observed, Sum(repeated, twice)) = Sum(added, Sum(left, lost))

\* A report that holds a count the service refuses does not hold up the others
\* for ever: what a browser counted is added, or dropped with its rule.
ReportsArrive == \A r \in Rules : (running /\ Pending[r] > 0) ~> (running /\ Pending[r] = 0)
=============================================================================
