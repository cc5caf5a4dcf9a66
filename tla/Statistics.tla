----------------------------- MODULE Statistics -----------------------------
(***************************************************************************)
(* The two ways into the statistics: blocked applications, which a thread  *)
(* of the service sees, and blocked or counted requests, which a browser   *)
(* reports.  They share no state, so a behaviour takes one of them.        *)
(***************************************************************************)
EXTENDS ApplicationDenials, WebsiteReports

VARIABLE source   \* "applications" or "websites", chosen once

statisticsVars == <<source, appVars, webVars>>

Init ==
    /\ source \in {"applications", "websites"} /\ AppInit /\ WebInit
    /\ source = "applications" => browser = "firefox" /\ what = "denials"

OfApplications == source = "applications" /\ AppNext /\ UNCHANGED <<source, webVars>>
OfWebsites == source = "websites" /\ WebNext /\ UNCHANGED <<source, appVars>>
Next == OfApplications \/ OfWebsites

Applications(A) == source = "applications" /\ A /\ UNCHANGED <<source, webVars>>
Websites(A) == source = "websites" /\ A /\ UNCHANGED <<source, appVars>>

\* The threads run and systemd starts the service again; the alarm refreshes, and
\* a browser that was closed is opened again.
Fairness ==
    /\ WF_statisticsVars(Applications(Listener))
    /\ WF_statisticsVars(Applications(Tick) \/ Websites(Refreshing))

Spec == Init /\ [][Next]_statisticsVars /\ Fairness
=============================================================================
