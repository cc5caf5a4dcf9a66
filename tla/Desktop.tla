------------------------------- MODULE Desktop -------------------------------
(***************************************************************************)
(* The window of the desktop client.  A timer and each finished request    *)
(* ask for a refresh; a thread of its own then sends one request after the *)
(* other, and hands what it has read to the event loop.                    *)
(***************************************************************************)
EXTENDS ManagedLists

VARIABLES
    reader,      \* "browser" or "window", chosen once: neither disturbs the other
    refreshing,  \* _refreshing
    worker,      \* what the thread has read
    shown        \* snapshot; None where the service did not answer

desktopVars == <<refreshing, worker, shown>>

Served == UNCHANGED listVars
NoWorker == [at |-> "none", active |-> FALSE, uses |-> FALSE, list |-> {}]

DesktopInit == refreshing = FALSE /\ worker = NoWorker /\ shown = None

\* refresh: by the timer, the button, or a finished request.
StartRefresh ==
    /\ ~refreshing /\ refreshing' = TRUE /\ worker' = [NoWorker EXCEPT !.at = "status"]
    /\ UNCHANGED shown /\ Served

\* request_snapshot: each answer is of its own moment.
ReadStatus ==
    /\ worker.at = "status" /\ worker' = [worker EXCEPT !.at = "rules", !.active = active]
    /\ UNCHANGED <<refreshing, shown>> /\ Served
ReadRules ==
    /\ worker.at = "rules" /\ worker' = [worker EXCEPT !.at = "lists", !.uses = policy.uses]
    /\ UNCHANGED <<refreshing, shown>> /\ Served
ReadLists ==
    /\ worker.at = "lists" /\ worker' = [worker EXCEPT !.at = "done", !.list = policy.list]
    /\ UNCHANGED <<refreshing, shown>> /\ Served

ReadFails ==
    /\ worker.at \in {"status", "rules", "lists"} /\ Fault
    /\ worker' = [worker EXCEPT !.at = "failed"]
    /\ UNCHANGED <<refreshing, shown, past, active, staged, client, meant, browserVars, uploads, edits>>

\* _show_snapshot
ShowSnapshot ==
    /\ worker.at = "done" /\ refreshing' = FALSE /\ worker' = NoWorker
    /\ shown' = [active |-> worker.active, uses |-> worker.uses, list |-> worker.list]
    /\ Served

\* Mutant: only a snapshot ends the refresh.
RefreshGoesOn == TRUE
RefreshEnds == FALSE

\* _show_request_error
ShowError ==
    /\ worker.at = "failed" /\ refreshing' = RefreshEnds /\ worker' = NoWorker /\ shown' = None
    /\ Served

DesktopSteps ==
    \/ StartRefresh \/ ReadStatus \/ ReadRules \/ ReadLists \/ ShowSnapshot \/ ShowError

-----------------------------------------------------------------------------
vars == <<past, active, staged, client, meant, browser, applied, uploads, edits, faults,
          reader, refreshing, worker, shown>>

Init == reader \in {"browser", "window"} /\ ListInit /\ DesktopInit

OfBrowser == reader = "browser" /\ Browser /\ UNCHANGED <<reader, desktopVars>>
OfWindow == reader = "window" /\ DesktopSteps /\ UNCHANGED reader
Failures ==
    \/ reader = "browser" /\ RefreshFails /\ UNCHANGED <<reader, desktopVars>>
    \/ reader = "window" /\ ReadFails /\ UNCHANGED reader

Next == (Service /\ UNCHANGED <<reader, desktopVars>>) \/ OfBrowser \/ OfWindow \/ Failures

\* The browser's alarm and the window's timer come again.
Fairness == WF_vars(OfBrowser \/ OfWindow)

Spec == Init /\ [][Next]_vars /\ Fairness

-----------------------------------------------------------------------------
(* Properties. *)

InForce == [active |-> active, uses |-> policy.uses, list |-> policy.list]

\* Once nobody changes the policy any more, the browser blocks what it says and
\* the window shows it, whatever failed before.
EverybodyCatchesUp ==
    <>[](IF reader = "window" THEN shown = InForce
         ELSE applied # None /\ applied.revision = Revision /\ applied.active = active)
=============================================================================
