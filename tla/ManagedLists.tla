---------------------------- MODULE ManagedLists ----------------------------
(***************************************************************************)
(* A managed list of domains is too large for one message.  Clients stage  *)
(* it in the service chunk by chunk and commit it; the browser, and a      *)
(* client that edits it, read it page by page.  Meanwhile the policy may   *)
(* change, the service restart, an answer get lost, a client end.          *)
(*                                                                         *)
(* One list and one rule, which uses the list or not.  Domains are         *)
(* numbers, a list is a set and its pages are in order.                    *)
(***************************************************************************)
EXTENDS SequencesExt, FiniteSetsExt, Integers

CONSTANTS
    Domains, Excluded,  \* excluded_managed_domains of the rule
    PageSize,           \* _CHUNK_SIZE: 200
    MaxStaged,          \* _MAX_STAGED: 4
    Tokens, Clients, None,
    Imports,            \* what each client imports: "list", "native", "rules"
    Files,              \* lists that the clients have in files
    MaxUploads, MaxEdits, MaxFaults

ASSUME ListAssumption ==
    /\ IsFiniteSet(Domains) /\ Domains \subseteq Nat /\ Files \subseteq (SUBSET Domains) \ {{}}
    /\ PageSize \in Nat \ {0} /\ MaxStaged \in Nat /\ IsFiniteSet(Tokens) /\ Excluded \subseteq Domains
    /\ Imports \in [Clients -> SUBSET {"list", "native", "rules"}]
    /\ MaxStaged <= Cardinality(Tokens)
    /\ MaxUploads \in Nat /\ MaxEdits \in Nat /\ MaxFaults \in Nat

VARIABLES
    past,      \* history: the policies that were saved; the last one is in force
    active,    \* the schedule of the rule is active
    staged,    \* _staged_rules, _staged_lists, _staged_native
    client,    \* what each client does
    meant,     \* history: the lists that clients wanted to commit
    browser,   \* the refresh of the browser's extension
    applied,   \* the policy that the browser applied last
    uploads, edits, faults

browserVars == <<browser, applied>>
bounds == <<uploads, edits, faults>>
listVars == <<past, active, staged, client, meant, browser, applied, uploads, edits, faults>>

\* The policy in force: its list is {} when there is none.
policy == Last(past)
Revision == Len(past)

Page(list, offset) ==
    {d \in list : Cardinality({e \in list : e <= d}) \in (offset + 1)..(offset + PageSize)}
Finished(list, offset) == offset + PageSize >= Cardinality(list)

Fault == faults < MaxFaults /\ faults' = faults + 1
Edit == edits < MaxEdits /\ edits' = edits + 1
\* _save
Saved(list, uses) == past' = Append(past, [list |-> list, uses |-> uses])

Idle == [at |-> "idle", kind |-> None, list |-> {}, offset |-> 0, token |-> None]

ListInit ==
    /\ \E f \in Files : past = <<[list |-> f, uses |-> TRUE]>>
    /\ active = FALSE /\ staged = [t \in Tokens |-> None]
    /\ client = [c \in Clients |-> Idle] /\ meant = {policy.list}
    /\ browser = [at |-> "idle", revision |-> 0, active |-> FALSE, list |-> {}, offset |-> 0]
    /\ applied = None
    /\ uploads = 0 /\ edits = 0 /\ faults = 0

-----------------------------------------------------------------------------
(* A client.  When a request fails, or its answer is lost, it cancels. *)

Becomes(c, state) == client' = [client EXCEPT ![c] = state]
Rest == UNCHANGED <<active, browserVars, edits>>

\* The request of the client is handled, and it goes on, unless it loses the answer.
Answered(c, next, without) ==
    \/ Becomes(c, next) /\ UNCHANGED faults
    \/ Fault /\ Becomes(c, without)
\* Mutant: it commits what the service has.
CommittingAnyway(c) == [client[c] EXCEPT !.at = "commit"]
Cancelling(c) == [client[c] EXCEPT !.at = "cancel"]

\* A list or a backup from a file, rules that use the list, or an edited list.
StartUpload(c) ==
    /\ client[c] = Idle /\ uploads < MaxUploads /\ uploads' = uploads + 1
    /\ \/ \E f \in Files, k \in Imports[c] \cap {"list", "native"} :
             /\ Becomes(c, [Idle EXCEPT !.at = "begin", !.kind = k, !.list = f])
             /\ meant' = meant \cup {f}
       \/ /\ "rules" \in Imports[c] /\ UNCHANGED meant
          /\ Becomes(c, [Idle EXCEPT !.at = "begin", !.kind = "rules"])
       \/ /\ "list" \in Imports[c] /\ UNCHANGED meant
          /\ Becomes(c, [Idle EXCEPT !.at = "read", !.kind = "list"])
    /\ UNCHANGED <<past, staged, faults>> /\ Rest

\* _read_managed_list_domains, _read_managed_lists: no page is held against the
\* revision of another.  At the end one domain is added or removed.
ReadPage(c) ==
    /\ client[c].at = "read"
    /\ LET me == client[c]
           read == me.list \cup Page(policy.list, me.offset)
       IN IF policy.list = {} THEN Becomes(c, Idle) /\ UNCHANGED meant
          ELSE IF ~Finished(policy.list, me.offset)
          THEN /\ Becomes(c, [me EXCEPT !.list = read, !.offset = @ + PageSize])
               /\ UNCHANGED meant
          ELSE \E d \in Domains :
                  LET new == IF d \in read THEN read \ {d} ELSE read \cup {d} IN
                  /\ new # {}
                  /\ Becomes(c, [Idle EXCEPT !.at = "begin", !.kind = "list", !.list = new])
                  /\ meant' = meant \cup {new}
    /\ UNCHANGED <<past, staged, uploads, faults>> /\ Rest

StagedTokens == {t \in Tokens : staged[t] # None}
NewToken == CHOOSE t \in Tokens : t \notin StagedTokens

\* _cmd_begin_list_import, _cmd_begin_rule_import, _cmd_begin_native_import
Begin(c) ==
    /\ client[c].at = "begin"
    /\ IF Cardinality(StagedTokens) >= MaxStaged
       THEN Becomes(c, Idle) /\ UNCHANGED <<staged, faults>>
       ELSE LET t == NewToken IN
               /\ staged' = [staged EXCEPT ![t] =
                                [owner |-> c, kind |-> client[c].kind, list |-> {}, old |-> FALSE]]
               /\ Answered(c, [client[c] EXCEPT !.at = "chunk", !.token = t], Idle)
    /\ UNCHANGED <<past, meant, uploads>> /\ Rest

\* _stage: another owner's, or expired.
Stage(c) ==
    LET s == staged[client[c].token]
    IN IF s # None /\ s.owner = c /\ s.kind = client[c].kind /\ ~s.old THEN s ELSE None
Without(c) ==
    LET t == client[c].token
    IN IF staged[t] # None /\ staged[t].owner = c /\ staged[t].kind = client[c].kind
       THEN [staged EXCEPT ![t] = None] ELSE staged

\* staged_list_upload_calls, staged_native_upload_calls: a commit follows the last chunk.
NextCall(c) ==
    IF Finished(client[c].list, client[c].offset) THEN [client[c] EXCEPT !.at = "commit"]
    ELSE [client[c] EXCEPT !.offset = @ + PageSize]

\* _cmd_import_list_chunk, _cmd_import_rule_chunk, _cmd_native_import_chunk
SendChunk(c) ==
    /\ client[c].at = "chunk"
    /\ LET me == client[c]
       IN IF Stage(c) = None THEN staged' = Without(c) /\ Becomes(c, Cancelling(c)) /\ UNCHANGED faults
          ELSE /\ staged' = [staged EXCEPT ![me.token].list = @ \cup Page(me.list, me.offset)]
               /\ Answered(c, NextCall(c), Cancelling(c))
    /\ UNCHANGED <<past, meant, uploads>> /\ Rest

\* What a commit saves.  Rules are added to those in force; a backup replaces all.
Committed(s) ==
    [list |-> IF s.kind = "rules" THEN policy.list ELSE s.list,
     uses |-> s.kind \in {"rules", "native"} \/ policy.uses]

\* A rule needs its list; while a rule is active, its list loses no domain.
Acceptable(next) ==
    /\ next.uses => next.list # {}
    /\ policy.uses /\ active => policy.list \subseteq next.list

\* _commit_list, _cmd_commit_rule_import, _commit_native: what is staged goes only
\* when it was saved and enforced.
Commit(c) ==
    /\ client[c].at = "commit"
    /\ IF Stage(c) = None
       THEN staged' = Without(c) /\ Becomes(c, Cancelling(c)) /\ UNCHANGED <<past, faults>>
       ELSE LET next == Committed(Stage(c)) IN
            IF Acceptable(next)
            THEN /\ past' = Append(past, next)
                 /\ \/ staged' = Without(c) /\ Answered(c, Idle, Cancelling(c))
                    \/ Fault /\ Becomes(c, Cancelling(c)) /\ UNCHANGED staged
            ELSE Becomes(c, Cancelling(c)) /\ UNCHANGED <<past, staged, faults>>
    /\ UNCHANGED <<meant, uploads>> /\ Rest

\* The request may never come to the service.
Cancel(c) ==
    /\ client[c].at = "cancel" /\ Becomes(c, Idle)
    /\ (staged' = Without(c) /\ UNCHANGED faults) \/ (Fault /\ UNCHANGED staged)
    /\ UNCHANGED <<past, meant, uploads>> /\ Rest

\* The client ends, or a request of it does not come to the service.
Abandon(c) ==
    /\ client[c] # Idle /\ Fault
    /\ Becomes(c, Idle) \/ (client[c].at \in {"chunk", "commit"} /\ Becomes(c, Cancelling(c)))
    /\ UNCHANGED <<past, staged, meant, uploads>> /\ Rest

-----------------------------------------------------------------------------
(* The service. *)

\* Ten minutes pass for what is staged.
Age ==
    /\ StagedTokens # {} /\ \E t \in StagedTokens : ~staged[t].old
    /\ staged' = [t \in Tokens |-> IF staged[t] = None THEN None ELSE [staged[t] EXCEPT !.old = TRUE]]
    /\ UNCHANGED <<past, active, client, meant, browserVars, bounds>>

\* _expire_staged, at a tick or a command
Expire ==
    /\ \E t \in StagedTokens : staged[t].old
    /\ staged' = [t \in Tokens |-> IF staged[t] = None \/ staged[t].old THEN None ELSE staged[t]]
    /\ UNCHANGED <<past, active, client, meant, browserVars, bounds>>

\* What is staged is in memory alone.
Restart ==
    /\ Fault /\ staged' = [t \in Tokens |-> None]
    /\ UNCHANGED <<past, active, client, meant, browserVars, uploads, edits>>

\* put_rule and delete_managed_list; time goes into and out of the schedule.
EditPolicy ==
    /\ Edit
    /\ \/ ~policy.uses /\ policy.list # {} /\ Saved(policy.list, TRUE) /\ UNCHANGED active
       \/ policy.uses /\ ~active /\ Saved(policy.list, FALSE) /\ UNCHANGED active
       \/ ~policy.uses /\ policy.list # {} /\ Saved({}, FALSE) /\ UNCHANGED active
       \/ active' = ~active /\ UNCHANGED past
    /\ UNCHANGED <<staged, client, meant, browserVars, uploads, faults>>

-----------------------------------------------------------------------------
(* The browser: a refresh, expand_managed_lists and apply_policy. *)

Resting == UNCHANGED <<past, active, staged, client, meant, uploads, edits>>

FetchPolicy ==
    /\ browser.at = "idle"
    /\ browser' = [at |-> IF policy.uses /\ active THEN "page" ELSE "apply", revision |-> Revision,
                   active |-> active, list |-> {}, offset |-> 0]
    /\ UNCHANGED <<applied, faults>> /\ Resting

\* Mutant: the revision of a page is not looked at.
AnyRevision == TRUE
SameRevision == Revision = browser.revision

\* A list that is gone, or is another one now, ends the refresh.
FetchPage ==
    /\ browser.at = "page"
    /\ browser' =
         IF policy.list = {} \/ ~SameRevision THEN [browser EXCEPT !.at = "idle"]
         ELSE [browser EXCEPT !.list = @ \cup Page(policy.list, browser.offset),
                              !.offset = @ + PageSize,
                              !.at = IF Finished(policy.list, browser.offset) THEN "apply" ELSE "page"]
    /\ UNCHANGED <<applied, faults>> /\ Resting

ApplyPolicy ==
    /\ browser.at = "apply"
    /\ applied' = [revision |-> browser.revision, active |-> browser.active,
                   blocked |-> browser.list \ Excluded]
    /\ browser' = [browser EXCEPT !.at = "idle"]
    /\ UNCHANGED faults /\ Resting

\* The host does not answer, or the browser does not take the policy.
RefreshFails ==
    /\ browser.at # "idle" /\ Fault /\ browser' = [browser EXCEPT !.at = "idle"]
    /\ UNCHANGED applied /\ Resting

-----------------------------------------------------------------------------
Client(c) ==
    ReadPage(c) \/ Begin(c) \/ SendChunk(c) \/ Commit(c) \/ Cancel(c)
Browser == FetchPolicy \/ FetchPage \/ ApplyPolicy

Service ==
    \/ \E c \in Clients : StartUpload(c) \/ Client(c) \/ Abandon(c)
    \/ Age \/ Expire \/ Restart \/ EditPolicy

-----------------------------------------------------------------------------
(* Properties. *)

\* The browser blocks what one saved policy says, with every domain of its list
\* that the rule does not exclude: never pages of two lists, never a part.
AppliedIsOnePolicy ==
    applied # None =>
        LET of == past[applied.revision] IN
        applied.blocked = IF of.uses /\ applied.active THEN of.list \ Excluded ELSE {}

\* A failed or abandoned upload leaves no part of it in the policy, and two
\* uploads do not mix: a list in force is one that a client meant, in full.
UploadsAreWhole == \A i \in DOMAIN past : past[i].list \in meant \cup {{}}
=============================================================================
