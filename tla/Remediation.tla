----------------------------- MODULE Remediation -----------------------------
(***************************************************************************)
(* Remediation actions: the policy that creates, approves and executes     *)
(* them, and the handlers around it.  A handler reads the row, applies the *)
(* policy to its copy, asks the Control Panel to carry out a retry, and    *)
(* writes the copy back whatever the row has become meanwhile.             *)
(*                                                                         *)
(* The Control Panel is external: it may ask for the action's dispatch     *)
(* context before it carries a retry out, and its answer may be lost.      *)
(* Result texts are left out; a class stands for the action names that     *)
(* ClassifyLegacyAction puts in it.                                        *)
(***************************************************************************)
EXTENDS Naturals

CONSTANTS
    ActionIds,  \* ids of remediation actions
    Requests,   \* concurrent approve and execute requests
    Modes,      \* REMEDIATION_MODE values the service has run with
    PanelAsks   \* whether the Control Panel asks for the dispatch context

ASSUME RemediationAssumption ==
    /\ ActionIds # {}
    /\ Modes \subseteq {"disabled", "suggest_only", "safe_auto", "manual_approval"}
    /\ PanelAsks \in BOOLEAN

VARIABLES
    rows,         \* the stored actions
    requests,     \* what each request is doing, with its copy of the row
    approved,     \* history: actions an operator has approved
    performed,    \* history: actions the Control Panel has carried out
    recorded,     \* history: actions that were stored as executed
    redispatched  \* history: those of them carried out afterwards

vars == <<rows, requests, approved, performed, recorded, redispatched>>

Statuses == {"absent", "disabled", "pending_approval", "suggested", "approved",
             "executed", "blocked"}

\* What ClassifyLegacyAction makes of the name of an action.
Classes == {"local", "application", "host", "forbidden", "unknown"}

Action == [class      : Classes,
           mode       : {"disabled", "suggest_only", "safe_auto", "manual_approval"},
           approval   : BOOLEAN,
           safe       : BOOLEAN,
           correlated : BOOLEAN,
           status     : Statuses,
           executedAt : BOOLEAN]

Request == [pc : {"idle", "approve", "dispatch", "write"}, id : ActionIds, copy : Action]

NoAction == [class |-> "unknown", mode |-> "suggest_only", approval |-> FALSE, safe |-> FALSE,
             correlated |-> FALSE, status |-> "absent", executedAt |-> FALSE]

Idle == [pc |-> "idle", id |-> CHOOSE a \in ActionIds : TRUE, copy |-> NoAction]

IsTerminalStatus(status) == status \in {"executed", "blocked"}

-----------------------------------------------------------------------------
(* The policy.                                                               *)

InitialStatus(mode, approval) ==
    IF mode = "disabled" THEN "disabled"
    ELSE IF approval \/ mode = "manual_approval" THEN "pending_approval"
    ELSE "suggested"

\* BuildActions, with whether the incident has a stream and its ids are bounded:
\* an action of the report's approval_required list, or of its
\* safe_auto_candidates, where only the names IsSafeAuto knows are safe.
Built(class, mode, approval, correlated) ==
    [class |-> class, mode |-> mode, approval |-> approval,
     safe |-> ~approval /\ class \in {"local", "application"},
     correlated |-> correlated,
     status |-> InitialStatus(mode, approval), executedAt |-> FALSE]

Approve(action) ==
    IF action.status = "pending_approval" THEN [action EXCEPT !.status = "approved"] ELSE action

\* The checks of Execute on an action that is not terminal.
Refused(action) ==
    \/ action.mode \in {"disabled", "suggest_only"} \/ action.status = "disabled"
    \/ (action.mode = "manual_approval" \/ action.approval) /\ action.status # "approved"
    \/ action.class \in {"forbidden", "unknown"}
    \/ ~action.safe /\ ~action.approval

Execute(action) ==
    IF Refused(action)
    THEN [action EXCEPT !.status = "blocked"]
    ELSE [action EXCEPT !.status = "executed", !.executedAt = TRUE]

\* Mutant of DispatchExecutable: the mode's own wish for approval is forgotten.
DispatchExecutableUnlessFlagged(action) ==
    /\ ~IsTerminalStatus(action.status)
    /\ action.class = "application"
    /\ action.mode \notin {"disabled", "suggest_only"}
    /\ action.approval => action.status = "approved"
    /\ action.safe \/ action.approval

\* remediationActionDispatchExecutable.
DispatchExecutable(action) ==
    /\ ~IsTerminalStatus(action.status)
    /\ action.class = "application"
    /\ action.mode \notin {"disabled", "suggest_only"}
    /\ (action.mode = "manual_approval" \/ action.approval) => action.status = "approved"
    /\ action.safe \/ action.approval

\* getRemediationDispatchContext answers with the context.
DispatchContext(action) == DispatchExecutable(action) /\ action.correlated

\* Mutant of Proposable: only the class is looked at.
ProposableUncorrelated(action) == action.class = "application"

\* A proposal can be made of the action and its incident, passes Validate and
\* gets through the adapter to the Control Panel's request.
Proposable(action) == action.class = "application" /\ action.correlated

-----------------------------------------------------------------------------

\* Rows an earlier version stored under names this one refuses.
LegacyRows ==
    {[class |-> c, mode |-> m, approval |-> TRUE, safe |-> FALSE,
      correlated |-> TRUE, status |-> InitialStatus(m, TRUE), executedAt |-> FALSE] :
        c \in {"forbidden", "unknown"}, m \in Modes}

TypeOK ==
    /\ rows \in [ActionIds -> Action]
    /\ requests \in [Requests -> Request]
    /\ approved \subseteq ActionIds
    /\ performed \subseteq ActionIds
    /\ recorded \subseteq ActionIds
    /\ redispatched \subseteq ActionIds

Init ==
    /\ rows \in [ActionIds -> {NoAction} \cup LegacyRows]
    /\ requests = [r \in Requests |-> Idle]
    /\ approved = {}
    /\ performed = {}
    /\ recorded = {}
    /\ redispatched = {}

\* createRemediationActions stores what BuildActions returns for a new incident.
Create(a, class, mode, approval, correlated) ==
    /\ rows[a].status = "absent"
    /\ rows' = [rows EXCEPT ![a] = Built(class, mode, approval, correlated)]
    /\ UNCHANGED <<requests, approved, performed, recorded, redispatched>>

\* GetRemediationAction of approveRemediationAction.
ReadToApprove(r, a) ==
    /\ requests[r].pc = "idle"
    /\ rows[a].status # "absent"
    /\ requests' = [requests EXCEPT ![r] = [pc |-> "approve", id |-> a, copy |-> rows[a]]]
    /\ UNCHANGED <<rows, approved, performed, recorded, redispatched>>

\* GetRemediationAction of executeRemediationAction and the policy's verdict.
ReadToExecute(r, a) ==
    /\ requests[r].pc = "idle"
    /\ rows[a].status # "absent"
    /\ ~IsTerminalStatus(rows[a].status)
    /\ LET copy == Execute(rows[a]) IN
       requests' = [requests EXCEPT ![r] =
         [pc   |-> IF copy.status = "executed" /\ copy.class = "application"
                   THEN "dispatch" ELSE "write",
          id   |-> a,
          copy |-> copy]]
    /\ UNCHANGED <<rows, approved, performed, recorded, redispatched>>

-----------------------------------------------------------------------------
(* The dispatch of a retry.                                                  *)

DispatchOk(r) == requests' = [requests EXCEPT ![r].pc = "write"]

\* Mutant of DispatchBlocked: the copy stays "executed" when the dispatch failed.
DispatchBlockedKeeping(r) == requests' = [requests EXCEPT ![r].pc = "write"]

\* Mutant of DispatchBlocked: executed_at is not cleared.
DispatchBlockedStamped(r) ==
    requests' = [requests EXCEPT ![r] =
      [@ EXCEPT !.pc = "write", !.copy = [requests[r].copy EXCEPT !.status = "blocked"]]]

\* No incident, no stream, or an error: the copy becomes blocked.
DispatchBlocked(r) ==
    requests' = [requests EXCEPT ![r] =
      [@ EXCEPT !.pc = "write",
                !.copy = [requests[r].copy EXCEPT !.status = "blocked", !.executedAt = FALSE]]]

\* No proposal can be made, the request never reaches the Control Panel, or it
\* finds that the action is not executable any more.
DispatchFails(r) ==
    /\ requests[r].pc = "dispatch"
    /\ DispatchBlocked(r)
    /\ UNCHANGED <<rows, approved, performed, recorded, redispatched>>

\* The Control Panel carries the retry out; its answer may get lost.
DispatchPerformed(r, lostAnswer) ==
    LET a == requests[r].id IN
    /\ requests[r].pc = "dispatch"
    /\ Proposable(requests[r].copy)
    /\ PanelAsks => DispatchContext(rows[a])
    /\ performed' = performed \cup {a}
    /\ redispatched' = IF a \in recorded THEN redispatched \cup {a} ELSE redispatched
    /\ IF lostAnswer THEN DispatchBlocked(r) ELSE DispatchOk(r)
    /\ UNCHANGED <<rows, approved, recorded>>

-----------------------------------------------------------------------------
(* UpdateRemediationAction: the copy replaces the row.                       *)

Store(r, copy) ==
    LET a == requests[r].id IN
    /\ rows' = [rows EXCEPT ![a].status = copy.status, ![a].executedAt = copy.executedAt]
    /\ recorded' = IF copy.status = "executed" THEN recorded \cup {a} ELSE recorded
    /\ requests' = [requests EXCEPT ![r] = Idle]

WriteApproval(r) ==
    /\ requests[r].pc = "approve"
    /\ Store(r, Approve(requests[r].copy))
    /\ approved' = IF requests[r].copy.status = "pending_approval"
                   THEN approved \cup {requests[r].id} ELSE approved
    /\ UNCHANGED <<performed, redispatched>>

WriteExecution(r) ==
    /\ requests[r].pc = "write"
    /\ Store(r, requests[r].copy)
    /\ UNCHANGED <<approved, performed, redispatched>>

\* The write fails, the client goes away or the process dies.
Abort(r) ==
    /\ requests[r].pc # "idle"
    /\ requests' = [requests EXCEPT ![r] = Idle]
    /\ UNCHANGED <<rows, approved, performed, recorded, redispatched>>

-----------------------------------------------------------------------------

Next ==
    \/ \E a \in ActionIds, c \in {"local", "application", "host"}, m \in Modes, p, i \in BOOLEAN :
         Create(a, c, m, p, i)
    \/ \E r \in Requests :
         \/ \E a \in ActionIds : ReadToApprove(r, a) \/ ReadToExecute(r, a)
         \/ DispatchFails(r)
         \/ \E lostAnswer \in BOOLEAN : DispatchPerformed(r, lostAnswer)
         \/ WriteApproval(r) \/ WriteExecution(r)
         \/ Abort(r)

Spec == Init /\ [][Next]_vars

-----------------------------------------------------------------------------

\* "Keep dangerous remediation actions manual": however requests race, the
\* Control Panel is never asked to carry out an action whose policy wants an
\* approval before an operator gave one, nor anything in disabled or
\* suggest_only mode, nor one without a stream and evidence to correlate it.
OnlyPermittedPerformed ==
    \A a \in performed :
        /\ rows[a].class = "application" /\ rows[a].correlated
        /\ rows[a].mode \in {"safe_auto", "manual_approval"}
        /\ rows[a].approval \/ rows[a].mode = "manual_approval" => a \in approved

\* The dispatch context the Control Panel is shown and the policy the execute
\* handler applies are written twice; they agree on every row that can be
\* stored, so a retry the policy lets through is never refused by the other
\* gate and the other gate opens for nothing the policy would block.
GatesAgree ==
    \A a \in ActionIds :
        /\ rows[a].class = "application"
        /\ rows[a].status # "absent"
        /\ ~IsTerminalStatus(rows[a].status)
        => (DispatchExecutable(rows[a]) <=> ~Refused(rows[a]))

\* A stored "executed" of a retry is true: the Control Panel carried it out.
ExecutedWasPerformed ==
    \A a \in ActionIds :
        rows[a].status = "executed" /\ rows[a].class = "application" => a \in performed

\* executed_at is set on exactly the rows that say "executed", whichever
\* stale copy was written last, and no forbidden action ever says so.
ExecutedConsistent ==
    \A a \in ActionIds :
        /\ rows[a].executedAt <=> rows[a].status = "executed"
        /\ rows[a].status = "executed" => rows[a].class \notin {"forbidden", "unknown"}

\* "executor must not be called for already executed action", "terminal action
\* response without redispatch": a retry that was stored as executed is not
\* carried out a second time, at least by a Control Panel that asks.
NoRedispatch == redispatched = {}

=============================================================================
