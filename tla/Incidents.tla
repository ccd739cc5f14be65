------------------------------ MODULE Incidents ------------------------------
(***************************************************************************)
(* Incident rows and the pure rules both stores apply to them: the status  *)
(* machine, the severity order and what one occurrence, one status update  *)
(* and one recovery write into a row.                                      *)
(*                                                                         *)
(* Summaries and timestamps are left out.  A diagnostic report is a        *)
(* function of the incident's rule and of the signal it was computed from, *)
(* so `report' holds that signal's id.  Signal ids are numbered in the     *)
(* order SaveSignal stored them; 0 is the empty id.                        *)
(***************************************************************************)
EXTENDS Naturals

CONSTANTS
    IncidentIds,  \* ids newID("inc") can return
    NoIncidentId, \* no incident
    Keys,         \* (rule, service, stream) triples
    NoKey,        \* a NULL dedupe_key
    Severities,   \* the severities the detection rules use here
    SignalIds     \* ids of the signals SaveSignal stores

ASSUME IncidentsAssumption ==
    /\ NoIncidentId \notin IncidentIds
    /\ NoKey \notin Keys
    /\ Severities \subseteq {"info", "warning", "error", "critical"}
    /\ Severities # {}
    /\ SignalIds \subseteq Nat \ {0}

ActiveStatuses   == {"open", "acknowledged", "investigating", "mitigated"}
TerminalStatuses == {"resolved", "ignored"}
IncidentStatuses == ActiveStatuses \cup TerminalStatuses

\* canTransitionIncidentStatus, for two different valid statuses.
CanTransition(current, next) ==
    \/ current = "open"
    \/ current = "acknowledged"  /\ next \in {"investigating", "mitigated"} \cup TerminalStatuses
    \/ current = "investigating" /\ next \in {"mitigated"} \cup TerminalStatuses
    \/ current = "mitigated"     /\ next \in TerminalStatuses

IncidentSeverityRank(severity) ==
    CASE severity = "info"     -> 1
      [] severity = "warning"  -> 2
      [] severity = "error"    -> 3
      [] severity = "critical" -> 4
      [] OTHER                 -> 0

IsMoreSevere(candidate, current) ==
    IncidentSeverityRank(candidate) > IncidentSeverityRank(current)

Incident == [key        : Keys \cup {NoKey},
             status     : IncidentStatuses \cup {"absent"},
             severity   : Severities \cup {"none"},
             signal     : Nat,
             report     : Nat,
             count      : Nat,
             resolvedBy : Nat,
             reason     : {"", "manual", "recovery"}]

\* No row has this id yet.
Absent == [key |-> NoKey, status |-> "absent", severity |-> "none", signal |-> 0,
           report |-> 0, count |-> 0, resolvedBy |-> 0, reason |-> ""]

IsActive(incident)   == incident.status \in ActiveStatuses
IsTerminal(incident) == incident.status \in TerminalStatuses

\* The row UpsertIncident creates for a first occurrence.
Opened(key, severity, signal) ==
    [key |-> key, status |-> "open", severity |-> severity, signal |-> signal,
     report |-> signal, count |-> 1, resolvedBy |-> 0, reason |-> ""]

\* What UpsertIncident writes over the active row it found.
Occurred(incident, severity, signal) ==
    [incident EXCEPT !.severity = IF IsMoreSevere(severity, @) THEN severity ELSE @,
                     !.signal   = signal,
                     !.report   = signal,
                     !.count    = @ + 1]

\* What an accepted UpdateIncidentStatus writes.
WithStatus(incident, status) ==
    [incident EXCEPT !.status     = status,
                     !.resolvedBy = 0,
                     !.reason     = IF status \in TerminalStatuses THEN "manual" ELSE ""]

\* What ResolveActiveIncidents writes: the recovery and the signal that proved it.
Recovered(incident, signal) ==
    [incident EXCEPT !.status     = "resolved",
                     !.resolvedBy = signal,
                     !.reason     = "recovery"]

=============================================================================
