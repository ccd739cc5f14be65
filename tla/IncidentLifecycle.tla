-------------------------- MODULE IncidentLifecycle --------------------------
(***************************************************************************)
(* What an incident store promises, whatever keeps the rows: the lifecycle *)
(* of an incident as README.md:79 states it, one atomic step per accepted  *)
(* operation.  Both stores implement it.                                   *)
(***************************************************************************)
EXTENDS Incidents

VARIABLE incidents  \* the durable rows by id

Init == incidents = [i \in IncidentIds |-> Absent]

\* A failure of a resource that has no active incident opens a new row.
Open(i, key, severity, signal) ==
    /\ incidents[i] = Absent
    /\ \A j \in IncidentIds : ~(IsActive(incidents[j]) /\ incidents[j].key = key)
    /\ incidents' = [incidents EXCEPT ![i] = Opened(key, severity, signal)]

\* A failure of a resource that has an active incident is one more occurrence.
Recur(i, severity, signal) ==
    /\ IsActive(incidents[i])
    /\ incidents' = [incidents EXCEPT ![i] = Occurred(@, severity, signal)]

\* An operator moves the incident forward.
ChangeStatus(i, status) ==
    /\ incidents[i] # Absent
    /\ incidents[i].status # status
    /\ CanTransition(incidents[i].status, status)
    /\ incidents' = [incidents EXCEPT ![i] = WithStatus(@, status)]

\* A healthy signal ends the active incident.
Recover(i, signal) ==
    /\ IsActive(incidents[i])
    /\ incidents' = [incidents EXCEPT ![i] = Recovered(@, signal)]

Next ==
    \E i \in IncidentIds :
        \/ \E k \in Keys, s \in Severities, n \in SignalIds : Open(i, k, s, n)
        \/ \E s \in Severities, n \in SignalIds : Recur(i, s, n)
        \/ \E st \in IncidentStatuses : ChangeStatus(i, st)
        \/ \E n \in SignalIds : Recover(i, n)

Spec == Init /\ [][Next]_incidents

=============================================================================
