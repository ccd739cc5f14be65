--------------------------- MODULE MemoryIncidents ---------------------------
(***************************************************************************)
(* The incidents of MemoryStore: the rows, and the activeIncidents index   *)
(* from a (rule, service, stream) key to the row that is active for it.    *)
(* Every method runs under the store's mutex, so it is one step.  The      *)
(* diagnostics rerun of the HTTP API is the one caller that reads a row in *)
(* one call and writes it in a later one.                                  *)
(***************************************************************************)
EXTENDS Incidents

CONSTANT Admins  \* requests that rerun diagnostics

VARIABLES
    incidents,        \* s.incidents
    activeIncidents,  \* s.activeIncidents
    unevaluated,      \* signals ingest has not applied to a key yet
    reruns            \* what each rerunIncidentDiagnostics request has read

vars == <<incidents, activeIncidents, unevaluated, reruns>>

NoRerun == [id |-> NoIncidentId, signal |-> 0]

TypeOK ==
    /\ incidents \in [IncidentIds -> Incident]
    /\ activeIncidents \in [Keys -> IncidentIds \cup {NoIncidentId}]
    /\ unevaluated \in [Keys -> SUBSET SignalIds]
    /\ reruns \in [Admins -> [id : IncidentIds \cup {NoIncidentId}, signal : Nat]]

Init ==
    /\ incidents = [i \in IncidentIds |-> Absent]
    /\ activeIncidents = [k \in Keys |-> NoIncidentId]
    /\ unevaluated = [k \in Keys |-> SignalIds]
    /\ reruns = [a \in Admins |-> NoRerun]

\* The index names a live row: the guard of the recurrence branch.
HasActive(key) ==
    /\ activeIncidents[key] # NoIncidentId
    /\ IsActive(incidents[activeIncidents[key]])

\* Ingest requests run concurrently: they reach the store in any order.
Evaluate(key, signal) ==
    /\ signal \in unevaluated[key]
    /\ unevaluated' = [unevaluated EXCEPT ![key] = @ \ {signal}]

\* Mutant of UpsertRecur: the detected incident's "open" replaces the status.
UpsertReopen(key, severity, signal) ==
    /\ Evaluate(key, signal)
    /\ HasActive(key)
    /\ incidents' = [incidents EXCEPT
                        ![activeIncidents[key]] =
                            [Occurred(@, severity, signal) EXCEPT !.status = "open"]]
    /\ UNCHANGED <<activeIncidents, reruns>>

UpsertRecur(key, severity, signal) ==
    /\ Evaluate(key, signal)
    /\ HasActive(key)
    /\ incidents' = [incidents EXCEPT
                        ![activeIncidents[key]] = Occurred(@, severity, signal)]
    /\ UNCHANGED <<activeIncidents, reruns>>

\* A missing or terminal index entry is dropped and overwritten by the new id.
UpsertOpen(key, severity, signal) ==
    /\ Evaluate(key, signal)
    /\ ~HasActive(key)
    /\ \E i \in IncidentIds :
        /\ incidents[i] = Absent
        /\ incidents' = [incidents EXCEPT ![i] = Opened(key, severity, signal)]
        /\ activeIncidents' = [activeIncidents EXCEPT ![key] = i]
    /\ UNCHANGED reruns

\* Mutant of UpdateIncidentStatus: a terminal status leaves the index entry.
UpdateStatusKeepingIndex(i, status) ==
    /\ incidents[i] # Absent
    /\ incidents[i].status # status
    /\ CanTransition(incidents[i].status, status)
    /\ incidents' = [incidents EXCEPT ![i] = WithStatus(@, status)]
    /\ UNCHANGED <<activeIncidents, unevaluated, reruns>>

UpdateIncidentStatus(i, status) ==
    /\ incidents[i] # Absent
    /\ incidents[i].status # status
    /\ CanTransition(incidents[i].status, status)
    /\ incidents' = [incidents EXCEPT ![i] = WithStatus(@, status)]
    /\ activeIncidents' = IF status \in TerminalStatuses
                          THEN [activeIncidents EXCEPT ![incidents[i].key] = NoIncidentId]
                          ELSE activeIncidents
    /\ UNCHANGED <<unevaluated, reruns>>

ResolveActiveIncidents(key, signal) ==
    /\ Evaluate(key, signal)
    /\ activeIncidents[key] # NoIncidentId
    /\ incidents' = IF HasActive(key)
                    THEN [incidents EXCEPT
                            ![activeIncidents[key]] = Recovered(@, signal)]
                    ELSE incidents
    /\ activeIncidents' = [activeIncidents EXCEPT ![key] = NoIncidentId]
    /\ UNCHANGED reruns

\* GetIncident of a rerun; GetSignal and the evaluation change nothing.
RerunRead(a, i) ==
    /\ reruns[a] = NoRerun
    /\ incidents[i] # Absent
    /\ reruns' = [reruns EXCEPT ![a] = [id |-> i, signal |-> incidents[i].signal]]
    /\ UNCHANGED <<incidents, activeIncidents, unevaluated>>

\* Mutant of RerunWrite: no comparison with the signal that was evaluated.
RerunWriteBlindly(a) ==
    LET r == reruns[a] IN
    /\ r # NoRerun
    /\ incidents' = [incidents EXCEPT ![r.id].report = r.signal]
    /\ reruns' = [reruns EXCEPT ![a] = NoRerun]
    /\ UNCHANGED <<activeIncidents, unevaluated>>

\* UpdateIncidentDiagnostic with the signal the rerun evaluated.  The saved
\* signal may no longer match the rule, and then nothing is written.
RerunWrite(a) ==
    LET r == reruns[a] IN
    /\ r # NoRerun
    /\ incidents' \in {incidents,
                       IF incidents[r.id].signal = r.signal
                       THEN [incidents EXCEPT ![r.id].report = r.signal]
                       ELSE incidents}
    /\ reruns' = [reruns EXCEPT ![a] = NoRerun]
    /\ UNCHANGED <<activeIncidents, unevaluated>>

Next ==
    \/ \E k \in Keys, n \in SignalIds :
        \/ \E s \in Severities : UpsertRecur(k, s, n) \/ UpsertOpen(k, s, n)
        \/ ResolveActiveIncidents(k, n)
    \/ \E i \in IncidentIds, st \in IncidentStatuses : UpdateIncidentStatus(i, st)
    \/ \E a \in Admins, i \in IncidentIds : RerunRead(a, i)
    \/ \E a \in Admins : RerunWrite(a)

Spec == Init /\ [][Next]_vars

-----------------------------------------------------------------------------

\* The index is exact: it names, for every key, the one active row of that
\* key, and has no entry when there is none.  UpsertIncident decides between
\* a new incident and one more occurrence by the index alone, while status
\* updates, recoveries and upserts all edit it: a stale or a missing entry
\* opens a second active incident or loses a recovery.
IndexExact ==
    \A k \in Keys, i \in IncidentIds :
        (IsActive(incidents[i]) /\ incidents[i].key = k) <=> activeIncidents[k] = i

\* "An incident dedupe key is unique only while the incident is active":
\* never two active rows of one (rule, service, stream).
OneActivePerKey ==
    \A i, j \in IncidentIds :
        /\ IsActive(incidents[i])
        /\ IsActive(incidents[j])
        /\ incidents[i].key = incidents[j].key
        => i = j

\* The stored report always explains the stored signal: a diagnostics rerun
\* whose incident was re-detected between its read and its write must not put
\* the report of the older signal under the newer one.
ReportMatchesSignal ==
    \A i \in IncidentIds : incidents[i].report = incidents[i].signal

\* Every operation of the memory store is one lifecycle step or leaves the
\* rows alone.
Lifecycle == INSTANCE IncidentLifecycle
ImplementsLifecycle == Lifecycle!Spec

=============================================================================
