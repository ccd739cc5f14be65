------------------------ MODULE MemoryIncidentsProofs ------------------------
(***************************************************************************)
(* MemoryIncidents: the index is exact, the report always explains the     *)
(* signal, and every step is a lifecycle step, for any sets of rows, keys, *)
(* signals and requests.  And IncidentHistory, the query of both stores: a *)
(* client that pages misses and repeats nothing, for any table and limits. *)
(***************************************************************************)
EXTENDS MemoryIncidents, IncidentHistory, FiniteSetTheorems, TLAPS

\* A row that exists has a key.  IndexExact alone is not inductive: clearing
\* the index entry of a row needs that row's key to be a key.
RowsHaveKeys ==
    \A i \in IncidentIds : incidents[i].status # "absent" => incidents[i].key \in Keys

\* The inductive invariant.
Inv == TypeOK /\ RowsHaveKeys /\ IndexExact /\ ReportMatchesSignal

-----------------------------------------------------------------------------

\* The absent row is a row.
LEMMA AbsentType == Absent \in Incident
BY DEF Absent, Incident, IncidentStatuses

\* A new incident is open, under its key, with the report of its signal.
LEMMA OpenedType ==
    ASSUME NEW k \in Keys \cup {NoKey}, NEW s \in Severities \cup {"none"}, NEW n \in Nat
    PROVE  /\ Opened(k, s, n) \in Incident
           /\ Opened(k, s, n).key = k
           /\ Opened(k, s, n).status = "open"
           /\ Opened(k, s, n).report = Opened(k, s, n).signal
BY IncidentsAssumption DEF Opened, Incident, IncidentStatuses, ActiveStatuses

\* One more occurrence keeps the key and the status and matches report to signal.
LEMMA OccurredType ==
    ASSUME NEW x \in Incident, NEW s \in Severities \cup {"none"}, NEW n \in Nat
    PROVE  /\ Occurred(x, s, n) \in Incident
           /\ Occurred(x, s, n).key = x.key
           /\ Occurred(x, s, n).status = x.status
           /\ Occurred(x, s, n).report = Occurred(x, s, n).signal
<1> DEFINE severity == IF IsMoreSevere(s, x.severity) THEN s ELSE x.severity
<1>1. severity \in Severities \cup {"none"} /\ n \in Nat
  BY IncidentsAssumption DEF Incident
<1> DEFINE half == [x EXCEPT !.severity = severity, !.signal = n]
<1>2. Occurred(x, s, n) = [half EXCEPT !.report = n, !.count = x.count + 1]
  BY DEF Occurred
<1> HIDE DEF severity
<1>3. /\ half \in Incident /\ half.key = x.key /\ half.status = x.status
      /\ half.signal = n
  BY <1>1 DEF Incident
<1>4. x.count + 1 \in Nat
  <2>1. x.count \in Nat
    BY DEF Incident
  <2> QED
    BY <2>1
<1> HIDE DEF half
<1> QED
  BY <1>1, <1>2, <1>3, <1>4 DEF Incident

\* A status update changes the status and leaves signal and report.
LEMMA WithStatusType ==
    ASSUME NEW x \in Incident, NEW st \in IncidentStatuses
    PROVE  /\ WithStatus(x, st) \in Incident
           /\ WithStatus(x, st).key = x.key
           /\ WithStatus(x, st).status = st
           /\ WithStatus(x, st).report = x.report
           /\ WithStatus(x, st).signal = x.signal
BY DEF WithStatus, Incident

\* A recovery resolves the incident and leaves signal and report.
LEMMA RecoveredType ==
    ASSUME NEW x \in Incident, NEW n \in Nat
    PROVE  /\ Recovered(x, n) \in Incident
           /\ Recovered(x, n).key = x.key
           /\ Recovered(x, n).status = "resolved"
           /\ Recovered(x, n).report = x.report
           /\ Recovered(x, n).signal = x.signal
BY IncidentsAssumption DEF Recovered, Incident, IncidentStatuses, TerminalStatuses

\* Only an active incident can change its status.
LEMMA TransitionsFromActive ==
    ASSUME NEW from, NEW to, CanTransition(from, to)
    PROVE  from \in ActiveStatuses
BY DEF CanTransition, ActiveStatuses

\* Active, terminal and absent exclude each other.
LEMMA StatusesDisjoint ==
    /\ ActiveStatuses \cap TerminalStatuses = {}
    /\ "absent" \notin IncidentStatuses
    /\ "open" \in ActiveStatuses
    /\ "resolved" \in TerminalStatuses
    /\ IncidentStatuses = ActiveStatuses \cup TerminalStatuses
BY DEF ActiveStatuses, TerminalStatuses, IncidentStatuses

-----------------------------------------------------------------------------

\* The invariant holds initially.
LEMMA InitInv == Init => Inv
<1> SUFFICES ASSUME Init PROVE Inv
  OBVIOUS
<1>1. TypeOK
  BY AbsentType DEF Init, TypeOK, NoRerun
<1>2. \A i \in IncidentIds : incidents[i] = Absent
  BY DEF Init
<1>3. Absent.status = "absent" /\ Absent.report = Absent.signal
  BY DEF Absent
<1>4. RowsHaveKeys /\ ReportMatchesSignal
  BY <1>2, <1>3 DEF RowsHaveKeys, ReportMatchesSignal
<1>5. IndexExact
  BY <1>2, <1>3, IncidentsAssumption, StatusesDisjoint DEF Init, IndexExact, IsActive
<1> QED
  BY <1>1, <1>4, <1>5 DEF Inv

\* One more occurrence preserves the invariant.
LEMMA UpsertRecurInv ==
    ASSUME Inv, NEW k \in Keys, NEW s \in Severities, NEW n \in SignalIds,
           UpsertRecur(k, s, n)
    PROVE  Inv'
<1> DEFINE i == activeIncidents[k]
<1>1. i \in IncidentIds /\ incidents[i] \in Incident
  BY DEF Inv, TypeOK, UpsertRecur, HasActive
<1>2. incidents' = [incidents EXCEPT ![i] = Occurred(incidents[i], s, n)]
  BY DEF UpsertRecur
<1>3. UNCHANGED <<activeIncidents, reruns>> /\ unevaluated' \in [Keys -> SUBSET SignalIds]
  BY DEF UpsertRecur, Evaluate, Inv, TypeOK
<1>4. /\ Occurred(incidents[i], s, n) \in Incident
      /\ Occurred(incidents[i], s, n).key = incidents[i].key
      /\ Occurred(incidents[i], s, n).status = incidents[i].status
      /\ Occurred(incidents[i], s, n).report = Occurred(incidents[i], s, n).signal
  BY <1>1, OccurredType, IncidentsAssumption
<1> HIDE DEF i
<1>5. TypeOK'
  BY <1>1, <1>2, <1>3, <1>4 DEF Inv, TypeOK
<1>6. \A j \in IncidentIds : /\ incidents'[j].key = incidents[j].key
                             /\ incidents'[j].status = incidents[j].status
  BY <1>1, <1>2, <1>4 DEF Inv, TypeOK
<1>7. RowsHaveKeys' /\ IndexExact'
  BY <1>3, <1>6 DEF Inv, RowsHaveKeys, IndexExact, IsActive
<1>8. ReportMatchesSignal'
  BY <1>1, <1>2, <1>4 DEF Inv, TypeOK, ReportMatchesSignal
<1> QED
  BY <1>5, <1>7, <1>8 DEF Inv

\* Opening an incident preserves the invariant.
LEMMA UpsertOpenInv ==
    ASSUME Inv, NEW k \in Keys, NEW s \in Severities, NEW n \in SignalIds,
           UpsertOpen(k, s, n)
    PROVE  Inv'
<1>1. PICK i \in IncidentIds :
        /\ incidents[i] = Absent
        /\ incidents' = [incidents EXCEPT ![i] = Opened(k, s, n)]
        /\ activeIncidents' = [activeIncidents EXCEPT ![k] = i]
  BY DEF UpsertOpen
<1>2. reruns' = reruns /\ unevaluated' \in [Keys -> SUBSET SignalIds]
  BY DEF UpsertOpen, Evaluate, Inv, TypeOK
<1> DEFINE new == Opened(k, s, n)
<1>3. /\ new \in Incident /\ new.key = k /\ new.status = "open"
      /\ new.report = new.signal
  BY OpenedType, IncidentsAssumption
<1>4. incidents[i].status = "absent"
  <2>1. Absent.status = "absent"
    BY DEF Absent
  <2> QED
    BY <1>1, <2>1
<1>5. incidents' = [incidents EXCEPT ![i] = new]
  BY <1>1
<1> HIDE DEF new
<1>6. TypeOK'
  BY <1>1, <1>2, <1>3, <1>5 DEF Inv, TypeOK
<1>7. RowsHaveKeys' /\ ReportMatchesSignal'
  BY <1>3, <1>5 DEF Inv, TypeOK, RowsHaveKeys, ReportMatchesSignal
<1>8. \A j \in IncidentIds : IsActive(incidents[j]) => incidents[j].key # k
  <2>1. ~HasActive(k)
    BY DEF UpsertOpen
  <2> SUFFICES ASSUME NEW j \in IncidentIds, IsActive(incidents[j]), incidents[j].key = k
               PROVE  FALSE
    OBVIOUS
  <2>2. activeIncidents[k] = j
    BY DEF Inv, IndexExact
  <2> QED
    BY <2>1, <2>2, IncidentsAssumption DEF HasActive
<1>9. IndexExact'
  <2> SUFFICES ASSUME NEW h \in Keys, NEW j \in IncidentIds
               PROVE  (IsActive(incidents'[j]) /\ incidents'[j].key = h)
                        <=> activeIncidents'[h] = j
    BY DEF IndexExact, IsActive
  <2>1. CASE j = i
    BY <2>1, <1>1, <1>3, <1>4, <1>5, StatusesDisjoint
       DEF Inv, TypeOK, IndexExact, IsActive
  <2>2. CASE j # i
    BY <2>2, <1>1, <1>5, <1>8 DEF Inv, TypeOK, IndexExact, IsActive
  <2> QED
    BY <2>1, <2>2
<1> QED
  BY <1>6, <1>7, <1>9 DEF Inv

\* An operator's status update preserves the invariant.
LEMMA UpdateStatusInv ==
    ASSUME Inv, NEW i \in IncidentIds, NEW st \in IncidentStatuses,
           UpdateIncidentStatus(i, st)
    PROVE  Inv'
<1> DEFINE new == WithStatus(incidents[i], st)
<1>1. /\ new \in Incident /\ new.key = incidents[i].key /\ new.status = st
      /\ new.report = incidents[i].report /\ new.signal = incidents[i].signal
  BY WithStatusType DEF Inv, TypeOK
<1>2. incidents' = [incidents EXCEPT ![i] = new]
  BY DEF UpdateIncidentStatus
<1> HIDE DEF new
<1>3. UNCHANGED <<unevaluated, reruns>>
  BY DEF UpdateIncidentStatus
<1>4. IsActive(incidents[i]) /\ incidents[i].key \in Keys
  BY TransitionsFromActive, StatusesDisjoint
     DEF UpdateIncidentStatus, Inv, RowsHaveKeys, IsActive
<1>5. activeIncidents[incidents[i].key] = i
  BY <1>4 DEF Inv, IndexExact
<1>6. activeIncidents' = IF st \in TerminalStatuses
                         THEN [activeIncidents EXCEPT ![incidents[i].key] = NoIncidentId]
                         ELSE activeIncidents
  BY DEF UpdateIncidentStatus
<1>7. TypeOK'
  BY <1>1, <1>2, <1>3, <1>6 DEF Inv, TypeOK
<1>8. RowsHaveKeys' /\ ReportMatchesSignal'
  BY <1>1, <1>2, <1>4 DEF Inv, TypeOK, RowsHaveKeys, ReportMatchesSignal
<1>9. IndexExact'
  <2> SUFFICES ASSUME NEW h \in Keys, NEW j \in IncidentIds
               PROVE  (IsActive(incidents'[j]) /\ incidents'[j].key = h)
                        <=> activeIncidents'[h] = j
    BY DEF IndexExact, IsActive
  <2>1. (IsActive(incidents[j]) /\ incidents[j].key = h) <=> activeIncidents[h] = j
    BY DEF Inv, IndexExact
  <2>2. CASE st \in TerminalStatuses
    <3>1. activeIncidents' = [activeIncidents EXCEPT ![incidents[i].key] = NoIncidentId]
      BY <1>6, <2>2
    <3>2. ~IsActive(new)
      BY <1>1, <2>2, StatusesDisjoint DEF IsActive
    <3> QED
      BY <1>1, <1>2, <1>4, <1>5, <2>1, <3>1, <3>2, IncidentsAssumption DEF Inv, TypeOK
  <2>3. CASE st \notin TerminalStatuses
    <3>1. IsActive(new) /\ activeIncidents' = activeIncidents
      BY <1>1, <1>6, <2>3, StatusesDisjoint DEF IsActive
    <3> QED
      BY <1>1, <1>2, <1>4, <2>1, <3>1 DEF Inv, TypeOK
  <2> QED
    BY <2>2, <2>3
<1> QED
  BY <1>7, <1>8, <1>9 DEF Inv

\* A recovery preserves the invariant.
LEMMA ResolveInv ==
    ASSUME Inv, NEW k \in Keys, NEW n \in SignalIds, ResolveActiveIncidents(k, n)
    PROVE  Inv'
<1> DEFINE i == activeIncidents[k]
           new == Recovered(incidents[i], n)
<1>1. i \in IncidentIds /\ i = activeIncidents[k]
  BY DEF ResolveActiveIncidents, Inv, TypeOK
<1>2. IsActive(incidents[i]) /\ incidents[i].key = k
  BY <1>1 DEF Inv, IndexExact
<1>3. /\ new \in Incident /\ new.key = incidents[i].key /\ new.status = "resolved"
      /\ new.report = incidents[i].report /\ new.signal = incidents[i].signal
  BY <1>1, RecoveredType, IncidentsAssumption DEF Inv, TypeOK
<1>4. incidents' = [incidents EXCEPT ![i] = new]
  BY <1>1, <1>2 DEF ResolveActiveIncidents, HasActive
<1>5. activeIncidents' = [activeIncidents EXCEPT ![k] = NoIncidentId]
  BY DEF ResolveActiveIncidents
<1>6. reruns' = reruns /\ unevaluated' \in [Keys -> SUBSET SignalIds]
  BY DEF ResolveActiveIncidents, Evaluate, Inv, TypeOK
<1>7. ~IsActive(new)
  BY <1>3, StatusesDisjoint DEF IsActive
<1> HIDE DEF i, new
<1>8. TypeOK'
  BY <1>1, <1>3, <1>4, <1>5, <1>6 DEF Inv, TypeOK
<1>9. RowsHaveKeys' /\ ReportMatchesSignal'
  BY <1>1, <1>2, <1>3, <1>4 DEF Inv, TypeOK, RowsHaveKeys, ReportMatchesSignal
<1>10. IndexExact'
  <2> SUFFICES ASSUME NEW h \in Keys, NEW j \in IncidentIds
               PROVE  (IsActive(incidents'[j]) /\ incidents'[j].key = h)
                        <=> activeIncidents'[h] = j
    BY DEF IndexExact, IsActive
  <2>1. (IsActive(incidents[j]) /\ incidents[j].key = h) <=> activeIncidents[h] = j
    BY DEF Inv, IndexExact
  <2> QED
    BY <1>1, <1>2, <1>3, <1>4, <1>5, <1>7, <2>1, IncidentsAssumption DEF Inv, TypeOK
<1> QED
  BY <1>8, <1>9, <1>10 DEF Inv

\* Reading an incident for a rerun preserves the invariant.
LEMMA RerunReadInv ==
    ASSUME Inv, NEW a \in Admins, NEW i \in IncidentIds, RerunRead(a, i)
    PROVE  Inv'
<1>1. incidents[i].signal \in Nat
  BY DEF Inv, TypeOK, Incident
<1>2. TypeOK'
  BY <1>1 DEF RerunRead, Inv, TypeOK
<1> QED
  BY <1>2 DEF RerunRead, Inv, RowsHaveKeys, IndexExact, ReportMatchesSignal, IsActive

\* The report a rerun may write is the one that is already there.
LEMMA RerunWriteUnchanged ==
    ASSUME Inv, NEW a \in Admins, RerunWrite(a)
    PROVE  UNCHANGED incidents
<1> DEFINE r == reruns[a]
<1>1. CASE incidents' = incidents
  BY <1>1
<1>2. CASE incidents' # incidents
  <2>1. /\ incidents[r.id].signal = r.signal
        /\ incidents' = [incidents EXCEPT ![r.id].report = r.signal]
    BY <1>2 DEF RerunWrite
  <2>2. CASE r.id \in IncidentIds
    <3>1. incidents[r.id] \in Incident /\ incidents[r.id].report = r.signal
      BY <2>1, <2>2 DEF Inv, TypeOK, ReportMatchesSignal
    <3>2. [incidents[r.id] EXCEPT !.report = r.signal] = incidents[r.id]
      BY <3>1 DEF Incident
    <3> QED
      BY <2>1, <2>2, <3>2 DEF Inv, TypeOK
  <2>3. CASE r.id \notin IncidentIds
    BY <2>1, <2>3 DEF Inv, TypeOK
  <2> QED
    BY <2>2, <2>3
<1> QED
  BY <1>1, <1>2

\* Writing a rerun's report preserves the invariant.
LEMMA RerunWriteInv ==
    ASSUME Inv, NEW a \in Admins, RerunWrite(a)
    PROVE  Inv'
<1>1. UNCHANGED <<activeIncidents, unevaluated>> /\ reruns' \in [Admins ->
            [id : IncidentIds \cup {NoIncidentId}, signal : Nat]]
  BY IncidentsAssumption DEF RerunWrite, Inv, TypeOK, NoRerun
<1>2. incidents' = incidents
  BY RerunWriteUnchanged
<1> QED
  BY <1>1, <1>2 DEF Inv, TypeOK, RowsHaveKeys, IndexExact, ReportMatchesSignal, IsActive

\* Every step preserves the invariant.
LEMMA NextInv == Inv /\ [Next]_vars => Inv'
<1> SUFFICES ASSUME Inv, [Next]_vars PROVE Inv'
  OBVIOUS
<1>1. CASE Next
  BY <1>1, UpsertRecurInv, UpsertOpenInv, UpdateStatusInv, ResolveInv, RerunReadInv,
     RerunWriteInv DEF Next
<1>2. CASE UNCHANGED vars
  BY <1>2 DEF vars, Inv, TypeOK, RowsHaveKeys, IndexExact, ReportMatchesSignal, IsActive
<1> QED
  BY <1>1, <1>2

\* The rows, the index and the reruns always have their types.
THEOREM TypeCorrect == Spec => []TypeOK
<1>1. Inv => TypeOK
  BY DEF Inv
<1> QED
  BY <1>1, InitInv, NextInv, PTL DEF Spec

\* The index of MemoryStore is exact whatever calls reach the store.
THEOREM IndexIsExact == Spec => []IndexExact
<1>1. Inv => IndexExact
  BY DEF Inv
<1> QED
  BY <1>1, InitInv, NextInv, PTL DEF Spec

\* At most one active incident of a (rule, service, stream) exists.
THEOREM MemoryOneActivePerKey == Spec => []OneActivePerKey
<1>1. Inv => OneActivePerKey
  BY StatusesDisjoint DEF Inv, RowsHaveKeys, IndexExact, OneActivePerKey, IsActive
<1> QED
  BY <1>1, InitInv, NextInv, PTL DEF Spec

\* The lifecycle applies the same operators to the rows.
LEMMA SameOperators ==
    /\ Lifecycle!Absent = Absent
    /\ Lifecycle!IncidentStatuses = IncidentStatuses
    /\ \A x : Lifecycle!IsActive(x) <=> IsActive(x)
    /\ \A x, y : Lifecycle!CanTransition(x, y) <=> CanTransition(x, y)
    /\ \A k, s, n : Lifecycle!Opened(k, s, n) = Opened(k, s, n)
    /\ \A x, s, n : Lifecycle!Occurred(x, s, n) = Occurred(x, s, n)
    /\ \A x, st : Lifecycle!WithStatus(x, st) = WithStatus(x, st)
    /\ \A x, n : Lifecycle!Recovered(x, n) = Recovered(x, n)
<1>1. /\ Lifecycle!ActiveStatuses = ActiveStatuses
      /\ Lifecycle!TerminalStatuses = TerminalStatuses
  BY DEF Lifecycle!ActiveStatuses, Lifecycle!TerminalStatuses, ActiveStatuses,
         TerminalStatuses
<1>2. Lifecycle!Absent = Absent /\ Lifecycle!IncidentStatuses = IncidentStatuses
  BY <1>1 DEF Lifecycle!Absent, Absent, Lifecycle!IncidentStatuses, IncidentStatuses
<1>3. \A x : Lifecycle!IsActive(x) <=> IsActive(x)
  BY <1>1 DEF Lifecycle!IsActive, IsActive
<1>4. \A x, y : Lifecycle!CanTransition(x, y) <=> CanTransition(x, y)
  BY <1>1, Zenon DEF Lifecycle!CanTransition, CanTransition
<1>5. \A k, s, n : Lifecycle!Opened(k, s, n) = Opened(k, s, n)
  BY DEF Lifecycle!Opened, Opened
<1>6. \A s, t : Lifecycle!IsMoreSevere(s, t) <=> IsMoreSevere(s, t)
  BY DEF Lifecycle!IsMoreSevere, IsMoreSevere, Lifecycle!IncidentSeverityRank,
         IncidentSeverityRank
<1>7. \A x, s, n : Lifecycle!Occurred(x, s, n) = Occurred(x, s, n)
  BY <1>6, Zenon DEF Lifecycle!Occurred, Occurred
<1>8. \A x, st : Lifecycle!WithStatus(x, st) = WithStatus(x, st)
  BY <1>1, Zenon DEF Lifecycle!WithStatus, WithStatus
<1>9. \A x, n : Lifecycle!Recovered(x, n) = Recovered(x, n)
  BY Zenon DEF Lifecycle!Recovered, Recovered
<1> QED
  BY <1>2, <1>3, <1>4, <1>5, <1>7, <1>8, <1>9

\* Every operation of MemoryStore is a step of the incident lifecycle.
THEOREM MemoryImplementsLifecycle == Spec => ImplementsLifecycle
<1>1. Init => Lifecycle!Init
  BY SameOperators DEF Init, Lifecycle!Init
<1>2. ASSUME Inv, [Next]_vars
      PROVE  [Lifecycle!Next]_incidents
  <2>1. ASSUME NEW k \in Keys, NEW s \in Severities, NEW n \in SignalIds,
               UpsertRecur(k, s, n)
        PROVE  Lifecycle!Next
    <3>1. activeIncidents[k] \in IncidentIds
      BY <1>2, <2>1 DEF Inv, TypeOK, UpsertRecur, HasActive
    <3>2. Lifecycle!Recur(activeIncidents[k], s, n)
      BY <2>1, SameOperators DEF UpsertRecur, HasActive, Lifecycle!Recur
    <3> QED
      BY <3>1, <3>2 DEF Lifecycle!Next
  <2>2. ASSUME NEW k \in Keys, NEW s \in Severities, NEW n \in SignalIds,
               UpsertOpen(k, s, n)
        PROVE  Lifecycle!Next
    <3>1. PICK i \in IncidentIds :
            /\ incidents[i] = Absent
            /\ incidents' = [incidents EXCEPT ![i] = Opened(k, s, n)]
      BY <2>2 DEF UpsertOpen
    <3>2. \A j \in IncidentIds : ~(IsActive(incidents[j]) /\ incidents[j].key = k)
      BY <1>2, <2>2, IncidentsAssumption DEF UpsertOpen, HasActive, Inv, IndexExact
    <3>3. Lifecycle!Open(i, k, s, n)
      BY <3>1, <3>2, SameOperators DEF Lifecycle!Open
    <3> QED
      BY <3>3 DEF Lifecycle!Next
  <2>3. ASSUME NEW k \in Keys, NEW n \in SignalIds, ResolveActiveIncidents(k, n)
        PROVE  [Lifecycle!Next]_incidents
    <3>1. CASE HasActive(k)
      <4>1. activeIncidents[k] \in IncidentIds
        BY <1>2, <2>3 DEF Inv, TypeOK, ResolveActiveIncidents
      <4>2. Lifecycle!Recover(activeIncidents[k], n)
        BY <2>3, <3>1, SameOperators DEF ResolveActiveIncidents, HasActive, Lifecycle!Recover
      <4> QED
        BY <4>1, <4>2 DEF Lifecycle!Next
    <3>2. CASE ~HasActive(k)
      BY <2>3, <3>2 DEF ResolveActiveIncidents
    <3> QED
      BY <3>1, <3>2
  <2>4. ASSUME NEW i \in IncidentIds, NEW st \in IncidentStatuses,
               UpdateIncidentStatus(i, st)
        PROVE  Lifecycle!Next
    <3>1. Lifecycle!ChangeStatus(i, st)
      BY <2>4, SameOperators DEF UpdateIncidentStatus, Lifecycle!ChangeStatus
    <3> QED
      BY <3>1, SameOperators DEF Lifecycle!Next
  <2>5. ASSUME NEW a \in Admins, NEW i \in IncidentIds, RerunRead(a, i)
        PROVE  UNCHANGED incidents
    BY <2>5 DEF RerunRead
  <2>6. ASSUME NEW a \in Admins, RerunWrite(a)
        PROVE  UNCHANGED incidents
    BY <1>2, <2>6, RerunWriteUnchanged
  <2>7. CASE UNCHANGED vars
    BY <2>7 DEF vars
  <2> QED
    BY <1>2, <2>1, <2>2, <2>3, <2>4, <2>5, <2>6, <2>7 DEF Next
<1> QED
  BY <1>1, <1>2, InitInv, NextInv, PTL DEF Spec, ImplementsLifecycle, Lifecycle!Spec

\* A rerun never leaves a report under a signal it was not computed from.
THEOREM ReportsMatch == Spec => []ReportMatchesSignal
<1>1. Inv => ReportMatchesSignal
  BY DEF Inv
<1> QED
  BY <1>1, InitInv, NextInv, PTL DEF Spec

-----------------------------------------------------------------------------
(* The history query.                                                        *)

HistoryTypeOK ==
    /\ second \in Nat
    /\ updatedAt \in [HistoryIds -> Nat]
    /\ cursor \in [at : Nat, id : Nat]
    /\ limit \in PageLimits
    /\ pages \in {"reading", "done"}
    /\ seen \in [HistoryIds -> Nat]
    /\ touched \subseteq HistoryIds

\* A reading client has seen of the untouched rows exactly those from its
\* cursor upwards, and once; HistoryComplete says nothing of a client that is
\* still reading.
SeenUpToCursor ==
    \A i \in HistoryIds \ touched :
        seen[i] = IF updatedAt[i] # 0 /\ (pages = "done" \/ ~Before(i)) THEN 1 ELSE 0

PagesInv == HistoryTypeOK /\ SeenUpToCursor

\* The rows of the WHERE clause, and those that ORDER BY puts before i.
Matching == {i \in HistoryIds : updatedAt[i] # 0 /\ Before(i)}
Above(i) == {j \in Matching : Newer(j, i)}

\* A page is the matching rows with fewer than limit before them.
LEMMA PageRows ==
    /\ Page \subseteq Matching
    /\ \A i \in Matching : i \in Page <=> Cardinality(Above(i)) < limit
BY DEF Page, Matching, Above

\* What is before a row is before the rows after it, and fewer.
LEMMA AboveGrows ==
    ASSUME HistoryTypeOK, NEW i \in Matching, NEW j \in Matching, Newer(j, i)
    PROVE  /\ Above(j) \subseteq Above(i)
           /\ j \in Above(i)
           /\ j \notin Above(j)
<1>1. Matching \subseteq HistoryIds
  BY DEF Matching
<1>2. \A q \in Matching : q \in Nat /\ updatedAt[q] \in Nat
  BY <1>1, HistoryAssumption DEF HistoryTypeOK
<1> QED
  BY <1>2 DEF Above, Newer

\* The sets of rows are finite.
LEMMA AboveFinite ==
    ASSUME NEW i
    PROVE  /\ IsFiniteSet(Above(i)) /\ Cardinality(Above(i)) \in Nat
           /\ IsFiniteSet(Page) /\ Cardinality(Page) \in Nat
<1>1. Above(i) \in SUBSET HistoryIds /\ Page \in SUBSET HistoryIds
  BY PageRows DEF Above, Matching
<1>2. IsFiniteSet(Above(i)) /\ IsFiniteSet(Page)
  BY <1>1, HistoryAssumption, FS_Subset
<1> QED
  BY <1>2, FS_CardinalityType

\* The page is a beginning of the matching rows: nothing in it comes after
\* a row that is left for the next page.
LEMMA PageIsTop ==
    ASSUME HistoryTypeOK, NEW i \in Page, NEW j \in Matching, Newer(j, i)
    PROVE  j \in Page
<1>1. i \in Matching /\ Cardinality(Above(i)) < limit
  BY PageRows
<1>2. Above(j) \in SUBSET Above(i)
  BY <1>1, AboveGrows
<1>3. Cardinality(Above(j)) <= Cardinality(Above(i))
  BY <1>2, AboveFinite, FS_Subset
<1>4. limit \in Nat
  BY HistoryAssumption DEF HistoryTypeOK
<1> QED
  BY <1>1, <1>3, <1>4, AboveFinite, PageRows

\* A page that is not full is all there is: take a row that is left out and
\* has the smallest set of rows before it; those are all on the page.
LEMMA ShortPageIsLast ==
    ASSUME HistoryTypeOK, Cardinality(Page) < limit
    PROVE  Page = Matching
<1> SUFFICES ASSUME NEW r \in Matching \ Page PROVE FALSE
  BY PageRows
<1> DEFINE T == {Above(s) : s \in Matching \ Page}
<1>1. T # {} /\ T \subseteq SUBSET HistoryIds
  BY DEF Above, Matching
<1>2. IsWellFoundedOn(StrictSubsetOrdering(HistoryIds), SUBSET HistoryIds)
  <2>1. FiniteSubsetsOf(HistoryIds) = SUBSET HistoryIds
    BY HistoryAssumption, FS_FiniteSubsetsOfFinite
  <2> QED
    BY <2>1, FS_StrictSubsetOrderingWellFounded
<1>3. PICK x \in T : \A y \in T : ~(<<y, x>> \in StrictSubsetOrdering(HistoryIds))
  <2> HIDE DEF T
  <2> QED
    BY <1>1, <1>2, WFMin
<1>4. PICK s \in Matching \ Page : x = Above(s)
  OBVIOUS
<1>5. Above(s) \in SUBSET Page
  <2> SUFFICES ASSUME NEW q \in Above(s), q \notin Page PROVE FALSE
    OBVIOUS
  <2>1. q \in Matching /\ Newer(q, s)
    BY DEF Above
  <2>2. Above(q) \subseteq Above(s) /\ q \notin Above(q)
    BY <2>1, AboveGrows
  <2>3. Above(q) \in SUBSET HistoryIds /\ Above(s) \in SUBSET HistoryIds /\ Above(q) \in T
    BY <2>1 DEF Above, Matching
  <2> HIDE DEF T
  <2>4. <<Above(q), Above(s)>> \in StrictSubsetOrdering(HistoryIds)
    BY <2>2, <2>3 DEF StrictSubsetOrdering
  <2> QED
    BY <1>3, <1>4, <2>3, <2>4
<1>6. Cardinality(Above(s)) <= Cardinality(Page)
  BY <1>5, AboveFinite, FS_Subset
<1>7. limit \in Nat
  BY HistoryAssumption DEF HistoryTypeOK
<1> QED
  BY <1>6, <1>7, AboveFinite, PageRows

\* The client has seen nothing before its first page.
LEMMA PagesInit == HistoryInit => PagesInv
BY HistoryAssumption
   DEF HistoryInit, PagesInv, HistoryTypeOK, SeenUpToCursor, NoCursor, Seconds, Before

\* A full page moves the cursor past exactly the rows of the page.
LEMMA FullPage ==
    ASSUME PagesInv, ListIncidentHistory, Cardinality(Page) = limit
    PROVE  PagesInv'
<1>0. HistoryTypeOK /\ limit \in Nat
  BY HistoryAssumption DEF PagesInv, HistoryTypeOK
<1>1. PICK i \in Page :
        /\ \A j \in Page \ {i} : Newer(j, i)
        /\ cursor' = [at |-> updatedAt[i], id |-> i]
  BY <1>0 DEF ListIncidentHistory
<1>2. /\ pages = "reading"
      /\ seen' = [j \in HistoryIds |-> IF j \in Page THEN seen[j] + 1 ELSE seen[j]]
      /\ UNCHANGED <<pages, updatedAt, second, limit, touched>>
  BY <1>0 DEF ListIncidentHistory
<1>3. i \in HistoryIds /\ updatedAt[i] # 0 /\ Before(i)
  BY <1>1, PageRows DEF Matching
<1>4. HistoryTypeOK'
  <2>1. cursor' \in [at : Nat, id : Nat]
    BY <1>0, <1>1, <1>3, HistoryAssumption DEF HistoryTypeOK
  <2>2. seen' \in [HistoryIds -> Nat]
    BY <1>0, <1>2 DEF HistoryTypeOK
  <2> QED
    BY <1>0, <1>2, <2>1, <2>2 DEF HistoryTypeOK
<1>5. cursor' # NoCursor /\ cursor'.at = updatedAt[i] /\ cursor'.id = i
  BY <1>1, <1>3 DEF NoCursor
<1>6. ASSUME NEW j \in HistoryIds \ touched
      PROVE  seen'[j] = IF updatedAt[j] # 0 /\ ~Before(j)' THEN 1 ELSE 0
  <2>0. /\ updatedAt[j] \in Nat /\ updatedAt[i] \in Nat /\ i \in Nat /\ j \in Nat
        /\ cursor.at \in Nat /\ cursor.id \in Nat
    BY <1>0, <1>3, HistoryAssumption DEF HistoryTypeOK
  <2>1. seen[j] = IF updatedAt[j] # 0 /\ ~Before(j) THEN 1 ELSE 0
    BY <1>2 DEF PagesInv, SeenUpToCursor
  <2>2. Before(j)' <=> updatedAt[j] < updatedAt[i] \/ (updatedAt[j] = updatedAt[i] /\ j < i)
    BY <1>2, <1>5 DEF Before
  <2>3. CASE j \in Page
    <3>1. updatedAt[j] # 0 /\ Before(j)
      BY <2>3, PageRows DEF Matching
    <3>2. ~Before(j)'
      BY <1>1, <2>0, <2>2, <2>3 DEF Newer
    <3> QED
      BY <1>2, <2>1, <2>3, <3>1, <3>2
  <2>4. CASE j \notin Page /\ j \in Matching
    <3>1. ~Newer(j, i) /\ j # i
      BY <1>0, <1>1, <2>4, PageIsTop
    <3>2. Before(j)'
      BY <2>0, <2>2, <3>1 DEF Newer
    <3> QED
      BY <1>2, <2>1, <2>4, <3>2 DEF Matching
  <2>5. CASE j \notin Matching
    <3>1. j \notin Page
      BY <2>5, PageRows
    <3>2. updatedAt[j] # 0 => ~Before(j)
      BY <2>5 DEF Matching
    <3>3. ~Before(j) => ~Before(j)'
      BY <1>3, <2>0, <2>2 DEF Before
    <3> QED
      BY <1>2, <2>1, <3>1, <3>2, <3>3
  <2> QED
    BY <2>3, <2>4, <2>5
<1>7. SeenUpToCursor'
  BY <1>2, <1>6 DEF SeenUpToCursor
<1> QED
  BY <1>4, <1>7 DEF PagesInv

\* A page that is not full is the last one.
LEMMA ShortPage ==
    ASSUME PagesInv, ListIncidentHistory, Cardinality(Page) # limit
    PROVE  PagesInv'
<1>0. HistoryTypeOK /\ limit \in Nat
  BY HistoryAssumption DEF PagesInv, HistoryTypeOK
<1>1. /\ pages = "reading" /\ pages' = "done"
      /\ seen' = [j \in HistoryIds |-> IF j \in Page THEN seen[j] + 1 ELSE seen[j]]
      /\ UNCHANGED <<cursor, updatedAt, second, limit, touched>>
      /\ Cardinality(Page) < limit
  BY DEF ListIncidentHistory
<1>2. Page = Matching
  BY <1>0, <1>1, ShortPageIsLast
<1>3. HistoryTypeOK'
  <2>1. seen' \in [HistoryIds -> Nat]
    BY <1>0, <1>1 DEF HistoryTypeOK
  <2> QED
    BY <1>0, <1>1, <2>1 DEF HistoryTypeOK
<1>4. ASSUME NEW j \in HistoryIds \ touched
      PROVE  seen'[j] = IF updatedAt[j] # 0 THEN 1 ELSE 0
  <2>1. seen[j] = IF updatedAt[j] # 0 /\ ~Before(j) THEN 1 ELSE 0
    BY <1>1 DEF PagesInv, SeenUpToCursor
  <2>2. seen'[j] = IF updatedAt[j] # 0 /\ Before(j) THEN seen[j] + 1 ELSE seen[j]
    BY <1>1, <1>2 DEF Matching
  <2> QED
    BY <2>1, <2>2
<1>5. SeenUpToCursor'
  BY <1>1, <1>4 DEF SeenUpToCursor
<1> QED
  BY <1>3, <1>5 DEF PagesInv

\* Every step preserves the invariant.
LEMMA PagesNext == PagesInv /\ [HistoryNext]_historyVars => PagesInv'
<1> SUFFICES ASSUME PagesInv, [HistoryNext]_historyVars PROVE PagesInv'
  OBVIOUS
<1>1. CASE ListIncidentHistory
  BY <1>1, FullPage, ShortPage
<1>2. ASSUME NEW i \in HistoryIds, Touch(i) PROVE PagesInv'
  <2>1. /\ updatedAt' = [updatedAt EXCEPT ![i] = second]
        /\ touched' = touched \cup {i}
        /\ UNCHANGED <<second, cursor, limit, pages, seen>>
    BY <1>2 DEF Touch
  <2>2. HistoryTypeOK'
    BY <2>1 DEF PagesInv, HistoryTypeOK
  <2>3. \A j \in HistoryIds \ touched' :
          j \in HistoryIds \ touched /\ updatedAt'[j] = updatedAt[j]
    BY <2>1 DEF PagesInv, HistoryTypeOK
  <2>4. SeenUpToCursor'
    BY <2>1, <2>3 DEF PagesInv, SeenUpToCursor, Before
  <2> QED
    BY <2>2, <2>4 DEF PagesInv
<1>3. CASE NextSecond
  BY <1>3 DEF NextSecond, PagesInv, HistoryTypeOK, SeenUpToCursor, Before
<1>4. CASE UNCHANGED historyVars
  BY <1>4 DEF historyVars, PagesInv, HistoryTypeOK, SeenUpToCursor, Before
<1> QED
  BY <1>1, <1>2, <1>3, <1>4 DEF HistoryNext

\* A client that pages by (updated_at, id) gets every incident that nobody
\* touched meanwhile exactly once, for any table, limit and interleaving of
\* writes, ties of updated_at included.
THEOREM PagingIsComplete == HistorySpec => []HistoryComplete
<1>1. PagesInv => HistoryComplete
  BY DEF PagesInv, SeenUpToCursor, HistoryComplete, HistoryTypeOK
<1> QED
  BY <1>1, PagesInit, PagesNext, PTL DEF HistorySpec

=============================================================================
