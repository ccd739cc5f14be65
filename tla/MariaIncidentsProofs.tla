------------------------- MODULE MariaIncidentsProofs -------------------------
(***************************************************************************)
(* MariaIncidents, for any number of rows, keys, signals and concurrent    *)
(* requests and with or without gap locks: at most one active incident per *)
(* key, the dedupe_key column is set exactly on active rows, a resolution  *)
(* is final, and a report always explains its signal.  Without gap locks   *)
(* every occurrence is counted and every commit is a lifecycle step.       *)
(***************************************************************************)
EXTENDS MariaIncidents, TLAPS

\* A row that exists has a key.
RowsHaveKeys ==
    \A i \in IncidentIds : rows[i].status # "absent" => rows[i].key \in Keys

\* Only the absent row has status "absent".
AbsentIsEmpty ==
    \A i \in IncidentIds : rows[i].status = "absent" => rows[i] = Absent

Holding(t) == t.pc \in {"update", "writeStatus", "writeResolve"}

\* What a request knows about the row it is working on.
RequestInv(t) ==
    /\ t.pc \in {"find", "insert", "inserted", "lookup", "lookupAlone", "findResolve"}
         => t.key \in Keys
    /\ t.pc \in {"update", "updateAlone", "inserted", "findStatus", "writeStatus",
                 "writeResolve", "read", "writeReport"}
         => t.id \in IncidentIds
    /\ t.pc \in {"findStatus", "writeStatus"} => t.status \in IncidentStatuses
    /\ t.pc \in {"update", "updateAlone", "writeReport"} => rows[t.id].status # "absent"
    /\ t.pc \in {"writeStatus", "writeResolve"} => IsActive(rows[t.id])
    /\ t.pc = "inserted" => rows[t.id] = Absent /\ ~KeyTaken(t.key)

RequestsInv == \A r \in Requests : RequestInv(tx[r])

\* Row locks are exclusive, and so are uncommitted claims on a key.
LocksExclusive ==
    \A r, q \in Requests : r # q =>
        /\ Holding(tx[r]) /\ Holding(tx[q]) => tx[r].id # tx[q].id
        /\ tx[r].pc = "inserted" /\ tx[q].pc = "inserted"
             => tx[r].id # tx[q].id /\ tx[r].key # tx[q].key

\* The inductive invariant.
Inv ==
    /\ TypeOK
    /\ RowsHaveKeys
    /\ AbsentIsEmpty
    /\ OneActivePerKey
    /\ KeyIffActive
    /\ ReportMatchesSignal
    /\ RequestsInv
    /\ LocksExclusive

-----------------------------------------------------------------------------

\* The absent row is a row.
LEMMA AbsentType == Absent \in Incident
BY DEF Absent, Incident, IncidentStatuses

\* Active, terminal and absent exclude each other.
LEMMA StatusesDisjoint ==
    /\ ActiveStatuses \cap TerminalStatuses = {}
    /\ "absent" \notin IncidentStatuses
    /\ "open" \in ActiveStatuses
    /\ "resolved" \in TerminalStatuses
    /\ IncidentStatuses = ActiveStatuses \cup TerminalStatuses
BY DEF ActiveStatuses, TerminalStatuses, IncidentStatuses

\* The idle request is a request that claims nothing.
LEMMA IdleType == Idle \in Request /\ RequestInv(Idle) /\ Idle.pc = "idle"
BY AbsentType, IncidentsAssumption DEF Idle, Request, Steps, RequestInv

\* The invariant holds initially.
LEMMA InitInv == Init => Inv
<1> SUFFICES ASSUME Init PROVE Inv
  OBVIOUS
<1>1. \A i \in IncidentIds : rows[i] = Absent /\ dedupeKey[i] = NoKey
  BY DEF Init
<1>2. \A r \in Requests : tx[r] = Idle
  BY DEF Init
<1>3. Absent.status = "absent" /\ Absent.report = Absent.signal
  BY DEF Absent
<1>4. ~IsActive(Absent)
  BY <1>3, StatusesDisjoint DEF IsActive
<1>5. TypeOK
  BY IdleType, AbsentType, MariaAssumption DEF Init, TypeOK
<1>6. RowsHaveKeys /\ AbsentIsEmpty /\ OneActivePerKey /\ KeyIffActive /\ ReportMatchesSignal
  BY <1>1, <1>3, <1>4
     DEF RowsHaveKeys, AbsentIsEmpty, OneActivePerKey, KeyIffActive, ReportMatchesSignal
<1>7. RequestsInv /\ LocksExclusive
  BY <1>2, IdleType DEF RequestsInv, LocksExclusive, Holding
<1> QED
  BY <1>5, <1>6, <1>7 DEF Inv

\* A step that leaves the rows alone and moves one request to t,
Moves(r, t) ==
    /\ tx' = [tx EXCEPT ![r] = t]
    /\ UNCHANGED <<gapLocks, rows, dedupeKey, acknowledged>>
    /\ unevaluated' \in [Keys -> SUBSET SignalIds]

\* where what t claims is true and nobody else claims it,
MayClaim(r, t) ==
    /\ RequestInv(t)
    /\ Holding(t) => ~Locked(r, t.id)
    /\ t.pc = "inserted" =>
         /\ ~Inserting(r, t.key)
         /\ \A q \in Requests : ~(tx[q].pc = "inserted" /\ tx[q].id = t.id)

\* preserves the invariant.
LEMMA RequestStep ==
    ASSUME Inv, NEW r \in Requests, NEW t \in Request, Moves(r, t), MayClaim(r, t)
    PROVE  Inv'
<1> USE DEF Moves, MayClaim
<1>1. TypeOK'
  BY DEF Inv, TypeOK
<1>2. /\ RowsHaveKeys' /\ AbsentIsEmpty' /\ OneActivePerKey'
      /\ KeyIffActive' /\ ReportMatchesSignal'
  BY DEF Inv, RowsHaveKeys, AbsentIsEmpty, OneActivePerKey, KeyIffActive, ReportMatchesSignal,
         IsActive
<1>3. \A q \in Requests : tx'[q] = IF q = r THEN t ELSE tx[q]
  BY DEF Inv, TypeOK
<1>4. RequestsInv'
  <2> SUFFICES ASSUME NEW q \in Requests PROVE RequestInv(tx[q])'
    BY DEF RequestsInv
  <2>1. RequestInv(tx'[q])
    BY <1>3 DEF Inv, RequestsInv
  <2> QED
    BY <2>1 DEF RequestInv, IsActive, KeyTaken
<1>5. LocksExclusive'
  <2> SUFFICES ASSUME NEW a \in Requests, NEW b \in Requests, a # b
               PROVE  /\ Holding(tx'[a]) /\ Holding(tx'[b]) => tx'[a].id # tx'[b].id
                      /\ tx'[a].pc = "inserted" /\ tx'[b].pc = "inserted"
                           => tx'[a].id # tx'[b].id /\ tx'[a].key # tx'[b].key
    BY DEF LocksExclusive, Holding
  <2>1. /\ Holding(tx[a]) /\ Holding(tx[b]) => tx[a].id # tx[b].id
        /\ tx[a].pc = "inserted" /\ tx[b].pc = "inserted"
             => tx[a].id # tx[b].id /\ tx[a].key # tx[b].key
    BY DEF Inv, LocksExclusive
  <2>2. \A q \in Requests \ {r} : Holding(t) /\ Holding(tx[q]) => tx[q].id # t.id
    BY DEF Locked, Holds, Holding
  <2>3. \A q \in Requests \ {r} :
          t.pc = "inserted" /\ tx[q].pc = "inserted" => tx[q].id # t.id /\ tx[q].key # t.key
    BY DEF Inserting
  <2> QED
    BY <1>3, <2>1, <2>2, <2>3
<1> QED
  BY <1>1, <1>2, <1>4, <1>5 DEF Inv

\* A step that writes row i and ends its request,
Writes(r, i, x, k) ==
    /\ rows' = [rows EXCEPT ![i] = x]
    /\ dedupeKey' = [dedupeKey EXCEPT ![i] = k]
    /\ tx' = [tx EXCEPT ![r] = Idle]
    /\ UNCHANGED <<gapLocks, unevaluated>>
    /\ acknowledged' \in [IncidentIds -> Nat]

\* whose new row is consistent and the only active one of its key,
RowFits(i, x, k) ==
    /\ x.status # "absent" /\ x.key \in Keys /\ x.report = x.signal
    /\ k = IF IsActive(x) THEN x.key ELSE NoKey
    /\ IsActive(x) => \A j \in IncidentIds \ {i} :
                        ~(IsActive(rows[j]) /\ rows[j].key = x.key)

\* and disturbs no claim of another request,
ClaimsKept(r, i, x, k) ==
    \A q \in Requests \ {r} :
        /\ tx[q].pc \in {"writeStatus", "writeResolve"} /\ tx[q].id = i => IsActive(x)
        /\ tx[q].pc = "inserted" => tx[q].id # i /\ tx[q].key # k

\* preserves the invariant.
LEMMA WriteStep ==
    ASSUME Inv, NEW r \in Requests, NEW i \in IncidentIds,
           NEW x \in Incident, NEW k \in Keys \cup {NoKey},
           Writes(r, i, x, k), RowFits(i, x, k), ClaimsKept(r, i, x, k)
    PROVE  Inv'
<1> USE DEF Writes, RowFits, ClaimsKept
<1>1. TypeOK'
  BY IdleType DEF Inv, TypeOK
<1>2. /\ \A j \in IncidentIds : rows'[j] = IF j = i THEN x ELSE rows[j]
      /\ \A j \in IncidentIds : dedupeKey'[j] = IF j = i THEN k ELSE dedupeKey[j]
      /\ \A q \in Requests : tx'[q] = IF q = r THEN Idle ELSE tx[q]
  BY DEF Inv, TypeOK
<1>3. RowsHaveKeys' /\ AbsentIsEmpty' /\ ReportMatchesSignal'
  BY <1>2 DEF Inv, RowsHaveKeys, AbsentIsEmpty, ReportMatchesSignal
<1>4. KeyIffActive'
  BY <1>2 DEF Inv, KeyIffActive, IsActive
<1>5. OneActivePerKey'
  BY <1>2 DEF Inv, OneActivePerKey, IsActive
<1>6. RequestsInv'
  <2> SUFFICES ASSUME NEW q \in Requests PROVE RequestInv(tx[q])'
    BY DEF RequestsInv
  <2>1. CASE q = r
    BY <2>1, <1>2, IdleType DEF RequestInv, Idle
  <2>2. CASE q # r
    <3>1. RequestInv(tx[q]) /\ tx'[q] = tx[q]
      BY <2>2, <1>2 DEF Inv, RequestsInv
    <3>2. tx[q].pc \in {"update", "updateAlone", "writeReport"}
            => rows'[tx[q].id].status # "absent"
      BY <3>1, <1>2 DEF RequestInv
    <3>3. tx[q].pc \in {"writeStatus", "writeResolve"} => IsActive(rows'[tx[q].id])
      BY <3>1, <2>2, <1>2 DEF RequestInv
    <3>4. tx[q].pc = "inserted"
            => rows'[tx[q].id] = Absent /\ \A j \in IncidentIds : dedupeKey'[j] # tx[q].key
      BY <3>1, <2>2, <1>2 DEF RequestInv, KeyTaken
    <3> QED
      BY <3>1, <3>2, <3>3, <3>4 DEF RequestInv, KeyTaken, IsActive
  <2> QED
    BY <2>1, <2>2
<1>7. LocksExclusive'
  BY <1>2, IdleType DEF Inv, LocksExclusive, Holding
<1> QED
  BY <1>1, <1>3, <1>4, <1>5, <1>6, <1>7 DEF Inv

\* In particular, a write that keeps the row's key and status.
LEMMA RewriteStep ==
    ASSUME Inv, NEW r \in Requests, NEW i \in IncidentIds, NEW x \in Incident,
           rows' = [rows EXCEPT ![i] = x],
           tx' = [tx EXCEPT ![r] = Idle],
           UNCHANGED <<gapLocks, dedupeKey, unevaluated>>,
           acknowledged' \in [IncidentIds -> Nat],
           rows[i].status # "absent",
           x.status = rows[i].status, x.key = rows[i].key, x.report = x.signal
    PROVE  Inv'
<1>1. PICK k \in Keys \cup {NoKey} : k = dedupeKey[i]
  BY DEF Inv, TypeOK
<1>2. Writes(r, i, x, k)
  BY <1>1 DEF Writes, Inv, TypeOK
<1>3. RowFits(i, x, k)
  <2>1. x.key \in Keys /\ x.status # "absent" /\ x.report = x.signal
    BY DEF Inv, RowsHaveKeys
  <2>2. k = IF IsActive(x) THEN x.key ELSE NoKey
    BY <1>1 DEF Inv, KeyIffActive, IsActive
  <2>3. IsActive(x) => \A j \in IncidentIds \ {i} : ~(IsActive(rows[j]) /\ rows[j].key = x.key)
    BY DEF Inv, OneActivePerKey, IsActive
  <2> QED
    BY <2>1, <2>2, <2>3 DEF RowFits
<1>4. ClaimsKept(r, i, x, k)
  <2> SUFFICES ASSUME NEW q \in Requests \ {r}
               PROVE  /\ tx[q].pc \in {"writeStatus", "writeResolve"} /\ tx[q].id = i
                           => IsActive(x)
                      /\ tx[q].pc = "inserted" => tx[q].id # i /\ tx[q].key # k
    BY DEF ClaimsKept
  <2>1. RequestInv(tx[q])
    BY DEF Inv, RequestsInv
  <2>2. Absent.status = "absent"
    BY DEF Absent
  <2> QED
    BY <1>1, <2>1, <2>2 DEF RequestInv, IsActive, KeyTaken
<1> QED
  BY <1>2, <1>3, <1>4, WriteStep

\* Ending a request preserves the invariant.
LEMMA FinishStep ==
    ASSUME Inv, NEW r \in Requests, Finish(r),
           UNCHANGED <<gapLocks, rows, dedupeKey, unevaluated, acknowledged>>
    PROVE  Inv'
<1>1. Moves(r, Idle)
  BY DEF Moves, Finish, Inv, TypeOK
<1>2. MayClaim(r, Idle)
  BY IdleType DEF MayClaim, Holding
<1> QED
  BY <1>1, <1>2, IdleType, RequestStep

-----------------------------------------------------------------------------
(* One lemma per action.                                                     *)

\* A request arrives.
LEMMA StartInv ==
    ASSUME Inv, NEW r \in Requests, Start(r)
    PROVE  Inv'
<1>1. ASSUME NEW k \in Keys, NEW n \in SignalIds, NEW s \in Severities,
             StartUpsert(r, k, s, n)
      PROVE  Inv'
  <2> DEFINE t == [Idle EXCEPT !.pc = "find", !.key = k, !.severity = s, !.signal = n]
  <2>1. t \in Request /\ t.pc = "find" /\ t.key \in Keys
    BY IdleType, IncidentsAssumption DEF Request, Steps
  <2>2. Moves(r, t)
    BY <1>1 DEF Moves, StartUpsert, Evaluate, Inv, TypeOK
  <2> HIDE DEF t
  <2>3. MayClaim(r, t)
    BY <2>1 DEF MayClaim, Holding, RequestInv
  <2> QED
    BY <2>1, <2>2, <2>3, RequestStep
<1>2. ASSUME NEW k \in Keys, NEW n \in SignalIds, StartResolve(r, k, n)
      PROVE  Inv'
  <2> DEFINE t == [Idle EXCEPT !.pc = "findResolve", !.key = k, !.signal = n]
  <2>1. t \in Request /\ t.pc = "findResolve" /\ t.key \in Keys
    BY IdleType, IncidentsAssumption DEF Request, Steps
  <2>2. Moves(r, t)
    BY <1>2 DEF Moves, StartResolve, Evaluate, Inv, TypeOK
  <2> HIDE DEF t
  <2>3. MayClaim(r, t)
    BY <2>1 DEF MayClaim, Holding, RequestInv
  <2> QED
    BY <2>1, <2>2, <2>3, RequestStep
<1>3. ASSUME NEW i \in IncidentIds, NEW st \in NewStatuses, StartStatus(r, i, st)
      PROVE  Inv'
  <2> DEFINE t == [Idle EXCEPT !.pc = "findStatus", !.id = i, !.status = st]
  <2>1. /\ t \in Request /\ t.pc = "findStatus" /\ t.id \in IncidentIds
        /\ t.status \in IncidentStatuses
    BY IdleType, MariaAssumption DEF Request, Steps
  <2>2. Moves(r, t)
    BY <1>3 DEF Moves, StartStatus, Inv, TypeOK
  <2> HIDE DEF t
  <2>3. MayClaim(r, t)
    BY <2>1 DEF MayClaim, Holding, RequestInv
  <2> QED
    BY <2>1, <2>2, <2>3, RequestStep
<1>4. ASSUME NEW i \in IncidentIds, StartRerun(r, i)
      PROVE  Inv'
  <2> DEFINE t == [Idle EXCEPT !.pc = "read", !.id = i]
  <2>1. t \in Request /\ t.pc = "read" /\ t.id \in IncidentIds
    BY IdleType DEF Request, Steps
  <2>2. Moves(r, t)
    BY <1>4 DEF Moves, StartRerun, Inv, TypeOK
  <2> HIDE DEF t
  <2>3. MayClaim(r, t)
    BY <2>1 DEF MayClaim, Holding, RequestInv
  <2> QED
    BY <2>1, <2>2, <2>3, RequestStep
<1> QED
  BY <1>1, <1>2, <1>3, <1>4 DEF Start

\* The statements of UpsertIncident that leave the rows alone.
LEMMA FindActiveInv ==
    ASSUME Inv, NEW r \in Requests, FindActive(r)
    PROVE  Inv'
<1> USE DEF FindActive
<1>0. tx[r] \in Request /\ tx[r].key \in Keys
  BY DEF Inv, TypeOK, RequestsInv, RequestInv
<1>1. CASE Goto(r, "insert")
  <2> DEFINE t == [tx[r] EXCEPT !.pc = "insert"]
  <2>1. t \in Request /\ t.pc = "insert" /\ t.key \in Keys
    BY <1>0 DEF Request, Steps
  <2>2. Moves(r, t)
    BY <1>1 DEF Moves, Goto, Inv, TypeOK
  <2> HIDE DEF t
  <2>3. MayClaim(r, t)
    BY <2>1 DEF MayClaim, Holding, RequestInv
  <2> QED
    BY <2>1, <2>2, <2>3, RequestStep
<1>2. ASSUME NEW i \in OpenRows(tx[r].key),
             tx' = [tx EXCEPT ![r] = [@ EXCEPT !.pc = "update", !.id = i, !.row = rows[i]]]
      PROVE  Inv'
  <2>0. i \in IncidentIds /\ rows[i] \in Incident /\ IsActive(rows[i]) /\ ~Locked(r, i)
    BY <1>2 DEF OpenRows, Inv, TypeOK
  <2> DEFINE t == [tx[r] EXCEPT !.pc = "update", !.id = i, !.row = rows[i]]
  <2>1. t \in Request /\ t.pc = "update" /\ t.id = i
    BY <1>0, <2>0 DEF Request, Steps
  <2>2. Moves(r, t)
    BY <1>2 DEF Moves, Inv, TypeOK
  <2> HIDE DEF t
  <2>3. rows[i].status # "absent"
    BY <2>0 DEF IsActive, ActiveStatuses
  <2>4. MayClaim(r, t)
    BY <2>0, <2>1, <2>3 DEF MayClaim, RequestInv
  <2> QED
    BY <2>1, <2>2, <2>4, RequestStep
<1> QED
  BY <1>1, <1>2

\* The three outcomes of the INSERT.
LEMMA InsertInv ==
    ASSUME Inv, NEW r \in Requests, Insert(r) \/ InsertDuplicate(r) \/ InsertDeadlock(r)
    PROVE  Inv'
<1>0. /\ tx[r] \in Request
      /\ tx[r].pc = "insert" => tx[r].key \in Keys
  BY DEF Inv, TypeOK, RequestsInv, RequestInv
<1>1. CASE Insert(r)
  <2> USE <1>1 DEF Insert, InsertReady
  <2>1. PICK i \in IncidentIds :
          Fresh(i) /\ tx' = [tx EXCEPT ![r] = [@ EXCEPT !.pc = "inserted", !.id = i]]
    OBVIOUS
  <2> DEFINE t == [tx[r] EXCEPT !.pc = "inserted", !.id = i]
  <2>2. /\ t \in Request /\ t.pc = "inserted" /\ t.id = i
        /\ t.key = tx[r].key /\ t.key \in Keys
    BY <1>0 DEF Request, Steps
  <2>3. Moves(r, t)
    BY <2>1 DEF Moves, Inv, TypeOK
  <2> HIDE DEF t
  <2>4. MayClaim(r, t)
    BY <2>1, <2>2 DEF MayClaim, RequestInv, Holding, Fresh
  <2> QED
    BY <2>2, <2>3, <2>4, RequestStep
<1>2. ASSUME NEW pc \in {"lookup", "lookupAlone"}, tx[r].pc = "insert", Goto(r, pc),
             UNCHANGED <<gapLocks, rows, dedupeKey, unevaluated, acknowledged>>
      PROVE  Inv'
  <2> DEFINE t == [tx[r] EXCEPT !.pc = pc]
  <2>1. t \in Request /\ t.pc = pc /\ t.key \in Keys
    BY <1>0, <1>2 DEF Request, Steps
  <2>2. Moves(r, t)
    BY <1>2 DEF Moves, Goto, Inv, TypeOK
  <2> HIDE DEF t
  <2>3. MayClaim(r, t)
    BY <1>2, <2>1 DEF MayClaim, Holding, RequestInv
  <2> QED
    BY <2>1, <2>2, <2>3, RequestStep
<1>3. CASE InsertDuplicate(r)
  BY <1>2, <1>3 DEF InsertDuplicate, InsertReady
<1>4. CASE InsertDeadlock(r)
  BY <1>2, <1>4 DEF InsertDeadlock
<1> QED
  BY <1>1, <1>3, <1>4

\* The read that follows a failed INSERT.
LEMMA LookupInv ==
    ASSUME Inv, NEW r \in Requests, LookupByKey(r)
    PROVE  Inv'
<1> USE DEF LookupByKey
<1>0. tx[r] \in Request /\ tx[r].key \in Keys
  BY DEF Inv, TypeOK, RequestsInv, RequestInv
<1>1. CASE Finish(r)
  BY <1>1, FinishStep
<1>2. ASSUME NEW i \in IncidentIds, NEW pc \in {"update", "updateAlone"},
             dedupeKey[i] = tx[r].key, ~Locked(r, i),
             tx' = [tx EXCEPT ![r] = [@ EXCEPT !.pc = pc, !.id = i, !.row = rows[i]]]
      PROVE  Inv'
  <2>0. rows[i] \in Incident /\ rows[i].status # "absent"
    <3>1. rows[i] \in Incident /\ dedupeKey[i] # NoKey
      BY <1>0, <1>2, IncidentsAssumption DEF Inv, TypeOK
    <3>2. IsActive(rows[i])
      BY <3>1 DEF Inv, KeyIffActive
    <3> QED
      BY <3>1, <3>2 DEF IsActive, ActiveStatuses
  <2> DEFINE t == [tx[r] EXCEPT !.pc = pc, !.id = i, !.row = rows[i]]
  <2>1. t \in Request /\ t.pc = pc /\ t.id = i
    BY <1>0, <2>0 DEF Request, Steps
  <2>2. Moves(r, t)
    BY <1>2 DEF Moves, Inv, TypeOK
  <2> HIDE DEF t
  <2>3. MayClaim(r, t)
    BY <1>2, <2>0, <2>1 DEF MayClaim, RequestInv
  <2> QED
    BY <2>1, <2>2, <2>3, RequestStep
<1> QED
  BY <1>1, <1>2

\* One more occurrence, inside or outside the transaction that read the row.
LEMMA OccurrenceInv ==
    ASSUME Inv, NEW r \in Requests, CommitOccurrence(r) \/ UpdateAlone(r)
    PROVE  Inv'
<1> USE DEF CommitOccurrence, UpdateAlone
<1>1. /\ tx[r].id \in IncidentIds /\ rows[tx[r].id].status # "absent"
      /\ tx[r].severity \in Severities \cup {"none"} /\ tx[r].signal \in Nat
      /\ tx[r].row \in Incident
  BY DEF Inv, TypeOK, Request, RequestsInv, RequestInv
<1>2. PICK i \in IncidentIds : i = tx[r].id
  BY <1>1
<1> DEFINE old == rows[i]
           severity == Occurred(tx[r].row, tx[r].severity, tx[r].signal).severity
           x == [old EXCEPT !.severity = severity, !.signal = tx[r].signal,
                            !.report = tx[r].signal, !.count = tx[r].row.count + 1]
<1>3. old \in Incident
  BY DEF Inv, TypeOK
<1>4. rows' = [rows EXCEPT ![i] = x]
  BY <1>2 DEF WriteOccurrence
<1>5. severity \in Severities \cup {"none"}
  <2>1. tx[r].row.severity \in Severities \cup {"none"}
    BY <1>1 DEF Incident
  <2>2. severity = IF IsMoreSevere(tx[r].severity, tx[r].row.severity)
                   THEN tx[r].severity ELSE tx[r].row.severity
    BY <1>1 DEF Occurred, Incident
  <2> QED
    BY <1>1, <2>1, <2>2
<1>6. tx[r].row.count + 1 \in Nat
  <2>1. tx[r].row.count \in Nat
    BY <1>1 DEF Incident
  <2> QED
    BY <2>1
<1> DEFINE half == [old EXCEPT !.severity = severity, !.signal = tx[r].signal]
<1>7. x = [half EXCEPT !.report = tx[r].signal, !.count = tx[r].row.count + 1]
  OBVIOUS
<1> HIDE DEF severity, old, x
<1>8. half \in Incident /\ half.key = old.key /\ half.status = old.status
      /\ half.signal = tx[r].signal
  BY <1>1, <1>3, <1>5 DEF Incident
<1> HIDE DEF half
<1>9. /\ x \in Incident /\ x.key = old.key /\ x.status = old.status
      /\ x.report = x.signal
  BY <1>1, <1>6, <1>7, <1>8 DEF Incident
<1>10. acknowledged' \in [IncidentIds -> Nat]
  <2>1. acknowledged[i] + 1 \in Nat
    BY DEF Inv, TypeOK
  <2> QED
    BY <1>2, <2>1 DEF Inv, TypeOK
<1>11. tx' = [tx EXCEPT ![r] = Idle] /\ UNCHANGED <<gapLocks, dedupeKey, unevaluated>>
  BY DEF Finish
<1> QED
  BY <1>1, <1>2, <1>4, <1>9, <1>10, <1>11, RewriteStep DEF old

\* A new incident is committed.
LEMMA CommitInsertInv ==
    ASSUME Inv, NEW r \in Requests, CommitInsert(r)
    PROVE  Inv'
<1> USE DEF CommitInsert
<1>1. /\ tx[r].id \in IncidentIds /\ tx[r].key \in Keys
      /\ tx[r].severity \in Severities \cup {"none"} /\ tx[r].signal \in Nat
      /\ rows[tx[r].id] = Absent /\ ~KeyTaken(tx[r].key)
  BY DEF Inv, TypeOK, Request, RequestsInv, RequestInv
<1>2. PICK i \in IncidentIds, k \in Keys : i = tx[r].id /\ k = tx[r].key
  BY <1>1
<1> DEFINE x == Opened(k, tx[r].severity, tx[r].signal)
<1>3. x \in Incident /\ x.key = k /\ x.status = "open" /\ x.report = x.signal
  BY <1>1, IncidentsAssumption DEF Opened, Incident, IncidentStatuses, ActiveStatuses
<1>4. IsActive(x) /\ x.status # "absent"
  BY <1>3, StatusesDisjoint DEF IsActive
<1>5. acknowledged' \in [IncidentIds -> Nat]
  <2>1. acknowledged[i] + 1 \in Nat
    BY DEF Inv, TypeOK
  <2> QED
    BY <1>2, <2>1 DEF Inv, TypeOK
<1>6. Writes(r, i, x, k)
  BY <1>2, <1>5 DEF Writes, Finish
<1> HIDE DEF x
<1>7. RowFits(i, x, k)
  BY <1>1, <1>2, <1>3, <1>4 DEF RowFits, KeyTaken, Inv, KeyIffActive
<1>8. ClaimsKept(r, i, x, k)
  BY <1>2, <1>4 DEF ClaimsKept, Inv, LocksExclusive
<1> QED
  BY <1>3, <1>6, <1>7, <1>8, WriteStep

\* The early returns and the write of UpdateIncidentStatus.
LEMMA FindStatusInv ==
    ASSUME Inv, NEW r \in Requests, FindStatus(r)
    PROVE  Inv'
<1> USE DEF FindStatus
<1>0. /\ tx[r] \in Request /\ tx[r].id \in IncidentIds
      /\ tx[r].status \in IncidentStatuses
  BY DEF Inv, TypeOK, RequestsInv, RequestInv
<1>1. CASE Finish(r)
  BY <1>1, FinishStep
<1>2. CASE ~Finish(r)
  <2>1. Goto(r, "writeStatus") /\ CanTransition(rows[tx[r].id].status, tx[r].status)
    BY <1>2
  <2>2. IsActive(rows[tx[r].id])
    BY <2>1 DEF CanTransition, IsActive, ActiveStatuses
  <2> DEFINE t == [tx[r] EXCEPT !.pc = "writeStatus"]
  <2>3. t \in Request /\ t.pc = "writeStatus" /\ t.id = tx[r].id /\ t.status = tx[r].status
    BY <1>0 DEF Request, Steps
  <2>4. Moves(r, t)
    BY <2>1 DEF Moves, Goto, Inv, TypeOK
  <2> HIDE DEF t
  <2>5. MayClaim(r, t)
    BY <1>0, <2>2, <2>3 DEF MayClaim, RequestInv
  <2> QED
    BY <2>3, <2>4, <2>5, RequestStep
<1> QED
  BY <1>1, <1>2

LEMMA WriteStatusInv ==
    ASSUME Inv, NEW r \in Requests, WriteStatus(r)
    PROVE  Inv'
<1> USE DEF WriteStatus
<1>1. /\ tx[r].id \in IncidentIds /\ tx[r].status \in IncidentStatuses
      /\ IsActive(rows[tx[r].id])
  BY DEF Inv, RequestsInv, RequestInv
<1>2. PICK i \in IncidentIds, st \in IncidentStatuses : i = tx[r].id /\ st = tx[r].status
  BY <1>1
<1>3. PICK k \in Keys \cup {NoKey} :
        k = IF st \in TerminalStatuses THEN NoKey ELSE dedupeKey[i]
  BY DEF Inv, TypeOK
<1>4. rows[i] \in Incident /\ IsActive(rows[i]) /\ rows[i].key \in Keys
      /\ dedupeKey[i] = rows[i].key /\ rows[i].report = rows[i].signal
  BY <1>1, <1>2, StatusesDisjoint
     DEF Inv, TypeOK, RowsHaveKeys, KeyIffActive, ReportMatchesSignal, IsActive
<1> DEFINE x == WithStatus(rows[i], st)
<1>5. /\ x \in Incident /\ x.key = rows[i].key /\ x.status = st
      /\ x.report = x.signal
  BY <1>2, <1>4 DEF WithStatus, Incident
<1>6. Writes(r, i, x, k)
  BY <1>2, <1>3 DEF Writes, Finish, Inv, TypeOK
<1> HIDE DEF x
<1>7. RowFits(i, x, k)
  <2>1. x.status # "absent" /\ x.key \in Keys /\ x.report = x.signal
    BY <1>4, <1>5, StatusesDisjoint
  <2>2. k = IF IsActive(x) THEN x.key ELSE NoKey
    BY <1>3, <1>4, <1>5, StatusesDisjoint DEF IsActive
  <2>3. \A j \in IncidentIds \ {i} : ~(IsActive(rows[j]) /\ rows[j].key = x.key)
    BY <1>4, <1>5 DEF Inv, OneActivePerKey
  <2> QED
    BY <2>1, <2>2, <2>3 DEF RowFits
<1>8. ClaimsKept(r, i, x, k)
  <2> SUFFICES ASSUME NEW q \in Requests \ {r}
               PROVE  /\ ~(tx[q].pc \in {"writeStatus", "writeResolve"} /\ tx[q].id = i)
                      /\ tx[q].pc = "inserted" => tx[q].id # i /\ tx[q].key # k
    BY DEF ClaimsKept
  <2>1. ~(tx[q].pc \in {"writeStatus", "writeResolve"} /\ tx[q].id = i)
    BY <1>2 DEF Inv, LocksExclusive, Holding
  <2>2. ASSUME tx[q].pc = "inserted" PROVE tx[q].id # i /\ tx[q].key # k
    <3>1. rows[tx[q].id] = Absent /\ ~KeyTaken(tx[q].key) /\ tx[q].key \in Keys
      BY <2>2 DEF Inv, RequestsInv, RequestInv
    <3>2. ~IsActive(Absent)
      BY StatusesDisjoint DEF IsActive, Absent
    <3> QED
      BY <1>3, <1>4, <3>1, <3>2, IncidentsAssumption DEF KeyTaken
  <2> QED
    BY <2>1, <2>2
<1> QED
  BY <1>5, <1>6, <1>7, <1>8, WriteStep

\* The two statements of ResolveActiveIncidents.
LEMMA FindResolveInv ==
    ASSUME Inv, NEW r \in Requests, FindResolve(r)
    PROVE  Inv'
<1> USE DEF FindResolve
<1>0. tx[r] \in Request
  BY DEF Inv, TypeOK
<1>1. CASE Finish(r)
  BY <1>1, FinishStep
<1>2. ASSUME NEW i \in OpenRows(tx[r].key),
             tx' = [tx EXCEPT ![r] = [@ EXCEPT !.pc = "writeResolve", !.id = i]]
      PROVE  Inv'
  <2>0. i \in IncidentIds /\ IsActive(rows[i]) /\ ~Locked(r, i)
    BY <1>2 DEF OpenRows
  <2> DEFINE t == [tx[r] EXCEPT !.pc = "writeResolve", !.id = i]
  <2>1. t \in Request /\ t.pc = "writeResolve" /\ t.id = i
    BY <1>0, <2>0 DEF Request, Steps
  <2>2. Moves(r, t)
    BY <1>2 DEF Moves, Inv, TypeOK
  <2> HIDE DEF t
  <2>3. MayClaim(r, t)
    BY <2>0, <2>1 DEF MayClaim, RequestInv
  <2> QED
    BY <2>1, <2>2, <2>3, RequestStep
<1> QED
  BY <1>1, <1>2

LEMMA WriteResolveInv ==
    ASSUME Inv, NEW r \in Requests, WriteResolve(r)
    PROVE  Inv'
<1> USE DEF WriteResolve
<1>1. tx[r].id \in IncidentIds /\ tx[r].signal \in Nat /\ IsActive(rows[tx[r].id])
  BY DEF Inv, TypeOK, Request, RequestsInv, RequestInv
<1>2. PICK i \in IncidentIds : i = tx[r].id
  BY <1>1
<1>3. rows[i] \in Incident /\ IsActive(rows[i]) /\ rows[i].key \in Keys
      /\ rows[i].report = rows[i].signal
  BY <1>1, <1>2, StatusesDisjoint
     DEF Inv, TypeOK, RowsHaveKeys, ReportMatchesSignal, IsActive
<1> DEFINE x == Recovered(rows[i], tx[r].signal)
<1>4. /\ x \in Incident /\ x.key = rows[i].key /\ x.status = "resolved"
      /\ x.report = x.signal
  BY <1>1, <1>3 DEF Recovered, Incident, IncidentStatuses, TerminalStatuses
<1>5. Writes(r, i, x, NoKey)
  BY <1>2 DEF Writes, Finish, Inv, TypeOK
<1> HIDE DEF x
<1>6. ~IsActive(x) /\ x.status # "absent"
  BY <1>4, StatusesDisjoint DEF IsActive
<1>7. RowFits(i, x, NoKey)
  BY <1>3, <1>4, <1>6 DEF RowFits
<1>8. ClaimsKept(r, i, x, NoKey)
  <2> SUFFICES ASSUME NEW q \in Requests \ {r}
               PROVE  /\ ~(tx[q].pc \in {"writeStatus", "writeResolve"} /\ tx[q].id = i)
                      /\ tx[q].pc = "inserted" => tx[q].id # i /\ tx[q].key # NoKey
    BY DEF ClaimsKept
  <2>1. ~(tx[q].pc \in {"writeStatus", "writeResolve"} /\ tx[q].id = i)
    BY <1>2 DEF Inv, LocksExclusive, Holding
  <2>2. ASSUME tx[q].pc = "inserted" PROVE tx[q].id # i /\ tx[q].key # NoKey
    <3>1. rows[tx[q].id] = Absent /\ tx[q].key \in Keys
      BY <2>2 DEF Inv, RequestsInv, RequestInv
    <3>2. ~IsActive(Absent)
      BY StatusesDisjoint DEF IsActive, Absent
    <3> QED
      BY <1>3, <3>1, <3>2, IncidentsAssumption
  <2> QED
    BY <2>1, <2>2
<1> QED
  BY <1>4, <1>5, <1>7, <1>8, WriteStep

\* The read and the write of a diagnostics rerun.
LEMMA RerunInv ==
    ASSUME Inv, NEW r \in Requests, ReadForRerun(r) \/ WriteReport(r)
    PROVE  Inv'
<1>0. tx[r] \in Request
  BY DEF Inv, TypeOK
<1>1. CASE ReadForRerun(r)
  <2> USE <1>1 DEF ReadForRerun
  <2>1. tx[r].id \in IncidentIds
    BY DEF Inv, RequestsInv, RequestInv
  <2>2. CASE Finish(r)
    BY <2>2, FinishStep
  <2>3. CASE ~Finish(r)
    <3>1. rows[tx[r].id] # Absent /\ rows[tx[r].id] \in Incident
      BY <2>1, <2>3 DEF Inv, TypeOK
    <3>2. rows[tx[r].id].status # "absent"
      BY <2>1, <3>1 DEF Inv, AbsentIsEmpty
    <3> DEFINE t == [tx[r] EXCEPT !.pc = "writeReport", !.signal = rows[tx[r].id].signal]
    <3>3. t \in Request /\ t.pc = "writeReport" /\ t.id = tx[r].id
      BY <1>0, <3>1 DEF Request, Steps, Incident
    <3>4. Moves(r, t)
      BY <2>3 DEF Moves, Inv, TypeOK
    <3> HIDE DEF t
    <3>5. MayClaim(r, t)
      BY <2>1, <3>2, <3>3 DEF MayClaim, RequestInv, Holding
    <3> QED
      BY <3>3, <3>4, <3>5, RequestStep
  <2> QED
    BY <2>2, <2>3
<1>2. CASE WriteReport(r)
  <2> USE <1>2 DEF WriteReport
  <2>1. tx[r].id \in IncidentIds /\ tx[r].signal \in Nat /\ rows[tx[r].id].status # "absent"
    BY <1>0 DEF Request, Inv, RequestsInv, RequestInv
  <2>2. PICK i \in IncidentIds : i = tx[r].id
    BY <2>1
  <2>3. rows[i] \in Incident
    BY DEF Inv, TypeOK
  <2>4. CASE rows[i].signal = tx[r].signal
    <3> DEFINE x == [rows[i] EXCEPT !.report = tx[r].signal]
    <3>1. /\ x \in Incident /\ x.key = rows[i].key /\ x.status = rows[i].status
          /\ x.report = x.signal
      BY <2>1, <2>3, <2>4 DEF Incident
    <3>2. rows' = [rows EXCEPT ![i] = x]
      BY <2>2, <2>4
    <3>3. acknowledged' \in [IncidentIds -> Nat]
      BY DEF Inv, TypeOK
    <3>4. tx' = [tx EXCEPT ![r] = Idle] /\ UNCHANGED <<gapLocks, dedupeKey, unevaluated>>
      BY DEF Finish
    <3> HIDE DEF x
    <3> QED
      BY <2>1, <2>2, <3>1, <3>2, <3>3, <3>4, RewriteStep
  <2>5. CASE rows[i].signal # tx[r].signal
    BY <2>2, <2>5, FinishStep
  <2> QED
    BY <2>4, <2>5
<1> QED
  BY <1>1, <1>2

\* Every step preserves the invariant.
LEMMA NextInv == Inv /\ [Next]_vars => Inv'
<1> SUFFICES ASSUME Inv, [Next]_vars PROVE Inv'
  OBVIOUS
<1>1. CASE Next
  <2>1. PICK r \in Requests : Start(r) \/ Step(r) \/ Abort(r)
    BY <1>1 DEF Next
  <2>2. CASE Start(r)
    BY <2>2, StartInv
  <2>3. CASE Step(r)
    BY <2>3, FindActiveInv, OccurrenceInv, InsertInv, CommitInsertInv, LookupInv,
       FindStatusInv, WriteStatusInv, FindResolveInv, WriteResolveInv, RerunInv DEF Step
  <2>4. CASE Abort(r)
    BY <2>4, FinishStep DEF Abort
  <2> QED
    BY <2>1, <2>2, <2>3, <2>4
<1>2. CASE UNCHANGED vars
  BY <1>2 DEF vars, Inv, TypeOK, RowsHaveKeys, AbsentIsEmpty, OneActivePerKey,
     KeyIffActive, ReportMatchesSignal, RequestsInv, RequestInv, LocksExclusive,
     Holding, IsActive, KeyTaken
<1> QED
  BY <1>1, <1>2

\* No statement of any request touches the resolution of a terminal row.
LEMMA ResolutionKept ==
    ASSUME Inv, [Next]_vars, NEW i \in IncidentIds, IsTerminal(rows[i])
    PROVE  /\ rows'[i].status     = rows[i].status
           /\ rows'[i].resolvedBy = rows[i].resolvedBy
           /\ rows'[i].reason     = rows[i].reason
<1>0. rows[i] \in Incident /\ ~IsActive(rows[i]) /\ rows[i] # Absent
  <2>1. Absent.status = "absent"
    BY DEF Absent
  <2>2. rows[i] \in Incident /\ rows[i].status \in TerminalStatuses
    BY DEF Inv, TypeOK, IsTerminal
  <2> QED
    BY <2>1, <2>2, StatusesDisjoint DEF IsActive
<1>1. CASE UNCHANGED rows
  BY <1>1
<1>2. ASSUME NEW r \in Requests, CommitOccurrence(r) \/ UpdateAlone(r) PROVE rows'[i] =
             IF tx[r].id = i
             THEN [rows[i] EXCEPT
                     !.severity = Occurred(tx[r].row, tx[r].severity, tx[r].signal).severity,
                     !.signal   = tx[r].signal,
                     !.report   = tx[r].signal,
                     !.count    = tx[r].row.count + 1]
             ELSE rows[i]
  BY <1>2 DEF CommitOccurrence, UpdateAlone, WriteOccurrence, Inv, TypeOK
<1>3. ASSUME NEW r \in Requests, CommitOccurrence(r) \/ UpdateAlone(r)
      PROVE  /\ rows'[i].status     = rows[i].status
             /\ rows'[i].resolvedBy = rows[i].resolvedBy
             /\ rows'[i].reason     = rows[i].reason
  BY <1>0, <1>2, <1>3 DEF Incident
<1>4. ASSUME NEW r \in Requests, CommitInsert(r) PROVE rows'[i] = rows[i]
  BY <1>0, <1>4 DEF CommitInsert, Inv, TypeOK, RequestsInv, RequestInv
<1>5. ASSUME NEW r \in Requests, WriteStatus(r) \/ WriteResolve(r) PROVE rows'[i] = rows[i]
  BY <1>0, <1>5 DEF WriteStatus, WriteResolve, Inv, TypeOK, RequestsInv, RequestInv
<1>6. ASSUME NEW r \in Requests, WriteReport(r)
      PROVE  /\ rows'[i].status     = rows[i].status
             /\ rows'[i].resolvedBy = rows[i].resolvedBy
             /\ rows'[i].reason     = rows[i].reason
  <2>1. rows'[i] = rows[i] \/ rows'[i] = [rows[i] EXCEPT !.report = tx[r].signal]
    BY <1>6 DEF WriteReport, Inv, TypeOK
  <2> QED
    BY <1>0, <2>1 DEF Incident
<1>7. CASE ~UNCHANGED rows
  <2>1. PICK r \in Requests : Start(r) \/ Step(r) \/ Abort(r)
    BY <1>7 DEF Next, vars
  <2>2. \/ CommitOccurrence(r) \/ UpdateAlone(r) \/ CommitInsert(r)
        \/ WriteStatus(r) \/ WriteResolve(r) \/ WriteReport(r)
    BY <1>7, <2>1 DEF Start, StartUpsert, StartResolve, StartStatus, StartRerun, Step, Abort,
       FindActive, Insert, InsertDuplicate, InsertDeadlock, LookupByKey, FindStatus,
       FindResolve, ReadForRerun
  <2> QED
    BY <2>2, <1>3, <1>4, <1>5, <1>6
<1> QED
  BY <1>1, <1>7

-----------------------------------------------------------------------------

\* Every reachable state satisfies the invariant.
THEOREM Invariance == Spec => []Inv
BY InitInv, NextInv, PTL DEF Spec

\* The rows, the dedupe_key column and the requests keep their types.
THEOREM TypeCorrect == Spec => []TypeOK
<1>1. Inv => TypeOK
  BY DEF Inv
<1> QED
  BY <1>1, Invariance, PTL

\* However the transactions of UpsertIncident, UpdateIncidentStatus and
\* ResolveActiveIncidents interleave, a key has at most one active incident.
THEOREM MariaOneActivePerKey == Spec => []OneActivePerKey
<1>1. Inv => OneActivePerKey
  BY DEF Inv
<1> QED
  BY <1>1, Invariance, PTL

\* The unique dedupe_key is on exactly the active rows.
THEOREM KeysAreActive == Spec => []KeyIffActive
<1>1. Inv => KeyIffActive
  BY DEF Inv
<1> QED
  BY <1>1, Invariance, PTL

\* A rerun never leaves a report that explains another signal.
THEOREM MariaReportsMatch == Spec => []ReportMatchesSignal
<1>1. Inv => ReportMatchesSignal
  BY DEF Inv
<1> QED
  BY <1>1, Invariance, PTL

\* The status and the provenance of a terminal incident never change again,
\* even by the UPDATE of a transaction the server has rolled back.
THEOREM ResolutionIsFinal == Spec => TerminalIsFinal
<1>1. Inv /\ [Next]_vars =>
        [\A i \in IncidentIds :
           IsTerminal(rows[i]) => /\ rows'[i].status     = rows[i].status
                                  /\ rows'[i].resolvedBy = rows[i].resolvedBy
                                  /\ rows'[i].reason     = rows[i].reason]_vars
  BY ResolutionKept
<1> QED
  BY <1>1, Invariance, PTL DEF Spec, TerminalIsFinal

-----------------------------------------------------------------------------
(* What a transaction has read stays true until it commits.                  *)

\* Request t, and x, the committed row it works on.  A row it holds is as it
\* read it; only a deadlock of gap locks puts a request out of its transaction.
Known(t, x, gap) ==
    /\ t.pc \in {"find", "insert", "inserted", "lookup", "lookupAlone", "update", "updateAlone"}
         => t.severity \in Severities /\ t.signal \in SignalIds
    /\ t.pc \in {"findResolve", "writeResolve"} => t.signal \in SignalIds
    /\ t.pc = "update" => /\ t.row.severity = x.severity /\ t.row.count = x.count
                          /\ IsActive(x)
    /\ t.pc = "writeStatus" => t.status # x.status /\ CanTransition(x.status, t.status)
    /\ ~gap => t.pc \notin {"lookupAlone", "updateAlone"}

KnownInv == \A r \in Requests : Known(tx[r], rows[tx[r].id], gapLocks)

\* Others keep what they hold.
OthersKept(r) ==
    \A q \in Requests \ {r} :
        /\ tx'[q] = tx[q]
        /\ Holding(tx[q]) => rows'[tx[q].id] = rows[tx[q].id]

\* A step after which its request's knowledge is right, and that leaves the
\* others theirs, preserves it.
LEMMA KnownStep ==
    ASSUME KnownInv, NEW r \in Requests, OthersKept(r), UNCHANGED gapLocks,
           Known(tx'[r], rows'[tx'[r].id], gapLocks)
    PROVE  KnownInv'
<1> SUFFICES ASSUME NEW q \in Requests PROVE Known(tx'[q], rows'[tx'[q].id], gapLocks')
  BY DEF KnownInv
<1>1. CASE q = r
  BY <1>1
<1>2. CASE q # r
  <2>1. tx'[q] = tx[q] /\ Known(tx[q], rows[tx[q].id], gapLocks)
    BY <1>2 DEF OthersKept, KnownInv
  <2>2. CASE Holding(tx[q])
    BY <1>2, <2>1, <2>2 DEF OthersKept
  <2>3. CASE ~Holding(tx[q])
    BY <2>1, <2>3 DEF Known, Holding
  <2> QED
    BY <2>2, <2>3
<1> QED
  BY <1>1, <1>2

\* A step that writes no row,
LEMMA KnownMove ==
    ASSUME Inv, KnownInv, NEW r \in Requests, NEW t \in Request,
           tx' = [tx EXCEPT ![r] = t], UNCHANGED <<gapLocks, rows>>,
           Known(t, rows[t.id], gapLocks)
    PROVE  KnownInv'
<1>1. OthersKept(r) /\ tx'[r] = t
  BY DEF OthersKept, Inv, TypeOK
<1> QED
  BY <1>1, KnownStep

\* and one that ends a request after writing at most a row nobody else holds.
LEMMA KnownFinish ==
    ASSUME Inv, KnownInv, NEW r \in Requests, Finish(r), UNCHANGED gapLocks,
           \A q \in Requests \ {r} : Holding(tx[q]) => rows'[tx[q].id] = rows[tx[q].id]
    PROVE  KnownInv'
<1>1. OthersKept(r) /\ tx'[r] = Idle
  BY DEF OthersKept, Finish, Inv, TypeOK
<1>2. Known(Idle, rows'[tx'[r].id], gapLocks)
  BY IdleType DEF Known
<1> QED
  BY <1>1, <1>2, KnownStep

\* Nobody else holds the row a request writes.
LEMMA NobodyElse ==
    ASSUME Inv, NEW r \in Requests, NEW q \in Requests \ {r}, Holding(tx[q]),
           \/ Holding(tx[r])
           \/ tx[r].pc = "inserted"
           \/ ~Locked(r, tx[r].id)
    PROVE  tx[q].id \in IncidentIds /\ tx[q].id # tx[r].id
<1>1. RequestInv(tx[q]) /\ RequestInv(tx[r])
  BY DEF Inv, RequestsInv
<1>2. tx[q].id \in IncidentIds
  BY <1>1 DEF RequestInv, Holding
<1>3. CASE Holding(tx[r])
  BY <1>2, <1>3 DEF Inv, LocksExclusive
<1>4. CASE tx[r].pc = "inserted"
  <2>1. rows[tx[r].id] = Absent
    BY <1>1, <1>4 DEF RequestInv
  <2>2. Absent.status = "absent"
    BY DEF Absent
  <2>3. rows[tx[q].id].status # "absent"
    BY <1>1 DEF RequestInv, Holding, IsActive, ActiveStatuses
  <2> QED
    BY <1>2, <2>1, <2>2, <2>3
<1>5. CASE ~Locked(r, tx[r].id)
  BY <1>2, <1>5 DEF Locked, Holds, Holding
<1> QED
  BY <1>3, <1>4, <1>5

\* A request arrives with what it needs.
LEMMA StartKnown ==
    ASSUME Inv, KnownInv, NEW r \in Requests, Start(r)
    PROVE  KnownInv'
<1>1. ASSUME NEW k \in Keys, NEW n \in SignalIds, NEW s \in Severities,
             StartUpsert(r, k, s, n)
      PROVE  KnownInv'
  <2> DEFINE t == [Idle EXCEPT !.pc = "find", !.key = k, !.severity = s, !.signal = n]
  <2>1. t \in Request /\ t.pc = "find" /\ t.severity = s /\ t.signal = n
    BY IdleType, IncidentsAssumption DEF Request, Steps
  <2>2. tx' = [tx EXCEPT ![r] = t] /\ UNCHANGED <<gapLocks, rows>>
    BY <1>1 DEF StartUpsert
  <2> HIDE DEF t
  <2>3. Known(t, rows[t.id], gapLocks)
    BY <2>1 DEF Known
  <2> QED
    BY <2>1, <2>2, <2>3, KnownMove
<1>2. ASSUME NEW k \in Keys, NEW n \in SignalIds, StartResolve(r, k, n)
      PROVE  KnownInv'
  <2> DEFINE t == [Idle EXCEPT !.pc = "findResolve", !.key = k, !.signal = n]
  <2>1. t \in Request /\ t.pc = "findResolve" /\ t.signal = n
    BY IdleType, IncidentsAssumption DEF Request, Steps
  <2>2. tx' = [tx EXCEPT ![r] = t] /\ UNCHANGED <<gapLocks, rows>>
    BY <1>2 DEF StartResolve
  <2> HIDE DEF t
  <2>3. Known(t, rows[t.id], gapLocks)
    BY <2>1 DEF Known
  <2> QED
    BY <2>1, <2>2, <2>3, KnownMove
<1>3. ASSUME NEW i \in IncidentIds, NEW st \in NewStatuses, StartStatus(r, i, st)
      PROVE  KnownInv'
  <2> DEFINE t == [Idle EXCEPT !.pc = "findStatus", !.id = i, !.status = st]
  <2>1. t \in Request /\ t.pc = "findStatus"
    BY IdleType, MariaAssumption DEF Request, Steps
  <2>2. tx' = [tx EXCEPT ![r] = t] /\ UNCHANGED <<gapLocks, rows>>
    BY <1>3 DEF StartStatus
  <2> HIDE DEF t
  <2>3. Known(t, rows[t.id], gapLocks)
    BY <2>1 DEF Known
  <2> QED
    BY <2>1, <2>2, <2>3, KnownMove
<1>4. ASSUME NEW i \in IncidentIds, StartRerun(r, i)
      PROVE  KnownInv'
  <2> DEFINE t == [Idle EXCEPT !.pc = "read", !.id = i]
  <2>1. t \in Request /\ t.pc = "read"
    BY IdleType DEF Request, Steps
  <2>2. tx' = [tx EXCEPT ![r] = t] /\ UNCHANGED <<gapLocks, rows>>
    BY <1>4 DEF StartRerun
  <2> HIDE DEF t
  <2>3. Known(t, rows[t.id], gapLocks)
    BY <2>1 DEF Known
  <2> QED
    BY <2>1, <2>2, <2>3, KnownMove
<1> QED
  BY <1>1, <1>2, <1>3, <1>4 DEF Start

\* A request that only moves on, without a row.
LEMMA GotoKnown ==
    ASSUME Inv, KnownInv, NEW r \in Requests, UNCHANGED <<gapLocks, rows>>,
           NEW pc \in {"insert", "lookup", "lookupAlone", "writeStatus"}, Goto(r, pc),
           pc # "writeStatus" => /\ tx[r].severity \in Severities
                                 /\ tx[r].signal \in SignalIds,
           pc = "writeStatus" => LET x == rows[tx[r].id] IN
                                 /\ tx[r].status # x.status
                                 /\ CanTransition(x.status, tx[r].status),
           pc = "lookupAlone" => gapLocks
    PROVE  KnownInv'
<1> DEFINE t == [tx[r] EXCEPT !.pc = pc]
<1>1. /\ t \in Request /\ t.pc = pc /\ t.severity = tx[r].severity /\ t.signal = tx[r].signal
      /\ t.status = tx[r].status /\ t.id = tx[r].id
  BY DEF Inv, TypeOK, Request, Steps
<1>2. tx' = [tx EXCEPT ![r] = t]
  BY DEF Goto
<1> HIDE DEF t
<1>3. Known(t, rows[t.id], gapLocks)
  BY <1>1 DEF Known
<1> QED
  BY <1>1, <1>2, <1>3, KnownMove

\* The reads of UpsertIncident.
LEMMA UpsertReadKnown ==
    ASSUME Inv, KnownInv, NEW r \in Requests, FindActive(r) \/ LookupByKey(r)
    PROVE  KnownInv'
<1>0. /\ tx[r] \in Request /\ tx[r].key \in Keys
      /\ tx[r].severity \in Severities /\ tx[r].signal \in SignalIds
      /\ ~gapLocks => tx[r].pc # "lookupAlone"
      /\ UNCHANGED <<gapLocks, rows>>
  BY DEF Inv, TypeOK, RequestsInv, RequestInv, KnownInv, Known, FindActive, LookupByKey
<1>1. CASE Goto(r, "insert")
  BY <1>0, <1>1, GotoKnown
<1>2. CASE Finish(r)
  BY <1>0, <1>2, KnownFinish
<1>3. ASSUME NEW i \in IncidentIds, NEW pc \in {"update", "updateAlone"},
             IsActive(rows[i]), ~gapLocks => pc = "update",
             tx' = [tx EXCEPT ![r] = [@ EXCEPT !.pc = pc, !.id = i, !.row = rows[i]]]
      PROVE  KnownInv'
  <2> DEFINE t == [tx[r] EXCEPT !.pc = pc, !.id = i, !.row = rows[i]]
  <2>0. rows[i] \in Incident
    BY DEF Inv, TypeOK
  <2>1. /\ t \in Request /\ t.pc = pc /\ t.id = i /\ t.row = rows[i]
        /\ t.severity = tx[r].severity /\ t.signal = tx[r].signal
    BY <1>0, <2>0 DEF Request, Steps
  <2>2. tx' = [tx EXCEPT ![r] = t]
    BY <1>3
  <2> HIDE DEF t
  <2>3. Known(t, rows[t.id], gapLocks)
    BY <1>0, <1>3, <2>1 DEF Known
  <2> QED
    BY <1>0, <2>1, <2>2, <2>3, KnownMove
<1>4. CASE FindActive(r)
  <2>1. \/ Goto(r, "insert")
        \/ \E i \in OpenRows(tx[r].key) :
             tx' = [tx EXCEPT ![r] = [@ EXCEPT !.pc = "update", !.id = i, !.row = rows[i]]]
    BY <1>4 DEF FindActive
  <2> QED
    BY <1>1, <1>3, <2>1 DEF OpenRows
<1>5. CASE LookupByKey(r)
  <2>1. \/ Finish(r)
        \/ \E i \in IncidentIds, pc \in {"update", "updateAlone"} :
             /\ dedupeKey[i] = tx[r].key
             /\ pc = "updateAlone" => tx[r].pc = "lookupAlone"
             /\ tx' = [tx EXCEPT ![r] = [@ EXCEPT !.pc = pc, !.id = i, !.row = rows[i]]]
    BY <1>0, <1>5 DEF LookupByKey
  <2>2. \A i \in IncidentIds : dedupeKey[i] = tx[r].key => IsActive(rows[i])
    BY <1>0, IncidentsAssumption DEF Inv, KeyIffActive
  <2> QED
    BY <1>0, <1>2, <1>3, <2>1, <2>2
<1> QED
  BY <1>4, <1>5

\* The INSERT, its duplicate key and its deadlock.
LEMMA InsertKnown ==
    ASSUME Inv, KnownInv, NEW r \in Requests,
           Insert(r) \/ InsertDuplicate(r) \/ InsertDeadlock(r)
    PROVE  KnownInv'
<1>0. /\ tx[r] \in Request /\ UNCHANGED <<gapLocks, rows>>
      /\ tx[r].severity \in Severities /\ tx[r].signal \in SignalIds
  BY DEF Inv, TypeOK, KnownInv, Known, Insert, InsertDuplicate, InsertDeadlock, InsertReady
<1>1. CASE Insert(r)
  <2>1. PICK i \in IncidentIds : tx' = [tx EXCEPT ![r] = [@ EXCEPT !.pc = "inserted", !.id = i]]
    BY <1>1 DEF Insert
  <2> DEFINE t == [tx[r] EXCEPT !.pc = "inserted", !.id = i]
  <2>2. /\ t \in Request /\ t.pc = "inserted"
        /\ t.severity = tx[r].severity /\ t.signal = tx[r].signal
    BY <1>0 DEF Request, Steps
  <2>3. tx' = [tx EXCEPT ![r] = t]
    BY <2>1
  <2> HIDE DEF t
  <2>4. Known(t, rows[t.id], gapLocks)
    BY <1>0, <2>2 DEF Known
  <2> QED
    BY <1>0, <2>2, <2>3, <2>4, KnownMove
<1>2. CASE InsertDuplicate(r)
  BY <1>0, <1>2, GotoKnown DEF InsertDuplicate
<1>3. CASE InsertDeadlock(r)
  BY <1>0, <1>3, GotoKnown DEF InsertDeadlock
<1> QED
  BY <1>1, <1>2, <1>3

\* The reads of the other methods.
LEMMA OtherReadKnown ==
    ASSUME Inv, KnownInv, NEW r \in Requests,
           FindStatus(r) \/ FindResolve(r) \/ ReadForRerun(r) \/ Abort(r)
    PROVE  KnownInv'
<1>0. tx[r] \in Request /\ UNCHANGED <<gapLocks, rows>>
  BY DEF Inv, TypeOK, FindStatus, FindResolve, ReadForRerun, Abort
<1>1. CASE Finish(r)
  BY <1>0, <1>1, KnownFinish
<1>2. CASE FindStatus(r) /\ ~Finish(r)
  <2>1. /\ Goto(r, "writeStatus") /\ rows[tx[r].id].status # tx[r].status
        /\ CanTransition(rows[tx[r].id].status, tx[r].status)
    BY <1>2 DEF FindStatus
  <2> QED
    BY <1>0, <2>1, GotoKnown
<1>3. CASE FindResolve(r) /\ ~Finish(r)
  <2>1. PICK i \in IncidentIds :
          tx' = [tx EXCEPT ![r] = [@ EXCEPT !.pc = "writeResolve", !.id = i]]
    BY <1>3 DEF FindResolve, OpenRows
  <2> DEFINE t == [tx[r] EXCEPT !.pc = "writeResolve", !.id = i]
  <2>2. t \in Request /\ t.pc = "writeResolve" /\ t.signal = tx[r].signal
    BY <1>0 DEF Request, Steps
  <2>3. tx[r].signal \in SignalIds
    BY <1>3 DEF FindResolve, KnownInv, Known
  <2>4. tx' = [tx EXCEPT ![r] = t]
    BY <2>1
  <2> HIDE DEF t
  <2>5. Known(t, rows[t.id], gapLocks)
    BY <2>2, <2>3 DEF Known
  <2> QED
    BY <1>0, <2>2, <2>4, <2>5, KnownMove
<1>4. CASE ReadForRerun(r) /\ ~Finish(r)
  <2> DEFINE t == [tx[r] EXCEPT !.pc = "writeReport", !.signal = rows[tx[r].id].signal]
  <2>1. tx' = [tx EXCEPT ![r] = t] /\ tx[r].pc = "read"
    BY <1>4 DEF ReadForRerun
  <2>2. rows[tx[r].id].signal \in Nat
    BY <2>1 DEF Inv, TypeOK, Incident, RequestsInv, RequestInv
  <2>3. t \in Request /\ t.pc = "writeReport"
    BY <1>0, <2>2 DEF Request, Steps
  <2> HIDE DEF t
  <2>4. Known(t, rows[t.id], gapLocks)
    BY <2>3 DEF Known
  <2> QED
    BY <1>0, <2>1, <2>3, <2>4, KnownMove
<1> QED
  BY <1>1, <1>2, <1>3, <1>4 DEF Abort

\* A statement that may write a row, and ends its request.
Committing(r) ==
    \/ CommitOccurrence(r) \/ UpdateAlone(r) \/ CommitInsert(r)
    \/ WriteStatus(r) \/ WriteResolve(r) \/ WriteReport(r)

\* It writes the row it works on, which nobody else holds.
LEMMA CommitKnown ==
    ASSUME Inv, KnownInv, NEW r \in Requests, Committing(r)
    PROVE  KnownInv'
<1> USE DEF Committing
<1>1. Finish(r) /\ UNCHANGED gapLocks
  BY DEF CommitOccurrence, UpdateAlone, CommitInsert, WriteStatus, WriteResolve, WriteReport
<1>2. Holding(tx[r]) \/ tx[r].pc = "inserted" \/ ~Locked(r, tx[r].id)
  BY DEF CommitOccurrence, UpdateAlone, CommitInsert, WriteStatus, WriteResolve, WriteReport,
     Holding
<1>3. \A i \in IncidentIds : i # tx[r].id => rows'[i] = rows[i]
  BY DEF CommitOccurrence, UpdateAlone, CommitInsert, WriteStatus, WriteResolve, WriteReport,
     WriteOccurrence, Inv, TypeOK
<1>4. ASSUME NEW q \in Requests \ {r}, Holding(tx[q])
      PROVE  rows'[tx[q].id] = rows[tx[q].id]
  BY <1>2, <1>3, <1>4, NobodyElse
<1> QED
  BY <1>1, <1>4, KnownFinish

\* Every step preserves what the requests know.
LEMMA KnownNext == Inv /\ KnownInv /\ [Next]_vars => KnownInv'
<1> SUFFICES ASSUME Inv, KnownInv, [Next]_vars PROVE KnownInv'
  OBVIOUS
<1>1. CASE UNCHANGED vars
  BY <1>1 DEF vars, KnownInv
<1>2. ASSUME NEW r \in Requests, Start(r) \/ Step(r) \/ Abort(r) PROVE KnownInv'
  BY <1>2, StartKnown, UpsertReadKnown, InsertKnown, OtherReadKnown, CommitKnown
     DEF Step, Committing
<1> QED
  BY <1>1, <1>2 DEF Next

\* Initially nobody knows anything.
LEMMA KnownInit == Init => KnownInv
BY IdleType DEF Init, KnownInv, Known

\* Only a commit writes rows or reports an occurrence.
LEMMA OnlyCommitsWrite ==
    ASSUME NEW r \in Requests, Start(r) \/ Step(r) \/ Abort(r), ~Committing(r)
    PROVE  UNCHANGED <<rows, acknowledged>>
BY DEF Start, StartUpsert, StartResolve, StartStatus, StartRerun, Step, Abort, Committing,
   FindActive, Insert, InsertDuplicate, InsertDeadlock, LookupByKey, FindStatus,
   FindResolve, ReadForRerun

\* Inside its transaction an occurrence is written over the row as it is.
LEMMA OccurrenceWritten ==
    ASSUME Inv, KnownInv, NEW r \in Requests, CommitOccurrence(r)
    PROVE  /\ tx[r].id \in IncidentIds /\ IsActive(rows[tx[r].id])
           /\ tx[r].severity \in Severities /\ tx[r].signal \in SignalIds
           /\ rows' = [rows EXCEPT ![tx[r].id] =
                         Occurred(rows[tx[r].id], tx[r].severity, tx[r].signal)]
<1> DEFINE t == tx[r]
           x == rows[t.id]
<1>1. /\ t.pc = "update" /\ t.id \in IncidentIds
      /\ rows' = [rows EXCEPT ![t.id] =
                    [x EXCEPT !.severity = Occurred(t.row, t.severity, t.signal).severity,
                              !.signal   = t.signal,
                              !.report   = t.signal,
                              !.count    = t.row.count + 1]]
  BY DEF CommitOccurrence, WriteOccurrence, Inv, RequestsInv, RequestInv
<1>2. /\ x \in Incident /\ t.row \in Incident /\ IsActive(x)
      /\ t.severity \in Severities /\ t.signal \in SignalIds
      /\ t.row.severity = x.severity /\ t.row.count = x.count
  BY <1>1 DEF Inv, TypeOK, Request, KnownInv, Known
<1>3. Occurred(t.row, t.severity, t.signal).severity
        = IF IsMoreSevere(t.severity, x.severity) THEN t.severity ELSE x.severity
  <2> HIDE DEF t, x
  <2> QED
    BY <1>2 DEF Occurred, Incident
<1>4. [x EXCEPT !.severity = Occurred(t.row, t.severity, t.signal).severity,
                !.signal   = t.signal,
                !.report   = t.signal,
                !.count    = t.row.count + 1]
        = Occurred(x, t.severity, t.signal)
  <2> HIDE DEF t, x
  <2> QED
    BY <1>2, <1>3, Zenon DEF Occurred
<1> QED
  BY <1>1, <1>2, <1>4

\* The counts of the rows that are written.
LEMMA CountsWritten ==
    /\ \A k, s, n : Opened(k, s, n).count = 1
    /\ Absent.count = 0
    /\ \A x \in Incident :
        /\ \A s, n : Occurred(x, s, n).count = x.count + 1
        /\ \A st : WithStatus(x, st).count = x.count
        /\ \A n : Recovered(x, n).count = x.count
        /\ \A n : [x EXCEPT !.report = n].count = x.count
BY DEF Opened, Absent, Occurred, WithStatus, Recovered, Incident

\* Every step keeps the counts up with what was reported.
LEMMA CountNext ==
    ASSUME Inv, KnownInv, OccurrencesCounted, [Next]_vars
    PROVE  OccurrencesCounted'
<1>1. CASE UNCHANGED <<rows, acknowledged>> /\ UNCHANGED gapLocks
  BY <1>1 DEF OccurrencesCounted, EveryOccurrenceCounted
<1>2. UNCHANGED gapLocks
  BY DEF vars, Next, Start, StartUpsert, StartResolve, StartStatus, StartRerun, Step, Abort,
     FindActive, CommitOccurrence, Insert, InsertDuplicate, InsertDeadlock, CommitInsert,
     LookupByKey, UpdateAlone, FindStatus, WriteStatus, FindResolve, WriteResolve,
     ReadForRerun, WriteReport
<1>3. ASSUME NEW r \in Requests, Committing(r), ~gapLocks
      PROVE  EveryOccurrenceCounted'
  <2> DEFINE i == tx[r].id
  <2>0. /\ \A j \in IncidentIds : /\ rows[j] \in Incident /\ rows[j].count \in Nat
                                  /\ acknowledged[j] \in Nat
                                  /\ rows[j].count >= acknowledged[j]
        /\ acknowledged \in [IncidentIds -> Nat] /\ rows \in [IncidentIds -> Incident]
    BY <1>3 DEF Inv, TypeOK, Incident, OccurrencesCounted, EveryOccurrenceCounted
  <2>1. CASE CommitOccurrence(r)
    <3>1. /\ i \in IncidentIds
          /\ \A j \in IncidentIds : rows'[j].count =
                IF j = i THEN rows[i].count + 1 ELSE rows[j].count
      BY <2>0, <2>1, OccurrenceWritten, CountsWritten
    <3>2. \A j \in IncidentIds : acknowledged'[j] =
                IF j = i THEN acknowledged[i] + 1 ELSE acknowledged[j]
      BY <2>0, <2>1, <3>1 DEF CommitOccurrence
    <3> QED
      BY <2>0, <3>1, <3>2 DEF EveryOccurrenceCounted
  <2>2. CASE UpdateAlone(r)
    BY <1>3, <2>2 DEF UpdateAlone, KnownInv, Known
  <2>3. CASE CommitInsert(r)
    <3>1. i \in IncidentIds /\ rows[i] = Absent
      BY <2>3 DEF CommitInsert, Inv, RequestsInv, RequestInv
    <3>2. \A j \in IncidentIds : rows'[j].count = IF j = i THEN 1 ELSE rows[j].count
      BY <2>0, <2>3, <3>1, CountsWritten DEF CommitInsert
    <3>3. \A j \in IncidentIds : acknowledged'[j] =
                IF j = i THEN acknowledged[i] + 1 ELSE acknowledged[j]
      BY <2>0, <2>3, <3>1 DEF CommitInsert
    <3>4. acknowledged[i] = 0
      BY <2>0, <3>1, CountsWritten
    <3> QED
      BY <2>0, <3>1, <3>2, <3>3, <3>4 DEF EveryOccurrenceCounted
  <2>4. CASE WriteStatus(r) \/ WriteResolve(r)
    <3>1. i \in IncidentIds /\ acknowledged' = acknowledged
      BY <2>4 DEF WriteStatus, WriteResolve, Inv, RequestsInv, RequestInv
    <3>2. \A j \in IncidentIds : rows'[j].count = rows[j].count
      BY <2>0, <2>4, <3>1, CountsWritten DEF WriteStatus, WriteResolve
    <3> QED
      BY <2>0, <3>1, <3>2 DEF EveryOccurrenceCounted
  <2>5. CASE WriteReport(r)
    <3>1. acknowledged' = acknowledged
      BY <2>5 DEF WriteReport
    <3>2. \A j \in IncidentIds :
            \/ rows'[j] = rows[j]
            \/ rows'[j] = [rows[j] EXCEPT !.report = tx[r].signal]
      BY <2>0, <2>5 DEF WriteReport
    <3>3. \A j \in IncidentIds : [rows[j] EXCEPT !.report = tx[r].signal].count = rows[j].count
      BY <2>0, CountsWritten, Zenon
    <3>4. \A j \in IncidentIds : rows'[j].count = rows[j].count
      BY <3>2, <3>3, Zenon
    <3> QED
      BY <2>0, <3>1, <3>4 DEF EveryOccurrenceCounted
  <2> QED
    BY <1>3, <2>1, <2>2, <2>3, <2>4, <2>5 DEF Committing
<1> QED
  BY <1>1, <1>2, <1>3, OnlyCommitsWrite DEF Next, vars, OccurrencesCounted

\* "A matching failure increments its occurrence count": where the isolation
\* level takes no gap locks, every occurrence UpsertIncident reported is in the
\* row's count, however many requests race for a key and whichever are aborted.
THEOREM CountsAreComplete == Spec => []OccurrencesCounted
<1>1. Init => OccurrencesCounted
  <2> SUFFICES ASSUME Init PROVE EveryOccurrenceCounted
    BY DEF OccurrencesCounted
  <2>1. \A i \in IncidentIds : rows[i] = Absent /\ acknowledged[i] = 0
    BY DEF Init
  <2>2. \A i \in IncidentIds : rows[i].count = 0
    BY <2>1, CountsWritten, Zenon
  <2>3. 0 >= 0
    OBVIOUS
  <2> QED
    BY <2>1, <2>2, <2>3, Zenon DEF EveryOccurrenceCounted
<1>2. Inv /\ KnownInv /\ OccurrencesCounted /\ [Next]_vars => OccurrencesCounted'
  BY CountNext
<1> QED
  BY <1>1, <1>2, InitInv, NextInv, KnownInit, KnownNext, PTL DEF Spec

-----------------------------------------------------------------------------
(* The refinement.                                                           *)

\* The lifecycle's copy of the operators is the store's.
LEMMA SameOperators ==
    /\ Lifecycle!Absent = Absent
    /\ Lifecycle!IncidentStatuses = IncidentStatuses
    /\ \A x : Lifecycle!IsActive(x) <=> IsActive(x)
    /\ \A x, y : Lifecycle!CanTransition(x, y) <=> CanTransition(x, y)
    /\ \A k, s, n : Lifecycle!Opened(k, s, n) = Opened(k, s, n)
    /\ \A x, s, n : Lifecycle!Occurred(x, s, n) = Occurred(x, s, n)
    /\ \A x, st : Lifecycle!WithStatus(x, st) = WithStatus(x, st)
    /\ \A x, n : Lifecycle!Recovered(x, n) = Recovered(x, n)
<1>1. /\ Lifecycle!ActiveStatuses = ActiveStatuses
      /\ Lifecycle!TerminalStatuses = TerminalStatuses
  BY DEF Lifecycle!ActiveStatuses, Lifecycle!TerminalStatuses, ActiveStatuses,
         TerminalStatuses
<1>2. Lifecycle!Absent = Absent /\ Lifecycle!IncidentStatuses = IncidentStatuses
  BY <1>1 DEF Lifecycle!Absent, Absent, Lifecycle!IncidentStatuses, IncidentStatuses
<1>3. \A x : Lifecycle!IsActive(x) <=> IsActive(x)
  BY <1>1 DEF Lifecycle!IsActive, IsActive
<1>4. \A x, y : Lifecycle!CanTransition(x, y) <=> CanTransition(x, y)
  BY <1>1, Zenon DEF Lifecycle!CanTransition, CanTransition
<1>5. \A k, s, n : Lifecycle!Opened(k, s, n) = Opened(k, s, n)
  BY DEF Lifecycle!Opened, Opened
<1>6. \A s, t : Lifecycle!IsMoreSevere(s, t) <=> IsMoreSevere(s, t)
  BY DEF Lifecycle!IsMoreSevere, IsMoreSevere, Lifecycle!IncidentSeverityRank,
         IncidentSeverityRank
<1>7. \A x, s, n : Lifecycle!Occurred(x, s, n) = Occurred(x, s, n)
  BY <1>6, Zenon DEF Lifecycle!Occurred, Occurred
<1>8. \A x, st : Lifecycle!WithStatus(x, st) = WithStatus(x, st)
  BY <1>1, Zenon DEF Lifecycle!WithStatus, WithStatus
<1>9. \A x, n : Lifecycle!Recovered(x, n) = Recovered(x, n)
  BY Zenon DEF Lifecycle!Recovered, Recovered
<1> QED
  BY <1>2, <1>3, <1>4, <1>5, <1>7, <1>8, <1>9

\* A commit is a lifecycle step, or leaves the rows alone.
LEMMA CommitIsLifecycle ==
    ASSUME Inv, KnownInv, ~gapLocks, NEW r \in Requests, Committing(r)
    PROVE  Lifecycle!Next \/ UNCHANGED rows
<1> DEFINE t == tx[r]
<1>0. RequestInv(t) /\ Known(t, rows[t.id], gapLocks)
  BY DEF Inv, RequestsInv, KnownInv
<1>1. CASE CommitOccurrence(r)
  <2>1. t.severity \in Severities /\ t.signal \in SignalIds /\ t.id \in IncidentIds
    BY <1>1, OccurrenceWritten
  <2>2. Lifecycle!Recur(t.id, t.severity, t.signal)
    BY <1>1, OccurrenceWritten, SameOperators DEF Lifecycle!Recur
  <2> QED
    BY <2>1, <2>2 DEF Lifecycle!Next
<1>2. CASE UpdateAlone(r)
  BY <1>0, <1>2 DEF UpdateAlone, Known
<1>3. CASE CommitInsert(r)
  <2>1. /\ t.pc = "inserted" /\ t.id \in IncidentIds /\ t.key \in Keys
        /\ t.severity \in Severities /\ t.signal \in SignalIds
        /\ rows[t.id] = Absent /\ ~KeyTaken(t.key)
        /\ rows' = [rows EXCEPT ![t.id] = Opened(t.key, t.severity, t.signal)]
    BY <1>0, <1>3 DEF CommitInsert, RequestInv, Known
  <2>2. \A j \in IncidentIds : ~(IsActive(rows[j]) /\ rows[j].key = t.key)
    BY <2>1 DEF KeyTaken, Inv, KeyIffActive
  <2>3. Lifecycle!Open(t.id, t.key, t.severity, t.signal)
    BY <2>1, <2>2, SameOperators DEF Lifecycle!Open
  <2> QED
    BY <2>1, <2>3 DEF Lifecycle!Next
<1>4. CASE WriteStatus(r)
  <2>1. /\ t.pc = "writeStatus" /\ t.id \in IncidentIds /\ t.status \in IncidentStatuses
        /\ rows[t.id].status # t.status /\ CanTransition(rows[t.id].status, t.status)
        /\ IsActive(rows[t.id])
        /\ rows' = [rows EXCEPT ![t.id] = WithStatus(rows[t.id], t.status)]
    BY <1>0, <1>4 DEF WriteStatus, RequestInv, Known
  <2>2. rows[t.id] # Absent
    <3>1. ~IsActive(Absent)
      BY DEF Absent, IsActive, ActiveStatuses
    <3> QED
      BY <2>1, <3>1
  <2>3. Lifecycle!ChangeStatus(t.id, t.status)
    BY <2>1, <2>2, SameOperators DEF Lifecycle!ChangeStatus
  <2> QED
    BY <2>1, <2>3, SameOperators DEF Lifecycle!Next
<1>5. CASE WriteResolve(r)
  <2>1. /\ t.id \in IncidentIds /\ t.signal \in SignalIds /\ IsActive(rows[t.id])
        /\ rows' = [rows EXCEPT ![t.id] = Recovered(rows[t.id], t.signal)]
    BY <1>0, <1>5 DEF WriteResolve, RequestInv, Known
  <2>2. Lifecycle!Recover(t.id, t.signal)
    BY <2>1, SameOperators DEF Lifecycle!Recover
  <2> QED
    BY <2>1, <2>2 DEF Lifecycle!Next
<1>6. CASE WriteReport(r)
  <2>1. /\ t.id \in IncidentIds /\ rows \in [IncidentIds -> Incident]
        /\ rows' = IF rows[t.id].signal = t.signal
                   THEN [rows EXCEPT ![t.id].report = t.signal] ELSE rows
    BY <1>0, <1>6 DEF WriteReport, RequestInv, Inv, TypeOK
  <2>2. rows[t.id].report = rows[t.id].signal /\ rows[t.id] \in Incident
    BY <2>1 DEF Inv, ReportMatchesSignal
  <2>3. rows[t.id].signal = t.signal => [rows[t.id] EXCEPT !.report = t.signal] = rows[t.id]
    BY <2>2 DEF Incident
  <2> QED
    BY <2>1, <2>3
<1> QED
  BY <1>1, <1>2, <1>3, <1>4, <1>5, <1>6 DEF Committing

\* Where the isolation level takes no gap locks, every committed statement of
\* the MariaDB store is one step of the incident lifecycle, although a method
\* reads and writes in several statements and others commit in between.
THEOREM MariaImplementsLifecycle == Spec /\ ~gapLocks => ImplementsLifecycle
<1>1. Init => Lifecycle!Init
  BY SameOperators DEF Init, Lifecycle!Init
<1>2. ~gapLocks /\ [Next]_vars => ~gapLocks'
  BY DEF vars, Next, Start, StartUpsert, StartResolve, StartStatus, StartRerun, Step, Abort,
     FindActive, CommitOccurrence, Insert, InsertDuplicate, InsertDeadlock, CommitInsert,
     LookupByKey, UpdateAlone, FindStatus, WriteStatus, FindResolve, WriteResolve,
     ReadForRerun, WriteReport
<1>3. Inv /\ KnownInv /\ ~gapLocks /\ [Next]_vars => [Lifecycle!Next]_rows
  BY OnlyCommitsWrite, CommitIsLifecycle DEF Next, vars
<1> QED
  BY <1>1, <1>2, <1>3, InitInv, NextInv, KnownInit, KnownNext, PTL
     DEF Spec, ImplementsLifecycle, Lifecycle!Spec

=============================================================================
