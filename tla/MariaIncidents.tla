---------------------------- MODULE MariaIncidents ----------------------------
(***************************************************************************)
(* The incidents of MariaDBStore.  Requests run transactions concurrently, *)
(* so a method is as many steps as it has statements that wait for, or     *)
(* release, a row lock:                                                    *)
(*                                                                         *)
(*   UpsertIncident    find -> update             (commits the update)     *)
(*                     find -> insert -> inserted (commits the insert)     *)
(*                     insert -> lookup -> update (the key was taken)      *)
(*   UpdateIncidentStatus    findStatus  -> writeStatus                    *)
(*   ResolveActiveIncidents  findResolve -> writeResolve                   *)
(*   rerun of diagnostics    read -> writeReport                           *)
(*                                                                         *)
(* InnoDB is external.  A locking read waits for the row's writer and then *)
(* sees its committed row; a write is visible to others at commit; the     *)
(* unique index on dedupe_key makes an INSERT wait for an uncommitted      *)
(* owner of the key and fails it on a committed one.  gapLocks says that   *)
(* an empty SELECT ... FOR UPDATE locks the gap, as REPEATABLE READ does:  *)
(* then two inserters of one key wait for each other, and the victim's     *)
(* transaction is rolled back although the code goes on using it, each     *)
(* later statement committing by itself.                                   *)
(***************************************************************************)
EXTENDS Incidents

CONSTANTS
    Requests,      \* concurrent requests on the store
    NewStatuses,   \* statuses operators ask for
    GapLocks       \* {TRUE} where the isolation level takes gap locks, {FALSE}
                   \* where it does not, BOOLEAN where either may be configured

ASSUME MariaAssumption ==
    /\ NewStatuses \subseteq IncidentStatuses
    /\ GapLocks \subseteq BOOLEAN

VARIABLES
    gapLocks,     \* the isolation level takes gap locks
    rows,         \* committed incidents
    dedupeKey,    \* their dedupe_key column
    tx,           \* what each request is doing
    unevaluated,  \* signals ingest has not applied to a key yet
    acknowledged  \* occurrences reported back to the caller, by row

vars == <<gapLocks, rows, dedupeKey, tx, unevaluated, acknowledged>>

Steps == {"idle", "find", "update", "insert", "inserted", "lookup",
          "lookupAlone", "updateAlone", "findStatus", "writeStatus",
          "findResolve", "writeResolve", "read", "writeReport"}

Request == [pc       : Steps,
            key      : Keys \cup {NoKey},
            severity : Severities \cup {"none"},
            signal   : Nat,
            status   : IncidentStatuses \cup {"absent"},
            id       : IncidentIds \cup {NoIncidentId},
            row      : Incident]

Idle == [pc |-> "idle", key |-> NoKey, severity |-> "none", signal |-> 0,
         status |-> "absent", id |-> NoIncidentId, row |-> Absent]

TypeOK ==
    /\ gapLocks \in BOOLEAN
    /\ rows \in [IncidentIds -> Incident]
    /\ dedupeKey \in [IncidentIds -> Keys \cup {NoKey}]
    /\ tx \in [Requests -> Request]
    /\ unevaluated \in [Keys -> SUBSET SignalIds]
    /\ acknowledged \in [IncidentIds -> Nat]

Init ==
    /\ gapLocks \in GapLocks
    /\ rows = [i \in IncidentIds |-> Absent]
    /\ dedupeKey = [i \in IncidentIds |-> NoKey]
    /\ tx = [r \in Requests |-> Idle]
    /\ unevaluated = [k \in Keys |-> SignalIds]
    /\ acknowledged = [i \in IncidentIds |-> 0]

-----------------------------------------------------------------------------
(* Locks.                                                                    *)

\* Mutant of Holds: findOpenIncidentQuery reads without FOR UPDATE.
HoldsWithoutForUpdate(r, i) == tx[r].pc = "writeStatus" /\ tx[r].id = i

\* A transaction that locked row i and has not committed.
Holds(r, i) == tx[r].pc \in {"update", "writeStatus", "writeResolve"} /\ tx[r].id = i

Locked(r, i) == \E q \in Requests \ {r} : Holds(q, i)

\* A transaction with an uncommitted row of this key.
Inserting(r, key) == \E q \in Requests \ {r} : tx[q].pc = "inserted" /\ tx[q].key = key

\* Another transaction found no row of this key and keeps the gap.
GapHeld(r, key) == \E q \in Requests \ {r} : tx[q].pc = "insert" /\ tx[q].key = key

\* The rows of the WHERE clause of findOpenIncidentQuery.
OpenRows(key) == {i \in IncidentIds : IsActive(rows[i]) /\ rows[i].key = key}

\* An id newID("inc") can still return.
Fresh(i) ==
    /\ rows[i] = Absent
    /\ \A q \in Requests : ~(tx[q].pc = "inserted" /\ tx[q].id = i)

Goto(r, step) == tx' = [tx EXCEPT ![r] = [@ EXCEPT !.pc = step]]

\* Commit or rollback: the request has returned and holds nothing.
Finish(r) == tx' = [tx EXCEPT ![r] = Idle]

-----------------------------------------------------------------------------
(* Requests arrive.                                                          *)

Evaluate(key, signal) ==
    /\ signal \in unevaluated[key]
    /\ unevaluated' = [unevaluated EXCEPT ![key] = @ \ {signal}]

StartUpsert(r, key, severity, signal) ==
    /\ tx[r].pc = "idle"
    /\ Evaluate(key, signal)
    /\ tx' = [tx EXCEPT ![r] = [Idle EXCEPT !.pc = "find", !.key = key,
                                            !.severity = severity, !.signal = signal]]
    /\ UNCHANGED <<gapLocks, rows, dedupeKey, acknowledged>>

StartResolve(r, key, signal) ==
    /\ tx[r].pc = "idle"
    /\ Evaluate(key, signal)
    /\ tx' = [tx EXCEPT ![r] = [Idle EXCEPT !.pc = "findResolve", !.key = key,
                                            !.signal = signal]]
    /\ UNCHANGED <<gapLocks, rows, dedupeKey, acknowledged>>

StartStatus(r, i, status) ==
    /\ tx[r].pc = "idle"
    /\ tx' = [tx EXCEPT ![r] = [Idle EXCEPT !.pc = "findStatus", !.id = i,
                                            !.status = status]]
    /\ UNCHANGED <<gapLocks, rows, dedupeKey, unevaluated, acknowledged>>

StartRerun(r, i) ==
    /\ tx[r].pc = "idle"
    /\ tx' = [tx EXCEPT ![r] = [Idle EXCEPT !.pc = "read", !.id = i]]
    /\ UNCHANGED <<gapLocks, rows, dedupeKey, unevaluated, acknowledged>>

-----------------------------------------------------------------------------
(* UpsertIncident.                                                           *)

\* findOpenIncidentQuery waits for the writer of a matching row.
FindActive(r) ==
    /\ tx[r].pc = "find"
    /\ ~Inserting(r, tx[r].key)
    /\ \A i \in OpenRows(tx[r].key) : ~Locked(r, i)
    /\ \/ /\ OpenRows(tx[r].key) = {}
          /\ Goto(r, "insert")
       \/ \E i \in OpenRows(tx[r].key) :
            tx' = [tx EXCEPT ![r] = [@ EXCEPT !.pc = "update", !.id = i, !.row = rows[i]]]
    /\ UNCHANGED <<gapLocks, rows, dedupeKey, unevaluated, acknowledged>>

\* UPDATE ... WHERE id: the row computed from the one that was read.
WriteOccurrence(r) ==
    LET t == tx[r] IN
    rows' = [rows EXCEPT ![t.id] =
                [@ EXCEPT !.severity = Occurred(t.row, t.severity, t.signal).severity,
                          !.signal   = t.signal,
                          !.report   = t.signal,
                          !.count    = t.row.count + 1]]

\* The UPDATE and its COMMIT.
CommitOccurrence(r) ==
    /\ tx[r].pc = "update"
    /\ WriteOccurrence(r)
    /\ acknowledged' = [acknowledged EXCEPT ![tx[r].id] = @ + 1]
    /\ Finish(r)
    /\ UNCHANGED <<gapLocks, dedupeKey, unevaluated>>

\* The INSERT, once nobody else has an uncommitted claim on the key.
InsertReady(r) ==
    /\ tx[r].pc = "insert"
    /\ ~Inserting(r, tx[r].key)
    /\ gapLocks => ~GapHeld(r, tx[r].key)
    /\ \A i \in IncidentIds : dedupeKey[i] = tx[r].key => ~Locked(r, i)

KeyTaken(key) == \E i \in IncidentIds : dedupeKey[i] = key

Insert(r) ==
    /\ InsertReady(r)
    /\ ~KeyTaken(tx[r].key)
    /\ \E i \in IncidentIds :
        /\ Fresh(i)
        /\ tx' = [tx EXCEPT ![r] = [@ EXCEPT !.pc = "inserted", !.id = i]]
    /\ UNCHANGED <<gapLocks, rows, dedupeKey, unevaluated, acknowledged>>

InsertDuplicate(r) ==
    /\ InsertReady(r)
    /\ KeyTaken(tx[r].key)
    /\ Goto(r, "lookup")
    /\ UNCHANGED <<gapLocks, rows, dedupeKey, unevaluated, acknowledged>>

\* Two inserters hold the gap the other needs; the server rolls one back.
InsertDeadlock(r) ==
    /\ gapLocks
    /\ tx[r].pc = "insert"
    /\ GapHeld(r, tx[r].key)
    /\ Goto(r, "lookupAlone")
    /\ UNCHANGED <<gapLocks, rows, dedupeKey, unevaluated, acknowledged>>

CommitInsert(r) ==
    LET t == tx[r] IN
    /\ t.pc = "inserted"
    /\ rows' = [rows EXCEPT ![t.id] = Opened(t.key, t.severity, t.signal)]
    /\ dedupeKey' = [dedupeKey EXCEPT ![t.id] = t.key]
    /\ acknowledged' = [acknowledged EXCEPT ![t.id] = @ + 1]
    /\ Finish(r)
    /\ UNCHANGED <<gapLocks, unevaluated>>

\* Mutant of LookupByKey: the row that is there is taken for this occurrence.
LookupTakenForReplay(r) ==
    /\ tx[r].pc \in {"lookup", "lookupAlone"}
    /\ ~Inserting(r, tx[r].key)
    /\ acknowledged' = [i \in IncidentIds |->
                          acknowledged[i] + (IF dedupeKey[i] = tx[r].key THEN 1 ELSE 0)]
    /\ Finish(r)
    /\ UNCHANGED <<gapLocks, rows, dedupeKey, unevaluated>>

\* Mutant of LookupByKey: it looks again until the key appears.
LookupUntilFound(r) ==
    /\ tx[r].pc \in {"lookup", "lookupAlone"}
    /\ ~Inserting(r, tx[r].key)
    /\ \E i \in IncidentIds :
        /\ dedupeKey[i] = tx[r].key
        /\ ~Locked(r, i)
        /\ tx' = [tx EXCEPT ![r] =
                    [@ EXCEPT !.pc  = IF tx[r].pc = "lookup" THEN "update" ELSE "updateAlone",
                              !.id  = i,
                              !.row = rows[i]]]
    /\ UNCHANGED <<gapLocks, rows, dedupeKey, unevaluated, acknowledged>>

\* findIncidentByDedupeKey after a failed INSERT.  No such row: the INSERT's
\* error is returned.
LookupByKey(r) ==
    /\ tx[r].pc \in {"lookup", "lookupAlone"}
    /\ ~Inserting(r, tx[r].key)
    /\ \/ /\ ~KeyTaken(tx[r].key)
          /\ Finish(r)
       \/ \E i \in IncidentIds :
            /\ dedupeKey[i] = tx[r].key
            /\ ~Locked(r, i)
            /\ tx' = [tx EXCEPT ![r] =
                        [@ EXCEPT !.pc  = IF tx[r].pc = "lookup" THEN "update" ELSE "updateAlone",
                                  !.id  = i,
                                  !.row = rows[i]]]
    /\ UNCHANGED <<gapLocks, rows, dedupeKey, unevaluated, acknowledged>>

\* The same UPDATE outside a transaction: the row was not kept locked.
UpdateAlone(r) ==
    /\ tx[r].pc = "updateAlone"
    /\ ~Locked(r, tx[r].id)
    /\ WriteOccurrence(r)
    /\ acknowledged' = [acknowledged EXCEPT ![tx[r].id] = @ + 1]
    /\ Finish(r)
    /\ UNCHANGED <<gapLocks, dedupeKey, unevaluated>>

-----------------------------------------------------------------------------
(* UpdateIncidentStatus, ResolveActiveIncidents, UpdateIncidentDiagnostic.   *)

\* Mutant of FindStatus: any status may follow any other.
FindStatusUnchecked(r) ==
    LET i == tx[r].id IN
    /\ tx[r].pc = "findStatus"
    /\ ~Locked(r, i)
    /\ IF rows[i] = Absent \/ rows[i].status = tx[r].status
       THEN Finish(r)
       ELSE Goto(r, "writeStatus")
    /\ UNCHANGED <<gapLocks, rows, dedupeKey, unevaluated, acknowledged>>

\* findIncidentByID and the early returns; the deferred Rollback unlocks.
FindStatus(r) ==
    LET i == tx[r].id IN
    /\ tx[r].pc = "findStatus"
    /\ ~Locked(r, i)
    /\ IF \/ rows[i] = Absent
          \/ rows[i].status = tx[r].status
          \/ ~CanTransition(rows[i].status, tx[r].status)
       THEN Finish(r)
       ELSE Goto(r, "writeStatus")
    /\ UNCHANGED <<gapLocks, rows, dedupeKey, unevaluated, acknowledged>>

\* Mutant of WriteStatus: a terminal row keeps its dedupe_key.
WriteStatusKeepingKey(r) ==
    LET t == tx[r] IN
    /\ t.pc = "writeStatus"
    /\ rows' = [rows EXCEPT ![t.id] = WithStatus(@, t.status)]
    /\ Finish(r)
    /\ UNCHANGED <<gapLocks, dedupeKey, unevaluated, acknowledged>>

WriteStatus(r) ==
    LET t == tx[r] IN
    /\ t.pc = "writeStatus"
    /\ rows' = [rows EXCEPT ![t.id] = WithStatus(@, t.status)]
    /\ dedupeKey' = [dedupeKey EXCEPT
                        ![t.id] = IF t.status \in TerminalStatuses THEN NoKey ELSE @]
    /\ Finish(r)
    /\ UNCHANGED <<gapLocks, unevaluated, acknowledged>>

FindResolve(r) ==
    /\ tx[r].pc = "findResolve"
    /\ ~Inserting(r, tx[r].key)
    /\ \A i \in OpenRows(tx[r].key) : ~Locked(r, i)
    /\ \/ /\ OpenRows(tx[r].key) = {}
          /\ Finish(r)
       \/ \E i \in OpenRows(tx[r].key) :
            tx' = [tx EXCEPT ![r] = [@ EXCEPT !.pc = "writeResolve", !.id = i]]
    /\ UNCHANGED <<gapLocks, rows, dedupeKey, unevaluated, acknowledged>>

WriteResolve(r) ==
    LET t == tx[r] IN
    /\ t.pc = "writeResolve"
    /\ rows' = [rows EXCEPT ![t.id] = Recovered(@, t.signal)]
    /\ dedupeKey' = [dedupeKey EXCEPT ![t.id] = NoKey]
    /\ Finish(r)
    /\ UNCHANGED <<gapLocks, unevaluated, acknowledged>>

\* GetIncident of a rerun: a plain read of the committed row.
ReadForRerun(r) ==
    LET i == tx[r].id IN
    /\ tx[r].pc = "read"
    /\ IF rows[i] = Absent
       THEN Finish(r)
       ELSE tx' = [tx EXCEPT ![r] = [@ EXCEPT !.pc = "writeReport",
                                           !.signal = rows[i].signal]]
    /\ UNCHANGED <<gapLocks, rows, dedupeKey, unevaluated, acknowledged>>

\* Mutant of WriteReport: the WHERE clause has no signal_id.
WriteReportBlindly(r) ==
    LET t == tx[r] IN
    /\ t.pc = "writeReport"
    /\ ~Locked(r, t.id)
    /\ rows' = [rows EXCEPT ![t.id].report = t.signal]
    /\ Finish(r)
    /\ UNCHANGED <<gapLocks, dedupeKey, unevaluated, acknowledged>>

\* UPDATE ... SET diagnostic_report WHERE id AND signal_id.
WriteReport(r) ==
    LET t == tx[r] IN
    /\ t.pc = "writeReport"
    /\ ~Locked(r, t.id)
    /\ rows' = IF rows[t.id].signal = t.signal
               THEN [rows EXCEPT ![t.id].report = t.signal]
               ELSE rows
    /\ Finish(r)
    /\ UNCHANGED <<gapLocks, dedupeKey, unevaluated, acknowledged>>

\* A statement fails, the request is cancelled or the process dies before
\* COMMIT: the transaction is rolled back.
Abort(r) ==
    /\ tx[r].pc # "idle"
    /\ Finish(r)
    /\ UNCHANGED <<gapLocks, rows, dedupeKey, unevaluated, acknowledged>>

-----------------------------------------------------------------------------

Step(r) ==
    \/ FindActive(r) \/ CommitOccurrence(r)
    \/ Insert(r) \/ InsertDuplicate(r) \/ InsertDeadlock(r) \/ CommitInsert(r)
    \/ LookupByKey(r) \/ UpdateAlone(r)
    \/ FindStatus(r) \/ WriteStatus(r)
    \/ FindResolve(r) \/ WriteResolve(r)
    \/ ReadForRerun(r) \/ WriteReport(r)

Start(r) ==
    \/ \E k \in Keys, n \in SignalIds :
        \/ \E s \in Severities : StartUpsert(r, k, s, n)
        \/ StartResolve(r, k, n)
    \/ \E i \in IncidentIds :
        \/ \E st \in NewStatuses : StartStatus(r, i, st)
        \/ StartRerun(r, i)

Next == \E r \in Requests : Start(r) \/ Step(r) \/ Abort(r)

Spec == Init /\ [][Next]_vars

\* The handler goes on to its next statement, and InnoDB grants a lock to its
\* waiters in the order they came: a statement that can run again and again
\* is not passed over for ever by newer requests.
FairSpec == Spec /\ \A r \in Requests : SF_vars(Step(r))

-----------------------------------------------------------------------------

\* "An incident dedupe key is unique only while the incident is active":
\* however upserts, recoveries and status updates interleave, two committed
\* rows of one (rule, service, stream) are never active together.
OneActivePerKey ==
    \A i, j \in IncidentIds :
        /\ IsActive(rows[i])
        /\ IsActive(rows[j])
        /\ rows[i].key = rows[j].key
        => i = j

\* A row carries its dedupe_key exactly while it is active.  A terminal row
\* that kept it would make every later INSERT of the key converge on a closed
\* incident; an active row that lost it would allow a second one.
KeyIffActive ==
    \A i \in IncidentIds :
        dedupeKey[i] = IF IsActive(rows[i]) THEN rows[i].key ELSE NoKey

\* "Terminal incidents cannot be reopened by a stale status update", nor by a
\* late upsert, recovery or rerun: the status and the provenance of the
\* resolution are final.
TerminalIsFinal ==
    [][\A i \in IncidentIds :
         IsTerminal(rows[i]) => /\ rows'[i].status     = rows[i].status
                                /\ rows'[i].resolvedBy = rows[i].resolvedBy
                                /\ rows'[i].reason     = rows[i].reason]_vars

\* The stored report always explains the stored signal, although a rerun
\* reads the row and writes its report in two separate statements and an
\* upsert may commit in between.
ReportMatchesSignal ==
    \A i \in IncidentIds : rows[i].report = rows[i].signal

\* "A matching failure increments its occurrence count": every occurrence
\* UpsertIncident reported to the ingest handler is in the row's count.
EveryOccurrenceCounted ==
    \A i \in IncidentIds : rows[i].count >= acknowledged[i]

\* Without gap locks it holds, whatever requests raced for the key.
OccurrencesCounted == ~gapLocks => EveryOccurrenceCounted

\* Every committed transaction is one step of the incident lifecycle.
Lifecycle == INSTANCE IncidentLifecycle WITH incidents <- rows
ImplementsLifecycle == Lifecycle!Spec

\* No request waits for ever: locks are released on every path, the early
\* returns that rely on the deferred Rollback included, and two inserters of
\* one key are not left waiting for each other.
EveryRequestReturns ==
    \A r \in Requests : tx[r].pc # "idle" ~> tx[r].pc = "idle"

=============================================================================
