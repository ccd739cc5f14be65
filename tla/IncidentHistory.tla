--------------------------- MODULE IncidentHistory ---------------------------
(***************************************************************************)
(* ListIncidentHistory of both stores, and a client that pages through it  *)
(* with the (updated_at, id) of the last row it got, while incidents are   *)
(* opened and updated between its requests.  The rows are those with the   *)
(* status the client asks for; DATETIME keeps whole seconds, so updates of *)
(* one second are ordered by id alone.                                     *)
(***************************************************************************)
EXTENDS Naturals, FiniteSets

CONSTANTS
    HistoryIds,   \* ids, as numbers in their order
    HistoryTime,  \* bound on the clock
    PageLimits    \* limits clients ask for

ASSUME HistoryAssumption ==
    /\ HistoryIds \subseteq Nat \ {0}
    /\ IsFiniteSet(HistoryIds)
    /\ HistoryTime \in Nat \ {0}
    /\ PageLimits \subseteq Nat \ {0}

VARIABLES
    updatedAt,  \* of each row, 0 when there is no such row yet
    second,     \* the clock
    cursor,     \* the client's
    limit,
    pages,      \* "reading" or "done"
    seen,       \* how often each row was on a page
    touched     \* history: rows that were opened or updated since the first page

historyVars == <<updatedAt, second, cursor, limit, pages, seen, touched>>

\* parseHistoryCursor asks for both parts of a cursor or for neither.
NoCursor == [at |-> 0, id |-> 0]

Seconds == 1 .. HistoryTime

HistoryInit ==
    /\ second \in Seconds
    /\ updatedAt \in [HistoryIds -> 0 .. second]
    /\ cursor = NoCursor
    /\ limit \in PageLimits
    /\ pages = "reading"
    /\ seen = [i \in HistoryIds |-> 0]
    /\ touched = {}

-----------------------------------------------------------------------------
(* The query.                                                                *)

\* Mutant of Before: the cursor is compared by its time alone.
BeforeByTime(i) == cursor = NoCursor \/ updatedAt[i] < cursor.at

\* The WHERE clause.
Before(i) ==
    \/ cursor = NoCursor
    \/ updatedAt[i] < cursor.at
    \/ updatedAt[i] = cursor.at /\ i < cursor.id

\* ORDER BY updated_at DESC, id DESC.
Newer(i, j) == updatedAt[i] > updatedAt[j] \/ (updatedAt[i] = updatedAt[j] /\ i > j)

\* LIMIT: the rows that have fewer than limit matching rows before them.
Page ==
    LET matching == {i \in HistoryIds : updatedAt[i] # 0 /\ Before(i)}
    IN {i \in matching : Cardinality({j \in matching : Newer(j, i)}) < limit}

-----------------------------------------------------------------------------

\* listIncidents, and the client that takes the page's last row as its cursor
\* and stops at a page that is not full.
ListIncidentHistory ==
    /\ pages = "reading"
    /\ seen' = [i \in HistoryIds |-> IF i \in Page THEN seen[i] + 1 ELSE seen[i]]
    /\ \/ /\ Cardinality(Page) = limit
          /\ \E i \in Page :
               /\ \A j \in Page \ {i} : Newer(j, i)
               /\ cursor' = [at |-> updatedAt[i], id |-> i]
          /\ UNCHANGED pages
       \/ /\ Cardinality(Page) < limit
          /\ pages' = "done"
          /\ UNCHANGED cursor
    /\ UNCHANGED <<updatedAt, second, limit, touched>>

\* UpsertIncident and every other write set updated_at to the present.
Touch(i) ==
    /\ updatedAt' = [updatedAt EXCEPT ![i] = second]
    /\ touched' = touched \cup {i}
    /\ UNCHANGED <<second, cursor, limit, pages, seen>>

NextSecond ==
    /\ second < HistoryTime
    /\ second' = second + 1
    /\ UNCHANGED <<updatedAt, cursor, limit, pages, seen, touched>>

HistoryNext ==
    \/ ListIncidentHistory
    \/ \E i \in HistoryIds : Touch(i)
    \/ NextSecond

HistorySpec == HistoryInit /\ [][HistoryNext]_historyVars

-----------------------------------------------------------------------------

\* A client that pages through the history while incidents are opened and
\* updated between its requests has, when it is done, got every incident that
\* nobody touched exactly once, ties of updated_at included.
HistoryComplete ==
    \A i \in HistoryIds \ touched :
        /\ seen[i] <= 1
        /\ pages = "done" /\ updatedAt[i] # 0 => seen[i] = 1

=============================================================================
