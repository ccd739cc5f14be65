--------------------------- MODULE MCIncidentStores ---------------------------
(***************************************************************************)
(* The server runs on one of two stores.  Both are checked against the one *)
(* incident lifecycle: the memory store of a development setup and of the  *)
(* tests, and the MariaDB store.  Their history query is the same, and is  *)
(* checked on a table of its own.                                          *)
(***************************************************************************)
EXTENDS MemoryIncidents, IncidentHistory, TLC

CONSTANTS
    MariaKeys,                      \* keys of the MariaDB store
    Requests, NewStatuses, GapLocks \* its other constants

VARIABLES
    store,        \* what is looked at: a store, or the history query
    gapLocks, rows, dedupeKey, tx, unapplied, acknowledged

Maria == INSTANCE MariaIncidents WITH Keys <- MariaKeys, unevaluated <- unapplied

mariaVars == <<gapLocks, rows, dedupeKey, tx, unapplied, acknowledged>>

StoresInit ==
    /\ Init
    /\ Maria!Init
    /\ \/ /\ store \in {"memory", "mariadb"}
          /\ limit = 0
          /\ updatedAt = <<>> /\ second = 0 /\ cursor = NoCursor /\ pages = "none"
          /\ seen = <<>> /\ touched = HistoryIds
       \/ /\ store = "history"
          /\ HistoryInit

StoresNext ==
    \/ /\ store = "memory"
       /\ Next
       /\ UNCHANGED <<store, mariaVars, historyVars>>
    \/ /\ store = "mariadb"
       /\ Maria!Next
       /\ UNCHANGED <<store, vars, historyVars>>
    \/ /\ store = "history"
       /\ HistoryNext
       /\ UNCHANGED <<store, vars, mariaVars>>

StoresSpec == StoresInit /\ [][StoresNext]_<<store, vars, mariaVars, historyVars>>

Symmetry == Permutations(IncidentIds) \cup Permutations(Keys) \cup Permutations(Requests)

\* Every operation of either store is one lifecycle step or leaves the rows
\* alone.
StoreLifecycle ==
    INSTANCE IncidentLifecycle
        WITH Keys <- Keys \cup MariaKeys,
             incidents <- IF store = "mariadb" THEN rows ELSE incidents
StoresImplementLifecycle == StoreLifecycle!Spec

=============================================================================
