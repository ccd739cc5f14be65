-------------------------- MODULE SchemaMigrations --------------------------
(***************************************************************************)
(* RunEmbeddedMigrations.  A migration is the statements of its file, one  *)
(* after the other, and then its record in schema_migrations; there is no  *)
(* transaction around them.  MariaDB is external: a statement takes effect *)
(* as a whole, is refused (the column exists, a key is not unique), or     *)
(* fails because the connection or the 30 s deadline is lost, and then the *)
(* server may have carried it out all the same.                            *)
(*                                                                         *)
(* The schema is the set of its parts that differ between the versions a   *)
(* database can have.  Of the data only the incidents matter: 005 closes   *)
(* duplicates and fills the column the unique index is on.                 *)
(***************************************************************************)
EXTENDS Naturals, Sequences, FiniteSets

CONSTANTS
    Rows,        \* incidents, as numbers in the order of their ids
    RowKey,      \* rule, service and stream of each
    RowUpdated   \* updated_at of each

ASSUME RowsAssumption ==
    /\ Rows \subseteq Nat /\ IsFiniteSet(Rows)
    /\ DOMAIN RowKey = Rows
    /\ RowUpdated \in [Rows -> Nat]

VARIABLES
    db,      \* schema, incidents and records
    at,      \* the migration and the statement this process is at
    before   \* history: the incidents that were active at first

schemaVars == <<db, at, before>>

BaseTables == {"signals", "incidents", "notification_deliveries", "remediation_actions"}

\* Parts of the schema besides the tables.
Lifecycle == {"lifecycle columns", "dedupe_key"}
UniqueKey == {"uq_incidents_active_dedupe"}
HistoryIndexes == {"metric series index", "history index"}
Suppressed == {"suppressed status"}
EmailColumns == {"email columns"}

AllParts == BaseTables \cup Lifecycle \cup UniqueKey \cup HistoryIndexes \cup Suppressed
              \cup EmailColumns \cup {"notification_channels", "rate_limit_buckets"}

\* What a CREATE TABLE of 001 brings along when the table is new.
With(table) ==
    {table} \cup CASE table = "signals" -> {"metric series index"}
                   [] table = "incidents" -> Lifecycle \cup UniqueKey \cup {"history index"}
                   [] table = "notification_deliveries" -> Suppressed
                   [] OTHER -> {}

\* The statements of the embedded files, in order.
Statements ==
    << <<"create signals", "create incidents", "create deliveries", "create actions">>,
       <<"create channels">>,
       <<"create buckets">>,
       <<"add email columns">>,
       <<"add lifecycle columns", "clear keys", "consolidate", "set keys", "create unique index">>,
       <<"create series index", "create history index">>,
       <<"modify delivery status">> >>

Migrations == DOMAIN Statements

-----------------------------------------------------------------------------
(* What a statement does.                                                    *)

\* Mutant of Newer: an equal updated_at counts as newer.
NewerOrEqual(r, s) == r # s /\ RowKey[r] = RowKey[s] /\ RowUpdated[r] >= RowUpdated[s]

\* The join of 005: an incident of the same key, updated later, or at the same
\* time and with the greater id.
Newer(r, s) ==
    /\ RowKey[r] = RowKey[s]
    /\ RowUpdated[r] > RowUpdated[s] \/ (RowUpdated[r] = RowUpdated[s] /\ r > s)

Newest(rows) == {r \in rows : \A s \in rows : ~Newer(s, r)}

Unique(rows) == \A r, s \in rows : RowKey[r] = RowKey[s] => r = s

Adding(d, parts) == [d EXCEPT !.schema = @ \cup parts]

CreateTable(d, table) == IF table \in d.schema THEN d ELSE Adding(d, With(table))

Effect(statement, d) ==
    CASE statement = "create signals"         -> CreateTable(d, "signals")
      [] statement = "create incidents"       -> CreateTable(d, "incidents")
      [] statement = "create deliveries"      -> CreateTable(d, "notification_deliveries")
      [] statement = "create actions"         -> CreateTable(d, "remediation_actions")
      [] statement = "create channels"        -> CreateTable(d, "notification_channels")
      [] statement = "create buckets"         -> CreateTable(d, "rate_limit_buckets")
      [] statement = "add email columns"      -> Adding(d, EmailColumns)
      [] statement = "add lifecycle columns"  -> Adding(d, Lifecycle)
      [] statement = "clear keys"             -> [d EXCEPT !.keyed = {}]
      [] statement = "consolidate"            -> [d EXCEPT !.active = Newest(d.active),
                                                           !.keyed = @ \cap Newest(d.active)]
      [] statement = "set keys"               -> [d EXCEPT !.keyed = d.active]
      [] statement = "create unique index"    -> Adding(d, UniqueKey)
      [] statement = "create series index"    -> Adding(d, {"metric series index"})
      [] statement = "create history index"   -> Adding(d, {"history index"})
      [] statement = "modify delivery status" -> Adding(d, Suppressed)

\* 004 adds its columns without IF NOT EXISTS; the unique index refuses a
\* second row of a key.
Refused(statement, d) ==
    \/ statement = "add email columns" /\ EmailColumns \subseteq d.schema
    \/ statement = "set keys" /\ UniqueKey \subseteq d.schema /\ ~Unique(d.active)
    \/ statement = "create unique index" /\ ~Unique(d.keyed)

-----------------------------------------------------------------------------
(* RunEmbeddedMigrations, for a process that is at <<migration, statement>>. *)

Closed == <<0, 0>>

\* schema_migrations exists; the loop begins.
BeginMigrations ==
    /\ at = Closed
    /\ at' = <<1, 0>>
    /\ UNCHANGED <<db, before>>

AtMigration(m) == m \in Migrations /\ at[1] = m

\* SELECT id FROM schema_migrations.
LookUp ==
    /\ AtMigration(at[1])
    /\ at[2] = 0
    /\ at' = IF at[1] \in db.recorded THEN <<at[1] + 1, 0>> ELSE <<at[1], 1>>
    /\ UNCHANGED <<db, before>>

AtStatement == AtMigration(at[1]) /\ at[2] \in DOMAIN Statements[at[1]]

RunStatement ==
    /\ AtStatement
    /\ ~Refused(Statements[at[1]][at[2]], db)
    /\ db' = Effect(Statements[at[1]][at[2]], db)
    /\ at' = <<at[1], at[2] + 1>>
    /\ UNCHANGED before

\* The statement is an error in this database.
StatementRefused ==
    /\ AtStatement
    /\ Refused(Statements[at[1]][at[2]], db)
    /\ at' = Closed
    /\ UNCHANGED <<db, before>>

\* No answer: the statement may have been carried out.
StatementFails(tookEffect) ==
    LET statement == Statements[at[1]][at[2]] IN
    /\ AtStatement
    /\ ~Refused(statement, db)
    /\ db' = IF tookEffect THEN Effect(statement, db) ELSE db
    /\ at' = Closed
    /\ UNCHANGED before

AtRecord == AtMigration(at[1]) /\ at[2] = Len(Statements[at[1]]) + 1

RecordMigration ==
    /\ AtRecord
    /\ db' = [db EXCEPT !.recorded = @ \cup {at[1]}]
    /\ at' = <<at[1] + 1, 0>>
    /\ UNCHANGED before

RecordFails(tookEffect) ==
    /\ AtRecord
    /\ db' = IF tookEffect THEN [db EXCEPT !.recorded = @ \cup {at[1]}] ELSE db
    /\ at' = Closed
    /\ UNCHANGED before

MigrationsDone == at[1] = Len(Statements) + 1

-----------------------------------------------------------------------------
(* Databases the service may find.                                           *)

\* Nothing; the tables of migrations/001_init.sql, made by hand or by a build
\* before 005, with 0 to 4 migrations recorded; and with the dedupe key of
\* migrations/002_incident_dedupe.sql.
Older(n, parts, keyed, rows) ==
    [schema   |-> BaseTables \cup parts
                    \cup (IF n >= 2 THEN {"notification_channels"} ELSE {})
                    \cup (IF n >= 3 THEN {"rate_limit_buckets"} ELSE {})
                    \cup (IF n >= 4 THEN EmailColumns ELSE {}),
     active   |-> rows,
     keyed    |-> keyed,
     recorded |-> 1 .. n]

SchemaInit ==
    /\ at = Closed
    /\ \/ db = [schema |-> {}, active |-> {}, keyed |-> {}, recorded |-> {}]
       \/ \E n \in {0, 4}, rows \in SUBSET Rows : db = Older(n, {}, {}, rows)
       \/ \E rows \in {rows \in SUBSET Rows : Unique(rows)} :
            db = Older(0, {"dedupe_key"} \cup UniqueKey, rows, rows)
    /\ before = db.active

=============================================================================
