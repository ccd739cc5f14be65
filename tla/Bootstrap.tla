------------------------------ MODULE Bootstrap ------------------------------
(***************************************************************************)
(* The life of the process: main checks the identity, opens and migrates   *)
(* the database, and only then serves and registers.  Whatever goes wrong  *)
(* before that ends it (log.Fatalf), and systemd starts it again; the      *)
(* database keeps what an earlier process did to it.                       *)
(***************************************************************************)
EXTENDS NodeIdentity, SchemaMigrations

bootVars == <<vars, schemaVars>>

BootInit == Init /\ SchemaInit

\* A step of the identity part; a process that ends drops its connection.
NodeStep(A) ==
    /\ A
    /\ at' = IF phase' = "setup" THEN at ELSE Closed
    /\ UNCHANGED <<db, before>>

\* A step of the migrations; only main takes them.
Migrating ==
    /\ phase = "setup"
    /\ BeginMigrations \/ LookUp \/ RunStatement \/ RecordMigration
    /\ UNCHANGED vars

\* A statement was refused: the migrations return its error, and main ends ...
SetupRefused ==
    /\ phase = "setup"
    /\ StatementRefused
    /\ Exit
    /\ UNCHANGED <<file, changes, known, beating>>

\* ... or openDatabaseWithRetry gave up, or the connection or the deadline was
\* lost on the way, which counts as a change.
SetupFails ==
    /\ phase = "setup"
    /\ changes < MaxChanges
    /\ changes' = changes + 1
    /\ \/ at = Closed /\ UNCHANGED schemaVars
       \/ \E tookEffect \in BOOLEAN : StatementFails(tookEffect) \/ RecordFails(tookEffect)
    /\ Exit
    /\ UNCHANGED <<file, known, beating>>

\* Mutant of ServeMigrated: the server starts beside the migrations.
ServeAtOnce == phase = "setup" /\ at # Closed /\ NodeStep(Serve)

ServeMigrated == MigrationsDone /\ NodeStep(Serve)

Boot == Migrating \/ SetupRefused \/ ServeMigrated

BootNext ==
    \/ NodeStep(Environment)
    \/ NodeStep(Start)
    \/ NodeStep(Loop)
    \/ NodeStep(HandlerStep)
    \/ Boot
    \/ SetupFails

\* systemd restarts the service, main and the loop go on, and the Control Panel
\* does not refuse for ever.
BootSpec ==
    /\ BootInit
    /\ [][BootNext]_bootVars
    /\ WF_bootVars(NodeStep(Start))
    /\ WF_bootVars(NodeStep(Loop) \/ Boot)
    /\ SF_bootVars(NodeStep(RegisterOk))

-----------------------------------------------------------------------------

\* The server answers requests only on a complete schema, over any crashes,
\* repeated statements and records that were lost: every part is there, and the
\* rows that are active carry their keys, one row per key, as the store's
\* upserts rely on.
ServesMigrated ==
    phase = "loop" =>
        /\ db.schema = AllParts
        /\ db.recorded = Migrations
        /\ db.keyed = db.active
        /\ Unique(db.active)

\* "Keep the newest active row and close older duplicates": no run of 005, cut
\* off anywhere and repeated, loses what was active.  Each key that had an active
\* incident at first still has one, updated no earlier than any it had.
NewestSurvives ==
    \A r \in before :
        \E s \in db.active : RowKey[s] = RowKey[r] /\ RowUpdated[s] >= RowUpdated[r]

\* 004 was carried out and not recorded: its ALTER is refused ever after.
StuckAt004 == EmailColumns \subseteq db.schema /\ 4 \notin db.recorded

\* "so an existing production database can always converge": once nothing fails
\* and the file stays, the process gets through its boot from whatever was left
\* behind and registers under the id the file names, whatever it was bound to
\* before.  The one exception is a cut between 004 and its record.
EventuallyRegistered ==
    (changes = MaxChanges /\ file \in Ids) ~> (registered = file \/ StuckAt004)

=============================================================================
