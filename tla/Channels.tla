------------------------------- MODULE Channels -------------------------------
(***************************************************************************)
(* Notification channels in MariaDB: the administrator's requests that     *)
(* create, update and delete them, and the migration that moves channels   *)
(* with their own SMTP settings to the Control Panel's global SMTP and     *)
(* back (internal/store/v2migration).  An update reads the channel to      *)
(* validate the outcome, reads it again to merge the request into it, and  *)
(* writes every column of the outcome; anything may happen in between.     *)
(* Run and Restore are one serializable transaction each.                  *)
(*                                                                         *)
(* The SMTP settings are a host and a sender; port, TLS and credentials    *)
(* are copied, cleared and compared with them.  Names and filters are left *)
(* out, and so are the checks of an address's or a URL's form.             *)
(***************************************************************************)
EXTENDS Naturals, FiniteSets

CONSTANTS
    Ids,        \* channel ids
    Requests,   \* concurrent update requests
    Bodies,     \* bodies of create and update requests
    MaxValue    \* hosts and senders are 1 .. MaxValue, 0 is none

SMTP == [host : 0 .. MaxValue, from : 0 .. MaxValue]
NoSMTP == [host |-> 0, from |-> 0]

Channel == [type : {"email", "webhook"}, url : BOOLEAN, recipients : BOOLEAN, smtp : SMTP]

\* A body names a type or none, has a URL or none, recipients (some, an empty
\* list or no list), the uses_global_smtp flag and SMTP settings.
Body == [type : {"", "email", "webhook"}, url : BOOLEAN,
         recipients : {"kept", "none", "some"}, global : {"unset", "true", "false"},
         smtp : SMTP]

ASSUME ChannelsAssumption ==
    /\ MaxValue \in Nat
    /\ Bodies \subseteq Body
    /\ IsFiniteSet(Ids)

Unused == [type |-> "unused"]
Gone == [type |-> "gone"]
NoBackup == [host |-> 0]

VARIABLES
    db,      \* channels, backups of the migration, references to global SMTP
    tx,      \* update requests
    given,   \* history: the SMTP settings written last before the first backup
    since    \* history: channels written by a request since they were backed up

vars == <<db, tx, given, since>>

Exists(d, c) == d.channels[c].type \in {"email", "webhook"}
BackedUp(d) == {c \in Ids : d.backup[c] # NoBackup}

Idle == [pc |-> "idle"]

TypeOK ==
    /\ db.channels \in [Ids -> Channel \cup {Unused, Gone}]
    /\ db.backup \in [Ids -> SMTP \cup {NoBackup}]
    /\ db.refs \subseteq Ids
    /\ tx \in [Requests -> {Idle} \cup [pc : {"merge"}, id : Ids, body : Body]
                            \cup [pc : {"write"}, id : Ids, row : Channel]]
    /\ given \in [Ids -> SMTP]
    /\ since \subseteq Ids

Init ==
    /\ db = [channels |-> [c \in Ids |-> Unused], backup |-> [c \in Ids |-> NoBackup],
             refs |-> {}]
    /\ tx = [r \in Requests |-> Idle]
    /\ given = [c \in Ids |-> NoSMTP]
    /\ since = {}

-----------------------------------------------------------------------------

\* Global SMTP together with settings of its own is refused at once.
Contradicts(b) == b.global = "true" /\ b.smtp # NoSMTP

\* What a stored channel is read as: e-mail without settings is global.
UsesGlobalSMTP(c) == c.type = "email" /\ c.smtp = NoSMTP

ValidNotificationChannelConfig(c, global) ==
    IF c.type = "email"
    THEN c.recipients /\ (global \/ (c.smtp.host # 0 /\ c.smtp.from # 0))
    ELSE ~global /\ c.url

\* Settings that a channel is to use name a host.
ValidateSMTPChannel(c, global) ==
    c.type = "email" => c.recipients /\ (global \/ c.smtp = NoSMTP \/ c.smtp.host # 0)

\* The request's fields over the channel's: an absent field keeps the old one,
\* and choosing global SMTP clears the channel's settings.
EffectiveNotificationChannel(c, b) ==
    LET smtp == IF b.global = "true" THEN NoSMTP ELSE c.smtp
        Over(new, old) == IF new # 0 THEN new ELSE old
    IN [type |-> IF b.type = "" THEN c.type ELSE b.type,
        url |-> c.url \/ b.url,
        recipients |-> IF b.recipients = "kept" THEN c.recipients ELSE b.recipients = "some",
        smtp |-> [host |-> Over(b.smtp.host, smtp.host), from |-> Over(b.smtp.from, smtp.from)]]

\* The columns written: an e-mail channel's URL is not.
Columns(c) == [c EXCEPT !.url = c.url /\ c.type # "email"]

\* createNotificationChannel and the insert.
Create(c, b) ==
    LET blank == [type |-> "webhook", url |-> FALSE, recipients |-> FALSE, smtp |-> NoSMTP]
        new == EffectiveNotificationChannel(blank, b)
        global == IF b.global = "unset" THEN b.type = "email" /\ b.smtp = NoSMTP
                                        ELSE b.global = "true"
    IN
    /\ db.channels[c] = Unused
    /\ ~Contradicts(b)
    /\ ValidNotificationChannelConfig(new, global)
    /\ ValidateSMTPChannel(new, global)
    /\ db' = [db EXCEPT !.channels[c] = Columns(new)]
    /\ given' = [given EXCEPT ![c] = new.smtp]
    /\ UNCHANGED <<tx, since>>

\* Mutant of Validate: the URL that was validated is not handed to the store.
ValidateOnly(r, c, b) ==
    LET old == db.channels[c]
        new == EffectiveNotificationChannel(old, b)
        global == IF b.global = "unset" THEN UsesGlobalSMTP(old) ELSE b.global = "true"
    IN
    /\ tx[r].pc = "idle"
    /\ ~Contradicts(b)
    /\ Exists(db, c)
    /\ ValidNotificationChannelConfig(new, global)
    /\ ValidateSMTPChannel(new, global)
    /\ tx' = [tx EXCEPT ![r] = [pc |-> "merge", id |-> c, body |-> b]]
    /\ UNCHANGED <<db, given, since>>

\* updateNotificationChannel validates what the request would make of the
\* channel, and hands the store the request with the URL it validated.
Validate(r, c, b) ==
    LET old == db.channels[c]
        new == EffectiveNotificationChannel(old, b)
        global == IF b.global = "unset" THEN UsesGlobalSMTP(old) ELSE b.global = "true"
    IN
    /\ tx[r].pc = "idle"
    /\ ~Contradicts(b)
    /\ Exists(db, c)
    /\ ValidNotificationChannelConfig(new, global)
    /\ ValidateSMTPChannel(new, global)
    /\ tx' = [tx EXCEPT ![r] = [pc |-> "merge", id |-> c,
                                body |-> [b EXCEPT !.url = b.url \/ new.type = "webhook"]]]
    /\ UNCHANGED <<db, given, since>>

\* UpdateNotificationChannel reads the channel again and merges the request.
Merge(r) ==
    LET c == tx[r].id IN
    /\ tx[r].pc = "merge"
    /\ \/ /\ Exists(db, c)
          /\ tx' = [tx EXCEPT ![r] =
                      [pc |-> "write", id |-> c,
                       row |-> Columns(EffectiveNotificationChannel(db.channels[c], tx[r].body))]]
       \/ ~Exists(db, c) /\ tx' = [tx EXCEPT ![r] = Idle]
    /\ UNCHANGED <<db, given, since>>

\* The UPDATE of all columns; it finds no row if the channel was deleted.
Write(r) ==
    LET c == tx[r].id IN
    /\ tx[r].pc = "write"
    /\ tx' = [tx EXCEPT ![r] = Idle]
    /\ \/ /\ Exists(db, c)
          /\ db' = [db EXCEPT !.channels[c] = tx[r].row]
          /\ IF c \in BackedUp(db)
             THEN since' = since \cup {c} /\ UNCHANGED given
             ELSE given' = [given EXCEPT ![c] = tx[r].row.smtp] /\ UNCHANGED since
       \/ ~Exists(db, c) /\ UNCHANGED <<db, given, since>>

\* Mutant of Delete: the backup's foreign key does not restrict.
DeleteAnyway(c) ==
    /\ Exists(db, c)
    /\ db' = [db EXCEPT !.channels[c] = Gone, !.refs = @ \ {c}]
    /\ UNCHANGED <<tx, given, since>>

\* The foreign keys: a channel that was backed up cannot be deleted, and its
\* reference goes with it.
Delete(c) ==
    /\ Exists(db, c)
    /\ c \notin BackedUp(db)
    /\ db' = [db EXCEPT !.channels[c] = Gone, !.refs = @ \ {c}]
    /\ UNCHANGED <<tx, given, since>>

-----------------------------------------------------------------------------
\* The migration.

Direct(d) == {c \in Ids : Exists(d, c) /\ d.channels[c].type = "email"
                                       /\ d.channels[c].smtp # NoSMTP}

\* Mutant of Cohort: only what the migration has seen is counted.
CohortBackedUp(d) == BackedUp(d)

Cohort(d) == Direct(d) \cup BackedUp(d)

\* Backed-up channels that have moved; the others are orphans.
Moved(d) == {c \in BackedUp(d) : Exists(d, c) /\ c \in d.refs /\ d.channels[c].smtp = NoSMTP}
Orphans(d) == BackedUp(d) \ Moved(d)

\* Mutant of Migrated: a second run backs up again.
MigratedAfresh(d) ==
    LET backup == [c \in Ids |-> IF c \in Cohort(d) THEN d.channels[c].smtp ELSE NoBackup]
        refs == d.refs \cup Cohort(d)
    IN [channels |-> [c \in Ids |-> IF c \in Cohort(d)
                                    THEN [d.channels[c] EXCEPT !.smtp = NoSMTP] ELSE d.channels[c]],
        backup |-> backup, refs |-> refs]

\* backupSQL (INSERT IGNORE: a backup stays as it is), referenceSQL and
\* transformSQL, which is an inner join with the channels.
Migrated(d) ==
    LET backup == [c \in Ids |-> IF c \in Direct(d) \ BackedUp(d)
                                 THEN d.channels[c].smtp ELSE d.backup[c]]
        cohort == {c \in Ids : backup[c] # NoBackup}
        refs == d.refs \cup {c \in cohort : Exists(d, c)}
    IN [channels |-> [c \in Ids |-> IF c \in cohort \cap refs
                                    THEN [d.channels[c] EXCEPT !.smtp = NoSMTP] ELSE d.channels[c]],
        backup |-> backup, refs |-> refs]

\* restoreSQL and the removal of the references.
Restored(d) ==
    [d EXCEPT !.channels = [c \in Ids |-> IF c \in BackedUp(d) /\ Exists(d, c)
                                          THEN [d.channels[c] EXCEPT !.smtp = d.backup[c]]
                                          ELSE d.channels[c]],
              !.refs = {}]

\* The counts Run compares before it commits.
RunCountsMatch(d) ==
    LET pre == Cardinality(Cohort(d))
        after == Migrated(d)
    IN /\ Cardinality(BackedUp(after)) = pre
       /\ Cardinality(Moved(after)) = pre
       /\ Orphans(after) = {}

\* The fingerprints Restore compares before it commits.
RestoreCountsMatch(d) ==
    LET after == Restored(d) IN
    Cardinality({c \in BackedUp(after) : Exists(after, c)
                                         /\ after.channels[c].smtp = after.backup[c]})
        = Cardinality(BackedUp(d))

\* What Verify compares, when nothing is written between its queries.
Verified(d) ==
    LET pre == Cardinality(Cohort(d)) IN
    /\ pre = Cardinality(BackedUp(d))
    /\ pre = Cardinality(Moved(d))
    /\ Orphans(d) = {}

Run ==
    /\ RunCountsMatch(db)
    /\ db' = Migrated(db)
    /\ UNCHANGED <<tx, given, since>>

Restore ==
    /\ RestoreCountsMatch(db)
    /\ db' = Restored(db)
    /\ UNCHANGED <<tx, given, since>>

Next ==
    \/ \E c \in Ids : Delete(c) \/ \E b \in Bodies : Create(c, b)
    \/ \E r \in Requests : \/ \E c \in Ids, b \in Bodies : Validate(r, c, b)
                           \/ Merge(r)
                           \/ Write(r)
    \/ Run
    \/ Restore

Spec == Init /\ [][Next]_vars

-----------------------------------------------------------------------------

\* However updates race, a stored webhook channel has a URL: what
\* updateNotificationChannel validated against a channel that has changed
\* since is still right, because the request carries the validated URL.
WebhookHasURL ==
    \A c \in Ids : Exists(db, c) /\ db.channels[c].type = "webhook" => db.channels[c].url

\* After any requests, runs and restores, another Run and another Restore get
\* past their own comparisons of counts and fingerprints.
MigrationNeverStuck == RunCountsMatch(db) /\ RestoreCountsMatch(db)

\* A Verify that passes has told the truth: every e-mail channel uses the
\* global SMTP settings, those included that were made or changed by requests
\* after the migration.
VerifyIsSound ==
    Verified(db) => \A c \in Ids : Exists(db, c) /\ db.channels[c].type = "email"
                                   => UsesGlobalSMTP(db.channels[c])

\* The migration is additive: through any number of runs and restores, and
\* whatever requests do, the settings a channel had when it was first migrated
\* stay in its backup; and unless a request has written it since, it has them
\* itself or refers to the global ones.
RoundTrip ==
    \A c \in BackedUp(db) :
        /\ db.backup[c] = given[c]
        /\ c \notin since =>
            db.channels[c].smtp = IF c \in db.refs THEN NoSMTP ELSE given[c]

=============================================================================
