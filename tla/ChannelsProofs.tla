---------------------------- MODULE ChannelsProofs ----------------------------
(***************************************************************************)
(* Proofs about notification channels and the SMTP migration, for any      *)
(* channels, requests and bodies.                                          *)
(*                                                                         *)
(* The invariant is stated channel by channel.  A request that is on its   *)
(* way carries a URL if it makes the channel a webhook; a channel that was *)
(* backed up exists, because the foreign key keeps it from being deleted;  *)
(* and a channel that was not has the settings it was given last.          *)
(***************************************************************************)
EXTENDS Channels, FiniteSetTheorems, TLAPS

Live(row) == row.type \in {"email", "webhook"}

Stored == Channel \cup {Unused, Gone}

\* What is true of a channel's row, its backup, its reference and its history.
RowInv(row, backup, referred, gave, wrote) ==
    /\ row \in Stored
    /\ backup \in SMTP \cup {NoBackup}
    /\ gave \in SMTP
    /\ Live(row) /\ row.type = "webhook" => row.url
    /\ backup = NoBackup /\ Live(row) => row.smtp = gave
    /\ backup # NoBackup =>
         /\ Live(row)
         /\ backup = gave
         /\ ~wrote => row.smtp = IF referred THEN NoSMTP ELSE gave

\* What is true of an update request.
TxInv(t) ==
    \/ t = Idle
    \/ /\ t \in [pc : {"merge"}, id : Ids, body : Body]
       /\ t.body.type = "webhook" => t.body.url
    \/ /\ t \in [pc : {"write"}, id : Ids, row : Channel]
       /\ t.row.type = "webhook" => t.row.url

Shape ==
    /\ db \in [channels : [Ids -> Stored], backup : [Ids -> SMTP \cup {NoBackup}],
               refs : SUBSET Ids]
    /\ tx \in [Requests -> {Idle} \cup [pc : {"merge"}, id : Ids, body : Body]
                            \cup [pc : {"write"}, id : Ids, row : Channel]]
    /\ given \in [Ids -> SMTP]
    /\ since \subseteq Ids

IInv ==
    /\ Shape
    /\ \A c \in Ids : RowInv(db.channels[c], db.backup[c], c \in db.refs, given[c], c \in since)
    /\ \A r \in Requests : TxInv(tx[r])

-----------------------------------------------------------------------------
(* What rows and settings are.                                               *)

\* SMTP settings are never mistaken for the absence of a backup.
LEMMA SettingsAreABackup == ASSUME NEW s \in SMTP PROVE s # NoBackup
<1>1. DOMAIN s = {"host", "from"}
  BY DEF SMTP
<1>2. DOMAIN NoBackup = {"host"}
  BY DEF NoBackup
<1> QED
  BY <1>1, <1>2

LEMMA NoSMTPType == NoSMTP \in SMTP
BY ChannelsAssumption DEF NoSMTP, SMTP

\* The rows that are live are the channels.
LEMMA LiveIsChannel == ASSUME NEW row \in Stored PROVE Live(row) <=> row \in Channel
BY DEF Stored, Live, Channel, Unused, Gone

\* What a request makes of a channel is a channel again, and a webhook has a
\* URL if it had one or the request brings it.
LEMMA EffectiveType ==
    ASSUME NEW c \in Channel, NEW b \in Body
    PROVE  LET new == EffectiveNotificationChannel(c, b)
           IN  /\ new \in Channel
               /\ Columns(new) \in Channel
               /\ Columns(new).smtp = new.smtp
               /\ Columns(new).type = new.type
               /\ new.type = "webhook" => (Columns(new).url <=> c.url \/ b.url)
               /\ new.type = IF b.type = "" THEN c.type ELSE b.type
               /\ new.url = (c.url \/ b.url)
<1> DEFINE new == EffectiveNotificationChannel(c, b)
<1>1. /\ c.type \in {"email", "webhook"} /\ c.url \in BOOLEAN /\ c.recipients \in BOOLEAN
      /\ c.smtp \in SMTP
  BY DEF Channel
<1>2. /\ b.type \in {"", "email", "webhook"} /\ b.url \in BOOLEAN /\ b.smtp \in SMTP
  BY DEF Body
<1>3. /\ new.type = IF b.type = "" THEN c.type ELSE b.type
      /\ new.url = (c.url \/ b.url)
      /\ new.recipients = IF b.recipients = "kept" THEN c.recipients ELSE b.recipients = "some"
  BY DEF EffectiveNotificationChannel
<1>4. new.smtp \in SMTP
  BY <1>1, <1>2, NoSMTPType DEF EffectiveNotificationChannel, SMTP
<1>5. new \in Channel
  <2>1. new = [type |-> new.type, url |-> new.url, recipients |-> new.recipients,
               smtp |-> new.smtp]
    BY DEF EffectiveNotificationChannel
  <2>2. /\ new.type \in {"email", "webhook"} /\ new.url \in BOOLEAN
        /\ new.recipients \in BOOLEAN
    BY <1>1, <1>2, <1>3
  <2> HIDE DEF new
  <2> QED
    BY <1>4, <2>1, <2>2 DEF Channel
<1> HIDE DEF new
<1>6. /\ Columns(new) \in Channel
      /\ Columns(new).smtp = new.smtp
      /\ Columns(new).type = new.type
      /\ Columns(new).url = (new.url /\ new.type # "email")
  BY <1>5 DEF Columns, Channel
<1>7. new.type = "webhook" => (Columns(new).url <=> c.url \/ b.url)
  BY <1>3, <1>6
<1> QED
  BY <1>3, <1>5, <1>6, <1>7 DEF new

-----------------------------------------------------------------------------
(* The invariant.                                                            *)

LEMMA InitInv == Init => IInv
<1> SUFFICES ASSUME Init PROVE IInv
  OBVIOUS
<1>1. Shape
  BY NoSMTPType DEF Init, Shape, Stored
<1>2. \A c \in Ids : RowInv(db.channels[c], db.backup[c], c \in db.refs, given[c], c \in since)
  BY NoSMTPType DEF Init, RowInv, Stored, Live, Unused
<1>3. \A r \in Requests : TxInv(tx[r])
  BY DEF Init, TxInv
<1> QED
  BY <1>1, <1>2, <1>3 DEF IInv

\* A new channel is what its request was checked to be.
LEMMA CreateInv ==
    ASSUME IInv, NEW c \in Ids, NEW b \in Bodies, Create(c, b) PROVE IInv'
<1> DEFINE blank == [type |-> "webhook", url |-> FALSE, recipients |-> FALSE, smtp |-> NoSMTP]
           new == EffectiveNotificationChannel(blank, b)
           global == IF b.global = "unset" THEN b.type = "email" /\ b.smtp = NoSMTP
                                           ELSE b.global = "true"
<1>1. blank \in Channel /\ b \in Body
  BY NoSMTPType, ChannelsAssumption DEF Channel
<1>2. /\ Columns(new) \in Channel /\ new \in Channel /\ Columns(new).smtp = new.smtp
      /\ Columns(new).type = new.type
      /\ new.type = "webhook" => (Columns(new).url <=> new.url)
  <2> HIDE DEF blank
  <2> QED
    BY <1>1, EffectiveType
<1>3. /\ db.channels[c] = Unused /\ db' = [db EXCEPT !.channels[c] = Columns(new)]
      /\ given' = [given EXCEPT ![c] = new.smtp] /\ tx' = tx /\ since' = since
      /\ ValidNotificationChannelConfig(new, global)
  BY DEF Create
<1> HIDE DEF new, global
<1>4. /\ db'.channels = [db.channels EXCEPT ![c] = Columns(new)]
      /\ db'.backup = db.backup /\ db'.refs = db.refs
      /\ DOMAIN db.channels = Ids /\ DOMAIN given = Ids
  BY <1>3 DEF IInv, Shape
<1>5. new.smtp \in SMTP /\ Columns(new) \in Stored
  BY <1>2 DEF Channel, Stored
<1>6. Shape'
  BY <1>3, <1>5 DEF IInv, Shape
<1>7. db.backup[c] = NoBackup
  <2>1. ~Live(db.channels[c])
    BY <1>3 DEF Live, Unused
  <2> QED
    BY <2>1 DEF IInv, RowInv
<1>8. new.type = "webhook" => new.url
  BY <1>2, <1>3 DEF ValidNotificationChannelConfig
<1>9. ASSUME NEW k \in Ids
      PROVE  RowInv(db'.channels[k], db'.backup[k], k \in db'.refs, given'[k], k \in since')
  <2>1. CASE k = c
    BY <1>2, <1>3, <1>4, <1>5, <1>7, <1>8, <2>1 DEF RowInv
  <2>2. CASE k # c
    BY <1>3, <1>4, <2>2 DEF IInv
  <2> QED
    BY <2>1, <2>2
<1> QED
  BY <1>3, <1>6, <1>9 DEF IInv

\* The request carries the URL it was checked with.
LEMMA ValidateInv ==
    ASSUME IInv, NEW r \in Requests, NEW c \in Ids, NEW b \in Bodies, Validate(r, c, b)
    PROVE  IInv'
<1> DEFINE new == EffectiveNotificationChannel(db.channels[c], b)
           body == [b EXCEPT !.url = b.url \/ new.type = "webhook"]
           t == [pc |-> "merge", id |-> c, body |-> body]
<1>1. b \in Body
  BY ChannelsAssumption
<1>2. body \in Body /\ body.type = b.type /\ body.url = (b.url \/ new.type = "webhook")
  <2> HIDE DEF new
  <2> QED
    BY <1>1 DEF Body
<1>3. body.type = "webhook" => body.url
  BY <1>2 DEF EffectiveNotificationChannel
<1>4. tx' = [tx EXCEPT ![r] = t] /\ UNCHANGED <<db, given, since>>
  BY DEF Validate
<1> HIDE DEF body
<1>5. TxInv(t) /\ t \in [pc : {"merge"}, id : Ids, body : Body]
  BY <1>2, <1>3 DEF TxInv
<1> HIDE DEF t
<1>6. Shape'
  BY <1>4, <1>5 DEF IInv, Shape
<1>7. \A q \in Requests : TxInv(tx'[q])
  BY <1>4, <1>5 DEF IInv, Shape
<1> QED
  BY <1>4, <1>6, <1>7 DEF IInv

\* A webhook keeps its URL in the merge, and a channel that becomes one gets
\* the request's.
LEMMA MergeInv ==
    ASSUME IInv, NEW r \in Requests, Merge(r) PROVE IInv'
<1> DEFINE c == tx[r].id
           row == Columns(EffectiveNotificationChannel(db.channels[c], tx[r].body))
           t == [pc |-> "write", id |-> c, row |-> row]
<1>1. tx[r].pc = "merge" /\ UNCHANGED <<db, given, since>>
  BY DEF Merge
<1>2. /\ c \in Ids /\ tx[r].body \in Body
      /\ tx[r].body.type = "webhook" => tx[r].body.url
  BY <1>1 DEF IInv, TxInv, Idle
<1>3. CASE Exists(db, c) /\ tx' = [tx EXCEPT ![r] = t]
  <2>1. db.channels[c] \in Channel /\ (db.channels[c].type = "webhook" => db.channels[c].url)
    BY <1>2, <1>3, LiveIsChannel DEF IInv, RowInv, Exists, Live
  <2>2. row \in Channel /\ (row.type = "webhook" => row.url)
    <3> DEFINE new == EffectiveNotificationChannel(db.channels[c], tx[r].body)
    <3>1. /\ row \in Channel /\ row.type = new.type
          /\ new.type = "webhook" => (row.url <=> db.channels[c].url \/ tx[r].body.url)
          /\ new.type = IF tx[r].body.type = "" THEN db.channels[c].type ELSE tx[r].body.type
      BY <1>2, <2>1, EffectiveType
    <3> HIDE DEF new, row
    <3> QED
      BY <1>2, <2>1, <3>1
  <2> HIDE DEF row
  <2>3. TxInv(t) /\ t \in [pc : {"write"}, id : Ids, row : Channel]
    BY <1>2, <2>2 DEF TxInv
  <2> HIDE DEF t, c
  <2>4. Shape'
    BY <1>1, <1>3, <2>3 DEF IInv, Shape
  <2>5. \A q \in Requests : TxInv(tx'[q])
    BY <1>3, <2>3 DEF IInv, Shape
  <2> QED
    BY <1>1, <2>4, <2>5 DEF IInv
<1>4. CASE tx' = [tx EXCEPT ![r] = Idle]
  BY <1>1, <1>4 DEF IInv, Shape, TxInv
<1> QED
  BY <1>3, <1>4 DEF Merge

\* The UPDATE is of a channel that is there, and a backup outlives it.
LEMMA WriteInv ==
    ASSUME IInv, NEW r \in Requests, Write(r) PROVE IInv'
<1> DEFINE c == tx[r].id
           row == tx[r].row
<1>1. tx[r].pc = "write" /\ tx' = [tx EXCEPT ![r] = Idle]
  BY DEF Write
<1>2. c \in Ids /\ row \in Channel /\ (row.type = "webhook" => row.url)
  BY <1>1 DEF IInv, TxInv, Idle
<1>3. \A q \in Requests : TxInv(tx'[q])
  BY <1>1 DEF IInv, Shape, TxInv
<1>4. tx' \in [Requests -> {Idle} \cup [pc : {"merge"}, id : Ids, body : Body]
                            \cup [pc : {"write"}, id : Ids, row : Channel]]
  BY <1>1 DEF IInv, Shape
<1>5. CASE UNCHANGED <<db, given, since>>
  BY <1>3, <1>4, <1>5 DEF IInv, Shape
<1>6. CASE /\ Exists(db, c)
           /\ db' = [db EXCEPT !.channels[c] = row]
           /\ IF c \in BackedUp(db)
              THEN since' = since \cup {c} /\ UNCHANGED given
              ELSE given' = [given EXCEPT ![c] = row.smtp] /\ UNCHANGED since
  <2> HIDE DEF c, row
  <2>1. /\ db'.channels = [db.channels EXCEPT ![c] = row]
        /\ db'.backup = db.backup /\ db'.refs = db.refs
        /\ DOMAIN db.channels = Ids /\ DOMAIN given = Ids
    BY <1>6 DEF IInv, Shape
  <2>2. row \in Stored /\ row.smtp \in SMTP /\ Live(row)
    BY <1>2 DEF Stored, Channel, Live
  <2>3. Shape'
    <3>1. db' \in [channels : [Ids -> Stored], backup : [Ids -> SMTP \cup {NoBackup}],
                   refs : SUBSET Ids]
      BY <1>6, <2>2 DEF IInv, Shape
    <3>2. given' \in [Ids -> SMTP] /\ since' \subseteq Ids
      BY <1>2, <1>6, <2>2 DEF IInv, Shape
    <3> QED
      BY <1>4, <3>1, <3>2 DEF Shape
  <2>4. ASSUME NEW k \in Ids
        PROVE  RowInv(db'.channels[k], db'.backup[k], k \in db'.refs, given'[k], k \in since')
    <3>1. RowInv(db.channels[k], db.backup[k], k \in db.refs, given[k], k \in since)
      BY DEF IInv
    <3>2. CASE k # c
      <4>1. /\ db'.channels[k] = db.channels[k] /\ given'[k] = given[k]
            /\ k \in since' <=> k \in since
        BY <1>6, <2>1, <3>2
      <4> QED
        BY <2>1, <3>1, <4>1 DEF RowInv
    <3>3. CASE k = c /\ db.backup[c] = NoBackup
      <4>1. db'.channels[k] = row /\ given'[k] = row.smtp
        BY <1>2, <1>6, <2>1, <3>3 DEF BackedUp
      <4> QED
        BY <1>2, <2>1, <2>2, <3>3, <4>1 DEF RowInv
    <3>4. CASE k = c /\ db.backup[c] # NoBackup
      <4>1. db'.channels[k] = row /\ given'[k] = given[k] /\ k \in since'
        BY <1>2, <1>6, <2>1, <3>4 DEF BackedUp
      <4> QED
        BY <1>2, <2>1, <2>2, <3>1, <3>4, <4>1 DEF RowInv
    <3> QED
      BY <3>2, <3>3, <3>4
  <2> QED
    BY <1>3, <2>3, <2>4 DEF IInv
<1> QED
  BY <1>5, <1>6 DEF Write

\* Only a channel without a backup is deleted.
LEMMA DeleteInv ==
    ASSUME IInv, NEW c \in Ids, Delete(c) PROVE IInv'
<1>1. /\ db.backup[c] = NoBackup
      /\ db' = [db EXCEPT !.channels[c] = Gone, !.refs = @ \ {c}]
      /\ UNCHANGED <<tx, given, since>>
  BY DEF Delete, BackedUp
<1>2. /\ db'.channels = [db.channels EXCEPT ![c] = Gone]
      /\ db'.backup = db.backup /\ db'.refs = db.refs \ {c}
      /\ DOMAIN db.channels = Ids
  BY <1>1 DEF IInv, Shape
<1>3. Gone \in Stored /\ ~Live(Gone)
  BY DEF Gone, Stored, Live
<1>4. Shape'
  BY <1>1, <1>3 DEF IInv, Shape
<1>5. ASSUME NEW k \in Ids
      PROVE  RowInv(db'.channels[k], db'.backup[k], k \in db'.refs, given'[k], k \in since')
  <2>1. RowInv(db.channels[k], db.backup[k], k \in db.refs, given[k], k \in since)
    BY DEF IInv
  <2>2. CASE k = c
    BY <1>1, <1>2, <1>3, <2>1, <2>2 DEF RowInv
  <2>3. CASE k # c
    BY <1>1, <1>2, <2>1, <2>3 DEF RowInv
  <2> QED
    BY <2>2, <2>3
<1> QED
  BY <1>1, <1>4, <1>5 DEF IInv

-----------------------------------------------------------------------------
(* The migration.                                                            *)

\* What a run makes of a channel: whoever is in the cohort has a backup, a
\* reference and no settings of its own.
LEMMA MigratedRow ==
    ASSUME IInv, NEW c \in Ids
    PROVE  LET after == Migrated(db) IN
           /\ after.backup[c] = IF c \in Direct(db) \ BackedUp(db)
                                THEN db.channels[c].smtp ELSE db.backup[c]
           /\ after.backup[c] # NoBackup <=> c \in Cohort(db)
           /\ c \in Cohort(db) => /\ Live(db.channels[c]) /\ db.channels[c] \in Channel
                                  /\ c \in after.refs
           /\ after.channels[c] = IF c \in Cohort(db)
                                  THEN [db.channels[c] EXCEPT !.smtp = NoSMTP]
                                  ELSE db.channels[c]
<1> DEFINE after == Migrated(db)
           cohort == {k \in Ids : after.backup[k] # NoBackup}
<1>1. RowInv(db.channels[c], db.backup[c], c \in db.refs, given[c], c \in since)
  BY DEF IInv
<1>2. after.backup[c] = IF c \in Direct(db) \ BackedUp(db)
                        THEN db.channels[c].smtp ELSE db.backup[c]
  BY DEF Migrated
<1>3. c \in Cohort(db) => Live(db.channels[c]) /\ db.channels[c] \in Channel
  BY <1>1, LiveIsChannel DEF Cohort, Direct, BackedUp, Exists, Live, RowInv
<1>4. c \in Direct(db) => db.channels[c].smtp # NoBackup
  BY <1>3, SettingsAreABackup DEF Cohort, Channel
<1>5. after.backup[c] # NoBackup <=> c \in Cohort(db)
  BY <1>2, <1>4 DEF Cohort, BackedUp
<1>6. after.refs = db.refs \cup {k \in cohort : Exists(db, k)}
  BY DEF Migrated
<1>7. after.channels[c] = IF c \in cohort \cap after.refs
                          THEN [db.channels[c] EXCEPT !.smtp = NoSMTP] ELSE db.channels[c]
  BY DEF Migrated
<1> HIDE DEF after
<1>8. c \in Cohort(db) <=> c \in cohort
  BY <1>5
<1>9. c \in Cohort(db) => c \in after.refs
  BY <1>3, <1>6, <1>8 DEF Exists, Live
<1> QED
  BY <1>2, <1>3, <1>5, <1>7, <1>8, <1>9 DEF after

\* What a restore makes of a channel.
LEMMA RestoredRow ==
    ASSUME IInv, NEW c \in Ids
    PROVE  LET after == Restored(db) IN
           /\ after.backup = db.backup
           /\ after.refs = {}
           /\ c \in BackedUp(db) => Exists(db, c) /\ db.channels[c] \in Channel
           /\ after.channels[c] = IF c \in BackedUp(db)
                                  THEN [db.channels[c] EXCEPT !.smtp = db.backup[c]]
                                  ELSE db.channels[c]
<1>1. RowInv(db.channels[c], db.backup[c], c \in db.refs, given[c], c \in since)
  BY DEF IInv
<1>2. c \in BackedUp(db) => Exists(db, c) /\ db.channels[c] \in Channel
  BY <1>1, LiveIsChannel DEF BackedUp, Exists, Live, RowInv
<1> QED
  BY <1>2 DEF Restored, IInv, Shape

\* A run preserves the invariant.
LEMMA RunInv == ASSUME IInv, Run PROVE IInv'
<1>1. db' = Migrated(db) /\ UNCHANGED <<tx, given, since>>
  BY DEF Run
<1>2. ASSUME NEW c \in Ids
      PROVE  RowInv(db'.channels[c], db'.backup[c], c \in db'.refs, given'[c], c \in since')
  <2>1. RowInv(db.channels[c], db.backup[c], c \in db.refs, given[c], c \in since)
    BY DEF IInv
  <2>2. /\ db'.backup[c] = IF c \in Direct(db) \ BackedUp(db)
                           THEN db.channels[c].smtp ELSE db.backup[c]
        /\ db'.backup[c] # NoBackup <=> c \in Cohort(db)
        /\ c \in Cohort(db) => db.channels[c] \in Channel /\ c \in db'.refs
        /\ db'.channels[c] = IF c \in Cohort(db)
                             THEN [db.channels[c] EXCEPT !.smtp = NoSMTP]
                             ELSE db.channels[c]
    BY <1>1, MigratedRow
  <2>3. CASE c \notin Cohort(db)
    <3>1. db'.backup[c] = NoBackup /\ db.backup[c] = NoBackup
          /\ db'.channels[c] = db.channels[c]
      BY <2>2, <2>3 DEF Cohort, BackedUp
    <3> QED
      BY <1>1, <2>1, <3>1 DEF RowInv
  <2>4. CASE c \in Cohort(db)
    <3>1. /\ db'.channels[c] \in Channel /\ db'.channels[c].smtp = NoSMTP
          /\ db'.channels[c].type = db.channels[c].type
          /\ db'.channels[c].url = db.channels[c].url
      BY <2>2, <2>4, NoSMTPType DEF Channel
    <3>2. db'.backup[c] = given[c] /\ db'.backup[c] # NoBackup /\ given[c] \in SMTP
      BY <2>1, <2>2, <2>4 DEF RowInv, Cohort, BackedUp, Direct, Exists, Live
    <3>3. db'.channels[c] \in Stored /\ Live(db'.channels[c])
      BY <3>1, LiveIsChannel DEF Stored
    <3>4. db.channels[c].type = "webhook" => db.channels[c].url
      BY <2>1 DEF RowInv, Live
    <3> QED
      BY <1>1, <2>2, <2>4, <3>1, <3>2, <3>3, <3>4 DEF RowInv
  <2> QED
    BY <2>3, <2>4
<1>3. Shape'
  <2>1. \A c \in Ids : db'.channels[c] \in Stored /\ db'.backup[c] \in SMTP \cup {NoBackup}
    BY <1>2 DEF RowInv
  <2>2. /\ db' = [channels |-> db'.channels, backup |-> db'.backup, refs |-> db'.refs]
        /\ db'.channels = [c \in Ids |-> db'.channels[c]]
        /\ db'.backup = [c \in Ids |-> db'.backup[c]]
        /\ db'.refs \subseteq Ids
    BY <1>1 DEF Migrated, IInv, Shape
  <2>3. /\ db'.channels \in [Ids -> Stored]
        /\ db'.backup \in [Ids -> SMTP \cup {NoBackup}]
    BY <2>1, <2>2
  <2> QED
    BY <1>1, <2>2, <2>3 DEF IInv, Shape
<1> QED
  BY <1>1, <1>2, <1>3 DEF IInv

\* A restore preserves the invariant.
LEMMA RestoreInv == ASSUME IInv, Restore PROVE IInv'
<1>1. db' = Restored(db) /\ UNCHANGED <<tx, given, since>>
  BY DEF Restore
<1>2. ASSUME NEW c \in Ids
      PROVE  RowInv(db'.channels[c], db'.backup[c], c \in db'.refs, given'[c], c \in since')
  <2>1. RowInv(db.channels[c], db.backup[c], c \in db.refs, given[c], c \in since)
    BY DEF IInv
  <2>2. /\ db'.backup = db.backup
        /\ db'.refs = {}
        /\ c \in BackedUp(db) => db.channels[c] \in Channel
        /\ db'.channels[c] = IF c \in BackedUp(db)
                             THEN [db.channels[c] EXCEPT !.smtp = db.backup[c]]
                             ELSE db.channels[c]
    BY <1>1, RestoredRow
  <2>3. CASE c \notin BackedUp(db)
    <3>1. db'.backup[c] = NoBackup /\ db.backup[c] = NoBackup
          /\ db'.channels[c] = db.channels[c]
      BY <2>2, <2>3 DEF BackedUp
    <3> QED
      BY <1>1, <2>1, <3>1 DEF RowInv
  <2>4. CASE c \in BackedUp(db)
    <3>1. db.backup[c] = given[c] /\ db.backup[c] # NoBackup /\ given[c] \in SMTP
      BY <2>1, <2>4 DEF RowInv, BackedUp
    <3>2. /\ db'.channels[c] \in Channel /\ db'.channels[c].smtp = given[c]
          /\ db'.channels[c].type = db.channels[c].type
          /\ db'.channels[c].url = db.channels[c].url
      BY <2>2, <2>4, <3>1 DEF Channel
    <3>3. db'.channels[c] \in Stored /\ Live(db'.channels[c])
      BY <3>2, LiveIsChannel DEF Stored
    <3>4. db.channels[c].type = "webhook" => db.channels[c].url
      BY <2>1 DEF RowInv, Live
    <3> QED
      BY <1>1, <2>2, <3>1, <3>2, <3>3, <3>4 DEF RowInv
  <2> QED
    BY <2>3, <2>4
<1>3. Shape'
  <2>1. \A c \in Ids : db'.channels[c] \in Stored
    BY <1>2 DEF RowInv
  <2>2. /\ db' = [channels |-> db'.channels, backup |-> db.backup, refs |-> {}]
        /\ db'.channels = [c \in Ids |-> db'.channels[c]]
    BY <1>1 DEF Restored, IInv, Shape
  <2>3. db'.channels \in [Ids -> Stored]
    BY <2>1, <2>2
  <2> QED
    BY <1>1, <2>2, <2>3 DEF IInv, Shape
<1> QED
  BY <1>1, <1>2, <1>3 DEF IInv

\* Every step preserves the invariant.
LEMMA NextInv == IInv /\ [Next]_vars => IInv'
<1> SUFFICES ASSUME IInv, [Next]_vars PROVE IInv'
  OBVIOUS
<1>1. CASE UNCHANGED vars
  BY <1>1 DEF vars, IInv, Shape
<1>2. CASE Next
  BY <1>2, CreateInv, DeleteInv, ValidateInv, MergeInv, WriteInv, RunInv, RestoreInv DEF Next
<1> QED
  BY <1>1, <1>2

\* The invariant holds in every state.
THEOREM Invariance == Spec => []IInv
BY InitInv, NextInv, PTL DEF Spec

-----------------------------------------------------------------------------

\* A stored webhook channel has a URL, however updates race.
THEOREM WebhooksHaveURLs == Spec => []WebhookHasURL
<1>1. IInv => WebhookHasURL
  BY DEF IInv, RowInv, WebhookHasURL, Exists, Live
<1> QED
  BY <1>1, Invariance, PTL

\* Run and Restore get past their own comparisons in every state: the sets
\* whose sizes they compare are the same set.
THEOREM MigrationIsNeverStuck == Spec => []MigrationNeverStuck
<1>1. IInv => MigrationNeverStuck
  <2> SUFFICES ASSUME IInv PROVE RunCountsMatch(db) /\ RestoreCountsMatch(db)
    BY DEF MigrationNeverStuck
  <2>1. RunCountsMatch(db)
    <3> DEFINE after == Migrated(db)
    <3>1. \A c \in Ids : /\ after.backup[c] # NoBackup <=> c \in Cohort(db)
                         /\ c \in Cohort(db) => /\ Exists(after, c)
                                                /\ c \in after.refs
                                                /\ after.channels[c].smtp = NoSMTP
      <4> SUFFICES ASSUME NEW c \in Ids
                   PROVE  /\ after.backup[c] # NoBackup <=> c \in Cohort(db)
                          /\ c \in Cohort(db) => /\ Exists(after, c)
                                                 /\ c \in after.refs
                                                 /\ after.channels[c].smtp = NoSMTP
        OBVIOUS
      <4>1. /\ after.backup[c] # NoBackup <=> c \in Cohort(db)
            /\ c \in Cohort(db) => /\ Live(db.channels[c]) /\ db.channels[c] \in Channel
                                   /\ c \in after.refs
            /\ after.channels[c] = IF c \in Cohort(db)
                                   THEN [db.channels[c] EXCEPT !.smtp = NoSMTP]
                                   ELSE db.channels[c]
        BY MigratedRow
      <4> HIDE DEF after
      <4>2. c \in Cohort(db) => /\ after.channels[c].type = db.channels[c].type
                                /\ after.channels[c].smtp = NoSMTP
        BY <4>1 DEF Channel
      <4> QED
        BY <4>1, <4>2 DEF Exists, Live
    <3> HIDE DEF after
    <3>2. Cohort(db) \subseteq Ids
      BY DEF Cohort, Direct, BackedUp
    <3>3. BackedUp(after) = Cohort(db)
      BY <3>1, <3>2 DEF BackedUp
    <3>4. Moved(after) = Cohort(db)
      BY <3>1, <3>2, <3>3 DEF Moved
    <3>5. Orphans(after) = {}
      BY <3>3, <3>4 DEF Orphans
    <3> QED
      BY <3>3, <3>4, <3>5 DEF RunCountsMatch, after
  <2>2. RestoreCountsMatch(db)
    <3> DEFINE after == Restored(db)
               match == {c \in BackedUp(after) : /\ Exists(after, c)
                                                 /\ after.channels[c].smtp = after.backup[c]}
    <3>1. after.backup = db.backup
      BY DEF Restored, IInv, Shape
    <3>2. BackedUp(after) = BackedUp(db)
      BY <3>1 DEF BackedUp
    <3>3. \A c \in BackedUp(db) : /\ Exists(after, c)
                                  /\ after.channels[c].smtp = after.backup[c]
      <4> SUFFICES ASSUME NEW c \in BackedUp(db)
                   PROVE  Exists(after, c) /\ after.channels[c].smtp = after.backup[c]
        OBVIOUS
      <4>1. c \in Ids
        BY DEF BackedUp
      <4>2. /\ Exists(db, c) /\ db.channels[c] \in Channel
            /\ after.channels[c] = [db.channels[c] EXCEPT !.smtp = db.backup[c]]
        BY <4>1, RestoredRow
      <4> HIDE DEF after
      <4>3. after.channels[c].type = db.channels[c].type /\ after.channels[c].smtp = db.backup[c]
        BY <4>2 DEF Channel
      <4> QED
        BY <3>1, <4>2, <4>3 DEF Exists
    <3> HIDE DEF after
    <3>4. match = BackedUp(db)
      BY <3>2, <3>3
    <3> QED
      BY <3>4 DEF RestoreCountsMatch, after
  <2> QED
    BY <2>1, <2>2
<1> QED
  BY <1>1, Invariance, PTL

\* The counts that Verify compares are enough: finite sets of one size, each
\* within the other, are the same, so that no channel with settings of its own
\* is outside the cohort that has moved.
THEOREM VerifySoundness == Spec => []VerifyIsSound
<1>1. IInv => VerifyIsSound
  <2> SUFFICES ASSUME IInv, Verified(db), NEW c \in Ids, Exists(db, c),
                      db.channels[c].type = "email"
               PROVE  UsesGlobalSMTP(db.channels[c])
    BY DEF VerifyIsSound
  <2>1. Cohort(db) \subseteq Ids /\ Moved(db) \subseteq Cohort(db)
    BY DEF Cohort, Direct, BackedUp, Moved
  <2>2. IsFiniteSet(Cohort(db))
    BY <2>1, ChannelsAssumption, FS_Subset
  <2>3. Cardinality(Moved(db)) = Cardinality(Cohort(db))
    BY DEF Verified
  <2>4. Moved(db) = Cohort(db)
    BY <2>1, <2>2, <2>3, FS_Subset
  <2>5. db.channels[c].smtp = NoSMTP
    BY <2>4 DEF Moved, Cohort, Direct
  <2> QED
    BY <2>5 DEF UsesGlobalSMTP
<1> QED
  BY <1>1, Invariance, PTL

\* Backups keep what was given, and channels that nobody wrote since have it
\* or refer to the global settings.
THEOREM MigrationIsReversible == Spec => []RoundTrip
<1>1. IInv => RoundTrip
  BY DEF IInv, RowInv, RoundTrip, BackedUp
<1> QED
  BY <1>1, Invariance, PTL

=============================================================================
