--------------------------- MODULE BootstrapProofs ---------------------------
(***************************************************************************)
(* Proofs about the life of the process, for any ids, handlers, incidents  *)
(* and number of changes: it speaks with one identity, it serves on a      *)
(* complete schema, and 005 keeps the newest incident of every key.        *)
(*                                                                         *)
(* The identity: while Main is between its check and its heartbeat the     *)
(* client's id is the bound one.  The schema: what is on record has been   *)
(* done, and so have the statements before the one the process is at; only *)
(* 005 touches incidents, and it is not on record while it runs.           *)
(***************************************************************************)
EXTENDS Bootstrap, FiniteSetTheorems, TLAPS

-----------------------------------------------------------------------------
(* The identity.                                                             *)

\* What a goroutine has read it will bind, and Main registers and beats only
\* for the bound identity, which is registered when it beats.
IdentityInv ==
    /\ TypeOK
    /\ OneIdentity
    /\ BeatsAreRegistered
    /\ registered \in known \cup {NoId}
    /\ \A t \in Tasks : tasks[t].pc = "bind" => tasks[t].id \in Ids
    /\ tasks[Main].pc \in {"register", "heartbeat"} => client = latch /\ latch \in Ids
    /\ tasks[Main].pc = "heartbeat" => client \in known

LEMMA IdentityInit == Init => IdentityInv
BY IdentityAssumption
   DEF Init, IdentityInv, TypeOK, OneIdentity, BeatsAreRegistered, Idle, Tasks

\* Where a goroutine may be sent.
PCs == {"idle", "client", "setup", "stat", "missing", "read", "bind", "register", "heartbeat"}

LEMMA GotoType ==
    ASSUME TypeOK, NEW t \in Tasks, NEW pc \in PCs, Goto(t, pc)
    PROVE  /\ tasks' \in [Tasks -> [pc : PCs, id : Ids \cup {NoId}]]
           /\ tasks'[t] = [pc |-> pc, id |-> NoId]
           /\ \A u \in Tasks \ {t} : tasks'[u] = tasks[u]
BY DEF TypeOK, Goto, PCs

\* A process that ends claims nothing.
LEMMA ExitInv ==
    ASSUME IdentityInv, Exit, UNCHANGED <<known, beating>>, changes' \in 0 .. MaxChanges,
           file' \in Ids \cup {NoId, Invalid}
    PROVE  IdentityInv'
BY IdentityAssumption
   DEF Exit, IdentityInv, TypeOK, OneIdentity, BeatsAreRegistered, Idle, Tasks

\* A goroutine goes on to anything but binding, registering and beating.
LEMMA GoOnInv ==
    ASSUME IdentityInv, NEW t \in Tasks, NEW pc \in PCs \ {"bind", "register", "heartbeat"},
           Goto(t, pc),
           file' = file, changes' = changes,
           phase' \in {"down", "boot", "match", "setup", "loop"},
           client' \in Ids \cup {NoId}, t = Main \/ client' = client,
           registered' \in {registered, NoId},
           latch' \in Ids \cup {NoId}, latch \in {NoId, latch'},
           told' \subseteq {latch'} \cap Ids,
           known \subseteq known', known' \subseteq Ids, beating' \subseteq known'
    PROVE  IdentityInv'
<1>1. /\ tasks' \in [Tasks -> [pc : PCs, id : Ids \cup {NoId}]]
      /\ tasks'[t] = [pc |-> pc, id |-> NoId]
      /\ \A u \in Tasks \ {t} : tasks'[u] = tasks[u]
  BY GotoType DEF IdentityInv
<1>2. TypeOK'
  BY <1>1 DEF IdentityInv, TypeOK, PCs
<1>3. OneIdentity' /\ BeatsAreRegistered' /\ registered' \in known' \cup {NoId}
  BY DEF IdentityInv, OneIdentity, BeatsAreRegistered
<1>4. \A u \in Tasks : tasks'[u].pc = "bind" => tasks'[u].id \in Ids
  BY <1>1 DEF IdentityInv
<1>5. /\ tasks'[Main].pc \in {"register", "heartbeat"} => client' = latch' /\ latch' \in Ids
      /\ tasks'[Main].pc = "heartbeat" => client' \in known'
  <2>1. CASE t = Main
    BY <1>1, <2>1
  <2>2. CASE t # Main
    <3>1. tasks'[Main] = tasks[Main] /\ client' = client
      BY <1>1, <2>2 DEF Tasks
    <3> QED
      BY <3>1, IdentityAssumption DEF IdentityInv
  <2> QED
    BY <2>1, <2>2
<1> QED
  BY <1>2, <1>3, <1>4, <1>5 DEF IdentityInv

\* The identity is checked or refused: what follows is the caller's business.
LEMMA FailInv ==
    ASSUME IdentityInv, NEW t \in Tasks, Fail(t), UNCHANGED <<file, changes, known, beating>>
    PROVE  IdentityInv'
<1>1. CASE Exit
  BY <1>1, ExitInv DEF IdentityInv, TypeOK
<1>2. CASE Goto(t, "idle") /\ UNCHANGED <<phase, latch, client, registered, told>>
  BY <1>2, GoOnInv DEF IdentityInv, TypeOK, OneIdentity, BeatsAreRegistered, PCs
<1> QED
  BY <1>1, <1>2 DEF Fail

LEMMA PendingInv ==
    ASSUME IdentityInv, NEW t \in Tasks, Pending(t), UNCHANGED <<file, changes, known, beating>>
    PROVE  IdentityInv'
<1>1. CASE /\ t = Main
           /\ phase' = IF phase = "boot" THEN "match" ELSE AfterMatch
           /\ registered' = NoId
           /\ Goto(t, IF phase = "match" THEN "setup" ELSE "client")
           /\ UNCHANGED <<latch, client, told>>
  <2>1. (IF phase = "match" THEN "setup" ELSE "client") \in PCs \ {"bind", "register", "heartbeat"}
    BY DEF PCs
  <2>2. phase' \in {"down", "boot", "match", "setup", "loop"}
    BY <1>1 DEF AfterMatch
  <2> QED
    BY <1>1, <2>1, <2>2, GoOnInv DEF IdentityInv, TypeOK, OneIdentity, BeatsAreRegistered
<1>2. CASE Goto(t, "idle") /\ UNCHANGED <<phase, latch, client, registered, told>>
  BY <1>2, GoOnInv DEF IdentityInv, TypeOK, OneIdentity, BeatsAreRegistered, PCs
<1> QED
  BY <1>1, <1>2 DEF Pending

LEMMA BindInv ==
    ASSUME IdentityInv, NEW t \in Tasks, Bind(t) PROVE IdentityInv'
<1> DEFINE id == tasks[t].id
<1>1. id \in Ids /\ UNCHANGED <<file, changes, known, beating>>
  BY DEF Bind, IdentityInv
<1>2. CASE Fail(t)
  BY <1>1, <1>2, FailInv
<1>3. CASE latch \in {NoId, id} /\ ~Mismatch(t, id) /\ latch' = id /\ Resolved(t, id)
  <2> HIDE DEF id
  <2>1. told \subseteq {latch'} \cap Ids
    BY <1>1, <1>3, IdentityAssumption DEF IdentityInv, OneIdentity, TypeOK
  <2>2. CASE /\ t # Main
             /\ told' = IF t = Builder THEN told ELSE told \cup {id}
             /\ Goto(t, "idle")
             /\ UNCHANGED <<phase, client, registered>>
    <3>1. told' \subseteq {latch'} \cap Ids
      BY <1>1, <1>3, <2>1, <2>2
    <3> QED
      BY <1>1, <1>3, <2>2, <3>1, GoOnInv DEF IdentityInv, TypeOK, BeatsAreRegistered, PCs
  <2>3. CASE /\ t = Main
             /\ phase' = "match"
             /\ Goto(t, "client")
             /\ UNCHANGED <<client, registered, told>>
    BY <1>1, <1>3, <2>1, <2>3, GoOnInv DEF IdentityInv, TypeOK, BeatsAreRegistered, PCs
  <2>4. CASE /\ t = Main
             /\ client = id
             /\ phase' = AfterMatch
             /\ Goto(t, IF phase = "match" THEN "setup" ELSE "register")
             /\ UNCHANGED <<client, registered, told>>
    <3>1. phase' \in {"down", "boot", "match", "setup", "loop"}
      BY <2>4 DEF AfterMatch
    <3>2. CASE phase = "match"
      <4>1. Goto(t, "setup")
        BY <2>4, <3>2
      <4> QED
        BY <1>1, <1>3, <2>1, <2>4, <3>1, <4>1, GoOnInv
           DEF IdentityInv, TypeOK, BeatsAreRegistered, PCs
    <3>3. CASE phase # "match"
      <4>1. Goto(t, "register")
        BY <2>4, <3>3
      <4>2. /\ tasks' \in [Tasks -> [pc : PCs, id : Ids \cup {NoId}]]
            /\ tasks'[t] = [pc |-> "register", id |-> NoId]
            /\ \A u \in Tasks \ {t} : tasks'[u] = tasks[u]
        BY <4>1, GotoType DEF IdentityInv, PCs
      <4>3. TypeOK'
        BY <1>1, <1>3, <2>4, <3>1, <4>2 DEF IdentityInv, TypeOK, PCs
      <4>4. OneIdentity' /\ BeatsAreRegistered' /\ registered' \in known' \cup {NoId}
        BY <1>1, <2>1, <2>4 DEF IdentityInv, OneIdentity, BeatsAreRegistered
      <4>5. \A u \in Tasks : tasks'[u].pc = "bind" => tasks'[u].id \in Ids
        BY <4>2 DEF IdentityInv
      <4>6. tasks'[Main].pc = "register" /\ client' = latch' /\ latch' \in Ids
        BY <1>1, <1>3, <2>4, <4>2
      <4> QED
        BY <4>3, <4>4, <4>5, <4>6 DEF IdentityInv
    <3> QED
      BY <3>2, <3>3
  <2> QED
    BY <1>3, <2>2, <2>3, <2>4 DEF Resolved
<1> QED
  BY <1>2, <1>3 DEF Bind

LEMMA ResolveInv ==
    ASSUME IdentityInv, NEW t \in Tasks, Resolve(t) PROVE IdentityInv'
<1>1. CASE Stat(t)
  <2>1. (IF file = NoId THEN "missing" ELSE "read") \in PCs \ {"bind", "register", "heartbeat"}
    BY DEF PCs
  <2> QED
    BY <1>1, <2>1, GoOnInv DEF Stat, IdentityInv, TypeOK, OneIdentity, BeatsAreRegistered
<1>2. CASE Missing(t)
  BY <1>2, FailInv, PendingInv DEF Missing
<1>3. CASE Read(t)
  <2>1. UNCHANGED <<file, changes, known, beating>>
    BY <1>3 DEF Read
  <2>2. CASE Fail(t)
    BY <2>1, <2>2, FailInv
  <2>3. CASE /\ ParsedId # NoId
             /\ tasks' = [tasks EXCEPT ![t] = [pc |-> "bind", id |-> ParsedId]]
             /\ UNCHANGED <<phase, latch, client, registered, told>>
    <3>1. ParsedId \in Ids
      BY <2>3 DEF ParsedId
    <3> QED
      BY <2>1, <2>3, <3>1
         DEF IdentityInv, TypeOK, OneIdentity, BeatsAreRegistered
  <2> QED
    BY <1>3, <2>2, <2>3 DEF Read
<1>4. CASE Bind(t)
  BY <1>4, BindInv
<1> QED
  BY <1>1, <1>2, <1>3, <1>4 DEF Resolve

\* Main goes on to its heartbeat, for an id that the Control Panel knows.
LEMMA BeatNextInv ==
    ASSUME IdentityInv, tasks[Main].pc = "register", Goto(Main, "heartbeat"),
           UNCHANGED <<file, changes, phase, latch, client, beating>>,
           registered' = client, told' \subseteq told \cup {client},
           known' = known \cup {client}
    PROVE  IdentityInv'
<1>1. client = latch /\ latch \in Ids
  BY DEF IdentityInv
<1>2. Main \in Tasks /\ "heartbeat" \in PCs
  BY DEF Tasks, PCs
<1>3. /\ tasks' \in [Tasks -> [pc : PCs, id : Ids \cup {NoId}]]
      /\ tasks'[Main] = [pc |-> "heartbeat", id |-> NoId]
      /\ \A u \in Tasks \ {Main} : tasks'[u] = tasks[u]
  BY <1>2, GotoType DEF IdentityInv
<1>4. TypeOK'
  BY <1>1, <1>3 DEF IdentityInv, TypeOK, PCs
<1>5. OneIdentity' /\ BeatsAreRegistered'
  BY <1>1 DEF IdentityInv, OneIdentity, BeatsAreRegistered
<1>6. \A u \in Tasks : tasks'[u].pc = "bind" => tasks'[u].id \in Ids
  BY <1>3 DEF IdentityInv
<1> QED
  BY <1>1, <1>3, <1>4, <1>5, <1>6 DEF IdentityInv

LEMMA LoopInv == ASSUME IdentityInv, Loop PROVE IdentityInv'
<1>0. Main \in Tasks
  BY DEF Tasks
<1>1. CASE Resolve(Main)
  BY <1>0, <1>1, ResolveInv
<1>2. CASE ReadClient
  <2>1. client' \in Ids \cup {NoId} /\ "stat" \in PCs \ {"bind", "register", "heartbeat"}
    BY <1>2 DEF ReadClient, ParsedId, PCs
  <2> QED
    BY <1>0, <1>2, <2>1, GoOnInv
       DEF ReadClient, IdentityInv, TypeOK, OneIdentity, BeatsAreRegistered
<1>3. CASE RegisterOk
  BY <1>3, BeatNextInv DEF RegisterOk
<1>4. ASSUME NEW lostAnswer \in BOOLEAN, RegisterFails(lostAnswer) PROVE IdentityInv'
  <2>1. client = latch /\ latch \in Ids /\ "client" \in PCs \ {"bind", "register", "heartbeat"}
    BY <1>4 DEF RegisterFails, IdentityInv, PCs
  <2>2. /\ told' \subseteq {latch'} \cap Ids /\ known \subseteq known' /\ known' \subseteq Ids
        /\ beating' \subseteq known'
    BY <1>4, <2>1
       DEF RegisterFails, IdentityInv, TypeOK, OneIdentity, BeatsAreRegistered
  <2> QED
    BY <1>0, <1>4, <2>1, <2>2, GoOnInv DEF RegisterFails, IdentityInv, TypeOK
<1>5. CASE AlreadyRegistered
  <2>1. client \in known
    BY <1>5, IdentityAssumption DEF AlreadyRegistered, IdentityInv, TypeOK
  <2>2. known' = known \cup {client} /\ registered' = client
    BY <1>5, <2>1 DEF AlreadyRegistered
  <2> QED
    BY <1>5, <2>2, BeatNextInv DEF AlreadyRegistered
<1>6. CASE Heartbeat
  <2>1. /\ client = latch /\ latch \in Ids /\ client \in known
        /\ "client" \in PCs \ {"bind", "register", "heartbeat"}
    BY <1>6 DEF Heartbeat, IdentityInv, PCs
  <2>2. told' \subseteq {latch'} \cap Ids /\ beating' \subseteq known'
    BY <1>6, <2>1 DEF Heartbeat, IdentityInv, TypeOK, OneIdentity, BeatsAreRegistered
  <2> QED
    BY <1>0, <1>6, <2>1, <2>2, GoOnInv DEF Heartbeat, IdentityInv, TypeOK
<1> QED
  BY <1>1, <1>2, <1>3, <1>4, <1>5, <1>6 DEF Loop

LEMMA ServeInv == ASSUME IdentityInv, Serve PROVE IdentityInv'
<1>1. Main \in Tasks /\ Builder \in Tasks /\ Main # Builder
  BY IdentityAssumption DEF Tasks
<1> DEFINE main == [Idle EXCEPT !.pc = "client"]
           builder == [Idle EXCEPT !.pc = "stat"]
<1>2. /\ tasks' = [tasks EXCEPT ![Main] = main, ![Builder] = builder]
      /\ phase' = "loop"
      /\ UNCHANGED <<file, changes, latch, client, registered, told, known, beating>>
  BY DEF Serve
<1>0. /\ main \in [pc : PCs, id : Ids \cup {NoId}] /\ main.pc = "client"
      /\ builder \in [pc : PCs, id : Ids \cup {NoId}] /\ builder.pc = "stat"
  BY DEF Idle, PCs
<1> HIDE DEF main, builder
<1>3. /\ tasks' \in [Tasks -> [pc : PCs, id : Ids \cup {NoId}]]
      /\ tasks'[Main].pc = "client" /\ tasks'[Builder].pc = "stat"
      /\ \A t \in Tasks \ {Main, Builder} : tasks'[t] = tasks[t]
  BY <1>1, <1>2, <1>0 DEF IdentityInv, TypeOK, PCs
<1>4. TypeOK' /\ OneIdentity' /\ BeatsAreRegistered'
  BY <1>2, <1>3 DEF IdentityInv, TypeOK, OneIdentity, BeatsAreRegistered, PCs
<1>5. \A t \in Tasks : tasks'[t].pc = "bind" => tasks'[t].id \in Ids
  BY <1>3 DEF IdentityInv
<1> QED
  BY <1>2, <1>3, <1>4, <1>5 DEF IdentityInv

\* Every step preserves the identity's invariant.
LEMMA IdentityNext == IdentityInv /\ [BootNext]_bootVars => IdentityInv'
<1> SUFFICES ASSUME IdentityInv, [BootNext]_bootVars PROVE IdentityInv'
  OBVIOUS
<1>1. CASE UNCHANGED vars
  BY <1>1 DEF vars, process, IdentityInv, TypeOK, OneIdentity, BeatsAreRegistered
<1>2. CASE Environment
  <2>1. ASSUME NEW c \in Ids \cup {NoId, Invalid}, ChangeFile(c) PROVE IdentityInv'
    BY <2>1, IdentityAssumption
       DEF ChangeFile, process, IdentityInv, TypeOK, OneIdentity, BeatsAreRegistered
  <2>2. CASE Stop
    BY <2>2, ExitInv, IdentityAssumption DEF Stop, IdentityInv, TypeOK
  <2> QED
    BY <1>2, <2>1, <2>2 DEF Environment
<1>3. CASE Start
  <2>1. Main \in Tasks /\ "stat" \in PCs \ {"bind", "register", "heartbeat"}
    BY DEF Tasks, PCs
  <2> QED
    BY <1>3, <2>1, GoOnInv
       DEF Start, IdentityInv, TypeOK, OneIdentity, BeatsAreRegistered
<1>4. CASE Loop
  BY <1>4, LoopInv
<1>5. CASE HandlerStep
  <2>1. CASE Resolve(Builder)
    BY <2>1, ResolveInv DEF Tasks
  <2>2. ASSUME NEW h \in Handlers, Request(h) PROVE IdentityInv'
    <3>1. h \in Tasks /\ "stat" \in PCs \ {"bind", "register", "heartbeat"}
      BY DEF Tasks, PCs
    <3> QED
      BY <2>2, <3>1, GoOnInv
         DEF Request, IdentityInv, TypeOK, OneIdentity, BeatsAreRegistered
  <2>3. ASSUME NEW h \in Handlers, Resolve(h) PROVE IdentityInv'
    BY <2>3, ResolveInv DEF Tasks
  <2> QED
    BY <1>5, <2>1, <2>2, <2>3 DEF HandlerStep
<1>6. CASE SetupRefused
  BY <1>6, ExitInv DEF SetupRefused, IdentityInv, TypeOK
<1>7. CASE ServeMigrated
  BY <1>7, ServeInv DEF ServeMigrated, NodeStep
<1>8. CASE SetupFails
  BY <1>8, ExitInv, IdentityAssumption DEF SetupFails, IdentityInv, TypeOK
<1> QED
  BY <1>1, <1>2, <1>3, <1>4, <1>5, <1>6, <1>7, <1>8
     DEF BootNext, Boot, Migrating, NodeStep, bootVars

-----------------------------------------------------------------------------
(* The incidents.                                                            *)

\* Of the active incidents of one key exactly one is newest.
LEMMA NewestUnique == ASSUME NEW rows \in SUBSET Rows PROVE Unique(Newest(rows))
BY RowsAssumption DEF Unique, Newest, Newer

\* Every incident has a newest one of its key: among those updated no earlier,
\* take one for which the set of newer ones is smallest.
LEMMA NewestExists ==
    ASSUME NEW rows \in SUBSET Rows, NEW r \in rows
    PROVE  \E s \in Newest(rows) : RowKey[s] = RowKey[r] /\ RowUpdated[s] >= RowUpdated[r]
<1> DEFINE Above(s) == {q \in rows : Newer(q, s)}
           later == {s \in rows : RowKey[s] = RowKey[r] /\ RowUpdated[s] >= RowUpdated[r]}
           T == {Above(s) : s \in later}
<1>1. \A q \in Rows : q \in Nat /\ RowUpdated[q] \in Nat
  BY RowsAssumption
<1>2. r \in later
  BY <1>1
<1>3. T # {} /\ T \subseteq SUBSET Rows
  BY <1>2
<1>4. IsWellFoundedOn(StrictSubsetOrdering(Rows), SUBSET Rows)
  <2>1. FiniteSubsetsOf(Rows) = SUBSET Rows
    BY RowsAssumption, FS_FiniteSubsetsOfFinite
  <2> QED
    BY <2>1, FS_StrictSubsetOrderingWellFounded
<1>5. PICK x \in T : \A y \in T : ~(<<y, x>> \in StrictSubsetOrdering(Rows))
  BY <1>3, <1>4, WFMin
<1>6. PICK s \in later : x = Above(s)
  OBVIOUS
<1>7. s \in Newest(rows)
  <2> SUFFICES ASSUME NEW q \in rows, Newer(q, s) PROVE FALSE
    BY DEF Newest
  <2>1. q \in later
    BY <1>1 DEF Newer
  <2>2. Above(q) \subseteq Above(s)
    BY <1>1 DEF Newer
  <2>3. q \in Above(s) /\ q \notin Above(q)
    BY <1>1 DEF Newer
  <2>4. Above(q) \in SUBSET Rows /\ Above(s) \in SUBSET Rows
    OBVIOUS
  <2>5. Above(q) \in T
    BY <2>1
  <2> HIDE DEF Above, T, later
  <2>6. <<Above(q), Above(s)>> \in StrictSubsetOrdering(Rows)
    BY <2>2, <2>3, <2>4 DEF StrictSubsetOrdering
  <2> QED
    BY <1>5, <1>6, <2>5, <2>6
<1> QED
  BY <1>7

-----------------------------------------------------------------------------
(* The schema.                                                               *)

Database == [schema : SUBSET AllParts, active : SUBSET Rows, keyed : SUBSET Rows,
             recorded : SUBSET (1 .. 7)]

\* The work of 005 on the incidents.
Keyed(d) == d.keyed = d.active /\ Unique(d.active)

SeriesIndex == {"metric series index"}
HistoryIndex == {"history index"}

\* What the statements of a migration before the i-th have done.
Progress(m, i, d) ==
    /\ m = 1 => /\ i > 1 => "signals" \in d.schema
                /\ i > 2 => "incidents" \in d.schema
                /\ i > 3 => "notification_deliveries" \in d.schema
                /\ i > 4 => "remediation_actions" \in d.schema
    /\ m = 2 /\ i > 1 => "notification_channels" \in d.schema
    /\ m = 3 /\ i > 1 => "rate_limit_buckets" \in d.schema
    /\ m = 4 /\ i > 1 => EmailColumns \subseteq d.schema
    /\ m = 5 => /\ i > 1 => Lifecycle \subseteq d.schema
                /\ i \in {3, 4} => d.keyed = {}
                /\ i > 3 => Unique(d.active)
                /\ i > 4 => d.keyed = d.active
                /\ i > 5 => UniqueKey \subseteq d.schema
    /\ m = 6 => /\ i > 1 => SeriesIndex \subseteq d.schema
                /\ i > 2 => HistoryIndex \subseteq d.schema
    /\ m = 7 /\ i > 1 => Suppressed \subseteq d.schema

Length(m) == IF m = 1 THEN 4 ELSE IF m = 5 THEN 5 ELSE IF m = 6 THEN 2 ELSE 1

\* What is on record has been done.
Done(d) == \A m \in d.recorded : Progress(m, Length(m) + 1, d)

\* The process is at a migration whose predecessors are on record, and at a
\* statement only of one that is not.
Position(p, d) ==
    \/ p = Closed
    \/ \E m \in 1 .. 8, i \in 0 .. 6 :
         /\ p = <<m, i>>
         /\ 1 .. m - 1 \subseteq d.recorded
         /\ i > 0 => /\ m \in 1 .. 7 /\ i <= Length(m) + 1
                     /\ m \notin d.recorded /\ Progress(m, i, d)

\* Nothing that was active at first is lost.
Survives(d, rows) ==
    \A r \in rows : \E s \in d.active : RowKey[s] = RowKey[r] /\ RowUpdated[s] >= RowUpdated[r]

Complete(d) == d.schema = AllParts /\ d.recorded = Migrations /\ Keyed(d)

SchemaInv ==
    /\ db \in Database
    /\ before \subseteq Rows
    /\ Done(db)
    /\ Position(at, db)
    /\ Survives(db, before)
    /\ phase = "loop" => Complete(db)

\* The statements, by migration and position.
LEMMA StatementList ==
    /\ Migrations = 1 .. 7 /\ Len(Statements) = 7
    /\ \A m \in 1 .. 7 : Len(Statements[m]) = Length(m) /\ DOMAIN Statements[m] = 1 .. Length(m)
<1>1. Migrations = 1 .. 7 /\ Len(Statements) = 7
  BY DEF Migrations, Statements
<1>2. /\ Len(Statements[1]) = 4 /\ Len(Statements[2]) = 1 /\ Len(Statements[3]) = 1
      /\ Len(Statements[4]) = 1 /\ Len(Statements[5]) = 5 /\ Len(Statements[6]) = 2
      /\ Len(Statements[7]) = 1
  BY DEF Statements
<1>3. /\ DOMAIN Statements[1] = 1 .. 4 /\ DOMAIN Statements[2] = 1 .. 1
      /\ DOMAIN Statements[3] = 1 .. 1 /\ DOMAIN Statements[4] = 1 .. 1
      /\ DOMAIN Statements[5] = 1 .. 5 /\ DOMAIN Statements[6] = 1 .. 2
      /\ DOMAIN Statements[7] = 1 .. 1
  BY DEF Statements
<1>4. ASSUME NEW m \in 1 .. 7
      PROVE  Len(Statements[m]) = Length(m) /\ DOMAIN Statements[m] = 1 .. Length(m)
  <2>1. m = 1 \/ m = 2 \/ m = 3 \/ m = 4 \/ m = 5 \/ m = 6 \/ m = 7
    OBVIOUS
  <2> QED
    BY <1>2, <1>3, <2>1 DEF Length
<1> QED
  BY <1>1, <1>4

\* The schema grows by some parts, and nothing else changes.
Grows(d, e, parts) ==
    /\ e \in Database
    /\ d.schema \cup parts \subseteq e.schema
    /\ e.active = d.active /\ e.keyed = d.keyed /\ e.recorded = d.recorded

Tables == BaseTables \cup {"notification_channels", "rate_limit_buckets"}

LEMMA AddingGrows ==
    ASSUME NEW d \in Database, NEW parts \in SUBSET AllParts
    PROVE  Grows(d, Adding(d, parts), parts)
<1>1. d.schema \cup parts \in SUBSET AllParts
  BY DEF Database
<1> HIDE DEF AllParts
<1> QED
  BY <1>1 DEF Grows, Adding, Database

LEMMA CreateGrows ==
    ASSUME NEW d \in Database, NEW table \in Tables
    PROVE  Grows(d, CreateTable(d, table), {table})
<1>1. With(table) \in SUBSET AllParts /\ table \in With(table)
  BY DEF With, Tables, AllParts, BaseTables, Lifecycle, UniqueKey, Suppressed, HistoryIndexes
<1>2. CASE table \in d.schema
  BY <1>2 DEF CreateTable, Grows
<1>3. CASE table \notin d.schema
  <2>1. Grows(d, Adding(d, With(table)), With(table))
    BY <1>1, AddingGrows
  <2> QED
    BY <1>1, <1>3, <2>1 DEF CreateTable, Grows
<1> QED
  BY <1>2, <1>3

\* More parts undo nothing.
LEMMA GrowsKeeps ==
    ASSUME NEW d \in Database, NEW e, NEW parts, Grows(d, e, parts)
    PROVE  /\ \A m \in 1 .. 7, i \in Nat : Progress(m, i, d) => Progress(m, i, e)
           /\ Done(d) => Done(e)
           /\ \A rows : Survives(d, rows) => Survives(e, rows)
<1>1. ASSUME NEW m \in 1 .. 7, NEW i \in Nat, Progress(m, i, d) PROVE Progress(m, i, e)
  <2>1. \A x : x \in d.schema => x \in e.schema
    BY DEF Grows
  <2>2. \A S : S \subseteq d.schema => S \subseteq e.schema
    BY <2>1
  <2>3. e.active = d.active /\ e.keyed = d.keyed
    BY DEF Grows
  <2> QED
    BY <1>1, <2>1, <2>2, <2>3 DEF Progress
<1>2. Done(d) => Done(e)
  <2>1. \A m \in d.recorded : m \in 1 .. 7 /\ Length(m) + 1 \in Nat
    BY DEF Database, Length
  <2> QED
    BY <1>1, <2>1 DEF Grows, Done
<1>3. \A rows : Survives(d, rows) => Survives(e, rows)
  BY DEF Grows, Survives
<1> QED
  BY <1>1, <1>2, <1>3

\* Statements on the incidents undo nothing that another migration did.
LEMMA DataKeeps ==
    ASSUME NEW d, NEW e, Done(d), 5 \notin d.recorded,
           e.schema = d.schema, e.recorded = d.recorded
    PROVE  Done(e)
BY DEF Done, Progress

\* What a statement does to the database of a process that is at it.
After(m, i, d, e) ==
    /\ e \in Database
    /\ e.recorded = d.recorded
    /\ Progress(m, i + 1, e)
    /\ Done(e)
    /\ \A rows \in SUBSET Rows : Survives(d, rows) => Survives(e, rows)

LEMMA GrowsAfter ==
    ASSUME NEW d \in Database, NEW e, NEW parts, Grows(d, e, parts), Done(d),
           NEW m \in 1 .. 7, NEW i \in Nat, Progress(m, i, d),
           \A x : Progress(m, i, x) /\ parts \subseteq x.schema => Progress(m, i + 1, x)
    PROVE  After(m, i, d, e)
<1>1. /\ Progress(m, i, e) /\ Done(e)
      /\ \A rows \in SUBSET Rows : Survives(d, rows) => Survives(e, rows)
  BY GrowsKeeps
<1>2. e \in Database /\ e.recorded = d.recorded /\ parts \subseteq e.schema
  BY DEF Grows
<1> QED
  BY <1>1, <1>2 DEF After

\* What each statement is.
LEMMA StatementAt ==
    /\ Statements[1][1] = "create signals" /\ Statements[1][2] = "create incidents"
    /\ Statements[1][3] = "create deliveries" /\ Statements[1][4] = "create actions"
    /\ Statements[2][1] = "create channels" /\ Statements[3][1] = "create buckets"
    /\ Statements[4][1] = "add email columns" /\ Statements[5][1] = "add lifecycle columns"
    /\ Statements[5][2] = "clear keys" /\ Statements[5][3] = "consolidate"
    /\ Statements[5][4] = "set keys" /\ Statements[5][5] = "create unique index"
    /\ Statements[6][1] = "create series index" /\ Statements[6][2] = "create history index"
    /\ Statements[7][1] = "modify delivery status"
BY DEF Statements

\* What each of them does.
LEMMA EffectOf ==
    ASSUME NEW d
    PROVE  /\ Effect("create signals", d) = CreateTable(d, "signals")
           /\ Effect("create incidents", d) = CreateTable(d, "incidents")
           /\ Effect("create deliveries", d) = CreateTable(d, "notification_deliveries")
           /\ Effect("create actions", d) = CreateTable(d, "remediation_actions")
           /\ Effect("create channels", d) = CreateTable(d, "notification_channels")
           /\ Effect("create buckets", d) = CreateTable(d, "rate_limit_buckets")
           /\ Effect("add email columns", d) = Adding(d, EmailColumns)
           /\ Effect("add lifecycle columns", d) = Adding(d, Lifecycle)
           /\ Effect("create unique index", d) = Adding(d, UniqueKey)
           /\ Effect("create series index", d) = Adding(d, {"metric series index"})
           /\ Effect("create history index", d) = Adding(d, {"history index"})
           /\ Effect("modify delivery status", d) = Adding(d, Suppressed)
BY DEF Effect

LEMMA DataEffectOf ==
    ASSUME NEW d
    PROVE  /\ Effect("clear keys", d) = [d EXCEPT !.keyed = {}]
           /\ Effect("consolidate", d) = [d EXCEPT !.active = Newest(d.active),
                                                   !.keyed = @ \cap Newest(d.active)]
           /\ Effect("set keys", d) = [d EXCEPT !.keyed = d.active]
BY DEF Effect

\* The places there are.
LEMMA Places ==
    ASSUME NEW m \in 1 .. 7, NEW i \in 1 .. Length(m)
    PROVE  /\ i \in 1 .. 5
           /\ \/ m = 1 /\ i \in 1 .. 4
              \/ m \in {2, 3, 4, 7} /\ i = 1
              \/ m = 6 /\ i \in 1 .. 2
              \/ m = 5 /\ i \in 1 .. 5
<1>1. CASE m = 1
  BY <1>1 DEF Length
<1>2. CASE m = 5
  BY <1>2 DEF Length
<1>3. CASE m = 6
  BY <1>3 DEF Length
<1>4. CASE m \in {2, 3, 4, 7}
  <2>1. Length(m) = 1
    BY <1>4 DEF Length
  <2> QED
    BY <1>4, <2>1
<1> QED
  BY <1>1, <1>2, <1>3, <1>4

\* A statement that only adds to the schema.
LEMMA CreateAfter ==
    ASSUME NEW d \in Database, Done(d), NEW m \in 1 .. 7, NEW i \in 1 .. 5, Progress(m, i, d),
           \/ m = 1 /\ i \in 1 .. 4
           \/ m \in {2, 3, 4, 7} /\ i = 1
           \/ m = 6 /\ i \in 1 .. 2
           \/ m = 5 /\ i \in {1, 5},
           NEW e, e = Effect(Statements[m][i], d)
    PROVE  After(m, i, d, e)
<1>1. SUFFICES \E parts : /\ Grows(d, e, parts)
                          /\ \A x : Progress(m, i, x) /\ parts \subseteq x.schema
                                      => Progress(m, i + 1, x)
  BY <1>1, GrowsAfter
<1>2. \A table \in Tables : Grows(d, CreateTable(d, table), {table})
  BY CreateGrows
<1>3. \A parts \in SUBSET AllParts : Grows(d, Adding(d, parts), parts)
  BY AddingGrows
<1>4. CASE m = 1 /\ i = 1
  <2>1. e = CreateTable(d, "signals") /\ "signals" \in Tables
    BY <1>4, StatementAt, EffectOf DEF Tables, BaseTables
  <2>2. \A x : Progress(m, i, x) /\ {"signals"} \subseteq x.schema => Progress(m, i + 1, x)
    BY <1>4 DEF Progress
  <2> QED
    BY <1>2, <2>1, <2>2
<1>5. CASE m = 1 /\ i = 2
  <2>1. e = CreateTable(d, "incidents") /\ "incidents" \in Tables
    BY <1>5, StatementAt, EffectOf DEF Tables, BaseTables
  <2>2. \A x : Progress(m, i, x) /\ {"incidents"} \subseteq x.schema => Progress(m, i + 1, x)
    BY <1>5 DEF Progress
  <2> QED
    BY <1>2, <2>1, <2>2
<1>6. CASE m = 1 /\ i = 3
  <2>1. e = CreateTable(d, "notification_deliveries") /\ "notification_deliveries" \in Tables
    BY <1>6, StatementAt, EffectOf DEF Tables, BaseTables
  <2>2. \A x : Progress(m, i, x) /\ {"notification_deliveries"} \subseteq x.schema
               => Progress(m, i + 1, x)
    BY <1>6 DEF Progress
  <2> QED
    BY <1>2, <2>1, <2>2
<1>7. CASE m = 1 /\ i = 4
  <2>1. e = CreateTable(d, "remediation_actions") /\ "remediation_actions" \in Tables
    BY <1>7, StatementAt, EffectOf DEF Tables, BaseTables
  <2>2. \A x : Progress(m, i, x) /\ {"remediation_actions"} \subseteq x.schema
               => Progress(m, i + 1, x)
    BY <1>7 DEF Progress
  <2> QED
    BY <1>2, <2>1, <2>2
<1>8. CASE m = 2 /\ i = 1
  <2>1. e = CreateTable(d, "notification_channels") /\ "notification_channels" \in Tables
    BY <1>8, StatementAt, EffectOf DEF Tables, BaseTables
  <2>2. \A x : Progress(m, i, x) /\ {"notification_channels"} \subseteq x.schema
               => Progress(m, i + 1, x)
    BY <1>8 DEF Progress
  <2> QED
    BY <1>2, <2>1, <2>2
<1>9. CASE m = 3 /\ i = 1
  <2>1. e = CreateTable(d, "rate_limit_buckets") /\ "rate_limit_buckets" \in Tables
    BY <1>9, StatementAt, EffectOf DEF Tables, BaseTables
  <2>2. \A x : Progress(m, i, x) /\ {"rate_limit_buckets"} \subseteq x.schema
               => Progress(m, i + 1, x)
    BY <1>9 DEF Progress
  <2> QED
    BY <1>2, <2>1, <2>2
<1>10. CASE m = 4 /\ i = 1
  <2>1. e = Adding(d, EmailColumns) /\ EmailColumns \in SUBSET AllParts
    BY <1>10, StatementAt, EffectOf DEF AllParts, HistoryIndexes
  <2>2. \A x : Progress(m, i, x) /\ EmailColumns \subseteq x.schema => Progress(m, i + 1, x)
    BY <1>10 DEF Progress
  <2> QED
    BY <1>3, <2>1, <2>2
<1>11. CASE m = 5 /\ i = 1
  <2>1. e = Adding(d, Lifecycle) /\ Lifecycle \in SUBSET AllParts
    BY <1>11, StatementAt, EffectOf DEF AllParts, HistoryIndexes
  <2>2. \A x : Progress(m, i, x) /\ Lifecycle \subseteq x.schema => Progress(m, i + 1, x)
    BY <1>11 DEF Progress
  <2> QED
    BY <1>3, <2>1, <2>2
<1>12. CASE m = 5 /\ i = 5
  <2>1. e = Adding(d, UniqueKey) /\ UniqueKey \in SUBSET AllParts
    BY <1>12, StatementAt, EffectOf DEF AllParts, HistoryIndexes
  <2>2. \A x : Progress(m, i, x) /\ UniqueKey \subseteq x.schema => Progress(m, i + 1, x)
    BY <1>12 DEF Progress
  <2> QED
    BY <1>3, <2>1, <2>2
<1>13. CASE m = 6 /\ i = 1
  <2>1. e = Adding(d, SeriesIndex) /\ SeriesIndex \in SUBSET AllParts
    BY <1>13, StatementAt, EffectOf DEF AllParts, HistoryIndexes, SeriesIndex
  <2>2. \A x : Progress(m, i, x) /\ SeriesIndex \subseteq x.schema => Progress(m, i + 1, x)
    BY <1>13 DEF Progress
  <2> QED
    BY <1>3, <2>1, <2>2
<1>14. CASE m = 6 /\ i = 2
  <2>1. e = Adding(d, HistoryIndex) /\ HistoryIndex \in SUBSET AllParts
    BY <1>14, StatementAt, EffectOf DEF AllParts, HistoryIndexes, HistoryIndex
  <2>2. \A x : Progress(m, i, x) /\ HistoryIndex \subseteq x.schema => Progress(m, i + 1, x)
    BY <1>14 DEF Progress
  <2> QED
    BY <1>3, <2>1, <2>2
<1>15. CASE m = 7 /\ i = 1
  <2>1. e = Adding(d, Suppressed) /\ Suppressed \in SUBSET AllParts
    BY <1>15, StatementAt, EffectOf DEF AllParts, HistoryIndexes
  <2>2. \A x : Progress(m, i, x) /\ Suppressed \subseteq x.schema => Progress(m, i + 1, x)
    BY <1>15 DEF Progress
  <2> QED
    BY <1>3, <2>1, <2>2
<1> QED
  BY <1>4, <1>5, <1>6, <1>7, <1>8, <1>9, <1>10, <1>11,
     <1>12, <1>13, <1>14, <1>15

\* A statement of 005 on the incidents: first nothing is keyed, then no key has
\* two active incidents, then the active ones are keyed.
LEMMA DataAfter ==
    ASSUME NEW d \in Database, Done(d), 5 \notin d.recorded, NEW i \in 2 .. 4,
           Progress(5, i, d), NEW e, e = Effect(Statements[5][i], d)
    PROVE  After(5, i, d, e)
<1>0. /\ d.active \in SUBSET Rows /\ d.keyed \in SUBSET Rows
      /\ d = [schema |-> d.schema, active |-> d.active, keyed |-> d.keyed,
              recorded |-> d.recorded]
  BY DEF Database
<1>1. ASSUME NEW active \in SUBSET Rows, NEW keyed \in SUBSET Rows,
             e = [schema |-> d.schema, active |-> active, keyed |-> keyed,
                  recorded |-> d.recorded]
      PROVE  /\ e \in Database /\ e.recorded = d.recorded /\ e.schema = d.schema
             /\ e.active = active /\ e.keyed = keyed /\ Done(e)
  <2>1. e.recorded = d.recorded /\ e.schema = d.schema /\ e.active = active /\ e.keyed = keyed
    BY <1>1
  <2>2. Done(e)
    BY <2>1, DataKeeps
  <2>3. e \in Database
    BY <1>1 DEF Database
  <2> QED
    BY <2>1, <2>2, <2>3
<1>2. CASE i = 2
  <2>1. e = [schema |-> d.schema, active |-> d.active, keyed |-> {}, recorded |-> d.recorded]
    <3>1. Effect("clear keys", d) = [d EXCEPT !.keyed = {}]
      BY DataEffectOf, Zenon
    <3>2. Statements[5][i] = "clear keys"
      BY <1>2, StatementAt
    <3>3. e = Effect("clear keys", d)
      BY <3>2, Zenon
    <3> QED
      BY <1>0, <3>1, <3>3
  <2>2. e \in Database /\ e.recorded = d.recorded /\ e.schema = d.schema
        /\ e.active = d.active /\ e.keyed = {} /\ Done(e)
    BY <1>0, <1>1, <2>1
  <2>3. Progress(5, 3, e)
    BY <1>2, <2>2 DEF Progress
  <2> QED
    BY <1>2, <2>2, <2>3 DEF After, Survives
<1>3. CASE i = 3
  <2>1. Newest(d.active) \in SUBSET Rows /\ d.keyed \cap Newest(d.active) = {}
    BY <1>0, <1>3 DEF Newest, Progress
  <2>2. e = [schema |-> d.schema, active |-> Newest(d.active), keyed |-> {},
             recorded |-> d.recorded]
    <3>1. Effect("consolidate", d) = [d EXCEPT !.active = Newest(d.active),
                                               !.keyed = @ \cap Newest(d.active)]
      BY DataEffectOf, Zenon
    <3>2. Statements[5][i] = "consolidate"
      BY <1>3, StatementAt
    <3>3. e = Effect("consolidate", d)
      BY <3>2, Zenon
    <3> QED
      BY <1>0, <2>1, <3>1, <3>3
  <2>3. e \in Database /\ e.recorded = d.recorded /\ e.schema = d.schema
        /\ e.active = Newest(d.active) /\ e.keyed = {} /\ Done(e)
    BY <1>1, <2>1, <2>2
  <2>4. Unique(e.active)
    BY <1>0, <2>3, NewestUnique
  <2>5. Progress(5, 4, e)
    BY <1>3, <2>3, <2>4 DEF Progress
  <2>6. ASSUME NEW rows \in SUBSET Rows, Survives(d, rows) PROVE Survives(e, rows)
    <3> SUFFICES ASSUME NEW r \in rows
                 PROVE  \E s \in Newest(d.active) : /\ RowKey[s] = RowKey[r]
                                                    /\ RowUpdated[s] >= RowUpdated[r]
      BY <2>3 DEF Survives
    <3>1. PICK q \in d.active : RowKey[q] = RowKey[r] /\ RowUpdated[q] >= RowUpdated[r]
      BY <2>6 DEF Survives
    <3>2. PICK s \in Newest(d.active) : RowKey[s] = RowKey[q] /\ RowUpdated[s] >= RowUpdated[q]
      BY <1>0, NewestExists
    <3>3. RowUpdated[s] \in Nat /\ RowUpdated[q] \in Nat /\ RowUpdated[r] \in Nat
      BY <1>0, <2>1, RowsAssumption
    <3> QED
      BY <3>1, <3>2, <3>3
  <2> QED
    BY <1>3, <2>3, <2>5, <2>6 DEF After
<1>4. CASE i = 4
  <2>1. e = [schema |-> d.schema, active |-> d.active, keyed |-> d.active,
             recorded |-> d.recorded]
    <3>1. Effect("set keys", d) = [d EXCEPT !.keyed = d.active]
      BY DataEffectOf, Zenon
    <3>2. Statements[5][i] = "set keys"
      BY <1>4, StatementAt
    <3>3. e = Effect("set keys", d)
      BY <3>2, Zenon
    <3> QED
      BY <1>0, <3>1, <3>3
  <2>2. e \in Database /\ e.recorded = d.recorded /\ e.schema = d.schema
        /\ e.active = d.active /\ e.keyed = d.active /\ Done(e)
    BY <1>0, <1>1, <2>1
  <2>3. Progress(5, 5, e)
    BY <1>4, <2>2 DEF Progress
  <2> QED
    BY <1>4, <2>2, <2>3 DEF After, Survives
<1> QED
  BY <1>2, <1>3, <1>4

\* Every statement does its part and undoes nothing.
LEMMA EffectAfter ==
    ASSUME NEW d \in Database, Done(d), NEW m \in 1 .. 7, NEW i \in 1 .. Length(m),
           m \notin d.recorded, Progress(m, i, d), NEW e, e = Effect(Statements[m][i], d)
    PROVE  After(m, i, d, e)
<1>1. /\ i \in 1 .. 5
      /\ \/ m = 1 /\ i \in 1 .. 4
         \/ m \in {2, 3, 4, 7} /\ i = 1
         \/ m = 6 /\ i \in 1 .. 2
         \/ m = 5 /\ i \in 1 .. 5
  BY Places
<1>2. CASE m = 5 /\ i \in 2 .. 4
  BY <1>2, DataAfter
<1>3. CASE ~(m = 5 /\ i \in 2 .. 4)
  BY <1>1, <1>3, CreateAfter
<1> QED
  BY <1>2, <1>3

\* What the service finds is consistent with its records.
LEMMA SchemaInitInv == BootInit => SchemaInv
<1> SUFFICES ASSUME BootInit PROVE SchemaInv
  OBVIOUS
<1>1. phase = "down" /\ at = Closed /\ before = db.active
  BY DEF BootInit, Init, SchemaInit
<1>2. db \in Database /\ Done(db)
  <2>1. CASE db = [schema |-> {}, active |-> {}, keyed |-> {}, recorded |-> {}]
    BY <2>1 DEF Database, Done
  <2>2. ASSUME NEW n \in {0, 4}, NEW parts \in SUBSET AllParts, NEW keyed \in SUBSET Rows,
               NEW rows \in SUBSET Rows, db = Older(n, parts, keyed, rows)
        PROVE  db \in Database /\ Done(db)
    <3>1. /\ db.recorded = 1 .. n /\ db.active = rows /\ db.keyed = keyed
          /\ db = [schema |-> db.schema, active |-> db.active, keyed |-> db.keyed,
                   recorded |-> db.recorded]
      BY <2>2 DEF Older
    <3>2. /\ db.schema \in SUBSET AllParts
          /\ BaseTables \subseteq db.schema
          /\ n = 4 => /\ "notification_channels" \in db.schema
                      /\ "rate_limit_buckets" \in db.schema
                      /\ EmailColumns \subseteq db.schema
      BY <2>2 DEF Older, AllParts
    <3>3. db \in Database
      BY <3>1, <3>2 DEF Database
    <3>4. ASSUME NEW m \in 1 .. n PROVE Progress(m, Length(m) + 1, db)
      <4>1. n = 4 /\ (m = 1 \/ m = 2 \/ m = 3 \/ m = 4)
        OBVIOUS
      <4> QED
        BY <3>2, <4>1 DEF Progress, BaseTables
    <3> QED
      BY <3>1, <3>3, <3>4 DEF Done
  <2>3. {} \in SUBSET AllParts /\ {"dedupe_key"} \cup UniqueKey \in SUBSET AllParts
    BY DEF AllParts, Lifecycle
  <2> QED
    BY <2>1, <2>2, <2>3 DEF BootInit, SchemaInit
<1>3. Survives(db, before)
  BY <1>1, <1>2, RowsAssumption DEF Survives, Database
<1> QED
  BY <1>1, <1>2, <1>3 DEF SchemaInv, Position, Database

\* Where the migrations are: <<m, i>>, with what was done before.
At(m, i) ==
    /\ at = <<m, i>> /\ at[1] = m /\ at[2] = i
    /\ 1 .. m - 1 \subseteq db.recorded
    /\ i > 0 => i <= Length(m) + 1 /\ m \notin db.recorded /\ Progress(m, i, db)

LEMMA Where ==
    ASSUME SchemaInv, AtMigration(at[1])
    PROVE  \E m \in 1 .. 7, i \in 0 .. 6 : At(m, i)
<1>1. at[1] \in 1 .. 7
  BY StatementList DEF AtMigration
<1>2. at # Closed
  BY <1>1 DEF Closed
<1> QED
  BY <1>1, <1>2 DEF SchemaInv, Position, At

\* The statement the process is at.
LEMMA AtStatementAfter ==
    ASSUME SchemaInv, AtStatement
    PROVE  \E m \in 1 .. 7, i \in 1 .. 5 :
             /\ At(m, i) /\ i + 1 <= Length(m) + 1
             /\ After(m, i, db, Effect(Statements[at[1]][at[2]], db))
<1>1. PICK m \in 1 .. 7, i \in 0 .. 6 : At(m, i)
  BY Where DEF AtStatement
<1>2. i \in DOMAIN Statements[m]
  BY <1>1 DEF AtStatement, At
<1>3. i \in 1 .. Length(m)
  BY <1>2, StatementList
<1>4. i \in 1 .. 5 /\ m \notin db.recorded /\ Progress(m, i, db) /\ i + 1 <= Length(m) + 1
  BY <1>1, <1>3, Places DEF Length, At
<1>5. After(m, i, db, Effect(Statements[m][i], db))
  BY <1>3, <1>4, EffectAfter DEF SchemaInv
<1> QED
  BY <1>1, <1>4, <1>5 DEF At

\* A record is true.
LEMMA RecordAfter ==
    ASSUME SchemaInv, AtRecord, NEW e, e = [db EXCEPT !.recorded = @ \cup {at[1]}]
    PROVE  /\ e \in Database /\ Done(e) /\ Survives(e, before)
           /\ \E m \in 1 .. 7 : at[1] = m /\ 1 .. m \subseteq e.recorded
<1>1. PICK m \in 1 .. 7, i \in 0 .. 6 : At(m, i)
  BY Where DEF AtRecord
<1>2. i = Length(m) + 1
  BY <1>1, StatementList DEF AtRecord, At
<1>3. Length(m) + 1 > 0
  BY DEF Length
<1>4. Progress(m, Length(m) + 1, db) /\ 1 .. m - 1 \subseteq db.recorded /\ at[1] = m
  BY <1>1, <1>2, <1>3 DEF At
<1>5. /\ e \in Database /\ e.schema = db.schema /\ e.active = db.active /\ e.keyed = db.keyed
      /\ e.recorded = db.recorded \cup {m}
  BY <1>4 DEF SchemaInv, Database
<1>6. ASSUME NEW k \in e.recorded PROVE Progress(k, Length(k) + 1, e)
  <2>1. Progress(k, Length(k) + 1, db)
    BY <1>4, <1>5 DEF SchemaInv, Done
  <2> QED
    BY <1>5, <2>1 DEF Progress
<1>7. 1 .. m \subseteq e.recorded
  BY <1>4, <1>5
<1>8. Survives(e, before)
  BY <1>5 DEF SchemaInv, Survives
<1> QED
  BY <1>4, <1>5, <1>6, <1>7, <1>8 DEF Done

\* The migrations go on.
LEMMA MigratingInv == ASSUME SchemaInv, Migrating PROVE SchemaInv'
<1>0. phase = "setup" /\ phase' = "setup"
  BY DEF Migrating, vars, process
<1>1. CASE BeginMigrations
  <2>1. at' = <<1, 0>> /\ db' = db /\ before' = before
    BY <1>1 DEF BeginMigrations
  <2>2. Position(at', db')
    BY <2>1 DEF Position
  <2> QED
    BY <1>0, <2>1, <2>2 DEF SchemaInv
<1>2. CASE LookUp
  <2>1. PICK m \in 1 .. 7, i \in 0 .. 6 : At(m, i)
    BY <1>2, Where DEF LookUp
  <2>2. /\ at' = IF m \in db.recorded THEN <<m + 1, 0>> ELSE <<m, 1>>
        /\ db' = db /\ before' = before /\ 1 .. m - 1 \subseteq db.recorded
    BY <1>2, <2>1 DEF LookUp, At
  <2>3. CASE m \in db.recorded
    <3>1. 1 .. (m + 1) - 1 \subseteq db.recorded
      BY <2>2, <2>3
    <3>2. Position(at', db')
      BY <2>2, <2>3, <3>1 DEF Position
    <3> QED
      BY <1>0, <2>2, <3>2 DEF SchemaInv
  <2>4. CASE m \notin db.recorded
    <3>1. Progress(m, 1, db) /\ 1 <= Length(m) + 1
      BY DEF Progress, Length
    <3>2. Position(at', db')
      BY <2>2, <2>4, <3>1 DEF Position
    <3> QED
      BY <1>0, <2>2, <3>2 DEF SchemaInv
  <2> QED
    BY <2>3, <2>4
<1>3. CASE RunStatement
  <2>1. PICK m \in 1 .. 7, i \in 1 .. 5 :
          /\ At(m, i) /\ i + 1 <= Length(m) + 1
          /\ After(m, i, db, Effect(Statements[at[1]][at[2]], db))
    BY <1>3, AtStatementAfter DEF RunStatement
  <2>2. at' = <<m, i + 1>> /\ before' = before /\ After(m, i, db, db')
    BY <1>3, <2>1 DEF RunStatement, At
  <2>3. Position(at', db')
    BY <2>1, <2>2 DEF Position, After, At
  <2> QED
    BY <1>0, <2>2, <2>3 DEF SchemaInv, After
<1>4. CASE RecordMigration
  <2>1. /\ db' \in Database /\ Done(db') /\ Survives(db', before)
        /\ \E m \in 1 .. 7 : at[1] = m /\ 1 .. m \subseteq db'.recorded
    BY <1>4, RecordAfter DEF RecordMigration
  <2>2. PICK m \in 1 .. 7 : at[1] = m /\ 1 .. m \subseteq db'.recorded
    BY <2>1
  <2>3. at' = <<m + 1, 0>> /\ before' = before /\ (m + 1) - 1 = m
    BY <1>4, <2>2 DEF RecordMigration
  <2>4. Position(at', db')
    BY <2>2, <2>3 DEF Position
  <2> QED
    BY <1>0, <2>1, <2>3, <2>4 DEF SchemaInv
<1> QED
  BY <1>1, <1>2, <1>3, <1>4 DEF Migrating

\* A boot that ends keeps the database and its records consistent.
LEMMA SetupEndsInv == ASSUME SchemaInv, SetupRefused \/ SetupFails PROVE SchemaInv'
<1>1. phase' = "down" /\ before' = before
  BY DEF SetupRefused, SetupFails, Exit, StatementRefused, StatementFails, RecordFails, schemaVars
<1>2. at' = Closed
  BY DEF SetupRefused, SetupFails, StatementRefused, StatementFails, RecordFails, schemaVars
<1>3. db' \in Database /\ Done(db') /\ Survives(db', before)
  <2>1. CASE db' = db
    BY <2>1 DEF SchemaInv
  <2>2. CASE AtStatement /\ db' = Effect(Statements[at[1]][at[2]], db)
    BY <2>2, AtStatementAfter DEF After, SchemaInv
  <2>3. CASE AtRecord /\ db' = [db EXCEPT !.recorded = @ \cup {at[1]}]
    BY <2>3, RecordAfter
  <2> QED
    BY <2>1, <2>2, <2>3
       DEF SetupRefused, SetupFails, StatementRefused, StatementFails, RecordFails, schemaVars
<1> QED
  BY <1>1, <1>2, <1>3 DEF SchemaInv, Position

-----------------------------------------------------------------------------
(* The process.                                                              *)

\* Before the database is set up Main is somewhere it cannot serve from.
PhaseInv ==
    /\ phase = "down" => tasks[Main].pc = "idle"
    /\ phase = "setup" => tasks[Main].pc = "setup"

\* A step of the identity does not make the process serve.
LEMMA ResolvePhase ==
    ASSUME TypeOK, PhaseInv, NEW t \in Tasks, Resolve(t)
    PROVE  PhaseInv' /\ (phase' = "loop" => phase = "loop")
<1>0. Main \in Tasks /\ tasks[t].pc \in {"stat", "missing", "read", "bind"}
  BY DEF Resolve, Stat, Missing, Read, Bind, Tasks
<1>1. t = Main => phase \in {"boot", "match", "loop"}
  BY <1>0 DEF PhaseInv, TypeOK
<1>2. CASE Exit
  BY <1>0, <1>2 DEF Exit, PhaseInv, Idle
<1>3. ASSUME NEW pc, Goto(t, pc), t # Main, phase' = phase
      PROVE  PhaseInv' /\ (phase' = "loop" => phase = "loop")
  BY <1>0, <1>3 DEF Goto, PhaseInv, TypeOK
<1>4. CASE t # Main /\ phase' = phase /\ tasks'[Main] = tasks[Main]
  BY <1>4 DEF PhaseInv
<1>5. CASE t = Main /\ phase' = phase
  BY <1>1, <1>5 DEF PhaseInv
<1>6. CASE Pending(t)
  BY <1>0, <1>1, <1>3, <1>6 DEF Pending, AfterMatch, Goto, PhaseInv, TypeOK
<1>7. ASSUME NEW id, Resolved(t, id)
      PROVE  PhaseInv' /\ (phase' = "loop" => phase = "loop")
  BY <1>0, <1>1, <1>3, <1>7 DEF Resolved, AfterMatch, Goto, PhaseInv, TypeOK
<1>8. CASE Fail(t)
  BY <1>0, <1>2, <1>3, <1>8 DEF Fail
<1>9. CASE Stat(t)
  BY <1>3, <1>5, <1>9 DEF Stat
<1>10. CASE Read(t)
  <2>1. CASE tasks' = [tasks EXCEPT ![t] = [pc |-> "bind", id |-> ParsedId]] /\ phase' = phase
    BY <1>0, <1>4, <1>5, <2>1 DEF TypeOK
  <2> QED
    BY <1>8, <1>10, <2>1 DEF Read
<1> QED
  BY <1>6, <1>7, <1>8, <1>9, <1>10 DEF Resolve, Missing, Bind

LEMMA NodePhase ==
    ASSUME TypeOK, PhaseInv, Environment \/ Start \/ Loop \/ HandlerStep
    PROVE  PhaseInv' /\ (phase' = "loop" => phase = "loop")
<1>0. Main \in Tasks /\ Builder \in Tasks /\ Handlers \subseteq Tasks
  BY DEF Tasks
<1>1. CASE Environment
  BY <1>0, <1>1 DEF Environment, ChangeFile, Stop, process, Exit, PhaseInv, Idle
<1>2. CASE Start
  BY <1>2 DEF Start, PhaseInv
<1>3. CASE Loop
  <2>1. CASE Resolve(Main)
    BY <1>0, <2>1, ResolvePhase
  <2>2. CASE phase' = phase /\ tasks[Main].pc \in {"client", "register", "heartbeat"}
    BY <2>2 DEF PhaseInv
  <2> QED
    BY <1>3, <2>1, <2>2
       DEF Loop, ReadClient, RegisterOk, RegisterFails, AlreadyRegistered, Heartbeat
<1>4. CASE HandlerStep
  <2>1. ASSUME NEW h \in Handlers, Request(h)
        PROVE  PhaseInv' /\ (phase' = "loop" => phase = "loop")
    BY <2>1 DEF Request, PhaseInv
  <2> QED
    BY <1>0, <1>4, <2>1, ResolvePhase DEF HandlerStep
<1> QED
  BY <1>1, <1>2, <1>3, <1>4

\* With all migrations on record the schema is complete.
LEMMA CompleteWhenDone ==
    ASSUME NEW d \in Database, Done(d), 1 .. 7 \subseteq d.recorded
    PROVE  Complete(d)
<1>1. d.recorded = Migrations
  BY StatementList DEF Database
<1>2. /\ Progress(1, 5, d) /\ Progress(2, 2, d) /\ Progress(3, 2, d) /\ Progress(4, 2, d)
      /\ Progress(5, 6, d) /\ Progress(6, 3, d) /\ Progress(7, 2, d)
  BY DEF Done, Length
<1>3. /\ "signals" \in d.schema /\ "incidents" \in d.schema
      /\ "notification_deliveries" \in d.schema /\ "remediation_actions" \in d.schema
      /\ "notification_channels" \in d.schema /\ "rate_limit_buckets" \in d.schema
      /\ EmailColumns \subseteq d.schema /\ Lifecycle \subseteq d.schema
      /\ UniqueKey \subseteq d.schema /\ SeriesIndex \subseteq d.schema
      /\ HistoryIndex \subseteq d.schema /\ Suppressed \subseteq d.schema
      /\ Keyed(d)
  BY <1>2 DEF Progress, Keyed
<1>4. HistoryIndexes = SeriesIndex \cup HistoryIndex
  BY DEF HistoryIndexes, SeriesIndex, HistoryIndex
<1>5. AllParts \subseteq d.schema
  BY <1>3, <1>4 DEF AllParts, BaseTables
<1>6. d.schema = AllParts
  BY <1>5 DEF Database
<1> QED
  BY <1>1, <1>3, <1>6 DEF Complete

BootInv == IdentityInv /\ PhaseInv /\ SchemaInv

\* Every step preserves the invariant.
LEMMA BootNextInv == BootInv /\ [BootNext]_bootVars => BootInv'
<1> SUFFICES ASSUME BootInv, [BootNext]_bootVars PROVE BootInv'
  OBVIOUS
<1>0. IdentityInv'
  BY IdentityNext DEF BootInv
<1>1. CASE UNCHANGED bootVars
  BY <1>0, <1>1 DEF bootVars, vars, process, schemaVars, BootInv, PhaseInv, SchemaInv
<1>2. CASE \/ NodeStep(Environment) \/ NodeStep(Start)
           \/ NodeStep(Loop) \/ NodeStep(HandlerStep)
  <2>1. PhaseInv' /\ (phase' = "loop" => phase = "loop")
    BY <1>2, NodePhase DEF NodeStep, BootInv, IdentityInv
  <2>2. db' = db /\ before' = before /\ at' \in {at, Closed}
    BY <1>2 DEF NodeStep
  <2>3. Position(at', db)
    BY <2>2 DEF BootInv, SchemaInv, Position
  <2> QED
    BY <1>0, <2>1, <2>2, <2>3 DEF BootInv, SchemaInv
<1>3. CASE Migrating
  <2>1. PhaseInv'
    BY <1>3 DEF Migrating, vars, process, BootInv, PhaseInv
  <2> QED
    BY <1>0, <1>3, <2>1, MigratingInv DEF BootInv
<1>4. CASE SetupRefused \/ SetupFails
  <2>1. PhaseInv'
    BY <1>4 DEF SetupRefused, SetupFails, Exit, PhaseInv, Idle, Tasks
  <2> QED
    BY <1>0, <1>4, <2>1, SetupEndsInv DEF BootInv
<1>5. CASE ServeMigrated
  <2>1. /\ db' = db /\ before' = before /\ phase' = "loop" /\ at' = Closed /\ at[1] = 8
    BY <1>5, StatementList DEF ServeMigrated, MigrationsDone, NodeStep, Serve
  <2>2. 1 .. 7 \subseteq db.recorded
    <3>1. at # Closed
      BY <2>1 DEF Closed
    <3>2. PICK m \in 1 .. 8, i \in 0 .. 6 : at = <<m, i>> /\ 1 .. m - 1 \subseteq db.recorded
      BY <3>1 DEF BootInv, SchemaInv, Position
    <3>3. m = 8
      BY <2>1, <3>2
    <3> QED
      BY <3>2, <3>3
  <2>3. Complete(db)
    BY <2>2, CompleteWhenDone DEF BootInv, SchemaInv
  <2> QED
    BY <1>0, <2>1, <2>3 DEF BootInv, SchemaInv, PhaseInv, Position
<1> QED
  BY <1>1, <1>2, <1>3, <1>4, <1>5 DEF BootNext, Boot

\* The invariant holds in every state.
THEOREM Invariance == BootSpec => []BootInv
<1>1. BootInit => BootInv
  <2>1. BootInit => PhaseInv
    BY DEF BootInit, Init, PhaseInv, Idle, Tasks
  <2> QED
    BY <2>1, IdentityInit, SchemaInitInv DEF BootInit, BootInv
<1> QED
  BY <1>1, BootNextInv, PTL DEF BootSpec

-----------------------------------------------------------------------------

\* One process speaks with one identity, whatever becomes of the file.
THEOREM OneIdentityPerProcess == BootSpec => []OneIdentity
<1>1. BootInv => OneIdentity
  BY DEF BootInv, IdentityInv
<1> QED
  BY <1>1, Invariance, PTL

\* Heartbeats are for registered ids only.
THEOREM BeatsOnlyRegistered == BootSpec => []BeatsAreRegistered
<1>1. BootInv => BeatsAreRegistered
  BY DEF BootInv, IdentityInv
<1> QED
  BY <1>1, Invariance, PTL

\* The server answers only on a complete schema with unique keys.
THEOREM ServesOnlyMigrated == BootSpec => []ServesMigrated
<1>1. BootInv => ServesMigrated
  BY DEF BootInv, SchemaInv, Complete, Keyed, ServesMigrated
<1> QED
  BY <1>1, Invariance, PTL

\* 005 keeps the newest incident of every key, cut off and repeated anywhere.
THEOREM NothingActiveIsLost == BootSpec => []NewestSurvives
<1>1. BootInv => NewestSurvives
  BY DEF BootInv, SchemaInv, Survives, NewestSurvives
<1> QED
  BY <1>1, Invariance, PTL

=============================================================================
