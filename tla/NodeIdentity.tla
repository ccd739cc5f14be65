----------------------------- MODULE NodeIdentity -----------------------------
(***************************************************************************)
(* The identity of the node: the config file that `configure' installs and *)
(* operators may edit or remove, the latch that binds the process to the   *)
(* first identity it reads, the boot checks, the registration loop and the *)
(* handlers that resolve the identity concurrently.                        *)
(*                                                                         *)
(* The file is read anew each time, and ResolveFromEnv looks at it twice:  *)
(* is it there, and what does it say.  An identity error ends the process  *)
(* (log.Fatalf), and systemd starts it again (Restart=on-failure).         *)
(* AUTOSTREAM_NODE_CONFIG is set; the config revision is an environment    *)
(* variable and cannot change while the process lives, so an identity is   *)
(* its service id.                                                         *)
(***************************************************************************)
EXTENDS Naturals

CONSTANTS
    Ids,        \* service ids
    NoId,       \* no file, nothing bound, nothing registered
    Invalid,    \* a file that does not parse or is of another node type
    Main,       \* the main goroutine until it serves, then the registration loop
    Builder,    \* the main goroutine where it builds the server, beside the loop
    Handlers,   \* requests of /updater/version and of a dispatch
    MaxChanges  \* bound on changes of the file and on stops of the process

ASSUME IdentityAssumption ==
    /\ NoId \notin Ids
    /\ Invalid \notin Ids \cup {NoId}
    /\ Main \notin Handlers \cup {Builder}
    /\ Builder \notin Handlers
    /\ MaxChanges \in Nat

VARIABLES
    file,        \* what AUTOSTREAM_NODE_CONFIG names
    changes,     \* changes and stops so far
    phase,       \* "down", "boot" (first resolve), "match" (second), "setup"
                 \* (the database) or "loop"
    latch,       \* the bound identity
    tasks,       \* where each goroutine is, with the id it has read
    client,      \* the service id of Main's control client
    registered,  \* registeredServiceID
    told,        \* history: ids this process has given to anybody
    known,       \* history: ids the Control Panel has registered
    beating      \* history: ids heartbeats were sent for

process == <<phase, latch, tasks, client, registered, told>>
vars == <<file, changes, process, known, beating>>

Tasks == Handlers \cup {Main, Builder}

Idle == [pc |-> "idle", id |-> NoId]

TypeOK ==
    /\ file \in Ids \cup {NoId, Invalid}
    /\ changes \in 0 .. MaxChanges
    /\ phase \in {"down", "boot", "match", "setup", "loop"}
    /\ latch \in Ids \cup {NoId}
    /\ tasks \in [Tasks -> [pc : {"idle", "client", "setup", "stat", "missing", "read", "bind", "register", "heartbeat"},
                            id : Ids \cup {NoId}]]
    /\ client \in Ids \cup {NoId}
    /\ registered \in Ids \cup {NoId}
    /\ told \subseteq Ids
    /\ known \subseteq Ids
    /\ beating \subseteq Ids

Init ==
    /\ file = NoId
    /\ changes = 0
    /\ phase = "down"
    /\ latch = NoId
    /\ tasks = [t \in Tasks |-> Idle]
    /\ client = NoId
    /\ registered = NoId
    /\ told = {}
    /\ known = {}
    /\ beating = {}

Goto(t, pc) == tasks' = [tasks EXCEPT ![t] = [pc |-> pc, id |-> NoId]]

-----------------------------------------------------------------------------
(* The environment.                                                          *)

\* writeNodeConfigFile renames a complete file into place; an operator may
\* remove it or spoil it.
ChangeFile(content) ==
    /\ changes < MaxChanges
    /\ file # content
    /\ file' = content
    /\ changes' = changes + 1
    /\ UNCHANGED <<process, known, beating>>

\* Everything the process keeps is gone.
Exit ==
    /\ phase' = "down"
    /\ latch' = NoId
    /\ tasks' = [t \in Tasks |-> Idle]
    /\ client' = NoId
    /\ registered' = NoId
    /\ told' = {}

Stop ==
    /\ phase # "down"
    /\ changes < MaxChanges
    /\ changes' = changes + 1
    /\ Exit
    /\ UNCHANGED <<file, known, beating>>

\* systemd starts the service: main resolves the identity first.
Start ==
    /\ phase = "down"
    /\ phase' = "boot"
    /\ Goto(Main, "stat")
    /\ UNCHANGED <<file, changes, latch, client, registered, told, known, beating>>

\* A request of /updater/version or a dispatch resolves the identity, once the
\* server is there.
Request(h) ==
    /\ phase = "loop"
    /\ tasks[Builder].pc = "idle"
    /\ tasks[h].pc = "idle"
    /\ Goto(h, "stat")
    /\ UNCHANGED <<file, changes, phase, latch, client, registered, told, known, beating>>

\* The id in the file; none if it lacks a field, is of another type or is gone.
ParsedId == IF file \in Ids THEN file ELSE NoId

-----------------------------------------------------------------------------
(* ResolveFromEnv.                                                           *)

\* The handler answers with an error; main and the loop end the process.
Fail(t) ==
    \/ /\ t \in {Main, Builder}
       /\ Exit
    \/ /\ t \notin {Main, Builder}
       /\ Goto(t, "idle")
       /\ UNCHANGED <<phase, latch, client, registered, told>>

\* The second resolve is over: the database is next.
AfterMatch == IF phase = "match" THEN "setup" ELSE "loop"

\* ErrUpdaterIdentityPending: main and the loop go on and look again.
Pending(t) ==
    \/ /\ t = Main
       /\ phase' = IF phase = "boot" THEN "match" ELSE AfterMatch
       /\ registered' = NoId
       /\ Goto(t, IF phase = "match" THEN "setup" ELSE "client")
       /\ UNCHANGED <<latch, client, told>>
    \/ /\ t # Main
       /\ Goto(t, "idle")
       /\ UNCHANGED <<phase, latch, client, registered, told>>

\* The resolved identity: a handler gives it to its caller, the server is built,
\* Main compares it with its client's.
Resolved(t, id) ==
    \/ /\ t # Main
       /\ told' = IF t = Builder THEN told ELSE told \cup {id}
       /\ Goto(t, "idle")
       /\ UNCHANGED <<phase, client, registered>>
    \/ /\ t = Main
       /\ phase = "boot"
       /\ phase' = "match"
       /\ Goto(t, "client")
       /\ UNCHANGED <<client, registered, told>>
    \/ /\ t = Main
       /\ phase # "boot"
       /\ client = id
       /\ phase' = AfterMatch
       /\ Goto(t, IF phase = "match" THEN "setup" ELSE "register")
       /\ UNCHANGED <<client, registered, told>>

\* requireMatchingUpdaterIdentity refuses a client with another id.
Mismatch(t, id) == t = Main /\ phase # "boot" /\ client # id

\* NodeConfigPendingFromEnv: is the file there?
Stat(t) ==
    /\ tasks[t].pc = "stat"
    /\ Goto(t, IF file = NoId THEN "missing" ELSE "read")
    /\ UNCHANGED <<file, changes, phase, latch, client, registered, told, known, beating>>

\* It was not there.  By the time the mutex is held another goroutine may
\* have bound the identity.
Missing(t) ==
    /\ tasks[t].pc = "missing"
    /\ \/ latch # NoId /\ Fail(t)
       \/ latch = NoId /\ Pending(t)
    /\ UNCHANGED <<file, changes, known, beating>>

\* FromEnv inside ResolveFromEnv: what does it say?
Read(t) ==
    /\ tasks[t].pc = "read"
    /\ \/ /\ ParsedId # NoId
          /\ tasks' = [tasks EXCEPT ![t] = [pc |-> "bind", id |-> ParsedId]]
          /\ UNCHANGED <<phase, latch, client, registered, told>>
       \/ ParsedId = NoId /\ Fail(t)
    /\ UNCHANGED <<file, changes, known, beating>>

\* Mutant of Bind: the latch takes every new identity.
BindLatest(t) ==
    LET id == tasks[t].id IN
    /\ tasks[t].pc = "bind"
    /\ \/ Mismatch(t, id) /\ Fail(t)
       \/ ~Mismatch(t, id) /\ latch' = id /\ Resolved(t, id)
    /\ UNCHANGED <<file, changes, known, beating>>

\* bind: the first identity stays.
Bind(t) ==
    LET id == tasks[t].id IN
    /\ tasks[t].pc = "bind"
    /\ \/ (latch \notin {NoId, id} \/ Mismatch(t, id)) /\ Fail(t)
       \/ latch \in {NoId, id} /\ ~Mismatch(t, id) /\ latch' = id /\ Resolved(t, id)
    /\ UNCHANGED <<file, changes, known, beating>>

\* The database is open and migrated: the loop starts, and the constructor of
\* the server resolves the identity again.
Serve ==
    /\ phase = "setup"
    /\ phase' = "loop"
    /\ tasks' = [tasks EXCEPT ![Main] = [Idle EXCEPT !.pc = "client"],
                             ![Builder] = [Idle EXCEPT !.pc = "stat"]]
    /\ UNCHANGED <<file, changes, latch, client, registered, told, known, beating>>

-----------------------------------------------------------------------------
(* The registration loop.                                                    *)

\* FromEnv: the control client of this turn.
ReadClient ==
    /\ tasks[Main].pc = "client"
    /\ client' = ParsedId
    /\ Goto(Main, "stat")
    /\ UNCHANGED <<file, changes, phase, latch, registered, told, known, beating>>

RegisterOk ==
    /\ tasks[Main].pc = "register"
    /\ registered # client
    /\ registered' = client
    /\ told' = told \cup {client}
    /\ known' = known \cup {client}
    /\ Goto(Main, "heartbeat")
    /\ UNCHANGED <<file, changes, phase, latch, client, beating>>

\* Mutant of RegisterFails: the id is remembered before the answer is known.
RegisterFailsRemembering(lostAnswer) ==
    /\ tasks[Main].pc = "register"
    /\ registered # client
    /\ registered' = client
    /\ told' = told \cup {client}
    /\ known' = IF lostAnswer THEN known \cup {client} ELSE known
    /\ Goto(Main, "client")
    /\ UNCHANGED <<file, changes, phase, latch, client, beating>>

\* Mutant of RegisterFails: the loop returns instead of waiting.
RegisterFailsReturning(lostAnswer) ==
    /\ tasks[Main].pc = "register"
    /\ registered # client
    /\ registered' = NoId
    /\ told' = told \cup {client}
    /\ known' = IF lostAnswer THEN known \cup {client} ELSE known
    /\ Goto(Main, "idle")
    /\ UNCHANGED <<file, changes, phase, latch, client, beating>>

\* No answer, or not a 2xx: the next turn tries again.
RegisterFails(lostAnswer) ==
    /\ tasks[Main].pc = "register"
    /\ registered # client
    /\ registered' = NoId
    /\ told' = told \cup {client}
    /\ known' = IF lostAnswer THEN known \cup {client} ELSE known
    /\ Goto(Main, "client")
    /\ UNCHANGED <<file, changes, phase, latch, client, beating>>

AlreadyRegistered ==
    /\ tasks[Main].pc = "register"
    /\ registered = client
    /\ Goto(Main, "heartbeat")
    /\ UNCHANGED <<file, changes, phase, latch, client, registered, told, known, beating>>

\* A heartbeat, answered or not, and the wait for the next turn.
Heartbeat ==
    /\ tasks[Main].pc = "heartbeat"
    /\ told' = told \cup {client}
    /\ beating' = beating \cup {client}
    /\ Goto(Main, "client")
    /\ UNCHANGED <<file, changes, phase, latch, client, registered, known>>

-----------------------------------------------------------------------------

Resolve(t) == Stat(t) \/ Missing(t) \/ Read(t) \/ Bind(t)

Loop ==
    \/ Resolve(Main)
    \/ ReadClient
    \/ RegisterOk
    \/ \E lostAnswer \in BOOLEAN : RegisterFails(lostAnswer)
    \/ AlreadyRegistered
    \/ Heartbeat

Environment ==
    \/ \E c \in Ids \cup {NoId, Invalid} : ChangeFile(c)
    \/ Stop

HandlerStep == Resolve(Builder) \/ \E h \in Handlers : Request(h) \/ Resolve(h)

-----------------------------------------------------------------------------

\* "rejects drift": one process speaks with one identity.  Whatever becomes of
\* the file, all that its registrations, its heartbeats and its answers on
\* /updater/version have ever named is the identity it is bound to.
OneIdentity == told \subseteq {latch}

\* Heartbeats go out only for an id the Control Panel has registered, over
\* failed registrations, lost answers and changes of the file.
BeatsAreRegistered == beating \subseteq known

=============================================================================
