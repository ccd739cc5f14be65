-------------------------------- MODULE Ingest --------------------------------
(***************************************************************************)
(* POST /signals: a request reads the last total of a cumulative metric,   *)
(* saves the signal, resolves what it recovers, opens or repeats what it   *)
(* detects and creates the remediation actions of what it opened.  Every   *)
(* store call commits by itself, may fail, and other requests run between  *)
(* two of them.  All signals are of one service and one stream, so an       *)
(* incident is known by its rule; that upserting and resolving one rule is  *)
(* one step is what the stores promise (IncidentLifecycle).                 *)
(*                                                                         *)
(* Time is in whole seconds, as the columns of the signals table are.      *)
(***************************************************************************)
EXTENDS Detection, FiniteSets

CONSTANTS
    Requests,   \* concurrent handlers
    Signals,    \* the signals that are posted
    MaxPosts,   \* bound on the number of posts
    MaxTime     \* bound on the clock

ASSUME IngestAssumption ==
    /\ Signals \subseteq AllSignals
    /\ MaxPosts \in Nat
    /\ MaxTime \in Nat \ {0}

VARIABLES
    store,       \* "memory" or "mariadb"
    clock,       \* the second it is
    posts,       \* number of posts so far
    tx,          \* the requests
    latest,      \* per cumulative metric: the reading LatestMetricValue finds
    active,      \* rules with an active incident
    owed,        \* incidents without their actions, as <<post, rule>>
    first,       \* history: per cumulative metric the first saved reading
    last,        \* history: per cumulative metric the value saved last
    total,       \* history: per cumulative metric the sum of the saved deltas
    fell,        \* history: metrics saved with a lesser value than the one before
    passed,      \* history: metrics with a reading that was not the latest once saved
    overlapped,  \* history: two requests have run at once
    rejected,    \* history: posts that were answered with an error
    quiet        \* history: the last answer accepted a stop that ran alone

readings == <<latest, first, last, total, fell, passed>>
answers == <<overlapped, rejected, quiet>>
vars == <<store, clock, posts, tx, readings, active, owed, answers>>

Times == 1 .. MaxTime

NoReading == [at |-> 0, created |-> 0, value |-> 0]

Rules == UNION {EvaluateIncidents(s) : s \in AllSignals}

Idle == [pc |-> "idle", at |-> 0, signal |-> Plain("", 0, FALSE), alone |-> FALSE,
         recoveries |-> {}, failures |-> {}, rule |-> ""]

TypeOK ==
    /\ store \in {"memory", "mariadb"}
    /\ clock \in Times
    /\ posts \in 0 .. MaxPosts
    /\ \A r \in Requests :
        /\ tx[r].pc \in {"idle", "previous", "save", "evaluate", "actions"}
        /\ tx[r].at \in 0 .. posts
        /\ \E s \in AllSignals \cup {Idle.signal} : tx[r].signal = [s EXCEPT !.counter = tx[r].signal.counter]
        /\ tx[r].signal.name \in CumulativeCounterMetrics /\ tx[r].pc # "previous"
            => tx[r].signal.counter \in Nat
        /\ tx[r].recoveries \cup tx[r].failures \subseteq Rules
    /\ active \subseteq Rules
    /\ owed \subseteq (1 .. posts) \X Rules
    /\ \A m \in CumulativeCounterMetrics : latest[m].at \in 0 .. MaxTime /\ total[m] \in Nat

Init ==
    /\ store \in {"memory", "mariadb"}
    /\ clock = 1
    /\ posts = 0
    /\ tx = [r \in Requests |-> Idle]
    /\ latest = [m \in CumulativeCounterMetrics |-> NoReading]
    /\ active = {}
    /\ owed = {}
    /\ first = [m \in CumulativeCounterMetrics |-> 0]
    /\ last = [m \in CumulativeCounterMetrics |-> 0]
    /\ total = [m \in CumulativeCounterMetrics |-> 0]
    /\ fell = {}
    /\ passed = {}
    /\ overlapped = FALSE
    /\ rejected = {}
    /\ quiet = FALSE

-----------------------------------------------------------------------------

\* A signal arrives and passes the checks of its fields.
Post(r, s) ==
    LET alone == \A q \in Requests : tx[q].pc = "idle" IN
    /\ tx[r].pc = "idle"
    /\ posts < MaxPosts
    /\ posts' = posts + 1
    /\ tx' = [q \in Requests |->
                IF q = r THEN [Idle EXCEPT !.pc = "previous", !.at = posts + 1,
                                           !.signal = s, !.alone = alone]
                         ELSE [tx[q] EXCEPT !.alone = FALSE]]
    /\ overlapped' = (overlapped \/ ~alone)
    /\ quiet' = FALSE
    /\ UNCHANGED <<store, clock, readings, active, owed, rejected>>

\* Mutant of CounterDelta: a first reading counts from zero.
CounterDeltaFromZero(s) ==
    IF s.value >= latest[s.name].value THEN s.value - latest[s.name].value ELSE 0

\* The rise since the last reading; none for a first reading and after a reset.
CounterDelta(s) ==
    IF latest[s.name] # NoReading /\ s.value >= latest[s.name].value
    THEN s.value - latest[s.name].value
    ELSE 0

\* A reading of a total.
Counts(s) == s.valued /\ s.name \in CumulativeCounterMetrics

WithCumulativeCounterDelta(r) ==
    LET s == tx[r].signal IN
    /\ tx[r].pc = "previous"
    /\ tx' = [tx EXCEPT ![r].pc = "save",
                        ![r].signal.counter = IF Counts(s) THEN CounterDelta(s) ELSE s.counter]
    /\ UNCHANGED <<store, clock, posts, readings, active, owed, answers>>

\* ORDER BY occurred_at DESC, created_at DESC.
After(a, b) == a.at > b.at \/ (a.at = b.at /\ a.created > b.created)

\* What LatestMetricValue may find once a reading is saved beside the one it
\* found before.  Memory takes the one saved last.  MariaDB compares the times
\* and, between two of one second, the ids, which are random.
LatestMetricValue(old, new) ==
    IF store = "memory" \/ After(new, old) THEN {new}
    ELSE IF After(old, new) THEN {old} ELSE {old, new}

\* The insert of a reading that occurred at the time.
InsertReading(s, time) ==
    LET m   == s.name
        new == [at |-> time, created |-> clock, value |-> s.value]
    IN \E reading \in LatestMetricValue(latest[m], new) :
        /\ latest' = [latest EXCEPT ![m] = reading]
        /\ first' = [first EXCEPT ![m] = IF latest[m] = NoReading THEN s.value ELSE @]
        /\ last' = [last EXCEPT ![m] = s.value]
        /\ total' = [total EXCEPT ![m] = @ + s.counter]
        /\ fell' = IF latest[m] # NoReading /\ s.value < last[m] THEN fell \cup {m} ELSE fell
        /\ passed' = IF reading # new THEN passed \cup {m} ELSE passed

\* The insert, and the evaluation of the saved signal.  The time it occurred
\* at is any the sender gave or, when the sender gave none, now.
SaveSignal(r, time) ==
    LET s == tx[r].signal IN
    /\ tx[r].pc = "save"
    /\ tx' = [tx EXCEPT ![r].pc = "evaluate",
                        ![r].recoveries = EvaluateRecoveries(s),
                        ![r].failures = EvaluateIncidents(s)]
    /\ \/ Counts(s) /\ InsertReading(s, time)
       \/ ~Counts(s) /\ UNCHANGED readings
    /\ UNCHANGED <<store, clock, posts, active, owed, answers>>

\* One turn of the recovery loop: ResolveActiveIncidents.  The loop's order is
\* fixed; it is no concern of a rule which others come before it.
Recover(r) ==
    LET rule == CHOOSE c \in tx[r].recoveries : TRUE IN
    /\ tx[r].pc = "evaluate"
    /\ tx[r].recoveries # {}
    /\ active' = active \ {rule}
    /\ tx' = [tx EXCEPT ![r].recoveries = @ \ {rule}]
    /\ UNCHANGED <<store, clock, posts, readings, owed, answers>>

\* One turn of the detection loop: UpsertIncident opens the rule or repeats it.
Detect(r, rule) ==
    /\ tx[r].pc = "evaluate"
    /\ tx[r].recoveries = {}
    /\ rule \in tx[r].failures
    /\ active' = active \cup {rule}
    /\ \/ /\ rule \notin active
          /\ owed' = owed \cup {<<tx[r].at, rule>>}
          /\ tx' = [tx EXCEPT ![r].failures = @ \ {rule}, ![r].pc = "actions", ![r].rule = rule]
       \/ /\ rule \in active
          /\ tx' = [tx EXCEPT ![r].failures = @ \ {rule}]
          /\ UNCHANGED owed
    /\ UNCHANGED <<store, clock, posts, readings, answers>>

CreateRemediationActions(r) ==
    /\ tx[r].pc = "actions"
    /\ owed' = owed \ {<<tx[r].at, tx[r].rule>>}
    /\ tx' = [tx EXCEPT ![r].pc = "evaluate", ![r].rule = ""]
    /\ UNCHANGED <<store, clock, posts, readings, active, answers>>

\* The request has a call to the store before it, or waits for the answer of
\* the last one, which has taken effect in the database.
CallsStore(r) ==
    \/ tx[r].pc \in {"save", "actions"}
    \/ tx[r].pc = "previous" /\ Counts(tx[r].signal)
    \/ tx[r].pc = "evaluate" /\ (store = "mariadb" \/ tx[r].recoveries \cup tx[r].failures # {})

\* Mutant of StoreFails: an error while actions are created is only logged.
StoreFailsSilently(r) ==
    /\ CallsStore(r)
    /\ tx' = [tx EXCEPT ![r] = Idle]
    /\ rejected' = IF tx[r].pc = "actions" THEN rejected ELSE rejected \cup {tx[r].at}
    /\ UNCHANGED <<store, clock, posts, readings, active, owed, overlapped, quiet>>

\* A store call fails, before its effect or with its answer lost: what was done
\* stays done, and the answer to the sender is a 500.
StoreFails(r) ==
    /\ CallsStore(r)
    /\ tx' = [tx EXCEPT ![r] = Idle]
    /\ rejected' = rejected \cup {tx[r].at}
    /\ UNCHANGED <<store, clock, posts, readings, active, owed, overlapped, quiet>>

\* 202.
Accept(r) ==
    /\ tx[r].pc = "evaluate"
    /\ tx[r].recoveries = {}
    /\ tx[r].failures = {}
    /\ tx' = [tx EXCEPT ![r] = Idle]
    /\ quiet' = (tx[r].alone /\ IsStop(tx[r].signal))
    /\ UNCHANGED <<store, clock, posts, readings, active, owed, overlapped, rejected>>

Tick ==
    /\ clock < MaxTime
    /\ clock' = clock + 1
    /\ UNCHANGED <<store, posts, tx, readings, active, owed, answers>>

Handle(r) ==
    \/ WithCumulativeCounterDelta(r)
    \/ \E time \in Times : SaveSignal(r, time)
    \/ Recover(r)
    \/ \E rule \in tx[r].failures : Detect(r, rule)
    \/ CreateRemediationActions(r)
    \/ StoreFails(r)
    \/ Accept(r)

Next ==
    \/ \E r \in Requests : Handle(r) \/ \E s \in Signals : Post(r, s)
    \/ Tick

Spec == Init /\ [][Next]_vars

-----------------------------------------------------------------------------

\* Signals that fail and recover one rule.
Contradictory == {s \in AllSignals : EvaluateIncidents(s) \cap EvaluateRecoveries(s) # {}}

\* Detection never contradicts itself: no signal, whatever its reading, both
\* opens and resolves a rule (each pair of comparisons in evaluateIncidents
\* and evaluateRecoveries excludes the other), nor does one judged by the
\* delta a request has computed for it.
Decisive ==
    /\ Contradictory = {}
    /\ \A r \in Requests : tx[r].recoveries \cap tx[r].failures = {}

\* Rules that only a live stream can break.
LiveOnlyRules ==
    {rule \in Rules : \A s \in AllSignals : rule \in EvaluateIncidents(s) => s.live}

\* Once a stop of the stream is accepted, and no other signal was handled
\* meanwhile, no incident that only a live stream can have stays active,
\* whichever requests failed half-way before.
StoppedStreamIsQuiet == quiet => active \cap LiveOnlyRules = {}

\* As long as requests do not overlap and the readings of a total do not fall,
\* the deltas it is judged by never add up to less than its rise since the first
\* reading, whatever times the readings carry, which of two of one second
\* LatestMetricValue finds, and which requests failed before and after the
\* insert: no increment is lost.  None is counted twice either, so that an
\* unchanged total does not count, as long as each reading is the latest once it
\* is saved, which is always so in memory.
DeltasAddUp ==
    /\ ~overlapped => \A m \in CumulativeCounterMetrics \ fell :
         /\ total[m] >= last[m] - first[m]
         /\ m \notin passed => total[m] = last[m] - first[m]
    /\ store = "memory" => passed = {}

\* An incident without its remediation actions is being handled, or the
\* sender of its signal got an error.
ActionsUnlessRejected ==
    \A o \in owed :
        \/ o[1] \in rejected
        \/ \E r \in Requests : tx[r].pc = "actions" /\ <<tx[r].at, tx[r].rule>> = o

=============================================================================
