----------------------------- MODULE IngestProofs -----------------------------
(***************************************************************************)
(* Proofs about the ingest of signals, for any number of concurrent        *)
(* requests, any posted signals and any number of posts: no signal         *)
(* contradicts itself, whatever its readings; a stop that ran alone leaves *)
(* nothing that only a live stream can have; the deltas of a total add up; *)
(* and no incident silently stays without its actions.                     *)
(***************************************************************************)
EXTENDS Ingest, TLAPS

-----------------------------------------------------------------------------
(* The rules.                                                                *)

\* The table has the rule for the metric.
Has(table, name, rule) == \E p \in table : p[1] = name /\ p[2] = rule

SignalNames == {s.name : s \in AllSignals} \cup {""}

\* Signals, with any value and any counter.
Signal == [name : SignalNames, value : Int, counter : Int, valued : BOOLEAN,
           live : BOOLEAN, status : Statuses, error : BOOLEAN, upload : BOOLEAN,
           recent : BOOLEAN]

\* What a signal must say to open a rule.
LEMMA IncidentCases ==
    ASSUME NEW s, NEW rule \in EvaluateIncidents(s)
    PROVE  \/ Has(AboveRules, s.name, rule) /\ s.value > Threshold
           \/ Has(AtLeastRules, s.name, rule) /\ s.value >= Threshold
           \/ Has(LiveAtLeastRules, s.name, rule) /\ s.live /\ s.value >= Threshold
           \/ Has(LiveCounterRules, s.name, rule) /\ s.live /\ s.counter >= Threshold
           \/ Has(LiveLowRules, s.name, rule) /\ s.live /\ s.value > 0 /\ s.value < Threshold
           \/ Has(LiveZeroRules, s.name, rule) /\ s.live /\ s.value = 0
           \/ Has(ZeroRules, s.name, rule) /\ s.value = 0
           \/ Has(LowRules, s.name, rule) /\ s.value > 0 /\ s.value < Threshold
           \/ Has(CounterRules, s.name, rule) /\ s.counter > 0
           \/ Has(LiveNoneRules, s.name, rule) /\ s.live /\ s.value <= 0
           \/ rule = "encoder_process_exited" /\ s.name = "encoder.process.exited"
           \/ /\ rule = "gdrive_upload_failed"
              /\ s.name \in {"archive.upload.failed", "archive.package.failed"}
           \/ rule = "archive_package_failed" /\ s.name = "archive.package.failed"
           \/ /\ rule = "discord_audio_forward_failed"
              /\ s.name = "discord.audio_forward_errors_total" /\ ForwardFails(s)
           \/ /\ rule = "discord_audio_forward_stale"
              /\ s.name = "discord.audio_last_forward_age_sec" /\ s.live /\ s.value >= Threshold
           \/ rule = "unexpected_stopped" /\ s.name = "stream.status" /\ s.live
BY DEF EvaluateIncidents, Match, When, Has

\* What it must say to resolve one.
LEMMA RecoveryCases ==
    ASSUME NEW s, NEW rule \in EvaluateRecoveries(s)
    PROVE  \/ Has(AboveRules, s.name, rule) /\ s.value <= Threshold
           \/ Has(AtLeastRules, s.name, rule) /\ s.value < Threshold
           \/ Has(LiveAtLeastRules, s.name, rule) /\ (~s.live \/ s.value < Threshold)
           \/ Has(LiveCounterRules, s.name, rule) /\ (~s.live \/ s.counter < Threshold)
           \/ Has(LiveLowRules, s.name, rule) /\ (~s.live \/ s.value >= Threshold)
           \/ Has(LiveZeroRules, s.name, rule) /\ s.value > 0
           \/ Has(ZeroRules, s.name, rule) /\ s.value > 0
           \/ Has(LowRules, s.name, rule) /\ s.value >= Threshold
           \/ Has(CounterRules, s.name, rule) /\ s.counter <= 0
           \/ rule = "recorder_not_writing" /\ s.name = "recorder.write_bitrate_kbps" /\ s.value > 0
           \/ rule = "gdrive_upload_retry_high" /\ s.name = "gdrive.upload_status"
           \/ /\ rule = "discord_audio_forward_stale"
              /\ \/ s.name = "discord.audio_last_forward_age_sec" /\ s.value < Threshold
                 \/ s.name = "discord.audio_forward_errors_total" /\ s.recent
           \/ /\ rule = "discord_audio_forward_failed"
              /\ s.name = "discord.audio_forward_errors_total" /\ (s.recent \/ s.counter <= 0)
           \/ IsStop(s)
BY DEF EvaluateRecoveries, Match, When, Has

\* No signal opens and resolves one rule.
LEMMA SignalIsDecisive ==
    ASSUME NEW s \in Signal
    PROVE  EvaluateIncidents(s) \cap EvaluateRecoveries(s) = {}
<1> SUFFICES ASSUME NEW rule \in EvaluateIncidents(s), rule \in EvaluateRecoveries(s)
             PROVE  FALSE
  OBVIOUS
<1>0. s.value \in Int /\ s.counter \in Int /\ s.live \in BOOLEAN /\ s.recent \in BOOLEAN
  BY DEF Signal
<1> QED
  BY <1>0, IncidentCases, RecoveryCases
     DEF IsStop, ForwardFails, Threshold, Has, AboveRules, AtLeastRules, LiveAtLeastRules,
         LiveCounterRules, LiveLowRules, LiveZeroRules, ZeroRules, LowRules, CounterRules,
         LiveNoneRules

\* A stop resolves all its rules and opens none.
LEMMA StopOnlyRecovers ==
    ASSUME NEW s, IsStop(s)
    PROVE  EvaluateIncidents(s) = {} /\ StreamNotLiveRules \subseteq EvaluateRecoveries(s)
<1>1. ASSUME NEW rule \in EvaluateIncidents(s) PROVE FALSE
  BY <1>1, IncidentCases
     DEF IsStop, Has, AboveRules, AtLeastRules, LiveAtLeastRules,
         LiveCounterRules, LiveLowRules, LiveZeroRules, ZeroRules, LowRules, CounterRules,
         LiveNoneRules
<1>2. StreamNotLiveRules \subseteq EvaluateRecoveries(s)
  BY DEF EvaluateRecoveries
<1> QED
  BY <1>1, <1>2

\* The posted signals are signals.
LEMMA SignalTypes ==
    ASSUME NEW s \in AllSignals
    PROVE  s \in Signal
<1>1. s.name \in SignalNames
  BY DEF SignalNames
<1>2. (\A v \in Readings : v \in Int) /\ 0 \in Int
  BY DEF Readings
<1>0. "" \in Statuses
  BY DEF Statuses
<1>3. CASE s \in {Plain(n, v, l) : n \in MetricNames, v \in Readings, l \in BOOLEAN}
  <2>1. PICK n \in MetricNames, v \in Readings, l \in BOOLEAN : s = Plain(n, v, l)
    BY <1>3
  <2> QED
    BY <1>0, <1>1, <1>2, <2>1 DEF Plain, SignalOf, Signal
<1>4. CASE s \in {EventSignal(n, l, e, u) :
                    n \in EventNames, l \in BOOLEAN, e \in BOOLEAN, u \in BOOLEAN}
  <2>1. PICK n \in EventNames, l \in BOOLEAN, e \in BOOLEAN, u \in BOOLEAN :
          s = EventSignal(n, l, e, u)
    BY <1>4
  <2> QED
    BY <1>0, <1>1, <1>2, <2>1 DEF EventSignal, SignalOf, Signal
<1>5. CASE s \in {ForwardSignal(v, l, c) : v \in Readings, l \in BOOLEAN, c \in BOOLEAN}
  <2>1. PICK v \in Readings, l \in BOOLEAN, c \in BOOLEAN :
          s = ForwardSignal(v, l, c)
    BY <1>5
  <2> QED
    BY <1>0, <1>1, <1>2, <2>1 DEF ForwardSignal, SignalOf, Signal
<1>6. CASE s \in {StatusSignal(l, t) : l \in BOOLEAN, t \in Statuses}
  <2>1. PICK l \in BOOLEAN, t \in Statuses :
          s = StatusSignal(l, t)
    BY <1>6
  <2> QED
    BY <1>0, <1>1, <1>2, <2>1 DEF StatusSignal, SignalOf, Signal
<1>7. CASE s \in {Unvalued(n, c, l, f) :
                    n \in CumulativeCounterMetrics, c \in 0 .. 3, l \in BOOLEAN, f \in BOOLEAN}
  <2>1. PICK n \in CumulativeCounterMetrics, c \in 0 .. 3, l \in BOOLEAN, f \in BOOLEAN :
          s = Unvalued(n, c, l, f)
    BY <1>7
  <2>2. c \in Int
    OBVIOUS
  <2> QED
    BY <1>0, <1>1, <1>2, <2>1, <2>2 DEF Unvalued, Signal
<1> QED
  BY <1>3, <1>4, <1>5, <1>6, <1>7 DEF AllSignals

\* A stop resolves every rule that only a live stream can break: each of the
\* others is also broken by some signal of a stream that is not live.
LEMMA StopCoversLiveRules == LiveOnlyRules \subseteq StreamNotLiveRules
<1> SUFFICES ASSUME NEW rule \in LiveOnlyRules, rule \notin StreamNotLiveRules PROVE FALSE
  OBVIOUS
<1>1. PICK s \in AllSignals : rule \in EvaluateIncidents(s)
  BY DEF LiveOnlyRules, Rules
<1>2. rule \in {"heartbeat_timeout", "archive_remux_slow", "gdrive_upload_retry_high",
                "high_packet_loss", "archive_package_failed", "gdrive_upload_failed", "disk_low"}
  BY <1>1, IncidentCases
     DEF StreamNotLiveRules, Has, AboveRules, AtLeastRules, LiveAtLeastRules,
         LiveCounterRules, LiveLowRules, LiveZeroRules, ZeroRules, LowRules, CounterRules,
         LiveNoneRules
<1>3. ASSUME NEW n \in MetricNames, NEW v \in Readings, NEW l \in BOOLEAN
      PROVE  Plain(n, v, l) \in AllSignals
  BY DEF AllSignals
<1>4. ASSUME NEW t \in AllSignals, rule \in EvaluateIncidents(t) PROVE t.live
  BY <1>4 DEF LiveOnlyRules
<1>5. ASSUME NEW n \in MetricNames, NEW v \in Readings, NEW l \in BOOLEAN, ~l,
             \/ Has(AboveRules, n, rule) /\ v = 3
             \/ Has(AtLeastRules, n, rule) /\ v = 3
             \/ Has(ZeroRules, n, rule) /\ v = 0
             \/ Has(LowRules, n, rule) /\ v = 1
      PROVE  FALSE
  <2> DEFINE t == Plain(n, v, l)
  <2>1. t.name = n /\ t.value = v /\ ~t.live
    BY <1>5 DEF Plain, SignalOf
  <2> HIDE DEF t
  <2>2. rule \in EvaluateIncidents(t)
    BY <1>5, <2>1 DEF EvaluateIncidents, Match, Has, Threshold
  <2> QED
    BY <1>3, <1>4, <2>1, <2>2 DEF t
<1>6. /\ Has(AboveRules, "heartbeat.age_sec", "heartbeat_timeout")
      /\ Has(AboveRules, "recorder.remux_duration_ms", "archive_remux_slow")
      /\ Has(AtLeastRules, "gdrive.upload_retry_count", "gdrive_upload_retry_high")
      /\ Has(AtLeastRules, "srt.packet_loss_percent", "high_packet_loss")
      /\ Has(ZeroRules, "archive.package_status", "archive_package_failed")
      /\ Has(ZeroRules, "gdrive.upload_status", "gdrive_upload_failed")
      /\ Has(LowRules, "host.disk_free_bytes", "disk_low")
  BY DEF Has, AboveRules, AtLeastRules, ZeroRules, LowRules
<1>7. \A n : \/ Has(AboveRules, n, rule) \/ Has(AtLeastRules, n, rule)
            \/ Has(ZeroRules, n, rule) \/ Has(LowRules, n, rule)
            => n \in MetricNames
  BY DEF Has, Metrics, MetricNames
<1>8. 0 \in Readings /\ 1 \in Readings /\ 3 \in Readings
  BY DEF Readings
<1> QED
  BY <1>2, <1>5, <1>6, <1>7, <1>8

-----------------------------------------------------------------------------
(* The requests.                                                             *)

AllRules == UNION {EvaluateIncidents(s) \cup EvaluateRecoveries(s) : s \in Signal}

Request == [pc : {"idle", "previous", "save", "evaluate", "actions"}, at : Nat,
            signal : Signal, alone : BOOLEAN, recoveries : SUBSET AllRules,
            failures : SUBSET AllRules, rule : AllRules \cup {""}]

Busy(t) == t.pc # "idle"

\* The rise of a total over a reading.
Rise(s, reading) ==
    IF reading # NoReading /\ s.value >= reading.value THEN s.value - reading.value ELSE 0

\* What is left of a stop's evaluation: rules it will still resolve.
StopInv(t, act) ==
    t.alone /\ IsStop(t.signal) /\ t.pc \in {"evaluate", "actions"}
    => /\ t.pc = "evaluate"
       /\ t.failures = {}
       /\ act \cap StreamNotLiveRules \subseteq t.recoveries

\* The delta a request has computed is the rise over the reading
\* LatestMetricValue still finds.
DeltaInv(t, found) ==
    t.pc = "save" /\ Counts(t.signal)
    => t.signal.counter = Rise(t.signal, found[t.signal.name])

\* A request on its own; the delta only as long as no two have overlapped.
RequestInv(t, act, found, ov) ==
    /\ t.recoveries \cap t.failures = {}
    /\ StopInv(t, act)
    /\ ~ov => DeltaInv(t, found)

\* The requests among each other.
RequestsInv ==
    /\ posts \in Nat
    /\ tx \in [Requests -> Request]
    /\ overlapped \in BOOLEAN
    /\ quiet \in BOOLEAN
    /\ \A r, q \in Requests : r # q =>
        /\ tx[r].alone => ~Busy(tx[q])
        /\ ~overlapped => ~(Busy(tx[r]) /\ Busy(tx[q]))
    /\ \A r \in Requests : RequestInv(tx[r], active, latest, overlapped)
    /\ quiet => /\ \A r \in Requests : ~Busy(tx[r])
                /\ active \cap StreamNotLiveRules = {}

Reading == [at : Nat, created : Nat, value : Int]

\* The saved readings of the totals.  The one LatestMetricValue finds is at most
\* the one saved last, and is that one as long as none was passed over.
ReadingsInv ==
    /\ clock \in Nat
    /\ latest \in [CumulativeCounterMetrics -> Reading]
    /\ first \in [CumulativeCounterMetrics -> Int]
    /\ last \in [CumulativeCounterMetrics -> Int]
    /\ total \in [CumulativeCounterMetrics -> Int]
    /\ \A m \in CumulativeCounterMetrics :
        /\ latest[m] = NoReading => total[m] = 0 /\ first[m] = 0 /\ last[m] = 0
        /\ m \notin fell => latest[m].value <= last[m]
        /\ m \notin passed => latest[m].value = last[m]
    /\ DeltasAddUp

\* The inductive invariant.
Inv == RequestsInv /\ ReadingsInv /\ ActionsUnlessRejected

-----------------------------------------------------------------------------

\* An idle request is a request, and owes nothing.
LEMMA IdleType ==
    /\ Idle \in Request /\ ~Busy(Idle) /\ ~Idle.alone
    /\ \A act, found, ov : RequestInv(Idle, act, found, ov)
<1>1. Plain("", 0, FALSE) \in Signal
  <2>1. "" \in SignalNames /\ "" \in Statuses /\ 0 \in Int
    BY DEF SignalNames, Statuses
  <2> QED
    BY <2>1 DEF Plain, SignalOf, Signal
<1>2. /\ Idle.pc = "idle" /\ Idle.at = 0 /\ Idle.signal = Plain("", 0, FALSE) /\ Idle.alone = FALSE
      /\ Idle.recoveries = {} /\ Idle.failures = {} /\ Idle.rule = ""
  BY DEF Idle
<1>3. Idle \in Request
  <2>1. 0 \in Nat
    OBVIOUS
  <2> QED
    BY <1>1, <2>1 DEF Idle, Request
<1> QED
  BY <1>2, <1>3 DEF Busy, RequestInv, StopInv, DeltaInv

\* The invariant holds initially.
LEMMA InitInv == Init => Inv
<1> SUFFICES ASSUME Init PROVE Inv
  OBVIOUS
<1>1. RequestsInv
  BY IdleType DEF Init, RequestsInv
<1>2. ReadingsInv
  BY DEF Init, ReadingsInv, Reading, DeltasAddUp, NoReading
<1>3. ActionsUnlessRejected
  BY DEF Init, ActionsUnlessRejected
<1> QED
  BY <1>1, <1>2, <1>3 DEF Inv

\* A step of a running request: what it leaves of itself is right, and the
\* others are idle wherever it matters.
LEMMA HandlerStep ==
    ASSUME RequestsInv, NEW r \in Requests, NEW t \in Request, Busy(tx[r]),
           tx' = [tx EXCEPT ![r] = t],
           UNCHANGED <<posts, overlapped>>,
           t.alone => tx[r].alone,
           RequestInv(t, active', latest', overlapped),
           \A q \in Requests \ {r} : Busy(tx[q]) => ~tx[r].alone,
           quiet' \in BOOLEAN,
           quiet' => quiet \/ (/\ ~Busy(t) /\ tx[r].alone
                               /\ active' \cap StreamNotLiveRules = {})
    PROVE  RequestsInv'
<1>1. \A q \in Requests : tx'[q] = IF q = r THEN t ELSE tx[q]
  BY DEF RequestsInv
<1>2. tx' \in [Requests -> Request]
  BY DEF RequestsInv
<1>3. ~quiet
  BY DEF RequestsInv
<1>4. ASSUME NEW p \in Requests, NEW q \in Requests, p # q
      PROVE  /\ tx'[p].alone => ~Busy(tx'[q])
             /\ ~overlapped => ~(Busy(tx'[p]) /\ Busy(tx'[q]))
  BY <1>1, <1>4 DEF RequestsInv
<1>5. ASSUME NEW q \in Requests
      PROVE  RequestInv(tx'[q], active', latest', overlapped)
  <2>1. CASE q = r
    BY <1>1, <2>1
  <2>2. CASE q # r
    <3>1. tx'[q] = tx[q] /\ ~tx[q].alone /\ RequestInv(tx[q], active, latest, overlapped)
      BY <1>1, <2>2 DEF RequestsInv
    <3>2. ~overlapped => tx[q].pc = "idle"
      BY <2>2 DEF RequestsInv, Busy
    <3> QED
      BY <3>1, <3>2 DEF RequestInv, StopInv, DeltaInv
  <2> QED
    BY <2>1, <2>2
<1>6. quiet' => /\ \A q \in Requests : ~Busy(tx'[q])
                /\ active' \cap StreamNotLiveRules = {}
  BY <1>1, <1>3 DEF RequestsInv
<1> QED
  BY <1>2, <1>4, <1>5, <1>6 DEF RequestsInv, Busy

\* A request that no other step may run beside.
LEMMA RunningAlone ==
    ASSUME RequestsInv, NEW r \in Requests
    PROVE  \A q \in Requests \ {r} : Busy(tx[q]) => ~tx[r].alone
BY DEF RequestsInv

\* The actions that are owed stay excused when nothing is owed anew, nothing
\* rejected is forgotten, and a request leaves "actions" only by paying.
LEMMA OwedStep ==
    ASSUME ActionsUnlessRejected, owed' \subseteq owed, rejected \subseteq rejected',
           \A r \in Requests : tx[r].pc = "actions" =>
              \/ /\ tx'[r].pc = "actions" /\ tx'[r].at = tx[r].at /\ tx'[r].rule = tx[r].rule
              \/ <<tx[r].at, tx[r].rule>> \notin owed'
              \/ tx[r].at \in rejected'
    PROVE  ActionsUnlessRejected'
<1> SUFFICES ASSUME NEW o \in owed'
             PROVE  \/ o[1] \in rejected'
                    \/ \E r \in Requests :
                         tx'[r].pc = "actions" /\ <<tx'[r].at, tx'[r].rule>> = o
  BY DEF ActionsUnlessRejected
<1>1. CASE o[1] \in rejected
  BY <1>1
<1>2. ASSUME NEW r \in Requests, tx[r].pc = "actions", <<tx[r].at, tx[r].rule>> = o
      PROVE  \/ o[1] \in rejected'
             \/ tx'[r].pc = "actions" /\ <<tx'[r].at, tx'[r].rule>> = o
  BY <1>2
<1> QED
  BY <1>1, <1>2 DEF ActionsUnlessRejected

\* A step that saves no reading.
LEMMA ReadingsKept ==
    ASSUME ReadingsInv, UNCHANGED <<store, readings>>, clock' \in Nat, overlapped => overlapped'
    PROVE  ReadingsInv'
BY DEF readings, ReadingsInv, DeltasAddUp

-----------------------------------------------------------------------------
(* One lemma per action.                                                     *)

\* A post.
LEMMA PostInv ==
    ASSUME Inv, NEW r \in Requests, NEW s \in Signals, Post(r, s)
    PROVE  Inv'
<1> DEFINE alone == \A q \in Requests : tx[q].pc = "idle"
           t == [Idle EXCEPT !.pc = "previous", !.at = posts + 1, !.signal = s, !.alone = alone]
<1>1. /\ tx[r].pc = "idle" /\ posts' = posts + 1
      /\ tx' = [q \in Requests |-> IF q = r THEN t ELSE [tx[q] EXCEPT !.alone = FALSE]]
      /\ overlapped' = (overlapped \/ ~alone)
      /\ quiet' = FALSE
      /\ UNCHANGED <<store, clock, readings, active, owed, rejected>>
  BY DEF Post
<1>2. /\ posts \in Nat /\ tx \in [Requests -> Request] /\ s \in Signal
      /\ overlapped \in BOOLEAN /\ alone \in BOOLEAN
  BY SignalTypes, IngestAssumption DEF Inv, RequestsInv
<1>3. /\ t \in Request /\ t.pc = "previous" /\ t.alone = alone
      /\ t.recoveries = {} /\ t.failures = {}
  <2>1. posts + 1 \in Nat
    BY <1>2
  <2> HIDE DEF alone
  <2> QED
    BY <1>2, <2>1, IdleType DEF Request, Idle
<1>4. ASSUME NEW q \in Requests \ {r}
      PROVE  /\ tx'[q] \in Request /\ tx'[q].alone = FALSE /\ tx'[q].pc = tx[q].pc
             /\ tx'[q].at = tx[q].at /\ tx'[q].rule = tx[q].rule /\ tx'[q].signal = tx[q].signal
             /\ tx'[q].recoveries = tx[q].recoveries /\ tx'[q].failures = tx[q].failures
  <2> HIDE DEF t
  <2>1. tx'[q] = [tx[q] EXCEPT !.alone = FALSE] /\ tx[q] \in Request
    BY <1>1, <1>2
  <2> QED
    BY <2>1 DEF Request
<1>5. tx'[r] = t
  BY <1>1
<1> HIDE DEF t
<1>6. RequestsInv'
  <2>1. tx' \in [Requests -> Request]
    <3>1. \A q \in Requests : tx'[q] \in Request
      BY <1>3, <1>4, <1>5
    <3>2. tx' = [q \in Requests |-> tx'[q]]
      BY <1>1
    <3> QED
      BY <3>1, <3>2
  <2>2. ASSUME NEW p \in Requests, NEW q \in Requests, p # q
        PROVE  /\ tx'[p].alone => ~Busy(tx'[q])
               /\ ~overlapped' => ~(Busy(tx'[p]) /\ Busy(tx'[q]))
    <3>1. tx'[p].alone => p = r /\ alone
      BY <1>3, <1>4, <1>5
    <3>2. ~overlapped' => alone
      BY <1>1, <1>2
    <3>3. alone => \A x \in Requests \ {r} : ~Busy(tx'[x])
      BY <1>4 DEF Busy
    <3> QED
      BY <2>2, <3>1, <3>2, <3>3
  <2>3. ASSUME NEW q \in Requests
        PROVE  RequestInv(tx'[q], active', latest', overlapped')
    <3>0. active' = active /\ latest' = latest
      BY <1>1 DEF readings
    <3>1. CASE q = r
      BY <1>3, <1>5, <3>1 DEF RequestInv, StopInv, DeltaInv
    <3>2. CASE q # r
      <4>1. RequestInv(tx[q], active, latest, overlapped)
        BY DEF Inv, RequestsInv
      <4>2. ~overlapped' => ~overlapped
        BY <1>1, <1>2
      <4> QED
        BY <1>4, <3>0, <3>2, <4>1, <4>2 DEF RequestInv, StopInv, DeltaInv
    <3> QED
      BY <3>1, <3>2
  <2>4. posts' \in Nat /\ overlapped' \in BOOLEAN /\ quiet' \in BOOLEAN /\ ~quiet'
    <3> HIDE DEF alone
    <3>1. posts' = posts + 1 /\ quiet' = FALSE /\ overlapped' = (overlapped \/ ~alone)
      BY <1>1, Zenon
    <3>2. posts' \in Nat
      BY <1>2, <3>1
    <3>3. overlapped' \in BOOLEAN /\ quiet' \in BOOLEAN /\ ~quiet'
      BY <3>1, Zenon
    <3> QED
      BY <3>2, <3>3
  <2> QED
    BY <2>1, <2>2, <2>3, <2>4 DEF RequestsInv
<1>7. ReadingsInv'
  <2>1. overlapped => overlapped'
    BY <1>1, <1>2
  <2>2. clock' \in Nat
    BY <1>1 DEF Inv, ReadingsInv
  <2> QED
    BY <1>1, <2>1, <2>2, ReadingsKept DEF Inv, ReadingsInv, answers
<1>8. ActionsUnlessRejected'
  BY <1>1, <1>4, OwedStep DEF Inv
<1> QED
  BY <1>6, <1>7, <1>8 DEF Inv

\* The delta is computed.
LEMMA DeltaStepInv ==
    ASSUME Inv, NEW r \in Requests, WithCumulativeCounterDelta(r)
    PROVE  Inv'
<1> DEFINE s == tx[r].signal
           c == IF Counts(s) THEN CounterDelta(s) ELSE s.counter
           u == [s EXCEPT !.counter = c]
           t == [tx[r] EXCEPT !.pc = "save", !.signal = u]
<1>1. /\ tx[r].pc = "previous" /\ tx' = [tx EXCEPT ![r] = t]
      /\ UNCHANGED <<store, clock, posts, readings, active, owed, answers>>
  BY DEF WithCumulativeCounterDelta
<1>2. /\ tx[r] \in Request /\ s \in Signal /\ s.value \in Int /\ s.counter \in Int
      /\ tx \in [Requests -> Request] /\ quiet \in BOOLEAN
  BY DEF Inv, RequestsInv, Request, Signal
<1>3. c \in Int /\ (Counts(s) => c = Rise(s, latest[s.name]))
  <2>1. Counts(s) => latest[s.name].value \in Int
    BY DEF Inv, ReadingsInv, Reading, Counts
  <2> HIDE DEF s
  <2> QED
    BY <1>2, <2>1 DEF CounterDelta, Rise
<1> HIDE DEF c
<1>4. u \in Signal /\ u.counter = c /\ u.name = s.name /\ u.value = s.value /\ (Counts(u) <=> Counts(s))
  <2> HIDE DEF s
  <2> QED
    BY <1>2, <1>3 DEF Signal, Counts
<1> HIDE DEF u
<1>5. /\ t \in Request /\ t.pc = "save" /\ t.alone = tx[r].alone
      /\ t.signal = u
      /\ t.recoveries = tx[r].recoveries /\ t.failures = tx[r].failures
  BY <1>2, <1>4 DEF Request
<1> HIDE DEF t
<1>6. RequestInv(t, active, latest, overlapped)
  <2>1. tx[r].recoveries \cap tx[r].failures = {}
    BY DEF Inv, RequestsInv, RequestInv
  <2>2. Rise(t.signal, latest[s.name]) = Rise(s, latest[s.name])
    BY <1>4, <1>5 DEF Rise
  <2> QED
    BY <1>3, <1>4, <1>5, <2>1, <2>2 DEF RequestInv, StopInv, DeltaInv
<1>7. RequestsInv'
  BY <1>1, <1>2, <1>5, <1>6, HandlerStep, RunningAlone DEF Inv, Busy, readings, answers
<1>8. ReadingsInv'
  BY <1>1, ReadingsKept DEF Inv, ReadingsInv, answers
<1>9. ActionsUnlessRejected'
  <2>1. \A q \in Requests : tx[q].pc = "actions" => tx'[q] = tx[q]
    BY <1>1, <1>2
  <2> QED
    BY <1>1, <2>1, OwedStep DEF Inv, answers
<1> QED
  BY <1>7, <1>8, <1>9 DEF Inv

\* What LatestMetricValue finds once a reading is saved.
LEMMA LatestReading ==
    ASSUME NEW old \in Reading, NEW new \in Reading, new.at >= 1,
           NEW reading \in LatestMetricValue(old, new)
    PROVE  /\ reading \in {old, new}
           /\ store = "memory" => reading = new
           /\ old = NoReading => reading = new
           /\ reading # NoReading
<1>1. /\ reading \in {old, new}
      /\ store = "memory" => reading = new
      /\ After(new, old) => reading = new
  BY DEF LatestMetricValue
<1>2. old = NoReading => After(new, old)
  BY DEF After, NoReading, Reading
<1>3. new # NoReading
  BY DEF NoReading, Reading
<1> QED
  BY <1>1, <1>2, <1>3

\* A reading is saved with its rise over the one LatestMetricValue finds.
LEMMA InsertReadingInv ==
    ASSUME ReadingsInv, NEW s \in Signal, Counts(s), NEW time \in Times,
           ~overlapped => s.counter = Rise(s, latest[s.name]),
           InsertReading(s, time), UNCHANGED <<store, clock, overlapped>>
    PROVE  ReadingsInv'
<1> DEFINE C == CumulativeCounterMetrics
           m == s.name
           new == [at |-> time, created |-> clock, value |-> s.value]
<1>1. PICK reading \in LatestMetricValue(latest[m], new) :
        /\ latest' = [latest EXCEPT ![m] = reading]
        /\ first' = [first EXCEPT ![m] = IF latest[m] = NoReading THEN s.value ELSE first[m]]
        /\ last' = [last EXCEPT ![m] = s.value]
        /\ total' = [total EXCEPT ![m] = total[m] + s.counter]
        /\ fell' = IF latest[m] # NoReading /\ s.value < last[m] THEN fell \cup {m} ELSE fell
        /\ passed' = IF reading # new THEN passed \cup {m} ELSE passed
  BY DEF InsertReading
<1>2. /\ m \in C /\ s.value \in Int /\ s.counter \in Int /\ clock \in Nat
      /\ time \in Nat /\ time >= 1
  BY IngestAssumption DEF Counts, Signal, Times, ReadingsInv
<1>3. /\ latest \in [C -> Reading] /\ first \in [C -> Int] /\ last \in [C -> Int]
      /\ total \in [C -> Int]
      /\ store = "memory" => passed = {}
  BY DEF ReadingsInv, DeltasAddUp
<1>0. ASSUME NEW n \in C
      PROVE  /\ latest[n] = NoReading => total[n] = 0 /\ first[n] = 0 /\ last[n] = 0
             /\ n \notin fell => latest[n].value <= last[n]
             /\ n \notin passed => latest[n].value = last[n]
             /\ ~overlapped /\ n \notin fell =>
                  /\ total[n] >= last[n] - first[n]
                  /\ n \notin passed => total[n] = last[n] - first[n]
  BY DEF ReadingsInv, DeltasAddUp
<1>4. new \in Reading /\ new.value = s.value /\ new.at >= 1
  BY <1>2 DEF Reading
<1> HIDE DEF new, C
<1>5. latest[m] \in Reading /\ first[m] \in Int /\ last[m] \in Int /\ total[m] \in Int
  BY <1>2, <1>3
<1>6. /\ reading \in Reading /\ reading \in {latest[m], new} /\ reading # NoReading
      /\ store = "memory" => reading = new
      /\ latest[m] = NoReading => reading = new
  BY <1>4, <1>5, LatestReading
<1>7. latest[m].value \in Int /\ reading.value \in Int
  BY <1>5, <1>6 DEF Reading
<1> HIDE DEF m
<1>8. /\ latest' \in [C -> Reading] /\ first' \in [C -> Int] /\ last' \in [C -> Int]
      /\ total' \in [C -> Int] /\ clock' \in Nat
  <2> DEFINE f == IF latest[m] = NoReading THEN s.value ELSE first[m]
             d == total[m] + s.counter
  <2>1. f \in Int /\ d \in Int
    BY <1>2, <1>5
  <2>2. first' = [first EXCEPT ![m] = f] /\ total' = [total EXCEPT ![m] = d]
    BY <1>1
  <2> HIDE DEF f, d
  <2> QED
    BY <1>1, <1>2, <1>3, <1>6, <2>1, <2>2
<1>9. \A n \in C \ {m} : /\ latest'[n] = latest[n] /\ first'[n] = first[n]
                         /\ last'[n] = last[n] /\ total'[n] = total[n]
                         /\ n \in fell' <=> n \in fell
                         /\ n \in passed' <=> n \in passed
  BY <1>1, <1>3
<1>10. /\ latest'[m] = reading /\ last'[m] = s.value /\ total'[m] = total[m] + s.counter
       /\ first'[m] = IF latest[m] = NoReading THEN s.value ELSE first[m]
  BY <1>1, <1>2, <1>3
<1>11. m \notin fell' => m \notin fell /\ (latest[m] = NoReading \/ s.value >= last[m])
  BY <1>1, <1>2, <1>5
<1>12. m \notin passed' => m \notin passed /\ reading = new
  BY <1>1
<1>13. m \notin fell' => reading.value <= s.value
  <2> SUFFICES ASSUME m \notin fell', reading = latest[m] PROVE reading.value <= s.value
    BY <1>2, <1>4, <1>6
  <2>1. latest[m] # NoReading /\ latest[m].value <= last[m] /\ s.value >= last[m]
    BY <1>0, <1>2, <1>6, <1>11
  <2> QED
    BY <1>2, <1>5, <1>7, <2>1
<1>14. ASSUME ~overlapped, m \notin fell'
       PROVE  /\ total'[m] >= last'[m] - first'[m]
              /\ m \notin passed' => total'[m] = last'[m] - first'[m]
  <2>1. s.counter = Rise(s, latest[m])
    BY <1>14 DEF m
  <2>2. CASE latest[m] = NoReading
    <3>1. s.counter = 0 /\ first'[m] = s.value /\ total[m] = 0
      BY <1>0, <1>2, <1>10, <2>1, <2>2 DEF Rise
    <3> QED
      BY <1>2, <1>10, <3>1
  <2>3. CASE latest[m] # NoReading
    <3>1. /\ m \notin fell /\ s.value >= last[m] /\ latest[m].value <= last[m]
          /\ total[m] >= last[m] - first[m]
          /\ m \notin passed => latest[m].value = last[m] /\ total[m] = last[m] - first[m]
      BY <1>0, <1>2, <1>11, <1>14, <2>3
    <3>2. s.value >= latest[m].value
      BY <1>2, <1>5, <1>7, <3>1
    <3>3. s.counter = s.value - latest[m].value
      BY <2>1, <2>3, <3>2 DEF Rise
    <3>4. first'[m] = first[m]
      BY <1>10, <2>3
    <3>5. total'[m] >= last'[m] - first'[m]
      BY <1>2, <1>5, <1>7, <1>10, <3>1, <3>3, <3>4
    <3>6. m \notin passed' => total'[m] = last'[m] - first'[m]
      BY <1>2, <1>5, <1>7, <1>10, <1>12, <3>1, <3>3, <3>4
    <3> QED
      BY <3>5, <3>6
  <2> QED
    BY <2>2, <2>3
<1>15. store = "memory" => passed' = {}
  BY <1>1, <1>3, <1>6
<1>16. DeltasAddUp'
  <2>1. ASSUME ~overlapped, NEW n \in C, n \notin fell'
        PROVE  /\ total'[n] >= last'[n] - first'[n]
               /\ n \notin passed' => total'[n] = last'[n] - first'[n]
    BY <1>0, <1>9, <1>14, <2>1
  <2> QED
    BY <1>15, <2>1 DEF DeltasAddUp, C
<1>17. ASSUME NEW n \in C
       PROVE  /\ latest'[n] = NoReading => total'[n] = 0 /\ first'[n] = 0 /\ last'[n] = 0
              /\ n \notin fell' => latest'[n].value <= last'[n]
              /\ n \notin passed' => latest'[n].value = last'[n]
  <2>1. CASE n = m
    BY <1>4, <1>6, <1>10, <1>12, <1>13, <2>1
  <2>2. CASE n # m
    BY <1>0, <1>9, <2>2
  <2> QED
    BY <2>1, <2>2
<1> QED
  BY <1>8, <1>16, <1>17 DEF ReadingsInv, C

\* The signal is saved and evaluated.
LEMMA SaveSignalInv ==
    ASSUME Inv, NEW r \in Requests, NEW time \in Times, SaveSignal(r, time)
    PROVE  Inv'
<1> DEFINE s == tx[r].signal
           R == EvaluateRecoveries(s)
           F == EvaluateIncidents(s)
           t == [tx[r] EXCEPT !.pc = "evaluate", !.recoveries = R, !.failures = F]
<1>1. /\ tx[r].pc = "save" /\ tx' = [tx EXCEPT ![r] = t]
      /\ UNCHANGED <<store, clock, posts, active, owed, overlapped, rejected, quiet>>
  BY DEF SaveSignal, answers
<1>2. /\ tx[r] \in Request /\ s \in Signal /\ s.value \in Int /\ s.counter \in Int
      /\ tx \in [Requests -> Request] /\ quiet \in BOOLEAN /\ posts \in Nat
  BY DEF Inv, RequestsInv, Request, Signal
<1>3. R \subseteq AllRules /\ F \subseteq AllRules
  BY <1>2 DEF AllRules
<1>4. R \cap F = {} /\ (IsStop(s) => F = {} /\ StreamNotLiveRules \subseteq R)
  BY <1>2, SignalIsDecisive, StopOnlyRecovers
<1>5. ReadingsInv'
  <2>1. CASE ~Counts(s)
    <3>1. UNCHANGED readings
      BY <2>1 DEF SaveSignal
    <3> QED
      BY <1>1, <3>1, ReadingsKept DEF Inv, ReadingsInv
  <2>2. CASE Counts(s)
    <3>1. InsertReading(s, time)
      BY <2>2 DEF SaveSignal
    <3>2. ~overlapped => s.counter = Rise(s, latest[s.name])
      BY <1>1, <2>2 DEF Inv, RequestsInv, RequestInv, DeltaInv
    <3> HIDE DEF s
    <3> QED
      BY <1>1, <1>2, <2>2, <3>1, <3>2, InsertReadingInv DEF Inv
  <2> QED
    BY <2>1, <2>2
<1> HIDE DEF R, F
<1>6. /\ t \in Request /\ t.pc = "evaluate" /\ t.alone = tx[r].alone /\ t.signal = s
      /\ t.recoveries = R /\ t.failures = F
  BY <1>2, <1>3 DEF Request
<1> HIDE DEF t
<1>7. RequestInv(t, active, latest', overlapped)
  <2>1. active \cap StreamNotLiveRules \subseteq StreamNotLiveRules
    OBVIOUS
  <2> QED
    BY <1>4, <1>6, <2>1 DEF RequestInv, StopInv, DeltaInv
<1>8. RequestsInv'
  <2>1. /\ active' = active /\ quiet' = quiet /\ Busy(tx[r])
        /\ tx' = [tx EXCEPT ![r] = t] /\ UNCHANGED <<posts, overlapped>>
    BY <1>1 DEF Busy
  <2>2. RequestInv(t, active', latest', overlapped)
    BY <1>7, <2>1
  <2> HIDE DEF s
  <2> QED
    BY <1>2, <1>6, <2>1, <2>2, HandlerStep, RunningAlone DEF Inv
<1>9. ActionsUnlessRejected'
  <2>1. \A q \in Requests : tx[q].pc = "actions" => tx'[q] = tx[q]
    BY <1>1, <1>2
  <2> QED
    BY <1>1, <2>1, OwedStep DEF Inv
<1> QED
  BY <1>5, <1>8, <1>9 DEF Inv

\* A rule is resolved.
LEMMA RecoverInv ==
    ASSUME Inv, NEW r \in Requests, Recover(r)
    PROVE  Inv'
<1> DEFINE rule == CHOOSE c \in tx[r].recoveries : TRUE
           R == tx[r].recoveries \ {rule}
           t == [tx[r] EXCEPT !.recoveries = R]
<1>1. /\ tx[r].pc = "evaluate" /\ tx' = [tx EXCEPT ![r] = t] /\ active' = active \ {rule}
      /\ UNCHANGED <<store, clock, posts, readings, owed, answers>>
  BY DEF Recover
<1>2. tx[r] \in Request /\ tx \in [Requests -> Request] /\ quiet \in BOOLEAN
  BY DEF Inv, RequestsInv
<1> HIDE DEF rule
<1>3. R \subseteq AllRules /\ R \subseteq tx[r].recoveries
  BY <1>2 DEF Request
<1>4. RequestInv(tx[r], active, latest, overlapped)
  BY DEF Inv, RequestsInv
<1>5. active' \cap StreamNotLiveRules \subseteq (active \cap StreamNotLiveRules) \ {rule}
  BY <1>1
<1>6. ASSUME active \cap StreamNotLiveRules \subseteq tx[r].recoveries
      PROVE  active' \cap StreamNotLiveRules \subseteq R
  BY <1>5, <1>6
<1> HIDE DEF R
<1>7. /\ t \in Request /\ t.pc = "evaluate" /\ t.alone = tx[r].alone /\ t.signal = tx[r].signal
      /\ t.recoveries = R /\ t.failures = tx[r].failures
  BY <1>1, <1>2, <1>3 DEF Request
<1> HIDE DEF t
<1>8. RequestInv(t, active', latest, overlapped)
  BY <1>1, <1>3, <1>4, <1>6, <1>7 DEF RequestInv, StopInv, DeltaInv
<1>9. RequestsInv'
  <2>1. /\ latest' = latest /\ quiet' = quiet /\ Busy(tx[r])
        /\ tx' = [tx EXCEPT ![r] = t] /\ UNCHANGED <<posts, overlapped>>
    BY <1>1 DEF Busy, readings, answers
  <2>2. RequestInv(t, active', latest', overlapped)
    BY <1>8, <2>1
  <2> QED
    BY <1>2, <1>7, <2>1, <2>2, HandlerStep, RunningAlone DEF Inv
<1>10. ReadingsInv'
  BY <1>1, ReadingsKept DEF Inv, ReadingsInv, answers
<1>11. ActionsUnlessRejected'
  <2>1. \A q \in Requests : tx[q].pc = "actions" => tx'[q] = tx[q]
    BY <1>1, <1>2
  <2> QED
    BY <1>1, <2>1, OwedStep DEF Inv, answers
<1> QED
  BY <1>9, <1>10, <1>11 DEF Inv

\* A rule is opened or repeated.
LEMMA DetectInv ==
    ASSUME Inv, NEW r \in Requests, NEW rule \in tx[r].failures, Detect(r, rule)
    PROVE  Inv'
<1> DEFINE F == tx[r].failures \ {rule}
           new == rule \notin active
           pc == IF new THEN "actions" ELSE "evaluate"
           k == IF new THEN rule ELSE tx[r].rule
           t == [tx[r] EXCEPT !.failures = F, !.pc = pc, !.rule = k]
<1>1. tx[r] \in Request /\ tx \in [Requests -> Request] /\ quiet \in BOOLEAN
  BY DEF Inv, RequestsInv
<1>2. /\ tx[r].pc = "evaluate" /\ UNCHANGED <<store, clock, posts, readings, answers>>
      /\ owed' \subseteq owed \cup {<<tx[r].at, rule>>}
      /\ ~new => owed' = owed
  BY DEF Detect
<1>3. tx' = [tx EXCEPT ![r] = t]
  <2>1. CASE new
    <3>1. tx' = [tx EXCEPT ![r].failures = F, ![r].pc = "actions", ![r].rule = rule]
      BY <2>1 DEF Detect
    <3> QED
      BY <1>1, <2>1, <3>1
  <2>2. CASE ~new
    <3>1. tx' = [tx EXCEPT ![r].failures = F]
      BY <2>2 DEF Detect
    <3>2. [tx[r] EXCEPT !.failures = F] = t
      BY <1>1, <1>2, <2>2 DEF Request
    <3> QED
      BY <1>1, <3>1, <3>2
  <2> QED
    BY <2>1, <2>2
<1>4. RequestInv(tx[r], active, latest, overlapped)
  BY DEF Inv, RequestsInv
<1>5. /\ F \subseteq AllRules /\ F \subseteq tx[r].failures /\ k \in AllRules \cup {""}
      /\ pc \in {"evaluate", "actions"}
  BY <1>1 DEF Request
<1> HIDE DEF F, pc, k, new
<1>6. /\ t \in Request /\ t.pc = pc /\ t.at = tx[r].at /\ t.alone = tx[r].alone
      /\ t.signal = tx[r].signal /\ t.recoveries = tx[r].recoveries /\ t.failures = F
      /\ t.rule = k
  BY <1>1, <1>5 DEF Request
<1> HIDE DEF t
<1>7. ~(tx[r].alone /\ IsStop(tx[r].signal))
  BY <1>2, <1>4 DEF RequestInv, StopInv
<1>8. RequestInv(t, active', latest, overlapped)
  BY <1>4, <1>5, <1>6, <1>7 DEF RequestInv, StopInv, DeltaInv
<1>9. RequestsInv'
  <2>1. /\ latest' = latest /\ quiet' = quiet /\ Busy(tx[r])
        /\ UNCHANGED <<posts, overlapped>>
    BY <1>2 DEF Busy, readings, answers
  <2>2. RequestInv(t, active', latest', overlapped)
    BY <1>8, <2>1
  <2> QED
    BY <1>1, <1>3, <1>6, <2>1, <2>2, HandlerStep, RunningAlone DEF Inv
<1>10. ReadingsInv'
  BY <1>2, ReadingsKept DEF Inv, ReadingsInv, answers
<1>11. ActionsUnlessRejected'
  <2>1. \A q \in Requests : tx[q].pc = "actions" => tx'[q] = tx[q]
    BY <1>1, <1>2, <1>3
  <2>2. rejected' = rejected
    BY <1>2 DEF answers
  <2>3. ASSUME NEW o \in owed'
        PROVE  \/ o[1] \in rejected'
               \/ \E q \in Requests : tx'[q].pc = "actions" /\ <<tx'[q].at, tx'[q].rule>> = o
    <3>1. CASE o \in owed
      BY <2>1, <2>2, <3>1 DEF Inv, ActionsUnlessRejected
    <3>2. CASE o \notin owed
      <4>1. new /\ o = <<tx[r].at, rule>>
        BY <1>2, <2>3, <3>2
      <4>2. tx'[r] = t /\ t.pc = "actions" /\ t.at = tx[r].at /\ t.rule = rule
        BY <1>1, <1>3, <1>6, <4>1 DEF pc, k
      <4> QED
        BY <4>1, <4>2
    <3> QED
      BY <3>1, <3>2
  <2> QED
    BY <2>3 DEF ActionsUnlessRejected
<1> QED
  BY <1>9, <1>10, <1>11 DEF Inv

\* The actions of an incident are created.
LEMMA CreateActionsInv ==
    ASSUME Inv, NEW r \in Requests, CreateRemediationActions(r)
    PROVE  Inv'
<1> DEFINE t == [tx[r] EXCEPT !.pc = "evaluate", !.rule = ""]
<1>1. /\ tx[r].pc = "actions" /\ tx' = [tx EXCEPT ![r] = t]
      /\ owed' = owed \ {<<tx[r].at, tx[r].rule>>}
      /\ UNCHANGED <<store, clock, posts, readings, active, answers>>
  BY DEF CreateRemediationActions
<1>2. tx[r] \in Request /\ tx \in [Requests -> Request] /\ quiet \in BOOLEAN
  BY DEF Inv, RequestsInv
<1>3. RequestInv(tx[r], active, latest, overlapped)
  BY DEF Inv, RequestsInv
<1>4. /\ t \in Request /\ t.pc = "evaluate" /\ t.alone = tx[r].alone /\ t.signal = tx[r].signal
      /\ t.recoveries = tx[r].recoveries /\ t.failures = tx[r].failures
  BY <1>2 DEF Request
<1> HIDE DEF t
<1>5. RequestInv(t, active, latest, overlapped)
  <2>1. ~(tx[r].alone /\ IsStop(tx[r].signal))
    BY <1>1, <1>3 DEF RequestInv, StopInv
  <2> QED
    BY <1>3, <1>4, <2>1 DEF RequestInv, StopInv, DeltaInv
<1>6. RequestsInv'
  <2>1. /\ latest' = latest /\ active' = active /\ quiet' = quiet /\ Busy(tx[r])
        /\ tx' = [tx EXCEPT ![r] = t] /\ UNCHANGED <<posts, overlapped>>
    BY <1>1 DEF Busy, readings, answers
  <2>2. RequestInv(t, active', latest', overlapped)
    BY <1>5, <2>1
  <2> QED
    BY <1>2, <1>4, <2>1, <2>2, HandlerStep, RunningAlone DEF Inv
<1>7. ReadingsInv'
  BY <1>1, ReadingsKept DEF Inv, ReadingsInv, answers
<1>8. ActionsUnlessRejected'
  <2>1. \A q \in Requests \ {r} : tx'[q] = tx[q]
    BY <1>1, <1>2
  <2>2. owed' \subseteq owed /\ <<tx[r].at, tx[r].rule>> \notin owed' /\ rejected' = rejected
    BY <1>1 DEF answers
  <2> QED
    BY <2>1, <2>2, OwedStep DEF Inv
<1> QED
  BY <1>6, <1>7, <1>8 DEF Inv

\* A request ends: refused, or accepted when it has nothing left to do.
LEMMA EndInv ==
    ASSUME Inv, NEW r \in Requests, Busy(tx[r]),
           tx' = [tx EXCEPT ![r] = Idle],
           UNCHANGED <<store, clock, posts, readings, active, owed, overlapped>>,
           rejected \subseteq rejected',
           tx[r].pc = "actions" => tx[r].at \in rejected',
           quiet' \in BOOLEAN,
           quiet' => quiet \/ (tx[r].alone /\ active \cap StreamNotLiveRules = {})
    PROVE  Inv'
<1>1. tx \in [Requests -> Request]
  BY DEF Inv, RequestsInv
<1>2. RequestsInv'
  <2>1. active' = active /\ UNCHANGED <<posts, overlapped>>
    OBVIOUS
  <2> QED
    BY <2>1, IdleType, HandlerStep, RunningAlone DEF Inv
<1>3. ReadingsInv'
  BY ReadingsKept DEF Inv, ReadingsInv, answers
<1>4. ActionsUnlessRejected'
  <2>1. \A q \in Requests \ {r} : tx'[q] = tx[q]
    BY <1>1
  <2> QED
    BY <2>1, OwedStep DEF Inv
<1> QED
  BY <1>2, <1>3, <1>4 DEF Inv

\* A call to the store fails.
LEMMA StoreFailsInv ==
    ASSUME Inv, NEW r \in Requests, StoreFails(r)
    PROVE  Inv'
<1>1. Busy(tx[r])
  BY DEF StoreFails, CallsStore, Busy
<1>2. quiet \in BOOLEAN
  BY DEF Inv, RequestsInv
<1> QED
  BY <1>1, <1>2, EndInv DEF StoreFails

\* The post is accepted.
LEMMA AcceptInv ==
    ASSUME Inv, NEW r \in Requests, Accept(r)
    PROVE  Inv'
<1>1. Busy(tx[r]) /\ tx[r].pc = "evaluate" /\ tx[r].recoveries = {}
  BY DEF Accept, Busy
<1>2. quiet' = (tx[r].alone /\ IsStop(tx[r].signal))
  BY DEF Accept
<1>3. quiet' \in BOOLEAN
  BY <1>2, Zenon
<1>4. quiet' => tx[r].alone /\ active \cap StreamNotLiveRules = {}
  <2>1. StopInv(tx[r], active)
    BY DEF Inv, RequestsInv, RequestInv
  <2> QED
    BY <1>1, <1>2, <2>1 DEF StopInv
<1>5. /\ tx' = [tx EXCEPT ![r] = Idle] /\ rejected' = rejected
      /\ UNCHANGED <<store, clock, posts, readings, active, owed, overlapped>>
  BY DEF Accept
<1> QED
  BY <1>1, <1>3, <1>4, <1>5, EndInv

\* Every step keeps the invariant.
LEMMA NextInv == Inv /\ [Next]_vars => Inv'
<1> SUFFICES ASSUME Inv, [Next]_vars PROVE Inv'
  OBVIOUS
<1>1. ASSUME NEW r \in Requests, Handle(r) PROVE Inv'
  <2>1. CASE \E time \in Times : SaveSignal(r, time)
    BY <2>1, SaveSignalInv
  <2>2. CASE \E rule \in tx[r].failures : Detect(r, rule)
    BY <2>2, DetectInv
  <2> QED
    BY <1>1, <2>1, <2>2, DeltaStepInv, RecoverInv, CreateActionsInv, StoreFailsInv, AcceptInv
       DEF Handle
<1>2. ASSUME NEW r \in Requests, NEW s \in Signals, Post(r, s) PROVE Inv'
  BY <1>2, PostInv
<1>3. CASE Tick \/ UNCHANGED vars
  <2>1. UNCHANGED <<store, posts, tx, readings, active, owed, answers>>
    BY <1>3 DEF Tick, vars
  <2>2. RequestsInv'
    BY <2>1 DEF Inv, RequestsInv, readings, answers
  <2>3. ReadingsInv'
    <3>1. clock' = clock \/ clock' = clock + 1
      BY <1>3 DEF Tick, vars
    <3>2. clock' \in Nat
      BY <3>1 DEF Inv, ReadingsInv
    <3> QED
      BY <2>1, <3>2, ReadingsKept DEF Inv, answers
  <2>4. ActionsUnlessRejected'
    BY <2>1, OwedStep DEF Inv, answers
  <2> QED
    BY <2>2, <2>3, <2>4 DEF Inv
<1> QED
  BY <1>1, <1>2, <1>3 DEF Next

-----------------------------------------------------------------------------

\* The requests, the readings and the actions that are owed stay consistent,
\* for any number of concurrent handlers.
THEOREM Invariance == Spec => []Inv
BY InitInv, NextInv, PTL DEF Spec

\* No signal opens and resolves one rule, neither as posted nor judged by the
\* delta that withCumulativeCounterDelta computed for it.
THEOREM RulesAreDecisive == Spec => []Decisive
<1>1. Contradictory = {}
  BY SignalTypes, SignalIsDecisive DEF Contradictory
<1>2. Inv => Decisive
  BY <1>1 DEF Inv, RequestsInv, RequestInv, Decisive
<1> QED
  BY <1>2, Invariance, PTL

\* An accepted stop that ran alone leaves no incident that only a live stream
\* can have: the rules evaluateRecoveries lists for a stop cover every such rule.
THEOREM StopsAreQuiet == Spec => []StoppedStreamIsQuiet
<1>1. Inv => StoppedStreamIsQuiet
  BY StopCoversLiveRules DEF Inv, RequestsInv, StoppedStreamIsQuiet
<1> QED
  BY <1>1, Invariance, PTL

\* While requests do not overlap, the deltas of a total that does not fall never
\* add up to less than its rise, over failed requests, lost answers, any times
\* and any ids; and to no more than it unless MariaDB has passed over a reading
\* for an earlier saved one.
THEOREM DeltasOfTotalsAddUp == Spec => []DeltasAddUp
<1>1. Inv => DeltasAddUp
  BY DEF Inv, ReadingsInv
<1> QED
  BY <1>1, Invariance, PTL

\* An incident is without its actions only while its request is creating them
\* or when its sender was told of an error.
THEOREM ActionsOrError == Spec => []ActionsUnlessRejected
<1>1. Inv => ActionsUnlessRejected
  BY DEF Inv
<1> QED
  BY <1>1, Invariance, PTL

=============================================================================
