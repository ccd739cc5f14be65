------------------------------ MODULE Detection ------------------------------
(***************************************************************************)
(* The rules that turn one signal into failures and recoveries             *)
(* (internal/detection).  A rule compares its metric with zero and with at *)
(* most one threshold, and every threshold is positive, so five readings   *)
(* tell all cases apart: below zero, zero, below, at and above it.  A       *)
(* cumulative metric is judged by its counter (the rise since the last      *)
(* reading), any other by its value.  Severities and texts are left out.    *)
(***************************************************************************)
EXTENDS Integers

Threshold == 2

Readings == -1 .. 3

(***************************************************************************)
(* A signal: its metric, its value (evaluateSignal takes 0 for none), the  *)
(* counter, whether a cumulative metric came with a value, whether the      *)
(* stream is live, the stream's status, whether the signal is of type       *)
(* error, whether failure_phase is upload, and whether its attributes show  *)
(* a recent successful forward.                                             *)
(***************************************************************************)
SignalOf(name, value, live, status, error, upload, recent) ==
    [name |-> name, value |-> value, counter |-> value, valued |-> TRUE, live |-> live,
     status |-> status, error |-> error, upload |-> upload, recent |-> recent]

Plain(name, value, live) == SignalOf(name, value, live, "", FALSE, FALSE, FALSE)

EventSignal(name, live, error, upload) == SignalOf(name, 0, live, "", error, upload, FALSE)

ForwardSignal(value, live, recent) ==
    SignalOf("discord.audio_forward_errors_total", value, live, "", FALSE, FALSE, recent)

\* A cumulative metric without a value: nothing computes its delta, and it is
\* judged by the one its sender put into the attributes, or by 0.
Unvalued(name, counter, live, recent) ==
    [name |-> name, value |-> 0, counter |-> counter, valued |-> FALSE, live |-> live,
     status |-> "", error |-> FALSE, upload |-> FALSE, recent |-> recent]

StatusSignal(live, status) == SignalOf("stream.status", 0, live, status, FALSE, FALSE, FALSE)

\* value > threshold fails, the rest recovers.
AboveRules ==
    {<<"heartbeat.age_sec", "heartbeat_timeout">>,
     <<"recorder.remux_duration_ms", "archive_remux_slow">>,
     <<"stream.start_duration_ms", "stream_start_timeout">>,
     <<"stream.stop_duration_ms", "stream_stop_timeout">>}

\* value >= threshold fails, the rest recovers.
AtLeastRules ==
    {<<"gdrive.upload_retry_count", "gdrive_upload_retry_high">>,
     <<"srt.packet_loss_percent", "high_packet_loss">>,
     <<"rtp.packet_loss_percent", "high_packet_loss">>}

\* The same on a live stream; any reading of a stream that is not live
\* recovers.
LiveAtLeastRules ==
    {<<"encoder.audio_silence_sec", "audio_silence">>,
     <<"media.input_timeout_sec", "media_input_timeout">>}

LiveCounterRules ==
    {<<"rtmp.reconnect_count", "rtmps_reconnect_loop">>,
     <<"encoder.rtmp_reconnect_count", "rtmps_reconnect_loop">>,
     <<"encoder.dropped_frames_total", "encoder_dropped_frames_high">>,
     <<"encoder.audio_clipping_total", "audio_clipping">>,
     <<"discord.reconnect_count", "discord_reconnect_loop">>,
     <<"discord.voice_disconnect_count", "discord_voice_disconnected">>}

\* Too low on a live stream; zero says nothing.
LiveLowRules ==
    {<<"encoder.output_fps", "encoder_low_fps">>,
     <<"encoder.output_bitrate_kbps", "encoder_bitrate_low">>}

\* Zero on a live stream fails, a positive value recovers.
LiveZeroRules ==
    {<<"encoder.process_alive", "encoder_process_exited">>,
     <<"discord.audio_receiving", "discord_audio_not_receiving">>,
     <<"discord.audio_forward_active", "discord_audio_forward_inactive">>}

\* The same on any stream.
ZeroRules ==
    {<<"archive.package_status", "archive_package_failed">>,
     <<"gdrive.upload_status", "gdrive_upload_failed">>}

\* Too low, zero says nothing, on any stream.
LowRules ==
    {<<"recorder.disk_free_bytes", "disk_low">>,
     <<"host.disk_free_bytes", "disk_low">>}

\* Any rise fails, no rise recovers.
CounterRules ==
    {<<"worker.event_send_failures_total", "worker_event_send_failed">>,
     <<"discord.worker_event_publish_failures_total", "worker_event_send_failed">>}

\* Zero or less on a live stream fails.
LiveNoneRules ==
    {<<"recorder.write_bitrate_kbps", "recorder_not_writing">>,
     <<"recorder.file_size_bytes", "recorder_not_writing">>}

\* The metrics of a table.
Metrics(table) == {p[1] : p \in table}

CumulativeCounterMetrics ==
    Metrics(LiveCounterRules) \cup Metrics(CounterRules)
    \cup {"discord.audio_forward_errors_total"}

\* The rule of table that s matches under the condition.
Match(table, s, condition) == {p[2] : p \in {q \in table : q[1] = s.name /\ condition}}

When(rule, condition) == IF condition THEN {rule} ELSE {}

\* What a signal of "discord.audio_forward_errors_total" says of its rule.
ForwardFails(s) == s.live /\ s.counter > 0 /\ ~s.recent

EvaluateIncidents(s) ==
    UNION {
        Match(AboveRules, s, s.value > Threshold),
        Match(AtLeastRules, s, s.value >= Threshold),
        Match(LiveAtLeastRules, s, s.live /\ s.value >= Threshold),
        Match(LiveCounterRules, s, s.live /\ s.counter >= Threshold),
        Match(LiveLowRules, s, s.live /\ s.value > 0 /\ s.value < Threshold),
        Match(LiveZeroRules, s, s.live /\ s.value = 0),
        Match(ZeroRules, s, s.value = 0),
        Match(LowRules, s, s.value > 0 /\ s.value < Threshold),
        Match(CounterRules, s, s.counter > 0),
        Match(LiveNoneRules, s, s.live /\ s.value <= 0),
        When("encoder_process_exited", s.name = "encoder.process.exited" /\ s.error),
        When("gdrive_upload_failed",
             s.name = "archive.upload.failed" \/ (s.name = "archive.package.failed" /\ s.upload)),
        When("archive_package_failed", s.name = "archive.package.failed" /\ ~s.upload),
        When("discord_audio_forward_failed",
             s.name = "discord.audio_forward_errors_total" /\ ForwardFails(s)),
        When("discord_audio_forward_stale",
             s.name = "discord.audio_last_forward_age_sec" /\ s.live /\ s.value >= Threshold),
        When("unexpected_stopped",
             s.name = "stream.status" /\ s.live /\ s.status \in {"stopped", "failed"})}

\* Mutant of StreamNotLiveRules: a rule was added and not listed here.
StreamNotLiveRulesShort ==
    {"unexpected_stopped", "encoder_process_exited", "recorder_not_writing",
     "rtmps_reconnect_loop", "encoder_low_fps", "encoder_bitrate_low"}

\* What a stream.status that is neither live nor failed recovers.
StreamNotLiveRules ==
    {"unexpected_stopped", "encoder_process_exited", "recorder_not_writing",
     "rtmps_reconnect_loop", "encoder_low_fps", "encoder_bitrate_low",
     "encoder_dropped_frames_high", "audio_silence", "audio_clipping",
     "discord_audio_not_receiving", "discord_audio_forward_inactive",
     "discord_audio_forward_failed", "discord_audio_forward_stale",
     "discord_reconnect_loop", "discord_voice_disconnected", "media_input_timeout",
     "worker_event_send_failed", "stream_start_timeout", "stream_stop_timeout"}

IsStop(s) == s.name = "stream.status" /\ ~s.live /\ s.status # "failed"

\* Mutant of EvaluateRecoveries: the comparisons overlap at the threshold.
EvaluateRecoveriesInclusive(s) ==
    UNION {Match(AboveRules, s, s.value <= Threshold),
           Match(LiveCounterRules, s, ~s.live \/ s.counter <= Threshold)}

EvaluateRecoveries(s) ==
    UNION {
        Match(AboveRules, s, s.value <= Threshold),
        Match(AtLeastRules, s, s.value < Threshold),
        Match(LiveAtLeastRules, s, ~s.live \/ s.value < Threshold),
        Match(LiveCounterRules, s, ~s.live \/ s.counter < Threshold),
        Match(LiveLowRules, s, ~s.live \/ s.value >= Threshold),
        Match(LiveZeroRules, s, s.value > 0),
        Match(ZeroRules, s, s.value > 0),
        Match(LowRules, s, s.value >= Threshold),
        Match(CounterRules, s, s.counter <= 0),
        When("recorder_not_writing", s.name = "recorder.write_bitrate_kbps" /\ s.value > 0),
        When("gdrive_upload_retry_high", s.name = "gdrive.upload_status" /\ s.value > 0),
        When("discord_audio_forward_stale",
             \/ s.name = "discord.audio_last_forward_age_sec" /\ s.value < Threshold
             \/ s.name = "discord.audio_forward_errors_total" /\ s.recent),
        When("discord_audio_forward_failed",
             s.name = "discord.audio_forward_errors_total" /\ (s.recent \/ s.counter <= 0)),
        IF IsStop(s) THEN StreamNotLiveRules ELSE {}}

MetricNames ==
    UNION {Metrics(AboveRules), Metrics(AtLeastRules), Metrics(LiveAtLeastRules),
           Metrics(LiveCounterRules), Metrics(LiveLowRules), Metrics(LiveZeroRules),
           Metrics(ZeroRules), Metrics(LowRules), Metrics(CounterRules),
           Metrics(LiveNoneRules), {"discord.audio_last_forward_age_sec"}}

EventNames == {"encoder.process.exited", "archive.package.failed", "archive.upload.failed"}

Statuses == {"", "stopped", "failed"}

\* Every signal the rules can tell apart.
AllSignals ==
    {Plain(n, v, l) : n \in MetricNames, v \in Readings, l \in BOOLEAN}
    \cup {EventSignal(n, l, e, u) :
            n \in EventNames, l \in BOOLEAN, e \in BOOLEAN, u \in BOOLEAN}
    \cup {ForwardSignal(v, l, c) : v \in Readings, l \in BOOLEAN, c \in BOOLEAN}
    \cup {Unvalued(n, c, l, f) :
            n \in CumulativeCounterMetrics, c \in 0 .. 3, l \in BOOLEAN, f \in BOOLEAN}
    \cup {StatusSignal(l, t) : l \in BOOLEAN, t \in Statuses}

==============================================================================
