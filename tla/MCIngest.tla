------------------------------- MODULE MCIngest -------------------------------
(* A counter of a live stream, its frame rate, and the stream's status. *)
EXTENDS Ingest, TLC

MCSignals ==
    {Plain("encoder.dropped_frames_total", v, TRUE) : v \in {1, 3}}
    \cup {Unvalued("encoder.dropped_frames_total", 2, TRUE, FALSE), Plain("encoder.output_fps", 1, TRUE)}
    \cup {StatusSignal(l, "stopped") : l \in BOOLEAN}

Symmetry == Permutations(Requests)

=============================================================================
