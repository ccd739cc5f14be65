------------------------ MODULE MCNotificationHistory ------------------------
(* One incident and an audit event, and nobody but the fallback webhook. *)
EXTENDS NotificationHistory, TLC

CONSTANTS opened, audit

MCBase == opened :> "a" @@ audit :> "b"

=============================================================================
