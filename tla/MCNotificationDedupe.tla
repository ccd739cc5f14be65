------------------------- MODULE MCNotificationDedupe -------------------------
(***************************************************************************)
(* One resource that opens and resolves, and an event that is not          *)
(* deduplicated.  Since it has no entry, its deliveries are followed only  *)
(* until somebody accepts it; MCNotificationHistory follows them to the end.*)
(***************************************************************************)
EXTENDS NotificationDedupe, TLC

CONSTANTS opened, resolved, audit

MCBase == opened :> "a" @@ resolved :> "a" @@ audit :> "b"

IneligibleBound == \A e \in Ineligible : accepted[e] = {}

Symmetry == Permutations(Destinations) \cup Permutations(Deliveries)

=============================================================================
