------------------------ MODULE MCNotificationLifecycle ------------------------
(***************************************************************************)
(* NotificationDedupe with two history variables: which deliveries were    *)
(* reserved before the last resolution of their resource, and who accepted *)
(* an event from a delivery reserved after it.                             *)
(***************************************************************************)
EXTENDS MCNotificationDedupe

VARIABLES past, current

Reserves(event) ==
    \/ Suppress(event)
    \/ \E d \in Deliveries : ReserveFresh(d, event) \/ ReserveRetry(d, event)

LifecycleInit == Init /\ past = {} /\ current = [e \in Events |-> {}]

\* A resolution ends the lifecycle of the other events of its resource.
Resolve(event) ==
    /\ Reserves(event)
    /\ past' = past \cup {d \in Deliveries : Running(d) /\ deliveries[d].event \in Closed(event)}
    /\ current' = [e \in Events |-> IF e \in Closed(event) THEN {} ELSE current[e]]

\* Any other step: what a delivery of the present lifecycle adds.
Continue ==
    /\ Next
    /\ ~\E e \in Resolutions : Reserves(e)
    /\ past' = {d \in past : deliveries'[d].pc # "idle"}
    /\ current' = [e \in Events |->
         current[e] \cup UNION {deliveries'[d].ok \ deliveries[d].ok :
                                d \in {x \in Deliveries \ past : deliveries[x].event = e}}]

LifecycleNext == (\E e \in Resolutions : Resolve(e)) \/ Continue

LifecycleSpec == LifecycleInit /\ [][LifecycleNext]_<<vars, past, current>>

\* "A newly opened incident with the same external resource must be able to
\* notify immediately afterwards": once the resource was resolved, its event
\* counts as delivered only if a delivery of the new lifecycle reached someone.
NewLifecycleNotifies ==
    \A e \in Events : entries[e].delivered => current[e] # {}

=============================================================================
