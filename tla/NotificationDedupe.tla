-------------------------- MODULE NotificationDedupe --------------------------
(***************************************************************************)
(* notificationDeduper and the fan-out it guards (deliverNotificationEvent *)
(* and ChannelNotifier).  Handlers run concurrently; each one reserves its *)
(* event, reads the channels, sends to one destination after another and   *)
(* completes the reservation.  reserve and complete hold the mutex, nothing*)
(* else does, so an entry may be resolved away, evicted, or expire while   *)
(* its delivery is still sending, and be made again for the same event.    *)
(*                                                                         *)
(* An event stands for its notificationDedupeKey.  A destination is a      *)
(* webhook channel or one recipient of an e-mail channel; the fallback     *)
(* webhook's results carry no channel id.  Time is the time left: an entry *)
(* whose ttl is 0 has expired.  NotificationHistory adds what deliveries   *)
(* and suppressions leave in the history.                                  *)
(***************************************************************************)
EXTENDS Naturals, FiniteSets

CONSTANTS
    Events,         \* notifications the service and the Control Panel ask for
    Resolutions,    \* those of type incident.resolved
    Ineligible,     \* those of a type that is not deduplicated (admin.audit)
    Base,           \* notificationDedupeBase of each event
    Destinations,   \* configured channels and recipients
    Fallbacks,      \* {} or the one fallback webhook
    Deliveries,     \* handlers that may run at once
    MaxEntries,     \* notificationDedupeMaxEntries
    Window,         \* notificationDedupeWindow, in ticks
    FanoutTimeout   \* notificationFanoutTimeout, in ticks

ASSUME DedupeAssumption ==
    /\ Events # {}
    /\ Resolutions \subseteq Events
    /\ Ineligible \subseteq Events \ Resolutions
    /\ Destinations \cap Fallbacks = {}
    /\ MaxEntries \in Nat \ {0}
    /\ Window \in Nat \ {0}
    /\ FanoutTimeout \in Nat \ {0}

VARIABLES
    entries,     \* the deduper's map
    deliveries,  \* what each handler is doing
    enabled,     \* destinations enabled in the store
    accepted     \* history: who ever accepted the event

vars == <<entries, deliveries, enabled, accepted>>

Entry == [present   : BOOLEAN,
          ttl       : 0 .. Window,
          inFlight  : BOOLEAN,
          delivered : BOOLEAN,
          receipts  : SUBSET Destinations]

NoEntry == [present |-> FALSE, ttl |-> 0, inFlight |-> FALSE,
            delivered |-> FALSE, receipts |-> {}]

Delivery == [pc       : {"idle", "list", "send"},
             event    : Events,
             left     : 0 .. FanoutTimeout,
             excluded : SUBSET Destinations,
             matched  : SUBSET (Destinations \cup Fallbacks),
             pending  : SUBSET (Destinations \cup Fallbacks),
             ok       : SUBSET (Destinations \cup Fallbacks),
             failed   : BOOLEAN]

Idle == [pc |-> "idle", event |-> CHOOSE e \in Events : TRUE, left |-> 0,
         excluded |-> {}, matched |-> {}, pending |-> {}, ok |-> {}, failed |-> FALSE]

TypeOK ==
    /\ entries \in [Events -> Entry]
    /\ deliveries \in [Deliveries -> Delivery]
    /\ enabled \subseteq Destinations
    /\ accepted \in [Events -> SUBSET (Destinations \cup Fallbacks)]

Init ==
    /\ entries = [e \in Events |-> NoEntry]
    /\ deliveries = [d \in Deliveries |-> Idle]
    /\ enabled = Destinations
    /\ accepted = [e \in Events |-> {}]

Running(d) == deliveries[d].pc # "idle"

Present(map) == {e \in Events : map[e].present}

-----------------------------------------------------------------------------
(* reserve.                                                                  *)

\* pruneLocked.
Pruned == [e \in Events |-> IF entries[e].ttl = 0 THEN NoEntry ELSE entries[e]]

\* The events whose entries a reservation of this event closes: an event is
\* its notificationDedupeKey, Base its notificationDedupeBase, and a resolution
\* drops every other key of its base.
Closed(event) ==
    IF event \in Resolutions
    THEN {e \in Events \ {event} : Base[e] = Base[event]}
    ELSE {}

\* The map after pruning and, for a resolution, closing its lifecycle.
Swept(event) == [e \in Events |-> IF e \in Closed(event) THEN NoEntry ELSE Pruned[e]]

\* Mutant of Survivors: the cap is compared before the new entry is counted.
SurvivorsOffByOne(map) ==
    IF Cardinality(Present(map)) <= MaxEntries
    THEN {Present(map)}
    ELSE {S \in SUBSET Present(map) :
            /\ Cardinality(S) = MaxEntries - 1
            /\ \A e \in Present(map) \ S, f \in S : map[e].ttl <= map[f].ttl}

\* evictForInsertLocked: the oldest entries go until there is room for one;
\* the map's order decides between entries of one age.
Survivors(map) ==
    IF Cardinality(Present(map)) < MaxEntries
    THEN {Present(map)}
    ELSE {S \in SUBSET Present(map) :
            /\ Cardinality(S) = MaxEntries - 1
            /\ \A e \in Present(map) \ S, f \in S : map[e].ttl <= map[f].ttl}

Begin(d, event, excluded) ==
    deliveries' = [deliveries EXCEPT ![d] =
                     [Idle EXCEPT !.pc = "list", !.event = event, !.left = FanoutTimeout,
                                  !.excluded = excluded]]

\* The event is new in this window.
ReserveFresh(d, event) ==
    /\ ~Running(d)
    /\ event \notin Ineligible
    /\ ~Swept(event)[event].present
    /\ \E S \in Survivors(Swept(event)) :
        entries' = [e \in Events |->
            CASE e = event -> [NoEntry EXCEPT !.present = TRUE, !.ttl = Window, !.inFlight = TRUE]
              [] e # event /\ e \in S -> Swept(event)[e]
              [] OTHER -> NoEntry]
    /\ Begin(d, event, {})
    /\ UNCHANGED <<enabled, accepted>>

\* An earlier delivery ended without reaching everyone: only the others are retried.
ReserveRetry(d, event) ==
    /\ ~Running(d)
    /\ event \notin Ineligible
    /\ Swept(event)[event].present
    /\ ~entries[event].inFlight
    /\ ~entries[event].delivered
    /\ entries' = [Swept(event) EXCEPT ![event].inFlight = TRUE]
    /\ Begin(d, event, entries[event].receipts)
    /\ UNCHANGED <<enabled, accepted>>

\* Mutant of Suppress: a suppressed duplicate renews the window.
SuppressRenewing(event) ==
    /\ event \notin Ineligible
    /\ Swept(event)[event].present
    /\ entries[event].inFlight \/ entries[event].delivered
    /\ entries' = [Swept(event) EXCEPT ![event].ttl = Window]
    /\ UNCHANGED <<deliveries, enabled, accepted>>

\* The event is being delivered or was delivered: the handler
\* answers "suppressed".
Suppress(event) ==
    /\ event \notin Ineligible
    /\ Swept(event)[event].present
    /\ entries[event].inFlight \/ entries[event].delivered
    /\ entries' = Swept(event)
    /\ UNCHANGED <<deliveries, enabled, accepted>>

\* An event that is not deduplicated is always sent and reserves nothing.
DeliverIneligible(d, event) ==
    /\ ~Running(d)
    /\ event \in Ineligible
    /\ Begin(d, event, {})
    /\ UNCHANGED <<entries, enabled, accepted>>

-----------------------------------------------------------------------------
(* The fan-out.                                                              *)

\* ListNotificationChannels: everyone enabled who has no receipt yet, or the
\* fallback when nobody is enabled.
ListChannels(d) ==
    LET matched == IF enabled = {} THEN Fallbacks ELSE enabled IN
    /\ deliveries[d].pc = "list"
    /\ deliveries' = [deliveries EXCEPT ![d] =
                        [@ EXCEPT !.pc = "send", !.matched = matched,
                                  !.pending = matched \ deliveries[d].excluded]]
    /\ UNCHANGED <<entries, enabled, accepted>>

\* The store fails: one failure result without a channel.
ListChannelsFails(d) ==
    /\ deliveries[d].pc = "list"
    /\ deliveries' = [deliveries EXCEPT ![d] = [@ EXCEPT !.pc = "send", !.failed = TRUE]]
    /\ UNCHANGED <<entries, enabled, accepted>>

Accept(event, destination) ==
    accepted' = [accepted EXCEPT ![event] = @ \cup {destination}]

\* One destination, a webhook or a recipient's mailbox, with its own retries,
\* accepts the event, ...
SendSucceeds(d, destination) ==
    /\ deliveries[d].pc = "send"
    /\ destination \in deliveries[d].pending
    /\ deliveries' = [deliveries EXCEPT ![d] =
                        [@ EXCEPT !.pending = deliveries[d].pending \ {destination},
                                  !.ok      = deliveries[d].ok \cup {destination}]]
    /\ Accept(deliveries[d].event, destination)
    /\ UNCHANGED <<entries, enabled>>

\* ... or reports a failure (an e-mail channel that is not configured always
\* does), although it may have accepted it all the same.
SendFails(d, destination, lostAnswer) ==
    /\ deliveries[d].pc = "send"
    /\ destination \in deliveries[d].pending
    /\ deliveries' = [deliveries EXCEPT ![d] =
                        [@ EXCEPT !.pending = deliveries[d].pending \ {destination},
                                  !.failed  = TRUE]]
    /\ IF lostAnswer
       THEN Accept(deliveries[d].event, destination)
       ELSE UNCHANGED accepted
    /\ UNCHANGED <<entries, enabled>>

\* Mutant of Succeeded: one accepted destination is enough.
SucceededAny(t) == t.ok # {}

\* notificationDeliverySucceeded: there are results and none is a failure.
Succeeded(t) == t.ok # {} /\ ~t.failed

\* The reservation has a key and the key has an entry, its own or a later one.
Applies(t) == t.event \notin Ineligible /\ entries[t.event].present

\* Mutant of Complete: a fan-out without results returns before it releases.
CompleteUnlessEmpty(d) ==
    LET t == deliveries[d] IN
    /\ t.pc = "send"
    /\ t.pending = {}
    /\ IF Applies(t) /\ (t.ok # {} \/ t.failed)
       THEN entries' = [entries EXCEPT ![t.event] =
                          [@ EXCEPT !.inFlight  = FALSE,
                                    !.delivered = Succeeded(t),
                                    !.receipts  = entries[t.event].receipts \cup (t.ok \cap Destinations)]]
       ELSE UNCHANGED entries
    /\ deliveries' = [deliveries EXCEPT ![d] = Idle]
    /\ UNCHANGED <<enabled, accepted>>

\* Mutant of Complete: every selected destination gets a receipt.
CompleteWithAllReceipts(d) ==
    LET t == deliveries[d] IN
    /\ t.pc = "send"
    /\ t.pending = {}
    /\ IF Applies(t)
       THEN entries' = [entries EXCEPT ![t.event] =
                          [@ EXCEPT !.inFlight  = FALSE,
                                    !.delivered = Succeeded(t),
                                    !.receipts  = entries[t.event].receipts \cup (t.matched \cap Destinations)]]
       ELSE UNCHANGED entries
    /\ deliveries' = [deliveries EXCEPT ![d] = Idle]
    /\ UNCHANGED <<enabled, accepted>>

\* complete: the results go into whatever entry the event has by now.
Complete(d) ==
    LET t == deliveries[d] IN
    /\ t.pc = "send"
    /\ t.pending = {}
    /\ IF Applies(t)
       THEN entries' = [entries EXCEPT ![t.event] =
                          [@ EXCEPT !.inFlight  = FALSE,
                                    !.delivered = Succeeded(t),
                                    !.receipts  = entries[t.event].receipts \cup (t.ok \cap Destinations)]]
       ELSE UNCHANGED entries
    /\ deliveries' = [deliveries EXCEPT ![d] = Idle]
    /\ UNCHANGED <<enabled, accepted>>

-----------------------------------------------------------------------------
(* The environment.                                                          *)

\* Time passes; the fan-out's deadline ends a delivery before it is over.
Tick ==
    /\ \A d \in Deliveries : Running(d) => deliveries[d].left > 0
    /\ entries' = [e \in Events |->
                     [entries[e] EXCEPT !.ttl = IF @ > 0 THEN @ - 1 ELSE 0]]
    /\ deliveries' = [d \in Deliveries |->
                        [deliveries[d] EXCEPT !.left = IF @ > 0 THEN @ - 1 ELSE 0]]
    /\ UNCHANGED <<enabled, accepted>>

\* UpdateNotificationChannel switches a destination on or off.
ToggleChannel(destination) ==
    /\ enabled' = IF destination \in enabled
                  THEN enabled \ {destination}
                  ELSE enabled \cup {destination}
    /\ UNCHANGED <<entries, deliveries, accepted>>

\* The deduper is process-local: a restart forgets it and stops the handlers.
Restart ==
    /\ entries' = [e \in Events |-> NoEntry]
    /\ deliveries' = [d \in Deliveries |-> Idle]
    /\ UNCHANGED <<enabled, accepted>>

FanOut(d) ==
    \/ ListChannels(d)
    \/ ListChannelsFails(d)
    \/ \E c \in Destinations \cup Fallbacks :
         \/ SendSucceeds(d, c)
         \/ \E lostAnswer \in BOOLEAN : SendFails(d, c, lostAnswer)
    \/ Complete(d)

Next ==
    \/ \E d \in Deliveries :
         \/ \E e \in Events :
              \/ ReserveFresh(d, e)
              \/ ReserveRetry(d, e)
              \/ DeliverIneligible(d, e)
         \/ FanOut(d)
    \/ \E e \in Events : Suppress(e)
    \/ \E c \in Destinations : ToggleChannel(c)
    \/ Tick
    \/ Restart

Spec == Init /\ [][Next]_vars

\* A running handler goes on, and time passes.
FairSpec ==
    /\ Spec
    /\ \A d \in Deliveries : WF_vars(FanOut(d))
    /\ WF_vars(Tick)

-----------------------------------------------------------------------------

\* The table stays within its cap whatever is reserved, pruned and closed.
EntriesBounded == Cardinality(Present(entries)) <= MaxEntries

\* An entry says "in flight" only while some handler is delivering its event:
\* if a handler could leave without releasing it, duplicates would be
\* suppressed although nobody is sending.
InFlightHasOwner ==
    \A e \in Events :
        entries[e].inFlight => \E d \in Deliveries : Running(d) /\ deliveries[d].event = e

\* A retry skips only destinations that accepted this very event, even when a
\* late delivery completes an entry that another reservation made.
ReceiptsTrue == \A e \in Events : entries[e].receipts \subseteq accepted[e]

\* "Keep a semantic event eligible for another fan-out until every selected
\* destination accepts it": a fan-out that ends with the event marked as
\* delivered leaves no destination it selected without the event, whether
\* that one accepted it now or in an earlier fan-out.
EligibleUntilAccepted ==
    [][\A d \in Deliveries :
         LET t == deliveries[d] IN
         t.pc = "send" /\ deliveries'[d].pc = "idle" /\ entries'[t.event].delivered
           => t.matched \subseteq accepted[t.event]]_vars

Suppressing(e) == entries[e].ttl > 0 /\ (entries[e].inFlight \/ entries[e].delivered)

\* No event is suppressed for ever, however often it is repeated: the window
\* runs from the first reservation and every reservation is released.
SuppressionEnds == \A e \in Events : Suppressing(e) ~> ~Suppressing(e)

=============================================================================
