----------------------- MODULE NotificationDedupeProofs -----------------------
(***************************************************************************)
(* NotificationDedupe, for any events, destinations, concurrent handlers,  *)
(* cap, window and deadline: the table stays within its cap, an entry in   *)
(* flight has a handler, receipts are true, and no destination a fan-out   *)
(* selected is forgotten.  NotificationHistory: what is recorded is true,  *)
(* and a suppressed duplicate is recorded once per entry.                  *)
(***************************************************************************)
EXTENDS NotificationHistory, FiniteSetTheorems, TLAPS

\* Only an eligible event that has an entry is in flight or delivered.
InFlightPresent ==
    \A e \in Events :
        entries[e].inFlight \/ entries[e].delivered => entries[e].present /\ e \notin Ineligible

\* What a fan-out has accounted for: whom it skips or reached has accepted the
\* event, and unless it met a failure everyone else is still to be sent to.
FanOutInv(t, got) ==
    /\ t.excluded \subseteq got[t.event]
    /\ t.ok \subseteq got[t.event]
    /\ t.pc = "send" /\ ~t.failed => t.matched \subseteq t.excluded \cup t.pending \cup t.ok

FanOutsInv == \A d \in Deliveries : FanOutInv(deliveries[d], accepted)

\* The inductive invariant.
Inv == TypeOK /\ InFlightPresent /\ InFlightHasOwner /\ ReceiptsTrue /\ FanOutsInv

-----------------------------------------------------------------------------

\* The timers' ranges.
LEMMA Timers == Window \in 0 .. Window /\ FanoutTimeout \in 0 .. FanoutTimeout
BY DedupeAssumption

\* An idle handler is one that claims nothing.
LEMMA IdleType ==
    /\ Idle \in Delivery
    /\ Idle.pc = "idle" /\ Idle.excluded = {} /\ Idle.ok = {} /\ Idle.event \in Events
BY DedupeAssumption DEF Idle, Delivery

\* An absent entry is one that claims nothing.
LEMMA NoEntryType ==
    /\ NoEntry \in Entry
    /\ ~NoEntry.inFlight /\ ~NoEntry.delivered /\ ~NoEntry.present /\ NoEntry.receipts = {}
BY DedupeAssumption DEF NoEntry, Entry

\* Pruning and closing only remove entries.
LEMMA SweptIs ==
    ASSUME NEW event \in Events
    PROVE  /\ Swept(event) = [e \in Events |-> Swept(event)[e]]
           /\ \A e \in Events : Swept(event)[e] \in {NoEntry, entries[e]}
BY DEF Swept, Pruned

\* The invariant holds initially.
LEMMA InitInv == Init => Inv
<1> SUFFICES ASSUME Init PROVE Inv
  OBVIOUS
<1>1. \A e \in Events : entries[e] = NoEntry /\ accepted[e] = {}
  BY DEF Init
<1>2. \A d \in Deliveries : deliveries[d] = Idle
  BY DEF Init
<1>3. TypeOK
  BY IdleType, NoEntryType DEF Init, TypeOK
<1>4. InFlightPresent /\ InFlightHasOwner /\ ReceiptsTrue
  BY <1>1, NoEntryType DEF InFlightPresent, InFlightHasOwner, ReceiptsTrue
<1>5. FanOutsInv
  BY <1>2, IdleType DEF FanOutsInv, FanOutInv
<1> QED
  BY <1>3, <1>4, <1>5 DEF Inv

\* A reservation keeps or removes every entry but its own, which is in flight
\* and has no receipt it did not have.
LEMMA ReserveInv ==
    ASSUME Inv, NEW d \in Deliveries, NEW event \in Events,
           ReserveFresh(d, event) \/ ReserveRetry(d, event)
    PROVE  Inv'
<1>0. PICK x \in Entry, excluded \in SUBSET Destinations :
        /\ entries' \in [Events -> Entry]
        /\ entries'[event] = x
        /\ \A e \in Events \ {event} : entries'[e] \in {NoEntry, entries[e]}
        /\ x.present /\ event \notin Ineligible
        /\ x.receipts \subseteq entries[event].receipts
        /\ excluded \subseteq entries[event].receipts
        /\ Begin(d, event, excluded)
  <2>1. CASE ReserveFresh(d, event)
    <3> DEFINE x == [NoEntry EXCEPT !.present = TRUE, !.ttl = Window, !.inFlight = TRUE]
    <3>1. x \in Entry /\ x.present /\ x.receipts = {}
      BY Timers, NoEntryType DEF Entry
    <3>2. PICK S \in Survivors(Swept(event)) :
            entries' = [e \in Events |->
              CASE e = event -> x
                [] e # event /\ e \in S -> Swept(event)[e]
                [] OTHER -> NoEntry]
      BY <2>1 DEF ReserveFresh
    <3> HIDE DEF x
    <3>3. entries'[event] = x
      BY <3>2
    <3>4. \A e \in Events \ {event} : entries'[e] \in {NoEntry, entries[e]}
      BY <3>2, SweptIs
    <3>5. entries' \in [Events -> Entry]
      BY <3>1, <3>2, <3>3, <3>4, NoEntryType DEF Inv, TypeOK
    <3>6. Begin(d, event, {}) /\ event \notin Ineligible
      BY <2>1 DEF ReserveFresh
    <3> QED
      BY <3>1, <3>3, <3>4, <3>5, <3>6
  <2>2. CASE ReserveRetry(d, event)
    <3> DEFINE x == [entries[event] EXCEPT !.inFlight = TRUE]
    <3>1. entries[event] \in Entry /\ Swept(event)[event].present
      BY <2>2 DEF ReserveRetry, Inv, TypeOK
    <3>2. Swept(event)[event] = entries[event] /\ entries[event].present
      BY <3>1, SweptIs, NoEntryType
    <3>3. entries' = [Swept(event) EXCEPT ![event].inFlight = TRUE]
      BY <2>2 DEF ReserveRetry
    <3>4. entries'[event] = x
      BY <3>2, <3>3, SweptIs
    <3>5. x \in Entry /\ x.present /\ x.receipts = entries[event].receipts
      BY <3>1, <3>2 DEF Entry
    <3> HIDE DEF x
    <3>6. \A e \in Events \ {event} : entries'[e] \in {NoEntry, entries[e]}
      BY <3>3, SweptIs
    <3>7. entries' \in [Events -> Entry]
      <4>1. entries' = [e \in Events |-> entries'[e]]
        BY <3>3, SweptIs DEF Swept
      <4>2. \A e \in Events : entries'[e] \in Entry
        BY <3>4, <3>5, <3>6, NoEntryType DEF Inv, TypeOK
      <4> QED
        BY <4>1, <4>2
    <3>8. entries[event].receipts \in SUBSET Destinations
      BY <3>1 DEF Entry
    <3>9. Begin(d, event, entries[event].receipts) /\ event \notin Ineligible
      BY <2>2 DEF ReserveRetry
    <3> QED
      BY <3>4, <3>5, <3>6, <3>7, <3>8, <3>9
  <2> QED
    BY <2>1, <2>2
<1>1. UNCHANGED <<enabled, accepted>>
  BY DEF ReserveFresh, ReserveRetry
<1> DEFINE t == [Idle EXCEPT !.pc = "list", !.event = event, !.left = FanoutTimeout,
                             !.excluded = excluded]
<1>2. /\ t \in Delivery /\ t.pc = "list" /\ t.event = event
      /\ t.excluded = excluded /\ t.ok = {}
  BY IdleType, Timers DEF Delivery
<1>3. deliveries' = [deliveries EXCEPT ![d] = t]
  BY <1>0 DEF Begin
<1> HIDE DEF t
<1>4. ~Running(d)
  BY DEF ReserveFresh, ReserveRetry
<1>5. TypeOK'
  BY <1>0, <1>1, <1>2, <1>3 DEF Inv, TypeOK
<1>6. InFlightPresent'
  BY <1>0, NoEntryType DEF Inv, InFlightPresent
<1>7. InFlightHasOwner'
  <2> SUFFICES ASSUME NEW e \in Events, entries'[e].inFlight
               PROVE  \E o \in Deliveries : deliveries'[o].pc # "idle" /\ deliveries'[o].event = e
    BY DEF InFlightHasOwner, Running
  <2>1. CASE e = event
    BY <2>1, <1>2, <1>3 DEF Inv, TypeOK
  <2>2. CASE e # event
    <3>1. entries[e].inFlight
      BY <2>2, <1>0, NoEntryType
    <3>2. PICK o \in Deliveries : Running(o) /\ deliveries[o].event = e
      BY <3>1 DEF Inv, InFlightHasOwner
    <3>3. o # d
      BY <3>2, <1>4
    <3> QED
      BY <3>2, <3>3, <1>3 DEF Running, Inv, TypeOK
  <2> QED
    BY <2>1, <2>2
<1>8. ReceiptsTrue'
  BY <1>0, <1>1, NoEntryType DEF Inv, ReceiptsTrue
<1>9. FanOutsInv'
  <2> SUFFICES ASSUME NEW o \in Deliveries PROVE FanOutInv(deliveries'[o], accepted')
    BY DEF FanOutsInv
  <2>1. CASE o = d
    <3>1. deliveries'[o] = t
      BY <2>1, <1>3 DEF Inv, TypeOK
    <3> QED
      BY <3>1, <1>0, <1>1, <1>2 DEF FanOutInv, Inv, ReceiptsTrue
  <2>2. CASE o # d
    <3>1. deliveries'[o] = deliveries[o]
      BY <2>2, <1>3 DEF Inv, TypeOK
    <3> QED
      BY <3>1, <1>1 DEF FanOutInv, Inv, FanOutsInv
  <2> QED
    BY <2>1, <2>2
<1> QED
  BY <1>5, <1>6, <1>7, <1>8, <1>9 DEF Inv

\* A handler without a reservation.
LEMMA IneligibleInv ==
    ASSUME Inv, NEW d \in Deliveries, NEW event \in Events, DeliverIneligible(d, event)
    PROVE  Inv'
<1> USE DEF DeliverIneligible
<1> DEFINE t == [Idle EXCEPT !.pc = "list", !.event = event, !.left = FanoutTimeout,
                             !.excluded = {}]
<1>1. /\ t \in Delivery /\ t.pc = "list" /\ t.event = event
      /\ t.excluded = {} /\ t.ok = {}
  BY IdleType, Timers DEF Delivery
<1>2. deliveries' = [deliveries EXCEPT ![d] = t]
  BY DEF Begin
<1> HIDE DEF t
<1>3. TypeOK'
  BY <1>1, <1>2 DEF Inv, TypeOK
<1>4. InFlightPresent' /\ ReceiptsTrue'
  BY DEF Inv, InFlightPresent, ReceiptsTrue
<1>5. \A o \in Deliveries : deliveries'[o] = IF o = d THEN t ELSE deliveries[o]
  BY <1>2 DEF Inv, TypeOK
<1>6. InFlightHasOwner'
  BY <1>5 DEF Inv, InFlightHasOwner, Running
<1>7. FanOutsInv'
  BY <1>1, <1>5 DEF Inv, FanOutsInv, FanOutInv
<1> QED
  BY <1>3, <1>4, <1>6, <1>7 DEF Inv

\* A duplicate is suppressed.
LEMMA SuppressInv ==
    ASSUME Inv, NEW event \in Events, Suppress(event)
    PROVE  Inv'
<1> USE DEF Suppress
<1>1. entries' = Swept(event) /\ \A e \in Events : entries'[e] \in {NoEntry, entries[e]}
  BY SweptIs
<1>2. TypeOK'
  BY <1>1, SweptIs, NoEntryType DEF Inv, TypeOK
<1>3. InFlightPresent' /\ InFlightHasOwner' /\ ReceiptsTrue'
  BY <1>1, NoEntryType DEF Inv, InFlightPresent, InFlightHasOwner, ReceiptsTrue, Running
<1>4. FanOutsInv'
  BY DEF Inv, FanOutsInv, FanOutInv
<1> QED
  BY <1>2, <1>3, <1>4 DEF Inv

\* The fan-out moves on to t, which accounts for what it did.
LEMMA FanOutStep ==
    ASSUME Inv, NEW d \in Deliveries, NEW t \in Delivery,
           deliveries' = [deliveries EXCEPT ![d] = t],
           t.event = deliveries[d].event, t.pc # "idle",
           UNCHANGED <<entries, enabled>>,
           accepted' \in [Events -> SUBSET (Destinations \cup Fallbacks)],
           \A e \in Events : accepted[e] \subseteq accepted'[e],
           FanOutInv(t, accepted')
    PROVE  Inv'
<1>1. TypeOK'
  BY DEF Inv, TypeOK
<1>2. \A o \in Deliveries : deliveries'[o] = IF o = d THEN t ELSE deliveries[o]
  BY DEF Inv, TypeOK
<1>3. InFlightPresent'
  BY DEF Inv, InFlightPresent
<1>4. InFlightHasOwner'
  BY <1>2 DEF Inv, InFlightHasOwner, Running
<1>5. ReceiptsTrue'
  BY DEF Inv, ReceiptsTrue
<1>6. FanOutsInv'
  <2> SUFFICES ASSUME NEW o \in Deliveries PROVE FanOutInv(deliveries'[o], accepted')
    BY DEF FanOutsInv
  <2>1. CASE o = d
    BY <2>1, <1>2
  <2>2. CASE o # d
    <3>1. FanOutInv(deliveries[o], accepted) /\ deliveries'[o] = deliveries[o]
          /\ deliveries[o].event \in Events
      BY <2>2, <1>2 DEF Inv, FanOutsInv, TypeOK, Delivery
    <3> QED
      BY <3>1 DEF FanOutInv
  <2> QED
    BY <2>1, <2>2
<1> QED
  BY <1>1, <1>3, <1>4, <1>5, <1>6 DEF Inv

\* Reading the channels and sending.
LEMMA SendInv ==
    ASSUME Inv, NEW d \in Deliveries,
           \/ ListChannels(d) \/ ListChannelsFails(d)
           \/ \E c \in Destinations \cup Fallbacks :
                SendSucceeds(d, c) \/ \E lostAnswer \in BOOLEAN : SendFails(d, c, lostAnswer)
    PROVE  Inv'
<1>0. /\ deliveries[d] \in Delivery /\ deliveries[d].event \in Events
      /\ FanOutInv(deliveries[d], accepted)
      /\ accepted \in [Events -> SUBSET (Destinations \cup Fallbacks)]
      /\ enabled \subseteq Destinations
  BY DEF Inv, TypeOK, FanOutsInv, Delivery
<1>1. CASE ListChannels(d)
  <2> DEFINE matched == IF enabled = {} THEN Fallbacks ELSE enabled
             t == [deliveries[d] EXCEPT !.pc = "send", !.matched = matched,
                                        !.pending = matched \ deliveries[d].excluded]
  <2>1. matched \in SUBSET (Destinations \cup Fallbacks)
    BY <1>0
  <2>2. /\ deliveries' = [deliveries EXCEPT ![d] = t]
        /\ UNCHANGED <<entries, enabled, accepted>>
    BY <1>1 DEF ListChannels
  <2> HIDE DEF matched
  <2>3. /\ t \in Delivery /\ t.pc = "send" /\ t.event = deliveries[d].event
        /\ t.excluded = deliveries[d].excluded /\ t.ok = deliveries[d].ok
        /\ t.matched = matched /\ t.pending = matched \ deliveries[d].excluded
    BY <1>0, <2>1 DEF Delivery
  <2> HIDE DEF t
  <2>4. FanOutInv(t, accepted')
    BY <1>0, <2>2, <2>3 DEF FanOutInv
  <2> QED
    BY <1>0, <2>2, <2>3, <2>4, FanOutStep
<1>2. CASE ListChannelsFails(d)
  <2> DEFINE t == [deliveries[d] EXCEPT !.pc = "send", !.failed = TRUE]
  <2>1. /\ t \in Delivery /\ t.pc = "send" /\ t.event = deliveries[d].event /\ t.failed
        /\ t.excluded = deliveries[d].excluded /\ t.ok = deliveries[d].ok
    BY <1>0 DEF Delivery
  <2>2. /\ deliveries' = [deliveries EXCEPT ![d] = t]
        /\ UNCHANGED <<entries, enabled, accepted>>
    BY <1>2 DEF ListChannelsFails
  <2> HIDE DEF t
  <2>3. FanOutInv(t, accepted')
    BY <1>0, <2>1, <2>2 DEF FanOutInv
  <2> QED
    BY <1>0, <2>1, <2>2, <2>3, FanOutStep
<1>3. ASSUME NEW c \in Destinations \cup Fallbacks, SendSucceeds(d, c)
      PROVE  Inv'
  <2> DEFINE t == [deliveries[d] EXCEPT !.pending = deliveries[d].pending \ {c},
                                        !.ok = deliveries[d].ok \cup {c}]
  <2>1. /\ t \in Delivery /\ t.pc = deliveries[d].pc /\ t.event = deliveries[d].event
        /\ t.failed = deliveries[d].failed /\ t.matched = deliveries[d].matched
        /\ t.excluded = deliveries[d].excluded
        /\ t.pending = deliveries[d].pending \ {c} /\ t.ok = deliveries[d].ok \cup {c}
    BY <1>0 DEF Delivery
  <2>2. /\ deliveries' = [deliveries EXCEPT ![d] = t]
        /\ UNCHANGED <<entries, enabled>> /\ deliveries[d].pc = "send"
    BY <1>3 DEF SendSucceeds
  <2>3. accepted' = [accepted EXCEPT ![deliveries[d].event] = @ \cup {c}]
    BY <1>3 DEF SendSucceeds, Accept
  <2> HIDE DEF t
  <2>4. /\ accepted' \in [Events -> SUBSET (Destinations \cup Fallbacks)]
        /\ \A e \in Events : accepted[e] \subseteq accepted'[e]
        /\ accepted'[deliveries[d].event] = accepted[deliveries[d].event] \cup {c}
    BY <1>0, <2>3
  <2>5. FanOutInv(t, accepted')
    BY <1>0, <2>1, <2>4 DEF FanOutInv
  <2> QED
    BY <2>1, <2>2, <2>4, <2>5, FanOutStep
<1>4. ASSUME NEW c \in Destinations \cup Fallbacks, NEW lostAnswer \in BOOLEAN,
             SendFails(d, c, lostAnswer)
      PROVE  Inv'
  <2> DEFINE t == [deliveries[d] EXCEPT !.pending = deliveries[d].pending \ {c},
                                        !.failed = TRUE]
  <2>1. /\ t \in Delivery /\ t.pc = deliveries[d].pc /\ t.event = deliveries[d].event
        /\ t.failed /\ t.excluded = deliveries[d].excluded /\ t.ok = deliveries[d].ok
    BY <1>0 DEF Delivery
  <2>2. /\ deliveries' = [deliveries EXCEPT ![d] = t]
        /\ UNCHANGED <<entries, enabled>> /\ deliveries[d].pc = "send"
    BY <1>4 DEF SendFails
  <2>3. \/ accepted' = [accepted EXCEPT ![deliveries[d].event] = @ \cup {c}]
        \/ accepted' = accepted
    BY <1>4 DEF SendFails, Accept
  <2> HIDE DEF t
  <2>4. /\ accepted' \in [Events -> SUBSET (Destinations \cup Fallbacks)]
        /\ \A e \in Events : accepted[e] \subseteq accepted'[e]
    BY <1>0, <2>3
  <2>5. FanOutInv(t, accepted')
    BY <1>0, <2>1, <2>4 DEF FanOutInv
  <2> QED
    BY <2>1, <2>2, <2>4, <2>5, FanOutStep
<1> QED
  BY <1>1, <1>2, <1>3, <1>4

\* The results go into the entry, which is released.
LEMMA CompleteInv ==
    ASSUME Inv, NEW d \in Deliveries, Complete(d)
    PROVE  Inv'
<1> USE DEF Complete
<1> DEFINE t == deliveries[d]
<1>0. /\ t \in Delivery /\ t.event \in Events /\ t.ok \subseteq accepted[t.event]
      /\ entries[t.event] \in Entry /\ entries[t.event].receipts \subseteq accepted[t.event]
  BY DEF Inv, TypeOK, FanOutsInv, FanOutInv, Delivery, ReceiptsTrue
<1> DEFINE x == [entries[t.event] EXCEPT
                   !.inFlight  = FALSE,
                   !.delivered = Succeeded(t),
                   !.receipts  = entries[t.event].receipts \cup (t.ok \cap Destinations)]
<1>1. Succeeded(t) \in BOOLEAN
  BY DEF Succeeded
<1>2. /\ x \in Entry /\ x.inFlight = FALSE /\ x.present = entries[t.event].present
      /\ x.receipts = entries[t.event].receipts \cup (t.ok \cap Destinations)
  BY <1>0, <1>1 DEF Entry
<1>3. \/ Applies(t) /\ entries' = [entries EXCEPT ![t.event] = x]
      \/ ~Applies(t) /\ entries' = entries
  OBVIOUS
<1> HIDE DEF x
<1>4. \A o \in Deliveries : deliveries'[o] = IF o = d THEN Idle ELSE deliveries[o]
  BY DEF Inv, TypeOK
<1>5. TypeOK'
  BY <1>0, <1>2, <1>3, IdleType DEF Inv, TypeOK
<1>6. \A e \in Events : entries'[e].inFlight => entries[e].inFlight /\ e # t.event
                                                /\ entries'[e] = entries[e]
  <2>1. CASE Applies(t)
    BY <1>2, <1>3, <2>1 DEF Inv, TypeOK
  <2>2. CASE ~Applies(t)
    BY <1>3, <2>2 DEF Applies, Inv, InFlightPresent
  <2> QED
    BY <2>1, <2>2
<1>7. InFlightPresent'
  <2>1. CASE Applies(t)
    BY <1>0, <1>2, <1>3, <2>1 DEF Applies, Inv, TypeOK, InFlightPresent
  <2>2. CASE ~Applies(t)
    BY <1>3, <2>2 DEF Inv, InFlightPresent
  <2> QED
    BY <2>1, <2>2
<1>8. InFlightHasOwner'
  <2> SUFFICES ASSUME NEW e \in Events, entries'[e].inFlight
               PROVE  \E o \in Deliveries : deliveries'[o].pc # "idle" /\ deliveries'[o].event = e
    BY DEF InFlightHasOwner, Running
  <2>1. PICK o \in Deliveries : Running(o) /\ deliveries[o].event = e
    BY <1>6 DEF Inv, InFlightHasOwner
  <2>2. o # d
    BY <1>6, <2>1
  <2> QED
    BY <1>4, <2>1, <2>2 DEF Running
<1>9. ReceiptsTrue'
  BY <1>0, <1>2, <1>3 DEF Inv, TypeOK, ReceiptsTrue
<1>10. FanOutsInv'
  <2>1. FanOutInv(Idle, accepted)
    BY IdleType DEF FanOutInv
  <2> QED
    BY <1>4, <2>1 DEF Inv, FanOutsInv
<1> QED
  BY <1>5, <1>7, <1>8, <1>9, <1>10 DEF Inv

\* One tick less of every timer.
LEMMA TickInv ==
    ASSUME Inv, Tick
    PROVE  Inv'
<1> USE DEF Tick
<1>1. ASSUME NEW e \in Events
      PROVE  /\ entries'[e] \in Entry /\ entries'[e].inFlight = entries[e].inFlight
             /\ entries'[e].present = entries[e].present
             /\ entries'[e].delivered = entries[e].delivered
             /\ entries'[e].receipts = entries[e].receipts
  <2>1. entries[e] \in Entry
    BY DEF Inv, TypeOK
  <2> DEFINE n == IF entries[e].ttl > 0 THEN entries[e].ttl - 1 ELSE 0
  <2>2. n \in 0 .. Window
    <3>1. entries[e].ttl \in 0 .. Window
      BY <2>1 DEF Entry
    <3> QED
      BY <3>1, DedupeAssumption
  <2>3. entries'[e] = [entries[e] EXCEPT !.ttl = n]
    OBVIOUS
  <2> HIDE DEF n
  <2> QED
    BY <2>1, <2>2, <2>3 DEF Entry
<1>2. ASSUME NEW d \in Deliveries
      PROVE  \E n \in 0 .. FanoutTimeout :
               deliveries'[d] = [deliveries[d] EXCEPT !.left = n]
  <2> DEFINE n == IF deliveries[d].left > 0 THEN deliveries[d].left - 1 ELSE 0
  <2>1. deliveries[d].left \in 0 .. FanoutTimeout
    BY DEF Inv, TypeOK, Delivery
  <2>2. n \in 0 .. FanoutTimeout
    BY <2>1, DedupeAssumption
  <2>3. deliveries'[d] = [deliveries[d] EXCEPT !.left = n]
    OBVIOUS
  <2> QED
    BY <2>2, <2>3
<1>3. ASSUME NEW d \in Deliveries
      PROVE  /\ deliveries'[d] \in Delivery /\ deliveries'[d].event = deliveries[d].event
             /\ deliveries'[d].pc = deliveries[d].pc /\ deliveries'[d].ok = deliveries[d].ok
             /\ deliveries'[d].excluded = deliveries[d].excluded
             /\ deliveries'[d].failed = deliveries[d].failed
             /\ deliveries'[d].matched = deliveries[d].matched
             /\ deliveries'[d].pending = deliveries[d].pending
  <2>1. deliveries[d] \in Delivery
    BY DEF Inv, TypeOK
  <2> QED
    BY <1>2, <2>1 DEF Delivery
<1>4. TypeOK'
  <2>1. entries' \in [Events -> Entry]
    BY <1>1
  <2>2. deliveries' \in [Deliveries -> Delivery]
    BY <1>3
  <2> QED
    BY <2>1, <2>2 DEF Inv, TypeOK
<1>5. InFlightPresent' /\ ReceiptsTrue'
  BY <1>1 DEF Inv, InFlightPresent, ReceiptsTrue
<1>6. InFlightHasOwner'
  <2> SUFFICES ASSUME NEW e \in Events, entries'[e].inFlight
               PROVE  \E o \in Deliveries : deliveries'[o].pc # "idle" /\ deliveries'[o].event = e
    BY DEF InFlightHasOwner, Running
  <2>1. PICK o \in Deliveries : Running(o) /\ deliveries[o].event = e
    BY <1>1 DEF Inv, InFlightHasOwner
  <2>2. deliveries'[o].pc = deliveries[o].pc /\ deliveries'[o].event = deliveries[o].event
    BY <1>3
  <2> QED
    BY <2>1, <2>2 DEF Running
<1>7. FanOutsInv'
  BY <1>3 DEF Inv, FanOutsInv, FanOutInv
<1> QED
  BY <1>4, <1>5, <1>6, <1>7 DEF Inv

\* Every step preserves the invariant.
LEMMA NextInv == Inv /\ [Next]_vars => Inv'
<1> SUFFICES ASSUME Inv, [Next]_vars PROVE Inv'
  OBVIOUS
<1>1. ASSUME NEW c \in Destinations, ToggleChannel(c) PROVE Inv'
  BY <1>1 DEF ToggleChannel, Inv, TypeOK, InFlightPresent, InFlightHasOwner, ReceiptsTrue,
     FanOutsInv, FanOutInv, Running
<1>2. CASE Restart
  <2>1. \A e \in Events : entries'[e] = NoEntry
    BY <1>2 DEF Restart
  <2>2. \A d \in Deliveries : deliveries'[d] = Idle
    BY <1>2 DEF Restart
  <2>3. TypeOK'
    BY <1>2, IdleType, NoEntryType DEF Restart, Inv, TypeOK
  <2>4. InFlightPresent' /\ InFlightHasOwner' /\ ReceiptsTrue'
    BY <2>1, NoEntryType DEF InFlightPresent, InFlightHasOwner, ReceiptsTrue
  <2>5. FanOutsInv'
    BY <2>2, IdleType DEF FanOutsInv, FanOutInv
  <2> QED
    BY <2>3, <2>4, <2>5 DEF Inv
<1>3. CASE UNCHANGED vars
  BY <1>3 DEF vars, Inv, TypeOK, InFlightPresent, InFlightHasOwner, ReceiptsTrue,
     FanOutsInv, FanOutInv, Running
<1>4. CASE Next
  <2>1. ASSUME NEW d \in Deliveries, FanOut(d) PROVE Inv'
    BY <2>1, SendInv, CompleteInv DEF FanOut
  <2> QED
    BY <1>1, <1>2, <1>4, <2>1, ReserveInv, IneligibleInv, SuppressInv, TickInv DEF Next
<1> QED
  BY <1>3, <1>4

-----------------------------------------------------------------------------

\* Every reachable state satisfies the invariant.
THEOREM Invariance == Spec => []Inv
BY InitInv, NextInv, PTL DEF Spec

\* No event is suppressed as "in flight" when no handler is delivering it.
THEOREM NoLeakedReservation == Spec => []InFlightHasOwner
<1>1. Inv => InFlightHasOwner
  BY DEF Inv
<1> QED
  BY <1>1, Invariance, PTL

\* A retry skips only destinations that have accepted the event.
THEOREM ReceiptsAreTrue == Spec => []ReceiptsTrue
<1>1. Inv => ReceiptsTrue
  BY DEF Inv
<1> QED
  BY <1>1, Invariance, PTL

\* A fan-out that ends with its event marked as delivered has left no selected
\* destination behind, whichever entry its completion was applied to.
THEOREM NobodyForgotten == Spec => EligibleUntilAccepted
<1>1. ASSUME Inv, [Next]_vars, NEW d \in Deliveries, deliveries[d].pc = "send",
             deliveries'[d].pc = "idle", entries'[deliveries[d].event].delivered
      PROVE  deliveries[d].matched \subseteq accepted[deliveries[d].event]
  <2>1. deliveries[d] \in Delivery /\ deliveries[d].event \in Events
        /\ FanOutInv(deliveries[d], accepted)
    BY <1>1 DEF Inv, TypeOK, FanOutsInv, Delivery
  <2>2. Complete(d)
    <3>1. CASE Restart
      BY <3>1, <1>1, <2>1, NoEntryType DEF Restart
    <3>2. CASE Tick
      BY <3>2, <1>1 DEF Tick, Inv, TypeOK, Delivery
    <3>3. ASSUME NEW o \in Deliveries, FanOut(o), ~Complete(o) PROVE deliveries'[d].pc # "idle"
      <4>1. deliveries[o] \in Delivery /\ deliveries[d] \in Delivery
        BY <1>1 DEF Inv, TypeOK
      <4> DEFINE Sends == \E t \in Delivery : /\ t.pc = "send"
                                                /\ deliveries' = [deliveries EXCEPT ![o] = t]
      <4>2. Sends
        <5>1. CASE ListChannels(o)
          BY <5>1, <4>1, <1>1 DEF ListChannels, Delivery, Inv, TypeOK
        <5>2. CASE ListChannelsFails(o)
          BY <5>2, <4>1 DEF ListChannelsFails, Delivery
        <5>3. ASSUME NEW c \in Destinations \cup Fallbacks, SendSucceeds(o, c)
              PROVE  Sends
          BY <5>3, <4>1 DEF SendSucceeds, Delivery
        <5>4. ASSUME NEW c \in Destinations \cup Fallbacks, NEW l \in BOOLEAN, SendFails(o, c, l)
              PROVE  Sends
          BY <5>4, <4>1 DEF SendFails, Delivery
        <5> QED
          BY <3>3, <5>1, <5>2, <5>3, <5>4 DEF FanOut
      <4> QED
        BY <1>1, <4>2 DEF Inv, TypeOK
    <3>4. ASSUME NEW o \in Deliveries, Complete(o) PROVE o = d
      BY <1>1, <3>4 DEF Complete, Inv, TypeOK
    <3>5. ASSUME NEW o \in Deliveries, NEW e \in Events,
                 ReserveFresh(o, e) \/ ReserveRetry(o, e) \/ DeliverIneligible(o, e)
          PROVE  deliveries'[d].pc # "idle"
      BY <1>1, <3>5, IdleType DEF ReserveFresh, ReserveRetry, DeliverIneligible, Begin, Running,
         Inv, TypeOK, Delivery
    <3>6. ASSUME NEW e \in Events, Suppress(e) PROVE deliveries' = deliveries
      BY <3>6 DEF Suppress
    <3>7. ASSUME NEW c \in Destinations, ToggleChannel(c) PROVE deliveries' = deliveries
      BY <3>7 DEF ToggleChannel
    <3> QED
      BY <1>1, <3>1, <3>2, <3>3, <3>4, <3>5, <3>6, <3>7 DEF Next, vars
  <2>3. Applies(deliveries[d]) => entries'[deliveries[d].event].delivered = Succeeded(deliveries[d])
    <3> DEFINE e == deliveries[d].event
               x == [entries[e] EXCEPT
                       !.inFlight  = FALSE,
                       !.delivered = Succeeded(deliveries[d]),
                       !.receipts  = entries[e].receipts \cup (deliveries[d].ok \cap Destinations)]
    <3>1. Applies(deliveries[d]) => entries' = [entries EXCEPT ![e] = x]
      BY <2>2 DEF Complete
    <3>2. entries[e] \in Entry
      BY <1>1, <2>1 DEF Inv, TypeOK
    <3>3. x.delivered = Succeeded(deliveries[d])
      BY <3>2 DEF Entry
    <3> HIDE DEF x
    <3> QED
      BY <1>1, <2>1, <3>1, <3>3 DEF Inv, TypeOK
  <2>4. CASE Applies(deliveries[d])
    BY <1>1, <2>1, <2>2, <2>3, <2>4 DEF Succeeded, FanOutInv, Complete
  <2>5. CASE ~Applies(deliveries[d])
    BY <2>1, <2>2, <2>5, <1>1 DEF Complete, Applies, Inv, InFlightPresent
  <2> QED
    BY <2>4, <2>5
<1>2. Inv /\ [Next]_vars =>
        [\A d \in Deliveries :
           LET t == deliveries[d] IN
           t.pc = "send" /\ deliveries'[d].pc = "idle" /\ entries'[t.event].delivered
             => t.matched \subseteq accepted[t.event]]_vars
  BY <1>1
<1> QED
  BY <1>2, Invariance, PTL DEF Spec, EligibleUntilAccepted

-----------------------------------------------------------------------------
(* The cap.                                                                  *)

\* Events may be infinitely many; the entries never are.
Bounded == IsFiniteSet(Present(entries)) /\ EntriesBounded

\* Fewer entries are within the cap as well.
LEMMA FewerBounded ==
    ASSUME Bounded, Present(entries') \subseteq Present(entries) PROVE Bounded'
<1>1. /\ IsFiniteSet(Present(entries'))
      /\ Cardinality(Present(entries')) <= Cardinality(Present(entries))
  BY FS_Subset DEF Bounded
<1>2. Cardinality(Present(entries')) \in Nat /\ Cardinality(Present(entries)) \in Nat
  BY <1>1, FS_CardinalityType DEF Bounded
<1>3. Present(entries') = Present(entries)'
  BY DEF Present
<1> QED
  BY <1>1, <1>2, <1>3, DedupeAssumption DEF Bounded, EntriesBounded

\* Eviction makes room for the one entry that is added.
LEMMA FreshBounded ==
    ASSUME Bounded, NEW d \in Deliveries, NEW event \in Events, ReserveFresh(d, event)
    PROVE  Bounded'
<1> DEFINE map == Swept(event)
<1>1. Present(map) \subseteq Present(entries)
  BY SweptIs, NoEntryType DEF Present
<1>2. PICK S \in Survivors(map) :
        entries' = [e \in Events |->
            CASE e = event -> [NoEntry EXCEPT !.present = TRUE, !.ttl = Window, !.inFlight = TRUE]
              [] e # event /\ e \in S -> map[e]
              [] OTHER -> NoEntry]
  BY DEF ReserveFresh
<1>3. ~map[event].present
  BY DEF ReserveFresh
<1> HIDE DEF map
<1>4. S \subseteq Present(map) /\ event \notin S
  BY <1>3 DEF Survivors, Present
<1>5. IsFiniteSet(Present(map)) /\ Cardinality(Present(map)) \in Nat
  BY <1>1, FS_Subset, FS_CardinalityType DEF Bounded
<1>6. IsFiniteSet(S) /\ Cardinality(S) \in Nat /\ Cardinality(S) <= MaxEntries - 1
  <2>1. IsFiniteSet(S) /\ Cardinality(S) \in Nat
    BY <1>4, <1>5, FS_Subset, FS_CardinalityType
  <2>2. Cardinality(S) < MaxEntries \/ Cardinality(S) = MaxEntries - 1
    BY <1>2 DEF Survivors
  <2> QED
    BY <2>1, <2>2, DedupeAssumption
<1>7. Present(entries)' \subseteq S \cup {event}
  <2> SUFFICES ASSUME NEW e \in Events, entries'[e].present, e # event PROVE e \in S
    BY DEF Present
  <2> QED
    BY <1>2, NoEntryType
<1>8. IsFiniteSet(S \cup {event}) /\ Cardinality(S \cup {event}) = Cardinality(S) + 1
  BY <1>4, <1>6, FS_AddElement
<1>9. /\ IsFiniteSet(Present(entries)')
      /\ Cardinality(Present(entries)') <= Cardinality(S \cup {event})
  BY <1>7, <1>8, FS_Subset
<1>10. Cardinality(Present(entries)') \in Nat
  BY <1>9, FS_CardinalityType
<1> QED
  BY <1>6, <1>8, <1>9, <1>10, DedupeAssumption DEF Bounded, EntriesBounded

\* Every step keeps the table within its cap.
LEMMA NextBounded == TypeOK /\ Bounded /\ [Next]_vars => Bounded'
<1> SUFFICES ASSUME TypeOK, Bounded, [Next]_vars PROVE Bounded'
  OBVIOUS
<1>1. ASSUME \A e \in Events : entries'[e].present => entries[e].present PROVE Bounded'
  BY <1>1, FewerBounded DEF Present
<1>2. ASSUME NEW event \in Events
      PROVE  \A e \in Events : Swept(event)[e].present => entries[e].present
  BY SweptIs, NoEntryType
<1>3. ASSUME NEW d \in Deliveries, NEW event \in Events, ReserveRetry(d, event) PROVE Bounded'
  <2>1. entries' = [Swept(event) EXCEPT ![event].inFlight = TRUE]
    BY <1>3 DEF ReserveRetry
  <2>2. /\ Swept(event) = [e \in Events |-> Swept(event)[e]]
        /\ \A e \in Events : Swept(event)[e] \in Entry
    BY SweptIs, NoEntryType DEF TypeOK
  <2>3. \A e \in Events : entries'[e].present = Swept(event)[e].present
    <3> SUFFICES ASSUME NEW e \in Events PROVE entries'[e].present = Swept(event)[e].present
      OBVIOUS
    <3>1. entries'[e] = IF e = event THEN [Swept(event)[e] EXCEPT !.inFlight = TRUE]
                                     ELSE Swept(event)[e]
      BY <2>1, <2>2
    <3> QED
      BY <2>2, <3>1 DEF Entry
  <2> QED
    BY <1>1, <1>2, <2>3
<1>4. ASSUME NEW event \in Events, Suppress(event) PROVE Bounded'
  BY <1>1, <1>2, <1>4 DEF Suppress
<1>5. ASSUME NEW d \in Deliveries, Complete(d) PROVE Bounded'
  <2>1. \A e \in Events : entries'[e].present = entries[e].present
    <3> DEFINE t == deliveries[d]
               x == [entries[t.event] EXCEPT
                       !.inFlight = FALSE, !.delivered = Succeeded(t),
                       !.receipts = entries[t.event].receipts \cup (t.ok \cap Destinations)]
    <3>1. t.event \in Events
      BY DEF TypeOK, Delivery
    <3>2. entries' = entries \/ entries' = [entries EXCEPT ![t.event] = x]
      BY <1>5 DEF Complete
    <3>3. x.present = entries[t.event].present
      BY <3>1 DEF TypeOK, Entry
    <3> HIDE DEF t, x
    <3> QED
      BY <3>1, <3>2, <3>3 DEF TypeOK
  <2> QED
    BY <1>1, <2>1
<1>6. CASE Tick
  <2>1. \A e \in Events : entries'[e].present = entries[e].present
    BY <1>6 DEF Tick, TypeOK, Entry
  <2> QED
    BY <1>1, <2>1
<1>7. CASE Restart
  BY <1>1, <1>7, NoEntryType DEF Restart
<1>8. CASE UNCHANGED entries
  BY <1>1, <1>8
<1> QED
  BY <1>3, <1>4, <1>5, <1>6, <1>7, <1>8, FreshBounded
     DEF Next, FanOut, vars, DeliverIneligible, ListChannels, ListChannelsFails, SendSucceeds,
         SendFails, ToggleChannel

\* The deduper's table never grows beyond its cap.
THEOREM TableIsBounded == Spec => []EntriesBounded
<1>1. Init => Bounded
  <2> SUFFICES ASSUME Init PROVE Bounded
    OBVIOUS
  <2>1. Present(entries) = {}
    BY NoEntryType DEF Init, Present
  <2> QED
    BY <2>1, FS_EmptySet, DedupeAssumption DEF Bounded, EntriesBounded
<1>2. Inv => TypeOK
  BY DEF Inv
<1>3. Bounded => EntriesBounded
  BY DEF Bounded
<1> QED
  BY <1>1, <1>2, <1>3, NextBounded, Invariance, PTL DEF Spec

-----------------------------------------------------------------------------
(* The history.                                                              *)

Result == [to : SUBSET (Destinations \cup Fallbacks), status : {"success", "failure"}]

\* A result names as a success only who has accepted the event.
ResultTrue(event, result, got) == result.status = "success" => result.to \subseteq got[event]

\* What is yet to be saved is true, and so is what is saved.
SavesTrue ==
    /\ saves \in [Deliveries -> [event : Events, todo : SUBSET Result]]
    /\ newest \subseteq Events \X Result
    /\ \A d \in Deliveries : \A r \in saves[d].todo : ResultTrue(saves[d].event, r, accepted)
    /\ \A x \in newest : ResultTrue(x[1], x[2], accepted)

\* A record is on its way from one handler at most, and only for an entry that
\* has the mark and no record yet; an entry without the mark has none.
SuppressionsInv ==
    /\ serial \in [Events -> Serials]
    /\ recording \in [Deliveries -> SUBSET Serials]
    /\ records \in [Serials -> 0 .. 1]
    /\ \A n \in Serials \ noted : records[n] = 0
    /\ \A d \in Deliveries : \A n \in recording[d] : n \in noted /\ records[n] = 0
    /\ \A d, c \in Deliveries : d # c => recording[d] \cap recording[c] = {}

HistoryInv == Inv /\ SavesTrue /\ SuppressionsInv

\* The history leaves the deduper and its fan-outs as they are.
LEMMA HistoryIsNext == [HistoryNext]_historyVars => [Next]_vars
<1> SUFFICES ASSUME [HistoryNext]_historyVars PROVE [Next]_vars
  OBVIOUS
<1>1. CASE UNCHANGED historyVars
  BY <1>1 DEF historyVars
<1>2. ASSUME NEW d \in Deliveries, NEW e \in Events, Reserve(d, e) PROVE Next
  BY <1>2 DEF Reserve, Next
<1>3. ASSUME NEW d \in Deliveries, Handle(d) PROVE [Next]_vars
  <2>1. CASE Send(d)
    BY <2>1 DEF Send, Next, FanOut
  <2>2. CASE CompleteThenSave(d)
    BY <2>2 DEF CompleteThenSave, Next, FanOut
  <2>3. CASE \E result \in saves[d].todo, inserted \in BOOLEAN : SaveResult(d, result, inserted)
    BY <2>3 DEF SaveResult
  <2>4. CASE \E n \in recording[d], inserted \in BOOLEAN : SaveSuppressed(d, n, inserted)
    BY <2>4 DEF SaveSuppressed
  <2> QED
    BY <1>3, <2>1, <2>2, <2>3, <2>4 DEF Handle
<1>4. ASSUME NEW d \in Deliveries, NEW e \in Events, SuppressOnce(d, e) PROVE Next
  BY <1>4 DEF SuppressOnce, Next
<1>5. CASE Outside(Tick \/ \E c \in Destinations : ToggleChannel(c))
  BY <1>5 DEF Outside, Next
<1>6. CASE RestartService
  BY <1>6 DEF RestartService, Next
<1> QED
  BY <1>1, <1>2, <1>3, <1>4, <1>5, <1>6 DEF HistoryNext

\* Nobody's acceptance is undone.
LEMMA AcceptedGrows ==
    ASSUME Inv, [Next]_vars PROVE \A e \in Events : accepted[e] \subseteq accepted'[e]
<1>1. CASE UNCHANGED accepted
  BY <1>1
<1>2. ASSUME NEW event \in Events, NEW c, Accept(event, c)
      PROVE  \A e \in Events : accepted[e] \subseteq accepted'[e]
  BY <1>2 DEF Accept, Inv, TypeOK
<1>3. ASSUME NEW d \in Deliveries, NEW c,
             SendSucceeds(d, c) \/ \E l \in BOOLEAN : SendFails(d, c, l)
      PROVE  \A e \in Events : accepted[e] \subseteq accepted'[e]
  <2>1. deliveries[d].event \in Events
    BY DEF Inv, TypeOK, Delivery
  <2> QED
    BY <1>1, <1>2, <1>3, <2>1 DEF SendSucceeds, SendFails
<1> QED
  BY <1>1, <1>3
     DEF Next, vars, ReserveFresh, ReserveRetry, DeliverIneligible, Suppress, ToggleChannel, Tick,
         Restart, FanOut, ListChannels, ListChannelsFails, Complete

\* What was true stays true.
LEMMA SavesStayTrue ==
    ASSUME SavesTrue, \A e \in Events : accepted[e] \subseteq accepted'[e],
           newest' \subseteq newest,
           saves' \in [Deliveries -> [event : Events, todo : SUBSET Result]],
           \A d \in Deliveries :
              \/ saves'[d] = saves[d]
              \/ \A r \in saves'[d].todo : ResultTrue(saves'[d].event, r, accepted')
    PROVE  SavesTrue'
<1>1. ASSUME NEW e \in Events, NEW r, ResultTrue(e, r, accepted) PROVE ResultTrue(e, r, accepted')
  BY <1>1 DEF ResultTrue
<1>2. \A d \in Deliveries : \A r \in saves'[d].todo : ResultTrue(saves'[d].event, r, accepted')
  BY <1>1 DEF SavesTrue
<1>3. \A x \in newest' : ResultTrue(x[1], x[2], accepted')
  BY <1>1 DEF SavesTrue
<1> QED
  BY <1>2, <1>3 DEF SavesTrue

\* The results of a fan-out are true when it ends.
LEMMA ResultsTrue ==
    ASSUME Inv, NEW d \in Deliveries
    PROVE  /\ Results(deliveries[d]) \subseteq Result
           /\ \A r \in Results(deliveries[d]) : ResultTrue(deliveries[d].event, r, accepted)
<1> DEFINE t == deliveries[d]
<1>1. t.matched \subseteq Destinations \cup Fallbacks /\ t.ok \subseteq accepted[t.event]
  BY DEF Inv, TypeOK, Delivery, FanOutsInv, FanOutInv
<1> HIDE DEF t
<1>2. ASSUME NEW c \in t.matched \ t.excluded
      PROVE  /\ [to |-> {c}, status |-> Status(t, c)] \in Result
             /\ ResultTrue(t.event, [to |-> {c}, status |-> Status(t, c)], accepted)
  BY <1>1 DEF Status, Result, ResultTrue
<1>3. /\ [to |-> {}, status |-> "failure"] \in Result
      /\ ResultTrue(t.event, [to |-> {}, status |-> "failure"], accepted)
  BY DEF Result, ResultTrue
<1>4. \A r \in Results(t) : \/ \E c \in t.matched \ t.excluded :
                                 r = [to |-> {c}, status |-> Status(t, c)]
                            \/ r = [to |-> {}, status |-> "failure"]
  BY DEF Results
<1> QED
  BY <1>2, <1>3, <1>4 DEF t

\* A new entry takes a number of which no record is on its way.
LEMMA NewEntryHistory ==
    ASSUME SuppressionsInv, NEW event \in Events, NewEntry(event)
    PROVE  SuppressionsInv'
<1> DEFINE n == CHOOSE i \in Unused(event) : TRUE
<1>1. /\ Unused(event) # {} /\ serial' = [serial EXCEPT ![event] = n] /\ noted' = noted \ {n}
      /\ records' = [records EXCEPT ![n] = 0] /\ recording' = recording
  BY DEF NewEntry
<1>2. n \in Unused(event)
  BY <1>1
<1> HIDE DEF n
<1>3. n \in Serials /\ \A d \in Deliveries : n \notin recording[d]
  BY <1>2 DEF Unused
<1> QED
  BY <1>1, <1>3 DEF SuppressionsInv

\* Whoever finds the entry without the mark is the only one to record it.
LEMMA SuppressHistory ==
    ASSUME SuppressionsInv, NEW d \in Deliveries, NEW event \in Events, SuppressOnce(d, event)
    PROVE  SuppressionsInv'
<1> DEFINE n == serial[event]
           own == IF n \in noted THEN {} ELSE {n}
<1>1. /\ noted' = noted \cup {n} /\ recording' = [recording EXCEPT ![d] = own]
      /\ UNCHANGED <<serial, records>>
  BY DEF SuppressOnce, Marked
<1>2. n \in Serials /\ own \subseteq Serials
  BY DEF SuppressionsInv
<1>3. /\ \A i \in own : i = n /\ i \notin noted
      /\ \A i \in own : records[i] = 0 /\ \A c \in Deliveries : i \notin recording[c]
  BY <1>2 DEF SuppressionsInv
<1> HIDE DEF n, own
<1>4. \A c \in Deliveries : recording'[c] = IF c = d THEN own ELSE recording[c]
  BY <1>1 DEF SuppressionsInv
<1>5. recording' \in [Deliveries -> SUBSET Serials]
  BY <1>1, <1>2 DEF SuppressionsInv
<1>6. ASSUME NEW c \in Deliveries, NEW i \in recording'[c] PROVE i \in noted' /\ records'[i] = 0
  BY <1>1, <1>3, <1>4, <1>6 DEF SuppressionsInv
<1>7. ASSUME NEW b \in Deliveries, NEW c \in Deliveries, b # c
      PROVE  recording'[b] \cap recording'[c] = {}
  BY <1>3, <1>4, <1>7 DEF SuppressionsInv
<1>8. \A i \in Serials \ noted' : records'[i] = 0
  BY <1>1 DEF SuppressionsInv
<1> QED
  BY <1>1, <1>5, <1>6, <1>7, <1>8 DEF SuppressionsInv

\* The record is saved, or not.
LEMMA SaveSuppressedHistory ==
    ASSUME SuppressionsInv, NEW d \in Deliveries, NEW n \in recording[d],
           NEW inserted \in BOOLEAN, SaveSuppressed(d, n, inserted)
    PROVE  SuppressionsInv'
<1> DEFINE k == IF inserted THEN records[n] + 1 ELSE records[n]
<1>1. /\ recording' = [recording EXCEPT ![d] = {}] /\ records' = [records EXCEPT ![n] = k]
      /\ UNCHANGED <<serial, noted>>
  BY DEF SaveSuppressed
<1>2. n \in Serials /\ n \in noted /\ records[n] = 0
  BY DEF SuppressionsInv
<1>3. k \in 0 .. 1
  BY <1>2
<1> HIDE DEF k
<1>4. \A c \in Deliveries : recording'[c] = IF c = d THEN {} ELSE recording[c]
  BY <1>1 DEF SuppressionsInv
<1>5. \A i \in Serials : records'[i] = IF i = n THEN k ELSE records[i]
  BY <1>1 DEF SuppressionsInv
<1>6. \A c \in Deliveries : n \notin recording'[c]
  BY <1>4 DEF SuppressionsInv
<1>7. /\ recording' \in [Deliveries -> SUBSET Serials] /\ records' \in [Serials -> 0 .. 1]
      /\ serial' \in [Events -> Serials]
  BY <1>1, <1>3 DEF SuppressionsInv
<1>8. \A i \in Serials \ noted' : records'[i] = 0
  BY <1>1, <1>2, <1>5 DEF SuppressionsInv
<1>9. ASSUME NEW c \in Deliveries, NEW i \in recording'[c] PROVE i \in noted' /\ records'[i] = 0
  BY <1>1, <1>4, <1>5, <1>6, <1>9 DEF SuppressionsInv
<1>10. \A b, c \in Deliveries : b # c => recording'[b] \cap recording'[c] = {}
  BY <1>4 DEF SuppressionsInv
<1> QED
  BY <1>7, <1>8, <1>9, <1>10 DEF SuppressionsInv

\* Every step preserves the invariant.
LEMMA HistoryNextInv == HistoryInv /\ [HistoryNext]_historyVars => HistoryInv'
<1> SUFFICES ASSUME HistoryInv, [HistoryNext]_historyVars PROVE HistoryInv'
  OBVIOUS
<1>0. Inv' /\ \A e \in Events : accepted[e] \subseteq accepted'[e]
  BY HistoryIsNext, NextInv, AcceptedGrows DEF HistoryInv
<1>1. ASSUME UNCHANGED saves, newest' \subseteq newest PROVE SavesTrue'
  BY <1>0, <1>1, SavesStayTrue DEF HistoryInv, SavesTrue
<1>2. ASSUME UNCHANGED suppressionVars PROVE SuppressionsInv'
  BY <1>2 DEF suppressionVars, HistoryInv, SuppressionsInv
<1>3. CASE UNCHANGED historyVars
  BY <1>0, <1>1, <1>2, <1>3 DEF historyVars, HistoryInv
<1>4. ASSUME NEW d \in Deliveries, NEW e \in Events, Reserve(d, e) PROVE HistoryInv'
  BY <1>0, <1>1, <1>2, <1>4, NewEntryHistory DEF Reserve, HistoryInv
<1>5. ASSUME NEW d \in Deliveries, Send(d) PROVE HistoryInv'
  BY <1>0, <1>1, <1>2, <1>5 DEF Send, HistoryInv
<1>6. ASSUME NEW d \in Deliveries, CompleteThenSave(d) PROVE HistoryInv'
  <2> DEFINE save == [event |-> deliveries[d].event, todo |-> Results(deliveries[d])]
  <2>1. /\ UNCHANGED suppressionVars /\ saves' = [saves EXCEPT ![d] = save] /\ newest' = {}
        /\ accepted' = accepted
    BY <1>6 DEF CompleteThenSave, Complete
  <2>2. /\ save \in [event : Events, todo : SUBSET Result]
        /\ \A r \in save.todo : ResultTrue(save.event, r, accepted)
    BY ResultsTrue DEF HistoryInv, Inv, TypeOK, Delivery
  <2> HIDE DEF save
  <2>3. saves' \in [Deliveries -> [event : Events, todo : SUBSET Result]]
    BY <2>1, <2>2 DEF HistoryInv, SavesTrue
  <2>4. \A o \in Deliveries : saves'[o] = IF o = d THEN save ELSE saves[o]
    BY <2>1 DEF HistoryInv, SavesTrue
  <2>5. SavesTrue'
    BY <1>0, <2>1, <2>2, <2>3, <2>4, SavesStayTrue DEF HistoryInv
  <2> QED
    BY <1>0, <1>2, <2>1, <2>5 DEF HistoryInv
<1>7. ASSUME NEW d \in Deliveries, NEW result \in saves[d].todo, NEW inserted \in BOOLEAN,
             SaveResult(d, result, inserted)
      PROVE  HistoryInv'
  <2> DEFINE save == IF saves[d].todo = {result} THEN NoSave
                     ELSE [saves[d] EXCEPT !.todo = saves[d].todo \ {result}]
  <2>1. /\ saves' = [saves EXCEPT ![d] = save]
        /\ newest' = IF inserted THEN {<<saves[d].event, result>>} ELSE {}
        /\ UNCHANGED <<accepted, suppressionVars>>
    <3>1. saves' = [saves EXCEPT ![d] = save]
      BY <1>7 DEF SaveResult
    <3>2. newest' = IF inserted THEN {<<saves[d].event, result>>} ELSE {}
      BY <1>7 DEF SaveResult, SaveNotificationDelivery
    <3>3. UNCHANGED <<accepted, suppressionVars>>
      BY <1>7 DEF SaveResult, vars
    <3> QED
      BY <3>1, <3>2, <3>3
  <2>2. /\ saves[d] \in [event : Events, todo : SUBSET Result]
        /\ \A r \in saves[d].todo : ResultTrue(saves[d].event, r, accepted)
    BY DEF HistoryInv, SavesTrue
  <2>3. /\ save \in [event : Events, todo : SUBSET Result]
        /\ save.todo = {} \/ (save.event = saves[d].event /\ save.todo \subseteq saves[d].todo)
    BY <2>2, IdleType DEF NoSave
  <2> HIDE DEF save
  <2>4. saves' \in [Deliveries -> [event : Events, todo : SUBSET Result]]
    BY <2>1, <2>3 DEF HistoryInv, SavesTrue
  <2>5. \A o \in Deliveries : saves'[o] = IF o = d THEN save ELSE saves[o]
    BY <2>1 DEF HistoryInv, SavesTrue
  <2>6. \A o \in Deliveries : \A r \in saves'[o].todo : ResultTrue(saves'[o].event, r, accepted)
    BY <2>2, <2>3, <2>5 DEF HistoryInv, SavesTrue
  <2>7. /\ newest' \subseteq Events \X Result
        /\ \A x \in newest' : ResultTrue(x[1], x[2], accepted)
    BY <2>1, <2>2 DEF HistoryInv, SavesTrue
  <2>8. SavesTrue'
    BY <2>1, <2>4, <2>6, <2>7 DEF SavesTrue
  <2> QED
    BY <1>0, <1>2, <2>1, <2>8 DEF HistoryInv
<1>8. ASSUME NEW d \in Deliveries, NEW e \in Events, SuppressOnce(d, e) PROVE HistoryInv'
  BY <1>0, <1>1, <1>8, SuppressHistory DEF SuppressOnce, HistoryInv
<1>11. ASSUME NEW d \in Deliveries, NEW n \in recording[d], NEW inserted \in BOOLEAN,
              SaveSuppressed(d, n, inserted)
       PROVE  HistoryInv'
  BY <1>0, <1>1, <1>11, SaveSuppressedHistory DEF SaveSuppressed, HistoryInv
<1>9. CASE Outside(Tick \/ \E c \in Destinations : ToggleChannel(c))
  BY <1>0, <1>1, <1>2, <1>9 DEF Outside, HistoryInv
<1>10. CASE RestartService
  <2>1. /\ saves' = [d \in Deliveries |-> NoSave] /\ newest' = {}
        /\ recording' = [d \in Deliveries |-> {}] /\ UNCHANGED <<serial, noted, records>>
    BY <1>10 DEF RestartService
  <2>2. NoSave \in [event : Events, todo : SUBSET Result] /\ NoSave.todo = {}
    BY IdleType DEF NoSave
  <2>3. SavesTrue'
    BY <1>0, <2>1, <2>2, SavesStayTrue DEF HistoryInv
  <2>4. SuppressionsInv'
    BY <2>1 DEF HistoryInv, SuppressionsInv
  <2> QED
    BY <1>0, <2>3, <2>4 DEF HistoryInv
<1> QED
  BY <1>3, <1>4, <1>5, <1>6, <1>7, <1>8, <1>9, <1>10, <1>11 DEF HistoryNext, Handle

\* The invariant holds in every state of the deduper with its history.
THEOREM HistoryInvariance == HistorySpec => []HistoryInv
<1>1. HistoryInit => HistoryInv
  <2> SUFFICES ASSUME HistoryInit PROVE HistoryInv
    OBVIOUS
  <2>1. Inv
    BY InitInv DEF HistoryInit
  <2>2. NoSave \in [event : Events, todo : SUBSET Result] /\ NoSave.todo = {}
    BY IdleType DEF NoSave
  <2>3. SavesTrue
    BY <2>2 DEF HistoryInit, SavesTrue
  <2>4. SuppressionsInv
    <3>1. (CHOOSE n \in Serials : TRUE) \in Serials
      BY SerialsAssumption
    <3> QED
      BY <3>1 DEF HistoryInit, SuppressionsInv
  <2> QED
    BY <2>1, <2>3, <2>4 DEF HistoryInv
<1> QED
  BY <1>1, HistoryNextInv, PTL DEF HistorySpec

\* A delivery is on record as a success only if it was one.
THEOREM HistoryTellsTheTruth == HistorySpec => []HistoryIsTrue
<1>1. HistoryInv => HistoryIsTrue
  BY DEF HistoryInv, SavesTrue, ResultTrue, HistoryIsTrue
<1> QED
  BY <1>1, HistoryInvariance, PTL

\* Duplicates leave at most one record per entry, although it is saved outside
\* the mutex: for any number of handlers at once, whatever becomes of the entry
\* before the record is saved.
THEOREM SuppressedOnce == HistorySpec => []OneSuppressionRecord
<1>1. HistoryInv => OneSuppressionRecord
  BY DEF HistoryInv, SuppressionsInv, OneSuppressionRecord
<1> QED
  BY <1>1, HistoryInvariance, PTL

=============================================================================
