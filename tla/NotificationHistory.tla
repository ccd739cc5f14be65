------------------------- MODULE NotificationHistory -------------------------
(***************************************************************************)
(* The delivery history that deliverNotificationEvent writes.  A handler   *)
(* saves the results of its fan-out one by one after complete, under what  *)
(* is left of the fan-out's deadline.  A handler that suppresses the first *)
(* duplicate of an entry marks the entry under the mutex and saves a record*)
(* of it afterwards, when the entry may be gone, be made again, or have    *)
(* other duplicates.  A save fails when its deadline is used up or the     *)
(* database fails, and the INSERT may have been carried out all the same;  *)
(* the error is logged and the handler goes on.                            *)
(*                                                                         *)
(* The actions are those of NotificationDedupe, with what they do to the   *)
(* history.  A handler that saves is not free for another event.  Nothing  *)
(* changes a result or reads it to decide, so only what the last step put  *)
(* there is kept.                                                          *)
(* Each entry has a serial number; the number is used again when the entry *)
(* is gone and nobody has a record of it to save.                          *)
(***************************************************************************)
EXTENDS NotificationDedupe

CONSTANT Serials   \* serial numbers of entries

\* There are enough for the entries and for a record of every other handler.
ASSUME SerialsAssumption ==
    /\ Serials # {}
    /\ IsFiniteSet(Serials) => Cardinality(Serials) >= MaxEntries + Cardinality(Deliveries) - 1

VARIABLES
    saves,      \* the event and the results each handler has yet to save
    newest,     \* the result the last step put into notification_deliveries, with its event
    serial,     \* the serial number of the event's entry, if it is present
    noted,      \* the entries with suppressionRecorded, by number
    recording,  \* the entry, if any, each handler has yet to save a record for
    records     \* history: records of suppressed duplicates per entry

suppressionVars == <<serial, noted, recording, records>>
historyVars == <<vars, saves, newest, suppressionVars>>

NoSave == [event |-> Idle.event, todo |-> {}]

HistoryInit ==
    /\ Init
    /\ saves = [d \in Deliveries |-> NoSave]
    /\ newest = {}
    /\ serial = [e \in Events |-> CHOOSE n \in Serials : TRUE]
    /\ noted = {}
    /\ recording = [d \in Deliveries |-> {}]
    /\ records = [n \in Serials |-> 0]

\* The handler has nothing to send and nothing to save.
Free(d) == ~Running(d) /\ saves[d].todo = {} /\ recording[d] = {}

\* The numbers nobody has: no other entry and no record on its way.
Unused(event) ==
    Serials \ ({serial[e] : e \in Present(entries') \ {event}}
               \cup UNION {recording[d] : d \in Deliveries})

\* The event gets an entry without the mark.
NewEntry(event) ==
    LET n == CHOOSE i \in Unused(event) : TRUE IN
    /\ Unused(event) # {}
    /\ serial' = [serial EXCEPT ![event] = n]
    /\ noted' = noted \ {n}
    /\ records' = [records EXCEPT ![n] = 0]
    /\ UNCHANGED recording

Reserve(d, event) ==
    /\ Free(d)
    /\ \/ ReserveFresh(d, event) /\ NewEntry(event)
       \/ ReserveRetry(d, event) /\ UNCHANGED suppressionVars
       \/ DeliverIneligible(d, event) /\ UNCHANGED suppressionVars
    /\ newest' = {}
    /\ UNCHANGED saves

\* Mutant of Marked: the mark is set in a copy that is not put back.
MarkedInCopy(n) == noted

\* suppressionRecorded is set in the entry.
Marked(n) == noted \cup {n}

\* A duplicate is suppressed under the mutex; the handler that finds the entry
\* without the mark goes on to save a record.
SuppressOnce(d, event) ==
    LET n == serial[event] IN
    /\ Free(d)
    /\ Suppress(event)
    /\ noted' = Marked(n)
    /\ recording' = [recording EXCEPT ![d] = IF n \in noted THEN {} ELSE {n}]
    /\ newest' = {}
    /\ UNCHANGED <<saves, serial, records>>

\* saveSuppressedNotificationDelivery, with or without its effect, outside the
\* mutex and whatever has become of the entry.
SaveSuppressed(d, n, inserted) ==
    /\ n \in recording[d]
    /\ recording' = [recording EXCEPT ![d] = {}]
    /\ records' = [records EXCEPT ![n] = IF inserted THEN records[n] + 1 ELSE records[n]]
    /\ newest' = {}
    /\ UNCHANGED <<vars, saves, serial, noted>>

\* Mutant of Status: a result counts as a success unless it says otherwise, and
\* its error is not looked at.
StatusByDefault(t, destination) == "success"

\* A result with an error is a failure, whatever its status.
Status(t, destination) == IF destination \in t.ok THEN "success" ELSE "failure"

\* The results of a fan-out: one per destination it tried, or the one that
\* stands for the channels that could not be read.
Results(t) ==
    {[to |-> {c}, status |-> Status(t, c)] : c \in t.matched \ t.excluded}
      \cup (IF t.matched = {} /\ t.failed THEN {[to |-> {}, status |-> "failure"]} ELSE {})

CompleteThenSave(d) ==
    /\ Complete(d)
    /\ saves' = [saves EXCEPT ![d] = [event |-> deliveries[d].event,
                                      todo  |-> Results(deliveries[d])]]
    /\ newest' = {}
    /\ UNCHANGED suppressionVars

\* The INSERT of a result, with or without its effect.
SaveNotificationDelivery(event, result, inserted) ==
    newest' = IF inserted THEN {<<event, result>>} ELSE {}

\* One turn of saveNotificationDeliveryResults.
SaveResult(d, result, inserted) ==
    /\ result \in saves[d].todo
    /\ saves' = [saves EXCEPT ![d] =
                   IF saves[d].todo = {result} THEN NoSave
                   ELSE [saves[d] EXCEPT !.todo = saves[d].todo \ {result}]]
    /\ SaveNotificationDelivery(saves[d].event, result, inserted)
    /\ UNCHANGED <<vars, suppressionVars>>

Send(d) ==
    /\ \/ ListChannels(d)
       \/ ListChannelsFails(d)
       \/ \E c \in Destinations \cup Fallbacks :
            \/ SendSucceeds(d, c)
            \/ \E lostAnswer \in BOOLEAN : SendFails(d, c, lostAnswer)
    /\ newest' = {}
    /\ UNCHANGED <<saves, suppressionVars>>

Handle(d) ==
    \/ Send(d)
    \/ CompleteThenSave(d)
    \/ \E result \in saves[d].todo, inserted \in BOOLEAN : SaveResult(d, result, inserted)
    \/ \E n \in recording[d], inserted \in BOOLEAN : SaveSuppressed(d, n, inserted)

\* A step of somebody else: time, or an operator who changes a channel.
Outside(A) == A /\ newest' = {} /\ UNCHANGED <<saves, suppressionVars>>

RestartService ==
    /\ Restart
    /\ saves' = [d \in Deliveries |-> NoSave]
    /\ recording' = [d \in Deliveries |-> {}]
    /\ newest' = {}
    /\ UNCHANGED <<serial, noted, records>>

HistoryNext ==
    \/ \E d \in Deliveries :
         \/ \E e \in Events : Reserve(d, e) \/ SuppressOnce(d, e)
         \/ Handle(d)
    \/ Outside(Tick \/ \E c \in Destinations : ToggleChannel(c))
    \/ RestartService

\* A running handler goes on, and time passes.
HistorySpec ==
    /\ HistoryInit
    /\ [][HistoryNext]_historyVars
    /\ \A d \in Deliveries : WF_historyVars(Handle(d))
    /\ WF_historyVars(Outside(Tick))

-----------------------------------------------------------------------------

\* The history names a delivery as a success only if that destination accepted
\* that event, whichever fan-out it was and however late its results are saved:
\* true of every record when it is the newest, and acceptance is not undone.
HistoryIsTrue ==
    \A record \in newest :
        record[2].status = "success" => record[2].to \subseteq accepted[record[1]]

\* A storm of duplicates leaves at most one record in the history per entry of
\* the deduper, although the record is saved outside the mutex: while it is on
\* its way there may be other duplicates, and the entry may expire, be evicted
\* or closed and be made again for the same event.
OneSuppressionRecord == \A n \in Serials : records[n] <= 1

=============================================================================
