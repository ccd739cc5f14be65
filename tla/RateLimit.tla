------------------------------ MODULE RateLimit ------------------------------
(***************************************************************************)
(* The rate limiter in front of the sensitive endpoints, with both of its  *)
(* backends: sliding windows in a map of the process, under a mutex, and   *)
(* fixed windows in the MariaDB table rate_limit_buckets, one transaction  *)
(* per request.                                                            *)
(*                                                                         *)
(* A request reads the clock before it waits for the mutex or for a row,   *)
(* so it may be applied after requests with later readings: such a request *)
(* is late.                                                                *)
(*                                                                         *)
(* In the transaction the DELETE and the SELECT ... FOR UPDATE lock rows;  *)
(* the SELECT locks the gap of a row that is not there (REPEATABLE READ),  *)
(* which others may lock too but not insert into.  The last statement and  *)
(* the COMMIT are one step: nobody else sees a row in between.  What else  *)
(* InnoDB locks on the way is not told apart: any statement may fail.      *)
(***************************************************************************)
EXTENDS RateLimitKey, FiniteSets, Integers

CONSTANTS
    Endpoints,   \* what is asked for: a method and a path
    Callers,     \* remote addresses, with their X-Forwarded-For
    Requests,    \* requests that may be at the limiter at once
    Burst,
    Window,      \* in ticks
    MaxBuckets,
    MaxTime,     \* bound on the clock
    MaxGrants    \* bound on what is let through

ASSUME RateLimitAssumption ==
    /\ Burst \in Nat \ {0}
    /\ Window \in Nat \ {0}
    /\ MaxBuckets \in Nat \ {0}
    /\ MaxTime \in Nat
    /\ MaxGrants \in Nat
    /\ Endpoints # {} /\ IsFiniteSet(Endpoints)
    /\ \A e \in Endpoints : e = Endpoint(e.method, e.path.collection, e.path.id, e.path.operation)
    /\ Callers # {} /\ IsFiniteSet(Callers)

Keys == {RateLimitKey(e.method, e.path, c) : e \in Endpoints, c \in Callers}

Times == 0 .. MaxTime

VARIABLES
    backend,   \* "memory", "shared" or "missing"
    clock,
    requests,  \* what each request is doing, or its answer
    hits,      \* memory: the bucket of each key, {} when there is none
    rows,      \* shared: rate_limit_buckets, by key
    latest,    \* history: the latest clock reading applied
    granted,   \* history: what was let through, by key
    late       \* history: how many of each key were let through late

vars == <<backend, clock, requests, hits, rows, latest, granted, late>>

\* A clock reading in a bucket.  Its serial number tells it from others with one
\* reading; the code never looks at the order of the list.
Hit == [serial : Nat, at : Times]

Row == [present : BOOLEAN, window : Times, count : Nat, updated : Times]

NoRow == [present |-> FALSE, window |-> 0, count |-> 0, updated |-> 0]

InTransaction == {"cleanup", "select", "found", "insert"}

Request == [pc      : InTransaction \cup {"idle", "memory"},
            key     : Keys,
            now     : Times,
            removed : SUBSET Keys]

Idle == [pc |-> "idle", key |-> CHOOSE k \in Keys : TRUE, now |-> 0, removed |-> {}]

TypeOK ==
    /\ backend \in {"memory", "shared", "missing"}
    /\ clock \in Times
    /\ requests \in [Requests -> Request]
    /\ hits \in [Keys -> SUBSET Hit]
    /\ rows \in [Keys -> Row]
    /\ latest \in Times
    /\ granted \in [Keys -> SUBSET Hit]
    /\ late \in [Keys -> Nat]

\* rateLimiterFromEnv: what OBSERVABILITY_RATE_LIMIT_BACKEND names, by the store.
Backend(setting, isMariaDB) ==
    CASE setting \in {"store", "mariadb", "shared"} -> IF isMariaDB THEN "shared" ELSE "missing"
      [] setting = "" -> IF isMariaDB THEN "shared" ELSE "memory"
      [] OTHER -> "memory"

Init ==
    /\ \E setting \in {"", "memory", "shared"}, isMariaDB \in BOOLEAN :
         backend = Backend(setting, isMariaDB)
    /\ clock = 0
    /\ requests = [r \in Requests |-> Idle]
    /\ hits = [k \in Keys |-> {}]
    /\ rows = [k \in Keys |-> NoRow]
    /\ latest = 0
    /\ granted = [k \in Keys |-> {}]
    /\ late = [k \in Keys |-> 0]

Waiting(r) == requests[r].pc # "idle"

\* How many requests of the key with such readings were let through.
Granted(key, times) == Cardinality({h \in granted[key] : h.at \in times})

NewHit(key, now) == [serial |-> Cardinality(granted[key]) + 1, at |-> now]

\* What was let through and what may still be.
Outstanding ==
    MapThenSumSet(LAMBDA k : Cardinality(granted[k]), Keys)
      + Cardinality({q \in Requests : Waiting(q)})

-----------------------------------------------------------------------------
(* allow.                                                                    *)

\* rateLimitSensitive and allow: the clock is read, the backend chosen.
Start(r, endpoint, caller) ==
    /\ ~Waiting(r)
    /\ IsRateLimitedEndpoint(endpoint.method, endpoint.path)
    /\ Outstanding < MaxGrants
    /\ backend # "missing"
    /\ requests' = [requests EXCEPT ![r] =
                      [pc      |-> IF backend = "memory" THEN "memory" ELSE "cleanup",
                       key     |-> RateLimitKey(endpoint.method, endpoint.path, caller),
                       now     |-> clock,
                       removed |-> {}]]
    /\ UNCHANGED <<backend, clock, hits, rows, latest, granted, late>>

\* The request goes on to its handler.
Allow(r, isLate) ==
    LET q == requests[r] IN
    /\ requests' = [requests EXCEPT ![r] = Idle]
    /\ latest' = IF q.now > latest THEN q.now ELSE latest
    /\ granted' = [granted EXCEPT ![q.key] = @ \cup {NewHit(q.key, q.now)}]
    /\ late' = IF isLate THEN [late EXCEPT ![q.key] = @ + 1] ELSE late

\* 429 rate_limited.
Refuse(r) ==
    LET q == requests[r] IN
    /\ requests' = [requests EXCEPT ![r] = Idle]
    /\ latest' = IF q.now > latest THEN q.now ELSE latest
    /\ UNCHANGED <<granted, late>>

\* 503 rate_limit_unavailable.
Fail(r) ==
    /\ requests' = [requests EXCEPT ![r] = Idle]
    /\ UNCHANGED <<backend, clock, hits, rows, latest, granted, late>>

-----------------------------------------------------------------------------
(* allowMemory, under the mutex.                                             *)

\* Mutant of Recent: a hit on the edge of the window is kept.
RecentAtEdge(bucket, now) == {hit \in bucket : hit.at >= now - Window}

\* The hits after the cutoff.
Recent(bucket, now) == {hit \in bucket : hit.at > now - Window}

\* Mutant of Room: the bucket may take one more than the burst.
RoomForOneMore(kept, buckets) ==
    /\ Cardinality(kept) <= Burst
    /\ kept = {} => buckets < MaxBuckets

\* The bucket is below the burst, and a new one finds a place.
Room(kept, buckets) ==
    /\ Cardinality(kept) < Burst
    /\ kept = {} => buckets < MaxBuckets

AllowMemory(r) ==
    LET q       == requests[r]
        pruned  == [k \in Keys |-> Recent(hits[k], q.now)]
        kept    == pruned[q.key]
        allowed == Room(kept, Cardinality({k \in Keys : pruned[k] # {}}))
    IN /\ q.pc = "memory"
       /\ \/ /\ allowed
             /\ hits' = [pruned EXCEPT ![q.key] = kept \cup {NewHit(q.key, q.now)}]
             /\ Allow(r, q.now < latest)
          \/ /\ ~allowed
             /\ hits' = pruned
             /\ Refuse(r)
       /\ UNCHANGED <<backend, clock, rows>>

-----------------------------------------------------------------------------
(* AllowRateLimit, in a transaction.                                         *)

\* rateLimitWindowStart.
WindowStart(now) == now - (now % Window)

\* The transaction of q has the row: it read it for update or deleted it.
Holds(q, key) ==
    \/ requests[q].pc = "found" /\ requests[q].key = key
    \/ requests[q].pc \in InTransaction /\ key \in requests[q].removed

Locked(r, key) == \E q \in Requests \ {r} : Holds(q, key)

Expired(r) == {k \in Keys : /\ rows[k].present
                            /\ rows[k].updated < WindowStart(requests[r].now) - 2 * Window}

\* DELETE ... WHERE updated_at < ?
Cleanup(r) ==
    /\ requests[r].pc = "cleanup"
    /\ \A k \in Expired(r) : ~Locked(r, k)
    /\ requests' = [requests EXCEPT ![r].pc = "select", ![r].removed = Expired(r)]
    /\ UNCHANGED <<backend, clock, hits, rows, latest, granted, late>>

\* SELECT ... FOR UPDATE.
Select(r) ==
    LET q == requests[r] IN
    /\ q.pc = "select"
    /\ ~Locked(r, q.key)
    /\ requests' = [requests EXCEPT ![r].pc =
                      IF rows[q.key].present /\ q.key \notin q.removed THEN "found" ELSE "insert"]
    /\ UNCHANGED <<backend, clock, hits, rows, latest, granted, late>>

\* COMMIT, with what the transaction deleted.
CommitRow(r, row, allowed) ==
    LET q == requests[r] IN
    /\ rows' = [k \in Keys |-> IF k = q.key THEN row
                               ELSE IF k \in q.removed THEN NoRow ELSE rows[k]]
    /\ \/ allowed /\ Allow(r, WindowStart(q.now) < WindowStart(latest))
       \/ ~allowed /\ Refuse(r)
    /\ UNCHANGED <<backend, clock, hits>>

FirstHit(r) == [present |-> TRUE, window |-> WindowStart(requests[r].now), count |-> 1,
                updated |-> requests[r].now]

\* The gap of a key that is not there: no insert while another one holds it.
GapHeld(r, key) ==
    \E q \in Requests \ {r} : requests[q].pc = "insert" /\ requests[q].key = key

InsertRow(r) ==
    /\ requests[r].pc = "insert"
    /\ ~GapHeld(r, requests[r].key)
    /\ CommitRow(r, FirstHit(r), TRUE)

\* Another window: the count starts anew.
ResetWindow(r) ==
    /\ requests[r].pc = "found"
    /\ rows[requests[r].key].window # WindowStart(requests[r].now)
    /\ CommitRow(r, FirstHit(r), TRUE)

\* Mutant of CountHit: the hit is compared with the burst before it is counted.
CountHitUnbounded(r) ==
    LET q == requests[r]
        row == rows[q.key]
    IN /\ q.pc = "found"
       /\ row.window = WindowStart(q.now)
       /\ CommitRow(r, [row EXCEPT !.count = @ + 1, !.updated = q.now], row.count <= Burst)

CountHit(r) ==
    LET q == requests[r]
        row == rows[q.key]
        allowed == row.count < Burst
    IN /\ q.pc = "found"
       /\ row.window = WindowStart(q.now)
       /\ CommitRow(r, [row EXCEPT !.count = IF allowed THEN @ + 1 ELSE @, !.updated = q.now],
                    allowed)

\* p waits for a lock of q.  Two inserts wait for each other's gap, for one key
\* or for two neighbours.
Waits(p, q) ==
    \/ requests[p].pc = "cleanup" /\ \E k \in Expired(p) : Holds(q, k)
    \/ requests[p].pc = "select" /\ Holds(q, requests[p].key)
    \/ requests[p].pc = "insert" /\ requests[q].pc = "insert"

\* r waits in a circle, or for one.
InCircle(r) ==
    \E circle \in SUBSET Requests :
        /\ r \in circle
        /\ \A p \in circle : \E q \in circle \ {p} : Waits(p, q)

\* Mutant of Deadlock: the error path leaves the transaction open.
DeadlockLeaks(r) ==
    /\ InCircle(r)
    /\ UNCHANGED vars

\* InnoDB rolls a transaction of the circle back, and its request fails.
Deadlock(r) ==
    /\ InCircle(r)
    /\ Fail(r)

\* A statement fails or the client goes away: the deferred Rollback.
Abort(r) ==
    /\ requests[r].pc \in InTransaction
    /\ Fail(r)

-----------------------------------------------------------------------------

Tick ==
    /\ clock < MaxTime
    /\ clock' = clock + 1
    /\ UNCHANGED <<backend, requests, hits, rows, latest, granted, late>>

\* The map is lost with the process, and what it let through is forgotten; the
\* table stays, and open transactions are rolled back.
Restart ==
    /\ hits' = [k \in Keys |-> {}]
    /\ requests' = [r \in Requests |-> Idle]
    /\ granted' = IF backend = "memory" THEN [k \in Keys |-> {}] ELSE granted
    /\ UNCHANGED <<backend, clock, rows, latest, late>>

Step(r) ==
    \/ AllowMemory(r)
    \/ Cleanup(r) \/ Select(r)
    \/ InsertRow(r) \/ ResetWindow(r) \/ CountHit(r)
    \/ Deadlock(r)

Next ==
    \/ \E r \in Requests :
         \/ \E e \in Endpoints, c \in Callers : Start(r, e, c)
         \/ Step(r)
         \/ Abort(r)
    \/ Tick
    \/ Restart

Spec == Init /\ [][Next]_vars

-----------------------------------------------------------------------------

\* The memory backend lets at most Burst requests of a key through in any
\* Window ticks, wherever they begin, however requests for other keys prune
\* and fill the map; a request that waited for the mutex while the clock went
\* on may add one, because its own past was pruned by the later one.
MemoryWindowBound ==
    backend = "memory" =>
        \A k \in Keys, t \in Times :
            Granted(k, (t - Window + 1) .. t) <= Burst + late[k]

\* The shared backend lets at most Burst requests of a key through in one of
\* its fixed windows, over concurrent transactions, rollbacks, the cleanup of
\* old rows and restarts; each request that was committed a window too late
\* may set the row back and so allow another Burst.
SharedWindowBound ==
    backend = "shared" =>
        \A k \in Keys, t \in {t \in Times : WindowStart(t) = t} :
            Granted(k, t .. (t + Window - 1)) <= Burst * (1 + late[k])

\* The key has had its burst in the window of this request, or MaxBuckets
\* other keys are in use.
Cause(q) ==
    LET since == (q.now - Window + 1) .. MaxTime
        start == WindowStart(q.now)
    IN \/ /\ backend = "memory"
          /\ \/ Granted(q.key, since) >= Burst
             \/ Cardinality({k \in Keys \ {q.key} : Granted(k, since) > 0}) >= MaxBuckets
       \/ /\ backend = "shared"
          /\ Granted(q.key, start .. (start + Window - 1)) >= Burst

\* Nobody is refused without a cause: whatever was pruned, cleaned up or reset
\* before, the requests that were let through account for the refusal.
RefusedForCause ==
    [][\A r \in Requests :
         (AllowMemory(r) \/ CountHit(r)) /\ granted' = granted => Cause(requests[r])]_vars

\* The requests never wait for each other in a circle: when some are at the
\* limiter, one of them can go on, although two first requests of a bucket both
\* find no row, lock its gap together and both want to insert.
NoStandstill ==
    (\E r \in Requests : Waiting(r)) => ENABLED <<\E r \in Requests : Step(r)>>_vars

\* One client has one bucket per route, whichever elements it asks for, and
\* routes do not share one: else a client would get a burst per element, or
\* one route would use up another's.
BucketPerRoute ==
    /\ BucketsByRoute
    /\ \A r \in Requests :
         LET key == requests[r].key IN
         /\ Waiting(r)
         /\ [method |-> key[1], path |-> key[2]] \in Routes(key[2].id)
         => key[2].id \in {NoPart, AnyId}

=============================================================================
