--------------------------- MODULE RateLimitProofs ---------------------------
(***************************************************************************)
(* RateLimit, for any endpoints, callers, concurrent requests, burst,      *)
(* window and cap on the buckets: both backends keep to the burst up to    *)
(* requests that are late, nobody is refused without a cause, and a route  *)
(* has one bucket.                                                         *)
(***************************************************************************)
EXTENDS RateLimit, FiniteSetTheorems, TLAPS

\* What was let through is numbered, and no reading is later than the latest.
GrantsInv ==
    \A k \in Keys :
        /\ IsFiniteSet(granted[k])
        /\ \A h \in granted[k] : h.serial <= Cardinality(granted[k]) /\ h.at <= latest

\* A process has one backend, and the other one's state stays as it was.
BackendInv ==
    /\ backend = "memory" => /\ \A r \in Requests : requests[r].pc \in {"idle", "memory"}
                             /\ \A k \in Keys : rows[k] = NoRow
    /\ backend # "memory" => \A r \in Requests : requests[r].pc # "memory"
    /\ backend = "missing" => \A r \in Requests : requests[r].pc = "idle"

\* A bucket holds only what was let through, and all of it that a request that
\* is not late could count: pruning forgets nothing that still matters.
BucketInv ==
    backend = "memory" =>
        \A k \in Keys :
            /\ hits[k] \subseteq granted[k]
            /\ \A h \in granted[k] : h.at > latest - Window => h \in hits[k]

\* What request r knows of the table while it holds its locks.
HoldsInv(r) ==
    LET q == requests[r] IN
    /\ q.pc \notin InTransaction => q.removed = {}
    /\ q.pc = "found" => rows[q.key].present /\ q.key \notin q.removed
    /\ q.pc = "insert" /\ rows[q.key].present => q.key \in q.removed
    /\ \A k \in q.removed :
         rows[k].present /\ rows[k].updated < WindowStart(q.now) - 2 * Window

\* Two transactions never hold one row.
ExclusiveInv ==
    \A r, q \in Requests :
        r # q =>
          /\ requests[r].removed \cap requests[q].removed = {}
          /\ requests[r].pc = "found" => requests[r].key \notin requests[q].removed
          /\ requests[r].pc = "found" /\ requests[q].pc = "found"
             => requests[r].key # requests[q].key

LocksInv == ExclusiveInv /\ \A r \in Requests : HoldsInv(r)

\* How many of the hits are of these times, or of the fixed window from w.
Count(S, T) == Cardinality({h \in S : h.at \in T})
InWindow(S, w) == Count(S, w .. (w + Window - 1))

\* The row counts requests of its window that were let through, at most Burst.
RowInv(k) ==
    rows[k].present =>
        /\ rows[k].window = WindowStart(rows[k].updated)
        /\ rows[k].count <= Burst
        /\ rows[k].count <= InWindow(granted[k], rows[k].window)

\* What the row does not count of its window, and of the latest one when it is
\* set to another, is made up for by late requests.
LateInv(k) ==
    /\ rows[k].present => InWindow(granted[k], rows[k].window) <= rows[k].count + Burst * late[k]
    /\ ~(rows[k].present /\ rows[k].window = WindowStart(latest))
       => InWindow(granted[k], WindowStart(latest)) <= Burst * late[k]

RowsInv == backend = "shared" => \A k \in Keys : RowInv(k) /\ LateInv(k)

\* The inductive invariant.
Inv ==
    /\ TypeOK
    /\ GrantsInv
    /\ BackendInv
    /\ BucketInv
    /\ LocksInv
    /\ RowsInv
    /\ MemoryWindowBound
    /\ SharedWindowBound

-----------------------------------------------------------------------------
(* Keys, fixed windows, and counting what was let through.                   *)

\* There are finitely many buckets, and there is one.
LEMMA KeysFinite == IsFiniteSet(Keys) /\ Keys # {}
<1> DEFINE P == Endpoints \X Callers
           f == [p \in P |-> RateLimitKey(p[1].method, p[1].path, p[2])]
<1>1. IsFiniteSet(P)
  BY FS_Product, RateLimitAssumption
<1>2. f \in Surjection(P, Keys)
  <2>1. \A p \in P : f[p] \in Keys
    BY DEF Keys
  <2>2. ASSUME NEW t \in Keys PROVE \E p \in P : f[p] = t
    <3>1. PICK e \in Endpoints, c \in Callers : t = RateLimitKey(e.method, e.path, c)
      BY DEF Keys
    <3>2. <<e, c>> \in P /\ f[<<e, c>>] = t
      BY <3>1
    <3> QED
      BY <3>2
  <2>3. f \in [P -> Keys]
    BY <2>1
  <2> QED
    BY <2>2, <2>3 DEF Surjection
<1>3. IsFiniteSet(Keys)
  BY <1>1, <1>2, FS_Surjection
<1>4. Keys # {}
  BY RateLimitAssumption DEF Keys
<1> QED
  BY <1>3, <1>4

\* A window contains the reading it is the window of.
LEMMA WindowStartType ==
    ASSUME NEW n \in Nat
    PROVE  WindowStart(n) \in Nat /\ WindowStart(n) <= n /\ n < WindowStart(n) + Window
<1>1. n % Window \in 0 .. (Window - 1) /\ n % Window <= n
  BY RateLimitAssumption
<1> QED
  BY <1>1, RateLimitAssumption DEF WindowStart

\* A window starts where it says.
LEMMA WindowStartOfStart ==
    ASSUME NEW n \in Nat
    PROVE  WindowStart(WindowStart(n)) = WindowStart(n)
BY WindowStartType, RateLimitAssumption DEF WindowStart

\* Within Window of a multiple, the remainder is the distance.
LEMMA Remainder ==
    ASSUME NEW w \in Nat, NEW n \in Nat, w % Window = 0, w <= n, n < w + Window
    PROVE  n % Window = n - w
<1> DEFINE a == w \div Window
           b == n \div Window
<1>1. a \in Int /\ b \in Int /\ n % Window \in 0 .. (Window - 1)
  BY RateLimitAssumption
<1>2. w = Window * a
  BY RateLimitAssumption
<1>3. n = Window * b + (n % Window)
  BY RateLimitAssumption
<1> HIDE DEF a, b
<1>4. a = b
  <2>1. CASE a < b
    <3>1. Window * a + Window <= Window * b
      BY <2>1, <1>1, RateLimitAssumption
    <3> QED
      BY <3>1, <1>1, <1>2, <1>3, RateLimitAssumption
  <2>2. CASE b < a
    <3>1. Window * b + Window <= Window * a
      BY <2>2, <1>1, RateLimitAssumption
    <3> QED
      BY <3>1, <1>1, <1>2, <1>3, RateLimitAssumption
  <2> QED
    BY <2>1, <2>2, <1>1
<1> QED
  BY <1>1, <1>2, <1>3, <1>4

\* The windows are disjoint and cover the clock.
LEMMA WindowMembers ==
    ASSUME NEW w \in Nat, WindowStart(w) = w, NEW n \in Nat
    PROVE  n \in w .. (w + Window - 1) <=> WindowStart(n) = w
<1>1. w % Window = 0
  BY RateLimitAssumption DEF WindowStart
<1>2. ASSUME n \in w .. (w + Window - 1) PROVE WindowStart(n) = w
  <2>0. w <= n /\ n < w + Window
    BY <1>2, RateLimitAssumption
  <2>1. n % Window = n - w
    BY <1>1, <2>0, Remainder
  <2>2. n - (n - w) = w
    OBVIOUS
  <2> QED
    BY <2>1, <2>2 DEF WindowStart
<1>3. ASSUME WindowStart(n) = w PROVE n \in w .. (w + Window - 1)
  BY <1>3, WindowStartType, RateLimitAssumption
<1> QED
  BY <1>2, <1>3

\* A later reading is in the same window or a later one.
LEMMA WindowStartMonotone ==
    ASSUME NEW m \in Nat, NEW n \in Nat, m <= n
    PROVE  WindowStart(m) <= WindowStart(n)
<1> SUFFICES ASSUME WindowStart(n) < WindowStart(m) PROVE FALSE
  BY WindowStartType
<1> DEFINE w == WindowStart(n)
<1>1. w \in Nat /\ w <= n /\ n < w + Window /\ WindowStart(w) = w
  BY WindowStartType, WindowStartOfStart
<1>2. w <= m /\ m <= n
  BY <1>1, WindowStartType
<1> HIDE DEF w
<1>3. m \in w .. (w + Window - 1)
  BY <1>1, <1>2, RateLimitAssumption
<1>4. WindowStart(m) = w
  BY <1>1, <1>3, WindowMembers
<1> QED
  BY <1>4, <1>1 DEF w

\* One hit more is one more in every count of its reading, and in no other.
LEMMA CountAdded ==
    ASSUME NEW S, IsFiniteSet(S), NEW x, x \notin S, NEW T
    PROVE  /\ Count(S, T) \in Nat
           /\ Count(S \cup {x}, T) = Count(S, T) + (IF x.at \in T THEN 1 ELSE 0)
<1> DEFINE before == {h \in S : h.at \in T}
           after  == {h \in S \cup {x} : h.at \in T}
<1>1. IsFiniteSet(before)
  BY FS_Subset
<1>2. Cardinality(before) \in Nat
  BY <1>1, FS_CardinalityType
<1>3. Cardinality(after) = Cardinality(before) + (IF x.at \in T THEN 1 ELSE 0)
  <2>1. CASE x.at \in T
    <3>1. after = before \cup {x} /\ x \notin before
      BY <2>1
    <3>2. Cardinality(before \cup {x}) = Cardinality(before) + 1
      BY <1>1, <3>1, FS_AddElement
    <3> QED
      BY <2>1, <3>1, <3>2
  <2>2. CASE x.at \notin T
    <3>1. after = before
      BY <2>2
    <3> HIDE DEF before, after
    <3> QED
      BY <1>2, <2>2, <3>1
  <2> QED
    BY <2>1, <2>2
<1> QED
  BY <1>2, <1>3 DEF Count

\* A count is at least any part of it.
LEMMA CountBounds ==
    ASSUME NEW S, IsFiniteSet(S), NEW T, NEW R \in SUBSET S, \A h \in R : h.at \in T
    PROVE  Count(S, T) \in Nat /\ Cardinality(R) \in Nat /\ Cardinality(R) <= Count(S, T)
<1> DEFINE C == {h \in S : h.at \in T}
<1>1. IsFiniteSet(C) /\ R \in SUBSET C
  BY FS_Subset
<1> QED
  BY <1>1, FS_Subset, FS_CardinalityType DEF Count

\* Granted is a number, and 0 when nothing of the kind was let through.
LEMMA GrantedType ==
    ASSUME GrantsInv, NEW k \in Keys, NEW T
    PROVE  /\ Granted(k, T) \in Nat
           /\ (\A h \in granted[k] : h.at \notin T) => Granted(k, T) = 0
<1> DEFINE C == {h \in granted[k] : h.at \in T}
<1>1. IsFiniteSet(C)
  BY FS_Subset DEF GrantsInv
<1>2. Cardinality(C) \in Nat /\ (C = {} => Cardinality(C) = 0)
  BY <1>1, FS_CardinalityType, FS_EmptySet
<1> QED
  BY <1>2 DEF Granted

-----------------------------------------------------------------------------
(* Steps that touch neither a bucket nor a row.                              *)

\* The idle request is a request, and holds nothing.
LEMMA IdleType == Idle \in Request /\ Idle.pc = "idle" /\ Idle.removed = {}
<1>1. (CHOOSE k \in Keys : TRUE) \in Keys
  BY KeysFinite
<1>2. 0 \in Times
  BY RateLimitAssumption DEF Times
<1> QED
  BY <1>1, <1>2 DEF Idle, Request

\* The invariant holds initially.
LEMMA InitInv == Init => Inv
<1> SUFFICES ASSUME Init PROVE Inv
  OBVIOUS
<1>1. 0 \in Times
  BY RateLimitAssumption DEF Times
<1>2. NoRow \in Row /\ ~NoRow.present
  BY <1>1 DEF NoRow, Row
<1>3. backend \in {"memory", "shared", "missing"}
  BY DEF Init, Backend
<1>4. TypeOK
  BY <1>1, <1>2, <1>3, IdleType DEF Init, TypeOK
<1>5. GrantsInv
  BY FS_EmptySet DEF Init, GrantsInv
<1>6. BackendInv /\ BucketInv
  BY IdleType DEF Init, BackendInv, BucketInv
<1>7. LocksInv
  BY IdleType DEF Init, LocksInv, ExclusiveInv, HoldsInv, InTransaction
<1>9. \A k \in Keys : \A T : Granted(k, T) = 0
  BY <1>5, GrantedType DEF Init
<1>10. \A k \in Keys : late[k] = 0 /\ ~rows[k].present
  BY <1>2 DEF Init
<1>11. \A k \in Keys : \A w : InWindow(granted[k], w) = 0
  BY <1>9 DEF InWindow, Count, Granted
<1>12. RowsInv
  BY <1>10, <1>11, RateLimitAssumption DEF RowsInv, RowInv, LateInv
<1>13. MemoryWindowBound /\ SharedWindowBound
  BY <1>9, <1>10, RateLimitAssumption DEF MemoryWindowBound, SharedWindowBound
<1> QED
  BY <1>4, <1>5, <1>6, <1>7, <1>12, <1>13 DEF Inv

\* A step that leaves the table, the buckets and the history alone disturbs
\* only what the requests know.
LEMMA QuietStep ==
    ASSUME Inv, UNCHANGED <<backend, hits, rows, latest, granted, late>>,
           TypeOK', BackendInv', LocksInv'
    PROVE  Inv'
<1>1. GrantsInv' /\ BucketInv'
  BY DEF Inv, GrantsInv, BucketInv
<1>2. \A k, T : Granted(k, T)' = Granted(k, T)
  BY DEF Granted
<1>3. RowsInv'
  BY DEF Inv, RowsInv, RowInv, LateInv
<1>4. MemoryWindowBound' /\ SharedWindowBound'
  BY <1>2 DEF Inv, MemoryWindowBound, SharedWindowBound
<1> QED
  BY <1>1, <1>3, <1>4 DEF Inv

\* A request that holds nothing afterwards disturbs nobody's locks.
LEMMA ReleasedLocks ==
    ASSUME LocksInv, requests \in [Requests -> Request], rows' = rows,
           NEW r \in Requests, NEW x, requests' = [requests EXCEPT ![r] = x],
           x.removed = {}, x.pc \notin {"found", "insert"}
    PROVE  LocksInv'
<1>1. requests'[r] = x /\ \A q \in Requests \ {r} : requests'[q] = requests[q]
  OBVIOUS
<1>2. ExclusiveInv'
  BY <1>1 DEF LocksInv, ExclusiveInv
<1>3. ASSUME NEW q \in Requests PROVE HoldsInv(q)'
  <2>1. CASE q = r
    BY <2>1, <1>1 DEF HoldsInv
  <2>2. CASE q # r
    BY <2>2, <1>1 DEF LocksInv, HoldsInv
  <2> QED
    BY <2>1, <2>2
<1> QED
  BY <1>2, <1>3 DEF LocksInv

\* A request that arrives.
LEMMA StartInv ==
    ASSUME Inv, NEW r \in Requests, NEW e \in Endpoints, NEW c \in Callers, Start(r, e, c)
    PROVE  Inv'
<1> DEFINE key == RateLimitKey(e.method, e.path, c)
           pc  == IF backend = "memory" THEN "memory" ELSE "cleanup"
           x   == [pc |-> pc, key |-> key, now |-> clock, removed |-> {}]
<1>1. key \in Keys /\ clock \in Times
  BY DEF Keys, Inv, TypeOK
<1>2. requests' = [requests EXCEPT ![r] = x]
  BY DEF Start
<1> HIDE DEF key
<1>3. x \in Request /\ x.pc = pc /\ x.removed = {}
  BY <1>1 DEF Request, InTransaction
<1> HIDE DEF x
<1>4. UNCHANGED <<backend, hits, rows, latest, granted, late>> /\ clock' = clock
      /\ backend # "missing"
  BY DEF Start
<1>5. TypeOK'
  BY <1>2, <1>3, <1>4 DEF Inv, TypeOK
<1>6. BackendInv'
  BY <1>2, <1>3, <1>4 DEF Inv, TypeOK, BackendInv
<1>7. LocksInv'
  BY <1>2, <1>3, <1>4, ReleasedLocks DEF Inv, TypeOK
<1> QED
  BY <1>4, <1>5, <1>6, <1>7, QuietStep

\* A request that fails, with its transaction rolled back.
LEMMA FailInv ==
    ASSUME Inv, NEW r \in Requests, Fail(r)
    PROVE  Inv'
<1>1. /\ requests' = [requests EXCEPT ![r] = Idle]
      /\ UNCHANGED <<backend, hits, rows, latest, granted, late>> /\ clock' = clock
  BY DEF Fail
<1>2. TypeOK'
  BY <1>1, IdleType DEF Inv, TypeOK
<1>3. BackendInv'
  BY <1>1, IdleType DEF Inv, TypeOK, BackendInv
<1>4. LocksInv'
  BY <1>1, IdleType, ReleasedLocks DEF Inv, TypeOK
<1> QED
  BY <1>1, <1>2, <1>3, <1>4, QuietStep

\* The clock.
LEMMA TickInv == ASSUME Inv, Tick PROVE Inv'
<1>1. UNCHANGED <<backend, requests, hits, rows, latest, granted, late>>
  BY DEF Tick
<1>2. clock' \in Times
  BY RateLimitAssumption DEF Tick, Inv, TypeOK, Times
<1>3. TypeOK'
  BY <1>1, <1>2 DEF Inv, TypeOK
<1>4. BackendInv'
  BY <1>1 DEF Inv, BackendInv
<1>5. LocksInv'
  BY <1>1 DEF Inv, LocksInv, ExclusiveInv, HoldsInv
<1> QED
  BY <1>1, <1>3, <1>4, <1>5, QuietStep

\* The cleanup takes the rows it deletes from nobody.
LEMMA CleanupInv ==
    ASSUME Inv, NEW r \in Requests, Cleanup(r)
    PROVE  Inv'
<1> DEFINE x == [requests[r] EXCEPT !.pc = "select", !.removed = Expired(r)]
<1>1. /\ requests[r] \in Request /\ requests[r].pc = "cleanup"
      /\ \A k \in Expired(r) : ~Locked(r, k)
      /\ UNCHANGED <<backend, hits, rows, latest, granted, late>> /\ clock' = clock
  BY DEF Cleanup, Inv, TypeOK
<1>2. requests' = [requests EXCEPT ![r] = x]
  BY <1>1 DEF Cleanup, Inv, TypeOK
<1>3. Expired(r) \in SUBSET Keys
  BY DEF Expired
<1>4. /\ x \in Request /\ x.pc = "select" /\ x.removed = Expired(r)
      /\ x.now = requests[r].now
  BY <1>1, <1>3 DEF Request, InTransaction
<1> HIDE DEF x
<1>5. requests'[r] = x /\ \A q \in Requests \ {r} : requests'[q] = requests[q]
  BY <1>2 DEF Inv, TypeOK
<1>6. TypeOK'
  BY <1>1, <1>2, <1>4 DEF Inv, TypeOK
<1>7. BackendInv'
  BY <1>1, <1>4, <1>5 DEF Inv, BackendInv
<1>8. ASSUME NEW q \in Requests \ {r}
      PROVE  /\ Expired(r) \cap requests[q].removed = {}
             /\ requests[q].pc = "found" => requests[q].key \notin Expired(r)
  BY <1>1 DEF Locked, Holds, Inv, LocksInv, HoldsInv
<1>9. ExclusiveInv'
  BY <1>4, <1>5, <1>8 DEF Inv, LocksInv, ExclusiveInv
<1>10. ASSUME NEW q \in Requests PROVE HoldsInv(q)'
  <2>1. CASE q = r
    <3>1. \A k \in Expired(r) :
            rows[k].present /\ rows[k].updated < WindowStart(requests[r].now) - 2 * Window
      BY DEF Expired
    <3> QED
      BY <2>1, <3>1, <1>1, <1>4, <1>5 DEF HoldsInv, InTransaction, WindowStart
  <2>2. CASE q # r
    BY <2>2, <1>1, <1>5 DEF Inv, LocksInv, HoldsInv
  <2> QED
    BY <2>1, <2>2
<1>11. LocksInv'
  BY <1>9, <1>10 DEF LocksInv
<1> QED
  BY <1>1, <1>6, <1>7, <1>11, QuietStep

\* A row that is read for update is nobody else's; a row that is not there, or
\* that the transaction itself deleted, will be inserted.
LEMMA SelectInv ==
    ASSUME Inv, NEW r \in Requests, Select(r)
    PROVE  Inv'
<1> DEFINE q  == requests[r]
           pc == IF rows[q.key].present /\ q.key \notin q.removed THEN "found" ELSE "insert"
           x  == [q EXCEPT !.pc = pc]
<1>1. /\ q \in Request /\ q.pc = "select" /\ ~Locked(r, q.key)
      /\ UNCHANGED <<backend, hits, rows, latest, granted, late>> /\ clock' = clock
  BY DEF Select, Inv, TypeOK
<1>2. requests' = [requests EXCEPT ![r] = x]
  BY <1>1 DEF Select, Inv, TypeOK
<1>3. pc \in {"found", "insert"}
  OBVIOUS
<1>4. /\ pc = "found" => rows[q.key].present /\ q.key \notin q.removed
      /\ pc = "insert" /\ rows[q.key].present => q.key \in q.removed
  OBVIOUS
<1> HIDE DEF pc
<1>5. /\ x \in Request /\ x.pc = pc /\ x.removed = q.removed
      /\ x.key = q.key /\ x.now = q.now
  BY <1>1, <1>3 DEF Request, InTransaction
<1> HIDE DEF x
<1>6. requests'[r] = x /\ \A p \in Requests \ {r} : requests'[p] = requests[p]
  BY <1>2 DEF Inv, TypeOK
<1>7. TypeOK'
  BY <1>1, <1>2, <1>5 DEF Inv, TypeOK
<1>8. BackendInv'
  BY <1>1, <1>3, <1>5, <1>6 DEF Inv, BackendInv
<1>9. ASSUME NEW p \in Requests \ {r}
      PROVE  /\ q.key \notin requests[p].removed
             /\ requests[p].pc = "found" => requests[p].key # q.key
  BY <1>1 DEF Locked, Holds, Inv, LocksInv, HoldsInv
<1>10. ExclusiveInv'
  BY <1>5, <1>6, <1>9 DEF Inv, LocksInv, ExclusiveInv
<1>11. ASSUME NEW p \in Requests PROVE HoldsInv(p)'
  <2>1. CASE p = r
    <3>1. HoldsInv(r)
      BY DEF Inv, LocksInv
    <3> QED
      BY <2>1, <3>1, <1>1, <1>3, <1>4, <1>5, <1>6 DEF HoldsInv, InTransaction, WindowStart
  <2>2. CASE p # r
    BY <2>2, <1>1, <1>6 DEF Inv, LocksInv, HoldsInv
  <2> QED
    BY <2>1, <2>2
<1>12. LocksInv'
  BY <1>10, <1>11 DEF LocksInv
<1> QED
  BY <1>1, <1>7, <1>8, <1>12, QuietStep

\* A restart forgets the map together with what it let through; the table and
\* its history stay.
LEMMA RestartInv == ASSUME Inv, Restart PROVE Inv'
<1>1. /\ UNCHANGED <<backend, clock, rows, latest, late>>
      /\ requests' = [r \in Requests |-> Idle]
      /\ hits' = [k \in Keys |-> {}]
      /\ backend = "memory" => granted' = [k \in Keys |-> {}]
      /\ backend # "memory" => granted' = granted
  BY DEF Restart
<1>2. TypeOK'
  BY <1>1, IdleType DEF Inv, TypeOK
<1>3. BackendInv'
  BY <1>1, IdleType DEF Inv, BackendInv
<1>4. LocksInv'
  BY <1>1, IdleType DEF LocksInv, ExclusiveInv, HoldsInv, InTransaction
<1>5. CASE backend = "memory"
  <2>1. GrantsInv'
    BY <1>1, <1>5, FS_EmptySet DEF GrantsInv
  <2>2. BucketInv'
    BY <1>1, <1>5 DEF BucketInv
  <2>3. \A k \in Keys : \A T : Granted(k, T)' = 0
    BY <1>1, <1>5, FS_EmptySet DEF Granted
  <2>4. MemoryWindowBound'
    BY <1>1, <1>5, <2>3, RateLimitAssumption DEF Inv, TypeOK, MemoryWindowBound
  <2>5. SharedWindowBound' /\ RowsInv'
    BY <1>1, <1>5 DEF SharedWindowBound, RowsInv
  <2> QED
    BY <1>2, <1>3, <1>4, <2>1, <2>2, <2>4, <2>5 DEF Inv
<1>6. CASE backend # "memory"
  <2>1. granted' = granted
    BY <1>1, <1>6
  <2>2. GrantsInv' /\ BucketInv'
    BY <1>1, <1>6, <2>1 DEF Inv, GrantsInv, BucketInv
  <2>3. \A k, T : Granted(k, T)' = Granted(k, T)
    BY <2>1 DEF Granted
  <2>4. RowsInv'
    BY <1>1, <2>1 DEF Inv, RowsInv, RowInv, LateInv
  <2>5. MemoryWindowBound' /\ SharedWindowBound'
    BY <1>1, <2>3 DEF Inv, MemoryWindowBound, SharedWindowBound
  <2> QED
    BY <1>2, <1>3, <1>4, <2>2, <2>4, <2>5 DEF Inv
<1> QED
  BY <1>5, <1>6

-----------------------------------------------------------------------------
(* A request that is answered.                                               *)

\* The latest reading never goes back, and covers the request's own.
LEMMA LatestStep ==
    ASSUME TypeOK, NEW r \in Requests,
           latest' = IF requests[r].now > latest THEN requests[r].now ELSE latest
    PROVE  /\ requests[r].now \in Times /\ requests[r].key \in Keys
           /\ latest \in Nat /\ requests[r].now \in Nat
           /\ latest' \in Times /\ latest' \in Nat
           /\ latest' >= latest /\ latest' >= requests[r].now
           /\ requests[r].now <= latest => latest' = latest
           /\ requests[r].now >= latest => latest' = requests[r].now
<1>1. requests[r].now \in Times /\ requests[r].key \in Keys /\ latest \in Times
  BY DEF TypeOK, Request
<1>2. \A t \in Times : t \in Nat
  BY RateLimitAssumption DEF Times
<1> QED
  BY <1>1, <1>2

\* A request that is refused leaves what was let through, and is no later.
LEMMA RefuseStep ==
    ASSUME TypeOK, GrantsInv, NEW r \in Requests, Refuse(r)
    PROVE  /\ GrantsInv'
           /\ \A k, T : Granted(k, T)' = Granted(k, T)
<1>1. granted' = granted /\ latest' >= latest /\ latest' \in Nat /\ latest \in Nat
  BY LatestStep DEF Refuse
<1>2. \A k, T : Granted(k, T)' = Granted(k, T)
  BY <1>1 DEF Granted
<1>3. \A k \in Keys : \A h \in granted[k] : h.at \in Nat
  BY RateLimitAssumption DEF TypeOK, Hit, Times
<1>4. GrantsInv'
  BY <1>1, <1>3 DEF GrantsInv
<1> QED
  BY <1>2, <1>4

\* A request that is let through is one more of its key, in every window that
\* contains its reading and in no other.
LEMMA AllowStep ==
    ASSUME TypeOK, GrantsInv, NEW r \in Requests, NEW isLate \in BOOLEAN, Allow(r, isLate)
    PROVE  LET q == requests[r] IN
           /\ NewHit(q.key, q.now) \in Hit \ granted[q.key]
           /\ NewHit(q.key, q.now).at = q.now
           /\ granted' \in [Keys -> SUBSET Hit]
           /\ late' \in [Keys -> Nat]
           /\ \A k \in Keys : late'[k] = IF isLate /\ k = q.key THEN late[k] + 1 ELSE late[k]
           /\ GrantsInv'
           /\ \A k \in Keys : \A T :
                Count(granted'[k], T) = IF k = q.key /\ q.now \in T
                                        THEN Count(granted[k], T) + 1 ELSE Count(granted[k], T)
<1> DEFINE q == requests[r]
           new == NewHit(q.key, q.now)
<1>1. /\ q.now \in Times /\ q.key \in Keys /\ q.now \in Nat /\ latest \in Nat
      /\ latest' \in Nat /\ latest' >= latest /\ latest' >= q.now
  BY LatestStep DEF Allow
<1>2. IsFiniteSet(granted[q.key]) /\ Cardinality(granted[q.key]) \in Nat
  BY <1>1, FS_CardinalityType DEF GrantsInv
<1>3. new \in Hit /\ new.at = q.now /\ new.serial = Cardinality(granted[q.key]) + 1
  BY <1>1, <1>2 DEF NewHit, Hit
<1>4. new \notin granted[q.key]
  BY <1>1, <1>2, <1>3 DEF GrantsInv
<1>5. granted' = [granted EXCEPT ![q.key] = granted[q.key] \cup {new}]
  BY DEF Allow
<1>6. late' = IF isLate THEN [late EXCEPT ![q.key] = late[q.key] + 1] ELSE late
  BY DEF Allow
<1> HIDE DEF new, q
<1>7. granted' \in [Keys -> SUBSET Hit]
  BY <1>1, <1>3, <1>5 DEF TypeOK
<1>8. late' \in [Keys -> Nat]
      /\ \A k \in Keys : late'[k] = IF isLate /\ k = q.key THEN late[k] + 1 ELSE late[k]
  BY <1>1, <1>6 DEF TypeOK
<1>9. /\ granted'[q.key] = granted[q.key] \cup {new}
      /\ \A k \in Keys \ {q.key} : granted'[k] = granted[k]
  BY <1>1, <1>5 DEF TypeOK
<1>10. IsFiniteSet(granted'[q.key])
       /\ Cardinality(granted'[q.key]) = Cardinality(granted[q.key]) + 1
  <2>1. ASSUME NEW S, NEW x, IsFiniteSet(S), x \notin S
        PROVE  IsFiniteSet(S \cup {x}) /\ Cardinality(S \cup {x}) = Cardinality(S) + 1
    BY <2>1, FS_AddElement
  <2> QED
    BY <2>1, <1>2, <1>4, <1>9
<1>11. \A k \in Keys : \A h \in granted[k] : h.at \in Nat /\ h.serial \in Nat
  BY RateLimitAssumption DEF TypeOK, Hit, Times
<1>12. GrantsInv'
  <2> SUFFICES ASSUME NEW k \in Keys
               PROVE  /\ IsFiniteSet(granted'[k])
                      /\ \A h \in granted'[k] :
                           h.serial <= Cardinality(granted'[k]) /\ h.at <= latest'
    BY DEF GrantsInv
  <2>1. CASE k = q.key
    <3>1. ASSUME NEW h \in granted[k]
          PROVE  h.serial <= Cardinality(granted[k]) + 1 /\ h.at <= latest'
      BY <1>1, <1>2, <1>11, <2>1 DEF GrantsInv
    <3>2. new.serial <= Cardinality(granted[k]) + 1 /\ new.at <= latest'
      BY <1>1, <1>2, <1>3, <2>1
    <3> QED
      BY <2>1, <3>1, <3>2, <1>9, <1>10
  <2>2. CASE k # q.key
    BY <2>2, <1>1, <1>9, <1>11 DEF GrantsInv
  <2> QED
    BY <2>1, <2>2
<1>13. ASSUME NEW k \in Keys, NEW T
       PROVE  Count(granted'[k], T) = IF k = q.key /\ q.now \in T
                                      THEN Count(granted[k], T) + 1 ELSE Count(granted[k], T)
  <2>1. CASE k = q.key
    <3>1. Count(granted[k], T) \in Nat
      BY <1>2, <1>4, <2>1, CountAdded
    <3>2. Count(granted[k] \cup {new}, T) = Count(granted[k], T) + (IF new.at \in T THEN 1 ELSE 0)
      BY <1>2, <1>4, <2>1, CountAdded
    <3>3. Count(granted'[k], T) = Count(granted[k], T) + (IF q.now \in T THEN 1 ELSE 0)
      BY <3>2, <1>3, <1>9, <2>1
    <3> QED
      BY <3>1, <3>3, <2>1
  <2>2. CASE k # q.key
    BY <2>2, <1>9
  <2> QED
    BY <2>1, <2>2
<1> QED
  BY <1>3, <1>4, <1>7, <1>8, <1>12, <1>13 DEF q, new

-----------------------------------------------------------------------------
(* The memory backend.                                                       *)

\* What a request at the mutex finds: its own bucket, pruned, has everything
\* that was let through after the cutoff, unless the request is late.
LEMMA PrunedBucket ==
    ASSUME Inv, backend = "memory", NEW k \in Keys, NEW now \in Times
    PROVE  LET kept == Recent(hits[k], now) IN
           /\ kept \in SUBSET granted[k]
           /\ \A h \in kept : h.at > now - Window
           /\ now >= latest => \A h \in granted[k] : h.at > now - Window => h \in kept
<1>1. /\ hits[k] \subseteq granted[k]
      /\ \A h \in granted[k] : h.at > latest - Window => h \in hits[k]
  BY DEF Inv, BucketInv
<1>2. \A h \in granted[k] : h.at \in Nat
  BY RateLimitAssumption DEF Inv, TypeOK, Hit, Times
<1>3. latest \in Nat /\ now \in Nat /\ Window \in Nat
  BY RateLimitAssumption DEF Inv, TypeOK, Times
<1> QED
  BY <1>1, <1>2, <1>3 DEF Recent

\* A request that finds room and is not late leaves every window it is in
\* within the burst.
LEMMA RoomInWindow ==
    ASSUME Inv, backend = "memory", NEW k \in Keys, NEW now \in Times, now >= latest,
           Cardinality(Recent(hits[k], now)) < Burst,
           NEW t \in Times, now \in (t - Window + 1) .. t
    PROVE  Granted(k, (t - Window + 1) .. t) < Burst
<1> DEFINE T == (t - Window + 1) .. t
           C == {h \in granted[k] : h.at \in T}
           kept == Recent(hits[k], now)
<1>1. t \in Nat /\ now \in Nat /\ Window \in Nat \ {0} /\ Burst \in Nat
  BY RateLimitAssumption DEF Times
<1>2. kept \in SUBSET granted[k]
      /\ \A h \in granted[k] : h.at > now - Window => h \in kept
  BY PrunedBucket
<1>3. \A h \in granted[k] : h.at \in Nat
  BY RateLimitAssumption DEF Inv, TypeOK, Hit, Times
<1>4. \A i \in T : i > now - Window
  BY <1>1
<1>5. C \in SUBSET kept
  BY <1>2, <1>4
<1>6. IsFiniteSet(kept)
  BY <1>2, FS_Subset DEF Inv, GrantsInv
<1>7. Cardinality(C) <= Cardinality(kept) /\ Cardinality(C) \in Nat /\ Cardinality(kept) \in Nat
  BY <1>5, <1>6, FS_Subset, FS_CardinalityType
<1> QED
  BY <1>1, <1>7 DEF Granted

\* A request that is answered under the mutex.
LEMMA MemoryInv ==
    ASSUME Inv, NEW r \in Requests, AllowMemory(r)
    PROVE  Inv'
<1> DEFINE q      == requests[r]
           pruned == [k \in Keys |-> Recent(hits[k], q.now)]
           new    == NewHit(q.key, q.now)
<1>1. /\ q.pc = "memory" /\ q \in Request /\ q.key \in Keys /\ q.now \in Times
      /\ UNCHANGED <<backend, clock, rows>>
  BY DEF AllowMemory, Inv, TypeOK, Request
<1>2. backend = "memory"
  BY <1>1 DEF Inv, BackendInv
<1>3. TypeOK /\ GrantsInv
  BY DEF Inv
<1>4. requests' = [requests EXCEPT ![r] = Idle]
  BY DEF AllowMemory, Allow, Refuse
<1>5. latest' = IF q.now > latest THEN q.now ELSE latest
  BY DEF AllowMemory, Allow, Refuse
<1>6. /\ latest' \in Times /\ latest' \in Nat /\ latest \in Nat /\ q.now \in Nat
      /\ latest' >= latest /\ latest' >= q.now /\ Window \in Nat
  BY <1>3, <1>5, LatestStep, RateLimitAssumption
<1>7. LocksInv'
  BY <1>1, <1>3, <1>4, IdleType, ReleasedLocks DEF Inv, TypeOK
<1>8. BackendInv'
  BY <1>1, <1>2, <1>3, <1>4, IdleType DEF Inv, TypeOK, BackendInv
<1>9. RowsInv' /\ SharedWindowBound'
  BY <1>1, <1>2 DEF RowsInv, SharedWindowBound
<1>10. \A k \in Keys : \A h \in granted[k] : h.at \in Nat
  BY <1>3, RateLimitAssumption DEF TypeOK, Hit, Times
<1>11. pruned \in [Keys -> SUBSET Hit]
  BY <1>3 DEF TypeOK, Recent
<1>12. \A k \in Keys :
         /\ pruned[k] \subseteq granted[k]
         /\ \A h \in granted[k] : h.at > latest' - Window => h \in pruned[k]
  BY <1>2, <1>6, <1>10 DEF Recent, Inv, BucketInv
<1>13. \/ /\ Cardinality(pruned[q.key]) < Burst
          /\ hits' = [pruned EXCEPT ![q.key] = pruned[q.key] \cup {new}]
          /\ Allow(r, q.now < latest)
       \/ hits' = pruned /\ Refuse(r)
  BY DEF AllowMemory, Room
<1> HIDE DEF pruned, new
<1>14. CASE hits' = pruned /\ Refuse(r)
  <2>1. GrantsInv' /\ \A k, T : Granted(k, T)' = Granted(k, T)
    BY <1>3, <1>14, RefuseStep
  <2>2. granted' = granted /\ late' = late
    BY <1>14 DEF Refuse
  <2>3. TypeOK'
    BY <1>1, <1>3, <1>4, <1>6, <1>11, <1>14, <2>2, IdleType DEF TypeOK
  <2>4. BucketInv'
    BY <1>12, <1>14, <2>2 DEF BucketInv
  <2>5. MemoryWindowBound'
    BY <1>1, <2>1, <2>2 DEF Inv, MemoryWindowBound
  <2> QED
    BY <1>7, <1>8, <1>9, <2>1, <2>3, <2>4, <2>5 DEF Inv
<1>15. CASE /\ Cardinality(pruned[q.key]) < Burst
            /\ hits' = [pruned EXCEPT ![q.key] = pruned[q.key] \cup {new}]
            /\ Allow(r, q.now < latest)
  <2> DEFINE isLate == q.now < latest
  <2>1. isLate \in BOOLEAN /\ Allow(r, isLate)
    BY <1>15
  <2>2. /\ new \in Hit /\ new.at = q.now
        /\ granted' \in [Keys -> SUBSET Hit] /\ late' \in [Keys -> Nat]
        /\ \A k \in Keys : late'[k] = IF isLate /\ k = q.key THEN late[k] + 1 ELSE late[k]
        /\ GrantsInv'
        /\ \A k \in Keys : \A T :
             Count(granted'[k], T) = IF k = q.key /\ q.now \in T
                                     THEN Count(granted[k], T) + 1 ELSE Count(granted[k], T)
    BY <1>3, <2>1, AllowStep DEF new
  <2>3. granted' = [granted EXCEPT ![q.key] = granted[q.key] \cup {new}]
    BY <1>15 DEF Allow, new
  <2>4. hits' \in [Keys -> SUBSET Hit]
    BY <1>1, <1>11, <1>15, <2>2
  <2>5. TypeOK'
    BY <1>1, <1>3, <1>4, <1>6, <2>2, <2>4, IdleType DEF TypeOK
  <2>6. BucketInv'
    <3> SUFFICES ASSUME NEW k \in Keys
                 PROVE  /\ hits'[k] \subseteq granted'[k]
                        /\ \A h \in granted'[k] : h.at > latest' - Window => h \in hits'[k]
      BY DEF BucketInv
    <3>1. CASE k = q.key
      <4>1. hits'[k] = pruned[k] \cup {new} /\ granted'[k] = granted[k] \cup {new}
        BY <1>3, <1>11, <1>15, <2>3, <3>1 DEF TypeOK
      <4> QED
        BY <4>1, <1>12
    <3>2. CASE k # q.key
      <4>1. hits'[k] = pruned[k] /\ granted'[k] = granted[k]
        BY <1>3, <1>11, <1>15, <2>3, <3>2 DEF TypeOK
      <4> QED
        BY <4>1, <1>12
    <3> QED
      BY <3>1, <3>2
  <2>7. ASSUME NEW k \in Keys, NEW t \in Times
        PROVE  Granted(k, (t - Window + 1) .. t)' <= Burst + late'[k]
    <3> DEFINE T == (t - Window + 1) .. t
    <3>1. /\ Granted(k, T) \in Nat /\ Granted(k, T) <= Burst + late[k]
          /\ late[k] \in Nat /\ late'[k] \in Nat /\ Burst \in Nat
      BY <1>2, <1>3, <2>2, GrantedType, RateLimitAssumption DEF Inv, MemoryWindowBound, TypeOK
    <3>2. Granted(k, T)' = IF k = q.key /\ q.now \in T
                           THEN Granted(k, T) + 1 ELSE Granted(k, T)
      BY <2>2 DEF Granted, Count
    <3>3. k = q.key /\ q.now \in T /\ ~isLate => Granted(k, T) < Burst
      BY <1>1, <1>2, <1>6, <1>15, RoomInWindow DEF pruned
    <3>4. late'[k] = IF isLate /\ k = q.key THEN late[k] + 1 ELSE late[k]
      BY <2>2
    <3> HIDE DEF T, isLate
    <3>5. Granted(k, T)' <= Burst + late'[k]
      BY <3>1, <3>2, <3>3, <3>4
    <3> QED
      BY <3>5 DEF T
  <2>8. MemoryWindowBound'
    BY <2>7 DEF MemoryWindowBound
  <2> QED
    BY <1>7, <1>8, <1>9, <2>2, <2>5, <2>6, <2>8 DEF Inv
<1> QED
  BY <1>13, <1>14, <1>15

-----------------------------------------------------------------------------
(* The shared backend.                                                       *)

\* Request r may write the row of its key: nobody else holds it or is about to
\* insert it.
Owns(r) ==
    \A s \in Requests \ {r} :
        /\ requests[r].key \notin requests[s].removed
        /\ requests[s].pc \in {"found", "insert"} => requests[s].key # requests[r].key

\* A request that read the row for update owns it.
LEMMA FoundOwns ==
    ASSUME Inv, NEW r \in Requests, requests[r].pc = "found"
    PROVE  Owns(r)
<1> SUFFICES ASSUME NEW s \in Requests \ {r}
             PROVE  /\ requests[r].key \notin requests[s].removed
                    /\ requests[s].pc \in {"found", "insert"} => requests[s].key # requests[r].key
  BY DEF Owns
<1>1. /\ requests[r].key \notin requests[s].removed
      /\ requests[s].pc = "found" => requests[s].key # requests[r].key
  BY DEF Inv, LocksInv, ExclusiveInv
<1>2. rows[requests[r].key].present
  BY DEF Inv, LocksInv, HoldsInv
<1>3. requests[s].pc = "insert" => requests[s].key # requests[r].key
  BY <1>1, <1>2 DEF Inv, LocksInv, HoldsInv
<1> QED
  BY <1>1, <1>3

\* A request that found no row owns the key once nobody else holds the gap.
LEMMA InsertOwns ==
    ASSUME Inv, NEW r \in Requests, requests[r].pc = "insert", ~GapHeld(r, requests[r].key)
    PROVE  Owns(r)
<1> SUFFICES ASSUME NEW s \in Requests \ {r}
             PROVE  /\ requests[r].key \notin requests[s].removed
                    /\ requests[s].pc \in {"found", "insert"} => requests[s].key # requests[r].key
  BY DEF Owns
<1> DEFINE k == requests[r].key
<1>1. HoldsInv(r) /\ HoldsInv(s)
  BY DEF Inv, LocksInv
<1>2. rows[k].present => k \in requests[r].removed
  BY <1>1 DEF HoldsInv
<1>3. /\ requests[r].removed \cap requests[s].removed = {}
      /\ requests[s].pc = "found" => requests[s].key \notin requests[r].removed
  BY DEF Inv, LocksInv, ExclusiveInv
<1>4. k \notin requests[s].removed
  BY <1>1, <1>2, <1>3 DEF HoldsInv
<1>5. requests[s].pc = "found" => requests[s].key # k
  BY <1>1, <1>2, <1>3 DEF HoldsInv
<1>6. requests[s].pc = "insert" => requests[s].key # k
  BY DEF GapHeld
<1> QED
  BY <1>4, <1>5, <1>6

\* A commit changes no row that another request knows something of.
LEMMA CommitLocks ==
    ASSUME Inv, NEW r \in Requests, Owns(r), NEW row,
           requests' = [requests EXCEPT ![r] = Idle],
           rows' = [k \in Keys |-> IF k = requests[r].key THEN row
                                   ELSE IF k \in requests[r].removed THEN NoRow ELSE rows[k]]
    PROVE  LocksInv'
<1>1. requests'[r] = Idle /\ \A s \in Requests \ {r} : requests'[s] = requests[s]
  BY DEF Inv, TypeOK
<1>2. ExclusiveInv'
  BY <1>1, IdleType DEF Inv, LocksInv, ExclusiveInv
<1>3. ASSUME NEW s \in Requests PROVE HoldsInv(s)'
  <2>1. CASE s = r
    BY <2>1, <1>1, IdleType DEF HoldsInv
  <2>2. CASE s # r
    <3> DEFINE p == requests[s]
    <3>1. HoldsInv(s) /\ p.key \in Keys /\ p.removed \in SUBSET Keys /\ requests'[s] = p
      BY <1>1, <2>2 DEF Inv, LocksInv, TypeOK, Request
    <3>2. \A k \in p.removed : rows'[k] = rows[k]
      BY <2>2, <3>1 DEF Owns, Inv, LocksInv, ExclusiveInv
    <3>3. p.pc = "found" => rows'[p.key] = rows[p.key]
      BY <2>2, <3>1 DEF Owns, Inv, LocksInv, ExclusiveInv
    <3>4. ~NoRow.present
      BY DEF NoRow
    <3>5. p.pc = "insert" /\ rows'[p.key].present => rows[p.key].present
      BY <2>2, <3>1, <3>4 DEF Owns
    <3> QED
      BY <3>1, <3>2, <3>3, <3>5 DEF HoldsInv
  <2> QED
    BY <2>1, <2>2
<1> QED
  BY <1>2, <1>3 DEF LocksInv

\* The windows of readings: a request's own is the latest one, or it is late.
LEMMA LatestWindow ==
    ASSUME TypeOK, NEW r \in Requests,
           latest' = IF requests[r].now > latest THEN requests[r].now ELSE latest
    PROVE  LET w == WindowStart(requests[r].now)
               L == WindowStart(latest)
           IN /\ w \in Nat /\ L \in Nat /\ WindowStart(w) = w /\ WindowStart(L) = L
              /\ w \in Times
              /\ WindowStart(latest') = IF w > L THEN w ELSE L
<1> DEFINE now == requests[r].now
<1>1. /\ now \in Times /\ latest \in Nat /\ now \in Nat /\ latest' \in Nat
      /\ now <= latest => latest' = latest
      /\ now >= latest => latest' = now
  BY LatestStep
<1>2. /\ WindowStart(now) \in Nat /\ WindowStart(latest) \in Nat
      /\ WindowStart(now) <= now
      /\ WindowStart(WindowStart(now)) = WindowStart(now)
      /\ WindowStart(WindowStart(latest)) = WindowStart(latest)
  BY <1>1, WindowStartType, WindowStartOfStart
<1>3. WindowStart(now) \in Times
  BY <1>1, <1>2, RateLimitAssumption DEF Times
<1>4. CASE now <= latest
  BY <1>1, <1>2, <1>3, <1>4, WindowStartMonotone
<1>5. CASE now >= latest
  BY <1>1, <1>2, <1>3, <1>5, WindowStartMonotone
<1> QED
  BY <1>1, <1>4, <1>5

\* Nothing was let through in a window after the latest one.
LEMMA NothingInFuture ==
    ASSUME TypeOK, GrantsInv, NEW k \in Keys, NEW w \in Nat, WindowStart(w) = w,
           w > WindowStart(latest)
    PROVE  InWindow(granted[k], w) = 0
<1>1. latest \in Nat /\ \A h \in granted[k] : h.at \in Nat /\ h.at <= latest
  BY RateLimitAssumption DEF TypeOK, Hit, Times, GrantsInv
<1>2. ASSUME NEW h \in granted[k] PROVE h.at \notin w .. (w + Window - 1)
  <2>1. WindowStart(h.at) <= WindowStart(latest) /\ WindowStart(h.at) \in Nat
        /\ WindowStart(latest) \in Nat
    BY <1>1, WindowStartMonotone, WindowStartType
  <2>2. WindowStart(h.at) # w
    BY <2>1
  <2> QED
    BY <1>1, <2>2, WindowMembers
<1>3. Granted(k, w .. (w + Window - 1)) = 0
  BY <1>2, GrantedType
<1> QED
  BY <1>3 DEF InWindow, Count, Granted

\* The numbers a commit changes: the count of the request's own window, and how
\* many of its key were late.
LEMMA CommitCounts ==
    ASSUME Inv, NEW r \in Requests, NEW row, NEW allowed \in BOOLEAN,
           CommitRow(r, row, allowed)
    PROVE  LET q == requests[r]
               w == WindowStart(q.now)
               one(k) == IF allowed /\ k = q.key THEN 1 ELSE 0
           IN /\ GrantsInv' /\ granted' \in [Keys -> SUBSET Hit] /\ late' \in [Keys -> Nat]
              /\ \A k \in Keys, v \in Nat : WindowStart(v) = v =>
                   /\ InWindow(granted[k], v) \in Nat
                   /\ InWindow(granted'[k], v)
                        = InWindow(granted[k], v) + (IF v = w THEN one(k) ELSE 0)
              /\ \A k \in Keys :
                   late'[k] = late[k] + (IF w < WindowStart(latest) THEN one(k) ELSE 0)
<1> DEFINE q == requests[r]
           w == WindowStart(q.now)
           isLate == w < WindowStart(latest)
<1>1. TypeOK /\ GrantsInv /\ granted \in [Keys -> SUBSET Hit] /\ late \in [Keys -> Nat]
  BY DEF Inv, TypeOK
<1>2. q.now \in Nat /\ q.key \in Keys
  BY <1>1, RateLimitAssumption DEF TypeOK, Request, Times
<1>3. \A k \in Keys, v \in Nat : InWindow(granted[k], v) \in Nat
  BY <1>1, GrantedType DEF InWindow, Count, Granted
<1>4. \A v \in Nat : WindowStart(v) = v => (q.now \in v .. (v + Window - 1) <=> v = w)
  BY <1>2, WindowMembers
<1>5. CASE allowed
  <2>1. isLate \in BOOLEAN /\ Allow(r, isLate)
    BY <1>5 DEF CommitRow
  <2> HIDE DEF w, isLate
  <2>2. /\ GrantsInv' /\ granted' \in [Keys -> SUBSET Hit] /\ late' \in [Keys -> Nat]
        /\ \A k \in Keys : late'[k] = IF isLate /\ k = q.key THEN late[k] + 1 ELSE late[k]
        /\ \A k \in Keys : \A T :
             Count(granted'[k], T) = IF k = q.key /\ q.now \in T
                                     THEN Count(granted[k], T) + 1 ELSE Count(granted[k], T)
    BY <1>1, <2>1, AllowStep
  <2> HIDE DEF q
  <2>3. ASSUME NEW k \in Keys, NEW v \in Nat, WindowStart(v) = v
        PROVE  InWindow(granted'[k], v)
                 = InWindow(granted[k], v) + (IF v = w /\ k = q.key THEN 1 ELSE 0)
    <3>1. InWindow(granted'[k], v)
            = IF k = q.key /\ q.now \in v .. (v + Window - 1)
              THEN InWindow(granted[k], v) + 1 ELSE InWindow(granted[k], v)
      BY <2>2 DEF InWindow
    <3> QED
      BY <1>3, <1>4, <2>3, <3>1
  <2>4. \A k \in Keys : late'[k] = late[k] + (IF isLate /\ k = q.key THEN 1 ELSE 0)
    BY <1>1, <2>2
  <2> QED
    BY <1>3, <1>5, <2>2, <2>3, <2>4 DEF w, q, isLate
<1>6. CASE ~allowed
  <2>1. Refuse(r)
    BY <1>6 DEF CommitRow
  <2>2. granted' = granted /\ late' = late
    BY <2>1 DEF Refuse
  <2>3. GrantsInv'
    BY <1>1, <2>1, RefuseStep
  <2> QED
    BY <1>1, <1>3, <1>6, <2>2, <2>3
<1> QED
  BY <1>5, <1>6

\* SharedWindowBound, said of the sets of hits.
LEMMA SharedBound ==
    SharedWindowBound
      <=> (backend = "shared" =>
             \A k \in Keys, t \in {t \in Times : WindowStart(t) = t} :
                 InWindow(granted[k], t) <= Burst * (1 + late[k]))
BY DEF SharedWindowBound, InWindow, Count, Granted

\* One late request more is one burst more.
LEMMA BurstTimes ==
    ASSUME NEW n \in Nat
    PROVE  /\ Burst \in Nat /\ Burst >= 1
           /\ Burst * n \in Nat
           /\ Burst * (n + 1) = Burst * n + Burst
           /\ Burst * (1 + n) = Burst * n + Burst
BY RateLimitAssumption

\* What a commit writes: the first hit of a window the row was not set to, or
\* one more of the row's own window while there is room.
Written(r, row, allowed) ==
    LET q   == requests[r]
        w   == WindowStart(q.now)
        old == rows[q.key]
    IN /\ row \in Row /\ row.present /\ row.updated = q.now /\ row.window = w
       /\ row.count <= Burst
       /\ \/ allowed /\ row.count = 1 /\ ~(old.present /\ old.window = w)
          \/ /\ old.present /\ old.window = w
             /\ row.count = old.count + (IF allowed THEN 1 ELSE 0)

\* The row of the request's own key after its commit.
LEMMA CommitOwnRow ==
    ASSUME Inv, backend = "shared", NEW r \in Requests, NEW row, NEW allowed \in BOOLEAN,
           Written(r, row, allowed), CommitRow(r, row, allowed),
           NEW k \in Keys, k = requests[r].key
    PROVE  /\ RowInv(k)' /\ LateInv(k)'
           /\ \A t \in Times : WindowStart(t) = t =>
                InWindow(granted'[k], t) <= Burst * (1 + late'[k])
<1> DEFINE q == requests[r]
           w == WindowStart(q.now)
           L == WindowStart(latest)
           g(v) == InWindow(granted[k], v)
           one == IF allowed THEN 1 ELSE 0
           old == rows[k]
<1>1. TypeOK /\ GrantsInv /\ q.now \in Nat
  BY RateLimitAssumption DEF Inv, TypeOK, Request, Times
<1>2. latest' = IF q.now > latest THEN q.now ELSE latest
  BY DEF CommitRow, Allow, Refuse
<1>3. /\ w \in Nat /\ L \in Nat /\ WindowStart(w) = w /\ WindowStart(L) = L
      /\ w \in Times /\ WindowStart(latest') = IF w > L THEN w ELSE L
  BY <1>1, <1>2, LatestWindow
<1>4. \A v \in Nat : WindowStart(v) = v =>
        g(v) \in Nat /\ InWindow(granted'[k], v) = g(v) + (IF v = w THEN one ELSE 0)
  BY <1>1, CommitCounts
<1>5. late'[k] = late[k] + (IF w < L THEN one ELSE 0)
  BY <1>1, CommitCounts
<1>6. /\ row \in Row /\ row.present /\ row.updated = q.now /\ row.window = w
      /\ row.count <= Burst
  BY DEF Written
<1>7. \/ allowed /\ row.count = 1 /\ ~(old.present /\ old.window = w)
      \/ old.present /\ old.window = w /\ row.count = old.count + one
  BY DEF Written
<1>8. rows'[k] = row
  BY <1>1 DEF CommitRow
<1>9. /\ old.present => /\ old.count <= Burst /\ old.count <= g(old.window)
                        /\ g(old.window) <= old.count + Burst * late[k]
      /\ ~(old.present /\ old.window = L) => g(L) <= Burst * late[k]
  BY <1>1 DEF Inv, RowsInv, RowInv, LateInv
<1>10. \A t \in Times : WindowStart(t) = t => g(t) <= Burst * (1 + late[k])
  BY <1>1, SharedBound DEF Inv
<1>11. w > L => g(w) = 0
  BY <1>1, <1>3, NothingInFuture
<1>12. old.count \in Nat /\ row.count \in Nat /\ late[k] \in Nat
  BY <1>1, <1>6 DEF TypeOK, Row
<1>13. /\ Burst \in Nat /\ Burst >= 1 /\ Burst * late[k] \in Nat
       /\ Burst * (late[k] + 1) = Burst * late[k] + Burst
       /\ Burst * (1 + late[k]) = Burst * late[k] + Burst
  BY <1>12, BurstTimes
<1>14. late'[k] \in Nat /\ one \in {0, 1}
  BY <1>5, <1>12
<1>15. /\ Burst * late'[k] = Burst * late[k] + (IF w < L THEN Burst * one ELSE 0)
       /\ Burst * (1 + late'[k]) = Burst * late'[k] + Burst
  <2>1. CASE w < L /\ allowed
    BY <2>1, <1>5, <1>13, <1>14, BurstTimes
  <2>2. CASE ~(w < L /\ allowed)
    BY <2>2, <1>5, <1>12, <1>13, <1>14, BurstTimes
  <2> QED
    BY <2>1, <2>2
<1> DEFINE b  == Burst * late[k]
           b1 == Burst * late'[k]
<1>16. /\ b \in Nat /\ b1 \in Nat /\ Burst * (1 + late'[k]) = b1 + Burst
       /\ Burst * (1 + late[k]) = b + Burst
       /\ b1 = IF w < L /\ allowed THEN b + Burst ELSE b
  BY <1>13, <1>14, <1>15
<1>17. g(w) \in Nat /\ g(L) \in Nat
       /\ InWindow(granted'[k], w) = g(w) + one
       /\ (w # L => InWindow(granted'[k], L) = g(L))
  BY <1>3, <1>4
<1>18. allowed => one = 1
  OBVIOUS
<1>19. ~allowed => one = 0
  OBVIOUS
<1> HIDE DEF q, w, L, g, one, old, b, b1
<1>20. row.count <= InWindow(granted'[k], w)
  BY <1>7, <1>9, <1>12, <1>14, <1>17, <1>18
<1>21. InWindow(granted'[k], w) <= row.count + b1
  <2>1. CASE allowed /\ row.count = 1 /\ ~(old.present /\ old.window = w)
    <3>1. g(w) <= b1
      <4>1. CASE w < L
        BY <4>1, <2>1, <1>3, <1>10, <1>16
      <4>2. CASE w = L
        BY <4>2, <2>1, <1>3, <1>9, <1>16 DEF b
      <4>3. CASE w > L
        BY <4>3, <1>11, <1>16
      <4> QED
        BY <4>1, <4>2, <4>3, <1>3
    <3> QED
      BY <2>1, <3>1, <1>14, <1>16, <1>17, <1>18
  <2>2. CASE old.present /\ old.window = w /\ row.count = old.count + one
    <3>1. g(w) <= old.count + b /\ b <= b1
      BY <2>2, <1>9, <1>13, <1>16 DEF b
    <3> QED
      BY <2>2, <3>1, <1>12, <1>14, <1>16, <1>17
  <2> QED
    BY <2>1, <2>2, <1>7
<1>22. w < L => InWindow(granted'[k], L) <= b1
  <2> SUFFICES ASSUME w < L PROVE g(L) <= b1
    BY <1>3, <1>17
  <2>1. CASE old.present /\ old.window = L
    <3>1. allowed
      BY <2>1, <1>3, <1>7
    <3>2. g(L) <= old.count + b /\ old.count <= Burst
      BY <2>1, <1>9 DEF b
    <3> QED
      BY <3>1, <3>2, <1>12, <1>13, <1>16, <1>17
  <2>2. CASE ~(old.present /\ old.window = L)
    BY <2>2, <1>9, <1>13, <1>16, <1>17 DEF b
  <2> QED
    BY <2>1, <2>2
<1>23. RowInv(k)'
  BY <1>6, <1>8, <1>20 DEF RowInv, w
<1>24. LateInv(k)'
  <2>1. WindowStart(latest') = w \/ (w < L /\ WindowStart(latest') = L)
    BY <1>3
  <2> QED
    BY <2>1, <1>6, <1>8, <1>21, <1>22 DEF LateInv, b1
<1>25. ASSUME NEW t \in Times, WindowStart(t) = t
       PROVE  InWindow(granted'[k], t) <= Burst * (1 + late'[k])
  <2>1. t \in Nat
    BY RateLimitAssumption DEF Times
  <2>2. CASE t = w
    BY <2>2, <1>6, <1>12, <1>13, <1>16, <1>17, <1>14, <1>21
  <2>3. CASE t # w
    <3>1. InWindow(granted'[k], t) = g(t) /\ g(t) \in Nat
      BY <2>1, <2>3, <1>4, <1>25
    <3>2. g(t) <= b + Burst
      BY <1>10, <1>16, <1>25
    <3> QED
      BY <3>1, <3>2, <1>13, <1>16
  <2> QED
    BY <2>2, <2>3
<1> QED
  BY <1>23, <1>24, <1>25

\* The other rows after a commit: as they were, or deleted because they are of
\* a window long past.
LEMMA CommitOtherRows ==
    ASSUME Inv, backend = "shared", NEW r \in Requests, NEW row, NEW allowed \in BOOLEAN,
           CommitRow(r, row, allowed), NEW k \in Keys, k # requests[r].key
    PROVE  /\ RowInv(k)' /\ LateInv(k)'
           /\ \A t \in Times : WindowStart(t) = t =>
                InWindow(granted'[k], t) <= Burst * (1 + late'[k])
<1> DEFINE q == requests[r]
           w == WindowStart(q.now)
           L == WindowStart(latest)
<1>1. TypeOK /\ GrantsInv /\ q.now \in Nat /\ q.removed \in SUBSET Keys
  BY RateLimitAssumption DEF Inv, TypeOK, Request, Times
<1>2. latest' = IF q.now > latest THEN q.now ELSE latest
  BY DEF CommitRow, Allow, Refuse
<1>3. /\ w \in Nat /\ L \in Nat /\ WindowStart(w) = w /\ WindowStart(L) = L
      /\ WindowStart(latest') = IF w > L THEN w ELSE L
  BY <1>1, <1>2, LatestWindow
<1>4. \A v \in Nat : WindowStart(v) = v =>
        /\ InWindow(granted[k], v) \in Nat
        /\ InWindow(granted'[k], v) = InWindow(granted[k], v)
  <2>1. \A v \in Nat : WindowStart(v) = v =>
          /\ InWindow(granted[k], v) \in Nat
          /\ InWindow(granted'[k], v) = InWindow(granted[k], v) + (IF v = w THEN 0 ELSE 0)
    BY CommitCounts
  <2> QED
    BY <2>1
<1>5. late'[k] = late[k] /\ late[k] \in Nat
  <2>1. late'[k] = late[k] + (IF w < L THEN 0 ELSE 0)
    BY CommitCounts
  <2>2. late[k] \in Nat
    BY <1>1 DEF TypeOK
  <2> QED
    BY <2>1, <2>2
<1>6. RowInv(k) /\ LateInv(k)
  BY DEF Inv, RowsInv
<1>7. Burst * late[k] \in Nat
  BY <1>5, BurstTimes
<1>8. rows[k].updated \in Nat
  BY <1>1, RateLimitAssumption DEF TypeOK, Row, Times
<1>9. rows[k].present => rows[k].window \in Nat /\ WindowStart(rows[k].window) = rows[k].window
                         /\ rows[k].window <= rows[k].updated
  BY <1>6, <1>8, WindowStartType, WindowStartOfStart DEF RowInv
<1>10. rows'[k] = IF k \in q.removed THEN NoRow ELSE rows[k]
  BY DEF CommitRow
<1>11. k \in q.removed => rows[k].present /\ rows[k].updated < w - 2 * Window
  BY DEF Inv, LocksInv, HoldsInv
<1>12. ~NoRow.present
  BY DEF NoRow
<1>13. w > L => InWindow(granted[k], w) = 0
  BY <1>1, <1>3, NothingInFuture
<1> HIDE DEF w, L, q
<1>14. RowInv(k)'
  <2>1. CASE k \in q.removed
    BY <2>1, <1>10, <1>12 DEF RowInv
  <2>2. CASE k \notin q.removed
    <3>1. rows'[k] = rows[k]
      BY <2>2, <1>10
    <3>2. rows[k].present => InWindow(granted'[k], rows[k].window) = InWindow(granted[k], rows[k].window)
      BY <1>4, <1>9
    <3> QED
      BY <3>1, <3>2, <1>6 DEF RowInv
  <2> QED
    BY <2>1, <2>2
<1>15. InWindow(granted'[k], L) = InWindow(granted[k], L)
       /\ InWindow(granted'[k], w) = InWindow(granted[k], w)
  BY <1>3, <1>4
<1>16. /\ rows[k].present => InWindow(granted[k], rows[k].window) <= rows[k].count + Burst * late[k]
       /\ ~(rows[k].present /\ rows[k].window = L) => InWindow(granted[k], L) <= Burst * late[k]
  BY <1>6 DEF LateInv, L
<1>17. ~(rows'[k].present /\ rows'[k].window = WindowStart(latest'))
       => InWindow(granted'[k], WindowStart(latest')) <= Burst * late[k]
  <2>1. CASE w > L
    BY <2>1, <1>3, <1>7, <1>13, <1>15
  <2>2. CASE ~(w > L)
    <3>1. WindowStart(latest') = L /\ w <= L
      BY <2>2, <1>3
    <3>2. k \in q.removed => rows[k].window # L
      BY <1>3, <1>8, <1>9, <1>11, <3>1, RateLimitAssumption
    <3>3. ~(rows'[k].present /\ rows'[k].window = L) => ~(rows[k].present /\ rows[k].window = L)
      BY <3>2, <1>10
    <3> QED
      BY <3>1, <3>3, <1>15, <1>16
  <2> QED
    BY <2>1, <2>2
<1>18. rows'[k].present => InWindow(granted'[k], rows'[k].window) <= rows'[k].count + Burst * late[k]
  BY <1>4, <1>9, <1>10, <1>12, <1>16
<1>19. LateInv(k)'
  BY <1>5, <1>17, <1>18 DEF LateInv
<1>20. ASSUME NEW t \in Times, WindowStart(t) = t
       PROVE  InWindow(granted'[k], t) <= Burst * (1 + late'[k])
  <2>1. t \in Nat
    BY RateLimitAssumption DEF Times
  <2>2. InWindow(granted[k], t) <= Burst * (1 + late[k])
    BY <1>20, SharedBound DEF Inv
  <2> QED
    BY <2>1, <2>2, <1>4, <1>5, <1>20
<1> QED
  BY <1>14, <1>19, <1>20

\* A commit preserves the invariant.
LEMMA CommitInv ==
    ASSUME Inv, NEW r \in Requests, requests[r].pc \in InTransaction, Owns(r),
           NEW row, NEW allowed \in BOOLEAN,
           Written(r, row, allowed), CommitRow(r, row, allowed)
    PROVE  Inv'
<1>1. backend # "memory"
  BY DEF Inv, BackendInv, InTransaction
<1>2. /\ UNCHANGED <<backend, clock, hits>>
      /\ requests' = [requests EXCEPT ![r] = Idle]
      /\ latest' = IF requests[r].now > latest THEN requests[r].now ELSE latest
      /\ rows' = [k \in Keys |-> IF k = requests[r].key THEN row
                                 ELSE IF k \in requests[r].removed THEN NoRow ELSE rows[k]]
  BY DEF CommitRow, Allow, Refuse
<1>3. GrantsInv' /\ granted' \in [Keys -> SUBSET Hit] /\ late' \in [Keys -> Nat]
  BY CommitCounts
<1>4. latest' \in Times
  BY <1>2, LatestStep DEF Inv
<1>5. row \in Row /\ NoRow \in Row
  BY RateLimitAssumption DEF Written, NoRow, Row, Times
<1>6. rows' \in [Keys -> Row]
  BY <1>2, <1>5 DEF Inv, TypeOK
<1>7. TypeOK'
  BY <1>2, <1>3, <1>4, <1>6, IdleType DEF Inv, TypeOK
<1>8. BackendInv' /\ BucketInv' /\ MemoryWindowBound'
  BY <1>1, <1>2, IdleType DEF Inv, TypeOK, BackendInv, BucketInv, MemoryWindowBound
<1>9. LocksInv'
  BY <1>2, CommitLocks
<1>10. ASSUME backend = "shared", NEW k \in Keys
       PROVE  /\ RowInv(k)' /\ LateInv(k)'
              /\ \A t \in Times : WindowStart(t) = t =>
                   InWindow(granted'[k], t) <= Burst * (1 + late'[k])
  <2>1. CASE k = requests[r].key
    BY <1>10, <2>1, CommitOwnRow
  <2>2. CASE k # requests[r].key
    BY <1>10, <2>2, CommitOtherRows
  <2> QED
    BY <2>1, <2>2
<1>11. RowsInv'
  BY <1>2, <1>10 DEF RowsInv
<1>12. SharedWindowBound'
  <2>1. SharedWindowBound'
          <=> (backend' = "shared" =>
                 \A k \in Keys, t \in {t \in Times : WindowStart(t) = t} :
                     InWindow(granted'[k], t) <= Burst * (1 + late'[k]))
    BY DEF SharedWindowBound, InWindow, Count, Granted
  <2> QED
    BY <1>2, <1>10, <2>1
<1> QED
  BY <1>3, <1>7, <1>8, <1>9, <1>11, <1>12 DEF Inv

\* A request in a transaction is at the shared backend.
LEMMA TransactionIsShared ==
    ASSUME Inv, NEW r \in Requests, requests[r].pc \in InTransaction
    PROVE  /\ backend = "shared" /\ requests[r].key \in Keys /\ requests[r].now \in Times
           /\ RowInv(requests[r].key) /\ HoldsInv(r)
<1>1. backend = "shared"
  BY DEF Inv, TypeOK, BackendInv, InTransaction
<1>2. requests[r].key \in Keys /\ requests[r].now \in Times
  BY DEF Inv, TypeOK, Request
<1> QED
  BY <1>1, <1>2 DEF Inv, RowsInv, LocksInv

\* The first hit of a window is a row.
LEMMA FirstHitType ==
    ASSUME Inv, NEW r \in Requests, requests[r].pc \in InTransaction,
           ~(rows[requests[r].key].present
             /\ rows[requests[r].key].window = WindowStart(requests[r].now))
    PROVE  Written(r, FirstHit(r), TRUE)
<1>1. requests[r].now \in Times /\ requests[r].now \in Nat
  BY TransactionIsShared, RateLimitAssumption DEF Times
<1>2. WindowStart(requests[r].now) \in Times
  BY <1>1, WindowStartType, RateLimitAssumption DEF Times
<1>3. FirstHit(r) \in Row /\ FirstHit(r).count = 1 /\ FirstHit(r).present
      /\ FirstHit(r).updated = requests[r].now
      /\ FirstHit(r).window = WindowStart(requests[r].now)
  BY <1>1, <1>2 DEF FirstHit, Row
<1>4. 1 <= Burst
  BY RateLimitAssumption
<1> QED
  BY <1>3, <1>4 DEF Written

\* The first request of a bucket.
LEMMA InsertRowInv ==
    ASSUME Inv, NEW r \in Requests, InsertRow(r)
    PROVE  Inv'
<1> DEFINE q == requests[r]
<1>1. q.pc = "insert" /\ q.pc \in InTransaction /\ ~GapHeld(r, q.key)
      /\ CommitRow(r, FirstHit(r), TRUE)
  BY DEF InsertRow, InTransaction
<1>2. q.now \in Nat /\ q.key \in Keys /\ RowInv(q.key) /\ HoldsInv(r)
  BY <1>1, TransactionIsShared, RateLimitAssumption DEF Times
<1>3. rows[q.key].updated \in Nat
  BY <1>2, RateLimitAssumption DEF Inv, TypeOK, Row, Times
<1>4. ~(rows[q.key].present /\ rows[q.key].window = WindowStart(q.now))
  <2> SUFFICES ASSUME rows[q.key].present, rows[q.key].window = WindowStart(q.now)
               PROVE  FALSE
    OBVIOUS
  <2>1. rows[q.key].updated < WindowStart(q.now) - 2 * Window
    BY <1>1, <1>2 DEF HoldsInv
  <2>2. WindowStart(q.now) <= rows[q.key].updated /\ WindowStart(q.now) \in Nat
    BY <1>2, <1>3, WindowStartType DEF RowInv
  <2> QED
    BY <1>3, <2>1, <2>2, RateLimitAssumption
<1>5. Written(r, FirstHit(r), TRUE) /\ Owns(r)
  BY <1>1, <1>4, FirstHitType, InsertOwns
<1> QED
  BY <1>1, <1>5, CommitInv

\* The first request of another window.
LEMMA ResetWindowInv ==
    ASSUME Inv, NEW r \in Requests, ResetWindow(r)
    PROVE  Inv'
<1>1. /\ requests[r].pc = "found" /\ requests[r].pc \in InTransaction
      /\ rows[requests[r].key].window # WindowStart(requests[r].now)
      /\ CommitRow(r, FirstHit(r), TRUE)
  BY DEF ResetWindow, InTransaction
<1>2. Written(r, FirstHit(r), TRUE) /\ Owns(r)
  BY <1>1, FirstHitType, FoundOwns
<1> QED
  BY <1>1, <1>2, CommitInv

\* One more of the row's window, or one that is refused.
LEMMA CountHitInv ==
    ASSUME Inv, NEW r \in Requests, CountHit(r)
    PROVE  Inv'
<1> DEFINE q == requests[r]
           old == rows[q.key]
           allowed == old.count < Burst
           count == IF allowed THEN old.count + 1 ELSE old.count
           row == [old EXCEPT !.count = count, !.updated = q.now]
<1>1. /\ q.pc = "found" /\ q.pc \in InTransaction
      /\ old.window = WindowStart(q.now)
      /\ CommitRow(r, row, allowed)
  BY DEF CountHit, InTransaction
<1>2. q.now \in Times /\ q.key \in Keys /\ RowInv(q.key) /\ HoldsInv(r)
  BY <1>1, TransactionIsShared
<1>3. old \in Row /\ old.count \in Nat /\ old.present /\ old.count <= Burst
  BY <1>1, <1>2 DEF Inv, TypeOK, Row, RowInv, HoldsInv
<1>4. /\ count \in Nat /\ count <= Burst
      /\ count = old.count + (IF allowed THEN 1 ELSE 0)
  BY <1>3, RateLimitAssumption
<1>5. allowed \in BOOLEAN
  OBVIOUS
<1> HIDE DEF allowed, count
<1>6. /\ row \in Row /\ row.present /\ row.updated = q.now /\ row.window = old.window
      /\ row.count = count
  BY <1>2, <1>3, <1>4 DEF Row
<1>7. Written(r, row, allowed)
  BY <1>1, <1>3, <1>4, <1>6 DEF Written
<1>8. Owns(r)
  BY <1>1, FoundOwns
<1> QED
  BY <1>1, <1>5, <1>7, <1>8, CommitInv

\* Every step preserves the invariant.
LEMMA NextInv == Inv /\ [Next]_vars => Inv'
<1> SUFFICES ASSUME Inv, [Next]_vars PROVE Inv'
  OBVIOUS
<1>1. ASSUME NEW r \in Requests, NEW e \in Endpoints, NEW c \in Callers, Start(r, e, c)
      PROVE  Inv'
  BY <1>1, StartInv
<1>2. ASSUME NEW r \in Requests, AllowMemory(r) PROVE Inv'
  BY <1>2, MemoryInv
<1>3. ASSUME NEW r \in Requests, Cleanup(r) \/ Select(r) PROVE Inv'
  BY <1>3, CleanupInv, SelectInv
<1>4. ASSUME NEW r \in Requests, InsertRow(r) \/ ResetWindow(r) \/ CountHit(r) PROVE Inv'
  BY <1>4, InsertRowInv, ResetWindowInv, CountHitInv
<1>5. ASSUME NEW r \in Requests, Deadlock(r) \/ Abort(r) PROVE Inv'
  BY <1>5, FailInv DEF Deadlock, Abort
<1>6. ASSUME Tick \/ Restart PROVE Inv'
  BY <1>6, TickInv, RestartInv
<1>7. ASSUME UNCHANGED vars PROVE Inv'
  <2>1. UNCHANGED <<backend, clock, requests, hits, rows, latest, granted, late>>
    BY <1>7 DEF vars
  <2>2. TypeOK' /\ BackendInv'
    BY <2>1 DEF Inv, TypeOK, BackendInv
  <2>3. LocksInv'
    BY <2>1 DEF Inv, LocksInv, ExclusiveInv, HoldsInv
  <2> QED
    BY <2>1, <2>2, <2>3, QuietStep
<1> QED
  BY <1>1, <1>2, <1>3, <1>4, <1>5, <1>6, <1>7 DEF Next, Step

-----------------------------------------------------------------------------

\* The inductive invariant holds in every state.
THEOREM InvHolds == Spec => []Inv
BY InitInv, NextInv, PTL DEF Spec

\* Every variable has its type, for any burst, window, cap and requests.
THEOREM TypesHold == Spec => []TypeOK
<1>1. Inv => TypeOK
  BY DEF Inv
<1> QED
  BY <1>1, InvHolds, PTL

\* The memory backend keeps to the burst in any Window ticks, up to the
\* requests that waited for the mutex while the clock went on.
THEOREM MemoryWindowBounded == Spec => []MemoryWindowBound
<1>1. Inv => MemoryWindowBound
  BY DEF Inv
<1> QED
  BY <1>1, InvHolds, PTL

\* The shared backend keeps to the burst in each of its windows, up to a burst
\* for each request that was committed a window too late.
THEOREM SharedWindowBounded == Spec => []SharedWindowBound
<1>1. Inv => SharedWindowBound
  BY DEF Inv
<1> QED
  BY <1>1, InvHolds, PTL

-----------------------------------------------------------------------------
(* Nobody is refused without a cause.                                        *)

\* A request that is let through is seen in what was let through.
LEMMA AllowedIsSeen ==
    ASSUME Inv, NEW r \in Requests, NEW isLate \in BOOLEAN, Allow(r, isLate)
    PROVE  granted' # granted
<1> DEFINE q == requests[r]
           new == NewHit(q.key, q.now)
<1>1. TypeOK /\ GrantsInv /\ q.key \in Keys
  BY DEF Inv, TypeOK, Request
<1>2. new \notin granted[q.key]
  BY <1>1, AllowStep
<1>3. granted' = [granted EXCEPT ![q.key] = granted[q.key] \cup {new}]
  BY DEF Allow
<1> HIDE DEF new
<1>4. new \in granted'[q.key]
  BY <1>1, <1>3 DEF TypeOK
<1> QED
  BY <1>2, <1>4

\* The memory backend refuses because of the burst or of the cap.
LEMMA MemoryRefusal ==
    ASSUME Inv, NEW r \in Requests, AllowMemory(r), granted' = granted
    PROVE  Cause(requests[r])
<1> DEFINE q       == requests[r]
           pruned  == [k \in Keys |-> Recent(hits[k], q.now)]
           used    == {k \in Keys : pruned[k] # {}}
           since   == (q.now - Window + 1) .. MaxTime
           others  == {k \in Keys \ {q.key} : Granted(k, since) > 0}
<1>1. q.pc = "memory" /\ q.key \in Keys /\ q.now \in Times
  BY DEF AllowMemory, Inv, TypeOK, Request
<1>2. backend = "memory"
  BY <1>1 DEF Inv, BackendInv
<1>3. ~Allow(r, q.now < latest)
  <2>1. (q.now < latest) \in BOOLEAN
    OBVIOUS
  <2> QED
    BY <2>1, AllowedIsSeen
<1>4. ~Room(pruned[q.key], Cardinality(used))
  BY <1>3 DEF AllowMemory
<1>5. \A k \in Keys : \A h \in granted[k] : h.at \in Times
  BY DEF Inv, TypeOK, Hit
<1>6. \A k \in Keys : /\ pruned[k] \in SUBSET granted[k]
                      /\ \A h \in pruned[k] : h.at > q.now - Window
  BY <1>1, <1>2, PrunedBucket
<1>7. \A k \in Keys : \A h \in pruned[k] : h.at \in since
  <2>1. ASSUME NEW t \in Times, t > q.now - Window PROVE t \in since
    BY <1>1, <2>1, RateLimitAssumption DEF Times
  <2> HIDE DEF since, pruned
  <2> QED
    BY <2>1, <1>5, <1>6
<1>8. \A k \in Keys : IsFiniteSet(granted[k])
  BY DEF Inv, GrantsInv
<1>9. Burst \in Nat /\ MaxBuckets \in Nat
  BY RateLimitAssumption
<1> HIDE DEF pruned, since
<1>10. CASE ~(Cardinality(pruned[q.key]) < Burst)
  <2>1. /\ Cardinality(pruned[q.key]) \in Nat /\ Count(granted[q.key], since) \in Nat
        /\ Cardinality(pruned[q.key]) <= Count(granted[q.key], since)
    BY <1>1, <1>6, <1>7, <1>8, CountBounds
  <2>2. Granted(q.key, since) >= Burst
    BY <1>9, <1>10, <2>1 DEF Granted, Count
  <2> QED
    BY <1>2, <2>2 DEF Cause, since
<1>11. CASE pruned[q.key] = {} /\ ~(Cardinality(used) < MaxBuckets)
  <2>1. ASSUME NEW k \in used PROVE k \in others
    <3>1. PICK h \in pruned[k] : TRUE
      OBVIOUS
    <3>2. k \in Keys \ {q.key}
      BY <1>11
    <3>3. {h} \in SUBSET granted[k] /\ h.at \in since
      BY <1>6, <1>7, <3>1, <3>2
    <3>4. Cardinality({h}) <= Count(granted[k], since) /\ Count(granted[k], since) \in Nat
      BY <1>8, <3>2, <3>3, CountBounds
    <3>5. Cardinality({h}) = 1
      BY FS_Singleton
    <3>6. Granted(k, since) > 0
      BY <3>4, <3>5 DEF Granted, Count
    <3> QED
      BY <3>2, <3>6
  <2>2. IsFiniteSet(others) /\ IsFiniteSet(used)
    BY KeysFinite, FS_Subset
  <2> HIDE DEF used, others
  <2>3. /\ Cardinality(used) <= Cardinality(others)
        /\ Cardinality(used) \in Nat /\ Cardinality(others) \in Nat
    BY <2>1, <2>2, FS_Subset, FS_CardinalityType
  <2>4. Cardinality(others) >= MaxBuckets
    BY <1>9, <1>11, <2>3
  <2> QED
    BY <1>2, <2>4 DEF Cause, others, since
<1> QED
  BY <1>4, <1>10, <1>11 DEF Room

\* The shared backend refuses because of the burst.
LEMMA SharedRefusal ==
    ASSUME Inv, NEW r \in Requests, CountHit(r), granted' = granted
    PROVE  Cause(requests[r])
<1> DEFINE q == requests[r]
           old == rows[q.key]
           start == WindowStart(q.now)
           allowed == old.count < Burst
<1>1. q.pc = "found" /\ q.pc \in InTransaction /\ old.window = start
  BY DEF CountHit, InTransaction
<1>2. backend = "shared" /\ q.key \in Keys /\ RowInv(q.key) /\ HoldsInv(r)
  BY <1>1, TransactionIsShared
<1>3. ~allowed
  <2>1. allowed => Allow(r, start < WindowStart(latest))
    BY DEF CountHit, CommitRow
  <2>2. (start < WindowStart(latest)) \in BOOLEAN
    OBVIOUS
  <2> QED
    BY <2>1, <2>2, AllowedIsSeen
<1>4. old.count \in Nat /\ Burst \in Nat
  BY <1>2, RateLimitAssumption DEF Inv, TypeOK, Row
<1>5. old.count <= InWindow(granted[q.key], start)
  BY <1>1, <1>2 DEF RowInv, HoldsInv
<1>6. InWindow(granted[q.key], start) = Granted(q.key, start .. (start + Window - 1))
  BY DEF InWindow, Count, Granted
<1>7. Granted(q.key, start .. (start + Window - 1)) \in Nat
  BY <1>2, GrantedType DEF Inv
<1> HIDE DEF start
<1>8. Granted(q.key, start .. (start + Window - 1)) >= Burst
  BY <1>3, <1>4, <1>5, <1>6, <1>7
<1> QED
  BY <1>2, <1>8 DEF Cause, start

\* Nobody is refused without a cause: neither pruning nor the cleanup nor a
\* window that is set back makes a bucket fuller than what was let through.
THEOREM RefusalsHaveCause == Spec => RefusedForCause
<1>1. Inv /\ [Next]_vars =>
        [\A r \in Requests :
           (AllowMemory(r) \/ CountHit(r)) /\ granted' = granted => Cause(requests[r])]_vars
  BY MemoryRefusal, SharedRefusal
<1> QED
  BY <1>1, InvHolds, PTL DEF Spec, RefusedForCause

-----------------------------------------------------------------------------
(* One bucket per route.                                                     *)

\* The kinds of routes the mux has.
ListRoute(e) ==
    \/ \E c \in GetLists : e = Endpoint("GET", c, NoPart, NoPart)
    \/ \E c \in PostLists : e = Endpoint("POST", c, NoPart, NoPart)

ElementRoute(e, id) ==
    \E c \in {"incidents", "notification-channels"} : e = Endpoint("GET", c, id, NoPart)

DispatchRoute(e, id) == e = Endpoint("GET", "remediation-actions", id, "dispatch-context")

OperationRoute(e, id) == \E o \in PostOperations : e = Endpoint("POST", o[1], id, o[2])

ChannelRoute(e, id) ==
    \E m \in {"PUT", "DELETE"} : e = Endpoint(m, "notification-channels", id, NoPart)

\* The mux has no others.
LEMMA RouteCases ==
    ASSUME NEW id, NEW e \in Routes(id)
    PROVE  \/ ListRoute(e) \/ ElementRoute(e, id) \/ DispatchRoute(e, id)
           \/ OperationRoute(e, id) \/ ChannelRoute(e, id)
BY DEF Routes, ListRoute, ElementRoute, DispatchRoute, OperationRoute, ChannelRoute

\* NoPart is not the operation that keeps a path of a channel apart.
LEMMA NoPartIsNoOperation == NoPart # "test"
BY PathAssumption DEF PostOperations

\* A path that is counted under an id is no route's.
LEMMA KeyOfRoute ==
    ASSUME NEW k \in Keys, [method |-> k[1], path |-> k[2]] \in Routes(k[2].id)
    PROVE  k[2].id \in {NoPart, AnyId}
<1>1. PICK e \in Endpoints, c \in Callers : k = RateLimitKey(e.method, e.path, c)
  BY DEF Keys
<1> DEFINE m == e.method
           p == e.path
<1>2. k[1] = m /\ k[2] = RateLimitPath(m, p)
  BY <1>1 DEF RateLimitKey
<1>3. p = [collection |-> p.collection, id |-> p.id, operation |-> p.operation]
  BY RateLimitAssumption DEF Endpoint
<1> HIDE DEF m, p
<1>4. CASE p.id = NoPart
  BY <1>2, <1>4 DEF RateLimitPath
<1>5. CASE /\ p.id # NoPart
           /\ \/ Flattened(m, p)
              \/ <<p.collection, p.operation>> \in PostOperations
              \/ /\ m = "GET" /\ p.collection = "remediation-actions"
                 /\ p.operation = "dispatch-context"
  BY <1>2, <1>3, <1>5 DEF RateLimitPath
<1>6. CASE /\ p.id # NoPart /\ ~Flattened(m, p)
           /\ <<p.collection, p.operation>> \notin PostOperations
           /\ ~(/\ m = "GET" /\ p.collection = "remediation-actions"
                /\ p.operation = "dispatch-context")
  <2>1. k[2] = p
    BY <1>2, <1>6 DEF RateLimitPath
  <2>2. [method |-> m, path |-> p] \notin Routes(p.id)
    <3> SUFFICES ASSUME [method |-> m, path |-> p] \in Routes(p.id) PROVE FALSE
      OBVIOUS
    <3> DEFINE e0 == [method |-> m, path |-> p]
               id == p.id
    <3>0. e0.method = m /\ e0.path = p
      OBVIOUS
    <3>1. CASE ListRoute(e0)
      <4>1. e0.path.id = NoPart
        <5> HIDE DEF e0
        <5> QED
          BY <3>1 DEF ListRoute, Endpoint
      <4> QED
        BY <1>6, <3>0, <4>1
    <3>2. CASE ElementRoute(e0, id)
      BY <1>6, <3>0, <3>2 DEF ElementRoute, Endpoint, Flattened
    <3>3. CASE DispatchRoute(e0, id)
      BY <1>6, <3>0, <3>3 DEF DispatchRoute, Endpoint
    <3>4. CASE OperationRoute(e0, id)
      <4>1. PICK o \in PostOperations : e0 = Endpoint("POST", o[1], id, o[2])
        BY <3>4 DEF OperationRoute
      <4>2. o = <<o[1], o[2]>>
        BY DEF PostOperations
      <4>3. p.collection = o[1] /\ p.operation = o[2]
        BY <3>0, <4>1 DEF Endpoint
      <4> QED
        BY <1>6, <4>2, <4>3
    <3>5. CASE ChannelRoute(e0, id)
      BY <1>6, <3>0, <3>5, NoPartIsNoOperation DEF ChannelRoute, Endpoint, Flattened
    <3> QED
      BY <3>1, <3>2, <3>3, <3>4, <3>5, RouteCases
  <2> QED
    BY <1>2, <2>1, <2>2
<1> QED
  BY <1>4, <1>5, <1>6

\* A path below which everything is one endpoint has its template for a key.
LEMMA FlattenedPath ==
    ASSUME NEW e, NEW id, id # NoPart,
           e = [method |-> e.method, path |-> e.path],
           e.path = [collection |-> e.path.collection, id |-> id, operation |-> NoPart],
           Flattened(e.method, e.path)
    PROVE  /\ RateLimitPath(e.method, e.path) = Template(e).path
           /\ Template(e) = [method |-> e.method, path |-> Template(e).path]
<1> DEFINE t == [collection |-> e.path.collection, id |-> AnyId, operation |-> NoPart]
<1>1. e.path.id = id
  OBVIOUS
<1>2. [e.path EXCEPT !.id = AnyId] = t /\ [t EXCEPT !.operation = NoPart] = t
  OBVIOUS
<1>3. RateLimitPath(e.method, e.path) = t
  BY <1>1, <1>2 DEF RateLimitPath
<1>4. Template(e) = [method |-> e.method, path |-> t]
  BY <1>1, <1>2 DEF Template
<1> QED
  BY <1>3, <1>4

\* A route is counted under its template, whichever element it names.
LEMMA PathOfRoute ==
    ASSUME NEW id, id # NoPart, NEW e \in Routes(id)
    PROVE  /\ IsRateLimitedEndpoint(e.method, e.path)
           /\ RateLimitPath(e.method, e.path) = Template(e).path
           /\ Template(e) = [method |-> e.method, path |-> Template(e).path]
<1>1. CASE ListRoute(e)
  BY <1>1 DEF ListRoute, Endpoint, Template, RateLimitPath, IsRateLimitedEndpoint
<1>2. CASE ElementRoute(e, id)
  <2>1. /\ e.method = "GET" /\ e.path.id = id /\ e.path.operation = NoPart
        /\ e.path.collection \in {"incidents", "notification-channels"}
        /\ e = [method |-> "GET", path |-> e.path]
        /\ e.path = [collection |-> e.path.collection, id |-> id, operation |-> NoPart]
    BY <1>2 DEF ElementRoute, Endpoint
  <2> QED
    BY <2>1, FlattenedPath DEF IsRateLimitedEndpoint, Flattened, GetById
<1>3. CASE DispatchRoute(e, id)
  BY <1>3 DEF DispatchRoute, Endpoint, Template, RateLimitPath, IsRateLimitedEndpoint,
              Flattened, GetById
<1>4. CASE OperationRoute(e, id)
  <2>1. PICK o \in PostOperations : e = Endpoint("POST", o[1], id, o[2])
    BY <1>4 DEF OperationRoute
  <2>2. o = <<o[1], o[2]>>
    BY DEF PostOperations
  <2>3. /\ e.method = "POST" /\ e.path.id = id /\ <<e.path.collection, e.path.operation>> = o
        /\ e = [method |-> "POST", path |-> e.path]
        /\ e.path = [collection |-> o[1], id |-> id, operation |-> o[2]]
    BY <2>1, <2>2 DEF Endpoint
  <2>4. IsRateLimitedEndpoint(e.method, e.path)
    BY <2>3 DEF IsRateLimitedEndpoint
  <2>5. ~Flattened(e.method, e.path)
    BY <2>3 DEF Flattened
  <2>6. RateLimitPath(e.method, e.path) = [e.path EXCEPT !.id = AnyId]
    BY <2>3, <2>5 DEF RateLimitPath
  <2>7. /\ Template(e).path = [e.path EXCEPT !.id = AnyId]
        /\ Template(e) = [method |-> "POST", path |-> Template(e).path]
    BY <2>3 DEF Template
  <2> QED
    BY <2>3, <2>4, <2>6, <2>7
<1>5. CASE ChannelRoute(e, id)
  <2>1. /\ e.method \in {"PUT", "DELETE"} /\ e.path.id = id /\ e.path.operation = NoPart
        /\ e.path.collection = "notification-channels"
        /\ e = [method |-> e.method, path |-> e.path]
        /\ e.path = [collection |-> e.path.collection, id |-> id, operation |-> NoPart]
    BY <1>5 DEF ChannelRoute, Endpoint
  <2> QED
    BY <2>1, FlattenedPath, NoPartIsNoOperation DEF IsRateLimitedEndpoint, Flattened
<1> QED
  BY <1>1, <1>2, <1>3, <1>4, <1>5, RouteCases

\* Two requests of a client share a bucket exactly if they are of one route.
LEMMA BucketsOfRoutes == BucketsByRoute
<1> SUFFICES ASSUME NEW e \in Routes("one"), NEW f \in Routes("two")
             PROVE  LET key(g) == RateLimitKey(g.method, g.path,
                                               [remote |-> "client", forwarded |-> <<>>])
                    IN /\ IsRateLimitedEndpoint(e.method, e.path)
                       /\ key(e) = key(f) <=> Template(e) = Template(f)
  BY DEF BucketsByRoute
<1> DEFINE ip == ClientIP([remote |-> "client", forwarded |-> <<>>].remote,
                          [remote |-> "client", forwarded |-> <<>>].forwarded)
           key(g) == RateLimitKey(g.method, g.path, [remote |-> "client", forwarded |-> <<>>])
<1>1. "one" # NoPart /\ "two" # NoPart
  BY PathAssumption
<1>2. /\ IsRateLimitedEndpoint(e.method, e.path)
      /\ RateLimitPath(e.method, e.path) = Template(e).path
      /\ Template(e) = [method |-> e.method, path |-> Template(e).path]
  BY <1>1, PathOfRoute
<1>3. /\ RateLimitPath(f.method, f.path) = Template(f).path
      /\ Template(f) = [method |-> f.method, path |-> Template(f).path]
  BY <1>1, PathOfRoute
<1>4. /\ key(e) = <<e.method, Template(e).path, ip>>
      /\ key(f) = <<f.method, Template(f).path, ip>>
  BY <1>2, <1>3 DEF RateLimitKey
<1> HIDE DEF ip, key
<1>5. key(e) = key(f) <=> (e.method = f.method /\ Template(e).path = Template(f).path)
  BY <1>4
<1>6. Template(e) = Template(f) <=> (e.method = f.method /\ Template(e).path = Template(f).path)
  BY <1>2, <1>3
<1> QED
  BY <1>2, <1>5, <1>6 DEF key

\* One client has one bucket per route, whichever elements it asks for, for any
\* endpoints and callers.
THEOREM BucketsPerRoute == Spec => []BucketPerRoute
<1>1. Inv => BucketPerRoute
  BY BucketsOfRoutes, KeyOfRoute DEF Inv, TypeOK, Request, BucketPerRoute
<1> QED
  BY <1>1, InvHolds, PTL

-----------------------------------------------------------------------------
(* Waiting for locks.                                                        *)

\* The guards of Step: r can go on, or the database rolls it back.
GoesOn(r) ==
    \/ requests[r].pc \in {"memory", "found"}
    \/ requests[r].pc = "cleanup" /\ \A k \in Expired(r) : ~Locked(r, k)
    \/ requests[r].pc = "select" /\ ~Locked(r, requests[r].key)
    \/ requests[r].pc = "insert" /\ ~GapHeld(r, requests[r].key)
    \/ InCircle(r)

\* When requests are at the limiter, the guard of one of them holds.
SomeoneGoesOn == (\E r \in Requests : Waiting(r)) => \E r \in Requests : GoesOn(r)

\* A request that cannot go on waits for another one that is at the limiter:
\* no lock outlives its transaction.
LEMMA WaitsForWaiting ==
    ASSUME Inv, NEW p \in Requests, Waiting(p), ~GoesOn(p)
    PROVE  \E q \in Requests \ {p} : Waiting(q) /\ Waits(p, q)
<1>1. requests[p].pc \in {"cleanup", "select", "insert"}
  BY DEF Inv, TypeOK, Request, InTransaction, Waiting, GoesOn
<1>2. ASSUME NEW q \in Requests, NEW k, Holds(q, k) PROVE Waiting(q)
  BY <1>2 DEF Holds, InTransaction, Waiting
<1>3. CASE requests[p].pc = "cleanup"
  <2>1. PICK k \in Expired(p), q \in Requests \ {p} : Holds(q, k)
    BY <1>3 DEF GoesOn, Locked
  <2> QED
    BY <1>2, <1>3, <2>1 DEF Waits
<1>4. CASE requests[p].pc = "select"
  <2>1. PICK q \in Requests \ {p} : Holds(q, requests[p].key)
    BY <1>4 DEF GoesOn, Locked
  <2> QED
    BY <1>2, <1>4, <2>1 DEF Waits
<1>5. CASE requests[p].pc = "insert"
  <2>1. PICK q \in Requests \ {p} : requests[q].pc = "insert"
    BY <1>5 DEF GoesOn, GapHeld
  <2> QED
    BY <1>5, <2>1 DEF Waits, Waiting
<1> QED
  BY <1>1, <1>3, <1>4, <1>5

\* However many requests wait for each other's rows and gaps, in whatever
\* order they cleaned up, selected and inserted, one can go on: if none could,
\* those at the limiter would all wait in circles, which the database breaks.
THEOREM SomeoneAlwaysGoesOn == Spec => []SomeoneGoesOn
<1>1. Inv => SomeoneGoesOn
  <2> SUFFICES ASSUME Inv, NEW r \in Requests, Waiting(r),
                      \A p \in Requests : ~GoesOn(p)
               PROVE  FALSE
    BY DEF SomeoneGoesOn
  <2> DEFINE circle == {p \in Requests : Waiting(p)}
  <2>1. circle \in SUBSET Requests /\ r \in circle
    OBVIOUS
  <2>2. \A p \in circle : \E q \in circle \ {p} : Waits(p, q)
    BY WaitsForWaiting
  <2>3. InCircle(r)
    BY <2>1, <2>2 DEF InCircle
  <2> QED
    BY <2>3 DEF GoesOn
<1> QED
  BY <1>1, InvHolds, PTL

=============================================================================
