--------------------------- MODULE RemediationProofs ---------------------------
(***************************************************************************)
(* Remediation and LocalTransition, for any actions, concurrent requests,  *)
(* modes, keys and fences: only what the policy permits is carried out, a  *)
(* stored "executed" is true, and a local transition takes effect once.    *)
(***************************************************************************)
EXTENDS Remediation, LocalTransition, FiniteSetTheorems, SequenceTheorems, TLAPS

\* What a request cannot change of an action.
SameAction(x, y) ==
    /\ x.class = y.class /\ x.mode = y.mode /\ x.approval = y.approval
    /\ x.safe = y.safe /\ x.correlated = y.correlated

\* The policy lets action x with id a be carried out, given the approvals.
Permitted(a, x, given) ==
    /\ x.mode \in {"safe_auto", "manual_approval"}
    /\ x.approval \/ x.mode = "manual_approval" => a \in given

\* A row, and a copy that may be written over one, says nothing false.
Sound(a, x, given, done) ==
    /\ x.status = "approved" => a \in given
    /\ x.status = "executed" => x.class \notin {"forbidden", "unknown"}
    /\ x.status = "executed" /\ x.class = "application" => a \in done
    /\ x.status = "disabled" => x.mode = "disabled"
    /\ x.executedAt <=> x.status = "executed"

RowsSound == \A a \in ActionIds : Sound(a, rows[a], approved, performed)

\* What a request knows at each of its steps.
RequestInv(q, table, given, done) ==
    /\ q.pc # "idle" => /\ table[q.id].status # "absent"
                        /\ q.copy.status # "absent"
                        /\ SameAction(q.copy, table[q.id])
    /\ q.pc \in {"approve", "write"} => Sound(q.id, q.copy, given, done)
    /\ q.pc = "dispatch" => /\ q.copy.status = "executed" /\ q.copy.executedAt
                            /\ q.copy.class = "application"
                            /\ Permitted(q.id, q.copy, given)

RequestsInv == \A r \in Requests : RequestInv(requests[r], rows, approved, performed)

PerformedPresent == \A a \in performed : rows[a].status # "absent"

\* The inductive invariant.
Inv == TypeOK /\ RowsSound /\ RequestsInv /\ PerformedPresent /\ OnlyPermittedPerformed

-----------------------------------------------------------------------------

\* An absent action says nothing.
LEMMA NoActionIs ==
    /\ NoAction \in Action /\ NoAction.status = "absent" /\ ~NoAction.executedAt
    /\ \A a, given, done : Sound(a, NoAction, given, done)
BY DEF NoAction, Action, Classes, Statuses, Sound

\* An idle request claims nothing.
LEMMA IdleIs == Idle \in Request /\ Idle.pc = "idle"
BY RemediationAssumption, NoActionIs DEF Idle, Request

\* What the policy builds is a sound action.
LEMMA BuiltIs ==
    ASSUME NEW a, NEW c \in Classes, NEW m \in Modes, NEW p \in BOOLEAN, NEW i \in BOOLEAN,
           NEW given, NEW done
    PROVE  /\ Built(c, m, p, i) \in Action
           /\ Built(c, m, p, i).status # "absent"
           /\ Sound(a, Built(c, m, p, i), given, done)
<1>1. m \in {"disabled", "suggest_only", "safe_auto", "manual_approval"}
  BY RemediationAssumption
<1>2. /\ InitialStatus(m, p) \in {"disabled", "pending_approval", "suggested"}
      /\ InitialStatus(m, p) = "disabled" => m = "disabled"
  BY <1>1 DEF InitialStatus
<1>3. (~p /\ c \in {"local", "application"}) \in BOOLEAN
  OBVIOUS
<1> QED
  BY <1>1, <1>2, <1>3 DEF Built, Action, Statuses, Sound

\* So are the rows an earlier version stored.
LEMMA LegacyIs ==
    ASSUME NEW x \in LegacyRows, NEW a, NEW given, NEW done
    PROVE  x \in Action /\ Sound(a, x, given, done)
<1>1. PICK c \in {"forbidden", "unknown"}, m \in Modes :
        x = [class |-> c, mode |-> m, approval |-> TRUE, safe |-> FALSE,
             correlated |-> TRUE, status |-> InitialStatus(m, TRUE), executedAt |-> FALSE]
  BY DEF LegacyRows, InitialStatus
<1>2. /\ InitialStatus(m, TRUE) \in {"disabled", "pending_approval"}
      /\ InitialStatus(m, TRUE) = "disabled" => m = "disabled"
      /\ m \in {"disabled", "suggest_only", "safe_auto", "manual_approval"}
  BY RemediationAssumption DEF InitialStatus
<1> QED
  BY <1>1, <1>2 DEF Action, Classes, Statuses, Sound

\* The invariant holds initially.
LEMMA InitInv == Init => Inv
<1> SUFFICES ASSUME Init PROVE Inv
  OBVIOUS
<1>1. \A a \in ActionIds : rows[a] \in {NoAction} \cup LegacyRows
  BY DEF Init
<1>2. \A a \in ActionIds : rows[a] \in Action /\ Sound(a, rows[a], {}, {})
  BY <1>1, NoActionIs, LegacyIs
<1>3. TypeOK
  BY <1>2, IdleIs DEF Init, TypeOK
<1>4. RowsSound /\ PerformedPresent /\ OnlyPermittedPerformed
  BY <1>2 DEF Init, RowsSound, PerformedPresent, OnlyPermittedPerformed
<1>5. RequestsInv
  BY IdleIs DEF Init, RequestsInv, RequestInv
<1> QED
  BY <1>3, <1>4, <1>5 DEF Inv

\* A step that changes one request and perhaps what was carried out preserves
\* the invariant if the new claims of the request are true and so is what the
\* step adds to the carried-out actions.
LEMMA RequestStep ==
    ASSUME Inv, NEW r \in Requests, NEW q \in Request,
           requests' = [requests EXCEPT ![r] = q],
           UNCHANGED <<rows, approved>>,
           recorded' \subseteq ActionIds, redispatched' \subseteq ActionIds,
           performed' \subseteq ActionIds, performed \subseteq performed',
           RequestInv(q, rows, approved, performed'),
           \A a \in performed' \ performed :
               /\ rows[a].status # "absent" /\ Permitted(a, rows[a], approved)
               /\ rows[a].class = "application" /\ rows[a].correlated
    PROVE  Inv'
<1>1. \A s \in Requests : requests'[s] = IF s = r THEN q ELSE requests[s]
  BY DEF Inv, TypeOK
<1>2. TypeOK'
  BY DEF Inv, TypeOK
<1>3. RowsSound' /\ PerformedPresent'
  BY DEF Inv, RowsSound, Sound, PerformedPresent
<1>4. OnlyPermittedPerformed'
  BY DEF Inv, OnlyPermittedPerformed, Permitted
<1>5. RequestsInv'
  BY <1>1 DEF Inv, RequestsInv, RequestInv, Sound
<1> QED
  BY <1>2, <1>3, <1>4, <1>5 DEF Inv

\* A step that ends a request and writes what its copy says into the row.
LEMMA StoreStep ==
    ASSUME Inv, NEW r \in Requests, NEW x \in Action,
           requests[r].pc # "idle", x.status # "absent",
           SameAction(x, rows[requests[r].id]),
           Store(r, x),
           approved \subseteq approved', approved' \subseteq ActionIds,
           Sound(requests[r].id, x, approved', performed),
           UNCHANGED <<performed, redispatched>>
    PROVE  Inv'
<1> DEFINE a == requests[r].id
           y == [rows[a] EXCEPT !.status = x.status, !.executedAt = x.executedAt]
<1>1. a \in ActionIds /\ rows[a] \in Action
  BY DEF Inv, TypeOK, Request
<1>2. rows' = [rows EXCEPT ![a] = y]
  BY <1>1 DEF Store, Inv, TypeOK
<1>3. /\ y \in Action /\ y.status = x.status /\ y.executedAt = x.executedAt
      /\ SameAction(y, rows[a]) /\ SameAction(y, x)
  BY <1>1 DEF Action, SameAction
<1> HIDE DEF y
<1>4. \A b \in ActionIds : rows'[b] = IF b = a THEN y ELSE rows[b]
  BY <1>2 DEF Inv, TypeOK
<1>5. \A s \in Requests : requests'[s] = IF s = r THEN Idle ELSE requests[s]
  BY DEF Store, Inv, TypeOK
<1>6. recorded' \subseteq ActionIds
  BY <1>1 DEF Store, Inv, TypeOK
<1>7. TypeOK'
  BY <1>2, <1>3, <1>6, IdleIs DEF Store, Inv, TypeOK
<1>8. RowsSound'
  BY <1>3, <1>4 DEF Inv, RowsSound, Sound, SameAction
<1>9. \A b \in ActionIds : /\ SameAction(rows'[b], rows[b])
                           /\ rows[b].status # "absent" => rows'[b].status # "absent"
  BY <1>3, <1>4 DEF SameAction
<1>10. PerformedPresent' /\ OnlyPermittedPerformed'
  BY <1>9 DEF Inv, TypeOK, PerformedPresent, OnlyPermittedPerformed, SameAction
<1>11. RequestsInv'
  <2> SUFFICES ASSUME NEW s \in Requests
               PROVE  RequestInv(requests'[s], rows', approved', performed')
    BY DEF RequestsInv
  <2>1. CASE s = r
    BY <1>5, <2>1, IdleIs DEF RequestInv
  <2>2. CASE s # r
    <3>1. /\ requests'[s] = requests[s] /\ requests[s].id \in ActionIds
          /\ RequestInv(requests[s], rows, approved, performed)
      BY <1>5, <2>2 DEF Inv, TypeOK, RequestsInv, Request
    <3> QED
      BY <3>1, <1>9 DEF RequestInv, SameAction, Sound, Permitted
  <2> QED
    BY <2>1, <2>2
<1> QED
  BY <1>7, <1>8, <1>10, <1>11 DEF Inv

-----------------------------------------------------------------------------

\* A new action is one nobody has read yet.
LEMMA CreateInv ==
    ASSUME Inv, NEW a \in ActionIds, NEW c \in {"local", "application", "host"},
           NEW m \in Modes, NEW p \in BOOLEAN, NEW i \in BOOLEAN, Create(a, c, m, p, i)
    PROVE  Inv'
<1> DEFINE x == Built(c, m, p, i)
<1>1. x \in Action /\ x.status # "absent" /\ Sound(a, x, approved, performed)
  BY BuiltIs DEF Classes
<1>2. /\ rows' = [rows EXCEPT ![a] = x] /\ rows[a].status = "absent"
      /\ UNCHANGED <<requests, approved, performed, recorded, redispatched>>
  BY DEF Create
<1> HIDE DEF x
<1>3. \A b \in ActionIds : rows'[b] = IF b = a THEN x ELSE rows[b]
  BY <1>2 DEF Inv, TypeOK
<1>4. TypeOK'
  BY <1>1, <1>2 DEF Inv, TypeOK
<1>5. RowsSound'
  BY <1>1, <1>2, <1>3 DEF Inv, RowsSound
<1>6. a \notin performed
  BY <1>2 DEF Inv, PerformedPresent
<1>7. PerformedPresent' /\ OnlyPermittedPerformed'
  BY <1>2, <1>3, <1>6 DEF Inv, TypeOK, PerformedPresent, OnlyPermittedPerformed
<1>8. RequestsInv'
  <2> SUFFICES ASSUME NEW s \in Requests
               PROVE  RequestInv(requests'[s], rows', approved', performed')
    BY DEF RequestsInv
  <2>1. RequestInv(requests[s], rows, approved, performed) /\ requests[s].id \in ActionIds
    BY DEF Inv, TypeOK, RequestsInv, Request
  <2>2. requests[s].pc # "idle" => requests[s].id # a
    BY <1>2, <2>1 DEF RequestInv
  <2> QED
    BY <1>2, <1>3, <2>1, <2>2 DEF RequestInv, Sound, Permitted
<1> QED
  BY <1>4, <1>5, <1>7, <1>8 DEF Inv

\* An approve request copies the row.
LEMMA ReadToApproveInv ==
    ASSUME Inv, NEW r \in Requests, NEW a \in ActionIds, ReadToApprove(r, a)
    PROVE  Inv'
<1> DEFINE q == [pc |-> "approve", id |-> a, copy |-> rows[a]]
<1>1. q \in Request
  BY DEF Inv, TypeOK, Request
<1>2. /\ requests' = [requests EXCEPT ![r] = q] /\ rows[a].status # "absent"
      /\ UNCHANGED <<rows, approved, performed, recorded, redispatched>>
  BY DEF ReadToApprove
<1>3. RequestInv(q, rows, approved, performed')
  BY <1>2 DEF Inv, RowsSound, RequestInv, SameAction
<1> HIDE DEF q
<1> QED
  BY <1>1, <1>2, <1>3, RequestStep DEF Inv, TypeOK

\* An execute request copies the policy's verdict on the row: what it lets
\* through to the Control Panel is permitted.
LEMMA ReadToExecuteInv ==
    ASSUME Inv, NEW r \in Requests, NEW a \in ActionIds, ReadToExecute(r, a)
    PROVE  Inv'
<1> DEFINE copy == Execute(rows[a])
           q == [pc   |-> IF copy.status = "executed" /\ copy.class = "application"
                          THEN "dispatch" ELSE "write",
                 id   |-> a,
                 copy |-> copy]
<1>1. rows[a] \in Action /\ Sound(a, rows[a], approved, performed)
  BY DEF Inv, TypeOK, RowsSound
<1>2. /\ requests' = [requests EXCEPT ![r] = q]
      /\ rows[a].status \notin {"absent", "executed", "blocked"}
      /\ UNCHANGED <<rows, approved, performed, recorded, redispatched>>
  BY DEF ReadToExecute, IsTerminalStatus
<1>3. /\ copy \in Action /\ SameAction(copy, rows[a])
      /\ \/ copy.status = "blocked" /\ ~copy.executedAt
         \/ copy.status = "executed" /\ copy.executedAt /\ ~Refused(rows[a])
  <2>1. CASE Refused(rows[a])
    BY <1>1, <1>2, <2>1 DEF Execute, Action, Statuses, SameAction, Sound
  <2>2. CASE ~Refused(rows[a])
    BY <1>1, <2>2 DEF Execute, Action, Statuses, SameAction
  <2> QED
    BY <2>1, <2>2
<1> HIDE DEF copy
<1>4. q \in Request /\ q.id = a /\ q.copy = copy /\ q.pc \in {"dispatch", "write"}
      /\ (q.pc = "dispatch" <=> copy.status = "executed" /\ copy.class = "application")
  BY <1>3 DEF Request
<1> HIDE DEF q
<1>5. ~Refused(rows[a]) => Permitted(a, rows[a], approved)
                           /\ rows[a].class \notin {"forbidden", "unknown"}
  BY <1>1 DEF Refused, Permitted, Sound, Action
<1>6. RequestInv(q, rows, approved, performed')
  BY <1>2, <1>3, <1>4, <1>5 DEF RequestInv, Sound, SameAction, Permitted
<1> QED
  BY <1>2, <1>4, <1>6, RequestStep DEF Inv, TypeOK

\* The dispatch, carried out or not and with or without its answer.
LEMMA DispatchInv ==
    ASSUME Inv, NEW r \in Requests,
           DispatchFails(r) \/ \E lostAnswer \in BOOLEAN : DispatchPerformed(r, lostAnswer)
    PROVE  Inv'
<1> DEFINE q == requests[r]
           sent == [q EXCEPT !.pc = "write"]
           blocked == [q EXCEPT !.pc = "write",
                                !.copy = [q.copy EXCEPT !.status = "blocked", !.executedAt = FALSE]]
<1>1. /\ q \in Request /\ q.pc = "dispatch" /\ q.id \in ActionIds
      /\ RequestInv(q, rows, approved, performed)
      /\ q.copy \in Action
  BY DEF DispatchFails, DispatchPerformed, Inv, TypeOK, RequestsInv, Request
<1>2. sent \in Request /\ sent.pc = "write" /\ sent.id = q.id /\ sent.copy = q.copy
  BY <1>1 DEF Request
<1>3. [q.copy EXCEPT !.status = "blocked", !.executedAt = FALSE] \in Action
  BY <1>1 DEF Action, Statuses
<1>4. /\ blocked \in Request /\ blocked.pc = "write" /\ blocked.id = q.id
      /\ blocked.copy.status = "blocked" /\ ~blocked.copy.executedAt
      /\ SameAction(blocked.copy, q.copy)
  BY <1>1, <1>3 DEF Request, Action, SameAction
<1>5. /\ UNCHANGED <<rows, approved, recorded>>
      /\ redispatched' \subseteq ActionIds
      /\ \/ requests' = [requests EXCEPT ![r] = blocked] /\ performed' = performed
         \/ /\ requests' = [requests EXCEPT ![r] = blocked]
            /\ performed' = performed \cup {q.id} /\ q.copy.correlated
         \/ /\ requests' = [requests EXCEPT ![r] = sent]
            /\ performed' = performed \cup {q.id} /\ q.copy.correlated
  <2>1. CASE DispatchFails(r)
    BY <2>1 DEF DispatchFails, DispatchBlocked, Inv, TypeOK
  <2>2. ASSUME NEW lostAnswer \in BOOLEAN, DispatchPerformed(r, lostAnswer)
        PROVE  /\ UNCHANGED <<rows, approved, recorded>> /\ redispatched' \subseteq ActionIds
               /\ performed' = performed \cup {q.id} /\ q.copy.correlated
               /\ \/ requests' = [requests EXCEPT ![r] = blocked]
                  \/ requests' = [requests EXCEPT ![r] = sent]
    BY <1>1, <2>2 DEF DispatchPerformed, Proposable, DispatchBlocked, DispatchOk, Inv, TypeOK
  <2> QED
    BY <2>1, <2>2
<1> HIDE DEF sent, blocked
<1>6. RequestInv(blocked, rows, approved, performed')
  BY <1>1, <1>4, <1>5 DEF RequestInv, Sound, SameAction
<1>7. performed' = performed \cup {q.id} => RequestInv(sent, rows, approved, performed')
  BY <1>1, <1>2, <1>5 DEF RequestInv, Sound, SameAction
<1>8. \A a \in performed' \ performed :
        /\ rows[a].status # "absent" /\ Permitted(a, rows[a], approved)
        /\ rows[a].class = "application" /\ rows[a].correlated
  BY <1>1, <1>5 DEF RequestInv, SameAction, Permitted
<1>9. /\ performed' \subseteq ActionIds /\ performed \subseteq performed'
      /\ recorded' \subseteq ActionIds
  BY <1>1, <1>5 DEF Inv, TypeOK
<1> HIDE DEF q
<1>10. CASE requests' = [requests EXCEPT ![r] = blocked]
  BY <1>4, <1>5, <1>6, <1>8, <1>9, <1>10, RequestStep
<1>11. CASE requests' = [requests EXCEPT ![r] = sent] /\ performed' = performed \cup {q.id}
  BY <1>2, <1>5, <1>7, <1>8, <1>9, <1>11, RequestStep
<1> QED
  BY <1>5, <1>10, <1>11

\* Writing an approval: an action it marks approved has been approved, now or
\* when the copy was made.
LEMMA WriteApprovalInv ==
    ASSUME Inv, NEW r \in Requests, WriteApproval(r)
    PROVE  Inv'
<1> DEFINE q == requests[r]
           x == Approve(q.copy)
<1>1. /\ q \in Request /\ q.pc = "approve" /\ q.id \in ActionIds
      /\ RequestInv(q, rows, approved, performed)
      /\ q.copy \in Action
  BY DEF WriteApproval, Inv, TypeOK, RequestsInv, Request
<1>2. /\ x \in Action /\ SameAction(x, q.copy) /\ x.executedAt = q.copy.executedAt
      /\ x.status = IF q.copy.status = "pending_approval" THEN "approved" ELSE q.copy.status
  BY <1>1 DEF Approve, Action, Statuses, SameAction
<1>3. /\ Store(r, x) /\ UNCHANGED <<performed, redispatched>>
      /\ approved' = IF q.copy.status = "pending_approval" THEN approved \cup {q.id} ELSE approved
  BY DEF WriteApproval
<1> HIDE DEF x
<1>4. /\ x.status # "absent" /\ SameAction(x, rows[q.id])
      /\ approved \subseteq approved' /\ approved' \subseteq ActionIds
      /\ Sound(q.id, x, approved', performed)
  BY <1>1, <1>2, <1>3 DEF RequestInv, SameAction, Sound, Inv, TypeOK
<1> QED
  BY <1>1, <1>2, <1>3, <1>4, StoreStep

\* Writing the outcome of an execution.
LEMMA WriteExecutionInv ==
    ASSUME Inv, NEW r \in Requests, WriteExecution(r)
    PROVE  Inv'
<1>1. /\ requests[r].pc = "write" /\ requests[r].copy \in Action
      /\ RequestInv(requests[r], rows, approved, performed)
  BY DEF WriteExecution, Inv, TypeOK, RequestsInv, Request
<1>2. Store(r, requests[r].copy) /\ UNCHANGED <<approved, performed, redispatched>>
  BY DEF WriteExecution
<1>3. approved' \subseteq ActionIds
  BY <1>2 DEF Inv, TypeOK
<1> QED
  BY <1>1, <1>2, <1>3, StoreStep DEF RequestInv

\* A request that ends without a write.
LEMMA AbortInv ==
    ASSUME Inv, NEW r \in Requests, Abort(r)
    PROVE  Inv'
<1>1. RequestInv(Idle, rows, approved, performed')
  BY IdleIs DEF RequestInv
<1> QED
  BY <1>1, IdleIs, RequestStep DEF Abort, Inv, TypeOK

\* Every step preserves the invariant.
LEMMA NextInv == Inv /\ [Next]_vars => Inv'
<1> SUFFICES ASSUME Inv, [Next]_vars PROVE Inv'
  OBVIOUS
<1>1. CASE UNCHANGED vars
  BY <1>1 DEF vars, Inv, TypeOK, RowsSound, RequestsInv, RequestInv, PerformedPresent,
     OnlyPermittedPerformed
<1>2. CASE Next
  BY <1>2, CreateInv, ReadToApproveInv, ReadToExecuteInv, DispatchInv, WriteApprovalInv,
     WriteExecutionInv, AbortInv DEF Next
<1> QED
  BY <1>1, <1>2

-----------------------------------------------------------------------------

\* Every reachable state satisfies the invariant.
THEOREM Invariance == Spec => []Inv
BY InitInv, NextInv, PTL DEF Spec

\* Nothing is carried out without the mode, the correlation and, where the
\* policy wants one, the approval for it, however requests race.
THEOREM OnlyPermitted == Spec => []OnlyPermittedPerformed
<1>1. Inv => OnlyPermittedPerformed
  BY DEF Inv
<1> QED
  BY <1>1, Invariance, PTL

\* The policy and the dispatch context are two spellings of one gate on every
\* row that can be stored.
THEOREM GatesAreOne == Spec => []GatesAgree
<1>1. Inv => GatesAgree
  <2> SUFFICES ASSUME Inv, NEW a \in ActionIds, rows[a].class = "application",
                      rows[a].status # "absent", ~IsTerminalStatus(rows[a].status)
               PROVE  DispatchExecutable(rows[a]) <=> ~Refused(rows[a])
    BY DEF GatesAgree
  <2>1. rows[a].status = "disabled" => rows[a].mode = "disabled"
    BY DEF Inv, RowsSound, Sound
  <2> QED
    BY <2>1 DEF DispatchExecutable, Refused
<1> QED
  BY <1>1, Invariance, PTL

\* A retry that is stored as executed was carried out by the Control Panel,
\* whichever stale copy was written last.
THEOREM ExecutedIsTrue == Spec => []ExecutedWasPerformed
<1>1. Inv => ExecutedWasPerformed
  BY DEF Inv, RowsSound, Sound, ExecutedWasPerformed
<1> QED
  BY <1>1, Invariance, PTL

\* executed_at and the status tell the same, and no forbidden action says it
\* was executed.
THEOREM ExecutedIsConsistent == Spec => []ExecutedConsistent
<1>1. Inv => ExecutedConsistent
  BY DEF Inv, RowsSound, Sound, ExecutedConsistent
<1> QED
  BY <1>1, Invariance, PTL

-----------------------------------------------------------------------------
(* Local transitions.                                                        *)

\* The effects are what the state says was applied, in the order of their
\* revisions and fences.
EffectsTold ==
    /\ local.revision = Len(effects) + 1
    /\ local.fence \in Nat
    /\ local.applied = {effects[i] : i \in DOMAIN effects}
    /\ \A i \in DOMAIN effects :
         Valid(effects[i]) /\ effects[i].expected = i /\ effects[i].fence <= local.fence
    /\ \A i, j \in DOMAIN effects :
         i < j => effects[i].key # effects[j].key /\ effects[i].fence < effects[j].fence

\* The counters count them.
CountersTold ==
    /\ local.refreshes = Count("refresh_service_status")
    /\ local.diagnostics = Count("rerun_diagnostics")
    /\ local.stale <=> Count("clear_stale_warning") = 0

LocalInv == effects \in Seq(Transition) /\ EffectsTold /\ CountersTold

Tally(s, action) == Cardinality({i \in DOMAIN s : s[i].action = action})

\* An appended effect is counted once.
LEMMA TallyAppend ==
    ASSUME NEW s \in Seq(Transition), NEW t \in Transition, NEW action
    PROVE  /\ Tally(s, action) \in Nat
           /\ Tally(Append(s, t), action) = Tally(s, action) + One(t.action = action)
<1> DEFINE old == {i \in DOMAIN s : s[i].action = action}
           next == Append(s, t)
           new == {i \in DOMAIN next : next[i].action = action}
           n == Len(s) + 1
<1>1. /\ Len(s) \in Nat /\ DOMAIN s = 1 .. Len(s) /\ DOMAIN next = 1 .. n
      /\ \A i \in 1 .. n : next[i] = IF i = n THEN t ELSE s[i]
  OBVIOUS
<1>2. new = IF t.action = action THEN old \cup {n} ELSE old
  BY <1>1
<1>3. n \notin old
  BY <1>1
<1>4. IsFiniteSet(old)
  <2>1. 1 \in Int /\ Len(s) \in Int
    BY <1>1
  <2>2. IsFiniteSet(1 .. Len(s))
    BY <2>1, FS_Interval
  <2>3. old \in SUBSET (1 .. Len(s))
    BY <1>1
  <2> QED
    BY <2>2, <2>3, FS_Subset
<1>5. Cardinality(old) \in Nat
  BY <1>4, FS_CardinalityType
<1>6. Cardinality(old \cup {n}) = Cardinality(old) + 1
  BY <1>3, <1>4, FS_AddElement
<1> HIDE DEF old, new
<1>7. Cardinality(new) = Cardinality(old) + One(t.action = action)
  <2>1. CASE t.action = action
    BY <1>2, <1>6, <2>1 DEF One
  <2>2. CASE t.action # action
    BY <1>2, <1>5, <2>2 DEF One
  <2> QED
    BY <2>1, <2>2
<1> QED
  BY <1>5, <1>7 DEF old, new, Tally

\* Nothing has happened at first.
LEMMA LocalInitInv == LocalInit => LocalInv
<1> SUFFICES ASSUME LocalInit PROVE LocalInv
  OBVIOUS
<1>1. effects = <<>> /\ effects \in Seq(Transition) /\ Len(effects) = 0 /\ DOMAIN effects = {}
  BY DEF LocalInit
<1>2. \A action : Count(action) = 0
  BY <1>1, FS_EmptySet DEF Count
<1>3. EffectsTold
  BY <1>1 DEF LocalInit, EffectsTold
<1>4. CountersTold
  BY <1>2 DEF LocalInit, CountersTold
<1> QED
  BY <1>1, <1>3, <1>4 DEF LocalInv

\* A request that is carried out is one whose key is new, at the revision the
\* state is at, under a greater fence.
LEMMA OutcomeApplied ==
    ASSUME NEW s, NEW t, Outcome(s, t) = "applied"
    PROVE  Valid(t) /\ ~KeyUsed(s, t) /\ t.expected = s.revision /\ ~(t.fence <= s.fence)
BY DEF Outcome

\* A request preserves the invariant.
LEMMA LocalNextInv == LocalInv /\ [LocalNext]_localVars => LocalInv'
<1> SUFFICES ASSUME LocalInv, [LocalNext]_localVars PROVE LocalInv'
  OBVIOUS
<1>1. CASE UNCHANGED localVars
  BY <1>1 DEF localVars, LocalInv, EffectsTold, CountersTold, Count
<1>2. ASSUME NEW t \in Transition, Outcome(local, t) = "applied",
             local' = Applied(local, t), effects' = Append(effects, t)
      PROVE  LocalInv'
  <2> DEFINE n == Len(effects) + 1
  <2>1. Valid(t) /\ ~KeyUsed(local, t) /\ t.expected = local.revision /\ ~(t.fence <= local.fence)
    BY <1>2, OutcomeApplied
  <2>2. /\ effects \in Seq(Transition) /\ Len(effects) \in Nat /\ DOMAIN effects = 1 .. Len(effects)
        /\ effects' \in Seq(Transition) /\ DOMAIN effects' = 1 .. n /\ Len(effects') = n
        /\ \A i \in 1 .. n : effects'[i] = IF i = n THEN t ELSE effects[i]
    BY <1>2 DEF LocalInv
  <2>3. /\ local'.revision = local.revision + 1 /\ local'.fence = t.fence
        /\ local'.applied = local.applied \cup {t}
        /\ local'.refreshes = local.refreshes + One(t.action = "refresh_service_status")
        /\ local'.diagnostics = local.diagnostics + One(t.action = "rerun_diagnostics")
        /\ local'.stale = (local.stale /\ t.action # "clear_stale_warning")
    BY <1>2 DEF Applied
  <2>4. t.fence \in Nat /\ t.fence > local.fence /\ local.fence \in Nat
    BY <2>1, TransitionAssumption DEF LocalInv, EffectsTold, Transition
  <2>5. \A i \in 1 .. Len(effects) :
          /\ Valid(effects[i]) /\ effects[i].expected = i
          /\ effects[i].fence <= local.fence /\ effects[i].fence \in Nat
          /\ effects[i].key # t.key
    <3> SUFFICES ASSUME NEW i \in 1 .. Len(effects)
                 PROVE  /\ Valid(effects[i]) /\ effects[i].expected = i
                        /\ effects[i].fence <= local.fence /\ effects[i].fence \in Nat
                        /\ effects[i].key # t.key
      OBVIOUS
    <3>1. /\ Valid(effects[i]) /\ effects[i].expected = i /\ effects[i].fence <= local.fence
          /\ effects[i] \in local.applied
      BY <2>2 DEF LocalInv, EffectsTold
    <3>2. effects[i].key # t.key
      BY <2>1, <3>1 DEF KeyUsed
    <3>3. effects[i] \in Transition
      BY <2>2
    <3>4. effects[i].fence \in Nat
      BY <3>3, TransitionAssumption DEF Transition
    <3> QED
      BY <3>1, <3>2, <3>4
  <2>6. t.expected = n /\ local'.revision = n + 1
    BY <2>1, <2>2, <2>3 DEF LocalInv, EffectsTold
  <2>7. local'.applied = {effects'[i] : i \in DOMAIN effects'}
    <3>1. local.applied = {effects[i] : i \in 1 .. Len(effects)}
      BY <2>2 DEF LocalInv, EffectsTold
    <3>2. \A x : x \in local'.applied <=> \E i \in 1 .. n : effects'[i] = x
      <4>1. \A x : x \in local'.applied <=> x = t \/ \E i \in 1 .. Len(effects) : effects[i] = x
        BY <2>3, <3>1
      <4>2. \A i : i \in 1 .. n <=> i = n \/ i \in 1 .. Len(effects)
        BY <2>2
      <4>3. effects'[n] = t /\ \A i \in 1 .. Len(effects) : effects'[i] = effects[i]
        BY <2>2
      <4> HIDE DEF n
      <4> QED
        BY <4>1, <4>2, <4>3
    <3> QED
      BY <2>2, <3>2
  <2>8. \A i \in DOMAIN effects' :
          Valid(effects'[i]) /\ effects'[i].expected = i /\ effects'[i].fence <= local'.fence
    BY <2>1, <2>2, <2>3, <2>4, <2>5, <2>6
  <2>9. \A i, j \in DOMAIN effects' :
          i < j => effects'[i].key # effects'[j].key /\ effects'[i].fence < effects'[j].fence
    <3> SUFFICES ASSUME NEW i \in 1 .. n, NEW j \in 1 .. n, i < j
                 PROVE  effects'[i].key # effects'[j].key /\ effects'[i].fence < effects'[j].fence
      BY <2>2
    <3>1. i \in 1 .. Len(effects) /\ effects'[i] = effects[i]
      BY <2>2
    <3>2. CASE j = n
      BY <2>2, <2>4, <2>5, <3>1, <3>2
    <3>3. CASE j # n
      <4>1. j \in 1 .. Len(effects) /\ effects'[j] = effects[j]
        BY <2>2, <3>3
      <4> QED
        BY <2>2, <3>1, <4>1 DEF LocalInv, EffectsTold
    <3> QED
      BY <3>2, <3>3
  <2>10. EffectsTold'
    BY <2>2, <2>3, <2>4, <2>6, <2>7, <2>8, <2>9 DEF EffectsTold
  <2>11. \A action : /\ Count(action) \in Nat
                     /\ Count(action)' = Count(action) + One(t.action = action)
    <3> SUFFICES ASSUME NEW action
                 PROVE  /\ Count(action) \in Nat
                        /\ Count(action)' = Count(action) + One(t.action = action)
      OBVIOUS
    <3>1. /\ Tally(effects, action) \in Nat
          /\ Tally(effects', action) = Tally(effects, action) + One(t.action = action)
      BY <1>2, <2>2, TallyAppend
    <3> QED
      BY <3>1 DEF Count, Tally
  <2>12. CountersTold'
    <3>1. local'.refreshes = Count("refresh_service_status")'
      BY <2>3, <2>11 DEF LocalInv, CountersTold
    <3>2. local'.diagnostics = Count("rerun_diagnostics")'
      BY <2>3, <2>11 DEF LocalInv, CountersTold
    <3>3. local'.stale <=> Count("clear_stale_warning")' = 0
      <4>1. local.stale <=> Count("clear_stale_warning") = 0
        BY DEF LocalInv, CountersTold
      <4>2. /\ Count("clear_stale_warning") \in Nat
            /\ Count("clear_stale_warning")'
                 = Count("clear_stale_warning") + One(t.action = "clear_stale_warning")
        BY <2>11
      <4>3. Count("clear_stale_warning")' = 0
              <=> Count("clear_stale_warning") = 0 /\ t.action # "clear_stale_warning"
        BY <4>2 DEF One
      <4> QED
        BY <2>3, <4>1, <4>3
    <3> QED
      BY <3>1, <3>2, <3>3 DEF CountersTold
  <2> QED
    BY <2>2, <2>10, <2>12 DEF LocalInv
<1> QED
  BY <1>1, <1>2 DEF LocalNext, ApplyLocalTransition

\* Each key takes effect at most once and in order, the counters tell the
\* effects exactly, and a request that took effect is answered as a replay.
THEOREM LocalTransitionsApplyOnce == LocalSpec => []AppliedExactlyOnce
<1>1. LocalInv => AppliedExactlyOnce
  <2> SUFFICES ASSUME LocalInv PROVE AppliedExactlyOnce
    OBVIOUS
  <2>1. \A i \in DOMAIN effects : Outcome(local, effects[i]) = "replayed"
    <3> SUFFICES ASSUME NEW i \in DOMAIN effects PROVE Outcome(local, effects[i]) = "replayed"
      OBVIOUS
    <3>1. Valid(effects[i]) /\ effects[i] \in local.applied
      BY DEF LocalInv, EffectsTold
    <3>2. KeyUsed(local, effects[i])
      BY <3>1 DEF KeyUsed
    <3> QED
      BY <3>1, <3>2 DEF Outcome
  <2> QED
    BY <2>1 DEF LocalInv, EffectsTold, CountersTold, AppliedExactlyOnce
<1> QED
  BY <1>1, LocalInitInv, LocalNextInv, PTL DEF LocalSpec

=============================================================================
