--------------------------- MODULE LocalTransition ---------------------------
(***************************************************************************)
(* ApplyLocalTransition: the transitions Observability may make on itself, *)
(* as a compare-and-swap on a revision, with a fence and an idempotency    *)
(* key.  Its caller is external: it sends requests in any order and again  *)
(* when it has no answer, and the owner of the state persists what the     *)
(* function returns, atomically, or dies before it has.                    *)
(*                                                                         *)
(* A request stands for its digest: all its fields go into that.           *)
(***************************************************************************)
EXTENDS Naturals, Sequences, FiniteSets

CONSTANTS
    TransitionKeys,  \* idempotency keys
    MaxFence         \* bound on the fences callers use

ASSUME TransitionAssumption == MaxFence \in Nat

VARIABLES
    local,   \* LocalTransitionState
    effects  \* history: the requests that were carried out, in order

localVars == <<local, effects>>

LocalActions == {"refresh_service_status", "rerun_diagnostics", "clear_stale_warning"}

Transition == [action   : LocalActions \cup {"restart_host"},
               expected : 0 .. Cardinality(TransitionKeys) + 1,
               fence    : 0 .. MaxFence,
               key      : TransitionKeys]

LocalInit ==
    /\ local = [revision |-> 1, fence |-> 0, refreshes |-> 0, diagnostics |-> 0, stale |-> TRUE,
                applied |-> {}]
    /\ effects = <<>>

Valid(t) == t.action \in LocalActions /\ t.expected >= 1 /\ t.fence >= 1

KeyUsed(state, t) == \E s \in state.applied : s.key = t.key

\* Mutant of Outcome: the revision is compared before the key is looked up.
OutcomeByRevision(state, t) ==
    CASE ~Valid(t) -> "invalid"
      [] Valid(t) /\ t.expected # state.revision -> "revision conflict"
      [] Valid(t) /\ t.expected = state.revision /\ KeyUsed(state, t)
           -> IF t \in state.applied THEN "replayed" ELSE "idempotency conflict"
      [] OTHER -> IF t.fence <= state.fence THEN "stale fence" ELSE "applied"

\* The answer: the key decides first, then the revision, then the fence.
Outcome(state, t) ==
    CASE ~Valid(t) -> "invalid"
      [] Valid(t) /\ KeyUsed(state, t)
           -> IF t \in state.applied THEN "replayed" ELSE "idempotency conflict"
      [] OTHER -> IF t.expected # state.revision THEN "revision conflict"
                  ELSE IF t.fence <= state.fence THEN "stale fence"
                  ELSE "applied"

One(condition) == IF condition THEN 1 ELSE 0

\* The state that is returned with it.
Applied(state, t) ==
    [revision    |-> state.revision + 1,
     fence       |-> t.fence,
     refreshes   |-> state.refreshes + One(t.action = "refresh_service_status"),
     diagnostics |-> state.diagnostics + One(t.action = "rerun_diagnostics"),
     stale       |-> state.stale /\ t.action # "clear_stale_warning",
     applied     |-> state.applied \cup {t}]

\* A request arrives and the owner persists the returned state; every other
\* answer leaves the state as it is.
ApplyLocalTransition(t) ==
    \/ /\ Outcome(local, t) = "applied"
       /\ local' = Applied(local, t)
       /\ effects' = Append(effects, t)
    \/ /\ Outcome(local, t) # "applied"
       /\ UNCHANGED localVars

LocalNext == \E t \in Transition : ApplyLocalTransition(t)

LocalSpec == LocalInit /\ [][LocalNext]_localVars

Count(action) == Cardinality({i \in DOMAIN effects : effects[i].action = action})

\* Whatever is sent, and however often and late: each key has taken effect at
\* most once, under rising fences, one revision after the other; the counters
\* tell exactly these effects; and a request that was carried out is answered
\* as a replay for ever, so that a caller without an answer learns of its
\* success by asking again.
AppliedExactlyOnce ==
    /\ \A i, j \in DOMAIN effects :
         i < j => effects[i].key # effects[j].key /\ effects[i].fence < effects[j].fence
    /\ \A i \in DOMAIN effects : effects[i].expected = i /\ Outcome(local, effects[i]) = "replayed"
    /\ local.revision = Len(effects) + 1
    /\ local.refreshes = Count("refresh_service_status")
    /\ local.diagnostics = Count("rerun_diagnostics")
    /\ local.stale <=> Count("clear_stale_warning") = 0

=============================================================================
