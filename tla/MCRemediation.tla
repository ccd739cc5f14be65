---------------------------- MODULE MCRemediation ----------------------------
(* The actions and their handlers, and the local transitions: two parts of  *)
(* the remediation boundary that share no state, looked at one at a time.   *)
EXTENDS Remediation, LocalTransition, TLC

VARIABLE part

Symmetry == Permutations(Requests)

PartsInit ==
    /\ part \in {"actions", "local"}
    /\ Init
    /\ part = "local" => rows = [a \in ActionIds |-> NoAction]
    /\ LocalInit

PartsNext ==
    \/ part = "actions" /\ Next /\ UNCHANGED <<localVars, part>>
    \/ part = "local" /\ LocalNext /\ UNCHANGED <<vars, part>>

PartsSpec == PartsInit /\ [][PartsNext]_<<vars, localVars, part>>

=============================================================================
