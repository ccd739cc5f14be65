--------------------------- MODULE MCMariaIncidents ---------------------------
(* MariaIncidents for TLC: requests and row ids are interchangeable.         *)
EXTENDS MariaIncidents, TLC

Symmetry == Permutations(IncidentIds) \cup Permutations(Requests)

=============================================================================
