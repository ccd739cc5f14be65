---------------------------- MODULE MCRateLimit ----------------------------
(* Two clients, a and b, directly or behind a proxy, ask for incidents.    *)
EXTENDS RateLimit, TLC

MCEndpoints == {Endpoint("GET", "incidents", id, NoPart) : id \in {"i1", "i2"}}

MCCallers == {[remote |-> "a",     forwarded |-> <<>>],
              [remote |-> "proxy", forwarded |-> <<"a">>],
              [remote |-> "proxy", forwarded |-> <<"c", "b">>],
              [remote |-> "proxy", forwarded |-> <<"b", "proxy">>]}

Symmetry == Permutations(Requests)

=============================================================================
