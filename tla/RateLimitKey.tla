---------------------------- MODULE RateLimitKey ----------------------------
(***************************************************************************)
(* Which requests rateLimitSensitive counts, and in which bucket: the      *)
(* bucket is the method, the path with its id left out, and the client.    *)
(*                                                                         *)
(* A path is its collection, its id (NoPart for the collection itself) and *)
(* what follows the id.  "history" and the like are ids here: the code     *)
(* only looks at prefixes and suffixes.                                    *)
(***************************************************************************)
EXTENDS Naturals, Sequences, FiniteSetsExt

CONSTANTS
    NoPart,     \* the path has no such part
    AnyId,      \* the placeholder {id}
    Trusted,    \* the addresses OBSERVABILITY_TRUSTED_PROXIES covers
    Garbled     \* hops of X-Forwarded-For that are no address

\* Collections whose elements a GET may name.
GetById == {"incidents", "notification-channels", "remediation-actions"}

GetLists == GetById \cup {"signals", "metrics", "diagnostics", "notification-deliveries"}

PostLists == {"heartbeat", "signals", "notification-channels", "notification-events"}

\* Operations on one element, by collection.
PostOperations ==
    {<<"incidents", "acknowledge">>, <<"incidents", "resolve">>,
     <<"incidents", "diagnostics/rerun">>, <<"notification-channels", "test">>,
     <<"remediation-actions", "approve">>, <<"remediation-actions", "execute">>}

IsRateLimitedEndpoint(method, path) ==
    LET whole == path.id = NoPart IN
    \/ method = "GET" /\ whole /\ path.collection \in GetLists
    \/ method = "GET" /\ ~whole /\ path.collection \in GetById
    \/ method = "POST" /\ whole /\ path.collection \in PostLists
    \/ method = "POST" /\ ~whole /\ <<path.collection, path.operation>> \in PostOperations
    \/ method \in {"PUT", "DELETE"} /\ ~whole /\ path.collection = "notification-channels"

\* Below these every path of the method is one endpoint.
Flattened(method, path) ==
    \/ method = "GET" /\ path.collection \in {"incidents", "notification-channels"}
    \/ /\ method \in {"PUT", "DELETE"}
       /\ path.collection = "notification-channels"
       /\ path.operation # "test"

\* Mutant of RateLimitPath: the switch does not know the operations of a POST.
RateLimitPathByElement(method, path) ==
    IF path.id # NoPart /\ Flattened(method, path)
    THEN [path EXCEPT !.id = AnyId, !.operation = NoPart]
    ELSE path

\* The path with the id replaced; a path the switch does not know keeps it.
RateLimitPath(method, path) ==
    LET template == [path EXCEPT !.id = AnyId] IN
    CASE path.id = NoPart -> path
      [] path.id # NoPart /\ Flattened(method, path) -> [template EXCEPT !.operation = NoPart]
      [] path.id # NoPart /\ ~Flattened(method, path)
           /\ \/ <<path.collection, path.operation>> \in PostOperations
              \/ /\ method = "GET"
                 /\ path.collection = "remediation-actions"
                 /\ path.operation = "dispatch-context" -> template
      [] OTHER -> path

\* clientIP: from a trusted proxy, walk X-Forwarded-For from its end as long as
\* the address walked over is trusted.  A hop that is no address makes the proxy
\* itself the client, even when it stands left of the client.
ClientIP(remote, forwarded) ==
    LET hops == Append(forwarded, remote)
        stops == {i \in DOMAIN forwarded : forwarded[i] \in Garbled \/ hops[i + 1] \notin Trusted}
    IN CASE remote \notin Trusted \/ forwarded = <<>> -> remote
         [] remote \in Trusted /\ forwarded # <<>> /\ stops = {} -> hops[1]
         [] remote \in Trusted /\ forwarded # <<>> /\ stops # {} ->
              IF forwarded[Max(stops)] \in Garbled THEN remote ELSE hops[Max(stops) + 1]

RateLimitKey(method, path, caller) ==
    <<method, RateLimitPath(method, path), ClientIP(caller.remote, caller.forwarded)>>

-----------------------------------------------------------------------------

\* NoPart is neither an id nor an operation.
ASSUME PathAssumption ==
    NoPart \notin {"one", "two", AnyId, "dispatch-context"} \cup {o[2] : o \in PostOperations}

Endpoint(method, collection, id, operation) ==
    [method |-> method, path |-> [collection |-> collection, id |-> id, operation |-> operation]]

\* The sensitive routes of the mux, asked for with this id.
Routes(id) ==
    {Endpoint("GET", c, NoPart, NoPart) : c \in GetLists}
    \cup {Endpoint("POST", c, NoPart, NoPart) : c \in PostLists}
    \cup {Endpoint("GET", c, id, NoPart) : c \in {"incidents", "notification-channels"}}
    \cup {Endpoint("GET", "remediation-actions", id, "dispatch-context")}
    \cup {Endpoint("POST", o[1], id, o[2]) : o \in PostOperations}
    \cup {Endpoint(m, "notification-channels", id, NoPart) : m \in {"PUT", "DELETE"}}

Template(e) == IF e.path.id = NoPart THEN e ELSE [e EXCEPT !.path.id = AnyId]

\* Two requests of a client share a bucket exactly if they are of one route.
BucketsByRoute ==
    \A e \in Routes("one"), f \in Routes("two") :
        LET key(g) == RateLimitKey(g.method, g.path, [remote |-> "client", forwarded |-> <<>>]) IN
        /\ IsRateLimitedEndpoint(e.method, e.path)
        /\ key(e) = key(f) <=> Template(e) = Template(f)

=============================================================================
