----------------------------- MODULE MeshRouter -----------------------------
(***************************************************************************)
(* MeshRouter (mesh/router.py) of one node: evaluate_incoming on every     *)
(* packet its transport hands over, over the packet cache of Dedup, the    *)
(* per-sender rate limiter and the table of routes learned from traffic.   *)
(* A locally processed packet teaches its route a second time, later, from *)
(* the task that processes it (_process_packet_async).  What the returned  *)
(* RoutingDecision leads to in the mesh is the subject of MeshFlood.       *)
(*                                                                         *)
(* Identifiers are records of the fields that relaying keeps; the copies   *)
(* of a packet differ in ttl and in the address they come from.            *)
(***************************************************************************)
EXTENDS Dedup, MeshRules, Functions

CONSTANTS
  Self,           \* local_peer_id
  Senders,        \* peers that originate packets
  Addresses,      \* transport addresses of neighbours
  PeerAt,         \* address_to_peer_id: the peer behind each address
  Ttls,           \* ttl values of arriving copies
  MaxTtl,         \* MAX_TTL, 7
  RateLimit,      \* rate_limit_per_peer
  RateWindow,     \* the limiter's one second
  LimiterCap,     \* senders tracked before the limiter is pruned, 1000
  MaxRoutes,      \* max_routes
  RouteTtl,       \* route_ttl_seconds
  MaxTasks        \* bound: processing tasks that have not run yet

ASSUME RouterAssumption ==
  /\ Ids \subseteq [sender : Senders \cup {Self}, recipient : Senders \cup {Self, Broadcast}]
  /\ PeerAt \in [Addresses -> Senders]
  /\ {RateLimit, MaxRoutes} \subseteq Nat \ {0}
  /\ {MaxTtl, RateWindow, LimiterCap, RouteTtl, MaxTasks} \subseteq Nat /\ Ttls \subseteq Nat

VARIABLES
  routes,         \* _routes, in dictionary order
  limiter,        \* _rate_limiter: per sender, the recent admissions
  learning,       \* tasks that will learn a route while processing a packet
  admitted,       \* every time the limiter let a packet of a sender through
  heard           \* what accepted packets told: who was heard where, when

routerVars == <<routes, limiter, learning, admitted, heard>>
vars == <<dedupVars, routerVars>>

Route == [dest : Senders, hop : Addresses \cup Senders, hops : Nat, at : 0..MaxTime]

RouterTypeOK ==
  /\ DedupTypeOK
  /\ routes \in Seq(Route) /\ Len(routes) <= MaxRoutes
  /\ \A i, j \in DOMAIN routes : routes[i].dest = routes[j].dest => i = j
  /\ limiter \in [Senders -> Seq(0..MaxTime)]
  /\ \A s \in Senders : Len(limiter[s]) <= RateLimit

Init ==
  /\ DedupInit
  /\ routes = <<>>
  /\ limiter = [s \in Senders |-> <<>>]
  /\ learning = {}
  /\ admitted = [s \in Senders |-> <<>>]
  /\ heard = {}

-----------------------------------------------------------------------------
\* The rate limiter.  A sender without a list and one with an empty list are
\* treated alike.
Recent(stamps) == Picked(stamps, {i \in DOMAIN stamps : now - stamps[i] <= RateWindow})

\* prune_rate_limiter
PrunedLimiter ==
  [s \in Senders |-> IF limiter[s] # <<>> /\ now - Max(ToSet(limiter[s])) > RateWindow
                     THEN <<>> ELSE limiter[s]]

\* is_rate_limited's stamps: pruned first when too many senders are tracked.
Stamps ==
  IF Cardinality({s \in Senders : limiter[s] # <<>>}) > LimiterCap
  THEN PrunedLimiter ELSE limiter

IsRateLimited(s)   == Len(Recent(Stamps[s])) >= RateLimit

\* What is_rate_limited leaves behind, refusing or admitting.
ChargeLimiter(s) ==
  limiter' = [Stamps EXCEPT ![s] = IF IsRateLimited(s) THEN Recent(@)
                                   ELSE Append(Recent(@), now)]

-----------------------------------------------------------------------------
\* The routing table.
RouteValid(r) == now - r.at <= RouteTtl
PrunedRoutes  == Picked(routes, {i \in DOMAIN routes : RouteValid(routes[i])})

\* add_route's first part: room for one more, at the cost of expired routes
\* and then of the one updated longest ago.
RoomMade ==
  LET oldest == {i \in DOMAIN PrunedRoutes :
                   \A j \in DOMAIN PrunedRoutes : PrunedRoutes[i].at <= PrunedRoutes[j].at}
  IN  IF Len(routes) < MaxRoutes THEN routes
      ELSE IF Len(PrunedRoutes) < MaxRoutes THEN PrunedRoutes
      ELSE Picked(PrunedRoutes, DOMAIN PrunedRoutes \ {Min(oldest)})

\* add_route's second part: a valid, strictly shorter route stays.
AddRouteAlways(r) ==
  LET rs   == RoomMade
      same == {i \in DOMAIN rs : rs[i].dest = r.dest}
  IN  IF same = {} THEN Append(rs, r)
      ELSE [i \in DOMAIN rs |-> IF i \in same THEN r ELSE rs[i]]
AddRoute(r) ==
  LET rs   == RoomMade
      same == {i \in DOMAIN rs : rs[i].dest = r.dest}
  IN  IF same = {} THEN Append(rs, r)
      ELSE [i \in DOMAIN rs |->
             IF i \in same /\ ~(RouteValid(rs[i]) /\ rs[i].hops < r.hops) THEN r ELSE rs[i]]

HopCount(ttl) == IF ttl <= MaxTtl THEN Max({1, MaxTtl - ttl + 1}) ELSE 1

-----------------------------------------------------------------------------
\* evaluate_incoming
DropOwn(pkt) ==
  /\ pkt.sender = Self
  /\ UNCHANGED <<dedupVars, routes, limiter, learning, admitted, heard>>

DropLimited(pkt) ==
  /\ pkt.sender # Self /\ IsRateLimited(pkt.sender)
  /\ ChargeLimiter(pkt.sender)
  /\ UNCHANGED <<dedupVars, routes, learning, admitted, heard>>

Admit(pkt) ==
  /\ pkt.sender # Self /\ ~IsRateLimited(pkt.sender)
  /\ ChargeLimiter(pkt.sender)
  /\ admitted' = [admitted EXCEPT ![pkt.sender] = Append(@, now)]

\* A duplicate that still teaches its path: what the early return prevents.
DuplicateTeaches(pkt, ttl) ==
  /\ Admit(pkt)
  /\ ttl <= 0 \/ IsIdDuplicate(pkt)
  /\ \E from \in Addresses :
       routes' = AddRoute([dest |-> pkt.sender, hop |-> from, hops |-> HopCount(ttl), at |-> now])
  /\ UNCHANGED <<dedupVars, learning, heard>>

DropDeadOrDuplicate(pkt, ttl) ==
  /\ Admit(pkt)
  /\ ttl <= 0 \/ IsIdDuplicate(pkt)
  /\ UNCHANGED <<dedupVars, routes, learning, heard>>

Accept(pkt, ttl, from) ==
  LET news == [dest |-> pkt.sender, hop |-> from, hops |-> HopCount(ttl), at |-> now]
  IN  /\ Admit(pkt)
      /\ ttl > 0 /\ RecordNew(pkt)
      /\ routes' = AddRoute(news)
      /\ heard' = heard \cup {news}
      /\ learning' = IF ForUs(Self, pkt) THEN learning \cup {news} ELSE learning
      /\ UNCHANGED <<now, setBack>>

\* The processing task learns the same route again, under the neighbour's peer
\* ID when the coordinator knows who is behind the address.
ProcessTask(task) ==
  \E hop \in {task.hop, PeerAt[task.hop]} :
    LET news == [task EXCEPT !.hop = hop, !.at = now]
    IN  /\ learning' = learning \ {task}
        /\ routes' = AddRoute(news)
        /\ heard' = heard \cup {news}
        /\ UNCHANGED <<dedupVars, limiter, admitted>>

\* get_next_hop discards the expired route it finds.
GetNextHop(dest) ==
  /\ routes' = Picked(routes, {i \in DOMAIN routes : routes[i].dest # dest \/ RouteValid(routes[i])})
  /\ UNCHANGED <<dedupVars, limiter, learning, admitted, heard>>

\* _send_packet and _broadcast_packet record what the node itself sends.
SendOwn(pkt) ==
  /\ pkt.sender = Self /\ Record(pkt)
  /\ UNCHANGED <<now, setBack, routerVars>>

\* prune_caches
PruneCaches ==
  /\ entries' = PrunedEntries
  /\ routes' = PrunedRoutes
  /\ limiter' = PrunedLimiter
  /\ UNCHANGED <<now, log, setBack, learning, admitted, heard>>

Tick == SetClock /\ UNCHANGED <<entries, log, routerVars>>

\* Bound: records, packets admitted from one sender, tasks waiting to run.
InBounds ==
  /\ Len(log) < MaxLog /\ \A s \in Senders : Len(admitted[s]) < MaxLog
  /\ Cardinality(learning) < MaxTasks

Next ==
  \/ /\ InBounds
     /\ \E pkt \in Ids, ttl \in Ttls, from \in Addresses :
          \/ DropOwn(pkt)
          \/ DropLimited(pkt)
          \/ DropDeadOrDuplicate(pkt, ttl)
          \/ Accept(pkt, ttl, from)
  \/ InBounds /\ \E pkt \in Ids : SendOwn(pkt)
  \/ \E task \in learning : ProcessTask(task)
  \/ \E dest \in Senders : GetNextHop(dest)
  \/ PruneCaches
  \/ Tick

Spec == Init /\ [][Next]_vars

-----------------------------------------------------------------------------
\* RateBound: in no RateWindow are more than RateLimit packets of one sender
\* let through, although pruning and refusals rewrite the limiter's lists,
\* while the clock is not set back.
RateBound ==
  ~setBack => \A s \in Senders : \A i \in DOMAIN admitted[s] :
    i + RateLimit \in DOMAIN admitted[s]
      => admitted[s][i + RateLimit] - admitted[s][i] > RateWindow

\* RoutesWitnessed: every route in the table was told by a packet that the node
\* accepted from that sender, over that neighbour, at that distance and time;
\* duplicates, refused and looped-back packets teach nothing.
RoutesWitnessed == ToSet(routes) \subseteq heard

\* ShorterRouteWithRoom: while the table has room, a valid route gives way only
\* to one that is no longer, whichever of the two learning paths offers it.  With
\* a full table the route to compare with may be the one evicted for room.
ShorterRouteWithRoom ==
  [][\A r \in ToSet(routes), n \in ToSet(routes') :
       Len(routes) < MaxRoutes /\ RouteValid(r) /\ n.dest = r.dest => n.hops <= r.hops]_vars

\* RouterSafe: the rate limit holds over every window, and every route was told by a
\* packet that the node accepted.
RouterSafe == RouterTypeOK /\ RateBound /\ RoutesWitnessed
=============================================================================
