---------------------------- MODULE LanDiscovery ----------------------------
(***************************************************************************)
(* LANDiscovery (network/discovery.py) of one node: the registry of peers  *)
(* heard through UDP beacons, the limiter per sender address, identity     *)
(* changes and pruning.  A beacon is what DiscoveryPacket.from_bytes       *)
(* accepts: a peer ID, the nickname and SSID (one value, meta), the port   *)
(* and the instance; its endpoint joins the address it came from and the   *)
(* port.  Sockets and loops belong to LanTransport.                        *)
(***************************************************************************)
EXTENDS Picking, FiniteSetsExt, SequencesExt

CONSTANTS
  DiscPeers,      \* peer IDs heard in beacons, our own ones included
  DiscIds,        \* our own peer IDs over time
  DiscIps,        \* sender addresses; "home" is local, "loop" is loopback
  DiscPorts,      \* announced TCP ports
  DiscMetas,      \* nickname and SSID
  OwnPort,        \* listening_port
  BeaconInterval, \* broadcast_interval
  DiscMaxAge,     \* max_age of prune_stale_peers
  DiscRate,       \* MAX_DISCOVERY_RATE_PER_IP
  DiscWindow,     \* the limiter's one second
  DiscTrackedIps, \* addresses tracked before the limiter is pruned, 256
  DiscMaxTime,    \* bound: readings of the clock
  DiscMaxBeacons  \* bound: datagrams let through the limiter

ASSUME DiscAssumption ==
  /\ DiscIds \subseteq DiscPeers /\ DiscIds # {}
  /\ {BeaconInterval, DiscMaxAge, DiscRate} \subseteq Nat \ {0}
  /\ {DiscWindow, DiscTrackedIps, DiscMaxTime, DiscMaxBeacons} \subseteq Nat

VARIABLES
  discNow,        \* time.time()
  localId,        \* local_peer_id
  formerIds,      \* _previous_peer_ids
  registry,       \* _discovered_peers: records with their endpoint as addr
  ipLimiter,      \* _rate_limiter
  told,           \* history: what on_peer_discovered last said of each peer
  letThrough      \* history: when beacons of each address were let through

discVars == <<discNow, localId, formerIds, registry, ipLimiter, told, letThrough>>

Endpoint == DiscIps \X DiscPorts
Known == [addr : Endpoint, peer : DiscPeers, meta : DiscMetas, seen : 0..DiscMaxTime]

DiscTypeOK ==
  /\ discNow \in 0..DiscMaxTime /\ localId \in DiscIds /\ formerIds \subseteq DiscIds
  /\ registry \subseteq Known
  /\ ipLimiter \in [DiscIps -> Seq(0..DiscMaxTime)]
  \* The limiter keeps no more than it needs of an address.
  /\ \A ip \in DiscIps : Len(ipLimiter[ip]) <= DiscRate

DiscInit ==
  /\ discNow = 0
  /\ localId = CHOOSE i \in DiscIds : TRUE
  /\ formerIds = {} /\ registry = {} /\ told = {}
  /\ ipLimiter = [ip \in DiscIps |-> <<>>]
  /\ letThrough = [ip \in DiscIps |-> <<>>]

-----------------------------------------------------------------------------
\* The limiter: prune_rate_limiter and _is_rate_limited.
PrunedIps ==
  [ip \in DiscIps |-> IF ipLimiter[ip] # <<>> /\ discNow - Last(ipLimiter[ip]) > DiscWindow
                      THEN <<>> ELSE ipLimiter[ip]]
Tracked ==
  IF Cardinality({ip \in DiscIps : ipLimiter[ip] # <<>>}) > DiscTrackedIps
  THEN PrunedIps ELSE ipLimiter
RecentFrom(ip) ==
  Picked(Tracked[ip], {i \in DOMAIN Tracked[ip] : discNow - Tracked[ip][i] <= DiscWindow})

IpRateLimited(ip) == Len(RecentFrom(ip)) >= DiscRate

ChargeIp(ip) ==
  /\ ipLimiter' = [Tracked EXCEPT ![ip] = IF IpRateLimited(ip) THEN RecentFrom(ip)
                                          ELSE Append(RecentFrom(ip), discNow)]
  /\ letThrough' = IF IpRateLimited(ip) THEN letThrough
                   ELSE [letThrough EXCEPT ![ip] = Append(@, discNow)]

-----------------------------------------------------------------------------
\* The beacons _process_incoming_packet ignores: our own under the present or
\* a former identity or instance, and those of the loopback interface.
OwnBeacon(b) ==
  \/ b.peer = localId \/ b.peer \in formerIds \/ b.own
  \/ b.ip \in {"home", "loop"} /\ b.port = OwnPort
  \/ b.ip = "loop"

Elsewhere(b) == {r \in registry : r.peer = b.peer /\ r.addr # <<b.ip, b.port>>}
AtEndpoint(b) == {r \in registry : r.addr = <<b.ip, b.port>>}
RecordOf(b) == [addr |-> <<b.ip, b.port>>, peer |-> b.peer, meta |-> b.meta, seen |-> discNow]

\* The peer restarted on another port, or moved and went unheard for a while.
Moved(b, prior) == prior.addr[1] = b.ip \/ discNow - prior.seen > 2 * BeaconInterval

\* Each of the ways the registry takes a beacon, as the registry that results.
AddBesides(b) == registry \cup {RecordOf(b)}
Rekeyed(b) == (registry \ (Elsewhere(b) \cup AtEndpoint(b))) \cup {RecordOf(b)}
Refreshed(b, prior) ==
  (registry \ {prior}) \cup {[prior EXCEPT !.seen = discNow, !.meta = b.meta]}
Replaced(b) == (registry \ AtEndpoint(b)) \cup {RecordOf(b)}

NewRegistry(b) ==
  IF Elsewhere(b) # {}
  THEN LET prior == CHOOSE r \in Elsewhere(b) : TRUE
       IN  IF Moved(b, prior) THEN Rekeyed(b) ELSE Refreshed(b, prior)
  ELSE Replaced(b)

\* on_peer_discovered fires for a record that is new or differs by more than
\* the time it was seen.
Identity(r) == [addr |-> r.addr, peer |-> r.peer, meta |-> r.meta]
Report(b, new) ==
  LET fresh == {Identity(r) : r \in new} \ {Identity(r) : r \in registry}
  IN  told' = {t \in told : \A f \in fresh : f.peer # t.peer} \cup fresh

\* _process_incoming_packet.
Beacon(b) ==
  /\ ChargeIp(b.ip)
  /\ IF IpRateLimited(b.ip) \/ OwnBeacon(b)
     THEN UNCHANGED <<registry, told>>
     ELSE /\ registry' = NewRegistry(b)
          /\ Report(b, NewRegistry(b))
  /\ UNCHANGED <<discNow, localId, formerIds>>

\* A datagram from_bytes rejects still counts against its sender.
Malformed(ip) ==
  /\ ChargeIp(ip)
  /\ UNCHANGED <<discNow, localId, formerIds, registry, told>>

\* prune_stale_peers, from the broadcast loop.
PruneStale ==
  /\ registry' = {r \in registry : discNow - r.seen <= DiscMaxAge}
  /\ ipLimiter' = PrunedIps
  /\ UNCHANGED <<discNow, localId, formerIds, told, letThrough>>

\* update_identity: another identity forgets everybody.
UpdateIdentity(id) ==
  /\ localId' = id
  /\ IF id # localId
     THEN formerIds' = formerIds \cup {localId} /\ registry' = {}
     ELSE UNCHANGED <<formerIds, registry>>
  /\ UNCHANGED <<discNow, ipLimiter, told, letThrough>>

\* clear, and the part of stop that concerns the registry.
ClearRegistry ==
  /\ registry' = {}
  /\ UNCHANGED <<discNow, localId, formerIds, ipLimiter, told, letThrough>>

DiscTick ==
  /\ discNow' \in (discNow + 1)..DiscMaxTime
  /\ UNCHANGED <<localId, formerIds, registry, ipLimiter, told, letThrough>>

DiscInBounds == MapThenSumSet(LAMBDA ip : Len(letThrough[ip]), DiscIps) < DiscMaxBeacons

DiscNext ==
  \/ \E ip \in DiscIps, port \in DiscPorts, p \in DiscPeers, m \in DiscMetas, own \in BOOLEAN :
       /\ DiscInBounds /\ (own => p \in DiscIds)
       /\ Beacon([ip |-> ip, port |-> port, peer |-> p, meta |-> m, own |-> own])
  \/ \E ip \in DiscIps : DiscInBounds /\ Malformed(ip)
  \/ PruneStale
  \/ \E id \in DiscIds : UpdateIdentity(id)
  \/ ClearRegistry
  \/ DiscTick

DiscSpec == DiscInit /\ [][DiscNext]_discVars

-----------------------------------------------------------------------------
\* OneRecordPerPeer: "The registry holds at most one record per canonical peer
\* ID" (discovery.py), and one per endpoint, however peers move, restart on
\* another port or take over each other's endpoint.
OneRecordPerPeer ==
  \A r, s \in registry : (r.peer = s.peer \/ r.addr = s.addr) => r = s

\* NeverSelf: no record is this node, under any identity it has or had.
NeverSelf == \A r \in registry : r.peer # localId /\ r.peer \notin formerIds

\* ListenersCurrent: what on_peer_discovered last said of a registered peer is
\* what the registry holds: no change of endpoint or name goes unreported.
ListenersCurrent == \A r \in registry : Identity(r) \in told

\* BeaconRate: no more than DiscRate beacons of one address are processed in a
\* window, whatever pruning does to the limiter.
BeaconRate ==
  \A ip \in DiscIps : \A i \in DOMAIN letThrough[ip] :
    i + DiscRate \in DOMAIN letThrough[ip]
      => letThrough[ip][i + DiscRate] - letThrough[ip][i] > DiscWindow

\* DiscSafe: the registry has one record per peer and none of this node, listeners
\* know what it holds, and no address gets more beacons in than its rate.
DiscSafe == DiscTypeOK /\ OneRecordPerPeer /\ NeverSelf /\ ListenersCurrent /\ BeaconRate
=============================================================================
