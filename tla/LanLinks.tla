------------------------------ MODULE LanLinks ------------------------------
(***************************************************************************)
(* The TCP connections between two LAN nodes: dialling (connect_peer),     *)
(* accepting (LANServer._handle_client), deduplication when a connection   *)
(* is accepted and when a packet tells who is at its other end, and the    *)
(* asynchronous close of LANConnection, whose callback finds the           *)
(* connection by address (network/transport.py, server.py, connection.py). *)
(*                                                                         *)
(* Node 1 has the lower peer ID.  A node knows an outbound connection by   *)
(* the other's listening endpoint (Listening) and an inbound one by an      *)
(* ephemeral address, for which the number of the connection stands.       *)
(***************************************************************************)
EXTENDS Integers, FiniteSets, FiniteSetsExt

CONSTANTS
  MaxLinks,       \* bound: connections dialled
  MaxConnections, \* max_connections
  KeepsBlind,     \* nodes whose own ID is lower than the address of the other,
                  \* with which it is compared until the other's ID is known
  MaxBreaks       \* bound: connections the network breaks or users close

ASSUME LinksAssumption ==
  /\ MaxLinks \in Nat \ {0} /\ MaxConnections \in Nat \ {0} /\ MaxBreaks \in Nat
  /\ KeepsBlind \subseteq {1, 2}

Nodes == {1, 2}
Other(n) == 3 - n
LinkIds == 1..MaxLinks
NoLink == 0
Listening == 0
Addresses == {Listening} \cup LinkIds

VARIABLES
  dialer,         \* who dialled each connection; 0: not dialled yet
  ends,           \* LANConnection of each node: none, connecting, ready, closing, closed
  wired,          \* inbound connections whose callbacks the transport took over
  doomed,         \* per node, connections for which a close task was spawned
  byAddress,      \* _connections
  byPeer,         \* _peer_connections, under "peer" or "ip" of the other node
  discovered,     \* does discovery know the other node's peer ID?
  lanState,       \* TransportState
  breaks,         \* history: connections broken, disconnected or not established
  heard,          \* history: connections each node processed a packet of, since it
                  \* last listed one of them anew
  displaced       \* history: connections unlisted while being dialled, by a disconnect
                  \* or by a second connect_peer to the same address, and those
                  \* unlisted by the close of an older one at their address

linkVars == <<dialer, ends, wired, doomed, byAddress, byPeer, discovered, lanState, breaks, displaced, heard>>

LinksTypeOK ==
  /\ dialer \in [LinkIds -> {0} \cup Nodes]
  /\ ends \in [LinkIds -> [Nodes -> {"none", "connecting", "ready", "closing", "closed"}]]
  /\ wired \subseteq LinkIds /\ doomed \in [Nodes -> SUBSET LinkIds]
  /\ byAddress \in [Nodes -> [Addresses -> {NoLink} \cup LinkIds]]
  /\ byPeer \in [Nodes -> [{"peer", "ip"} -> {NoLink} \cup LinkIds]]
  /\ discovered \in [Nodes -> BOOLEAN]
  /\ lanState \in [Nodes -> {"SCANNING", "READY", "CONNECTING", "CONNECTED"}]
  /\ breaks \in 0..MaxBreaks /\ displaced \subseteq LinkIds
  /\ heard \in [Nodes -> SUBSET LinkIds]
  \* A node that says it is connecting has a dial under way.
  /\ \A n \in Nodes : lanState[n] = "CONNECTING" => \E c \in LinkIds : dialer[c] = n /\ ends[c][n] \in {"connecting", "closing"}

LinksInit ==
  /\ dialer = [c \in LinkIds |-> 0]
  /\ ends = [c \in LinkIds |-> [n \in Nodes |-> "none"]]
  /\ wired = {} /\ doomed = [n \in Nodes |-> {}]
  /\ byAddress = [n \in Nodes |-> [a \in Addresses |-> NoLink]]
  /\ byPeer = [n \in Nodes |-> [k \in {"peer", "ip"} |-> NoLink]]
  /\ discovered = [n \in Nodes |-> FALSE]
  /\ lanState = [n \in Nodes |-> "SCANNING"]
  /\ breaks = 0 /\ displaced = {} /\ heard = [n \in Nodes |-> {}]

-----------------------------------------------------------------------------
Inbound(n, c) == dialer[c] # n
AddressOf(n, c) == IF Inbound(n, c) THEN c ELSE Listening
IsReady(n, c) == c # NoLink /\ ends[c][n] = "ready"
Dialling(n, a) == {c \in {byAddress[n][a]} \ {NoLink} : ends[c][n] = "connecting"}
PeerKey(n) == IF discovered[n] THEN "peer" ELSE "ip"
Entries(n) == {a \in Addresses : byAddress[n][a] # NoLink}

\* _should_keep_outbound, when the other's ID is known and when it is not.
KeepOutbound(n, known) == IF known THEN n < Other(n) ELSE n \in KeepsBlind

\* _find_existing_connection: by address, by peer, by host.
Existing(n, a) ==
  IF IsReady(n, byAddress[n][a]) THEN {byAddress[n][a]}
  ELSE IF IsReady(n, byPeer[n][PeerKey(n)]) THEN {byPeer[n][PeerKey(n)]}
  ELSE {c \in {byAddress[n][b] : b \in Entries(n)} : IsReady(n, c)}

\* _remove_connection_references, and the entries made for a connection.
Unlisted(table, c) == [a \in DOMAIN table |-> IF table[a] = c THEN NoLink ELSE table[a]]
Listed(n, drop, a, c) ==
  /\ byAddress' = [byAddress EXCEPT ![n] = [Unlisted(@, drop) EXCEPT ![a] = c]]
  /\ byPeer' = [byPeer EXCEPT ![n] = [Unlisted(@, drop) EXCEPT ![PeerKey(n)] = c]]
Forget(n, c) ==
  /\ byAddress' = [byAddress EXCEPT ![n] = Unlisted(@, c)]
  /\ byPeer' = [byPeer EXCEPT ![n] = Unlisted(@, c)]

\* The state after a connection ended: is any peer still connected?
RestState(n) ==
  IF \E a \in Addresses : byAddress'[n][a] # NoLink /\ ends'[byAddress'[n][a]][n] = "ready"
  THEN lanState[n] ELSE "SCANNING"

-----------------------------------------------------------------------------
\* connect_peer finds a connection to use, and lists it under the new address.
Reuse(n) ==
  \E c \in Existing(n, Listening) :
    /\ Listed(n, NoLink, Listening, c)
    /\ lanState' = [lanState EXCEPT ![n] = "CONNECTED"]
    /\ displaced' = displaced \cup Dialling(n, Listening)
    /\ heard' = [heard EXCEPT ![n] = {}]
    /\ UNCHANGED <<dialer, ends, wired, doomed, discovered, breaks>>

\* connect_peer at the limit of connections.
DialRefused(n) ==
  /\ Existing(n, Listening) = {} /\ Cardinality(Entries(n)) >= MaxConnections
  /\ lanState' = [lanState EXCEPT ![n] = IF Entries(n) # {} THEN "CONNECTED" ELSE "READY"]
  /\ UNCHANGED <<dialer, ends, wired, doomed, byAddress, byPeer, discovered, breaks, displaced, heard>>

\* connect_peer opens a connection; a dial in progress does not prevent it.
Dial(n) ==
  /\ Existing(n, Listening) = {} /\ Cardinality(Entries(n)) < MaxConnections
  /\ \E c \in LinkIds :
       /\ dialer[c] = 0 /\ \A d \in LinkIds : d < c => dialer[d] # 0
       /\ dialer' = [dialer EXCEPT ![c] = n]
       /\ ends' = [ends EXCEPT ![c][n] = "connecting"]
       /\ Listed(n, NoLink, Listening, c)
  /\ displaced' = displaced \cup Dialling(n, Listening)
  /\ lanState' = [lanState EXCEPT ![n] = "CONNECTING"]
  /\ UNCHANGED <<wired, doomed, discovered, breaks, heard>>

DialReady(n, c) ==
  /\ dialer[c] = n /\ ends[c][n] = "connecting"
  /\ ends' = [ends EXCEPT ![c][n] = "ready"]
  /\ lanState' = [lanState EXCEPT ![n] = "CONNECTED"]
  /\ UNCHANGED <<dialer, wired, doomed, byAddress, byPeer, discovered, breaks, displaced, heard>>

\* Nobody accepts: the exception path of connect_peer.
FailedState(n) == "SCANNING"
DialFails(n, c) ==
  /\ dialer[c] = n /\ ends[c] = [m \in Nodes |-> IF m = n THEN "connecting" ELSE "none"]
  /\ breaks < MaxBreaks /\ breaks' = breaks + 1
  /\ ends' = [ends EXCEPT ![c] = [m \in Nodes |-> "closed"]]
  /\ Forget(n, c)
  /\ lanState' = [lanState EXCEPT ![n] = FailedState(n)]
  /\ UNCHANGED <<dialer, wired, doomed, discovered, displaced, heard>>

\* The limit of the server, which closes the socket, and of the transport.
ServerFull(n) ==
  Cardinality({d \in LinkIds : dialer[d] = Other(n) /\ ends[d][n] \in {"ready", "closing"}})
    >= MaxConnections
TransportFull(n) == Cardinality(Entries(n)) >= MaxConnections
AcceptRefused(n, c) ==
  /\ ends' = [ends EXCEPT ![c][n] = IF ServerFull(n) THEN "closed" ELSE "ready"]
  /\ doomed' = [doomed EXCEPT ![n] = IF ServerFull(n) THEN @ ELSE @ \cup {c}]
  /\ UNCHANGED <<wired, byAddress, byPeer, lanState>>

\* _handle_inbound_connection keeps the connection that is there.
AlwaysDrops(n, old) == TRUE
DropsInbound(n, old) == ~Inbound(n, old) => KeepOutbound(n, discovered[n])
AcceptDropped(n, c, old) ==
  /\ DropsInbound(n, old)
  /\ ends' = [ends EXCEPT ![c][n] = "ready"]
  /\ doomed' = [doomed EXCEPT ![n] = @ \cup {c}]
  /\ UNCHANGED <<wired, byAddress, byPeer, lanState>>

\* It keeps the accepted one, dropping the other if there is one.
AcceptKept(n, c, old) ==
  /\ old # NoLink => ~DropsInbound(n, old)
  /\ ends' = [ends EXCEPT ![c][n] = "ready"]
  /\ doomed' = [doomed EXCEPT ![n] = @ \cup ({old} \ {NoLink})]
  /\ wired' = wired \cup {c}
  /\ Listed(n, old, c, c)
  /\ lanState' = [lanState EXCEPT ![n] = "CONNECTED"]

Accept(n, c) ==
  /\ dialer[c] = Other(n) /\ ends[c][n] = "none"
  /\ IF ServerFull(n) \/ TransportFull(n) THEN AcceptRefused(n, c)
     ELSE \E old \in IF Existing(n, c) = {} THEN {NoLink} ELSE Existing(n, c) :
            (old # NoLink /\ AcceptDropped(n, c, old)) \/ AcceptKept(n, c, old)
  /\ UNCHANGED <<dialer, discovered, breaks, displaced, heard>>

\* _handle_packet_received: the sender's ID settles which of two stays.
BothReady(n, conn, old) == conn # old /\ IsReady(n, conn) /\ IsReady(n, old)
LoserOf(n, conn, old) == IF KeepOutbound(n, TRUE) = Inbound(n, old) THEN old ELSE conn

HandlePacket(n, c) ==
  LET conn == byAddress[n][AddressOf(n, c)]
      old  == byPeer[n]["peer"]
      drop == LoserOf(n, conn, old)
  IN  /\ IsReady(n, c) /\ ends[c][Other(n)] # "none"
      /\ Inbound(n, c) => c \in wired
      /\ IF BothReady(n, conn, old)
         THEN /\ doomed' = [doomed EXCEPT ![n] = @ \cup {drop}]
              /\ byAddress' = [byAddress EXCEPT ![n] = Unlisted(@, drop)]
              /\ byPeer' = [byPeer EXCEPT ![n] = [Unlisted(@, drop) EXCEPT
                                                  !["peer"] = IF drop = old THEN conn ELSE old]]
         ELSE /\ byPeer' = [byPeer EXCEPT ![n]["peer"] = IF IsReady(n, conn) THEN conn ELSE @]
              /\ UNCHANGED <<doomed, byAddress>>
      /\ heard' = [heard EXCEPT ![n] = @ \cup {c}]
      /\ UNCHANGED <<dialer, ends, wired, discovered, lanState, breaks, displaced>>

\* LANConnection.close, up to its first await: by a spawned task, because the
\* stream ended, because the network broke it.
CloseBegins(n, c) ==
  /\ IsReady(n, c)
  /\ \/ /\ c \in doomed[n] \/ ends[c][Other(n)] \in {"closing", "closed"}
        /\ UNCHANGED breaks
     \/ breaks < MaxBreaks /\ breaks' = breaks + 1
  /\ ends' = [ends EXCEPT ![c][n] = "closing"]
  /\ doomed' = [doomed EXCEPT ![n] = @ \ {c}]
  /\ UNCHANGED <<dialer, wired, byAddress, byPeer, discovered, lanState, displaced, heard>>

\* Its end: on_disconnected, with the address.
ForgetAddress(n, c) == Forget(n, byAddress[n][AddressOf(n, c)])
Mistaken(n, c) == IF Inbound(n, c) /\ c \notin wired THEN {} ELSE {byAddress[n][AddressOf(n, c)]}
CloseEnds(n, c) ==
  /\ ends[c][n] = "closing"
  /\ ends' = [ends EXCEPT ![c][n] = "closed"]
  /\ IF Inbound(n, c) /\ c \notin wired THEN UNCHANGED <<byAddress, byPeer, lanState>>
     ELSE /\ IF byAddress[n][AddressOf(n, c)] = NoLink THEN UNCHANGED <<byAddress, byPeer>>
             ELSE ForgetAddress(n, c)
          /\ lanState' = [lanState EXCEPT ![n] = RestState(n)]
  /\ displaced' = displaced \cup (Mistaken(n, c) \ {c, NoLink})
  /\ UNCHANGED <<dialer, wired, doomed, discovered, breaks, heard>>

\* disconnect_peer, up to the await of close.
DisconnectPeer(n, a) ==
  LET c == byAddress[n][a]
  IN  /\ c # NoLink /\ breaks < MaxBreaks /\ breaks' = breaks + 1
      /\ Forget(n, c)
      /\ doomed' = [doomed EXCEPT ![n] = IF IsReady(n, c) THEN @ \cup {c} ELSE @]
      /\ lanState' = [lanState EXCEPT ![n] =
           IF \E b \in Addresses : IsReady(n, byAddress'[n][b]) THEN @ ELSE "SCANNING"]
      /\ displaced' = displaced \cup Dialling(n, a)
      /\ UNCHANGED <<dialer, ends, wired, discovered, heard>>

Discover(n) ==
  /\ discovered' = [discovered EXCEPT ![n] = TRUE]
  /\ UNCHANGED <<dialer, ends, wired, doomed, byAddress, byPeer, lanState, breaks, displaced, heard>>

LinksNext ==
  \E n \in Nodes :
    \/ Reuse(n) \/ DialRefused(n) \/ Dial(n) \/ Discover(n)
    \/ \E c \in LinkIds :
         \/ DialReady(n, c) \/ DialFails(n, c) \/ Accept(n, c)
         \/ HandlePacket(n, c) \/ CloseBegins(n, c) \/ CloseEnds(n, c)
    \/ \E a \in Addresses : DisconnectPeer(n, a)

LinksSpec == LinksInit /\ [][LinksNext]_linkVars

-----------------------------------------------------------------------------
\* Nothing is under way: no dial, no accept, no close.
AtRest ==
  /\ doomed = [n \in Nodes |-> {}]
  /\ \A c \in LinkIds : \A n \in Nodes :
       dialer[c] # 0 => ends[c][n] \in {"ready", "closed"}
  /\ \A c \in LinkIds : "closed" \in {ends[c][n] : n \in Nodes} => ends[c][1] = ends[c][2]

Live == {c \in LinkIds : \A n \in Nodes : ends[c][n] = "ready"}
Tracks(n, c) == \E a \in Addresses : byAddress[n][a] = c


\* NoDeadEntries: once nothing is under way, everything a node lists is a
\* connection that works at both ends.
NoDeadEntries ==
  AtRest => \A n \in Nodes : \A a \in Entries(n) : byAddress[n][a] \in Live

\* LinksTracked: and every connection that works is listed at both ends, so
\* that stop closes it and broadcasts reach it, unless an overlapping
\* connect_peer, disconnect_peer or close at the same address displaced it.
LinksTracked ==
  AtRest => \A n \in Nodes : \A c \in Live \ displaced : Tracks(n, c)

\* OneLink: when both nodes dialled each other, and packets of every remaining
\* connection were processed at both ends since, only one remains.
OneLink ==
  AtRest /\ (\A n \in Nodes : Live \subseteq heard[n]) => Cardinality(Live \ displaced) <= 1

\* LinkSurvives: the two ends, each deciding alone which connection to drop,
\* never drop both ("Deterministically determine whether local node keeps
\* outbound connection", network/transport.py:148), when no connection breaks,
\* there is room for a second one and node 2's ID alone is above the address it
\* is compared with.  Otherwise, as when both IDs are, they may drop both.
LinkSurvives ==
  KeepsBlind = {1} /\ MaxConnections > 1 /\ AtRest /\ breaks = 0 /\ dialer[1] # 0 => Live # {}

\* LinksSafe: once at rest, two nodes that dialled each other at once list exactly
\* the connections that work, have one, and have not dropped both.
LinksSafe == LinksTypeOK /\ NoDeadEntries /\ LinksTracked /\ OneLink /\ LinkSurvives
=============================================================================
