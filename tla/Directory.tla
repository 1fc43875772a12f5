----------------------------- MODULE Directory -----------------------------
(***************************************************************************)
(* Who is where: the tables of the coordinator (app/session_coordinator.py *)
(* peer_addresses, address_to_peer_id, peer_nicknames), filled by scanning *)
(* (ble/scanner.py), by packets of direct neighbours and by announcements, *)
(* and what the user interface derives from them (tui/app.py): to whom a   *)
(* direct message goes, and which peers it shows as authenticated.         *)
(* Addresses change hands: a radio rotates them, a router reassigns them.  *)
(***************************************************************************)
EXTENDS Picking, FiniteSetsExt, SequencesExt

CONSTANTS
  DirPeers,              \* peer IDs
  DirAddrs,              \* transport addresses
  DirNames,              \* nicknames
  DirPrefixOf,           \* name -> the peer IDs it is a prefix of
  DirMaxOps              \* bound: events

ASSUME DirAssumption ==
  /\ "none" \notin DirPeers \cup DirAddrs \cup DirNames
  /\ DirPrefixOf \in [DirNames -> SUBSET DirPeers] /\ DirMaxOps \in Nat

Nobody == [q \in DirPeers |-> "none"]
Nowhere == [a \in DirAddrs |-> "none"]

VARIABLES
  dirAt,                 \* environment: whose address is it?
  dirFound,              \* discovered_peers: the peer ID seen at each address
  dirConn, dirInbound,   \* addresses connected, and those a LAN peer dialled from
  peerAddr, addrPeer,    \* peer_addresses, address_to_peer_id
  nickOf, nickOrder,     \* peer_nicknames, and the order of its keys
  dirMine,               \* the local nickname
  dirSessions,           \* peers with a Noise session
  tuiAuth, tuiAuthAddr,  \* _authenticated_transport_peers, _authenticated_peer_addresses
  dirRebound,            \* history: peers whose entry is an address another peer was heard at
  dirSwitched,           \* history: was the transport switched?
  tuiMissed,             \* history: peers whose session ended where the interface did not look
  dirOps
dirTables == <<peerAddr, addrPeer, nickOf, nickOrder>>
dirUi == <<tuiAuth, tuiAuthAddr, tuiMissed>>
dirVars == <<dirAt, dirFound, dirConn, dirInbound, dirTables, dirMine, dirSessions, dirUi, dirRebound, dirSwitched, dirOps>>

DirTypeOK ==
  /\ dirAt \in [DirAddrs -> DirPeers] /\ dirFound \in [DirAddrs -> DirPeers \cup {"none"}]
  /\ dirConn \subseteq DirAddrs /\ dirInbound \subseteq dirConn
  /\ peerAddr \in [DirPeers -> DirAddrs \cup {"none"}] /\ addrPeer \in [DirAddrs -> DirPeers \cup {"none"}]
  /\ nickOf \in [DirPeers -> DirNames \cup {"none"}]
  /\ nickOrder \in Seq(DirPeers) /\ IsInjective(nickOrder)
  /\ ToSet(nickOrder) = {q \in DirPeers : nickOf[q] # "none"}
  /\ dirMine \in DirNames /\ dirSessions \subseteq DirPeers /\ {tuiAuth, tuiMissed} \subseteq SUBSET DirPeers
  /\ tuiAuthAddr \in [DirPeers -> DirAddrs \cup {"none"}]
  /\ dirRebound \subseteq DirPeers /\ dirSwitched \in BOOLEAN /\ dirOps \in 0..DirMaxOps

DirInit ==
  /\ dirAt \in [DirAddrs -> DirPeers] /\ dirMine \in DirNames
  /\ dirFound = Nowhere /\ dirConn = {} /\ dirInbound = {} /\ peerAddr = Nobody /\ addrPeer = Nowhere
  /\ nickOf = Nobody /\ nickOrder = <<>> /\ dirSessions = {} /\ tuiAuth = {} /\ tuiAuthAddr = Nobody /\ tuiMissed = {}
  /\ dirRebound = {} /\ dirSwitched = FALSE /\ dirOps = 0

Event == dirOps < DirMaxOps /\ dirOps' = dirOps + 1

-----------------------------------------------------------------------------
\* _is_nickname_spoofed: names are compared without case and blanks.
Spoofed(q, n) == n = dirMine \/ \E r \in DirPeers \ {q} : nickOf[r] = n
Inserted(keys, q) == IF Contains(keys, q) THEN keys ELSE Append(keys, q)
\* The names after q is renamed to n and the peers in gone are forgotten; "none"
\* leaves a name alone.
Renamed(q, n, gone) ==
  LET names == [r \in DirPeers |-> IF r \in gone THEN "none" ELSE IF r = q /\ n # "none" THEN n ELSE nickOf[r]]
      kept == Picked(nickOrder, {i \in DOMAIN nickOrder : nickOrder[i] \notin gone})
  IN  /\ nickOf' = names
      /\ nickOrder' = IF names[q] = "none" THEN kept ELSE Inserted(kept, q)

\* Addresses change hands while nothing is connected there.
DirMove(a, q) ==
  /\ a \notin dirConn /\ dirAt[a] # q /\ Event /\ dirAt' = [dirAt EXCEPT ![a] = q]
  /\ UNCHANGED <<dirFound, dirConn, dirInbound, dirTables, dirMine, dirSessions, dirUi, dirRebound, dirSwitched>>

\* _detection_callback: one entry per peer ID; then _handle_peer_discovered, which
\* takes the address from its previous owner.
EvictNone(a, q) == {}
Evicted(a, q) == {r \in DirPeers \ {q} : addrPeer[a] = r /\ peerAddr[r] = a}
DirFind(a, n) ==
  LET q == dirAt[a]
      old == peerAddr[q]
  IN  /\ Event
      /\ dirFound' = [b \in DirAddrs |-> IF b = a THEN q ELSE IF dirFound[b] = q THEN "none" ELSE dirFound[b]]
      /\ peerAddr' = [r \in DirPeers |-> IF r = q THEN a ELSE IF r \in Evicted(a, q) THEN "none" ELSE peerAddr[r]]
      /\ addrPeer' = [b \in DirAddrs |->
           IF b = a THEN q
           ELSE IF b = old /\ b \notin dirConn /\ addrPeer[b] = q THEN "none" ELSE addrPeer[b]]
      /\ Renamed(q, IF n # "none" /\ Spoofed(q, n) THEN "none" ELSE n, Evicted(a, q))
      /\ dirRebound' = dirRebound \ ({q} \cup Evicted(a, q))
      /\ UNCHANGED <<dirAt, dirConn, dirInbound, dirMine, dirSessions, dirUi, dirSwitched>>
\* An advertisement without a peer ID changes discovered_peers alone.
DirFindUnnamed(a) ==
  /\ Event /\ dirFound[a] # "none" /\ dirFound' = [dirFound EXCEPT ![a] = "none"]
  /\ UNCHANGED <<dirAt, dirConn, dirInbound, dirTables, dirMine, dirSessions, dirUi, dirRebound, dirSwitched>>
\* prune_stale_peers.
DirExpire(a) ==
  /\ dirFound[a] # "none" /\ dirFound' = [dirFound EXCEPT ![a] = "none"]
  /\ UNCHANGED <<dirAt, dirConn, dirInbound, dirTables, dirMine, dirSessions, dirUi, dirRebound, dirSwitched, dirOps>>

DirConnect(a, inbound) ==
  /\ a \notin dirConn /\ Event /\ dirConn' = dirConn \cup {a}
  /\ dirInbound' = IF inbound THEN dirInbound \cup {a} ELSE dirInbound
  /\ UNCHANGED <<dirAt, dirFound, dirTables, dirMine, dirSessions, dirUi, dirRebound, dirSwitched>>

\* _process_packet_async: a packet of a direct neighbour binds its address; an
\* Announce, direct or relayed, its name.
Binds(a, q) ==
  /\ addrPeer' = [addrPeer EXCEPT ![a] = q]
  /\ peerAddr' = IF a \in dirInbound THEN peerAddr ELSE [peerAddr EXCEPT ![q] = a]
  /\ dirRebound' = (dirRebound \cup {r \in DirPeers \ {q} : peerAddr[r] = a})
                      \ (IF a \in dirInbound THEN {} ELSE {q})
DirHear(a, n) ==
  /\ a \in dirConn /\ Event /\ Binds(a, dirAt[a])
  /\ Renamed(dirAt[a], IF n # "none" /\ Spoofed(dirAt[a], n) THEN "none" ELSE n, {})
  /\ UNCHANGED <<dirAt, dirFound, dirConn, dirInbound, dirMine, dirSessions, dirUi, dirSwitched>>
DirHearRelayed(q, n) ==
  /\ dirConn # {} /\ Event /\ ~Spoofed(q, n) /\ Renamed(q, n, {})
  /\ UNCHANGED <<dirAt, dirFound, dirConn, dirInbound, peerAddr, addrPeer, dirMine, dirSessions, dirUi, dirRebound, dirSwitched>>

\* _on_handshake_established and the interface's _on_coordinator_handshake.
FirstAddr(q) ==
  IF peerAddr[q] # "none" THEN peerAddr[q]
  ELSE IF \E a \in DirAddrs : addrPeer[a] = q THEN CHOOSE a \in DirAddrs : addrPeer[a] = q ELSE "none"
DirSession(q) ==
  /\ dirConn # {} /\ q \notin dirSessions /\ Event /\ dirSessions' = dirSessions \cup {q}
  /\ IF q \in tuiAuth THEN UNCHANGED dirUi
     ELSE tuiAuth' = tuiAuth \cup {q} /\ tuiAuthAddr' = [tuiAuthAddr EXCEPT ![q] = FirstAddr(q)] /\ tuiMissed' = tuiMissed \ {q}
  /\ UNCHANGED <<dirAt, dirFound, dirConn, dirInbound, dirTables, dirMine, dirRebound, dirSwitched>>

\* _handle_peer_disconnected: the peer keeps the address it was discovered at, and
\* its session while another of its addresses is connected.
SessionOver(q, a, toPeer) == ~\E b \in dirConn \ {a} : toPeer[b] = q
Deauthenticated(a) == {q \in DirPeers : tuiAuthAddr[q] = a}
DirDrop(a) ==
  LET q == addrPeer[a]
      seen == {b \in DirAddrs : q # "none" /\ dirFound[b] = q}
      back == IF seen = {} THEN "none" ELSE CHOOSE b \in seen : TRUE
      popped == [addrPeer EXCEPT ![a] = "none"]
      toPeer == IF back # "none" /\ popped[back] = "none" THEN [popped EXCEPT ![back] = q] ELSE popped
      moves == q # "none" /\ peerAddr[q] \in {a, "none"}
  IN  /\ a \in dirConn /\ dirConn' = dirConn \ {a} /\ dirInbound' = dirInbound \ {a}
      /\ addrPeer' = toPeer
      /\ peerAddr' = [r \in DirPeers |-> IF r = q /\ moves THEN back ELSE peerAddr[r]]
      /\ dirSessions' = {r \in dirSessions : r = q => ~SessionOver(q, a, toPeer)}
      /\ tuiAuth' = tuiAuth \ Deauthenticated(a)
      /\ tuiAuthAddr' = [r \in DirPeers |-> IF r \in Deauthenticated(a) THEN "none" ELSE tuiAuthAddr[r]]
      /\ tuiMissed' = tuiMissed \cup {r \in (dirSessions \ dirSessions') \cap tuiAuth : tuiAuthAddr[r] # a}
      /\ dirRebound' = IF ~moves THEN dirRebound
                       ELSE IF back # "none" /\ addrPeer[back] \notin {q, "none"} THEN dirRebound \cup {q} ELSE dirRebound \ {q}
      /\ UNCHANGED <<dirAt, dirFound, nickOf, nickOrder, dirMine, dirSwitched, dirOps>>

\* set_nickname takes any name; a switch (_reset_session_state) clears the tables
\* and the scanner's, but not the interface's.
DirSetNickname(n) ==
  /\ n # dirMine /\ Event /\ dirMine' = n
  /\ UNCHANGED <<dirAt, dirFound, dirConn, dirInbound, dirTables, dirSessions, dirUi, dirRebound, dirSwitched>>
DirSwitch ==
  /\ Event /\ dirSwitched' = TRUE /\ dirConn' = {} /\ dirInbound' = {} /\ dirFound' = Nowhere
  /\ peerAddr' = Nobody /\ addrPeer' = Nowhere /\ nickOf' = Nobody /\ nickOrder' = <<>>
  /\ dirSessions' = {} /\ dirRebound' = {} /\ UNCHANGED <<dirAt, dirMine, dirUi>>

DirNext ==
  \/ \E a \in DirAddrs :
       \/ DirFindUnnamed(a) \/ DirExpire(a) \/ DirDrop(a)
       \/ \E q \in DirPeers : DirMove(a, q)
       \/ \E n \in DirNames \cup {"none"} : DirFind(a, n) \/ DirHear(a, n)
       \/ \E inbound \in BOOLEAN : DirConnect(a, inbound)
  \/ \E q \in DirPeers : DirSession(q) \/ \E n \in DirNames : DirHearRelayed(q, n)
  \/ \E n \in DirNames : DirSetNickname(n)
  \/ DirSwitch
DirSpec == DirInit /\ [][DirNext]_dirVars

-----------------------------------------------------------------------------
\* _resolve_connected_peer_address.
ConnectedAddress(q) ==
  IF peerAddr[q] \in dirConn THEN {peerAddr[q]} ELSE {a \in dirConn : addrPeer[a] = q}
\* _send_direct_message: the first known peer whose name it is or whose ID begins
\* with it.
NameOrPrefix(n, q) == nickOf[q] = n \/ q \in DirPrefixOf[n]
DmTarget(n) ==
  LET fits == {i \in DOMAIN nickOrder : NameOrPrefix(n, nickOrder[i])}
  IN  IF fits = {} THEN "none" ELSE nickOrder[Min(fits)]

-----------------------------------------------------------------------------
\* NamesUnique: no two known peers go by the same nickname, whichever way they
\* were learnt, so that a name always means one peer (_is_nickname_spoofed).
NamesUnique == \A q, r \in DirPeers : nickOf[q] # "none" /\ nickOf[q] = nickOf[r] => q = r

\* SentToPeer: the connected address that packets for a peer are sent to is one the
\* coordinator knows to be that peer's, unless a packet of another peer has been
\* heard at the address last heard from it or at the one it was discovered at:
\* only scanning takes an address from its previous owner
\* (_resolve_connected_peer_address, _process_packet_async).
SentToPeer == \A q \in DirPeers \ dirRebound : \A a \in ConnectedAddress(q) : addrPeer[a] = q

\* NameReachesHolder: a direct message to a nickname goes to the peer that goes by
\* it, unless the name is also the beginning of a known peer's ID.
NameReachesHolder ==
  \A q \in DirPeers : LET n == nickOf[q]
                      IN  n # "none" /\ (DirPrefixOf[n] \cap ToSet(nickOrder)) \subseteq {q} => DmTarget(n) = q

\* AuthCurrent: a peer the interface takes for authenticated has a session, so
\* that its next handshake is reported, unless the session ended at an address
\* the interface had not recorded or the transport was switched
\* (_on_coordinator_peer_status).
AuthCurrent == dirSwitched \/ tuiAuth \subseteq dirSessions \cup tuiMissed

\* DirSafe: packets and direct messages go to the peer meant, names mean one peer,
\* and who counts as authenticated has a session.
DirSafe == DirTypeOK /\ NamesUnique /\ SentToPeer /\ NameReachesHolder /\ AuthCurrent
=============================================================================
