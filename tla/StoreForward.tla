---------------------------- MODULE StoreForward ----------------------------
(***************************************************************************)
(* StoreAndForwardQueue (mesh/store_forward.py): packets kept for peers    *)
(* that are away, under a limit per peer, a limit on packets and a limit   *)
(* on bytes, each packet for at most SfTtl ticks of the wall clock.        *)
(*                                                                         *)
(* enqueue runs to its end before anything else does, but its two eviction *)
(* loops are steps of their own here, so that a loop that does not end is  *)
(* a behaviour.  enqueue holds a reference to its peer's deque throughout; *)
(* _evict_oldest drops a deque it empties from the dictionary, and once    *)
(* cur.peer is not a key any more that reference leads to a deque nothing  *)
(* else can reach.                                                         *)
(***************************************************************************)
EXTENDS Picking, FiniteSetsExt, SequencesExt

CONSTANTS
  Peers,
  Sizes,          \* byte sizes of packets, header estimate included
  MaxTotal,       \* max_total_packets
  MaxPerPeer,     \* max_per_peer
  MaxBytes,       \* max_total_bytes
  SfTtl,            \* packet_ttl_seconds
  SfMaxTime,        \* bound: readings of the wall clock
  MaxPackets      \* bound: packets offered

ASSUME QueueAssumption ==
  /\ Sizes \subseteq Nat \ {0}
  /\ {MaxTotal, MaxPerPeer, MaxBytes} \subseteq Nat \ {0}
  /\ {SfTtl, SfMaxTime, MaxPackets} \subseteq Nat

VARIABLES
  sfNow,            \* the wall clock, which may be set back
  keys, queues,   \* _queues: its keys in insertion order, and its deques
  totalPackets,   \* _current_total_packets
  totalBytes,     \* _current_total_bytes
  pc, cur,        \* where enqueue is, and the packet it was called with
  offered,        \* packets offered so far; they are numbered in this order
  delivered,      \* what dequeue_for_peer returned, per peer, in order
  orphans         \* packets appended to an unreachable deque since clear

counters == <<totalPackets, totalBytes>>
sfVars == <<sfNow, keys, queues, counters, pc, cur, offered, delivered, orphans>>

Packets == [id : 1..MaxPackets, at : 0..SfMaxTime, size : Sizes]
NoCall  == [peer |-> CHOOSE p \in Peers : TRUE, pkt |-> [id |-> 0, at |-> 0, size |-> 0]]

SfTypeOK ==
  /\ sfNow \in 0..SfMaxTime
  /\ keys \in Seq(Peers) /\ IsInjective(keys)
  /\ queues \in [Peers -> Seq(Packets)]
  /\ \A p \in Peers : queues[p] # <<>> => p \in ToSet(keys)
  /\ totalPackets \in Nat /\ totalBytes \in Nat
  /\ pc \in {"idle", "evictTotal", "evictBytes"}
  /\ IF pc = "idle" THEN cur = NoCall
     ELSE cur \in [peer : Peers, pkt : Packets]
  /\ offered \in 0..MaxPackets
  /\ delivered \in [Peers -> Seq(1..MaxPackets)]
  /\ orphans \subseteq Packets

SfInit ==
  /\ sfNow = 0
  /\ keys = <<>> /\ queues = [p \in Peers |-> <<>>]
  /\ totalPackets = 0 /\ totalBytes = 0
  /\ pc = "idle" /\ cur = NoCall
  /\ offered = 0
  /\ delivered = [p \in Peers |-> <<>>]
  /\ orphans = {}

-----------------------------------------------------------------------------
\* The packets reachable through the dictionary, and how many bytes a set of
\* them has, a byte being a packet and an offset in it.
StoredIn(qs) == UNION {ToSet(qs[p]) : p \in Peers}
Stored       == StoredIn(queues)
BytesOf(pkts) == UNION {{pkt} \X (1..pkt.size) : pkt \in pkts}
SfBytes(pkts) == Cardinality(BytesOf(pkts))

\* A removal that forgets the byte counter.
KeepOnlyForgetsBytes(qs) ==
  /\ queues' = qs
  /\ totalPackets' = totalPackets - Cardinality(Stored \ StoredIn(qs))
  /\ UNCHANGED totalBytes

\* Store qs, having taken every packet that it lacks off both counters.
KeepOnly(qs) ==
  LET removed == Stored \ StoredIn(qs)
  IN  /\ queues' = qs
      /\ totalPackets' = totalPackets - Cardinality(removed)
      /\ totalBytes' = totalBytes - SfBytes(removed)

Expired(pkt) == sfNow - pkt.at > SfTtl

\* prune_expired's loop: packets leave from the head while they are expired.
DropExpired(q) ==
  LET live == {i \in DOMAIN q : ~Expired(q[i])}
  IN  IF live = {} THEN <<>> ELSE SubSeq(q, Min(live), Len(q))
Pruned == [p \in Peers |-> DropExpired(queues[p])]

\* ... and a deque left empty leaves the dictionary.
PrunedKeys == Picked(keys, {i \in DOMAIN keys : Pruned[keys[i]] # <<>>})

\* A full queue of the peer's own gives up its oldest packet.
PeerRoom(p) ==
  IF Len(Pruned[p]) >= MaxPerPeer THEN [Pruned EXCEPT ![p] = Tail(@)] ELSE Pruned

\* enqueue up to its first loop: prune, refuse an oversized packet, make room
\* in the peer's own queue.
EnqueueStart(p, size) ==
  /\ pc = "idle" /\ offered < MaxPackets
  /\ offered' = offered + 1
  /\ IF size > MaxBytes
     THEN KeepOnly(Pruned) /\ keys' = PrunedKeys /\ UNCHANGED <<pc, cur>>
     ELSE /\ keys' = IF p \in ToSet(PrunedKeys) THEN PrunedKeys ELSE Append(PrunedKeys, p)
          /\ KeepOnly(PeerRoom(p))
          /\ pc' = "evictTotal"
          /\ cur' = [peer |-> p,
                     pkt |-> [id |-> offered + 1, at |-> sfNow, size |-> size]]
  /\ UNCHANGED <<sfNow, delivered, orphans>>

\* A deque left empty leaves the dictionary.
DropEmptyKey(i) == IF Len(queues[keys[i]]) = 1 THEN Picked(keys, DOMAIN keys \ {i}) ELSE keys

\* _evict_oldest: the oldest head goes, the first key's among equals; with
\* nothing stored it does nothing.
EvictOldest ==
  LET waiting == {i \in DOMAIN keys : queues[keys[i]] # <<>>}
      HeadAt(i) == queues[keys[i]][1].at
      oldest  == {i \in waiting : \A j \in waiting : HeadAt(i) <= HeadAt(j)}
  IN  IF waiting = {}
      THEN UNCHANGED <<keys, queues, counters>>
      ELSE LET i == Min(oldest)
               p == keys[i]
           IN  KeepOnly([queues EXCEPT ![p] = Tail(@)]) /\ keys' = DropEmptyKey(i)

EvictForPackets ==
  /\ pc = "evictTotal" /\ totalPackets >= MaxTotal
  /\ EvictOldest
  /\ UNCHANGED <<sfNow, pc, cur, offered, delivered, orphans>>

PacketsFit ==
  /\ pc = "evictTotal" /\ totalPackets < MaxTotal
  /\ pc' = "evictBytes"
  /\ UNCHANGED <<sfNow, keys, queues, counters, cur, offered, delivered, orphans>>

Oversubscribed == totalBytes + cur.pkt.size > MaxBytes

EvictForBytes ==
  /\ pc = "evictBytes" /\ Oversubscribed /\ totalPackets > 0
  /\ EvictOldest
  /\ UNCHANGED <<sfNow, pc, cur, offered, delivered, orphans>>

Enqueued(q, pkt)  == Append(q, pkt)

\* enqueue's end: give up if there is still no room, or append and count.
EnqueueEnd ==
  /\ pc = "evictBytes" /\ ~(Oversubscribed /\ totalPackets > 0)
  /\ IF Oversubscribed
     THEN UNCHANGED <<queues, counters, orphans>>
     ELSE /\ totalPackets' = totalPackets + 1
          /\ totalBytes' = totalBytes + cur.pkt.size
          /\ IF cur.peer \in ToSet(keys)
             THEN /\ queues' = [queues EXCEPT ![cur.peer] = Enqueued(@, cur.pkt)]
                  /\ UNCHANGED orphans
             ELSE orphans' = orphans \cup {cur.pkt} /\ UNCHANGED queues
  /\ pc' = "idle" /\ cur' = NoCall
  /\ UNCHANGED <<sfNow, keys, offered, delivered>>

\* dequeue_for_peer: the whole queue leaves, the unexpired part is returned.
DequeueForPeer(p) ==
  /\ pc = "idle" /\ p \in ToSet(keys)
  /\ KeepOnly([queues EXCEPT ![p] = <<>>])
  /\ keys' = Picked(keys, {i \in DOMAIN keys : keys[i] # p})
  /\ delivered' = [delivered EXCEPT ![p] =
       LET fresh == Picked(queues[p], {i \in DOMAIN queues[p] : ~Expired(queues[p][i])})
       IN  @ \o [i \in DOMAIN fresh |-> fresh[i].id]]
  /\ UNCHANGED <<sfNow, pc, cur, offered, orphans>>

\* prune_expired, from the coordinator's maintenance loop.
PruneExpired ==
  /\ pc = "idle"
  /\ KeepOnly(Pruned) /\ keys' = PrunedKeys
  /\ UNCHANGED <<sfNow, pc, cur, offered, delivered, orphans>>

Clear ==
  /\ pc = "idle"
  /\ keys' = <<>> /\ queues' = [p \in Peers |-> <<>>]
  /\ totalPackets' = 0 /\ totalBytes' = 0
  /\ orphans' = {}
  /\ UNCHANGED <<sfNow, pc, cur, offered, delivered>>

\* time.time() is a wall clock: it advances, and can be set back.
SfSetClock ==
  /\ pc = "idle"
  /\ sfNow' \in 0..SfMaxTime
  /\ UNCHANGED <<keys, queues, counters, pc, cur, offered, delivered, orphans>>

EnqueueStep == EvictForPackets \/ PacketsFit \/ EvictForBytes \/ EnqueueEnd

SfNext ==
  \/ \E p \in Peers, size \in Sizes : EnqueueStart(p, size)
  \/ EnqueueStep
  \/ \E p \in Peers : DequeueForPeer(p)
  \/ PruneExpired
  \/ Clear
  \/ SfSetClock

SfSpec == SfInit /\ [][SfNext]_sfVars

\* enqueue is a plain function call: once entered, it keeps executing.
SfFairSpec == SfSpec /\ WF_sfVars(EnqueueStep)

-----------------------------------------------------------------------------
\* WithinLimits: what is really stored respects all three limits, between any
\* two steps, although the counters the limits are enforced on drift away from it.
WithinLimits ==
  /\ Cardinality(Stored) <= MaxTotal
  /\ SfBytes(Stored) <= MaxBytes
  /\ \A p \in Peers : Len(queues[p]) <= MaxPerPeer

\* CountersExplained: the counters are what is stored plus the packets that
\* were appended to an unreachable deque, whatever mix of eviction, expiry,
\* delivery and clock changes came before.
CountersExplained ==
  /\ totalPackets = Cardinality(Stored) + Cardinality(orphans)
  /\ totalBytes = SfBytes(Stored) + SfBytes(orphans)

\* DeliveredInOrder: a peer that comes back receives packets in the order they
\* were enqueued, none of them twice, over all its reconnections.
DeliveredInOrder ==
  \A p \in Peers : \A i, j \in DOMAIN delivered[p] :
    i < j => delivered[p][i] < delivered[p][j]

\* EnqueueReturns: a call of enqueue ends, with the packet accepted or rejected
\* ("Returns True if packet was accepted into queue, False if rejected").
EnqueueReturns == pc # "idle" ~> pc = "idle"

\* SfSafe: the queue stays within its limits, its counters are what it holds and
\* what was orphaned, and what is delivered is in order.
SfSafe == SfTypeOK /\ WithinLimits /\ CountersExplained /\ DeliveredInOrder
=============================================================================
