------------------------------ MODULE MeshFlood ------------------------------
(***************************************************************************)
(* A mesh of nodes that each run the coordinator's packet path: a packet   *)
(* is sent to the neighbours, every node evaluates each copy it is handed  *)
(* (_handle_incoming_packet) and relays an accepted one after a random     *)
(* delay (_relay_packet_async), unicast packets along a learned route when *)
(* there is one.  Copies travel independently and arrive in any order.     *)
(*                                                                         *)
(* The packet cache is what Dedup makes of it: it remembers a packet until *)
(* expiry or eviction drops it (Forget, MaxForgets times).  Loss stands    *)
(* for radio loss and for the rate limiter (Lose, if Lossy).               *)
(***************************************************************************)
EXTENDS MeshRules, FiniteSets

CONSTANTS
  Nodes,
  Links,          \* set of two-element sets of nodes: live connections
  Packets,        \* records with fields sender and recipient
  InitTtl,        \* ttl of a packet as sent
  Lossy,          \* may the network lose copies and fail sends?
  MaxForgets      \* bound: cache entries that are forgotten

ASSUME MeshAssumption ==
  /\ \A l \in Links : l \subseteq Nodes
  /\ \A p \in Packets : p.sender \in Nodes /\ p.recipient \in Nodes \cup {Broadcast}
  /\ InitTtl \in Nat \ {0} /\ MaxRelayTtl \in Nat \ {0} /\ MaxForgets \in Nat

VARIABLES
  sent,           \* packets their sender has sent
  copies,         \* copies under way: packet, ttl, link, links crossed
  seen,           \* per node, the packets its cache remembers
  tasks,          \* per node, relay tasks that have not sent yet
  via,            \* per node and sender, the learned next hop and its distance
  processed,      \* per node and packet, how often it was processed locally
  stored,         \* per node, packets handed to store-and-forward
  forgotten,      \* history: per node, the packets its cache once dropped
  lost            \* history: did the network ever lose a copy or fail a send?

vars == <<sent, copies, seen, tasks, via, processed, stored, forgotten, lost>>

Neighbours(n) == {m \in Nodes \ {n} : {n, m} \in Links}
NoRoute == [hop |-> Broadcast, hops |-> 0]

TypeOK ==
  /\ sent \subseteq Packets
  /\ copies \subseteq [pkt : Packets, ttl : 1..InitTtl, from : Nodes, to : Nodes,
                       hops : 1..InitTtl]
  /\ seen \in [Nodes -> SUBSET Packets]
  /\ tasks \in [Nodes -> SUBSET [pkt : Packets, ttl : 1..(InitTtl - 1), from : Nodes,
                                 hops : 1..InitTtl]]
  /\ via \in [Nodes -> [Nodes -> [hop : Nodes \cup {Broadcast}, hops : 0..InitTtl]]]
  /\ processed \in [Nodes -> [Packets -> Nat]]
  /\ stored \in [Nodes -> SUBSET Packets]
  /\ forgotten \in [Nodes -> SUBSET Packets]
  /\ lost \in BOOLEAN

Init ==
  /\ sent = {}
  /\ copies = {}
  /\ seen = [n \in Nodes |-> {}]
  /\ tasks = [n \in Nodes |-> {}]
  /\ via = [n \in Nodes |-> [d \in Nodes |-> NoRoute]]
  /\ processed = [n \in Nodes |-> [p \in Packets |-> 0]]
  /\ stored = [n \in Nodes |-> {}]
  /\ forgotten = [n \in Nodes |-> {}]
  /\ lost = FALSE

-----------------------------------------------------------------------------
Copies(p, ttl, n, targets, hops) ==
  [pkt : {p}, ttl : {ttl}, from : {n}, to : targets, hops : {hops}]

\* Where a packet goes that has a single destination: straight to a connected
\* neighbour, to the next hop learned for it, or to nobody in particular.
Directed(n, p) ==
  IF p.recipient \in Neighbours(n) THEN {p.recipient}
  ELSE IF p.recipient # Broadcast /\ via[n][p.recipient] # NoRoute
  THEN {via[n][p.recipient].hop}
  ELSE {}

\* _send_packet: record it, then send it directed or to every neighbour.
Send(p) ==
  LET n  == p.sender
      to == IF Directed(n, p) = {} THEN Neighbours(n) ELSE Directed(n, p)
  IN  /\ p \notin sent
      /\ sent' = sent \cup {p}
      /\ seen' = [seen EXCEPT ![n] = @ \cup {p}]
      /\ copies' = copies \cup Copies(p, InitTtl, n, to, 1)
      /\ UNCHANGED <<tasks, via, processed, stored, forgotten, lost>>

\* evaluate_incoming drops a node's own packet, or one its cache remembers.
DropCopy(c) ==
  /\ c.pkt.sender = c.to \/ c.pkt \in seen[c.to]
  /\ copies' = copies \ {c}
  /\ UNCHANGED <<sent, seen, tasks, via, processed, stored, forgotten, lost>>

\* add_route, while routes stay valid: a strictly shorter one is kept.
Learn(n, dest, route) ==
  via' = [via EXCEPT ![n][dest] = IF @ # NoRoute /\ @.hops < route.hops THEN @ ELSE route]

\* _handle_incoming_packet on an accepted copy: learn, process, relay or store.
TakeCopy(c) ==
  LET n == c.to
      p == c.pkt
      d == Accepted(n, p, c.ttl)
  IN  /\ copies' = copies \ {c}
      /\ Learn(n, p.sender, [hop |-> c.from, hops |-> InitTtl - c.ttl + 1])
      /\ processed' = [processed EXCEPT ![n][p] = IF d.process THEN @ + 1 ELSE @]
      /\ tasks' = [tasks EXCEPT ![n] = @ \cup
           IF d.relayTtl = 0 THEN {}
           ELSE {[pkt |-> p, ttl |-> d.relayTtl, from |-> c.from, hops |-> c.hops]}]
      /\ stored' = [stored EXCEPT ![n] = IF d.store THEN @ \cup {p} ELSE @]
      /\ UNCHANGED <<sent, forgotten, lost>>

AcceptSelfToo(c) ==
  /\ c.pkt \notin seen[c.to]
  /\ seen' = [seen EXCEPT ![c.to] = @ \cup {c.pkt}]
  /\ TakeCopy(c)
AcceptUnrecorded(c) ==
  /\ c.pkt.sender # c.to /\ c.pkt \notin seen[c.to]
  /\ TakeCopy(c) /\ UNCHANGED seen
AcceptCopy(c) ==
  /\ c.pkt.sender # c.to /\ c.pkt \notin seen[c.to]
  /\ seen' = [seen EXCEPT ![c.to] = @ \cup {c.pkt}]
  /\ TakeCopy(c)

\* _relay_packet_async after its delay.  A directed send may fail (if Lossy) or
\* lead back to where the packet came from; then the packet is broadcast, or
\* stored when its recipient is a neighbour.
RelayDirected(n, t) ==
  LET to == Directed(n, t.pkt)
  IN  /\ to # {} /\ t.from \notin to
      /\ copies' = copies \cup Copies(t.pkt, t.ttl, n, to, t.hops + 1)
      /\ UNCHANGED <<seen, stored, lost>>
RelayUndirected(n, t) ==
  LET to == Directed(n, t.pkt)
      fails == to # {} /\ t.from \notin to
  IN  /\ fails => Lossy
      /\ lost' = (lost \/ fails)
      /\ IF t.pkt.recipient \in Neighbours(n)
         THEN stored' = [stored EXCEPT ![n] = @ \cup {t.pkt}] /\ UNCHANGED <<copies, seen>>
         ELSE /\ copies' = copies \cup
                   Copies(t.pkt, t.ttl, n, Neighbours(n) \ {t.from}, t.hops + 1)
              /\ seen' = [seen EXCEPT ![n] = @ \cup {t.pkt}]
              /\ UNCHANGED stored
RelayRepeating(n, t) ==
  /\ t \in tasks[n]
  /\ RelayDirected(n, t) \/ RelayUndirected(n, t)
  /\ UNCHANGED <<sent, via, tasks, processed, forgotten>>
Relay(n, t) ==
  /\ t \in tasks[n]
  /\ tasks' = [tasks EXCEPT ![n] = @ \ {t}]
  /\ RelayDirected(n, t) \/ RelayUndirected(n, t)
  /\ UNCHANGED <<sent, via, processed, forgotten>>

\* A cache entry expires or is evicted.
Forgets == Cardinality({x \in Nodes \X Packets : x[2] \in forgotten[x[1]]})
Forget(n, p) ==
  /\ p \in seen[n] /\ Forgets < MaxForgets
  /\ seen' = [seen EXCEPT ![n] = @ \ {p}]
  /\ forgotten' = [forgotten EXCEPT ![n] = @ \cup {p}]
  /\ UNCHANGED <<sent, copies, tasks, via, processed, stored, lost>>

Lose(c) ==
  /\ Lossy
  /\ copies' = copies \ {c}
  /\ lost' = TRUE
  /\ UNCHANGED <<sent, seen, tasks, via, processed, stored, forgotten>>

Progress ==
  \/ \E c \in copies : DropCopy(c) \/ AcceptCopy(c)
  \/ \E n \in Nodes : \E t \in tasks[n] : Relay(n, t)

Next ==
  \/ \E p \in Packets : Send(p)
  \/ Progress
  \/ \E n \in Nodes, p \in Packets : Forget(n, p)
  \/ \E c \in copies : Lose(c)

Spec == Init /\ [][Next]_vars

\* The event loop runs every ready handler and every task whose delay is over,
\* and every running node sends its announcements.
FairSpec == Spec /\ WF_vars(Progress) /\ \A p \in Packets : WF_vars(Send(p))

-----------------------------------------------------------------------------
\* HopBudget: a copy that has crossed h links has at most InitTtl + 1 - h left,
\* so that no packet travels further than InitTtl links, even when every cache
\* forgets it at the worst moment and it goes round in circles.
HopBudget ==
  /\ \A c \in copies : c.ttl + c.hops <= InitTtl + 1
  /\ \A n \in Nodes : \A t \in tasks[n] : t.ttl + t.hops <= InitTtl

\* ProcessedOnce: a node processes a packet at most once, over all the copies
\* that reach it, unless its own cache has forgotten the packet; what other
\* nodes forget and relay again does not matter.
ProcessedOnce ==
  \A n \in Nodes : \A p \in Packets \ forgotten[n] : processed[n][p] <= 1

\* OwnNeverProcessed: a node never processes a packet of its own that comes
\* back to it, even when its cache has forgotten sending it.
OwnNeverProcessed == \A p \in Packets : processed[p.sender][p] = 0

\* Quiesces: the mesh falls silent again, with caches that forget and in spite
\* of cycles.
Quiesces == <>[](copies = {} /\ \A n \in Nodes : tasks[n] = {})

\* Reached: every node that a packet is for processes it, unless the network
\* loses something, when the ttl is at least the length of the longest simple
\* path.
For(p, n) == n # p.sender /\ p.recipient \in {Broadcast, n}
Reached ==
  \A p \in Packets, n \in Nodes : For(p, n) => <>(processed[n][p] > 0 \/ lost)
=============================================================================
