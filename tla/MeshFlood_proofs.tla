-------------------------- MODULE MeshFlood_proofs --------------------------
(***************************************************************************)
(* Proofs about MeshFlood for every topology, every set of packets, every  *)
(* ttl, with caches that forget and links that lose.                       *)
(***************************************************************************)
EXTENDS MeshFlood, TLAPS

\* A learned route leads to a node.
RoutesLead == \A n, d \in Nodes : via[n][d] = NoRoute \/ via[n][d].hop \in Nodes

IInv == TypeOK /\ HopBudget /\ RoutesLead

LEMMA MinOfTwo ==
  ASSUME NEW a \in Int, NEW b \in Int
  PROVE  Min({a, b}) \in {a, b} /\ Min({a, b}) <= a /\ Min({a, b}) <= b
  <1>1. \E x \in {a, b} : \A y \in {a, b} : x <= y
    OBVIOUS
  <1> QED
    BY <1>1 DEF Min

LEMMA RelayTtlSmaller ==
  ASSUME NEW ttl \in 1..InitTtl
  PROVE  RelayTtl(ttl) \in 0..(ttl - 1)
  <1>1. ttl \in Int /\ MaxRelayTtl \in Int /\ MaxRelayTtl >= 1
    BY MeshAssumption
  <1>2. CASE ttl > 1
    <2> DEFINE m == Min({ttl, MaxRelayTtl})
    <2>1. m \in Int /\ m <= ttl /\ m >= 1
      <3>1. m \in {ttl, MaxRelayTtl} /\ m <= ttl /\ m <= MaxRelayTtl
        BY <1>1, MinOfTwo, Zenon
      <3> HIDE DEF m
      <3> QED
        BY <1>1, <1>2, <3>1
    <2>2. RelayTtl(ttl) = m - 1
      BY <1>2 DEF RelayTtl
    <2> HIDE DEF m
    <2> QED
      BY <1>1, <2>1, <2>2
  <1>3. CASE ~(ttl > 1)
    BY <1>1, <1>3 DEF RelayTtl
  <1> QED
    BY <1>2, <1>3

LEMMA CopiesType ==
  ASSUME NEW p \in Packets, NEW ttl \in 1..InitTtl, NEW n \in Nodes, NEW to \in SUBSET Nodes,
         NEW hops \in 1..InitTtl
  PROVE  /\ Copies(p, ttl, n, to, hops) \subseteq
              [pkt : Packets, ttl : 1..InitTtl, from : Nodes, to : Nodes, hops : 1..InitTtl]
         /\ \A c \in Copies(p, ttl, n, to, hops) : c.ttl = ttl /\ c.hops = hops
  BY DEF Copies

LEMMA DirectedType ==
  ASSUME IInv, NEW n \in Nodes, NEW p \in Packets
  PROVE  Directed(n, p) \subseteq Nodes
  BY MeshAssumption DEF IInv, RoutesLead, Directed, Neighbours

\* Initially and after every step, IInv.
LEMMA Inductive == IInv /\ [Next]_vars => IInv'
  <1> SUFFICES ASSUME IInv, [Next]_vars PROVE IInv'
    OBVIOUS
  <1>0. InitTtl \in Nat \ {0}
    BY MeshAssumption
  <1>1. ASSUME NEW p \in Packets, Send(p) PROVE IInv'
    <2> DEFINE n == p.sender
               to == IF Directed(n, p) = {} THEN Neighbours(n) ELSE Directed(n, p)
    <2>1. n \in Nodes /\ to \in SUBSET Nodes
      BY MeshAssumption, DirectedType DEF Neighbours
    <2>2. /\ copies' = copies \cup Copies(p, InitTtl, n, to, 1)
          /\ sent' = sent \cup {p} /\ seen' = [seen EXCEPT ![n] = @ \cup {p}]
          /\ UNCHANGED <<tasks, via, processed, stored, forgotten, lost>>
      BY <1>1 DEF Send
    <2> HIDE DEF n, to
    <2>3. InitTtl \in 1..InitTtl /\ 1 \in 1..InitTtl
      BY <1>0
    <2>4. TypeOK'
      BY <2>1, <2>2, <2>3, CopiesType DEF IInv, TypeOK
    <2>5. HopBudget'
      BY <1>0, <2>1, <2>2, <2>3, CopiesType DEF IInv, HopBudget
    <2> QED
      BY <2>2, <2>4, <2>5 DEF IInv, RoutesLead
  <1>2. ASSUME NEW c \in copies, DropCopy(c) \/ Lose(c) PROVE IInv'
    BY <1>2 DEF DropCopy, Lose, IInv, TypeOK, HopBudget, RoutesLead
  <1>3. ASSUME NEW c \in copies, AcceptCopy(c) PROVE IInv'
    <2> DEFINE n == c.to
               p == c.pkt
               d == Accepted(n, p, c.ttl)
               route == [hop |-> c.from, hops |-> InitTtl - c.ttl + 1]
               task == [pkt |-> p, ttl |-> d.relayTtl, from |-> c.from, hops |-> c.hops]
    <2>1. /\ n \in Nodes /\ p \in Packets /\ c.from \in Nodes /\ p.sender \in Nodes
          /\ c.ttl \in 1..InitTtl /\ c.hops \in 1..InitTtl /\ c.ttl + c.hops <= InitTtl + 1
      BY MeshAssumption DEF IInv, TypeOK, HopBudget
    <2>2. /\ d.relayTtl \in 0..(c.ttl - 1) /\ d.process \in BOOLEAN /\ d.store \in BOOLEAN
      BY <2>1, RelayTtlSmaller DEF Accepted, ForUs
    <2>3. /\ copies' = copies \ {c}
          /\ seen' = [seen EXCEPT ![n] = @ \cup {p}]
          /\ Learn(n, p.sender, route)
          /\ processed' = [processed EXCEPT ![n][p] = IF d.process THEN @ + 1 ELSE @]
          /\ tasks' = [tasks EXCEPT ![n] = @ \cup IF d.relayTtl = 0 THEN {} ELSE {task}]
          /\ stored' = [stored EXCEPT ![n] = IF d.store THEN @ \cup {p} ELSE @]
          /\ UNCHANGED <<sent, forgotten, lost>>
      BY <1>3 DEF AcceptCopy, TakeCopy
    <2> HIDE DEF n, p, d
    <2>4. d.relayTtl # 0 =>
            /\ task \in [pkt : Packets, ttl : 1..(InitTtl - 1), from : Nodes, hops : 1..InitTtl]
            /\ task.ttl + task.hops <= InitTtl
      BY <1>0, <2>1, <2>2
    <2>5. route \in [hop : Nodes \cup {Broadcast}, hops : 0..InitTtl] /\ route.hop \in Nodes
      BY <1>0, <2>1
    <2> HIDE DEF route, task
    <2>6. /\ via' \in [Nodes -> [Nodes -> [hop : Nodes \cup {Broadcast}, hops : 0..InitTtl]]]
          /\ RoutesLead'
      BY <2>1, <2>3, <2>5 DEF IInv, TypeOK, RoutesLead, Learn
    <2>7. /\ tasks' \in [Nodes -> SUBSET [pkt : Packets, ttl : 1..(InitTtl - 1), from : Nodes,
                                          hops : 1..InitTtl]]
          /\ \A m \in Nodes : \A t \in tasks'[m] : t.ttl + t.hops <= InitTtl
      BY <2>1, <2>3, <2>4 DEF IInv, TypeOK, HopBudget
    <2>8. processed' \in [Nodes -> [Packets -> Nat]]
      BY <2>1, <2>3 DEF IInv, TypeOK
    <2>9. /\ seen' \in [Nodes -> SUBSET Packets] /\ stored' \in [Nodes -> SUBSET Packets]
          /\ sent' \subseteq Packets /\ copies' \subseteq copies
      BY <2>1, <2>3 DEF IInv, TypeOK
    <2> QED
      BY <2>3, <2>6, <2>7, <2>8, <2>9 DEF IInv, TypeOK, HopBudget
  <1>4. ASSUME NEW n \in Nodes, NEW t \in tasks[n], Relay(n, t) PROVE IInv'
    <2>1. /\ t.pkt \in Packets /\ t.ttl \in 1..InitTtl /\ t.hops + 1 \in 1..InitTtl
          /\ t.ttl + (t.hops + 1) <= InitTtl + 1
      BY <1>0 DEF IInv, TypeOK, HopBudget
    <2>2. /\ tasks' = [tasks EXCEPT ![n] = @ \ {t}] /\ UNCHANGED <<sent, via, processed, forgotten>>
          /\ RelayDirected(n, t) \/ RelayUndirected(n, t)
      BY <1>4 DEF Relay
    <2>3. PICK to \in SUBSET Nodes :
            copies' \subseteq copies \cup Copies(t.pkt, t.ttl, n, to, t.hops + 1)
      <3>1. CASE RelayDirected(n, t)
        BY <2>1, <3>1, DirectedType DEF RelayDirected
      <3>2. CASE RelayUndirected(n, t)
        <4>1. Neighbours(n) \ {t.from} \in SUBSET Nodes
          BY DEF Neighbours
        <4> QED
          BY <3>2, <4>1 DEF RelayUndirected
      <3> QED
        BY <2>2, <3>1, <3>2
    <2>4. seen' \in [Nodes -> SUBSET Packets] /\ stored' \in [Nodes -> SUBSET Packets]
      <3>1. /\ seen' = seen \/ seen' = [seen EXCEPT ![n] = @ \cup {t.pkt}]
            /\ stored' = stored \/ stored' = [stored EXCEPT ![n] = @ \cup {t.pkt}]
        BY <2>2 DEF RelayDirected, RelayUndirected
      <3>2. seen \in [Nodes -> SUBSET Packets] /\ stored \in [Nodes -> SUBSET Packets]
        BY DEF IInv, TypeOK
      <3>3. seen' \in [Nodes -> SUBSET Packets]
        BY <2>1, <3>1, <3>2
      <3>4. stored' \in [Nodes -> SUBSET Packets]
        BY <2>1, <3>1, <3>2
      <3> QED
        BY <3>3, <3>4
    <2>5. /\ copies' \subseteq [pkt : Packets, ttl : 1..InitTtl, from : Nodes, to : Nodes,
                                hops : 1..InitTtl]
          /\ \A c \in copies' : c.ttl + c.hops <= InitTtl + 1
      <3> DEFINE new == Copies(t.pkt, t.ttl, n, to, t.hops + 1)
      <3>1. /\ new \subseteq [pkt : Packets, ttl : 1..InitTtl, from : Nodes, to : Nodes,
                              hops : 1..InitTtl]
            /\ \A c \in new : c.ttl = t.ttl /\ c.hops = t.hops + 1
        <4> DEFINE h == t.hops + 1
                   l == t.ttl
                   k == t.pkt
        <4>1. k \in Packets /\ l \in 1..InitTtl /\ h \in 1..InitTtl
          BY <2>1
        <4> HIDE DEF h, l, k
        <4>2. /\ Copies(k, l, n, to, h) \subseteq
                   [pkt : Packets, ttl : 1..InitTtl, from : Nodes, to : Nodes, hops : 1..InitTtl]
              /\ \A c \in Copies(k, l, n, to, h) : c.ttl = l /\ c.hops = h
          BY <4>1, CopiesType
        <4> QED
          BY <4>2 DEF h, l, k
      <3> HIDE DEF new
      <3>2. copies' \subseteq copies \cup new
        BY <2>3 DEF new
      <3> QED
        BY <2>1, <3>1, <3>2 DEF IInv, TypeOK, HopBudget
    <2>6. /\ tasks' \in [Nodes -> SUBSET [pkt : Packets, ttl : 1..(InitTtl - 1), from : Nodes,
                                          hops : 1..InitTtl]]
          /\ \A m \in Nodes : \A u \in tasks'[m] : u.ttl + u.hops <= InitTtl
      BY <2>2 DEF IInv, TypeOK, HopBudget
    <2>7. lost' \in BOOLEAN
      BY <2>2 DEF IInv, TypeOK, RelayDirected, RelayUndirected
    <2> QED
      BY <2>2, <2>4, <2>5, <2>6, <2>7 DEF IInv, TypeOK, HopBudget, RoutesLead
  <1>5. ASSUME NEW n \in Nodes, NEW p \in Packets, Forget(n, p) PROVE IInv'
    <2>1. /\ seen' \in [Nodes -> SUBSET Packets] /\ forgotten' \in [Nodes -> SUBSET Packets]
          /\ UNCHANGED <<sent, copies, tasks, via, processed, stored, lost>>
      BY <1>5 DEF Forget, IInv, TypeOK
    <2> QED
      BY <2>1 DEF IInv, TypeOK, HopBudget, RoutesLead
  <1>6. CASE UNCHANGED vars
    BY <1>6 DEF vars, IInv, TypeOK, HopBudget, RoutesLead
  <1> QED
    BY <1>1, <1>2, <1>3, <1>4, <1>5, <1>6 DEF Next, Progress

LEMMA Invariance == Spec => []IInv
  <1>1. Init => IInv
    <2> SUFFICES ASSUME Init PROVE IInv
      OBVIOUS
    <2>1. via \in [Nodes -> [Nodes -> [hop : Nodes \cup {Broadcast}, hops : 0..InitTtl]]]
      BY MeshAssumption DEF Init, NoRoute
    <2>2. processed \in [Nodes -> [Packets -> Nat]]
      BY DEF Init
    <2>3. TypeOK
      BY <2>1, <2>2 DEF Init, TypeOK
    <2> QED
      BY <2>3 DEF Init, IInv, HopBudget, RoutesLead
  <1> QED
    BY <1>1, Inductive, PTL DEF Spec

\* TypeCorrect: copies and relay tasks always have a positive ttl no larger
\* than the one they were sent with, and routes are at most InitTtl long.
THEOREM TypeCorrect == Spec => []TypeOK
  BY Invariance, PTL DEF IInv

\* BoundedTravel: in any mesh and with any cache behaviour, the ttl left and
\* the links crossed never add up to more than the sender allowed.
THEOREM BoundedTravel == Spec => []HopBudget
  BY Invariance, PTL DEF IInv

-----------------------------------------------------------------------------
\* A node's count of a packet is justified by its cache, and is 0 for its own.
CountAt(n, p) ==
  /\ n = p.sender => processed[n][p] = 0
  /\ p \notin forgotten[n] =>
       processed[n][p] <= 1 /\ (processed[n][p] > 0 => p \in seen[n])
CountInv == \A n \in Nodes, p \in Packets : CountAt(n, p)

LEMMA CountSteps ==
  ASSUME IInv, CountInv, [Next]_vars, NEW m \in Nodes, NEW q \in Packets
  PROVE  CountAt(m, q)'
  <1>0. /\ CountAt(m, q) /\ processed[m][q] \in Nat
        /\ seen \in [Nodes -> SUBSET Packets] /\ forgotten \in [Nodes -> SUBSET Packets]
        /\ processed \in [Nodes -> [Packets -> Nat]]
    BY DEF CountInv, IInv, TypeOK
  <1>1. CASE UNCHANGED <<processed, forgotten>> /\ seen[m] \subseteq seen'[m]
    BY <1>0, <1>1 DEF CountAt
  <1>2. ASSUME NEW p \in Packets, Send(p) PROVE CountAt(m, q)'
    BY <1>0, <1>1, <1>2 DEF Send
  <1>3. ASSUME NEW c \in copies, DropCopy(c) \/ Lose(c) PROVE CountAt(m, q)'
    BY <1>1, <1>3 DEF DropCopy, Lose
  <1>4. ASSUME NEW c \in copies, AcceptCopy(c) PROVE CountAt(m, q)'
    <2> DEFINE n == c.to
               p == c.pkt
    <2>1. n \in Nodes /\ p \in Packets
      BY DEF IInv, TypeOK
    <2>2. /\ p.sender # n /\ p \notin seen[n] /\ forgotten' = forgotten
          /\ seen' = [seen EXCEPT ![n] = @ \cup {p}]
          /\ processed' = [processed EXCEPT ![n][p] =
                             IF Accepted(n, p, c.ttl).process THEN @ + 1 ELSE @]
      BY <1>4 DEF AcceptCopy, TakeCopy
    <2> HIDE DEF n, p
    <2>3. CASE m = n /\ q = p
      <3>1. processed'[m][q] \in {processed[m][q], processed[m][q] + 1} /\ q \in seen'[m]
        BY <1>0, <2>1, <2>2, <2>3
      <3>2. q \notin forgotten[m] => processed[m][q] = 0
        BY <1>0, <2>2, <2>3 DEF CountAt
      <3> QED
        BY <1>0, <2>2, <2>3, <3>1, <3>2 DEF CountAt
    <2>4. CASE ~(m = n /\ q = p)
      <3>1. processed'[m][q] = processed[m][q] /\ seen[m] \subseteq seen'[m]
        BY <1>0, <2>1, <2>2, <2>4
      <3> QED
        BY <1>0, <2>2, <3>1 DEF CountAt
    <2> QED
      BY <2>3, <2>4
  <1>5. ASSUME NEW n \in Nodes, NEW t \in tasks[n], Relay(n, t) PROVE CountAt(m, q)'
    <2>1. seen' = seen \/ seen' = [seen EXCEPT ![n] = @ \cup {t.pkt}]
      BY <1>5 DEF Relay, RelayDirected, RelayUndirected
    <2>2. UNCHANGED <<processed, forgotten>> /\ seen[m] \subseteq seen'[m]
      BY <1>0, <1>5, <2>1 DEF Relay
    <2> QED
      BY <1>1, <2>2
  <1>6. ASSUME NEW n \in Nodes, NEW p \in Packets, Forget(n, p) PROVE CountAt(m, q)'
    <2>1. CASE m = n /\ q = p
      BY <1>0, <1>6, <2>1 DEF Forget, CountAt
    <2>2. CASE ~(m = n /\ q = p)
      BY <1>0, <1>6, <2>2 DEF Forget, CountAt
    <2> QED
      BY <2>1, <2>2
  <1>7. CASE UNCHANGED vars
    BY <1>1, <1>7 DEF vars
  <1> QED
    BY <1>2, <1>3, <1>4, <1>5, <1>6, <1>7 DEF Next, Progress

LEMMA CountInvariance == Spec => []CountInv
  <1>1. Init => CountInv
    BY MeshAssumption DEF Init, CountInv, CountAt
  <1>2. IInv /\ CountInv /\ [Next]_vars => CountInv'
    BY CountSteps DEF CountInv
  <1> QED
    BY <1>1, <1>2, Invariance, PTL DEF Spec

\* AtMostOnce: in any mesh no node processes a packet twice that its cache has
\* not forgotten, over whatever paths its copies arrive.
THEOREM AtMostOnce == Spec => []ProcessedOnce
  <1>1. CountInv /\ IInv => ProcessedOnce
    BY DEF CountInv, CountAt, ProcessedOnce, IInv, TypeOK
  <1> QED
    BY <1>1, CountInvariance, Invariance, PTL

\* NeverOwn: in any mesh, even one whose caches forget, no node ever processes
\* a packet that it sent itself.
THEOREM NeverOwn == Spec => []OwnNeverProcessed
  <1>1. CountInv => OwnNeverProcessed
    BY MeshAssumption DEF CountInv, CountAt, OwnNeverProcessed
  <1> QED
    BY <1>1, CountInvariance, PTL
=============================================================================
