----------------------------- MODULE Reassembly -----------------------------
(***************************************************************************)
(* Fragmentation at one end of a link and FragmentReassembler at the other *)
(* (protocol/fragmentation.py, protocol/reassembly.py).  Fragments arrive  *)
(* in any order, repeatedly or not at all, mixed with fragments of other   *)
(* packets and with strays that carry inconsistent metadata.               *)
(***************************************************************************)
EXTENDS Picking, SequencesExt

CONSTANTS
  Messages,         \* encoded packets: sender, fid, type and chunks
  Strays,           \* fragments no fragmenter made
  Length,           \* length of each chunk of data
  MaxAssemblies,    \* MAX_ACTIVE_ASSEMBLIES
  MaxFragments,     \* MAX_FRAGMENTS_PER_ASSEMBLY
  ReMaxBytes,         \* MAX_REASSEMBLED_BYTES
  MaxAge,           \* prune_stale's max_age_seconds
  ReMaxTime           \* bound: readings of the monotonic clock

\* The bytes of what has been put together; an encoded packet, whose payload is at
\* most 65535 bytes, is always within the limit.
ChunkBytes(a) == UNION {{i} \X (1..Length[a.chunks[i]]) : i \in DOMAIN a.chunks}
ReBytes(a) == Cardinality(ChunkBytes(a))

ASSUME ReassemblyAssumption ==
  /\ {MaxAssemblies, MaxFragments, ReMaxBytes} \subseteq Nat \ {0}
  /\ MaxAge \in Nat /\ ReMaxTime \in Nat
  /\ Length \in [DOMAIN Length -> Nat]
  /\ \A m \in Messages : m.chunks \in Seq(DOMAIN Length) /\ Len(m.chunks) \in 2..MaxFragments
  /\ \A m \in Messages : ReBytes(m) <= ReMaxBytes
  /\ \A l, m \in Messages : l.sender = m.sender /\ l.fid = m.fid => l = m
  /\ \A f \in Strays : f.data \in DOMAIN Length /\ {f.index, f.total} \subseteq Nat

VARIABLES
  reNow,              \* time.monotonic()
  assemblies,       \* _assemblies, least recently used first
  outputs,          \* packets returned so far
  arrived,          \* history: the messages' fragments that have arrived
  excused           \* history: keys evicted from a full table, pruned as stale
                    \* or contradicted by a stray

reVars == <<reNow, assemblies, outputs, arrived, excused>>

-----------------------------------------------------------------------------
\* fragment_encoded_packet: the type of a fragment tells where it belongs.
KindAt(index, total) ==
  IF index = 0 THEN "start" ELSE IF index = total - 1 THEN "end" ELSE "continue"
FragmentsOf(m) ==
  {[sender |-> m.sender, fid |-> m.fid, type |-> m.type, total |-> Len(m.chunks),
    index |-> i - 1, kind |-> KindAt(i - 1, Len(m.chunks)), data |-> m.chunks[i]] :
      i \in DOMAIN m.chunks}

Network == (UNION {FragmentsOf(m) : m \in Messages}) \cup Strays

Key(f) == <<f.sender, f.fid>>
SameKey(a, f) == Key(a) = Key(f)
KeyPosition(f) == {i \in DOMAIN assemblies : SameKey(assemblies[i], f)}

ReTypeOK ==
  /\ reNow \in 0..ReMaxTime
  /\ \A i \in DOMAIN assemblies :
       LET a == assemblies[i]
       IN  /\ a.at \in 0..reNow /\ a.total \in 1..MaxFragments
           /\ DOMAIN a.chunks \subseteq 0..(a.total - 1)
  /\ arrived \subseteq Network
  /\ excused \subseteq {Key(f) : f \in Network}

ReInit ==
  /\ reNow = 0
  /\ assemblies = <<>>
  /\ outputs = {}
  /\ arrived = {} /\ excused = {}

-----------------------------------------------------------------------------
\* parse_fragment_payload and add_fragment_packet: what is rejected unseen.
\* A packet of one fragment would have to be both its start and its end.
WellFormed(f) ==
  /\ f.total > 0 /\ f.index \in 0..(f.total - 1) /\ f.total <= MaxFragments
  /\ f.index = 0 => f.kind = "start"
  /\ f.index = f.total - 1 => f.kind = "end"
  /\ f.index \in 1..(f.total - 2) => f.kind = "continue"

Filled(a, f) == [i \in DOMAIN a.chunks \cup {f.index} |->
                  IF i = f.index THEN f.data ELSE a.chunks[i]]
Complete(a)  == Cardinality(DOMAIN a.chunks) = a.total
Joined(a)    == [i \in 1..a.total |-> a.chunks[i - 1]]

TooLarge(a)      == ReBytes(a) > ReMaxBytes

\* _insert_chunk's end: rest is the table without the assembly a, which is
\* excused when it grows too large, returned when it is complete, and otherwise
\* put back as the most recently used.
Put(rest, a, f) ==
  LET b == [a EXCEPT !.chunks = Filled(a, f)]
  IN  IF TooLarge(b)
      THEN assemblies' = rest /\ UNCHANGED outputs
      ELSE IF Complete(b)
      THEN /\ assemblies' = rest
           /\ outputs' = outputs \cup {[sender |-> b.sender, fid |-> b.fid,
                                        type |-> b.type, data |-> Joined(b)]}
      ELSE assemblies' = Append(rest, b) /\ UNCHANGED outputs

Reject(f) == ~WellFormed(f) /\ UNCHANGED <<assemblies, outputs>>

\* A full table gives up its least recently used assembly.
Room == IF Len(assemblies) >= MaxAssemblies THEN Tail(assemblies) ELSE assemblies

\* The first fragment of an assembly, which may push out the least recent one.
OpenAssembly(f) ==
  /\ WellFormed(f) /\ KeyPosition(f) = {}
  /\ Put(Room, [sender |-> f.sender, fid |-> f.fid, type |-> f.type, total |-> f.total,
                 chunks |-> <<>>, at |-> reNow], f)

ConflictingData(a, f) == f.index \in DOMAIN a.chunks /\ a.chunks[f.index] # f.data
Conflicting(a, f) == a.total # f.total \/ a.type # f.type \/ ConflictingData(a, f)

\* A fragment of a known assembly: inconsistent or conflicting, it takes the
\* assembly with it; repeated, it only counts as a use.
JoinAssembly(f) ==
  \E i \in KeyPosition(f) :
    LET a == assemblies[i]
        rest == Picked(assemblies, DOMAIN assemblies \ {i})
    IN  /\ WellFormed(f)
        /\ IF Conflicting(a, f)
           THEN assemblies' = rest /\ UNCHANGED outputs
           ELSE IF f.index \in DOMAIN a.chunks
           THEN assemblies' = Append(rest, a) /\ UNCHANGED outputs
           ELSE Put(rest, a, f)

\* The keys that may lose their packet when f arrives: f's own if f is a stray,
\* and the least recently used one if f needs a place in a full table.
Excused(f) ==
  (IF f \in Strays THEN {Key(f)} ELSE {}) \cup
  (IF KeyPosition(f) = {} /\ Len(assemblies) >= MaxAssemblies
   THEN {Key(Head(assemblies))} ELSE {})

Arrive(f) ==
  /\ arrived' = arrived \cup ({f} \ Strays)
  /\ excused' = IF WellFormed(f) THEN excused \cup Excused(f) ELSE excused
  /\ Reject(f) \/ OpenAssembly(f) \/ JoinAssembly(f)
  /\ UNCHANGED reNow

\* prune_stale
Stale(a) == reNow - a.at > MaxAge
RePruneStale ==
  /\ assemblies' = Picked(assemblies, {i \in DOMAIN assemblies : ~Stale(assemblies[i])})
  /\ excused' = excused \cup {Key(a) : a \in {b \in Range(assemblies) : Stale(b)}}
  /\ UNCHANGED <<reNow, outputs, arrived>>

ReTick == reNow < ReMaxTime /\ reNow' = reNow + 1 /\ UNCHANGED <<assemblies, outputs, arrived, excused>>

ReNext ==
  \/ \E f \in Network : Arrive(f)
  \/ RePruneStale
  \/ ReTick

ReSpec == ReInit /\ [][ReNext]_reVars

-----------------------------------------------------------------------------
\* OutputsAuthentic: every packet returned consists, index by index, of chunks
\* that well-formed fragments of that sender, identifier, type and length
\* carried: no order of arrival mixes senders, identifiers or lengths.
OutputsAuthentic ==
  \A o \in outputs : \A i \in DOMAIN o.data :
    \E f \in Network :
      /\ WellFormed(f) /\ SameKey(o, f)
      /\ f.type = o.type /\ f.total = Len(o.data) /\ f.index = i - 1 /\ f.data = o.data[i]

\* MemoryBounded: in-progress assemblies never exceed their number nor, each,
\* the byte limit, and none is complete without having been returned.
MemoryBounded ==
  /\ Len(assemblies) <= MaxAssemblies
  /\ \A i \in DOMAIN assemblies : ReBytes(assemblies[i]) <= ReMaxBytes /\ ~Complete(assemblies[i])

\* NoSilentLoss: a packet whose fragments have all arrived, in whatever order
\* and however often, among fragments of others, has been returned, unless a
\* stray contradicted it or its assembly was the least recently used of a full
\* table or had grown stale.
Returned(m) == [sender |-> m.sender, fid |-> m.fid, type |-> m.type, data |-> m.chunks]
NoSilentLoss ==
  \A m \in Messages :
    FragmentsOf(m) \subseteq arrived /\ Key(m) \notin excused => Returned(m) \in outputs

\* ReSafe: outputs come from one source each, memory is bounded, and a packet whose
\* fragments all arrived is lost only for a reason.
ReSafe == ReTypeOK /\ OutputsAuthentic /\ MemoryBounded /\ NoSilentLoss
=============================================================================
