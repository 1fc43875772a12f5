-------------------------------- MODULE Dedup --------------------------------
(***************************************************************************)
(* PacketDeduplicator (mesh/dedup.py): an ordered dictionary from packet   *)
(* identifier to the time it was last recorded, oldest record first, with  *)
(* at most MaxEntries entries that count for Ttl ticks.  An identifier     *)
(* stands for compute_packet_id's hash of the fields that relaying keeps.  *)
(***************************************************************************)
EXTENDS Picking, FiniteSetsExt, SequencesExt

CONSTANTS
  Ids,            \* packet identifiers
  MaxEntries,     \* max_entries
  Ttl,            \* entry_ttl_seconds
  StepBack,       \* how far the wall clock may be set back at once
  MaxTime,        \* bound: readings of the wall clock
  MaxLog          \* bound: records made

ASSUME DedupAssumption ==
  /\ MaxEntries \in Nat \ {0} /\ Ttl \in Nat \ {0}
  /\ StepBack \in Nat /\ MaxTime \in Nat /\ MaxLog \in Nat

VARIABLES
  now,            \* the wall clock
  entries,        \* _entries, in insertion order
  log,            \* every record made, in order
  setBack         \* history: was the clock ever set back?

dedupVars == <<now, entries, log, setBack>>

Entry == [id : Ids, at : 0..MaxTime]

DedupTypeOK ==
  /\ now \in 0..MaxTime
  /\ entries \in Seq(Entry) /\ Len(entries) <= MaxEntries
  /\ \A i, j \in DOMAIN entries : entries[i].id = entries[j].id => i = j
  /\ log \in Seq(Entry) /\ setBack \in BOOLEAN

DedupInit == now = 0 /\ entries = <<>> /\ log = <<>> /\ setBack = FALSE

-----------------------------------------------------------------------------
Fresh(e) == now - e.at <= Ttl

\* is_id_duplicate: present and not expired.
IsIdDuplicate(id) == \E i \in DOMAIN entries : entries[i].id = id /\ Fresh(entries[i])

Without(es, id) == Picked(es, {i \in DOMAIN es : es[i].id # id})
Holds(es, id)   == \E i \in DOMAIN es : es[i].id = id

\* record_id: a known identifier moves to the end, a new one may push out the
\* oldest.
RecordId(es, id) ==
  Append(IF Holds(es, id) THEN Without(es, id)
         ELSE IF Len(es) >= MaxEntries THEN Tail(es) ELSE es,
         [id |-> id, at |-> now])

\* record: what the node sends itself is remembered too.
Record(id) ==
  /\ entries' = RecordId(entries, id)
  /\ log' = Append(log, [id |-> id, at |-> now])

\* check_and_record, for an identifier that is new: an expired entry found on
\* the way is deleted first.  A duplicate changes nothing.
RecordNew(id) ==
  /\ ~IsIdDuplicate(id)
  /\ entries' = RecordId(Without(entries, id), id)
  /\ log' = Append(log, [id |-> id, at |-> now])

\* prune_expired: stop at the first entry that still counts.
PrunedOneTooMany ==
  LET live == {i \in DOMAIN entries : Fresh(entries[i])}
  IN  IF live = {} THEN <<>> ELSE SubSeq(entries, Min(live) + 1, Len(entries))
PrunedEntries ==
  LET live == {i \in DOMAIN entries : Fresh(entries[i])}
  IN  IF live = {} THEN <<>> ELSE SubSeq(entries, Min(live), Len(entries))

\* time.time(): ahead by any amount, back by at most StepBack and (bound) once.
SetClock ==
  /\ now' \in {t \in 0..MaxTime : t >= now \/ (t >= now - StepBack /\ ~setBack)}
  /\ setBack' = (setBack \/ now' < now)

-----------------------------------------------------------------------------
\* The records made after the last one of id, and whether that one still counts.
LastOf(id)   == Max({i \in DOMAIN log : log[i].id = id})
LaterIds(id) == {log[i].id : i \in (LastOf(id) + 1)..Len(log)}
Remembered ==
  {id \in {log[i].id : i \in DOMAIN log} :
     Fresh(log[LastOf(id)]) /\ Cardinality(LaterIds(id)) < MaxEntries}

\* ExactMemory: the cache answers "duplicate" for exactly the identifiers last
\* recorded within Ttl and followed by fewer than MaxEntries others: neither
\* expiry, refresh nor pruning costs an entry.  When the clock is set back
\* entries are no longer in the order of their times, as prune_expired assumes:
\* an entry may then be lost, but still nothing else is suppressed.
ExactMemory ==
  LET duplicates == {id \in Ids : IsIdDuplicate(id)}
  IN  duplicates \subseteq Remembered /\ (~setBack => duplicates = Remembered)
=============================================================================
