------------------------- MODULE NoiseCipher_proofs -------------------------
(***************************************************************************)
(* NoiseCipher's invariants, for every window size, prefix width and bound *)
(* on keys and counters.  The replay window forgets, so none of them is    *)
(* inductive: IInv says what the forgetful window still knows about the    *)
(* frames read under the current key.                                      *)
(***************************************************************************)
EXTENDS NoiseCipher, FiniteSetTheorems, TLAPS

\* Was the frame with this counter read under the current key?
Read(c) == \E f \in Frames : f.key = recvKey /\ f.counter = c /\ timesRead[f] > 0

\* Nothing was ever read under a key the receiver does not have yet.
FutureUnread == \A f \in Frames : f.key > recvKey => timesRead[f] = 0

\* The high-water mark bounds what was read, and is itself read once anything is.
HighestBounds == \A c \in Nat : Read(c) => c <= highest
HighestRead   == highest > 0 => Read(highest)

\* Within Window of the mark, the window is exactly what was read.
WindowRemembers == \A c \in Nat : Read(c) /\ c + Window > highest => c \in replayWindow
WindowHonest    == \A c \in replayWindow : Read(c) /\ c + Window > highest

\* In handshake mode the internal counter counts the frames read.
CounterCounts == \A c \in Nat : Read(c) <=> c < recvNonce

IInv ==
  /\ TypeOK
  /\ NoReplay
  /\ FutureUnread
  /\ useExtractedNonce =>
       HighestBounds /\ HighestRead /\ WindowRemembers /\ WindowHonest
  /\ ~useExtractedNonce =>
       CounterCounts /\ replayWindow = {} /\ highest = 0

-----------------------------------------------------------------------------
LEMMA InitIInv == Init => IInv
<1> SUFFICES ASSUME Init PROVE IInv
  OBVIOUS
<1> USE CipherAssumption DEF Init, NoKey
<1>1. TypeOK
  BY DEF TypeOK, Outcomes
<1>2. \A f \in Frames : timesRead[f] = 0
  OBVIOUS
<1>3. \A c : ~Read(c)
  BY <1>2 DEF Read
<1>4. NoReplay /\ FutureUnread
  BY <1>2 DEF NoReplay, FutureUnread
<1>5. HighestBounds /\ HighestRead /\ WindowRemembers /\ WindowHonest
  BY <1>3 DEF HighestBounds, HighestRead, WindowRemembers, WindowHonest
<1>6. CounterCounts
  BY <1>3 DEF CounterCounts
<1> QED
  BY <1>1, <1>4, <1>5, <1>6 DEF IInv

\* A step that leaves the receiver and what was read alone keeps IInv.
LEMMA UnreadStep ==
  ASSUME IInv, TypeOK', UNCHANGED <<useExtractedNonce, receiver, timesRead>>
  PROVE  IInv'
<1> USE DEF receiver
<1>1. \A c : Read(c)' <=> Read(c)
  BY DEF Read
<1> QED
  BY <1>1 DEF IInv, NoReplay, FutureUnread, HighestBounds, HighestRead,
     WindowRemembers, WindowHonest, CounterCounts

\* Reading one more frame adds exactly its counter to what was read.
LEMMA ReadStep ==
  ASSUME TypeOK, NEW f \in Frames, f.key = recvKey, UNCHANGED recvKey,
         timesRead' = [timesRead EXCEPT ![f] = @ + 1]
  PROVE  \A c : Read(c)' <=> Read(c) \/ c = f.counter
<1>1. \A g \in Frames : timesRead'[g] = IF g = f THEN timesRead[f] + 1 ELSE timesRead[g]
  BY DEF TypeOK
<1>2. \A g \in Frames : timesRead[g] \in Nat
  BY DEF TypeOK
<1>3. timesRead'[f] > 0
  BY <1>1, <1>2
<1>4. \A g \in Frames : timesRead[g] > 0 => timesRead'[g] > 0
  BY <1>1, <1>2
<1>5. \A g \in Frames : timesRead'[g] > 0 => timesRead[g] > 0 \/ g = f
  BY <1>1, <1>2
<1> QED
  BY <1>3, <1>4, <1>5 DEF Read

\* Frames are told apart by key and counter.
LEMMA FrameUnique ==
  ASSUME NEW f \in Frames, NEW g \in Frames, f.key = g.key, f.counter = g.counter
  PROVE  f = g
BY DEF Frames

LEMMA FrameType ==
  ASSUME NEW f \in Frames
  PROVE  f.key \in 1..MaxKey /\ f.counter \in 0..(MaxCounter - 1) /\ f.counter \in Nat
BY CipherAssumption DEF Frames
-----------------------------------------------------------------------------
\* A frame read in handshake mode is the next one, never read before.
LEMMA DeliverUnread ==
  ASSUME IInv, NEW f \in Frames, NEW prefix \in NoncePrefixes, NEW intact \in BOOLEAN,
         DecryptDeliver(f, prefix, intact)
  PROVE  timesRead[f] = 0
<1> USE CipherAssumption
<1>1. f.key = recvKey /\ f.counter = OpeningNonce(prefix) /\ f.counter \in Nat
  BY FrameType DEF DecryptDeliver, Opens
<1>2. timesRead[f] \in Nat
  BY DEF IInv, TypeOK
<1>3. SUFFICES ASSUME Read(f.counter) PROVE FALSE
  BY <1>1, <1>2 DEF Read
<1>4. CASE useExtractedNonce
  <2>1. IsValidNonce(f.counter)
    BY <1>1, <1>4 DEF DecryptDeliver, Replayed, OpeningNonce
  <2>2. f.counter <= highest /\ (f.counter + Window > highest => f.counter \in replayWindow)
    BY <1>1, <1>3, <1>4 DEF IInv, HighestBounds, WindowRemembers
  <2>3. highest \in Nat
    BY DEF IInv, TypeOK
  <2> QED
    BY <1>1, <2>1, <2>2, <2>3 DEF IsValidNonce
<1>5. CASE ~useExtractedNonce
  <2>1. f.counter = recvNonce /\ f.counter < recvNonce
    BY <1>1, <1>3, <1>5 DEF OpeningNonce, IInv, CounterCounts
  <2> QED
    BY <1>1, <2>1
<1> QED
  BY <1>4, <1>5

\* In transport mode a delivery slides the window without losing track.
LEMMA DeliverWindow ==
  ASSUME IInv, useExtractedNonce, NEW f \in Frames, NEW prefix \in NoncePrefixes,
         NEW intact \in BOOLEAN, DecryptDeliver(f, prefix, intact)
  PROVE  /\ HighestBounds' /\ HighestRead' /\ WindowRemembers' /\ WindowHonest'
         /\ replayWindow' \subseteq 0..(WireSize - 1) /\ highest' \in 0..(WireSize - 1)
<1> USE CipherAssumption
<1> DEFINE n == f.counter
<1>1. n = prefix /\ n \in 0..(WireSize - 1) /\ f.key = recvKey
  BY DEF DecryptDeliver, Opens, OpeningNonce, Unreadable, Short, NoncePrefixes
<1>2. MarkNonceSeen(n) /\ IsValidNonce(n)
  BY <1>1 DEF DecryptDeliver, Replayed
<1>3. \A c : Read(c)' <=> Read(c) \/ c = n
  BY <1>1, ReadStep DEF DecryptDeliver, IInv
<1>4. highest \in Nat /\ highest < WireSize /\ n \in Nat /\ replayWindow \subseteq Nat
  BY <1>1 DEF IInv, TypeOK
<1>5. HighestBounds /\ HighestRead /\ WindowRemembers /\ WindowHonest
  BY DEF IInv
<1> HIDE DEF n
<1>6. highest' = IF n > highest THEN n ELSE highest
  BY <1>2 DEF MarkNonceSeen
<1>7. \A c \in Nat : c \in replayWindow' <=>
        c = n \/ (c \in replayWindow /\ c + Window > highest')
  <2>1. CASE n > highest
    <3>1. CASE n - highest >= Window
      <4>1. replayWindow' = {n}
        BY <1>2, <2>1, <3>1, <1>4 DEF MarkNonceSeen
      <4>2. \A c \in replayWindow : c <= highest
        BY <1>5, <1>4 DEF WindowHonest, HighestBounds
      <4> QED
        BY <4>1, <4>2, <3>1, <2>1, <1>4, <1>6
    <3>2. CASE ~(n - highest >= Window)
      <4>1. replayWindow' = {n} \cup {m \in replayWindow : m + Window > n}
        BY <1>2, <2>1, <3>2 DEF MarkNonceSeen
      <4> QED
        BY <4>1, <2>1, <1>6
    <3> QED
      BY <3>1, <3>2
  <2>2. CASE ~(n > highest)
    <3>1. replayWindow' = {n} \cup replayWindow
      BY <1>2, <2>2 DEF MarkNonceSeen
    <3> QED
      BY <3>1, <2>2, <1>6, <1>5 DEF WindowHonest
  <2> QED
    BY <2>1, <2>2
<1>8. HighestBounds' /\ HighestRead'
  BY <1>3, <1>4, <1>5, <1>6 DEF HighestBounds, HighestRead
<1>9. WindowRemembers'
  <2> SUFFICES ASSUME NEW c \in Nat, Read(c)', c + Window > highest'
               PROVE  c \in replayWindow'
    BY DEF WindowRemembers
  <2>1. CASE c = n
    BY <2>1, <1>7
  <2>2. CASE c # n
    <3>1. Read(c) /\ c + Window > highest
      BY <2>2, <1>3, <1>4, <1>6
    <3> QED
      BY <3>1, <1>5, <1>7 DEF WindowRemembers
  <2> QED
    BY <2>1, <2>2
<1>10. replayWindow' \subseteq 0..(WireSize - 1)
  <2>1. replayWindow \subseteq 0..(WireSize - 1)
    BY DEF IInv, TypeOK
  <2> QED
    BY <2>1, <1>1, <1>2 DEF MarkNonceSeen, n
<1>11. WindowHonest'
  <2> SUFFICES ASSUME NEW c \in replayWindow'
               PROVE  Read(c)' /\ c + Window > highest'
    BY DEF WindowHonest
  <2>1. c \in Nat
    BY <1>10
  <2>2. CASE c = n
    BY <2>2, <1>2, <1>3, <1>4, <1>6 DEF IsValidNonce
  <2>3. CASE c # n
    BY <2>1, <2>3, <1>3, <1>5, <1>7 DEF WindowHonest
  <2> QED
    BY <2>2, <2>3
<1>12. highest' \in 0..(WireSize - 1)
  BY <1>1, <1>4, <1>6 DEF n
<1> QED
  BY <1>8, <1>9, <1>10, <1>11, <1>12

\* A delivery keeps the whole invariant, in both modes.
LEMMA DeliverStep ==
  ASSUME IInv, NEW f \in Frames, NEW prefix \in NoncePrefixes, NEW intact \in BOOLEAN,
         DecryptDeliver(f, prefix, intact)
  PROVE  IInv'
<1> USE CipherAssumption
<1>1. timesRead[f] = 0
  BY DeliverUnread
<1>2. /\ timesRead' = [timesRead EXCEPT ![f] = @ + 1] /\ f.key = recvKey
      /\ recvKey' = recvKey /\ sendKey' = sendKey /\ sendNonce' = sendNonce
      /\ network' = network /\ outcome' = "delivered" /\ TypeOK
      /\ useExtractedNonce' = useExtractedNonce
  BY DEF DecryptDeliver, Opens, sender, IInv
<1>3. timesRead' \in [Frames -> Nat]
  BY <1>2 DEF TypeOK
<1>4. NoReplay' /\ FutureUnread'
  <2>1. \A g \in Frames : timesRead'[g] = IF g = f THEN 1 ELSE timesRead[g]
    BY <1>1, <1>2 DEF TypeOK
  <2>2. recvKey \in Nat
    BY <1>2 DEF TypeOK
  <2> QED
    BY <2>1, <2>2, <1>2 DEF IInv, NoReplay, FutureUnread
<1>5. CASE useExtractedNonce
  <2>1. recvNonce' = recvNonce
    BY <1>5 DEF DecryptDeliver
  <2>2. TypeOK'
    BY <1>2, <1>3, <1>5, <2>1, DeliverWindow DEF TypeOK, Outcomes
  <2> QED
    BY <1>2, <1>4, <1>5, <2>2, DeliverWindow DEF IInv
<1>6. CASE ~useExtractedNonce
  <2>1. /\ recvNonce' = recvNonce + 1 /\ replayWindow' = replayWindow
        /\ highest' = highest /\ f.counter = recvNonce
    BY <1>6 DEF DecryptDeliver, Opens, OpeningNonce
  <2>2. recvNonce' \in 0..MaxCounter
    BY <2>1, FrameType
  <2>3. TypeOK'
    BY <1>2, <1>3, <2>1, <2>2 DEF TypeOK, Outcomes
  <2>4. \A c : Read(c)' <=> Read(c) \/ c = recvNonce
    BY <1>2, <2>1, ReadStep
  <2>5. CounterCounts'
    BY <2>1, <2>2, <2>4, <1>2, <1>6 DEF IInv, CounterCounts, TypeOK
  <2> QED
    BY <1>2, <1>4, <1>6, <2>1, <2>3, <2>5 DEF IInv
<1> QED
  BY <1>5, <1>6

-----------------------------------------------------------------------------
LEMMA NextIInv == IInv /\ [Next]_vars => IInv'
<1> SUFFICES ASSUME IInv, [Next]_vars PROVE IInv'
  OBVIOUS
<1> USE CipherAssumption
<1>0. TypeOK
  BY DEF IInv
<1>1. CASE RekeySender
  <2>1. TypeOK'
    BY <1>0, <1>1 DEF RekeySender, TypeOK, receiver
  <2> QED
    BY <1>1, <2>1, UnreadStep DEF RekeySender, receiver
<1>2. CASE RekeyReceiver
  <2>1. TypeOK'
    BY <1>0, <1>2 DEF RekeyReceiver, TypeOK, sender, Outcomes
  <2>2. /\ recvKey' = recvKey + 1 /\ recvNonce' = 0 /\ replayWindow' = {}
        /\ highest' = 0 /\ timesRead' = timesRead /\ recvKey \in Nat
    BY <1>0, <1>2 DEF RekeyReceiver, TypeOK
  <2>3. \A c : ~Read(c)'
    BY <2>2, FrameType DEF IInv, FutureUnread, Read
  <2>4. NoReplay' /\ FutureUnread'
    BY <2>2, FrameType DEF IInv, NoReplay, FutureUnread
  <2>5. HighestBounds' /\ HighestRead' /\ WindowRemembers' /\ WindowHonest'
    BY <2>2, <2>3 DEF HighestBounds, HighestRead, WindowRemembers, WindowHonest
  <2>6. CounterCounts'
    BY <2>2, <2>3 DEF CounterCounts
  <2> QED
    BY <2>1, <2>2, <2>4, <2>5, <2>6 DEF IInv
<1>3. CASE Encrypt
  <2>1. TypeOK'
    <3>1. [key |-> sendKey, counter |-> sendNonce] \in Frames
      BY <1>0, <1>3 DEF Encrypt, TypeOK, Frames, NoKey
    <3> QED
      BY <1>0, <1>3, <3>1 DEF Encrypt, TypeOK, receiver
  <2> QED
    BY <1>3, <2>1, UnreadStep DEF Encrypt, receiver
<1>4. CASE \E f \in network : Decrypt(f)
  <2>1. PICK f \in Frames, prefix \in NoncePrefixes, intact \in BOOLEAN :
          \/ DecryptDiscard(prefix)
          \/ DecryptReplay(prefix)
          \/ DecryptForged(f, prefix, intact)
          \/ DecryptDeliver(f, prefix, intact)
    BY <1>0, <1>4 DEF Decrypt, TypeOK
  <2>2. CASE \E why \in Outcomes : Refuse(why)
    <3>1. TypeOK'
      BY <1>0, <2>2 DEF Refuse, TypeOK, sender, receiver
    <3> QED
      BY <2>2, <3>1, UnreadStep DEF Refuse, sender
  <2>3. CASE DecryptDeliver(f, prefix, intact)
    BY <2>3, DeliverStep
  <2> QED
    BY <2>1, <2>2, <2>3
    DEF DecryptDiscard, DecryptReplay, DecryptForged, Outcomes
<1>5. CASE UNCHANGED vars
  <2>1. TypeOK'
    BY <1>0, <1>5 DEF vars, sender, receiver, TypeOK
  <2> QED
    BY <1>5, <2>1, UnreadStep DEF vars, sender
<1> QED
  BY <1>1, <1>2, <1>3, <1>4, <1>5 DEF Next

\* The strengthened invariant holds of the cipher in every reachable state.
THEOREM Inductive == Spec => []IInv
BY InitIInv, NextIInv, PTL DEF Spec

\* The cipher states, the frames and the bookkeeping keep their types: in
\* particular the window never holds a counter the wire cannot carry.
THEOREM TypeCorrect == Spec => []TypeOK
<1>1. IInv => TypeOK
  BY DEF IInv
<1> QED
  BY <1>1, Inductive, PTL

\* decrypt returns no plaintext twice, in either mode, for every window size.
THEOREM ReplayProtection == Spec => []NoReplay
<1>1. IInv => NoReplay
  BY DEF IInv
<1> QED
  BY <1>1, Inductive, PTL
\* The window's memory is bounded by Window however far arrivals jump.
THEOREM BoundedWindow == Spec => []WindowBounded
<1>1. ASSUME IInv PROVE WindowBounded
  <2> USE CipherAssumption
  <2> DEFINE low == IF highest < Window THEN 0 ELSE highest - Window + 1
  <2>0. highest \in Nat /\ low \in Nat
    BY <1>1 DEF IInv, TypeOK
  <2>1. replayWindow \subseteq low..highest
    <3>1. CASE useExtractedNonce
      BY <1>1, <2>0, <3>1 DEF IInv, TypeOK, WindowHonest, HighestBounds
    <3>2. CASE ~useExtractedNonce
      BY <1>1, <3>2 DEF IInv
    <3> QED
      BY <3>1, <3>2
  <2>2. IsFiniteSet(low..highest) /\ Cardinality(low..highest) <= Window
    BY <2>0, FS_Interval
  <2>3. Cardinality(replayWindow) <= Cardinality(low..highest)
    BY <2>1, <2>2, FS_Subset
  <2>4. IsFiniteSet(replayWindow) /\ Cardinality(replayWindow) \in Nat
        /\ Cardinality(low..highest) \in Nat
    BY <2>1, <2>2, FS_Subset, FS_CardinalityType
  <2> QED
    BY <2>2, <2>3, <2>4 DEF WindowBounded
<1> QED
  BY <1>1, Inductive, PTL

\* ReadNow is the set of counters Read names.
LEMMA ReadNowRead == \A c : c \in ReadNow <=> Read(c)
BY DEF ReadNow, Read

\* The window's verdict on a counter is the verdict of a full memory.
LEMMA VerdictExact ==
  ASSUME IInv, useExtractedNonce, NEW n \in 0..(WireSize - 1)
  PROVE  IsValidNonce(n) <=> Filter!Fresh(n)
<1> USE CipherAssumption
<1>1. highest \in Nat /\ n \in Nat /\ Window \in Nat \ {0}
  BY DEF IInv, TypeOK
<1>2. \A c \in ReadNow : c \in Nat /\ c <= highest
  <2>1. \A c \in ReadNow : c \in Nat
    BY FrameType DEF ReadNow
  <2> QED
    BY <2>1, ReadNowRead DEF IInv, HighestBounds
<1>3. ASSUME IsValidNonce(n) PROVE Filter!Fresh(n)
  <2>1. n \notin ReadNow
    BY <1>1, <1>2, <1>3, ReadNowRead DEF IsValidNonce, IInv, WindowRemembers
  <2>2. \A m \in ReadNow : m < n + Window
    BY <1>1, <1>2, <1>3 DEF IsValidNonce
  <2> QED
    BY <2>1, <2>2 DEF Filter!Fresh
<1>4. ASSUME Filter!Fresh(n) PROVE IsValidNonce(n)
  <2>1. n + Window > highest
    BY <1>1, <1>4, ReadNowRead DEF Filter!Fresh, IInv, HighestRead
  <2>2. n \notin replayWindow
    BY <1>4, ReadNowRead DEF Filter!Fresh, IInv, WindowHonest
  <2> QED
    BY <2>1, <2>2 DEF IsValidNonce
<1> QED
  BY <1>3, <1>4

\* Nothing the mesh delivers can make decrypt refuse a frame it should read.
THEOREM NoFalseRefusal == Spec => []FreshAccepted
<1>1. ASSUME IInv PROVE FreshAccepted
  <2> USE CipherAssumption
  <2> SUFFICES ASSUME useExtractedNonce, NEW f \in network,
                      f.key = recvKey, f.counter < WireSize, timesRead[f] = 0,
                      \A m \in ReadNow : m < f.counter + Window
               PROVE  /\ IsValidNonce(WireNonce(f.counter))
                      /\ Opens(f, OpeningNonce(WireNonce(f.counter)), TRUE)
    BY DEF FreshAccepted
  <2>1. f \in Frames /\ f.counter \in 0..(WireSize - 1)
    BY <1>1, FrameType DEF IInv, TypeOK
  <2>2. WireNonce(f.counter) = f.counter
    BY <2>1 DEF WireNonce
  <2>3. f.counter \notin ReadNow
    <3> SUFFICES ASSUME NEW g \in Frames, g.key = recvKey, timesRead[g] > 0,
                        g.counter = f.counter
                 PROVE  FALSE
      BY DEF ReadNow
    <3> QED
      BY <2>1, FrameUnique
  <2>4. IsValidNonce(f.counter)
    BY <1>1, <2>1, <2>3, VerdictExact DEF Filter!Fresh
  <2> QED
    BY <2>2, <2>4 DEF Opens, OpeningNonce
<1> QED
  BY <1>1, Inductive, PTL

\* In handshake mode frames are read strictly in sealing order.
THEOREM HandshakeOrder == Spec => []InOrder
<1>1. ASSUME IInv PROVE InOrder
  <2> SUFFICES ASSUME ~useExtractedNonce PROVE ReadNow = 0..(recvNonce - 1)
    BY DEF InOrder
  <2>1. recvNonce \in Nat /\ ReadNow \subseteq Nat
    BY <1>1, FrameType DEF IInv, TypeOK, ReadNow
  <2>2. \A c \in Nat : c \in ReadNow <=> c < recvNonce
    BY <1>1, ReadNowRead DEF IInv, CounterCounts
  <2>3. \A c : c \in 0..(recvNonce - 1) <=> c \in Nat /\ c < recvNonce
    BY <2>1
  <2>4. \A c : c \in ReadNow <=> c \in 0..(recvNonce - 1)
    BY <2>1, <2>2, <2>3
  <2> QED
    BY <2>4, Zenon
<1> QED
  BY <1>1, Inductive, PTL

-----------------------------------------------------------------------------
\* Every step keeps the mode.
LEMMA ModeKept == [Next]_vars => useExtractedNonce' = useExtractedNonce
BY DEF Next, RekeySender, RekeyReceiver, Encrypt, Decrypt, DecryptDiscard,
   DecryptReplay, DecryptForged, DecryptDeliver, Refuse, sender, vars

\* In transport mode every step is a step of the filter with full memory.
LEMMA TransportStep ==
  ASSUME IInv, [Next]_vars, useExtractedNonce
  PROVE  [Filter!Next]_Filter!vars
<1> USE CipherAssumption, ModeKept
<1>0. TypeOK
  BY DEF IInv
<1>1. CASE RekeySender \/ Encrypt \/ UNCHANGED vars
  BY <1>1 DEF RekeySender, Encrypt, vars, receiver, ReadNow, Filter!vars
<1>2. CASE RekeyReceiver
  <2>1. ReadNow' = {}
    BY <1>0, <1>2, FrameType
    DEF RekeyReceiver, IInv, FutureUnread, TypeOK, ReadNow
  <2> QED
    BY <1>2, <2>1 DEF RekeyReceiver, Filter!Next, Filter!Rekey
<1>3. CASE \E f \in network : Decrypt(f)
  <2>1. PICK f \in Frames, prefix \in NoncePrefixes, intact \in BOOLEAN :
          \/ DecryptDiscard(prefix)
          \/ DecryptReplay(prefix)
          \/ DecryptForged(f, prefix, intact)
          \/ DecryptDeliver(f, prefix, intact)
    BY <1>0, <1>3 DEF Decrypt, TypeOK
  <2>2. ~Unreadable(prefix) => prefix \in 0..(WireSize - 1)
    BY DEF Unreadable, NoncePrefixes, Short
  <2>3. ASSUME NEW why, Refuse(why) PROVE ReadNow' = ReadNow /\ outcome' = why
    BY <2>3 DEF Refuse, receiver, ReadNow
  <2>4. CASE DecryptDiscard(prefix)
    BY <2>3, <2>4 DEF DecryptDiscard, Filter!Next, Filter!Discard
  <2>5. CASE DecryptReplay(prefix)
    <3>1. prefix \in 0..(WireSize - 1) /\ ~Filter!Fresh(prefix)
      BY <2>2, <2>5, VerdictExact DEF DecryptReplay, Replayed
    <3>2. Filter!Refuse(prefix)
      BY <2>3, <2>5, <3>1 DEF DecryptReplay, Filter!Refuse
    <3> QED
      BY <3>1, <3>2 DEF Filter!Next
  <2>6. CASE DecryptForged(f, prefix, intact)
    <3>1. prefix \in 0..(WireSize - 1) /\ Filter!Fresh(prefix)
      BY <2>2, <2>6, VerdictExact DEF DecryptForged, Replayed
    <3>2. Filter!Forged(prefix)
      BY <2>3, <2>6, <3>1 DEF DecryptForged, Filter!Forged
    <3> QED
      BY <3>1, <3>2 DEF Filter!Next
  <2>7. CASE DecryptDeliver(f, prefix, intact)
    <3>1. prefix \in 0..(WireSize - 1) /\ Filter!Fresh(prefix)
      BY <2>2, <2>7, VerdictExact DEF DecryptDeliver, Replayed
    <3>2. f.counter = prefix /\ f.key = recvKey /\ recvKey' = recvKey
          /\ timesRead' = [timesRead EXCEPT ![f] = @ + 1] /\ outcome' = "delivered"
      BY <2>7 DEF DecryptDeliver, Opens, OpeningNonce
    <3>3. \A c : Read(c)' <=> Read(c) \/ c = prefix
      BY <1>0, <3>2, ReadStep
    <3>4. \A c : c \in ReadNow' <=> Read(c)'
      BY DEF ReadNow, Read
    <3>5. ReadNow' = ReadNow \cup {prefix}
      BY <3>3, <3>4, ReadNowRead
    <3>6. Filter!Accept(prefix)
      BY <3>1, <3>2, <3>5 DEF Filter!Accept
    <3> QED
      BY <3>1, <3>6 DEF Filter!Next
  <2> QED
    BY <2>1, <2>4, <2>5, <2>6, <2>7
<1> QED
  BY <1>1, <1>2, <1>3 DEF Next

\* The cipher implements the filter with full memory, in either mode.
THEOREM ImplementsFilter == Spec => FilterSpec
<1>1. Init => Filter!Init
  BY DEF Init, Filter!Init, ReadNow
<1>2. ASSUME IInv, [Next]_vars PROVE [Filter!Next]_Filter!vars
  <2>1. CASE useExtractedNonce
    BY <1>2, <2>1, TransportStep
  <2>2. CASE ~useExtractedNonce
    BY <1>2, <2>2, ModeKept DEF Filter!vars
  <2> QED
    BY <2>1, <2>2
<1> QED
  BY <1>1, <1>2, Inductive, PTL DEF Spec, FilterSpec, Filter!Spec
=============================================================================
