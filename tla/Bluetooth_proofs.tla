-------------------------- MODULE Bluetooth_proofs --------------------------
(***************************************************************************)
(* Proofs about Bluetooth: the links of the central (BleLinks), the GATT   *)
(* server of the peripheral (Peripheral), the transport that starts and    *)
(* stops them (BtTransport) and the reassembly of the fragments that       *)
(* arrive over them (Reassembly), for any number of links, backends,       *)
(* adapters and calls and for any packets and strays.                      *)
(***************************************************************************)
EXTENDS BleLinks, Peripheral, BtTransport, Reassembly, Picking_proofs, SequenceTheorems, WellFoundedInduction, TLAPS

-----------------------------------------------------------------------------
(***************************************************************************)
(* The links of the central.                                               *)
(***************************************************************************)

BleRecord ==
  [at : BleDialling \cup {"unborn", "popping", "up", "over"},
   state : {"DISCONNECTED", "CONNECTING", "DISCOVERING_GATT", "SUBSCRIBING", "READY", "DISCONNECTING"},
   client : BOOLEAN, run : BOOLEAN, stop : {"none", "lock", "clean", "done"}, queue : 0..BleQueueMax]

\* What holds of a link by itself: a client is connected only in the states
\* between, and never once connect has failed or the stop is through; a stop ends
\* the worker, and goes on only when connect has released the lock.
BleSound(l) ==
  /\ l.client => l.state \notin {"DISCONNECTED", "CONNECTING"}
  /\ l.at \in {"unborn", "connect", "popping", "over"} => ~l.client
  /\ l.stop = "done" => ~l.client
  /\ l.stop \in {"clean", "done"} => l.at \in {"popping", "up", "over"}
  /\ l.stop # "none" \/ l.at \in {"unborn", "popping", "over"} => ~l.run
  /\ l.at = "unborn" => l.stop = "none"

\* What holds of the link in the table: it has neither failed nor been stopped,
\* and still has its client.
BleListed(l) ==
  /\ l.stop = "none" /\ l.at \notin {"unborn", "over"}
  /\ l.at \in {"gatt", "notify", "up"} => l.client
  /\ l.at = "up" => l.state = "READY"

\* Unless connects overlapped one link at most is not over, and it is the entry
\* or is being stopped.
BleOneLive ==
  ~bleCrossed =>
    /\ \A j, k \in BleIds : ~BleOver(links[j]) /\ ~BleOver(links[k]) => j = k
    /\ \A k \in BleIds : ~BleOver(links[k]) => bleEntry = k \/ links[k].stop # "none"

BleIInv ==
  /\ BleTypeOK /\ \A k \in BleIds : BleSound(links[k])
  /\ bleEntry # 0 => BleListed(links[bleEntry])
  /\ BleOneLive

LEMMA BleQueueEmpty == 0 \in 0..BleQueueMax
  BY BleAssumption

LEMMA BleTypes ==
  ASSUME BleTypeOK
  PROVE  /\ links \in [BleIds -> BleRecord] /\ bleCrossed \in BOOLEAN
         /\ bleEntry # 0 => bleEntry \in BleIds
         /\ 0 \notin BleIds
  BY BleAssumption DEF BleTypeOK, BleRecord, BleIds

\* A record whose stop has begun.
Begun(l) == [l EXCEPT !.stop = "lock", !.run = FALSE, !.queue = 0]

LEMMA BleBegun ==
  ASSUME NEW l \in BleRecord
  PROVE  /\ Begun(l) \in BleRecord /\ Begun(l).stop = "lock" /\ Begun(l).run = FALSE
         /\ Begun(l).at = l.at /\ Begun(l).client = l.client /\ Begun(l).state = l.state
  BY BleQueueEmpty DEF Begun, BleRecord

\* A step of one link that leaves the table alone.
LEMMA BleOneChanges ==
  ASSUME BleIInv, NEW k \in BleIds, NEW l \in BleRecord, links' = [links EXCEPT ![k] = l],
         UNCHANGED <<bleEntry, bleCrossed>>,
         BleSound(l), bleEntry = k => BleListed(l),
         BleOver(links[k]) => BleOver(l), links[k].stop # "none" => l.stop # "none"
  PROVE  BleIInv'
  <1>1. links \in [BleIds -> BleRecord] /\ (bleEntry # 0 => bleEntry \in BleIds)
    BY BleTypes DEF BleIInv
  <1>2. /\ links' \in [BleIds -> BleRecord] /\ links'[k] = l
        /\ \A j \in BleIds : j # k => links'[j] = links[j]
    BY <1>1
  <1>3. BleTypeOK'
    BY <1>2 DEF BleIInv, BleTypeOK, BleRecord
  <1>4. /\ \A j \in BleIds : BleSound(links'[j])
        /\ bleEntry' # 0 => BleListed(links'[bleEntry'])
    BY <1>1, <1>2 DEF BleIInv
  <1>5. BleOneLive'
    BY <1>2 DEF BleIInv, BleOneLive
  <1> QED
    BY <1>3, <1>4, <1>5 DEF BleIInv, BleSound, BleListed

\* A step that empties the table.
LEMMA BleTableEmptied ==
  ASSUME BleIInv, links' \in [BleIds -> BleRecord], bleEntry' = 0, UNCHANGED bleCrossed,
         \A j \in BleIds :
           /\ BleSound(links'[j])
           /\ BleOver(links[j]) => BleOver(links'[j])
           /\ links[j].stop # "none" => links'[j].stop # "none",
         ~bleCrossed /\ bleEntry # 0 => BleOver(links'[bleEntry]) \/ links'[bleEntry].stop # "none"
  PROVE  BleIInv'
  <1>1. BleTypeOK'
    BY BleAssumption DEF BleIInv, BleTypeOK, BleRecord
  <1>2. BleOneLive'
    BY BleTypes DEF BleIInv, BleOneLive
  <1> QED
    BY <1>1, <1>2 DEF BleIInv, BleSound, BleListed

\* StopOf begins the stop of the link in the table, if there is one.
LEMMA BleStopOfIs ==
  ASSUME BleIInv, NEW ls \in [BleIds -> BleRecord], \A j \in BleIds : ls[j].stop = links[j].stop
  PROVE  /\ StopOf(ls, bleEntry) \in [BleIds -> BleRecord]
         /\ bleEntry # 0 => StopOf(ls, bleEntry)[bleEntry] = Begun(ls[bleEntry])
         /\ \A j \in BleIds \ {bleEntry} : StopOf(ls, bleEntry)[j] = ls[j]
  <1>1. CASE bleEntry = 0
    BY <1>1, BleTypes DEF BleIInv, StopOf
  <1>2. CASE bleEntry # 0
    <2> DEFINE l == Begun(ls[bleEntry])
    <2>1. bleEntry \in BleIds /\ ls[bleEntry].stop = "none"
      BY <1>2, BleTypes DEF BleIInv, BleListed
    <2>2. l \in BleRecord
      BY <2>1, BleBegun
    <2>3. StopOf(ls, bleEntry) = [ls EXCEPT ![bleEntry] = l]
      BY <1>2, <2>1 DEF StopOf, StopBegun, Begun
    <2> HIDE DEF l
    <2>4. /\ StopOf(ls, bleEntry) \in [BleIds -> BleRecord]
          /\ \A j \in BleIds : StopOf(ls, bleEntry)[j] = IF j = bleEntry THEN l ELSE ls[j]
      BY <2>1, <2>2, <2>3
    <2> QED
      BY <2>1, <2>4 DEF l
  <1> QED
    BY <1>1, <1>2

\* What _handle_peer_disconnected leaves of the link itself.
LEMMA BleClientLost ==
  ASSUME BleIInv, NEW k \in BleIds
  PROVE  LET D == Disconnected(links, k) IN
         /\ D[1] = 0 /\ D[2] \in [BleIds -> BleRecord]
         /\ D[2][k].at = links[k].at /\ D[2][k].client = FALSE /\ D[2][k].state = "DISCONNECTED"
         /\ D[2][k].stop \in {links[k].stop, "lock"} /\ D[2][k].run \in {links[k].run, FALSE}
         /\ D[2][k].stop # links[k].stop => D[2][k].run = FALSE /\ links[k].stop = "none"
  <1> DEFINE base == [links EXCEPT ![k].client = FALSE, ![k].state = "DISCONNECTED"]
             ls == StopOf(base, bleEntry)
  <1>1. links \in [BleIds -> BleRecord] /\ links[k] \in BleRecord
    BY BleTypes DEF BleIInv
  <1>2. /\ base \in [BleIds -> BleRecord] /\ base[k] \in BleRecord
        /\ \A j \in BleIds : base[j].stop = links[j].stop
        /\ base[k].at = links[k].at /\ base[k].run = links[k].run
        /\ base[k].client = FALSE /\ base[k].state = "DISCONNECTED"
    BY <1>1 DEF BleRecord
  <1>3. Disconnected(links, k) = <<0, ls>>
    BY DEF Disconnected
  <1> HIDE DEF base
  <1>4. /\ ls \in [BleIds -> BleRecord]
        /\ k = bleEntry => ls[k] = Begun(base[k])
        /\ k # bleEntry => ls[k] = base[k]
    BY <1>2, BleStopOfIs, BleTypes DEF BleIInv
  <1>5. k = bleEntry => links[k].stop = "none"
    BY BleTypes DEF BleIInv, BleListed
  <1> HIDE DEF ls
  <1>6. /\ ls[k].at = links[k].at /\ ls[k].client = FALSE /\ ls[k].state = "DISCONNECTED"
        /\ ls[k].stop \in {links[k].stop, "lock"} /\ ls[k].run \in {links[k].run, FALSE}
        /\ ls[k].stop # links[k].stop => ls[k].run = FALSE /\ links[k].stop = "none"
    BY <1>2, <1>4, <1>5, BleBegun
  <1>7. Disconnected(links, k)[1] = 0 /\ Disconnected(links, k)[2] = ls
    BY <1>3
  <1> QED
    BY <1>4, <1>6, <1>7

\* A link whose client goes: the table is emptied, and the link it listed begins to
\* stop.  "after" is what the action does to the link itself besides.
LEMMA BleClientGoes ==
  ASSUME BleIInv, NEW k \in BleIds, links[k].client, NEW after \in BleRecord,
         bleEntry' = Disconnected(links, k)[1], UNCHANGED bleCrossed,
         links' = [Disconnected(links, k)[2] EXCEPT ![k] = after],
         LET l == Disconnected(links, k)[2][k] IN
           /\ after.client = FALSE /\ BleSound(after)
           /\ l.stop # "none" => after.stop # "none"
  PROVE  BleIInv'
  <1> DEFINE base == [links EXCEPT ![k].client = FALSE, ![k].state = "DISCONNECTED"]
  <1>1. links \in [BleIds -> BleRecord] /\ \A j \in BleIds : links[j] \in BleRecord /\ BleSound(links[j])
    BY BleTypes DEF BleIInv
  <1>2. /\ base \in [BleIds -> BleRecord] /\ \A j \in BleIds : base[j].stop = links[j].stop
        /\ \A j \in BleIds \ {k} : base[j] = links[j]
    <2>1. links[k] \in BleRecord
      BY <1>1
    <2> DEFINE r == [links[k] EXCEPT !.client = FALSE, !.state = "DISCONNECTED"]
    <2>2. r \in BleRecord /\ r.stop = links[k].stop
      BY <2>1 DEF BleRecord
    <2>3. base = [links EXCEPT ![k] = r]
      BY <1>1
    <2> HIDE DEF r, base
    <2> QED
      BY <1>1, <2>2, <2>3
  <1>3. Disconnected(links, k) = <<0, StopOf(base, bleEntry)>>
    BY DEF Disconnected
  <1> HIDE DEF base
  <1> DEFINE ls == StopOf(base, bleEntry)
  <1>4. /\ ls \in [BleIds -> BleRecord]
        /\ bleEntry # 0 => ls[bleEntry] = Begun(base[bleEntry])
        /\ \A j \in BleIds \ {bleEntry} : ls[j] = base[j]
    BY <1>2, BleStopOfIs
  <1>5. bleEntry' = 0 /\ links' = [ls EXCEPT ![k] = after] /\ (ls[k].stop # "none" => after.stop # "none")
    BY <1>3
  <1> HIDE DEF ls
  <1>6. /\ links' \in [BleIds -> BleRecord] /\ links'[k] = after
        /\ \A j \in BleIds \ {k} : links'[j] = ls[j]
    BY <1>4, <1>5
  <1>7. ~BleOver(links[k])
    BY <1>1 DEF BleSound, BleOver
  <1>8. bleEntry # 0 => bleEntry \in BleIds /\ BleListed(links[bleEntry])
    BY BleTypes DEF BleIInv
  <1>9. ASSUME bleEntry # 0 PROVE ls[bleEntry].stop = "lock"
    <2>1. base[bleEntry] \in BleRecord
      BY <1>2, <1>8, <1>9
    <2>2. Begun(base[bleEntry]).stop = "lock"
      BY <2>1, BleBegun
    <2> QED
      BY <1>4, <1>9, <2>2
  <1>10. ls[k].stop = "lock" \/ ls[k].stop = links[k].stop
    <2>1. CASE k = bleEntry
      BY <1>8, <1>9, <2>1, BleTypes DEF BleIInv
    <2>2. CASE k # bleEntry
      BY <1>2, <1>4, <2>2
    <2> QED
      BY <2>1, <2>2
  <1>11. \A j \in BleIds \ {k} :
           /\ BleSound(ls[j]) /\ (BleOver(links[j]) => BleOver(ls[j]))
           /\ links[j].stop # "none" => ls[j].stop # "none"
    <2> SUFFICES ASSUME NEW j \in BleIds \ {k}
                 PROVE  /\ BleSound(ls[j]) /\ (BleOver(links[j]) => BleOver(ls[j]))
                        /\ links[j].stop # "none" => ls[j].stop # "none"
      OBVIOUS
    <2>1. CASE j = bleEntry
      <3>1. ls[j] = Begun(links[j])
        BY <1>2, <1>4, <2>1, BleTypes DEF BleIInv
      <3>2. BleListed(links[j]) /\ BleSound(links[j]) /\ links[j] \in BleRecord
        BY <1>1, <1>8, <2>1, BleTypes DEF BleIInv
      <3>3. /\ ls[j].stop = "lock" /\ ls[j].run = FALSE /\ ls[j].at = links[j].at
            /\ ls[j].client = links[j].client /\ ls[j].state = links[j].state
        BY <3>1, <3>2 DEF Begun, BleRecord
      <3> QED
        BY <3>2, <3>3 DEF BleSound, BleListed, BleOver
    <2>2. CASE j # bleEntry
      BY <1>1, <1>2, <1>4, <2>2
    <2> QED
      BY <2>1, <2>2
  <1>12. \A j \in BleIds :
           /\ BleSound(links'[j]) /\ (BleOver(links[j]) => BleOver(links'[j]))
           /\ links[j].stop # "none" => links'[j].stop # "none"
    BY <1>5, <1>6, <1>7, <1>10, <1>11
  <1>13. bleEntry # 0 => links'[bleEntry].stop # "none"
    BY <1>5, <1>6, <1>8, <1>9
  <1> QED
    BY <1>5, <1>6, <1>12, <1>13, BleTableEmptied

\* No step of a connect, a stop, a worker or the radio leaves BleIInv.
LEMMA BleInductive == BleIInv /\ [BleNext]_bleVars => BleIInv'
  <1> SUFFICES ASSUME BleIInv, [BleNext]_bleVars PROVE BleIInv'
    OBVIOUS
  <1>0. CASE UNCHANGED bleVars
    BY <1>0 DEF bleVars, BleIInv, BleTypeOK, BleSound, BleListed, BleOneLive, BleOver
  <1>1. ASSUME BleConnect PROVE BleIInv'
    <2>1. PICK k \in BleIds :
            /\ links[k].at = "unborn" /\ bleEntry' = k
            /\ links' = [links EXCEPT ![k].at = "connect", ![k].state = "CONNECTING", ![k].run = TRUE]
            /\ bleCrossed' = (bleCrossed \/ \E j \in BleIds : ~BleOver(links[j]))
      BY <1>1 DEF BleConnect
    <2> DEFINE l == [links[k] EXCEPT !.at = "connect", !.state = "CONNECTING", !.run = TRUE]
    <2>2. links \in [BleIds -> BleRecord] /\ links[k] \in BleRecord /\ BleSound(links[k]) /\ k # 0
      BY BleTypes DEF BleIInv
    <2>3. l \in BleRecord /\ BleSound(l) /\ BleListed(l)
      BY <2>1, <2>2 DEF BleRecord, BleDialling, BleSound, BleListed
    <2>4. links' = [links EXCEPT ![k] = l]
      BY <2>1, <2>2
    <2> HIDE DEF l
    <2>5. /\ links' \in [BleIds -> BleRecord] /\ links'[k] = l
          /\ \A j \in BleIds : j # k => links'[j] = links[j]
      BY <2>2, <2>3, <2>4
    <2>6. BleTypeOK'
      BY <2>1, <2>5 DEF BleIInv, BleTypeOK, BleRecord, BleIds
    <2>7. (\A j \in BleIds : BleSound(links'[j])) /\ BleListed(links'[bleEntry'])
      BY <2>1, <2>3, <2>5 DEF BleIInv
    <2>8. BleOneLive'
      BY <2>1, <2>5 DEF BleOneLive
    <2> QED
      BY <2>6, <2>7, <2>8 DEF BleIInv, BleSound, BleListed
  <1>2. ASSUME BleDisconnect PROVE BleIInv'
    <2>1. links \in [BleIds -> BleRecord] /\ bleEntry \in BleIds
      BY <1>2, BleTypes DEF BleDisconnect, BleIInv
    <2>2. /\ links' \in [BleIds -> BleRecord] /\ bleEntry' = 0 /\ bleCrossed' = bleCrossed
          /\ links'[bleEntry] = Begun(links[bleEntry])
          /\ \A j \in BleIds \ {bleEntry} : links'[j] = links[j]
      BY <1>2, <2>1, BleStopOfIs DEF BleDisconnect
    <2>3. BleListed(links[bleEntry]) /\ \A j \in BleIds : links[j] \in BleRecord /\ BleSound(links[j])
      BY <1>2, <2>1 DEF BleDisconnect, BleIInv
    <2>4. LET l == links'[bleEntry] IN
          /\ l.stop = "lock" /\ l.run = FALSE /\ l.at = links[bleEntry].at
          /\ l.client = links[bleEntry].client /\ l.state = links[bleEntry].state
      BY <2>1, <2>2, <2>3 DEF Begun, BleRecord
    <2>5. \A j \in BleIds :
            /\ BleSound(links'[j])
            /\ BleOver(links[j]) => BleOver(links'[j])
            /\ links[j].stop # "none" => links'[j].stop # "none"
      <3>1. /\ BleSound(links'[bleEntry])
            /\ BleOver(links[bleEntry]) => BleOver(links'[bleEntry])
        BY <2>1, <2>3, <2>4 DEF BleSound, BleListed, BleOver
      <3> QED
        BY <2>2, <2>3, <2>4, <3>1
    <2> QED
      BY <2>2, <2>4, <2>5, BleTableEmptied
  <1>3. ASSUME NEW k \in BleIds, BleDialStep(k) PROVE BleIInv'
    <2>1. links \in [BleIds -> BleRecord] /\ links[k] \in BleRecord /\ BleSound(links[k]) /\ (bleEntry = k => BleListed(links[k]))
      BY BleTypes DEF BleIInv
    <2>2. PICK l \in {[links[k] EXCEPT !.at = "gatt", !.state = "DISCOVERING_GATT", !.client = TRUE],
                     [links[k] EXCEPT !.at = "notify", !.state = "SUBSCRIBING"],
                     [links[k] EXCEPT !.at = "up", !.state = "READY"]} :
            /\ links' = [links EXCEPT ![k] = l]
            /\ <<links[k].at, l.at>> \in {<<"connect", "gatt">>, <<"gatt", "notify">>, <<"notify", "up">>}
      BY <1>3, <2>1 DEF BleDialStep, BleRecord
    <2>3. l \in BleRecord
      BY <2>1, <2>2 DEF BleRecord, BleDialling
    <2>4. /\ BleSound(l) /\ (bleEntry = k => BleListed(l))
          /\ BleOver(links[k]) => BleOver(l)
          /\ links[k].stop # "none" => l.stop # "none"
      BY <2>1, <2>2 DEF BleRecord, BleSound, BleListed, BleOver
    <2> QED
      BY <1>3, <2>2, <2>3, <2>4, BleOneChanges DEF BleDialStep
  <1>4. ASSUME NEW k \in BleIds, BleDialFails(k) PROVE BleIInv'
    <2> DEFINE l == [links[k] EXCEPT
                    !.at = IF links[k].client THEN "failing" ELSE "popping",
                    !.state = IF links[k].client THEN "DISCONNECTING" ELSE "DISCONNECTED",
                    !.run = @ /\ links[k].client, !.queue = IF links[k].client THEN @ ELSE 0]
    <2>1. links' = [links EXCEPT ![k] = l] /\ UNCHANGED <<bleEntry, bleCrossed>>
      BY <1>4, BleTypes DEF BleDialFails, BleIInv
    <2>2. links[k] \in BleRecord /\ BleSound(links[k]) /\ (bleEntry = k => BleListed(links[k]))
      BY BleTypes DEF BleIInv
    <2>3. l \in BleRecord
      BY <1>4, <2>2, BleQueueEmpty DEF BleDialFails, BleRecord, BleDialling
    <2>4. /\ BleSound(l) /\ (bleEntry = k => BleListed(l))
          /\ BleOver(links[k]) => BleOver(l)
          /\ links[k].stop # "none" => l.stop # "none"
      BY <1>4, <2>2 DEF BleDialFails, BleRecord, BleSound, BleListed, BleOver, BleDialling
    <2> QED
      BY <2>1, <2>3, <2>4, BleOneChanges
  <1>5. ASSUME NEW k \in BleIds, BleDialClosed(k) PROVE BleIInv'
    <2>1. links[k] \in BleRecord /\ BleSound(links[k]) /\ (bleEntry = k => BleListed(links[k]))
          /\ links \in [BleIds -> BleRecord]
      BY BleTypes DEF BleIInv
    <2>2. CASE links[k].client
      <3> DEFINE D == Disconnected(links, k)
                 after == [D[2][k] EXCEPT !.at = "popping", !.run = FALSE, !.queue = 0]
      <3>1. D[2] \in [BleIds -> BleRecord] /\ D[2][k] \in BleRecord /\ D[2][k].client = FALSE
            /\ D[2][k].stop \in {links[k].stop, "lock"}
        BY BleClientLost
      <3>2. bleEntry' = D[1] /\ links' = [D[2] EXCEPT ![k].at = "popping", ![k].run = FALSE, ![k].queue = 0]
            /\ UNCHANGED bleCrossed
        BY <1>5, <2>2 DEF BleDialClosed
      <3> HIDE DEF D
      <3>3. after \in BleRecord /\ after.client = FALSE /\ BleSound(after) /\ after.stop = D[2][k].stop
        BY <2>1, <3>1, BleQueueEmpty DEF BleRecord, BleSound
      <3>4. links' = [D[2] EXCEPT ![k] = after]
        BY <3>1, <3>2
      <3> HIDE DEF after
      <3> QED
        BY <2>2, <3>2, <3>3, <3>4, BleClientGoes DEF D
    <2>3. CASE ~links[k].client
      <3> DEFINE l == [links[k] EXCEPT !.state = "DISCONNECTED", !.at = "popping", !.run = FALSE, !.queue = 0]
      <3>1. links' = [links EXCEPT ![k] = l] /\ UNCHANGED <<bleEntry, bleCrossed>>
        BY <1>5, <2>1, <2>3 DEF BleDialClosed
      <3>2. l \in BleRecord
        BY <2>1, BleQueueEmpty DEF BleRecord
      <3>3. /\ BleSound(l) /\ (bleEntry = k => BleListed(l)) /\ (BleOver(links[k]) => BleOver(l))
            /\ links[k].stop # "none" => l.stop # "none"
        BY <1>5, <2>1, <2>3 DEF BleDialClosed, BleRecord, BleSound, BleListed, BleOver
      <3> QED
        BY <3>1, <3>2, <3>3, BleOneChanges
    <2> QED
      BY <2>2, <2>3
  <1>6. ASSUME NEW k \in BleIds, BleDialPops(k) PROVE BleIInv'
    <2> DEFINE l == [links[k] EXCEPT !.at = "over"]
    <2>1. /\ links \in [BleIds -> BleRecord] /\ links[k] \in BleRecord
          /\ \A j \in BleIds : BleSound(links[j])
          /\ bleEntry # 0 => bleEntry \in BleIds /\ BleListed(links[bleEntry])
      BY BleTypes DEF BleIInv
    <2>2. links[k].at = "popping" /\ links' = [links EXCEPT ![k] = l] /\ bleEntry' = 0 /\ UNCHANGED bleCrossed
      BY <1>6, <2>1 DEF BleDialPops, EntryPopped
    <2>3. l \in BleRecord /\ BleSound(l) /\ BleOver(l) /\ l.stop = links[k].stop
      BY <2>1, <2>2 DEF BleRecord, BleSound, BleOver
    <2> HIDE DEF l
    <2>4. links' \in [BleIds -> BleRecord] /\ links'[k] = l /\ \A j \in BleIds \ {k} : links'[j] = links[j]
      BY <2>1, <2>2, <2>3
    <2>5. ~bleCrossed /\ bleEntry # 0 => bleEntry = k
      BY <2>1, <2>2 DEF BleIInv, BleOneLive, BleOver, BleListed
    <2>6. \A j \in BleIds :
            /\ BleSound(links'[j]) /\ (BleOver(links[j]) => BleOver(links'[j]))
            /\ links[j].stop # "none" => links'[j].stop # "none"
      BY <2>1, <2>3, <2>4
    <2> QED
      BY <2>2, <2>3, <2>4, <2>5, <2>6, BleTableEmptied
  <1>7. ASSUME NEW k \in BleIds, BleStopLocked(k) PROVE BleIInv'
    <2> DEFINE l == [links[k] EXCEPT
                    !.stop = IF links[k].state # "DISCONNECTED" /\ links[k].client THEN "clean" ELSE "done",
                    !.state = IF links[k].state # "DISCONNECTED" /\ links[k].client THEN "DISCONNECTING"
                              ELSE "DISCONNECTED"]
    <2>1. links' = [links EXCEPT ![k] = l] /\ UNCHANGED <<bleEntry, bleCrossed>>
      BY <1>7, BleTypes DEF BleStopLocked, BleIInv
    <2>2. links[k] \in BleRecord /\ BleSound(links[k]) /\ (bleEntry = k => BleListed(links[k]))
      BY BleTypes DEF BleIInv
    <2>3. l \in BleRecord
      BY <1>7, <2>2, BleAssumption DEF BleStopLocked, BleRecord, BleDialling
    <2>4. /\ BleSound(l) /\ (bleEntry = k => BleListed(l))
          /\ BleOver(links[k]) => BleOver(l)
          /\ links[k].stop # "none" => l.stop # "none"
      BY <1>7, <2>2 DEF BleStopLocked, BleRecord, BleSound, BleListed, BleOver, BleDialling
    <2> QED
      BY <2>1, <2>3, <2>4, BleOneChanges
  <1>8. ASSUME NEW k \in BleIds, BleStopEnds(k) PROVE BleIInv'
    <2>1. links[k] \in BleRecord /\ BleSound(links[k]) /\ (bleEntry = k => BleListed(links[k]))
          /\ links \in [BleIds -> BleRecord] /\ links[k].stop = "clean"
      BY <1>8, BleTypes DEF BleIInv, BleStopEnds
    <2>2. CASE links[k].client
      <3> DEFINE D == Disconnected(links, k)
                 after == [D[2][k] EXCEPT !.stop = "done"]
      <3>1. /\ D[2] \in [BleIds -> BleRecord] /\ D[2][k] \in BleRecord /\ D[2][k].client = FALSE
            /\ D[2][k].at = links[k].at /\ D[2][k].run \in {links[k].run, FALSE}
        BY BleClientLost
      <3>2. bleEntry' = D[1] /\ links' = [D[2] EXCEPT ![k].stop = "done"] /\ UNCHANGED bleCrossed
        BY <1>8, <2>2 DEF BleStopEnds
      <3> HIDE DEF D
      <3>3. after \in BleRecord /\ after.client = FALSE /\ BleSound(after) /\ after.stop = "done"
        BY <2>1, <3>1 DEF BleRecord, BleSound
      <3>4. links' = [D[2] EXCEPT ![k] = after]
        BY <3>1, <3>2
      <3> HIDE DEF after
      <3> QED
        BY <2>2, <3>2, <3>3, <3>4, BleClientGoes DEF D
    <2>3. CASE ~links[k].client
      <3> DEFINE l == [links[k] EXCEPT !.state = "DISCONNECTED", !.stop = "done"]
      <3>1. links' = [links EXCEPT ![k] = l] /\ UNCHANGED <<bleEntry, bleCrossed>>
        BY <1>8, <2>1, <2>3 DEF BleStopEnds
      <3>2. l \in BleRecord
        BY <2>1 DEF BleRecord
      <3>3. /\ BleSound(l) /\ (bleEntry = k => BleListed(l)) /\ (BleOver(links[k]) => BleOver(l))
            /\ links[k].stop # "none" => l.stop # "none"
        BY <2>1, <2>3 DEF BleRecord, BleSound, BleListed, BleOver
      <3> QED
        BY <3>1, <3>2, <3>3, BleOneChanges
    <2> QED
      BY <2>2, <2>3
  <1>9. ASSUME NEW k \in BleIds, BleDropped(k) PROVE BleIInv'
    <2> DEFINE D == Disconnected(links, k)
    <2>1. links[k] \in BleRecord /\ BleSound(links[k])
      BY BleTypes DEF BleIInv
    <2>2. /\ D[2] \in [BleIds -> BleRecord] /\ D[2][k] \in BleRecord /\ D[2][k].client = FALSE
          /\ D[2][k].at = links[k].at /\ D[2][k].run \in {links[k].run, FALSE}
          /\ D[2][k].stop \in {links[k].stop, "lock"}
          /\ D[2][k].stop # links[k].stop => D[2][k].run = FALSE /\ links[k].stop = "none"
      BY BleClientLost
    <2>3. links[k].client /\ bleEntry' = D[1] /\ links' = D[2] /\ UNCHANGED bleCrossed
      BY <1>9 DEF BleDropped
    <2> HIDE DEF D
    <2>4. BleSound(D[2][k])
      BY <2>1, <2>2, <2>3 DEF BleRecord, BleSound
    <2>5. links' = [D[2] EXCEPT ![k] = D[2][k]]
      BY <2>2, <2>3
    <2> QED
      BY <2>2, <2>3, <2>4, <2>5, BleClientGoes DEF D
  <1>10. ASSUME NEW k \in BleIds, BleNotified(k) PROVE BleIInv'
    <2> DEFINE l == [links[k] EXCEPT !.queue = Queued(@)]
    <2>1. links' = [links EXCEPT ![k] = l] /\ UNCHANGED <<bleEntry, bleCrossed>>
      BY <1>10, BleTypes DEF BleNotified, BleIInv
    <2>2. links[k] \in BleRecord /\ BleSound(links[k]) /\ (bleEntry = k => BleListed(links[k]))
      BY BleTypes DEF BleIInv
    <2>3. l \in BleRecord
      BY <1>10, <2>2, BleAssumption DEF BleNotified, Queued, BleRecord
    <2>4. /\ BleSound(l) /\ (bleEntry = k => BleListed(l))
          /\ BleOver(links[k]) => BleOver(l)
          /\ links[k].stop # "none" => l.stop # "none"
      BY <1>10, <2>2 DEF BleNotified, BleRecord, BleSound, BleListed, BleOver, BleDialling
    <2> QED
      BY <2>1, <2>3, <2>4, BleOneChanges
  <1>11. ASSUME NEW k \in BleIds, BleWorks(k) PROVE BleIInv'
    <2> DEFINE l == [links[k] EXCEPT !.queue = @ - 1]
    <2>1. links' = [links EXCEPT ![k] = l] /\ UNCHANGED <<bleEntry, bleCrossed>>
      BY <1>11, BleTypes DEF BleWorks, BleIInv
    <2>2. links[k] \in BleRecord /\ BleSound(links[k]) /\ (bleEntry = k => BleListed(links[k]))
      BY BleTypes DEF BleIInv
    <2>3. l \in BleRecord
      BY <1>11, <2>2, BleAssumption DEF BleWorks, BleRecord, BleDialling
    <2>4. /\ BleSound(l) /\ (bleEntry = k => BleListed(l))
          /\ BleOver(links[k]) => BleOver(l)
          /\ links[k].stop # "none" => l.stop # "none"
      BY <1>11, <2>2 DEF BleWorks, BleRecord, BleSound, BleListed, BleOver, BleDialling
    <2> QED
      BY <2>1, <2>3, <2>4, BleOneChanges
  <1> QED
    BY <1>0, <1>1, <1>2, <1>3, <1>4, <1>5, <1>6, <1>7, <1>8, <1>9, <1>10, <1>11 DEF BleNext, BleAwaited

\* BleIInv holds in every state.
LEMMA BleInvariant == BleSpec => []BleIInv
  <1>1. BleInit => BleIInv
    <2> SUFFICES ASSUME BleInit PROVE BleIInv
      OBVIOUS
    <2>1. \A k \in BleIds : links[k] = BleUnborn
      BY DEF BleInit
    <2>2. BleTypeOK
      <3>1. BleUnborn \in BleRecord
        BY BleQueueEmpty DEF BleUnborn, BleRecord
      <3>2. links \in [BleIds -> BleRecord]
        BY <3>1 DEF BleInit
      <3>3. bleEntry = 0 /\ bleCrossed = FALSE
        BY DEF BleInit
      <3>4. bleEntry \in 0..BleMaxLinks
        BY <3>3, BleAssumption
      <3> QED
        BY <3>2, <3>3, <3>4 DEF BleTypeOK, BleRecord
    <2> QED
      BY <2>1, <2>2 DEF BleInit, BleIInv, BleSound, BleOneLive, BleUnborn, BleOver
  <1> QED
    BY <1>1, BleInductive, PTL DEF BleSpec

\* However the connects, disconnects and losses of BLEManager and BLEConnection
\* interleave, unless two connects to one address overlap a link that is ready is
\* in the table or being stopped, and once nothing is in progress the entry is
\* ready and no other link has a receive worker.
THEOREM BleSafety == BleSpec => []BleSafe
  <1>1. BleIInv => BleSafe
    <2> SUFFICES ASSUME BleIInv PROVE BleSafe
      OBVIOUS
    <2>1. BleTracked
      BY DEF BleIInv, BleSound, BleOneLive, BleOver, IsReady, BleTracked
    <2>2. BleEntriesReady
      BY BleTypes DEF BleIInv, BleListed, BleSettled, IsReady, BleEntriesReady
    <2>3. BleWorkersEnd
      BY DEF BleIInv, BleSound, BleOneLive, BleOver, BleSettled, BleWorkersEnd
    <2> QED
      BY <2>1, <2>2, <2>3 DEF BleIInv, BleSafe
  <1> QED
    BY <1>1, BleInvariant, PTL

-----------------------------------------------------------------------------
(***************************************************************************)
(* The GATT server.                                                        *)
(***************************************************************************)

SrvFits(id) == srvFlags[id].adapter # 0 /\ srvFit[srvFlags[id].adapter] = {"powered", "gatt", "adv"}

SrvRecord == [adapter : SrvAdapters \cup {0}, app : BOOLEAN, adv : BOOLEAN]

SrvJobRecord ==
  [kind : {"none", "start", "undo", "stop"}, id : 0..SrvMaxBackends,
   at : {"done", "bus", "find", "regapp", "appreply", "regadv", "advreply", "unadv", "unapp"}]

\* Where each kind of job can be, and whose backend it works on.
SrvJobs ==
  /\ srvJob.kind = "none" => srvJob = SrvNoJob
  /\ srvJob.kind = "start" =>
       /\ srvJob.at \in {"bus", "find", "regapp", "appreply", "regadv", "advreply"}
       /\ srvJob.id = srvCur /\ srvCur # 0
  /\ srvJob.kind \in {"undo", "stop"} =>
       srvJob.at \in {"unadv", "unapp"} /\ srvCur = 0 /\ srvJob.id # 0

\* What start has behind it, by where it is.
SrvReached ==
  srvJob.kind = "start" =>
    /\ srvJob.at \in {"appreply", "regadv", "advreply"} => srvJob.id \in hostApp
    /\ srvPlatform = "linux" /\ srvJob.at \notin {"bus", "find"} => SrvFits(srvJob.id)

\* The host advertises only for an application, and without a mishap it holds
\* nothing but the registrations of the backend at hand.
SrvHeld ==
  /\ hostAdv \subseteq hostApp
  /\ srvMishaps \cap {"cut", "restarted"} = {} =>
       hostApp \subseteq {IF srvJob.kind \in {"undo", "stop"} THEN srvJob.id ELSE srvCur}

SrvIInv == SrvTypeOK /\ SrvJobs /\ SrvReached /\ SrvHeld /\ SrvTruthful /\ SrvFitAdapter

\* Every set of naturals has a least element.
LEMMA LeastNatural ==
  ASSUME NEW S \in SUBSET Nat, S # {}
  PROVE  \E a \in S : \A b \in S : a <= b
  <1> DEFINE R == OpToRel(<, Nat)
  <1>1. IsWellFoundedOn(R, Nat)
    BY NatLessThanWellFounded
  <1>2. \A x, y \in Nat : x < y => <<x, y>> \in R
    BY DEF OpToRel
  <1> HIDE DEF R
  <1>3. PICK x \in S : \A y \in S : ~(<<y, x>> \in R)
    BY <1>1, WFMin
  <1>4. \A y \in S : ~(y < x)
    BY <1>2, <1>3
  <1> QED
    BY <1>4

\* _find_adapter returns an adapter that is powered and can do both, if it returns one.
LEMMA FindAdapterFits ==
  ASSUME NEW fit \in [SrvAdapters -> SUBSET {"powered", "gatt", "adv"}], FindAdapter(fit) # 0
  PROVE  FindAdapter(fit) \in SrvAdapters /\ fit[FindAdapter(fit)] = {"powered", "gatt", "adv"}
  <1> DEFINE able == {a \in SrvAdapters : fit[a] = {"powered", "gatt", "adv"}}
  <1>1. able # {} /\ able \in SUBSET Nat /\ FindAdapter(fit) = CHOOSE a \in able : \A b \in able : a <= b
    BY SrvAssumption DEF FindAdapter
  <1>2. \E a \in able : \A b \in able : a <= b
    BY <1>1, LeastNatural
  <1>3. FindAdapter(fit) \in able
    BY <1>1, <1>2
  <1> QED
    BY <1>3

LEMMA SrvTypes ==
  ASSUME SrvIInv
  PROVE  /\ srvCur # 0 => srvCur \in SrvIds
         /\ srvJob.kind # "none" => srvJob.id \in SrvIds
         /\ srvJob.kind \in {"none", "start", "undo", "stop"}
         /\ srvFlags \in [SrvIds -> SrvRecord]
         /\ 0 \notin SrvIds /\ srvJob \in SrvJobRecord /\ SrvNoJob \in SrvJobRecord
         /\ hostApp \subseteq SrvIds /\ hostAdv \subseteq SrvIds
  BY SrvAssumption DEF SrvIInv, SrvTypeOK, SrvJobs, SrvIds, SrvRecord, SrvJobRecord, SrvNoJob

\* What a step must keep for the types.
LEMMA SrvTyped ==
  ASSUME SrvTypeOK, UNCHANGED srvHost, srvOn' \in BOOLEAN, srvCur' \in 0..SrvMaxBackends,
         srvMade' \in 0..SrvMaxBackends, srvFlags' \in [SrvIds -> SrvRecord],
         hostApp' \subseteq SrvIds, hostAdv' \subseteq SrvIds, srvJob' \in SrvJobRecord,
         srvMishaps' \subseteq {"cut", "restarted", "raced"},
         srvJob'.at = "unapp" => ~srvFlags'[srvJob'.id].adv
  PROVE  SrvTypeOK'
  BY DEF SrvTypeOK, srvHost, SrvRecord, SrvJobRecord

\* _cleanup of a backend that the server has let go of: with the bus goes whatever
\* the host still held.
LEMMA SrvCleaned ==
  ASSUME SrvIInv, NEW id \in SrvIds, NEW f \in SrvRecord, f.adapter = srvFlags[id].adapter,
         NEW kind \in {"undo", "stop"}, CleanedFrom(kind, id, f), srvCur' = 0,
         UNCHANGED <<srvHost, srvMade, srvMishaps>>,
         srvMishaps \cap {"cut", "restarted"} = {} => hostApp \subseteq {id}
  PROVE  SrvIInv'
  <1>1. srvFlags \in [SrvIds -> SrvRecord] /\ id # 0 /\ id \in 0..SrvMaxBackends
    BY SrvTypes DEF SrvIds
  <1>2. CASE AwaitOf(f) = "done"
    <2>1. /\ srvFlags' = [srvFlags EXCEPT ![id] = SrvNew] /\ srvJob' = SrvNoJob /\ srvOn' = FALSE
          /\ hostApp' = hostApp \ {id} /\ hostAdv' = hostAdv \ {id}
      BY <1>2 DEF CleanedFrom, BusClosed
    <2>2. SrvNew \in SrvRecord
      BY DEF SrvNew, SrvRecord
    <2>3. srvFlags' \in [SrvIds -> SrvRecord] /\ \A i \in SrvIds \ {id} : srvFlags'[i] = srvFlags[i]
      BY <1>1, <2>1, <2>2
    <2>4. SrvTypeOK'
      <3>1. hostApp' \subseteq SrvIds /\ hostAdv' \subseteq SrvIds /\ srvJob' \in SrvJobRecord
        BY <2>1, SrvTypes
      <3>2. srvJob'.at # "unapp" /\ srvOn' \in BOOLEAN
        BY <2>1 DEF SrvNoJob
      <3>3. srvCur' \in 0..SrvMaxBackends
        BY SrvAssumption
      <3> QED
        BY <2>3, <3>1, <3>2, <3>3, SrvTyped DEF SrvIInv, SrvTypeOK
    <2>5. SrvJobs' /\ SrvReached' /\ SrvTruthful'
      BY <2>1 DEF SrvJobs, SrvReached, SrvTruthful, SrvNoJob
    <2>6. SrvHeld'
      BY <2>1 DEF SrvIInv, SrvHeld
    <2>7. SrvFitAdapter'
      BY <2>1, <2>3 DEF SrvIInv, SrvTypeOK, SrvFitAdapter, srvHost
    <2> QED
      BY <2>4, <2>5, <2>6, <2>7 DEF SrvIInv
  <1>3. CASE AwaitOf(f) # "done"
    <2>1. /\ srvFlags' = [srvFlags EXCEPT ![id] = f] /\ UNCHANGED <<srvOn, hostApp, hostAdv>>
          /\ srvJob' = [kind |-> kind, at |-> AwaitOf(f), id |-> id]
      BY <1>3 DEF CleanedFrom
    <2>2. AwaitOf(f) \in {"unadv", "unapp"} /\ (AwaitOf(f) = "unapp" => ~f.adv)
      BY <1>3 DEF AwaitOf
    <2>3. /\ srvFlags' \in [SrvIds -> SrvRecord] /\ srvFlags'[id] = f
          /\ \A i \in SrvIds : srvFlags'[i].adapter = srvFlags[i].adapter
      BY <1>1, <2>1
    <2>4. SrvTypeOK'
      <3>1. /\ srvJob' \in SrvJobRecord /\ srvCur' \in 0..SrvMaxBackends
            /\ srvJob'.at = "unapp" => ~srvFlags'[srvJob'.id].adv
        BY <1>1, <2>1, <2>2, <2>3, SrvAssumption DEF SrvJobRecord
      <3>2. hostApp' \subseteq SrvIds /\ hostAdv' \subseteq SrvIds /\ srvOn' \in BOOLEAN
        BY <2>1 DEF SrvIInv, SrvTypeOK
      <3> QED
        BY <2>3, <3>1, <3>2, SrvTyped DEF SrvIInv, SrvTypeOK
    <2>5. SrvJobs' /\ SrvReached' /\ SrvTruthful'
      BY <1>1, <2>1, <2>2 DEF SrvJobs, SrvReached, SrvTruthful, SrvNoJob
    <2>6. SrvHeld'
      BY <2>1 DEF SrvIInv, SrvHeld
    <2>7. SrvFitAdapter'
      BY <2>1, <2>3 DEF SrvIInv, SrvTypeOK, SrvFitAdapter, srvHost
    <2> QED
      BY <2>4, <2>5, <2>6, <2>7 DEF SrvIInv
  <1> QED
    BY <1>2, <1>3

\* No step of the server, of its backend or of the host leaves SrvIInv.
LEMMA SrvInductive == SrvIInv /\ [SrvNext]_srvVars => SrvIInv'
  <1> SUFFICES ASSUME SrvIInv, [SrvNext]_srvVars PROVE SrvIInv'
    OBVIOUS
  <1>0. CASE UNCHANGED srvVars
    BY <1>0 DEF srvVars, SrvIInv, SrvTypeOK, SrvJobs, SrvReached, SrvFits, SrvHeld, SrvTruthful, SrvFitAdapter
  <1>1. ASSUME SrvStart PROVE SrvIInv'
    <2>1. /\ srvMade' = srvMade + 1 /\ srvCur' = srvMade' /\ ~srvOn /\ srvJob.kind = "none"
          /\ srvMade' \in 0..SrvMaxBackends /\ srvMade' # 0
          /\ UNCHANGED <<srvHost, srvOn, srvFlags, hostApp, hostAdv>>
      <3>1. srvMade \in 0..SrvMaxBackends /\ srvMade < SrvMaxBackends
        BY <1>1 DEF SrvStart, SrvIInv, SrvTypeOK
      <3> QED
        BY <1>1, <3>1, SrvAssumption DEF SrvStart, SrvNoJob
    <2>2. PICK at \in {"bus", "regapp"} :
            /\ srvJob' = [kind |-> "start", at |-> at, id |-> srvMade']
            /\ at = "regapp" => srvPlatform # "linux"
      BY <1>1 DEF SrvStart
    <2>3. srvMishaps' = srvMishaps \cup (IF srvCur = 0 THEN {} ELSE {"restarted"})
      BY <1>1 DEF SrvStart
    <2>4. SrvTypeOK'
      <3>1. srvJob' \in SrvJobRecord /\ srvJob'.at # "unapp"
        BY <2>1, <2>2 DEF SrvJobRecord
      <3>2. srvMishaps' \subseteq {"cut", "restarted", "raced"}
        BY <2>3 DEF SrvIInv, SrvTypeOK
      <3> QED
        BY <2>1, <3>1, <3>2, SrvTypes, SrvTyped DEF SrvIInv, SrvTypeOK
    <2>5. SrvJobs' /\ SrvReached'
      BY <2>1, <2>2 DEF SrvJobs, SrvReached, srvHost
    <2>6. SrvHeld'
      <3>1. srvMishaps' \cap {"cut", "restarted"} = {} => srvCur = 0 /\ srvMishaps \cap {"cut", "restarted"} = {}
        BY <2>3
      <3>2. srvMishaps' \cap {"cut", "restarted"} = {} => hostApp = {}
        BY <2>1, <3>1, SrvTypes DEF SrvIInv, SrvHeld
      <3> QED
        BY <2>1, <3>2 DEF SrvIInv, SrvHeld
    <2>7. SrvTruthful' /\ SrvFitAdapter'
      BY <2>1 DEF SrvIInv, SrvTruthful, SrvFitAdapter, srvHost
    <2> QED
      BY <2>4, <2>5, <2>6, <2>7 DEF SrvIInv
  <1>2. ASSUME SrvPrepared PROVE SrvIInv'
    <2>1. CASE srvJob.at = "bus" /\ SrvGoesTo("find") /\ UNCHANGED srvFlags
      BY <1>2, <2>1 DEF SrvPrepared, SrvGoesTo, srvHost, SrvIInv, SrvTypeOK, SrvJobs, SrvReached, SrvHeld,
         SrvTruthful, SrvFitAdapter, SrvNoJob
    <2>2. CASE /\ srvJob.at = "find" /\ FindAdapter(srvFit) # 0 /\ SrvGoesTo("regapp")
               /\ srvFlags' = [srvFlags EXCEPT ![srvJob.id].adapter = FindAdapter(srvFit)]
      <3> DEFINE a == FindAdapter(srvFit)
      <3>1. a # 0 /\ a \in SrvAdapters /\ srvFit[a] = {"powered", "gatt", "adv"}
        BY <2>2, FindAdapterFits DEF SrvIInv, SrvTypeOK
      <3> HIDE DEF a
      <3>2. srvJob.id \in SrvIds /\ srvFlags \in [SrvIds -> SrvRecord]
        BY <1>2, SrvTypes DEF SrvPrepared
      <3>3. /\ srvFlags' \in [SrvIds -> SrvRecord] /\ srvFlags'[srvJob.id].adapter = a
            /\ \A i \in SrvIds \ {srvJob.id} : srvFlags'[i] = srvFlags[i]
        BY <2>2, <3>1, <3>2 DEF SrvRecord, a
      <3>4. UNCHANGED <<srvHost, srvOn, srvCur, hostApp, hostAdv, srvMade, srvMishaps>> /\ SrvGoesTo("regapp")
            /\ srvJob.kind = "start"
        BY <1>2, <2>2 DEF SrvPrepared
      <3>5. SrvTypeOK'
        BY <3>3, <3>4 DEF SrvGoesTo, srvHost, SrvIInv, SrvTypeOK, SrvRecord
      <3>6. SrvJobs' /\ SrvHeld' /\ SrvTruthful'
        BY <3>4 DEF SrvGoesTo, SrvIInv, SrvTypeOK, SrvJobs, SrvHeld, SrvTruthful, SrvNoJob
      <3>7. SrvReached' /\ SrvFitAdapter'
        BY <3>1, <3>3, <3>4
           DEF SrvGoesTo, srvHost, SrvIInv, SrvTypeOK, SrvReached, SrvFits, SrvFitAdapter
      <3> QED
        BY <3>5, <3>6, <3>7 DEF SrvIInv
    <2> QED
      BY <1>2, <2>1, <2>2 DEF SrvPrepared
  <1>3. ASSUME SrvRegistered PROVE SrvIInv'
    <2>1. /\ srvJob.kind = "start" /\ srvJob.id = srvCur /\ srvCur \in SrvIds
          /\ UNCHANGED <<srvHost, srvOn, srvCur, srvFlags, srvMade, srvMishaps>>
      BY <1>3, SrvTypes DEF SrvRegistered, SrvIInv, SrvJobs
    <2>2. PICK at \in {"appreply", "advreply"} :
            /\ srvJob' = [srvJob EXCEPT !.at = at]
            /\ srvJob.at = IF at = "appreply" THEN "regapp" ELSE "regadv"
            /\ hostApp' = IF at = "appreply" THEN hostApp \cup {srvCur} ELSE hostApp
            /\ hostAdv' = IF at = "appreply" THEN hostAdv ELSE hostAdv \cup {srvCur}
      BY <1>3, <2>1 DEF SrvRegistered, SrvGoesTo
    <2>3. srvJob' \in SrvJobRecord /\ srvJob'.at = at /\ srvJob'.kind = "start" /\ srvJob'.id = srvCur
      BY <2>1, <2>2, SrvTypes DEF SrvJobRecord
    <2>4. SrvTypeOK'
      <3>1. hostApp' \subseteq SrvIds /\ hostAdv' \subseteq SrvIds
        BY <2>1, <2>2, SrvTypes
      <3> QED
        BY <2>1, <2>2, <2>3, <3>1, SrvTypes, SrvTyped DEF SrvIInv, SrvTypeOK
    <2>5. SrvJobs'
      BY <2>1, <2>2, <2>3 DEF SrvIInv, SrvJobs
    <2>6. SrvReached' /\ SrvHeld'
      BY <2>1, <2>2, <2>3 DEF SrvIInv, SrvReached, SrvHeld, SrvFits, srvHost
    <2>7. SrvTruthful' /\ SrvFitAdapter'
      BY <2>1, <2>2, <2>3 DEF SrvIInv, SrvReached, SrvFits, SrvNoJob, SrvTruthful, SrvFitAdapter, srvHost
    <2> QED
      BY <2>4, <2>5, <2>6, <2>7 DEF SrvIInv
  <1>4. ASSUME SrvReplied PROVE SrvIInv'
    <2>1. /\ srvJob.kind = "start" /\ srvJob.id = srvCur /\ srvCur \in SrvIds
          /\ UNCHANGED <<srvHost, srvCur, hostApp, hostAdv, srvMade>>
      BY <1>4, SrvTypes DEF SrvReplied, SrvIInv, SrvJobs
    <2>2. /\ srvFlags' \in [SrvIds -> SrvRecord]
          /\ \A i \in SrvIds : srvFlags'[i].adapter = srvFlags[i].adapter
      <3>1. srvFlags \in [SrvIds -> SrvRecord]
        BY SrvTypes
      <3>2. \/ srvFlags' = [srvFlags EXCEPT ![srvCur].app = TRUE]
            \/ srvFlags' = [srvFlags EXCEPT ![srvCur].adv = TRUE]
        BY <1>4, <2>1 DEF SrvReplied
      <3>3. CASE srvFlags' = [srvFlags EXCEPT ![srvCur].app = TRUE]
        BY <2>1, <3>1, <3>3 DEF SrvRecord
      <3>4. CASE srvFlags' = [srvFlags EXCEPT ![srvCur].adv = TRUE]
        BY <2>1, <3>1, <3>4 DEF SrvRecord
      <3> QED
        BY <3>2, <3>3, <3>4
    <2>3. CASE srvJob.at = "appreply"
      <3>1. SrvGoesTo("regadv") /\ UNCHANGED <<srvOn, srvMishaps>>
        BY <1>4, <2>3 DEF SrvReplied
      <3>2. srvJob' \in SrvJobRecord /\ srvJob'.at = "regadv" /\ srvJob'.kind = "start" /\ srvJob'.id = srvCur
        BY <2>1, <3>1, SrvTypes DEF SrvGoesTo, SrvJobRecord
      <3>3. SrvTypeOK'
        BY <2>1, <2>2, <3>1, <3>2, SrvTypes, SrvTyped DEF SrvIInv, SrvTypeOK
      <3>4. SrvJobs' /\ SrvReached' /\ SrvHeld'
        BY <2>1, <2>2, <2>3, <3>1, <3>2 DEF SrvIInv, SrvJobs, SrvReached, SrvHeld, SrvFits, srvHost
      <3>5. SrvTruthful'
        BY <3>2 DEF SrvNoJob, SrvTruthful
      <3>6. SrvFitAdapter'
        BY <2>1, <2>2, SrvTypes DEF SrvIInv, SrvFitAdapter, srvHost
      <3> QED
        BY <3>3, <3>4, <3>5, <3>6 DEF SrvIInv
    <2>4. CASE srvJob.at = "advreply"
      <3>1. /\ srvJob' = SrvNoJob /\ srvOn' = TRUE
            /\ srvMishaps' = srvMishaps \cup (IF srvCur \in hostAdv THEN {} ELSE {"raced"})
        BY <1>4, <2>1, <2>4 DEF SrvReplied
      <3>2. SrvTypeOK'
        <4>1. srvJob'.at # "unapp" /\ srvMishaps' \subseteq {"cut", "restarted", "raced"} /\ srvOn' \in BOOLEAN
          BY <3>1 DEF SrvNoJob, SrvIInv, SrvTypeOK
        <4> QED
          BY <2>1, <2>2, <3>1, <4>1, SrvTypes, SrvTyped DEF SrvIInv, SrvTypeOK
      <3>3. SrvJobs' /\ SrvReached'
        BY <3>1 DEF SrvJobs, SrvReached, SrvNoJob
      <3>4. SrvHeld'
        BY <2>1, <3>1 DEF SrvIInv, SrvHeld, SrvNoJob
      <3>5. SrvTruthful'
        BY <2>1, <2>4, <3>1 DEF SrvIInv, SrvReached, SrvTruthful
      <3>6. SrvFitAdapter'
        BY <2>1, <2>2, SrvTypes DEF SrvIInv, SrvFitAdapter, srvHost
      <3> QED
        BY <3>2, <3>3, <3>4, <3>5, <3>6 DEF SrvIInv
    <2> QED
      BY <1>4, <2>3, <2>4 DEF SrvReplied
  <1>5. ASSUME SrvFails PROVE SrvIInv'
    <2>1. srvJob.id \in SrvIds /\ srvFlags[srvJob.id] \in SrvRecord
      BY <1>5, SrvTypes DEF SrvFails
    <2>2. srvMishaps \cap {"cut", "restarted"} = {} => hostApp \subseteq {srvJob.id}
      BY <1>5 DEF SrvFails, SrvIInv, SrvJobs, SrvHeld
    <2> QED
      BY <1>5, <2>1, <2>2, SrvCleaned DEF SrvFails
  <1>6. ASSUME SrvStop PROVE SrvIInv'
    <2>1. CASE srvCur = 0
      BY <1>6, <2>1 DEF SrvStop, srvHost, SrvIInv, SrvTypeOK, SrvJobs, SrvReached, SrvHeld,
         SrvTruthful, SrvFitAdapter, SrvNoJob
    <2>2. CASE srvCur # 0
      <3>1. srvCur \in SrvIds /\ srvFlags[srvCur] \in SrvRecord
        BY <2>2, SrvTypes
      <3>2. srvMishaps \cap {"cut", "restarted"} = {} => hostApp \subseteq {srvCur}
        BY <1>6 DEF SrvStop, SrvNoJob, SrvIInv, SrvHeld
      <3> QED
        BY <1>6, <2>2, <3>1, <3>2, SrvCleaned DEF SrvStop
    <2> QED
      BY <2>1, <2>2
  <1>7. ASSUME SrvUnregistered PROVE SrvIInv'
    <2> DEFINE f == Unregistered(srvJob.at, srvFlags[srvJob.id])
    <2>1. srvJob.kind \in {"undo", "stop"}
      BY <1>7, SrvTypes DEF SrvUnregistered, SrvIInv, SrvJobs, SrvNoJob
    <2>2. srvJob.id \in SrvIds /\ srvFlags[srvJob.id] \in SrvRecord
      BY <2>1, SrvTypes
    <2>3. f \in SrvRecord /\ f.adapter = srvFlags[srvJob.id].adapter
      BY <2>2 DEF Unregistered, SrvRecord
    <2>4. srvCur' = 0 /\ CleanedFrom(srvJob.kind, srvJob.id, f) /\ UNCHANGED <<srvHost, srvMade, srvMishaps>>
      BY <1>7, <2>1 DEF SrvUnregistered, SrvIInv, SrvJobs
    <2>5. srvMishaps \cap {"cut", "restarted"} = {} => hostApp \subseteq {srvJob.id}
      BY <2>1 DEF SrvIInv, SrvHeld
    <2> HIDE DEF f
    <2> QED
      BY <2>1, <2>2, <2>3, <2>4, <2>5, SrvCleaned
  <1>8. ASSUME SrvStopCut PROVE SrvIInv'
    <2>1. SrvTypeOK'
      BY <1>8, SrvTypes DEF SrvStopCut, srvHost, SrvIInv, SrvTypeOK, SrvJobs, SrvNoJob
    <2>2. SrvJobs' /\ SrvReached' /\ SrvHeld'
      BY <1>8, SrvTypes DEF SrvStopCut, srvHost, SrvIInv, SrvJobs, SrvReached, SrvHeld, SrvFits, SrvNoJob, SrvRecord
    <2>3. SrvTruthful' /\ SrvFitAdapter'
      BY <1>8, SrvTypes DEF SrvStopCut, srvHost, SrvIInv, SrvJobs, SrvReached, SrvHeld, SrvFits, SrvNoJob, SrvTruthful, SrvFitAdapter, SrvRecord
    <2> QED
      BY <2>1, <2>2, <2>3 DEF SrvIInv
  <1>9. ASSUME NEW id \in SrvIds, SrvReleasedByHost(id) PROVE SrvIInv'
    <2>1. SrvTypeOK'
      <3>1. srvFlags' \in [SrvIds -> SrvRecord]
            /\ \A i \in SrvIds : srvFlags[i].adv = FALSE => srvFlags'[i].adv = FALSE
        BY <1>9, SrvTypes DEF SrvReleasedByHost, SrvRecord
      <3>2. srvJob'.at = "unapp" => ~srvFlags'[srvJob'.id].adv
        BY <1>9, <3>1, SrvTypes DEF SrvReleasedByHost, SrvIInv, SrvTypeOK, SrvJobs, SrvNoJob, SrvRecord
      <3>3. srvOn' \in BOOLEAN /\ hostAdv' \subseteq SrvIds
        BY <1>9, SrvTypes DEF SrvReleasedByHost, ReleaseSeen
      <3> QED
        BY <1>9, <3>1, <3>2, <3>3, SrvTypes, SrvTyped DEF SrvReleasedByHost, SrvIInv, SrvTypeOK
    <2>2. SrvJobs' /\ SrvReached' /\ SrvHeld'
      BY <1>9, SrvTypes DEF SrvReleasedByHost, ReleaseSeen, srvHost, SrvIInv, SrvJobs, SrvReached, SrvHeld, SrvFits, SrvNoJob, SrvRecord
    <2>3. SrvTruthful' /\ SrvFitAdapter'
      <3>1. srvOn' = FALSE /\ UNCHANGED <<srvHost, hostApp>>
        BY <1>9 DEF SrvReleasedByHost, ReleaseSeen
      <3>2. \A i \in SrvIds : srvFlags'[i].adapter = srvFlags[i].adapter
        BY <1>9, SrvTypes DEF SrvReleasedByHost, SrvRecord
      <3> QED
        BY <3>1, <3>2, SrvTypes DEF SrvIInv, SrvTruthful, SrvFitAdapter, srvHost
    <2> QED
      BY <2>1, <2>2, <2>3 DEF SrvIInv
  <1> QED
    BY <1>0, <1>1, <1>2, <1>3, <1>4, <1>5, <1>6, <1>7, <1>8, <1>9 DEF SrvNext

\* SrvIInv holds in every state.
LEMMA SrvInvariant == SrvSpec => []SrvIInv
  <1>1. SrvInit => SrvIInv
    <2> SUFFICES ASSUME SrvInit PROVE SrvIInv
      OBVIOUS
    <2>1. SrvTypeOK
      <3>1. SrvNew \in SrvRecord
        BY DEF SrvNew, SrvRecord
      <3>2. srvFlags \in [SrvIds -> SrvRecord] /\ srvCur \in 0..SrvMaxBackends /\ srvMade \in 0..SrvMaxBackends
        BY <3>1, SrvAssumption DEF SrvInit
      <3> QED
        BY <3>2 DEF SrvInit, SrvTypeOK, SrvRecord, SrvNoJob
    <2>2. SrvJobs /\ SrvReached /\ SrvHeld /\ SrvTruthful /\ SrvFitAdapter
      BY DEF SrvInit, SrvJobs, SrvReached, SrvHeld, SrvTruthful, SrvFitAdapter, SrvNoJob
    <2> QED
      BY <2>1, <2>2 DEF SrvIInv
  <1> QED
    BY <1>1, SrvInductive, PTL DEF SrvSpec

\* Wherever BLEServer.start fails or is cancelled and whatever the host takes back,
\* a server that stopped has left nothing with the host, one that says it
\* advertises does, and only on an adapter that can serve: but for a stop that was
\* cut, a start over a backend that was released, and a release that outran its
\* registration's answer.
THEOREM SrvSafety == SrvSpec => []SrvSafe
  <1>1. SrvIInv => SrvSafe
    <2> SUFFICES ASSUME SrvIInv PROVE SrvSafe
      OBVIOUS
    <2>1. SrvNothingLeft
      BY SrvTypes DEF SrvIInv, SrvTypeOK, SrvHeld, SrvNoJob, SrvNothingLeft
    <2> QED
      BY <2>1 DEF SrvIInv, SrvSafe
  <1> QED
    BY <1>1, SrvInvariant, PTL
-----------------------------------------------------------------------------
(***************************************************************************)
(* The transport.  The jobs, by the awaits they have ahead of them.        *)
(***************************************************************************)

Check4 == <<"check", "mon", "serve", "scan">>
Mon3 == <<"mon", "serve", "scan">>
Serve2 == <<"serve", "scan">>
Serve1 == <<"serve">>
Scan1 == <<"scan">>
Release3 == <<"unmon", "unscan", "unserve">>
Release2 == <<"unscan", "unserve">>
Last1 == <<"unserve">>
Gather5 == <<"gather", "unmon", "unscan", "links", "unserve">>
Unmon4 == <<"unmon", "unscan", "links", "unserve">>
Unscan3 == <<"unscan", "links", "unserve">>
Links2 == <<"links", "unserve">>

BtApiJobs ==
  {BtNoJob, BtJob("scanfail", Last1)}
    \cup {BtJob("start", Check4), BtJob("start", Mon3), BtJob("start", Serve2),
          BtJob("start", Serve1), BtJob("start", Scan1)}
    \cup {BtJob("release", Release3), BtJob("release", Release2), BtJob("release", Last1)}
    \cup {BtJob("stop", Gather5), BtJob("stop", Unmon4), BtJob("stop", Unscan3),
          BtJob("stop", Links2), BtJob("stop", Last1)}
BtHaltJobs == {BtNoJob, BtJob("halt", Unscan3), BtJob("halt", Links2), BtJob("halt", Last1)}
BtFindJobs == {BtNoJob, BtJob("find", Scan1)}

\* The job under the lock is still going to stop the monitor, the scanner (and take
\* the links out of the manager's table), the links, the server.
UnmonAhead == btApi.todo \in {Gather5, Unmon4, Release3}
UnscanAhead == btApi.todo \in {Gather5, Unmon4, Unscan3, Release3, Release2}
LinksAhead == btApi.todo \in {Gather5, Unmon4, Unscan3, Links2}
UnserveAhead == btApi.todo \in {Gather5, Unmon4, Unscan3, Links2, Release3, Release2, Last1}

BtShape ==
  /\ btRunning \in BOOLEAN /\ btMode \in BtModes /\ roles \subseteq {"central", "peripheral"}
  /\ scanning \in BOOLEAN /\ onAir \in BOOLEAN /\ advertising \in BOOLEAN
  /\ btMonitoring \in BOOLEAN /\ btWanted \in BOOLEAN
  /\ radio \in BtRadios /\ radioSeen \in BtRadios
  /\ btApi \in BtApiJobs /\ btHalt \in BtHaltJobs /\ btFind \in BtFindJobs
  /\ link \in {"none", "dialling", "live", "doomed", "closing"}
  /\ btMishaps \subseteq {"lost", "scan", "cut", "late"}
BtCounts == btFlips \in 0..BtMaxFlips /\ btOps \in 0..BtMaxOps

BtClean == "cut" \notin btMishaps /\ "scan" \notin btMishaps

\* What holds of the jobs in progress whatever came in their way.
BtJobsFit ==
  /\ btApi = BtJob("start", Serve1) => "central" \notin roles
  /\ btApi.kind \in {"start", "scanfail", "release"} => btWanted
  /\ btApi = BtJob("stop", Gather5) => "cut" \in btMishaps
  /\ btApi # BtNoJob /\ btFind # BtNoJob => "scan" \in btMishaps
  /\ ~btWanted => ~btRunning

\* A stop or a release that nothing came between has ahead of it what is left to
\* stop; once a stop is through, nothing is.
BtWindsDown ==
  BtClean =>
    /\ onAir = scanning
    /\ btApi.kind \in {"release", "stop"} \/ ~btWanted =>
         (btMonitoring => UnmonAhead) /\ (scanning => UnscanAhead) /\ (advertising => UnserveAhead)
    /\ ~btWanted =>
         /\ btFind = BtNoJob
         /\ "late" \notin btMishaps =>
              /\ btMode \in BtDown
              /\ link \in {"dialling", "live"} => UnscanAhead
              /\ link \in {"doomed", "closing"} => LinksAhead

\* As long as nothing has come in the way of anything, jobs run one at a time, and
\* the state is down or CHECKING until one is through.
BtInTurn ==
  btMishaps = {} =>
    /\ btMode \in {"SCANNING", "PEER_FOUND"} => scanning
    /\ BtWorks => btRunning /\ btApi = BtNoJob /\ btHalt = BtNoJob
    /\ btApi # BtNoJob => btHalt = BtNoJob
    /\ btApi.kind \in {"start", "scanfail"} => btRunning
    /\ btFind # BtNoJob => btRunning /\ btApi = BtNoJob /\ btHalt = BtNoJob

BtCore == BtShape /\ BtJobsFit /\ BtWindsDown /\ BtInTurn
BtIInv == BtCore /\ BtCounts

(* The lists of awaits, told apart by their first and their length.          *)
BtTodos == {Check4, Mon3, Serve2, Serve1, Scan1, Release3, Release2, Last1, Gather5, Unmon4,
Unscan3, Links2}
LEMMA TodoFacts ==
  /\ Check4 # <<>> /\ Len(Check4) = 4 /\ Head(Check4) = "check" /\ Tail(Check4) = Mon3
  /\ Mon3 # <<>> /\ Len(Mon3) = 3 /\ Head(Mon3) = "mon" /\ Tail(Mon3) = Serve2
  /\ Serve2 # <<>> /\ Len(Serve2) = 2 /\ Head(Serve2) = "serve" /\ Tail(Serve2) = Scan1
  /\ Serve1 # <<>> /\ Len(Serve1) = 1 /\ Head(Serve1) = "serve"
  /\ Scan1 # <<>> /\ Len(Scan1) = 1 /\ Head(Scan1) = "scan"
  /\ Release3 # <<>> /\ Len(Release3) = 3 /\ Head(Release3) = "unmon" /\ Tail(Release3) = Release2
  /\ Release2 # <<>> /\ Len(Release2) = 2 /\ Head(Release2) = "unscan" /\ Tail(Release2) = Last1
  /\ Last1 # <<>> /\ Len(Last1) = 1 /\ Head(Last1) = "unserve"
  /\ Gather5 # <<>> /\ Len(Gather5) = 5 /\ Head(Gather5) = "gather" /\ Tail(Gather5) = Unmon4
  /\ Unmon4 # <<>> /\ Len(Unmon4) = 4 /\ Head(Unmon4) = "unmon" /\ Tail(Unmon4) = Unscan3
  /\ Unscan3 # <<>> /\ Len(Unscan3) = 3 /\ Head(Unscan3) = "unscan" /\ Tail(Unscan3) = Links2
  /\ Links2 # <<>> /\ Len(Links2) = 2 /\ Head(Links2) = "links" /\ Tail(Links2) = Last1
  BY DEF Check4, Mon3, Serve2, Serve1, Scan1, Release3, Release2, Last1, Gather5, Unmon4, Unscan3, Links2

LEMMA TodoSteps ==
  ASSUME NEW q \in BtTodos
  PROVE  Len(q) <= 5 /\ \A i \in 1..Len(q) : q[i] \in BtSteps
  <1>1. Len(Check4) <= 5 /\ \A i \in 1..Len(Check4) : Check4[i] \in BtSteps
    BY DEF Check4, BtSteps
  <1>2. Len(Mon3) <= 5 /\ \A i \in 1..Len(Mon3) : Mon3[i] \in BtSteps
    BY DEF Mon3, BtSteps
  <1>3. Len(Serve2) <= 5 /\ \A i \in 1..Len(Serve2) : Serve2[i] \in BtSteps
    BY DEF Serve2, BtSteps
  <1>4. Len(Serve1) <= 5 /\ \A i \in 1..Len(Serve1) : Serve1[i] \in BtSteps
    BY DEF Serve1, BtSteps
  <1>5. Len(Scan1) <= 5 /\ \A i \in 1..Len(Scan1) : Scan1[i] \in BtSteps
    BY DEF Scan1, BtSteps
  <1>6. Len(Release3) <= 5 /\ \A i \in 1..Len(Release3) : Release3[i] \in BtSteps
    BY DEF Release3, BtSteps
  <1>7. Len(Release2) <= 5 /\ \A i \in 1..Len(Release2) : Release2[i] \in BtSteps
    BY DEF Release2, BtSteps
  <1>8. Len(Last1) <= 5 /\ \A i \in 1..Len(Last1) : Last1[i] \in BtSteps
    BY DEF Last1, BtSteps
  <1>9. Len(Gather5) <= 5 /\ \A i \in 1..Len(Gather5) : Gather5[i] \in BtSteps
    BY DEF Gather5, BtSteps
  <1>10. Len(Unmon4) <= 5 /\ \A i \in 1..Len(Unmon4) : Unmon4[i] \in BtSteps
    BY DEF Unmon4, BtSteps
  <1>11. Len(Unscan3) <= 5 /\ \A i \in 1..Len(Unscan3) : Unscan3[i] \in BtSteps
    BY DEF Unscan3, BtSteps
  <1>12. Len(Links2) <= 5 /\ \A i \in 1..Len(Links2) : Links2[i] \in BtSteps
    BY DEF Links2, BtSteps
  <1> QED
    BY <1>1, <1>2, <1>3, <1>4, <1>5, <1>6, <1>7, <1>8, <1>9, <1>10, <1>11, <1>12 DEF BtTodos

LEMMA JobOf ==
  ASSUME NEW kind, NEW q
  PROVE  BtJob(kind, q).kind = kind /\ BtJob(kind, q).todo = q
  BY DEF BtJob
LEMMA JobTable ==
  ASSUME NEW kind
  PROVE  /\ BtAt(BtJob(kind, Check4)) = "check" /\ BtNextOf(BtJob(kind, Check4)) = BtJob(kind, Mon3)
         /\ BtAt(BtJob(kind, Mon3)) = "mon" /\ BtNextOf(BtJob(kind, Mon3)) = BtJob(kind, Serve2)
         /\ BtAt(BtJob(kind, Serve2)) = "serve" /\ BtNextOf(BtJob(kind, Serve2)) = BtJob(kind, Scan1)
         /\ BtAt(BtJob(kind, Serve1)) = "serve" /\ BtNextOf(BtJob(kind, Serve1)) = BtNoJob
         /\ BtAt(BtJob(kind, Scan1)) = "scan" /\ BtNextOf(BtJob(kind, Scan1)) = BtNoJob
         /\ BtAt(BtJob(kind, Release3)) = "unmon" /\ BtNextOf(BtJob(kind, Release3)) = BtJob(kind, Release2)
         /\ BtAt(BtJob(kind, Release2)) = "unscan" /\ BtNextOf(BtJob(kind, Release2)) = BtJob(kind, Last1)
         /\ BtAt(BtJob(kind, Last1)) = "unserve" /\ BtNextOf(BtJob(kind, Last1)) = BtNoJob
         /\ BtAt(BtJob(kind, Gather5)) = "gather" /\ BtNextOf(BtJob(kind, Gather5)) = BtJob(kind, Unmon4)
         /\ BtAt(BtJob(kind, Unmon4)) = "unmon" /\ BtNextOf(BtJob(kind, Unmon4)) = BtJob(kind, Unscan3)
         /\ BtAt(BtJob(kind, Unscan3)) = "unscan" /\ BtNextOf(BtJob(kind, Unscan3)) = BtJob(kind, Links2)
         /\ BtAt(BtJob(kind, Links2)) = "links" /\ BtNextOf(BtJob(kind, Links2)) = BtJob(kind, Last1)
  <1>1. BtAt(BtJob(kind, Check4)) = "check" /\ BtNextOf(BtJob(kind, Check4)) = BtJob(kind, Mon3)
    BY DEF BtJob, BtAt, BtNextOf, Check4, Mon3
  <1>2. BtAt(BtJob(kind, Mon3)) = "mon" /\ BtNextOf(BtJob(kind, Mon3)) = BtJob(kind, Serve2)
    BY DEF BtJob, BtAt, BtNextOf, Mon3, Serve2
  <1>3. BtAt(BtJob(kind, Serve2)) = "serve" /\ BtNextOf(BtJob(kind, Serve2)) = BtJob(kind, Scan1)
    BY DEF BtJob, BtAt, BtNextOf, Serve2, Scan1
  <1>4. BtAt(BtJob(kind, Serve1)) = "serve" /\ BtNextOf(BtJob(kind, Serve1)) = BtNoJob
    BY DEF BtJob, BtAt, BtNextOf, Serve1
  <1>5. BtAt(BtJob(kind, Scan1)) = "scan" /\ BtNextOf(BtJob(kind, Scan1)) = BtNoJob
    BY DEF BtJob, BtAt, BtNextOf, Scan1
  <1>6. BtAt(BtJob(kind, Release3)) = "unmon" /\ BtNextOf(BtJob(kind, Release3)) = BtJob(kind, Release2)
    BY DEF BtJob, BtAt, BtNextOf, Release3, Release2
  <1>7. BtAt(BtJob(kind, Release2)) = "unscan" /\ BtNextOf(BtJob(kind, Release2)) = BtJob(kind, Last1)
    BY DEF BtJob, BtAt, BtNextOf, Release2, Last1
  <1>8. BtAt(BtJob(kind, Last1)) = "unserve" /\ BtNextOf(BtJob(kind, Last1)) = BtNoJob
    BY DEF BtJob, BtAt, BtNextOf, Last1
  <1>9. BtAt(BtJob(kind, Gather5)) = "gather" /\ BtNextOf(BtJob(kind, Gather5)) = BtJob(kind, Unmon4)
    BY DEF BtJob, BtAt, BtNextOf, Gather5, Unmon4
  <1>10. BtAt(BtJob(kind, Unmon4)) = "unmon" /\ BtNextOf(BtJob(kind, Unmon4)) = BtJob(kind, Unscan3)
    BY DEF BtJob, BtAt, BtNextOf, Unmon4, Unscan3
  <1>11. BtAt(BtJob(kind, Unscan3)) = "unscan" /\ BtNextOf(BtJob(kind, Unscan3)) = BtJob(kind, Links2)
    BY DEF BtJob, BtAt, BtNextOf, Unscan3, Links2
  <1>12. BtAt(BtJob(kind, Links2)) = "links" /\ BtNextOf(BtJob(kind, Links2)) = BtJob(kind, Last1)
    BY DEF BtJob, BtAt, BtNextOf, Links2, Last1
  <1> QED
    BY <1>1, <1>2, <1>3, <1>4, <1>5, <1>6, <1>7, <1>8, <1>9, <1>10, <1>11, <1>12

LEMMA NoJobIs ==
  /\ BtNoJob.kind = "none" /\ BtNoJob.todo = <<>> /\ BtAt(BtNoJob) = "none"
  BY DEF BtNoJob, BtAt

\* Which job stands at an await, and what it becomes.
LEMMA ApiAt ==
  ASSUME BtShape
  PROVE  /\ BtAt(btApi) = "check" => btApi = BtJob("start", Check4) /\ BtNextOf(btApi) = BtJob("start", Mon3)
         /\ BtAt(btApi) = "mon" => btApi = BtJob("start", Mon3)
         /\ BtAt(btApi) = "serve" =>
              \/ btApi = BtJob("start", Serve2) /\ Len(btApi.todo) = 2 /\ BtNextOf(btApi) = BtJob("start", Scan1)
              \/ btApi = BtJob("start", Serve1) /\ Len(btApi.todo) = 1
         /\ BtAt(btApi) = "scan" => btApi = BtJob("start", Scan1)
         /\ BtAt(btApi) = "unmon" =>
              \/ btApi = BtJob("release", Release3) /\ BtNextOf(btApi) = BtJob("release", Release2)
              \/ btApi = BtJob("stop", Unmon4) /\ BtNextOf(btApi) = BtJob("stop", Unscan3)
         /\ BtAt(btApi) = "unscan" =>
              \/ btApi = BtJob("release", Release2) /\ BtNextOf(btApi) = BtJob("release", Last1)
              \/ btApi = BtJob("stop", Unscan3) /\ BtNextOf(btApi) = BtJob("stop", Links2)
         /\ BtAt(btApi) = "links" => btApi = BtJob("stop", Links2) /\ BtNextOf(btApi) = BtJob("stop", Last1)
         /\ BtAt(btApi) = "unserve" =>
              btApi \in {BtJob("scanfail", Last1), BtJob("release", Last1), BtJob("stop", Last1)}
              /\ BtNextOf(btApi) = BtNoJob
         /\ BtAt(btApi) = "gather" => btApi = BtJob("stop", Gather5) /\ BtNextOf(btApi) = BtJob("stop", Unmon4)
  <1>1. btApi \in BtApiJobs
    BY DEF BtShape
  <1>2. BtAt(btApi) = "check" => btApi = BtJob("start", Check4) /\ BtNextOf(btApi) = BtJob("start", Mon3)
    BY <1>1, TodoFacts, JobTable, JobOf, NoJobIs DEF BtApiJobs
  <1>3. BtAt(btApi) = "mon" => btApi = BtJob("start", Mon3)
    BY <1>1, TodoFacts, JobTable, JobOf, NoJobIs DEF BtApiJobs
  <1>4. BtAt(btApi) = "serve" =>
           \/ btApi = BtJob("start", Serve2) /\ Len(btApi.todo) = 2 /\ BtNextOf(btApi) = BtJob("start", Scan1)
           \/ btApi = BtJob("start", Serve1) /\ Len(btApi.todo) = 1
    BY <1>1, TodoFacts, JobTable, JobOf, NoJobIs DEF BtApiJobs
  <1>5. BtAt(btApi) = "scan" => btApi = BtJob("start", Scan1)
    BY <1>1, TodoFacts, JobTable, JobOf, NoJobIs DEF BtApiJobs
  <1>6. BtAt(btApi) = "unmon" =>
           \/ btApi = BtJob("release", Release3) /\ BtNextOf(btApi) = BtJob("release", Release2)
           \/ btApi = BtJob("stop", Unmon4) /\ BtNextOf(btApi) = BtJob("stop", Unscan3)
    BY <1>1, TodoFacts, JobTable, JobOf, NoJobIs DEF BtApiJobs
  <1>7. BtAt(btApi) = "unscan" =>
           \/ btApi = BtJob("release", Release2) /\ BtNextOf(btApi) = BtJob("release", Last1)
           \/ btApi = BtJob("stop", Unscan3) /\ BtNextOf(btApi) = BtJob("stop", Links2)
    BY <1>1, TodoFacts, JobTable, JobOf, NoJobIs DEF BtApiJobs
  <1>8. BtAt(btApi) = "links" => btApi = BtJob("stop", Links2) /\ BtNextOf(btApi) = BtJob("stop", Last1)
    BY <1>1, TodoFacts, JobTable, JobOf, NoJobIs DEF BtApiJobs
  <1>9. BtAt(btApi) = "unserve" =>
           btApi \in {BtJob("scanfail", Last1), BtJob("release", Last1), BtJob("stop", Last1)}
           /\ BtNextOf(btApi) = BtNoJob
    BY <1>1, TodoFacts, JobTable, JobOf, NoJobIs DEF BtApiJobs
  <1>10. BtAt(btApi) = "gather" => btApi = BtJob("stop", Gather5) /\ BtNextOf(btApi) = BtJob("stop", Unmon4)
    BY <1>1, TodoFacts, JobTable, JobOf, NoJobIs DEF BtApiJobs
  <1> QED
    BY <1>2, <1>3, <1>4, <1>5, <1>6, <1>7, <1>8, <1>9, <1>10

LEMMA HaltAt ==
  ASSUME BtShape
  PROVE  /\ BtAt(btHalt) = "unscan" => BtNextOf(btHalt) = BtJob("halt", Links2)
         /\ BtAt(btHalt) = "links" => BtNextOf(btHalt) = BtJob("halt", Last1)
         /\ BtAt(btHalt) = "unserve" => BtNextOf(btHalt) = BtNoJob
         /\ BtAt(btHalt) \in {"unscan", "links", "unserve"} => btHalt # BtNoJob
  <1>1. btHalt \in BtHaltJobs
    BY DEF BtShape
  <1> QED
    BY <1>1, TodoFacts, JobTable, JobOf, NoJobIs DEF BtHaltJobs

LEMMA PrefixOne ==
  ASSUME NEW S, NEW a \in S, NEW q \in Seq(S), NEW r \in Seq(S), Len(r) = Len(q) + 1, r[1] = a,
         \A i \in 1..Len(q) : r[i + 1] = q[i]
  PROVE  <<a>> \o q = r
  <1> DEFINE n == Len(q)
             c == <<a>> \o q
  <1>1. <<a>> \in Seq(S) /\ Len(<<a>>) = 1 /\ <<a>>[1] = a /\ n \in Nat
    OBVIOUS
  <1>2. /\ c \in Seq(S) /\ Len(c) = n + 1
        /\ \A i \in 1..(n + 1) : c[i] = IF i <= 1 THEN <<a>>[i] ELSE q[i - 1]
    BY <1>1, ConcatProperties
  <1>3. ASSUME NEW i \in 1..(n + 1) PROVE c[i] = r[i]
    <2>1. CASE i = 1
      BY <1>1, <1>2, <2>1
    <2>2. CASE i # 1
      <3>1. i - 1 \in 1..n /\ (i - 1) + 1 = i
        <4> HIDE DEF n
        <4> QED
          BY <1>1, <2>2
      <3>2. c[i] = q[i - 1]
        BY <1>2, <2>2
      <3> QED
        BY <3>1, <3>2
    <2> QED
      BY <2>1, <2>2
  <1>4. Len(c) = Len(r)
    BY <1>2
  <1> HIDE DEF c
  <1>5. \A i \in 1..Len(c) : c[i] = r[i]
    BY <1>2, <1>3
  <1>6. c = r
    BY <1>2, <1>4, <1>5, SeqEqual
  <1> QED
    BY <1>6 DEF c

\* Facts about jobs that every step uses: how they are told apart, and by which
\* names the ones the actions begin go here.
LEMMA JobsApart ==
  /\ BtNoJob.kind = "none" /\ BtNoJob.todo = <<>>
  /\ \A kind, q : BtJob(kind, q).kind = kind /\ BtJob(kind, q).todo = q
  BY NoJobIs, JobOf
LEMMA JobsDiffer ==
  /\ BtJob("start", Serve1) \notin
       {BtNoJob, BtJob("start", Check4), BtJob("start", Mon3), BtJob("start", Serve2), BtJob("start", Scan1),
        BtJob("release", Release3), BtJob("stop", Unmon4), BtJob("stop", Gather5)}
  /\ BtJob("stop", Gather5) \notin
       {BtNoJob, BtJob("start", Check4), BtJob("start", Mon3), BtJob("start", Serve2), BtJob("start", Serve1),
        BtJob("start", Scan1), BtJob("release", Release3), BtJob("stop", Unmon4)}
  <1>1. Serve1 \notin {Check4, Mon3, Serve2, Scan1, Release3, Unmon4, Gather5} /\ Gather5 # Unmon4
    BY TodoFacts
  <1> QED
    BY <1>1, JobsApart
LEMMA JobNames ==
  /\ BtRelease = BtJob("release", Release3)
  /\ BtJob("start", <<"check", "mon", "serve", "scan">>) = BtJob("start", Check4)
  /\ BtJob("scanfail", <<"unserve">>) = BtJob("scanfail", Last1)
  /\ BtJob("stop", BtShutdown) = BtJob("stop", Unmon4)
  /\ BtJob("stop", <<"gather">> \o BtShutdown) = BtJob("stop", Gather5)
  /\ BtJob("halt", <<"unscan", "links", "unserve">>) = BtJob("halt", Unscan3)
  /\ BtJob("find", <<"scan">>) = BtJob("find", Scan1)
  <1>1. Unmon4 \in Seq(BtSteps) /\ Gather5 \in Seq(BtSteps) /\ "gather" \in BtSteps
    BY DEF BtSteps, Unmon4, Gather5
  <1>2. /\ Len(Gather5) = Len(Unmon4) + 1 /\ Gather5[1] = "gather"
        /\ \A i \in 1..Len(Unmon4) : Gather5[i + 1] = Unmon4[i]
    BY DEF Unmon4, Gather5
  <1>3. <<"gather">> \o BtShutdown = Gather5 /\ BtShutdown = Unmon4
    BY <1>1, <1>2, PrefixOne DEF BtShutdown, Unmon4
  <1> QED
    BY <1>3 DEF BtRelease, Check4, Release3, Last1, Unscan3, Scan1
LEMMA RoleJobs ==
  ASSUME NEW r \in SUBSET {"central", "peripheral"}, r # {}
  PROVE  LET q == (IF "peripheral" \in r THEN <<"serve">> ELSE <<>>)
                    \o (IF "central" \in r THEN <<"scan">> ELSE <<>>)
         IN  q \in {Serve2, Scan1} \/ (q = Serve1 /\ "central" \notin r)
  <1>1. Scan1 \in Seq(BtSteps) /\ Serve2 \in Seq(BtSteps) /\ "serve" \in BtSteps
    BY DEF BtSteps, Scan1, Serve2
  <1>2. /\ Len(Serve2) = Len(Scan1) + 1 /\ Serve2[1] = "serve"
        /\ \A i \in 1..Len(Scan1) : Serve2[i + 1] = Scan1[i]
    BY DEF Scan1, Serve2
  <1>3. <<"serve">> \o Scan1 = Serve2
    BY <1>1, <1>2, PrefixOne
  <1>4. <<"serve">> \o <<>> = Serve1 /\ <<>> \o <<"scan">> = Scan1 /\ <<"scan">> = Scan1
    BY DEF Serve1, Scan1
  <1>5. CASE "peripheral" \in r /\ "central" \in r
    BY <1>3, <1>4, <1>5
  <1>6. CASE "peripheral" \in r /\ "central" \notin r
    BY <1>4, <1>6
  <1>7. CASE "peripheral" \notin r /\ "central" \in r
    BY <1>4, <1>7
  <1> QED
    BY <1>5, <1>6, <1>7

\* Every action keeps the invariant: first the jobs it leaves, then its parts.
LEMMA BtStartKeeps ==
  ASSUME BtCore, BtStart
  PROVE  BtCore'
  <1> USE DEF BtCore, btWorkers, btHost
  <1>1. btApi' = BtJob("start", Check4) /\ btApi = BtNoJob
    BY JobNames DEF BtStart, BtLockFree
  <1>2. btApi' \in BtApiJobs /\ btHalt' \in BtHaltJobs /\ btFind' \in BtFindJobs
    BY <1>1, JobsApart, TodoFacts
       DEF BtShape, BtStart, BtLockFree, Crossed, BtApiJobs, BtHaltJobs, BtFindJobs
  <1>3. /\ btMishaps \subseteq btMishaps' /\ btMishaps' \subseteq {"lost", "scan", "cut", "late"}
        /\ btFind # BtNoJob => "scan" \in btMishaps'
    BY DEF BtStart, BtShape, Crossed
  <1>4. BtShape'
    BY <1>1, <1>2, <1>3 DEF BtShape, BtStart, BtLockFree, Crossed, BtModes, BtDown, BtRadios
  <1>5. BtJobsFit'
    BY <1>1, <1>3, JobsApart, JobsDiffer DEF BtShape, BtJobsFit, BtStart, BtLockFree, Crossed
  <1>6. BtWindsDown'
    BY <1>1, <1>3, JobsApart, TodoFacts
       DEF BtShape, BtJobsFit, BtWindsDown, BtClean, UnmonAhead, UnscanAhead, LinksAhead,
           UnserveAhead, BtDown, BtStart, BtLockFree, Crossed
  <1>7. BtInTurn'
    BY <1>1, <1>3, JobsApart, TodoFacts
       DEF BtShape, BtJobsFit, BtInTurn, BtWorks, BtDown, BtStart, BtLockFree, Crossed
  <1> QED
    BY <1>4, <1>5, <1>6, <1>7

LEMMA BtStopKeeps ==
  ASSUME BtCore, BtStop
  PROVE  BtCore'
  <1> USE DEF BtCore, btWorkers, btHost
  <1>1. btApi = BtNoJob /\ btApi' \in {BtJob("stop", Unmon4), BtJob("stop", Gather5)}
    BY JobNames DEF BtStop, BtLockFree
  <1>2. btApi' \in BtApiJobs /\ btHalt' \in BtHaltJobs /\ btFind' \in BtFindJobs
    BY <1>1, JobsApart, TodoFacts
       DEF BtShape, BtStop, BtLockFree, Crossed, BtApiJobs, BtHaltJobs, BtFindJobs
  <1>3. /\ btMishaps \subseteq btMishaps' /\ btMishaps' \subseteq {"lost", "scan", "cut", "late"}
        /\ btFind # BtNoJob => "scan" \in btMishaps'
        /\ btApi' = BtJob("stop", Gather5) => "cut" \in btMishaps'
    BY <1>1, JobNames, JobsDiffer DEF BtStop, BtShape, Crossed
  <1>4. btMode' \in BtModes
    BY DEF BtStop, BtShape, BtModes, BtDown
  <1>5. BtShape'
    BY <1>1, <1>2, <1>3, <1>4 DEF BtShape, BtStop, BtLockFree, Crossed, BtModes, BtDown, BtRadios
  <1>6. BtJobsFit'
    BY <1>1, <1>3, <1>4, JobsApart, JobsDiffer DEF BtShape, BtJobsFit, BtStop, BtLockFree, Crossed
  <1>7. BtWindsDown'
    BY <1>1, <1>3, <1>4, JobsApart, TodoFacts
       DEF BtShape, BtJobsFit, BtWindsDown, BtClean, UnmonAhead, UnscanAhead, LinksAhead,
           UnserveAhead, BtDown, BtStop, BtLockFree, Crossed
  <1>8. BtInTurn'
    BY <1>1, <1>3, <1>4, JobsApart, TodoFacts
       DEF BtShape, BtJobsFit, BtInTurn, BtWorks, BtDown, BtStop, BtLockFree, Crossed
  <1> QED
    BY <1>5, <1>6, <1>7, <1>8

LEMMA BtFindKeeps ==
  ASSUME BtCore, BtFind
  PROVE  BtCore'
  <1> USE DEF BtCore, btWorkers, btHost
  <1>1. btApi' \in BtApiJobs /\ btHalt' \in BtHaltJobs /\ btFind' \in BtFindJobs
    BY ApiAt, HaltAt, JobsApart, TodoFacts, JobNames
       DEF BtShape, BtFind, BtIdle, BtApiJobs, BtHaltJobs, BtFindJobs
  <1>2. BtShape'
    BY <1>1 DEF BtShape, BtFind, BtIdle, BtModes, BtDown, BtRadios
  <1>3. BtJobsFit'
    BY ApiAt, HaltAt, JobsApart, TodoFacts, JobNames DEF BtShape, BtJobsFit, BtFind, BtIdle
  <1>4. BtWindsDown'
    BY ApiAt, HaltAt, JobsApart, TodoFacts, JobNames
       DEF BtShape, BtJobsFit, BtWindsDown, BtClean, UnmonAhead, UnscanAhead, LinksAhead,
           UnserveAhead, BtDown, BtFind, BtIdle
  <1>5. BtInTurn'
    BY ApiAt, HaltAt, JobsApart, TodoFacts, JobNames
       DEF BtShape, BtJobsFit, BtInTurn, BtWorks, BtDown, BtFind, BtIdle
  <1> QED
    BY <1>2, <1>3, <1>4, <1>5

LEMMA BtDialKeeps ==
  ASSUME BtCore, BtDial
  PROVE  BtCore'
  <1> USE DEF BtCore, btWorkers, btHost
  <1>1. btApi' \in BtApiJobs /\ btHalt' \in BtHaltJobs /\ btFind' \in BtFindJobs
    BY ApiAt, HaltAt, JobsApart, TodoFacts, JobNames
       DEF BtShape, BtDial, DialAllowed, Late, BtApiJobs, BtHaltJobs, BtFindJobs
  <1>2. BtShape'
    BY <1>1 DEF BtShape, BtDial, DialAllowed, Late, BtModes, BtDown, BtRadios
  <1>3. BtJobsFit'
    BY ApiAt, HaltAt, JobsApart, TodoFacts, JobNames
       DEF BtShape, BtJobsFit, BtDial, DialAllowed, Late
  <1>4. BtWindsDown'
    BY ApiAt, HaltAt, JobsApart, TodoFacts, JobNames
       DEF BtShape, BtJobsFit, BtWindsDown, BtClean, UnmonAhead, UnscanAhead, LinksAhead,
           UnserveAhead, BtDown, BtDial, DialAllowed, Late
  <1>5. BtInTurn'
    BY ApiAt, HaltAt, JobsApart, TodoFacts, JobNames
       DEF BtShape, BtJobsFit, BtInTurn, BtWorks, BtDown, BtDial, DialAllowed, Late
  <1> QED
    BY <1>2, <1>3, <1>4, <1>5

LEMMA BtStartCancelledKeeps ==
  ASSUME BtCore, BtStartCancelled
  PROVE  BtCore'
  <1> USE DEF BtCore, btWorkers, btHost
  <1>1. btApi.kind = "start" /\ btApi' = BtJob("release", Release3)
    BY JobNames DEF BtStartCancelled
  <1>2. btApi' \in BtApiJobs /\ btHalt' \in BtHaltJobs /\ btFind' \in BtFindJobs
    BY <1>1, JobsApart, TodoFacts DEF BtShape, BtStartCancelled, BtApiJobs, BtHaltJobs, BtFindJobs
  <1>3. btMishaps \subseteq btMishaps' /\ btMishaps' \subseteq {"lost", "scan", "cut", "late"}
    BY DEF BtStartCancelled, BtShape
  <1>4. onAir' \in BOOLEAN
    BY DEF BtStartCancelled, BtShape
  <1>a. btRunning' \in BOOLEAN /\ btMode' \in BtModes /\ roles' \subseteq {"central", "peripheral"}
    BY DEF BtShape, BtStartCancelled, BtModes, BtDown
  <1>b. scanning' \in BOOLEAN /\ advertising' \in BOOLEAN /\ btMonitoring' \in BOOLEAN /\ btWanted' \in BOOLEAN
    BY DEF BtShape, BtStartCancelled
  <1>c. radio' \in BtRadios /\ radioSeen' \in BtRadios /\ link' \in {"none", "dialling", "live", "doomed", "closing"}
    BY DEF BtShape, BtStartCancelled
  <1>5. BtShape'
    BY <1>2, <1>3, <1>4, <1>a, <1>b, <1>c DEF BtShape
  <1>6. BtJobsFit'
    BY <1>1, <1>3, <1>4, JobsApart, JobsDiffer DEF BtShape, BtJobsFit, BtStartCancelled
  <1>7. BtWindsDown'
    BY <1>1, <1>3, <1>4, JobsApart, TodoFacts
       DEF BtShape, BtJobsFit, BtWindsDown, BtClean, UnmonAhead, UnscanAhead, LinksAhead,
           UnserveAhead, BtDown, BtStartCancelled
  <1>8. BtInTurn'
    BY <1>1, <1>3, <1>4, JobsApart, TodoFacts
       DEF BtShape, BtJobsFit, BtInTurn, BtWorks, BtDown, BtStartCancelled
  <1> QED
    BY <1>5, <1>6, <1>7, <1>8

LEMMA BtCheckedKeeps ==
  ASSUME BtCore, BtChecked
  PROVE  BtCore'
  <1> USE DEF BtCore, btWorkers, btHost
  <1>1. /\ btApi = BtJob("start", Check4)
        /\ btApi' \in {BtJob("start", Mon3), BtJob("release", Release3)}
    BY ApiAt, JobNames DEF BtChecked
  <1>2. btApi' \in BtApiJobs /\ btHalt' \in BtHaltJobs /\ btFind' \in BtFindJobs
    BY <1>1, JobsApart, TodoFacts DEF BtShape, BtChecked, BtApiJobs, BtHaltJobs, BtFindJobs
  <1>3. \/ UNCHANGED <<btMode, btRunning>> /\ btApi' = BtJob("start", Mon3)
        \/ btMode' \in {"UNAVAILABLE", "DISABLED"} /\ ~btRunning' /\ btApi' = BtJob("release", Release3)
    BY ApiAt, JobNames DEF BtChecked
  <1>a. btRunning' \in BOOLEAN /\ btMode' \in BtModes /\ roles' \subseteq {"central", "peripheral"}
    BY DEF BtShape, BtChecked, BtModes, BtDown
  <1>b. scanning' \in BOOLEAN /\ onAir' \in BOOLEAN /\ advertising' \in BOOLEAN
        /\ btMonitoring' \in BOOLEAN /\ btWanted' \in BOOLEAN
    BY DEF BtShape, BtChecked
  <1>c. radio' \in BtRadios /\ radioSeen' \in BtRadios /\ link' \in {"none", "dialling", "live", "doomed", "closing"}
        /\ btMishaps' \subseteq {"lost", "scan", "cut", "late"}
    BY DEF BtShape, BtChecked
  <1>4. BtShape'
    BY <1>2, <1>a, <1>b, <1>c DEF BtShape
  <1>5. BtJobsFit'
    BY <1>1, <1>3, JobsApart, JobsDiffer DEF BtShape, BtJobsFit, BtChecked
  <1>6. BtWindsDown'
    BY <1>1, <1>3, JobsApart, TodoFacts
       DEF BtShape, BtJobsFit, BtWindsDown, BtClean, UnmonAhead, UnscanAhead, LinksAhead,
           UnserveAhead, BtDown, BtChecked
  <1>7. BtInTurn'
    BY <1>1, <1>3, JobsApart, TodoFacts DEF BtShape, BtJobsFit, BtInTurn, BtWorks, BtDown, BtChecked
  <1> QED
    BY <1>4, <1>5, <1>6, <1>7

LEMMA BtMonitoredKeeps ==
  ASSUME BtCore, BtMonitored
  PROVE  BtCore'
  <1> USE DEF BtCore, btWorkers, btHost
  <1>1. /\ btApi = BtJob("start", Mon3) /\ roles' \in SUBSET {"central", "peripheral"}
        /\ \/ btApi' = BtJob("release", Release3)
           \/ btApi' \in {BtJob("start", Serve2), BtJob("start", Scan1)}
           \/ btApi' = BtJob("start", Serve1) /\ "central" \notin roles'
    <2>1. /\ BtAt(btApi) = "mon" /\ roles' \in BtRoleSets
          /\ \/ roles' = {} /\ btApi' = BtRelease
             \/ /\ roles' # {}
                /\ btApi' = BtJob("start", (IF "peripheral" \in roles' THEN <<"serve">> ELSE <<>>)
                                    \o (IF "central" \in roles' THEN <<"scan">> ELSE <<>>))
      BY DEF BtMonitored
    <2>2. roles' \in SUBSET {"central", "peripheral"}
      BY <2>1, BtAssumption
    <2> QED
      BY <2>1, <2>2, ApiAt, RoleJobs, JobNames
  <1>2. btApi' \in BtApiJobs /\ btHalt' \in BtHaltJobs /\ btFind' \in BtFindJobs
    BY <1>1, JobsApart, TodoFacts DEF BtShape, BtMonitored, BtApiJobs, BtHaltJobs, BtFindJobs
  <1>3. btMode' \in BtModes /\ radioSeen' \in BtRadios /\ btMonitoring' \in BOOLEAN /\ btRunning' \in BOOLEAN
    BY DEF BtMonitored, BtShape, BtModes, BtDown
  <1>4. \/ UNCHANGED <<btMode, btRunning>> /\ btApi'.kind = "start"
        \/ btMode' = "ERROR" /\ ~btRunning' /\ btApi' = BtJob("release", Release3)
    BY JobsApart, JobNames DEF BtMonitored
  <1>5. BtShape'
    BY <1>1, <1>2, <1>3, <1>4 DEF BtShape, BtMonitored, BtModes, BtDown, BtRadios
  <1>6. BtJobsFit'
    BY <1>1, <1>3, <1>4, JobsApart, JobsDiffer DEF BtShape, BtJobsFit, BtMonitored
  <1>7. BtWindsDown'
    BY <1>1, <1>3, <1>4, JobsApart, TodoFacts
       DEF BtShape, BtJobsFit, BtWindsDown, BtClean, UnmonAhead, UnscanAhead, LinksAhead,
           UnserveAhead, BtDown, BtMonitored
  <1>8. BtInTurn'
    BY <1>1, <1>3, <1>4, JobsApart, TodoFacts
       DEF BtShape, BtJobsFit, BtInTurn, BtWorks, BtDown, BtMonitored
  <1> QED
    BY <1>5, <1>6, <1>7, <1>8

LEMMA BtServedKeeps ==
  ASSUME BtCore, BtServed
  PROVE  BtCore'
  <1> USE DEF BtCore, btWorkers, btHost
  <1>1. /\ btApi \in {BtJob("start", Serve2), BtJob("start", Serve1)}
        /\ btApi' \in {BtJob("start", Scan1), BtJob("release", Release3), BtNoJob}
    BY ApiAt, JobNames DEF BtServed, BtStartEnds
  <1>2. btApi' \in BtApiJobs /\ btHalt' \in BtHaltJobs /\ btFind' \in BtFindJobs
    BY <1>1, JobsApart, TodoFacts
       DEF BtShape, BtServed, BtStartEnds, BtApiJobs, BtHaltJobs, BtFindJobs
  <1>3. advertising' \in BOOLEAN
    BY DEF BtServed, BtShape
  <1>4. btMode' \in BtModes /\ btRunning' \in BOOLEAN
    BY DEF BtServed, BtStartEnds, BtShape, BtModes, BtDown
  <1>5. \/ btApi = BtJob("start", Serve2) /\ btApi' = BtJob("start", Scan1) /\ UNCHANGED <<btMode, btRunning>>
        \/ btApi = BtJob("start", Serve1) /\ btApi' = BtNoJob /\ UNCHANGED btRunning /\ btMode' = "READY"
        \/ btApi' = BtJob("release", Release3) /\ ~btRunning' /\ btMode' = "ERROR"
    BY ApiAt, JobNames DEF BtServed, BtStartEnds, BtJobsFit
  <1>6. BtShape'
    BY <1>1, <1>2, <1>3, <1>4, <1>5 DEF BtShape, BtServed, BtStartEnds, BtModes, BtDown, BtRadios
  <1>7. BtJobsFit'
    BY <1>1, <1>3, <1>4, <1>5, JobsApart, JobsDiffer DEF BtShape, BtJobsFit, BtServed, BtStartEnds
  <1>8. BtWindsDown'
    BY <1>1, <1>3, <1>4, <1>5, JobsApart, TodoFacts
       DEF BtShape, BtJobsFit, BtWindsDown, BtClean, UnmonAhead, UnscanAhead, LinksAhead,
           UnserveAhead, BtDown, BtServed, BtStartEnds
  <1>9. BtInTurn'
    BY <1>1, <1>3, <1>4, <1>5, JobsApart, TodoFacts
       DEF BtShape, BtJobsFit, BtInTurn, BtWorks, BtDown, BtServed, BtStartEnds
  <1> QED
    BY <1>6, <1>7, <1>8, <1>9

LEMMA BtScannedKeeps ==
  ASSUME BtCore, BtScanned
  PROVE  BtCore'
  <1> USE DEF BtCore, btWorkers, btHost
  <1>1. btApi' \in BtApiJobs /\ btHalt' \in BtHaltJobs /\ btFind' \in BtFindJobs
    BY ApiAt, HaltAt, JobsApart, TodoFacts, JobNames
       DEF BtShape, BtScanned, BtApiJobs, BtHaltJobs, BtFindJobs
  <1>2. \/ btApi = BtJob("start", Scan1) /\ btApi' = BtNoJob /\ UNCHANGED btFind
        \/ btFind # BtNoJob /\ btFind' = BtNoJob /\ UNCHANGED btApi
    BY ApiAt, NoJobIs DEF BtScanned
  <1>3. BtShape'
    BY <1>1, <1>2 DEF BtShape, BtScanned, BtModes, BtDown, BtRadios
  <1>4. BtJobsFit'
    BY <1>2, ApiAt, HaltAt, JobsApart, TodoFacts, JobNames DEF BtShape, BtJobsFit, BtScanned
  <1>5. BtWindsDown'
    BY <1>2, ApiAt, HaltAt, JobsApart, TodoFacts, JobNames
       DEF BtShape, BtJobsFit, BtWindsDown, BtClean, UnmonAhead, UnscanAhead, LinksAhead,
           UnserveAhead, BtDown, BtScanned
  <1>6. BtInTurn'
    BY <1>2, ApiAt, HaltAt, JobsApart, TodoFacts, JobNames
       DEF BtShape, BtJobsFit, BtInTurn, BtWorks, BtDown, BtScanned
  <1> QED
    BY <1>3, <1>4, <1>5, <1>6

LEMMA BtScanFailsKeeps ==
  ASSUME BtCore, BtScanFails
  PROVE  BtCore'
  <1> USE DEF BtCore, btWorkers, btHost
  <1>1. btApi' \in BtApiJobs /\ btHalt' \in BtHaltJobs /\ btFind' \in BtFindJobs
    BY ApiAt, HaltAt, JobsApart, TodoFacts, JobNames
       DEF BtShape, BtScanFails, BtApiJobs, BtHaltJobs, BtFindJobs
  <1>2. btMode' \in BtModes /\ btRunning' \in BOOLEAN
    BY DEF BtScanFails, BtShape, BtModes, BtDown
  <1>3. BtShape'
    BY <1>1, <1>2 DEF BtShape, BtScanFails, BtModes, BtDown, BtRadios
  <1>4. BtJobsFit'
    BY <1>2, ApiAt, HaltAt, JobsApart, TodoFacts, JobNames DEF BtShape, BtJobsFit, BtScanFails
  <1>5. BtWindsDown'
    BY <1>2, ApiAt, HaltAt, JobsApart, TodoFacts, JobNames
       DEF BtShape, BtJobsFit, BtWindsDown, BtClean, UnmonAhead, UnscanAhead, LinksAhead,
           UnserveAhead, BtDown, BtScanFails
  <1>6. BtInTurn'
    BY <1>2, ApiAt, HaltAt, JobsApart, TodoFacts, JobNames
       DEF BtShape, BtJobsFit, BtInTurn, BtWorks, BtDown, BtScanFails
  <1> QED
    BY <1>3, <1>4, <1>5, <1>6

LEMMA BtGatheredKeeps ==
  ASSUME BtCore, BtGathered
  PROVE  BtCore'
  <1> USE DEF BtCore, btWorkers, btHost
  <1>1. btApi' \in BtApiJobs /\ btHalt' \in BtHaltJobs /\ btFind' \in BtFindJobs
    BY ApiAt, HaltAt, JobsApart, TodoFacts, JobNames
       DEF BtShape, BtGathered, BtApiJobs, BtHaltJobs, BtFindJobs
  <1>2. BtShape'
    BY <1>1 DEF BtShape, BtGathered, BtModes, BtDown, BtRadios
  <1>3. BtJobsFit'
    BY ApiAt, HaltAt, JobsApart, TodoFacts, JobNames DEF BtShape, BtJobsFit, BtGathered
  <1>4. BtWindsDown'
    BY ApiAt, HaltAt, JobsApart, TodoFacts, JobNames
       DEF BtShape, BtJobsFit, BtWindsDown, BtClean, UnmonAhead, UnscanAhead, LinksAhead,
           UnserveAhead, BtDown, BtGathered
  <1>5. BtInTurn'
    BY ApiAt, HaltAt, JobsApart, TodoFacts, JobNames
       DEF BtShape, BtJobsFit, BtInTurn, BtWorks, BtDown, BtGathered
  <1> QED
    BY <1>2, <1>3, <1>4, <1>5

LEMMA BtApiStopsKeeps ==
  ASSUME BtCore, BtApiStops
  PROVE  BtCore'
  <1> USE DEF BtCore, btWorkers, btHost
  <1>1. btApi' \in BtApiJobs /\ btHalt' \in BtHaltJobs /\ btFind' \in BtFindJobs
    BY ApiAt, HaltAt, JobsApart, TodoFacts, JobNames
       DEF BtShape, BtApiStops, ScannerStopped, LinkDropped, BtApiJobs, BtHaltJobs, BtFindJobs
  <1>2. btMode' \in BtModes /\ btRunning' \in BOOLEAN
    BY DEF BtApiStops, BtShape, BtModes, BtDown
  <1>3. scanning' \in BOOLEAN /\ onAir' \in BOOLEAN /\ advertising' \in BOOLEAN /\ btMonitoring' \in BOOLEAN
    BY DEF BtApiStops, ScannerStopped, BtShape
  <1>4. link' \in {"none", "dialling", "live", "doomed", "closing"}
    BY DEF BtApiStops, LinkDropped, BtShape
  <1>5. BtShape'
    BY <1>1, <1>2, <1>3, <1>4
       DEF BtShape, BtApiStops, ScannerStopped, LinkDropped, BtModes, BtDown, BtRadios
  <1>6. BtJobsFit'
    BY <1>2, <1>3, <1>4, ApiAt, HaltAt, JobsApart, TodoFacts, JobNames
       DEF BtShape, BtJobsFit, BtApiStops, ScannerStopped, LinkDropped
  <1>7. BtWindsDown'
    BY <1>2, <1>3, <1>4, ApiAt, HaltAt, JobsApart, TodoFacts, JobNames
       DEF BtShape, BtJobsFit, BtWindsDown, BtClean, UnmonAhead, UnscanAhead, LinksAhead,
           UnserveAhead, BtDown, BtApiStops, ScannerStopped, LinkDropped
  <1>8. BtInTurn'
    BY <1>2, <1>3, <1>4, ApiAt, HaltAt, JobsApart, TodoFacts, JobNames
       DEF BtShape, BtJobsFit, BtInTurn, BtWorks, BtDown, BtApiStops, ScannerStopped, LinkDropped
  <1> QED
    BY <1>5, <1>6, <1>7, <1>8

LEMMA BtHaltStopsKeeps ==
  ASSUME BtCore, BtHaltStops
  PROVE  BtCore'
  <1> USE DEF BtCore, btWorkers, btHost
  <1>1. btApi' \in BtApiJobs /\ btHalt' \in BtHaltJobs /\ btFind' \in BtFindJobs
    BY ApiAt, HaltAt, JobsApart, TodoFacts, JobNames
       DEF BtShape, BtHaltStops, ScannerStopped, LinkDropped, BtApiJobs, BtHaltJobs, BtFindJobs
  <1>2. scanning' \in BOOLEAN /\ onAir' \in BOOLEAN /\ advertising' \in BOOLEAN
    BY DEF BtHaltStops, ScannerStopped, BtShape
  <1>3. link' \in {"none", "dialling", "live", "doomed", "closing"}
    BY DEF BtHaltStops, LinkDropped, BtShape
  <1>4. BtShape'
    BY <1>1, <1>2, <1>3
       DEF BtShape, BtHaltStops, ScannerStopped, LinkDropped, BtModes, BtDown, BtRadios
  <1>5. BtJobsFit'
    BY <1>2, <1>3, ApiAt, HaltAt, JobsApart, TodoFacts, JobNames
       DEF BtShape, BtJobsFit, BtHaltStops, ScannerStopped, LinkDropped
  <1>6. BtWindsDown'
    <2>1. ~btWanted /\ UnscanAhead => LinksAhead
      <3> SUFFICES ASSUME ~btWanted, UnscanAhead PROVE LinksAhead
        OBVIOUS
      <3>1. btApi.kind \notin {"start", "scanfail", "release"} /\ btApi # BtNoJob /\ btApi.todo # Last1
        BY JobsApart, TodoFacts DEF BtJobsFit, UnscanAhead
      <3> QED
        BY <3>1, JobsApart DEF BtShape, BtApiJobs, LinksAhead
    <2>2. /\ UnmonAhead' = UnmonAhead /\ UnscanAhead' = UnscanAhead
          /\ LinksAhead' = LinksAhead /\ UnserveAhead' = UnserveAhead
          /\ UNCHANGED <<btApi, btWanted, btFind, btMode, btMishaps, btMonitoring>>
      BY DEF BtHaltStops, UnmonAhead, UnscanAhead, LinksAhead, UnserveAhead
    <2>3. /\ scanning' => scanning
          /\ advertising' => advertising
          /\ onAir = scanning => onAir' = scanning'
      <3>1. CASE ScannerStopped /\ UNCHANGED advertising
        BY <3>1 DEF ScannerStopped, BtShape
      <3>2. CASE UNCHANGED <<scanning, onAir>> /\ (UNCHANGED advertising \/ advertising' = FALSE)
        BY <3>2
      <3> QED
        BY <3>1, <3>2 DEF BtHaltStops
    <2>4. /\ link' \in {"dialling", "live"} => link' = link
          /\ link' \in {"doomed", "closing"} => link \in {link', "dialling", "live"}
      BY DEF BtHaltStops, LinkDropped, BtShape
    <2> QED
      BY <2>1, <2>2, <2>3, <2>4 DEF BtWindsDown, BtClean, BtShape
  <1>7. BtInTurn'
    BY <1>2, <1>3, ApiAt, HaltAt, JobsApart, TodoFacts, JobNames
       DEF BtShape, BtJobsFit, BtInTurn, BtWorks, BtDown, BtHaltStops, ScannerStopped, LinkDropped
  <1> QED
    BY <1>4, <1>5, <1>6, <1>7

LEMMA BtPollKeeps ==
  ASSUME BtCore, BtPoll
  PROVE  BtCore'
  <1> USE DEF BtCore, btWorkers, btHost
  <1>1. btApi' \in BtApiJobs /\ btHalt' \in BtHaltJobs /\ btFind' \in BtFindJobs
    BY ApiAt, HaltAt, JobsApart, TodoFacts, JobNames
       DEF BtShape, BtPoll, ScheduleHalt, Crossed, BtLockFree, BtApiJobs, BtHaltJobs, BtFindJobs
  <1>2. BtShape'
    BY <1>1 DEF BtShape, BtPoll, ScheduleHalt, Crossed, BtLockFree, BtModes, BtDown, BtRadios
  <1>3. BtJobsFit'
    BY ApiAt, HaltAt, JobsApart, TodoFacts, JobNames
       DEF BtShape, BtJobsFit, BtPoll, ScheduleHalt, Crossed, BtLockFree
  <1>4. BtWindsDown'
    BY ApiAt, HaltAt, JobsApart, TodoFacts, JobNames
       DEF BtShape, BtJobsFit, BtWindsDown, BtClean, UnmonAhead, UnscanAhead, LinksAhead,
           UnserveAhead, BtDown, BtPoll, ScheduleHalt, Crossed, BtLockFree
  <1>5. BtInTurn'
    BY ApiAt, HaltAt, JobsApart, TodoFacts, JobNames
       DEF BtShape, BtJobsFit, BtInTurn, BtWorks, BtDown, BtPoll, ScheduleHalt, Crossed, BtLockFree
  <1> QED
    BY <1>2, <1>3, <1>4, <1>5

LEMMA RadioFlipKeeps ==
  ASSUME BtCore, RadioFlip
  PROVE  BtCore'
  <1> USE DEF BtCore, btWorkers, btHost
  <1>1. btApi' \in BtApiJobs /\ btHalt' \in BtHaltJobs /\ btFind' \in BtFindJobs
    BY ApiAt, HaltAt, JobsApart, TodoFacts, JobNames
       DEF BtShape, RadioFlip, BtApiJobs, BtHaltJobs, BtFindJobs
  <1>2. BtShape'
    BY <1>1 DEF BtShape, RadioFlip, BtModes, BtDown, BtRadios
  <1>3. BtJobsFit'
    BY ApiAt, HaltAt, JobsApart, TodoFacts, JobNames DEF BtShape, BtJobsFit, RadioFlip
  <1>4. BtWindsDown'
    BY ApiAt, HaltAt, JobsApart, TodoFacts, JobNames
       DEF BtShape, BtJobsFit, BtWindsDown, BtClean, UnmonAhead, UnscanAhead, LinksAhead,
           UnserveAhead, BtDown, RadioFlip
  <1>5. BtInTurn'
    BY ApiAt, HaltAt, JobsApart, TodoFacts, JobNames
       DEF BtShape, BtJobsFit, BtInTurn, BtWorks, BtDown, RadioFlip
  <1> QED
    BY <1>2, <1>3, <1>4, <1>5

LEMMA BtLinkGoneKeeps ==
  ASSUME BtCore, BtLinkGone
  PROVE  BtCore'
  <1> USE DEF BtCore, btWorkers, btHost
  <1>1. btApi' \in BtApiJobs /\ btHalt' \in BtHaltJobs /\ btFind' \in BtFindJobs
    BY ApiAt, HaltAt, JobsApart, TodoFacts, JobNames
       DEF BtShape, BtLinkGone, BtRest, Late, BtApiJobs, BtHaltJobs, BtFindJobs
  <1>2. BtShape'
    BY <1>1 DEF BtShape, BtLinkGone, BtRest, Late, BtModes, BtDown, BtRadios
  <1>3. BtJobsFit'
    BY ApiAt, HaltAt, JobsApart, TodoFacts, JobNames
       DEF BtShape, BtJobsFit, BtLinkGone, BtRest, Late
  <1>4. BtWindsDown'
    BY ApiAt, HaltAt, JobsApart, TodoFacts, JobNames
       DEF BtShape, BtJobsFit, BtWindsDown, BtClean, UnmonAhead, UnscanAhead, LinksAhead,
           UnserveAhead, BtDown, BtLinkGone, BtRest, Late
  <1>5. BtInTurn'
    BY ApiAt, HaltAt, JobsApart, TodoFacts, JobNames
       DEF BtShape, BtJobsFit, BtInTurn, BtWorks, BtDown, BtLinkGone, BtRest, Late
  <1> QED
    BY <1>2, <1>3, <1>4, <1>5

LEMMA BtPeerFoundKeeps ==
  ASSUME BtCore, BtPeerFound
  PROVE  BtCore'
  <1> USE DEF BtCore, btWorkers, btHost
  <1>1. btApi' \in BtApiJobs /\ btHalt' \in BtHaltJobs /\ btFind' \in BtFindJobs
    BY ApiAt, HaltAt, JobsApart, TodoFacts, JobNames
       DEF BtShape, BtPeerFound, BtApiJobs, BtHaltJobs, BtFindJobs
  <1>2. BtShape'
    BY <1>1 DEF BtShape, BtPeerFound, BtModes, BtDown, BtRadios
  <1>3. BtJobsFit'
    BY ApiAt, HaltAt, JobsApart, TodoFacts, JobNames DEF BtShape, BtJobsFit, BtPeerFound
  <1>4. BtWindsDown'
    BY ApiAt, HaltAt, JobsApart, TodoFacts, JobNames
       DEF BtShape, BtJobsFit, BtWindsDown, BtClean, UnmonAhead, UnscanAhead, LinksAhead,
           UnserveAhead, BtDown, BtPeerFound
  <1>5. BtInTurn'
    BY ApiAt, HaltAt, JobsApart, TodoFacts, JobNames
       DEF BtShape, BtJobsFit, BtInTurn, BtWorks, BtDown, BtPeerFound
  <1> QED
    BY <1>2, <1>3, <1>4, <1>5

LEMMA BtDialledKeeps ==
  ASSUME BtCore, BtDialled
  PROVE  BtCore'
  <1> USE DEF BtCore, btWorkers, btHost
  <1>1. btApi' \in BtApiJobs /\ btHalt' \in BtHaltJobs /\ btFind' \in BtFindJobs
    BY ApiAt, HaltAt, JobsApart, TodoFacts, JobNames
       DEF BtShape, BtDialled, Late, BtApiJobs, BtHaltJobs, BtFindJobs
  <1>2. BtShape'
    BY <1>1 DEF BtShape, BtDialled, Late, BtModes, BtDown, BtRadios
  <1>3. BtJobsFit'
    BY ApiAt, HaltAt, JobsApart, TodoFacts, JobNames DEF BtShape, BtJobsFit, BtDialled, Late
  <1>4. BtWindsDown'
    BY ApiAt, HaltAt, JobsApart, TodoFacts, JobNames
       DEF BtShape, BtJobsFit, BtWindsDown, BtClean, UnmonAhead, UnscanAhead, LinksAhead,
           UnserveAhead, BtDown, BtDialled, Late
  <1>5. BtInTurn'
    BY ApiAt, HaltAt, JobsApart, TodoFacts, JobNames
       DEF BtShape, BtJobsFit, BtInTurn, BtWorks, BtDown, BtDialled, Late
  <1> QED
    BY <1>2, <1>3, <1>4, <1>5

LEMMA BtInductive ==
  ASSUME BtIInv, [BtNext]_btVars
  PROVE  BtIInv'
  <1> USE BtAssumption DEF BtIInv
  <1>1. CASE BtCounted(BtStart \/ BtStop \/ BtFind \/ BtDial \/ BtStartCancelled)
    <2>1. BtCounts'
      BY <1>1 DEF BtCounted, BtCounts
    <2>2. BtCore'
      BY <1>1, BtStartKeeps, BtStopKeeps, BtFindKeeps, BtDialKeeps, BtStartCancelledKeeps
         DEF BtCounted
    <2> QED
      BY <2>1, <2>2
  <1>2. CASE BtGoesOn
    <2>1. BtCounts'
      BY <1>2 DEF BtGoesOn, BtUncounted, BtCounts
    <2>2. BtCore'
      BY <1>2, BtCheckedKeeps, BtMonitoredKeeps, BtServedKeeps, BtScannedKeeps, BtScanFailsKeeps,
         BtGatheredKeeps, BtApiStopsKeeps, BtHaltStopsKeeps DEF BtGoesOn, BtUncounted, BtSteps1
    <2> QED
      BY <2>1, <2>2
  <1>3. CASE BtPoll
    BY <1>3, BtPollKeeps DEF BtPoll, BtCounts
  <1>4. CASE RadioFlip
    <2>1. BtCounts'
      BY <1>4 DEF RadioFlip, BtCounts
    <2> QED
      BY <1>4, <2>1, RadioFlipKeeps
  <1>5. CASE BtLinkEnds \/ BtUncounted(BtPeerFound) \/ BtUncounted(BtDialled)
    <2>1. BtCounts'
      BY <1>5 DEF BtLinkEnds, BtUncounted, BtCounts
    <2>2. BtCore'
      BY <1>5, BtLinkGoneKeeps, BtPeerFoundKeeps, BtDialledKeeps DEF BtLinkEnds, BtUncounted
    <2> QED
      BY <2>1, <2>2
  <1>6. CASE UNCHANGED btVars
    BY <1>6
       DEF btVars, BtCore, BtCounts, BtShape, BtJobsFit, BtWindsDown, BtClean, BtInTurn, BtWorks,
                UnmonAhead, UnscanAhead, LinksAhead, UnserveAhead
  <1> QED
    BY <1>1, <1>2, <1>3, <1>4, <1>5, <1>6 DEF BtNext

LEMMA BtInitially == BtInit => BtIInv
  <1> SUFFICES ASSUME BtInit PROVE BtIInv
    OBVIOUS
  <1>1. btApi \in BtApiJobs /\ btHalt \in BtHaltJobs /\ btFind \in BtFindJobs
    BY DEF BtInit, BtApiJobs, BtHaltJobs, BtFindJobs
  <1>2. BtShape
    BY <1>1 DEF BtInit, BtShape, BtModes, BtDown, BtRadios
  <1>3. BtCounts
    BY BtAssumption DEF BtInit, BtCounts
  <1>4. BtJobsFit /\ BtWindsDown /\ BtInTurn
    BY JobsApart, JobsDiffer DEF BtInit, BtJobsFit, BtWindsDown, BtClean, BtInTurn, BtWorks, BtDown
  <1> QED
    BY <1>2, <1>3, <1>4 DEF BtIInv, BtCore

LEMMA BtAlways == BtSpec => []BtIInv
  BY BtInitially, BtInductive, PTL DEF BtSpec

\* BluetoothSafety: for every adapter, and however starts, stops, scans, dials and
\* changes of the radio interleave, a stop leaves nothing of Bluetooth behind and a
\* transport at rest is in the state it says it is in, up to the mishaps recorded.
THEOREM BluetoothSafety == BtSpec => []BtSafe
  <1>1. BtIInv => BtSafe
    <2> SUFFICES ASSUME BtIInv PROVE BtSafe
      OBVIOUS
    <2> USE DEF BtIInv, BtCore
    <2>1. {scanning, onAir, advertising, btMonitoring, btWanted} \subseteq BOOLEAN
      BY DEF BtShape
    <2>2. ASSUME NEW job \in {btApi, btHalt, btFind}
          PROVE  /\ job.kind \in {"none", "start", "scanfail", "release", "stop", "halt", "find"}
                 /\ Len(job.todo) <= 5 /\ \A i \in 1..Len(job.todo) : job.todo[i] \in BtSteps
                 /\ job.kind = "none" <=> job.todo = <<>>
      <3>1. job \in BtApiJobs \cup BtHaltJobs \cup BtFindJobs
        BY DEF BtShape
      <3>2. \/ job = BtNoJob
            \/ \E kind \in {"start", "scanfail", "release", "stop", "halt", "find"}, q \in BtTodos : job = BtJob(kind, q)
        BY <3>1 DEF BtApiJobs, BtHaltJobs, BtFindJobs, BtTodos
      <3>3. CASE job = BtNoJob
        BY <3>3, JobsApart
      <3>4. CASE \E kind \in {"start", "scanfail", "release", "stop", "halt", "find"}, q \in BtTodos : job = BtJob(kind, q)
        <4>1. PICK kind \in {"start", "scanfail", "release", "stop", "halt", "find"}, q \in BtTodos : job = BtJob(kind, q)
          BY <3>4
        <4>2. job.kind = kind /\ job.todo = q
          BY <4>1, JobsApart
        <4>3. q # <<>>
          BY TodoFacts DEF BtTodos
        <4> QED
          BY <4>2, <4>3, TodoSteps
      <3> QED
        BY <3>2, <3>3, <3>4
    <2>3. BtTypeOK
      BY <2>1, <2>2 DEF BtShape, BtCounts, BtTypeOK
    <2>4. BtReleased
      <3> SUFFICES ASSUME BtIdle, ~btWanted, btMishaps \cap {"cut", "scan"} = {}
                   PROVE  /\ ~btRunning /\ ~scanning /\ ~onAir /\ ~advertising /\ ~btMonitoring
                          /\ "late" \in btMishaps \/ link = "none"
        BY DEF BtReleased
      <3>1. BtClean
        BY DEF BtClean
      <3>2. ~UnmonAhead /\ ~UnscanAhead /\ ~LinksAhead /\ ~UnserveAhead
        BY JobsApart, TodoFacts DEF BtIdle, UnmonAhead, UnscanAhead, LinksAhead, UnserveAhead
      <3> QED
        BY <3>1, <3>2 DEF BtWindsDown, BtJobsFit, BtShape
    <2>5. BtModeTrue
      BY DEF BtModeTrue, BtInTurn
    <2> QED
      BY <2>3, <2>4, <2>5 DEF BtSafe
  <1> QED
    BY <1>1, BtAlways, PTL

\* BluetoothReleases: BtFailedStart, for every adapter: a start that raises leaves no
\* worker behind.
THEOREM BluetoothReleases == BtSpec => BtFailedStart
  <1>1. ASSUME BtIInv, [BtNext]_btVars
        PROVE  [btApi.kind = "release" /\ btApi' = BtNoJob /\ btMishaps \cap {"cut", "scan"} = {}
                => ~scanning' /\ ~onAir' /\ ~advertising' /\ ~btMonitoring']_btVars
    <2> SUFFICES ASSUME btApi.kind = "release", btApi' = BtNoJob, btMishaps \cap {"cut", "scan"} = {}
                 PROVE  ~scanning' /\ ~onAir' /\ ~advertising' /\ ~btMonitoring'
      OBVIOUS
    <2> USE DEF BtIInv, BtCore
    <2>1. BtClean /\ btApi # BtNoJob
      BY JobsApart DEF BtClean
    <2>2. btApi \in {BtJob("release", Release3), BtJob("release", Release2), BtJob("release", Last1)}
      BY <1>1, <2>1, JobsApart DEF BtShape, BtApiJobs
    <2>3. BtApiStops
      <3>1. BtAt(btApi) \notin {"check", "mon", "serve", "scan", "gather"}
        BY <2>2, JobTable
      <3> QED
        BY <1>1, <2>1, <3>1, JobsApart
           DEF BtNext, BtCounted, BtUncounted, BtGoesOn, BtSteps1, BtLinkEnds, btVars,
           BtStart, BtStop, BtFind, BtDial, BtStartCancelled, BtLockFree, BtChecked, BtMonitored,
           BtServed,
           BtScanned, BtScanFails, BtGathered, BtHaltStops, BtPoll, RadioFlip, BtPeerFound,
           BtDialled, BtLinkGone
    <2>4. btApi = BtJob("release", Last1) /\ BtAt(btApi) = "unserve"
      <3>1. BtNextOf(btApi) = BtNoJob
        BY <2>3 DEF BtApiStops
      <3>2. BtNoJob # BtJob("release", Release2) /\ BtNoJob # BtJob("release", Last1)
        BY JobsApart
      <3> QED
        BY <2>2, <3>1, <3>2, JobTable
    <2>5. ~UnmonAhead /\ ~UnscanAhead
      BY <2>4, JobsApart, TodoFacts DEF UnmonAhead, UnscanAhead
    <2>6. onAir = scanning /\ (btMonitoring => UnmonAhead) /\ (scanning => UnscanAhead)
      BY <1>1, <2>1 DEF BtWindsDown
    <2> QED
      BY <2>3, <2>4, <2>5, <2>6 DEF BtApiStops
  <1> QED
    BY <1>1, BtAlways, PTL DEF BtSpec, BtFailedStart

-----------------------------------------------------------------------------
(***************************************************************************)
(* Reassembly.  A packet that is not excused has an assembly that agrees   *)
(* with it in every chunk and holds all that has arrived of it: a fragment *)
(* can then neither contradict the assembly nor make it too large, and     *)
(* when the last one arrives what is returned is the packet.  Only the     *)
(* least recently used assembly, a stale one and one of a stray's key      *)
(* leave the table otherwise.                                              *)
(***************************************************************************)

\* The assemblies there can be.
Chunks == UNION {[D -> DOMAIN Length] : D \in SUBSET (0..(MaxFragments - 1))}
Assemblies ==
  [sender : {f.sender : f \in Network}, fid : {f.fid : f \in Network}, type : {f.type : f \in Network},
   total : 1..MaxFragments, chunks : Chunks, at : 0..ReMaxTime]

\* Every chunk of a came in a well-formed fragment of its packet.
Carried(a, i, d) ==
  \E f \in Network :
    WellFormed(f) /\ SameKey(a, f) /\ f.type = a.type /\ f.total = a.total /\ f.index = i /\ f.data = d
Sound(a) ==
  /\ DOMAIN a.chunks \subseteq 0..(a.total - 1)
  /\ \A i \in DOMAIN a.chunks : Carried(a, i, a.chunks[i])
Within(a) == DOMAIN a.chunks # {} /\ ReBytes(a) <= ReMaxBytes /\ ~Complete(a)

\* A table: an assembly for each key, each sound and within bounds.
KeysDiffer(s) == \A i, j \in DOMAIN s : Key(s[i]) = Key(s[j]) => i = j
TableFits ==
  /\ assemblies \in Seq(Assemblies) /\ Len(assemblies) <= MaxAssemblies /\ KeysDiffer(assemblies)
  /\ \A i \in DOMAIN assemblies :
       Sound(assemblies[i]) /\ Within(assemblies[i]) /\ assemblies[i].at <= reNow

\* The assembly of a packet agrees with it, and holds whatever has arrived of it.
AgreesWith(a, m) ==
  /\ a.type = m.type /\ a.total = Len(m.chunks)
  /\ \A i \in DOMAIN a.chunks : a.chunks[i] = m.chunks[i + 1]
HeldIn(s, f) == \E i \in DOMAIN s : Key(s[i]) = Key(f) /\ f.index \in DOMAIN s[i].chunks
NothingMissing ==
  \A m \in Messages : Key(m) \notin excused =>
    /\ \A i \in DOMAIN assemblies : Key(assemblies[i]) = Key(m) => AgreesWith(assemblies[i], m)
    /\ Returned(m) \in outputs \/ \A f \in FragmentsOf(m) \cap arrived : HeldIn(assemblies, f)

ReTypes ==
  reNow \in 0..ReMaxTime /\ arrived \subseteq Network /\ excused \subseteq {Key(f) : f \in Network}

ReInv == ReTypes /\ TableFits /\ OutputsAuthentic /\ NothingMissing

LEMMA ReConstants ==
  /\ MaxAssemblies \in Nat \ {0} /\ MaxFragments \in Nat \ {0} /\ ReMaxBytes \in Nat \ {0}
  /\ MaxAge \in Nat /\ ReMaxTime \in Nat /\ Length \in [DOMAIN Length -> Nat]
  /\ \A m \in Messages : m.chunks \in Seq(DOMAIN Length) /\ Len(m.chunks) \in 2..MaxFragments
  /\ \A m \in Messages : ReBytes(m) <= ReMaxBytes
  /\ \A f \in Strays : f.data \in DOMAIN Length /\ f.index \in Nat /\ f.total \in Nat
  BY ReassemblyAssumption

\* A packet's own fragments are well formed, and told from those of other packets.
LEMMA OwnFragments ==
  ASSUME NEW m \in Messages, NEW f \in FragmentsOf(m)
  PROVE  /\ f \in Network /\ WellFormed(f) /\ Key(f) = Key(m) /\ f.type = m.type /\ f.total = Len(m.chunks)
         /\ f.index \in 0..(f.total - 1) /\ f.data = m.chunks[f.index + 1] /\ f.data \in DOMAIN Length
         /\ f.total \in 2..MaxFragments
  <1> DEFINE c == Len(m.chunks)
  <1>1. c \in 2..MaxFragments /\ m.chunks \in Seq(DOMAIN Length) /\ MaxFragments \in Nat
    BY ReConstants
  <1>2. DOMAIN m.chunks = 1..c
    BY <1>1
  <1>3. PICK i \in 1..c :
          f = [sender |-> m.sender, fid |-> m.fid, type |-> m.type, total |-> c,
               index |-> i - 1, kind |-> KindAt(i - 1, c), data |-> m.chunks[i]]
    BY <1>2 DEF FragmentsOf
  <1>4. /\ f.sender = m.sender /\ f.fid = m.fid /\ f.type = m.type /\ f.total = c
        /\ f.index = i - 1 /\ f.kind = KindAt(i - 1, c) /\ f.data = m.chunks[i]
    BY <1>3
  <1>5. m.chunks[i] \in DOMAIN Length
    BY <1>1, <1>2
  <1> HIDE DEF c
  <1>6. i - 1 \in 0..(c - 1) /\ (i - 1) + 1 = i /\ c \in Nat /\ c > 0
    BY <1>1
  <1>7. WellFormed(f)
    BY <1>1, <1>4, <1>6 DEF WellFormed, KindAt
  <1>8. f \in Network
    BY DEF Network
  <1> QED
    BY <1>1, <1>4, <1>5, <1>6, <1>7, <1>8 DEF Key, c

\* Every index of a packet has its fragment.
LEMMA FragmentAt ==
  ASSUME NEW m \in Messages, NEW i \in 1..Len(m.chunks)
  PROVE  \E f \in FragmentsOf(m) : f.index = i - 1
  <1>1. i \in DOMAIN m.chunks
    BY ReConstants
  <1> DEFINE f == [sender |-> m.sender, fid |-> m.fid, type |-> m.type, total |-> Len(m.chunks),
                   index |-> i - 1, kind |-> KindAt(i - 1, Len(m.chunks)), data |-> m.chunks[i]]
  <1>2. f \in FragmentsOf(m)
    BY <1>1 DEF FragmentsOf
  <1>3. f.index = i - 1
    OBVIOUS
  <1> QED
    BY <1>2, <1>3

\* A fragment of the network that is no stray belongs to the packet with its key.
LEMMA FragmentOfOne ==
  ASSUME NEW f \in Network, f \notin Strays, NEW m \in Messages, Key(m) = Key(f)
  PROVE  f \in FragmentsOf(m)
  <1>a. f \in UNION {FragmentsOf(l) : l \in Messages}
    BY DEF Network
  <1>1. PICK l \in Messages : f \in FragmentsOf(l)
    BY <1>a, Zenon
  <1>2. Key(l) = Key(m)
    BY <1>1, OwnFragments
  <1>3. l = m
    BY <1>2, ReassemblyAssumption DEF Key
  <1> QED
    BY <1>1, <1>3

\* What arrives and is well formed has the types of an assembly's chunk.
LEMMA WellFormedTypes ==
  ASSUME NEW f \in Network, WellFormed(f)
  PROVE  /\ f.total \in 1..MaxFragments /\ f.index \in 0..(f.total - 1) /\ f.data \in DOMAIN Length
         /\ f.index \in 0..(MaxFragments - 1)
  <1>1. CASE f \in Strays
    BY <1>1, ReConstants DEF WellFormed
  <1>2. CASE f \notin Strays
    <2>a. f \in UNION {FragmentsOf(l) : l \in Messages}
      BY <1>2 DEF Network
    <2>1. PICK m \in Messages : f \in FragmentsOf(m)
      BY <2>a, Zenon
    <2> QED
      BY <2>1, OwnFragments, ReConstants
  <1> QED
    BY <1>1, <1>2

\* The bytes of a finite number of chunks are finitely many, and fewer chunks have no more.
LEMMA BytesCounted ==
  ASSUME NEW a, IsFiniteSet(DOMAIN a.chunks), \A i \in DOMAIN a.chunks : a.chunks[i] \in DOMAIN Length
  PROVE  IsFiniteSet(ChunkBytes(a)) /\ ReBytes(a) \in Nat
  <1> DEFINE F(i) == {i} \X (1..Length[a.chunks[i]])
             T == {F(i) : i \in DOMAIN a.chunks}
             D == DOMAIN a.chunks
             g == [i \in D |-> F(i)]
  <1>1. IsFiniteSet(T)
    <2>1. g \in Surjection(D, T)
      BY DEF Surjection
    <2>2. IsFiniteSet(D)
      OBVIOUS
    <2> HIDE DEF g, D, T
    <2> QED
      BY <2>1, <2>2, FS_Surjection
  <1>2. \A t \in T : IsFiniteSet(t)
    <2> SUFFICES ASSUME NEW i \in DOMAIN a.chunks PROVE IsFiniteSet({i} \X (1..Length[a.chunks[i]]))
      OBVIOUS
    <2>1. Length[a.chunks[i]] \in Nat
      BY ReConstants
    <2>2. IsFiniteSet({i}) /\ IsFiniteSet(1..Length[a.chunks[i]])
      <3>1. \A k \in Nat : IsFiniteSet(1..k)
        BY FS_Interval
      <3> QED
        BY <2>1, <3>1, FS_Singleton
    <2> QED
      BY <2>2, FS_Product
  <1>3. ChunkBytes(a) = UNION T
    BY DEF ChunkBytes
  <1>4. IsFiniteSet(ChunkBytes(a))
    BY <1>1, <1>2, <1>3, FS_UNION
  <1> QED
    BY <1>4, FS_CardinalityType DEF ReBytes

\* The chunks of an assembly that agrees with its packet fit.
LEMMA AgreeingFits ==
  ASSUME NEW a, NEW m \in Messages, AgreesWith(a, m), DOMAIN a.chunks \subseteq 0..(a.total - 1)
  PROVE  ~TooLarge(a)
  <1> DEFINE c == Len(m.chunks)
             G == UNION {{i} \X (1..Length[m.chunks[i + 1]]) : i \in 0..(c - 1)}
             up == [x \in G |-> <<x[1] + 1, x[2]>>]
  <1>1. /\ c \in Nat /\ m.chunks \in Seq(DOMAIN Length) /\ DOMAIN m.chunks = 1..c
        /\ a.total = c /\ ReBytes(m) <= ReMaxBytes /\ ReMaxBytes \in Nat
    BY ReConstants DEF AgreesWith
  <1>2. IsFiniteSet(ChunkBytes(m)) /\ ReBytes(m) \in Nat
    <2>1. IsFiniteSet(DOMAIN m.chunks)
      BY <1>1, FS_Interval
    <2>2. \A i \in DOMAIN m.chunks : m.chunks[i] \in DOMAIN Length
      BY <1>1
    <2> QED
      BY <2>1, <2>2, BytesCounted
  <1>3. ChunkBytes(a) \subseteq G
    <2> SUFFICES ASSUME NEW i \in DOMAIN a.chunks, NEW x \in {i} \X (1..Length[a.chunks[i]])
                 PROVE  x \in G
      BY DEF ChunkBytes
    <2>1. i \in 0..(c - 1) /\ a.chunks[i] = m.chunks[i + 1]
      BY <1>1 DEF AgreesWith
    <2> QED
      BY <2>1
  <1>4. \A x \in G : /\ up[x] \in ChunkBytes(m) /\ x = <<x[1], x[2]>> /\ x[1] \in 0..(c - 1)
    <2> SUFFICES ASSUME NEW i \in 0..(c - 1), NEW x \in {i} \X (1..Length[m.chunks[i + 1]])
                 PROVE  <<x[1] + 1, x[2]>> \in ChunkBytes(m) /\ x = <<x[1], x[2]>> /\ x[1] \in 0..(c - 1)
      OBVIOUS
    <2>1. i + 1 \in DOMAIN m.chunks
      BY <1>1
    <2>2. x[1] = i /\ x[2] \in 1..Length[m.chunks[i + 1]] /\ x = <<x[1], x[2]>>
      OBVIOUS
    <2>3. <<i + 1, x[2]>> \in {i + 1} \X (1..Length[m.chunks[i + 1]])
      BY <2>2
    <2>4. <<i + 1, x[2]>> \in ChunkBytes(m)
      BY <2>1, <2>3 DEF ChunkBytes
    <2> QED
      BY <2>2, <2>4
  <1>5. \A x, y \in G : up[x] = up[y] => x = y
    <2> TAKE x, y \in G
    <2> HAVE up[x] = up[y]
    <2>1. x[1] + 1 = y[1] + 1 /\ x[2] = y[2]
      OBVIOUS
    <2>2. x[1] = y[1]
      BY <1>1, <1>4, <2>1
    <2> QED
      BY <1>4, <2>1, <2>2
  <1>6. up \in Injection(G, ChunkBytes(m))
    <2>1. up \in [G -> ChunkBytes(m)]
      BY <1>4
    <2> QED
      BY <1>5, <2>1 DEF Injection, IsInjective
  <1> HIDE DEF G, up
  <1>7. IsFiniteSet(G) /\ Cardinality(G) <= Cardinality(ChunkBytes(m))
    BY <1>2, <1>6, FS_Injection
  <1>8. Cardinality(ChunkBytes(a)) <= Cardinality(G) /\ Cardinality(ChunkBytes(a)) \in Nat /\ Cardinality(G) \in Nat
    BY <1>3, <1>7, FS_Subset, FS_CardinalityType
  <1> DEFINE x == Cardinality(ChunkBytes(a))
             y == Cardinality(G)
             z == Cardinality(ChunkBytes(m))
  <1>9. x \in Nat /\ y \in Nat /\ z \in Nat /\ x <= y /\ y <= z /\ z <= ReMaxBytes
    BY <1>1, <1>2, <1>7, <1>8 DEF ReBytes
  <1> HIDE DEF x, y, z
  <1>10. ~(x > ReMaxBytes)
    BY <1>1, <1>9
  <1> QED
    BY <1>10 DEF TooLarge, ReBytes, x

\* As many chunks as fragments: all of them.
LEMMA CompleteHasAll ==
  ASSUME NEW n \in Nat, NEW D \in SUBSET (0..(n - 1)), Cardinality(D) = n
  PROVE  D = 0..(n - 1)
  <1> DEFINE b == n - 1
  <1>1. b \in Int /\ (0 > b <=> n = 0) /\ b - 0 + 1 = n
    OBVIOUS
  <1> HIDE DEF b
  <1>2. IsFiniteSet(0..b) /\ Cardinality(0..b) = n
    BY <1>1, FS_Interval
  <1>3. D \subseteq 0..b /\ Cardinality(D) = n
    BY DEF b
  <1>4. D = 0..b
    BY <1>2, <1>3, FS_Subset
  <1> QED
    BY <1>4 DEF b

\* Some of a table is a table.
LEMMA SubTable ==
  ASSUME NEW S, NEW s \in Seq(S), KeysDiffer(s), NEW I \in SUBSET (DOMAIN s), NEW r, r = Picked(s, I)
  PROVE  /\ r \in Seq(S) /\ KeysDiffer(r) /\ Len(r) <= Len(s)
         /\ \A n \in DOMAIN r : \E i \in I : r[n] = s[i]
         /\ \A i \in I : \E n \in DOMAIN r : r[n] = s[i]
  <1>1. /\ r \in Seq(S) /\ Len(r) <= Len(s) /\ DOMAIN r = 1..Len(r)
        /\ \A n \in 1..Len(r) : Nth(I, n) \in I /\ r[n] = s[Nth(I, n)]
        /\ \A a, b \in 1..Len(r) : Nth(I, a) = Nth(I, b) => a = b
        /\ \A i \in I : Rank(I, i) \in 1..Len(r) /\ r[Rank(I, i)] = s[i]
    BY PickedIs
  <1>2. KeysDiffer(r)
    <2> SUFFICES ASSUME NEW a \in DOMAIN r, NEW b \in DOMAIN r, Key(r[a]) = Key(r[b]) PROVE a = b
      BY DEF KeysDiffer
    <2>1. /\ Nth(I, a) \in DOMAIN s /\ Nth(I, b) \in DOMAIN s /\ r[a] = s[Nth(I, a)] /\ r[b] = s[Nth(I, b)]
      BY <1>1
    <2>2. Key(s[Nth(I, a)]) = Key(s[Nth(I, b)])
      BY <2>1
    <2>3. Nth(I, a) = Nth(I, b)
      BY <2>1, <2>2 DEF KeysDiffer
    <2> QED
      BY <1>1, <2>3
  <1> QED
    BY <1>1, <1>2

\* A sequence without its first element, and with another one at its end.
LacksFirst(r, s) == DOMAIN s # {} /\ Len(r) = Len(s) - 1 /\ \A n \in DOMAIN r : r[n] = s[n + 1]
Adds(r, s, b) ==
  Len(r) = Len(s) + 1 /\ (\A n \in DOMAIN s : r[n] = s[n]) /\ \E n \in DOMAIN r : n \notin DOMAIN s /\ r[n] = b

LEMMA TailLacksFirst ==
  ASSUME NEW S, NEW s \in Seq(S), s # <<>>
  PROVE  Tail(s) \in Seq(S) /\ LacksFirst(Tail(s), s) /\ 1 \in DOMAIN s /\ Head(s) = s[1]
  BY DEF LacksFirst

LEMMA AppendAdds ==
  ASSUME NEW S, NEW s \in Seq(S), NEW b \in S, NEW r, r = Append(s, b)
  PROVE  r \in Seq(S) /\ Adds(r, s, b)
  <1> DEFINE c == Len(s)
  <1>1. c \in Nat /\ r \in Seq(S) /\ DOMAIN s = 1..c /\ DOMAIN r = 1..(c + 1) /\ r[c + 1] = b /\ Len(r) = c + 1
    OBVIOUS
  <1>2. \A n \in 1..c : r[n] = s[n]
    OBVIOUS
  <1> HIDE DEF c
  <1>3. c + 1 \in 1..(c + 1) /\ c + 1 \notin 1..c
    BY <1>1
  <1> QED
    BY ONLY <1>1, <1>2, <1>3 DEF Adds, c

\* What is left of a table without its first assembly is one.
LEMMA TailTable ==
  ASSUME NEW S, NEW s \in Seq(S), KeysDiffer(s), NEW r \in Seq(S), LacksFirst(r, s)
  PROVE  /\ KeysDiffer(r) /\ Len(r) = Len(s) - 1
         /\ \A n \in DOMAIN r : \E i \in DOMAIN s : i # 1 /\ r[n] = s[i]
         /\ \A i \in DOMAIN s : i # 1 => \E n \in DOMAIN r : r[n] = s[i]
  <1> DEFINE c == Len(s)
  <1>1. c \in Nat /\ c > 0 /\ DOMAIN s = 1..c /\ Len(r) = c - 1
    BY DEF LacksFirst
  <1>2. DOMAIN r = 1..(c - 1) /\ \A n \in 1..(c - 1) : r[n] = s[n + 1]
    BY <1>1 DEF LacksFirst
  <1> HIDE DEF c
  <1>3. \A n \in 1..(c - 1) : n + 1 \in 1..c /\ n + 1 # 1
    BY <1>1
  <1>4. KeysDiffer(r)
    <2> SUFFICES ASSUME NEW a \in 1..(c - 1), NEW b \in 1..(c - 1), Key(r[a]) = Key(r[b]) PROVE a = b
      BY <1>2 DEF KeysDiffer
    <2>1. a + 1 \in DOMAIN s /\ b + 1 \in DOMAIN s /\ Key(s[a + 1]) = Key(s[b + 1])
      BY <1>1, <1>2, <1>3
    <2>2. a + 1 = b + 1
      BY <2>1 DEF KeysDiffer
    <2> QED
      BY <1>1, <2>2
  <1>5. \A i \in 1..c : i # 1 => i - 1 \in 1..(c - 1) /\ r[i - 1] = s[i]
    <2> TAKE i \in 1..c
    <2> HAVE i # 1
    <2>1. i - 1 \in 1..(c - 1) /\ (i - 1) + 1 = i
      BY <1>1
    <2> QED
      BY <1>2, <2>1
  <1>6. \A n \in DOMAIN r : \E i \in DOMAIN s : i # 1 /\ r[n] = s[i]
    BY <1>1, <1>2, <1>3
  <1>7. \A i \in DOMAIN s : i # 1 => \E n \in DOMAIN r : r[n] = s[i]
    BY <1>1, <1>2, <1>5
  <1> QED
    BY <1>1, <1>4, <1>6, <1>7 DEF c

\* An assembly put back at the end of a table that has none of its key.
LEMMA AppendedTable ==
  ASSUME NEW S, NEW s \in Seq(S), KeysDiffer(s), NEW b \in S, \A n \in DOMAIN s : Key(s[n]) # Key(b),
         NEW r \in Seq(S), Adds(r, s, b)
  PROVE  /\ KeysDiffer(r) /\ Len(r) = Len(s) + 1
         /\ \A n \in DOMAIN r : (n \in DOMAIN s /\ r[n] = s[n]) \/ r[n] = b
         /\ \A n \in DOMAIN s : n \in DOMAIN r /\ r[n] = s[n]
         /\ \E n \in DOMAIN r : r[n] = b
  <1> DEFINE c == Len(s)
  <1>a. c \in Nat /\ DOMAIN s = 1..c /\ Len(r) = c + 1 /\ DOMAIN r = 1..(c + 1)
    BY DEF Adds
  <1>b. \A n \in 1..(c + 1) : n \notin 1..c => n = c + 1
    BY <1>a
  <1>1. /\ c \in Nat /\ DOMAIN s = 1..c /\ Len(r) = c + 1 /\ DOMAIN r = 1..(c + 1)
        /\ r[c + 1] = b
    BY <1>a, <1>b DEF Adds
  <1>2. \A n \in 1..c : r[n] = s[n]
    BY <1>1 DEF Adds
  <1> HIDE DEF c
  <1>3. c + 1 \in 1..(c + 1) /\ \A n \in 1..(c + 1) : n \in 1..c \/ n = c + 1
    BY <1>1
  <1>5. \A n \in 1..c : n \in 1..(c + 1)
    BY <1>1
  <1>4. KeysDiffer(r)
    BY <1>1, <1>2, <1>3 DEF KeysDiffer
  <1> QED
    BY <1>1, <1>2, <1>3, <1>4, <1>5 DEF c

\* A table grows by an assembly only where there is room for one: what is left of
\* the table when f has arrived and the assembly of its key is in hand.
RestFor(rest, f) ==
  /\ rest \in Seq(Assemblies) /\ Len(rest) < MaxAssemblies /\ KeysDiffer(rest)
  /\ \A n \in DOMAIN rest : Key(rest[n]) # Key(f) /\ \E i \in DOMAIN assemblies : rest[n] = assemblies[i]
  /\ \A i \in DOMAIN assemblies :
       Key(assemblies[i]) # Key(f) /\ Key(assemblies[i]) \notin excused'
         => \E n \in DOMAIN rest : rest[n] = assemblies[i]

\* The step of a well-formed fragment, as far as all its cases have it in common.
ArrivesWell(f) ==
  /\ f \in Network /\ WellFormed(f) /\ ReInv
  /\ arrived' = arrived \cup ({f} \ Strays) /\ reNow' = reNow
  /\ excused \subseteq excused' /\ (f \in Strays => Key(f) \in excused')

\* What a table keeps of the other packets when f has arrived.
OthersKept(t, f) ==
  \A m \in Messages : Key(m) # Key(f) /\ Key(m) \notin excused' =>
    /\ \A n \in DOMAIN t : Key(t[n]) = Key(m) => AgreesWith(t[n], m)
    /\ Returned(m) \in outputs \/ \A g \in FragmentsOf(m) \cap arrived' : HeldIn(t, g)

LEMMA RestKeepsOthers ==
  ASSUME NEW f, ArrivesWell(f), NEW rest, RestFor(rest, f)
  PROVE  OthersKept(rest, f)
  <1> SUFFICES ASSUME NEW m \in Messages, Key(m) # Key(f), Key(m) \notin excused'
               PROVE  /\ \A n \in DOMAIN rest : Key(rest[n]) = Key(m) => AgreesWith(rest[n], m)
                      /\ Returned(m) \in outputs \/ \A g \in FragmentsOf(m) \cap arrived' : HeldIn(rest, g)
    BY DEF OthersKept
  <1>1. /\ \A i \in DOMAIN assemblies : Key(assemblies[i]) = Key(m) => AgreesWith(assemblies[i], m)
        /\ Returned(m) \in outputs \/ \A g \in FragmentsOf(m) \cap arrived : HeldIn(assemblies, g)
    BY DEF ArrivesWell, ReInv, NothingMissing
  <1>2. \A n \in DOMAIN rest : Key(rest[n]) = Key(m) => AgreesWith(rest[n], m)
    BY <1>1 DEF RestFor
  <1>3. ASSUME NEW g \in FragmentsOf(m) \cap arrived', Returned(m) \notin outputs
        PROVE  HeldIn(rest, g)
    <2>1. Key(g) = Key(m)
      BY OwnFragments
    <2>2. g \in arrived
      BY <2>1 DEF ArrivesWell
    <2>3. PICK i \in DOMAIN assemblies : Key(assemblies[i]) = Key(g) /\ g.index \in DOMAIN assemblies[i].chunks
      BY <1>1, <1>3, <2>2 DEF HeldIn
    <2>4. \E n \in DOMAIN rest : rest[n] = assemblies[i]
      BY <2>1, <2>3 DEF RestFor
    <2> QED
      BY <2>3, <2>4 DEF HeldIn
  <1> QED
    BY <1>2, <1>3

\* The assembly of f's key as far as it had come, still to take f's chunk.
BaseFor(a, f) ==
  /\ a \in Assemblies /\ Sound(a) /\ a.at <= reNow /\ Key(a) = Key(f) /\ a.type = f.type /\ a.total = f.total
  /\ \A m \in Messages : Key(m) = Key(f) /\ Key(m) \notin excused' =>
       /\ AgreesWith(a, m)
       /\ Returned(m) \in outputs \/ \A g \in FragmentsOf(m) \cap arrived : g.index \in DOMAIN a.chunks

\* Outside the fragment's key, only what was excused is lost; a fragment that is
\* neither stray nor excused belongs to its packet.
LEMMA OwnerOf ==
  ASSUME NEW f, ArrivesWell(f), NEW m \in Messages, Key(m) = Key(f), Key(m) \notin excused'
  PROVE  f \in FragmentsOf(m) /\ f \notin Strays /\ arrived' = arrived \cup {f}
  <1>1. f \in Network /\ f \notin Strays
    BY DEF ArrivesWell
  <1>2. f \in FragmentsOf(m)
    BY <1>1, FragmentOfOne
  <1> QED
    BY <1>1, <1>2 DEF ArrivesWell

\* The assembly with f's chunk.
LEMMA FilledIs ==
  ASSUME NEW f, ArrivesWell(f), NEW a, BaseFor(a, f), NEW b, b = [a EXCEPT !.chunks = Filled(a, f)]
  PROVE  /\ b \in Assemblies /\ Sound(b) /\ b.at <= reNow /\ Key(b) = Key(f)
         /\ b.type = f.type /\ b.total = f.total /\ b.sender = f.sender /\ b.fid = f.fid
         /\ DOMAIN b.chunks # {} /\ f.index \in DOMAIN b.chunks /\ DOMAIN a.chunks \subseteq DOMAIN b.chunks
         /\ \A m \in Messages : Key(m) = Key(f) /\ Key(m) \notin excused' => AgreesWith(b, m)
  <1>1. /\ f \in Network /\ WellFormed(f) /\ f.total \in 1..MaxFragments /\ f.index \in 0..(f.total - 1)
        /\ f.data \in DOMAIN Length /\ f.index \in 0..(MaxFragments - 1)
    BY WellFormedTypes DEF ArrivesWell
  <1>2. a \in Assemblies /\ a.chunks \in Chunks /\ a.sender = f.sender /\ a.fid = f.fid
    BY DEF BaseFor, Assemblies, Key
  <1>3. PICK D \in SUBSET (0..(MaxFragments - 1)) : a.chunks \in [D -> DOMAIN Length]
    BY <1>2 DEF Chunks
  <1>4. Filled(a, f) \in [(D \cup {f.index}) -> DOMAIN Length]
    BY <1>1, <1>3 DEF Filled
  <1>5. Filled(a, f) \in Chunks
    BY <1>1, <1>4 DEF Chunks
  <1>6. b \in Assemblies /\ b.chunks = Filled(a, f) /\ b.type = a.type /\ b.total = a.total
        /\ b.sender = a.sender /\ b.fid = a.fid /\ b.at = a.at
    BY <1>2, <1>5 DEF Assemblies
  <1>7. DOMAIN b.chunks = DOMAIN a.chunks \cup {f.index} /\ b.chunks[f.index] = f.data
        /\ \A i \in DOMAIN a.chunks : i # f.index => b.chunks[i] = a.chunks[i]
    BY <1>6 DEF Filled
  <1>8. Sound(b)
    <2>1. DOMAIN b.chunks \subseteq 0..(b.total - 1)
      BY <1>1, <1>6, <1>7 DEF BaseFor, Sound
    <2>2. ASSUME NEW i \in DOMAIN b.chunks PROVE Carried(b, i, b.chunks[i])
      <3>1. CASE i = f.index
        BY <1>1, <1>2, <1>6, <1>7, <3>1 DEF Carried, SameKey, Key, BaseFor
      <3>2. CASE i # f.index
        <4>1. Carried(a, i, a.chunks[i]) /\ b.chunks[i] = a.chunks[i]
          BY <1>7, <3>2 DEF BaseFor, Sound
        <4> QED
          BY <1>6, <4>1 DEF Carried, SameKey, Key
      <3> QED
        BY <3>1, <3>2
    <2> QED
      BY <2>1, <2>2 DEF Sound
  <1>9. ASSUME NEW m \in Messages, Key(m) = Key(f), Key(m) \notin excused' PROVE AgreesWith(b, m)
    <2>1. AgreesWith(a, m)
      BY <1>9 DEF BaseFor
    <2>2. f \in FragmentsOf(m)
      BY <1>9, OwnerOf
    <2>3. f.data = m.chunks[f.index + 1]
      BY <2>2, OwnFragments
    <2> QED
      BY <1>6, <1>7, <2>1, <2>3 DEF AgreesWith
  <1> QED
    BY <1>2, <1>6, <1>7, <1>8, <1>9 DEF BaseFor, Key

\* A table that fits, and what it holds of f's packet and of the others.
NewTable(t, f) ==
  /\ t \in Seq(Assemblies) /\ Len(t) <= MaxAssemblies /\ KeysDiffer(t)
  /\ \A n \in DOMAIN t : Sound(t[n]) /\ Within(t[n]) /\ t[n].at <= reNow
  /\ OthersKept(t, f)

\* What is left of the table fits.
LEMMA RestFits ==
  ASSUME NEW f, ArrivesWell(f), NEW rest, RestFor(rest, f)
  PROVE  NewTable(rest, f)
  <1>1. OthersKept(rest, f)
    BY RestKeepsOthers
  <1>2. Len(rest) <= MaxAssemblies
    BY ReConstants DEF RestFor
  <1>3. \A n \in DOMAIN rest : Sound(rest[n]) /\ Within(rest[n]) /\ rest[n].at <= reNow
    BY DEF RestFor, ArrivesWell, ReInv, TableFits
  <1> QED
    BY <1>1, <1>2, <1>3 DEF NewTable, RestFor

\* An assembly of f's key put back into it fits, too.
LEMMA PutBackFits ==
  ASSUME NEW f, ArrivesWell(f), NEW rest, RestFor(rest, f),
         NEW b \in Assemblies, Sound(b), Within(b), b.at <= reNow, Key(b) = Key(f),
         NEW t \in Seq(Assemblies), Adds(t, rest, b)
  PROVE  NewTable(t, f) /\ (\A n \in DOMAIN t : Key(t[n]) = Key(f) => t[n] = b) /\ \E n \in DOMAIN t : t[n] = b
  <1>1. /\ rest \in Seq(Assemblies) /\ KeysDiffer(rest) /\ Len(rest) < MaxAssemblies
        /\ \A n \in DOMAIN rest : Key(rest[n]) # Key(b)
    BY DEF RestFor
  <1>2. /\ KeysDiffer(t) /\ Len(t) = Len(rest) + 1
        /\ \A n \in DOMAIN t : (n \in DOMAIN rest /\ t[n] = rest[n]) \/ t[n] = b
        /\ \A n \in DOMAIN rest : n \in DOMAIN t /\ t[n] = rest[n]
        /\ \E n \in DOMAIN t : t[n] = b
    BY <1>1, AppendedTable
  <1>3. NewTable(rest, f)
    BY RestFits
  <1>4. Len(t) <= MaxAssemblies
    BY <1>1, <1>2, ReConstants
  <1>5. \A n \in DOMAIN t : Sound(t[n]) /\ Within(t[n]) /\ t[n].at <= reNow
    BY <1>2, <1>3 DEF NewTable
  <1>6. OthersKept(t, f)
    <2> SUFFICES ASSUME NEW m \in Messages, Key(m) # Key(f), Key(m) \notin excused'
                 PROVE  /\ \A n \in DOMAIN t : Key(t[n]) = Key(m) => AgreesWith(t[n], m)
                        /\ Returned(m) \in outputs \/ \A g \in FragmentsOf(m) \cap arrived' : HeldIn(t, g)
      BY DEF OthersKept
    <2>1. /\ \A n \in DOMAIN rest : Key(rest[n]) = Key(m) => AgreesWith(rest[n], m)
          /\ Returned(m) \in outputs \/ \A g \in FragmentsOf(m) \cap arrived' : HeldIn(rest, g)
      BY <1>3 DEF NewTable, OthersKept
    <2>2. \A n \in DOMAIN t : Key(t[n]) = Key(m) => AgreesWith(t[n], m)
      BY <1>2, <2>1
    <2>3. \A g : HeldIn(rest, g) => HeldIn(t, g)
      BY <1>2 DEF HeldIn
    <2> QED
      BY <2>1, <2>2, <2>3
  <1>7. \A n \in DOMAIN t : Key(t[n]) = Key(f) => t[n] = b
    BY <1>1, <1>2
  <1> QED
    BY <1>2, <1>4, <1>5, <1>6, <1>7 DEF NewTable

\* A table that fits, packets that are authentic and f's packet excused, returned or
\* held: the invariant holds again.
LEMMA ArrivedKeeps ==
  ASSUME NEW f, ArrivesWell(f), ReTypes', NewTable(assemblies', f), OutputsAuthentic', outputs \subseteq outputs',
         \A m \in Messages : Key(m) = Key(f) /\ Key(m) \notin excused' =>
           /\ \A n \in DOMAIN assemblies' : Key(assemblies'[n]) = Key(m) => AgreesWith(assemblies'[n], m)
           /\ Returned(m) \in outputs' \/ \A g \in FragmentsOf(m) \cap arrived' : HeldIn(assemblies', g)
  PROVE  ReInv'
  <1>1. TableFits'
    <2>1. reNow' = reNow
      BY DEF ArrivesWell
    <2> QED
      BY <2>1 DEF NewTable, TableFits, Sound, Within, Carried, Complete, SameKey, KeysDiffer
  <1>2. ASSUME NEW m \in Messages, Key(m) \notin excused'
        PROVE  /\ \A n \in DOMAIN assemblies' : Key(assemblies'[n]) = Key(m) => AgreesWith(assemblies'[n], m)
               /\ Returned(m) \in outputs' \/ \A g \in FragmentsOf(m) \cap arrived' : HeldIn(assemblies', g)
    <2>1. CASE Key(m) = Key(f)
      BY <1>2, <2>1
    <2>2. CASE Key(m) # Key(f)
      BY <1>2, <2>2 DEF NewTable, OthersKept
    <2> QED
      BY <2>1, <2>2
  <1>3. NothingMissing'
    BY <1>2 DEF NothingMissing
  <1> QED
    BY <1>1, <1>3 DEF ReInv

\* _insert_chunk's end.
LEMMA PutKeeps ==
  ASSUME NEW f, ArrivesWell(f), ReTypes', NEW rest, RestFor(rest, f), NEW a, BaseFor(a, f), Put(rest, a, f)
  PROVE  ReInv'
  <1> DEFINE b == [a EXCEPT !.chunks = Filled(a, f)]
  <1>1. /\ b \in Assemblies /\ Sound(b) /\ b.at <= reNow /\ Key(b) = Key(f)
        /\ b.type = f.type /\ b.total = f.total /\ b.sender = f.sender /\ b.fid = f.fid
        /\ DOMAIN b.chunks # {} /\ f.index \in DOMAIN b.chunks /\ DOMAIN a.chunks \subseteq DOMAIN b.chunks
        /\ \A m \in Messages : Key(m) = Key(f) /\ Key(m) \notin excused' => AgreesWith(b, m)
    BY FilledIs
  <1>2. IF TooLarge(b)
        THEN assemblies' = rest /\ UNCHANGED outputs
        ELSE IF Complete(b)
        THEN /\ assemblies' = rest
             /\ outputs' = outputs \cup {[sender |-> b.sender, fid |-> b.fid, type |-> b.type, data |-> Joined(b)]}
        ELSE assemblies' = Append(rest, b) /\ UNCHANGED outputs
    BY DEF Put
  <1> HIDE DEF b
  <1>3. OutputsAuthentic
    BY DEF ArrivesWell, ReInv
  <1>4. NewTable(rest, f)
    BY RestFits
  <1>5. CASE TooLarge(b)
    <2>1. assemblies' = rest /\ outputs' = outputs
      BY <1>2, <1>5
    <2>2. ASSUME NEW m \in Messages, Key(m) = Key(f), Key(m) \notin excused' PROVE FALSE
      <3>1. AgreesWith(b, m) /\ DOMAIN b.chunks \subseteq 0..(b.total - 1)
        BY <1>1, <2>2 DEF Sound
      <3> QED
        BY <1>5, <3>1, AgreeingFits
    <2>3. OutputsAuthentic'
      BY <1>3, <2>1 DEF OutputsAuthentic
    <2> QED
      BY <1>4, <2>1, <2>2, <2>3, ArrivedKeeps
  <1>6. CASE ~TooLarge(b) /\ Complete(b)
    <2> DEFINE o == [sender |-> b.sender, fid |-> b.fid, type |-> b.type, data |-> Joined(b)]
    <2>1. assemblies' = rest /\ outputs' = outputs \cup {o}
      BY <1>2, <1>6
    <2>2. b.total \in Nat /\ DOMAIN b.chunks = 0..(b.total - 1)
      <3>1. b.total \in Nat
        BY <1>1, ReConstants DEF Assemblies
      <3> QED
        BY <1>1, <1>6, <3>1, CompleteHasAll DEF Sound, Complete
    <2>3. DOMAIN o.data = 1..b.total /\ \A i \in 1..b.total : o.data[i] = b.chunks[i - 1] /\ i - 1 \in DOMAIN b.chunks
      BY <2>2 DEF Joined
    <2>4. ASSUME NEW i \in DOMAIN o.data
          PROVE  \E g \in Network :
                   /\ WellFormed(g) /\ SameKey(o, g)
                   /\ g.type = o.type /\ g.total = Len(o.data) /\ g.index = i - 1 /\ g.data = o.data[i]
      <3>1. Carried(b, i - 1, b.chunks[i - 1])
        BY <1>1, <2>3 DEF Sound
      <3>2. Len(o.data) = b.total
        BY <2>2 DEF Joined
      <3>3. o.sender = b.sender /\ o.fid = b.fid /\ o.type = b.type
        OBVIOUS
      <3> HIDE DEF o
      <3> QED
        BY <2>3, <3>1, <3>2, <3>3 DEF Carried, SameKey, Key
    <2>5. OutputsAuthentic'
      BY <1>3, <2>1, <2>4 DEF OutputsAuthentic
    <2>6. ASSUME NEW m \in Messages, Key(m) = Key(f), Key(m) \notin excused' PROVE Returned(m) \in outputs'
      <3>1. AgreesWith(b, m)
        BY <1>1, <2>6
      <3>2. m.chunks \in Seq(DOMAIN Length) /\ b.total = Len(m.chunks) /\ b.type = m.type
        BY <3>1, ReConstants DEF AgreesWith
      <3>3. \A i \in 1..b.total : o.data[i] = m.chunks[i]
        <4> TAKE i \in 1..b.total
        <4>1. o.data[i] = b.chunks[i - 1] /\ b.chunks[i - 1] = m.chunks[(i - 1) + 1]
          BY <2>3, <3>1 DEF AgreesWith
        <4>2. (i - 1) + 1 = i
          BY <2>2
        <4> QED
          BY <4>1, <4>2
      <3>4. o.data = m.chunks
        <4>1. o.data = [i \in 1..b.total |-> o.data[i]]
          BY DEF Joined
        <4>2. m.chunks = [i \in 1..b.total |-> m.chunks[i]]
          BY <3>2
        <4> QED
          BY <3>3, <4>1, <4>2
      <3>5. b.sender = m.sender /\ b.fid = m.fid
        BY <1>1, <2>6 DEF Key
      <3>6. o = Returned(m)
        BY <3>2, <3>4, <3>5 DEF Returned
      <3> QED
        BY <2>1, <3>6
    <2>7. \A m \in Messages : Key(m) = Key(f) => \A n \in DOMAIN rest : Key(rest[n]) # Key(m)
      BY DEF RestFor
    <2> QED
      BY <1>4, <2>1, <2>5, <2>6, <2>7, ArrivedKeeps
  <1>7. CASE ~TooLarge(b) /\ ~Complete(b)
    <2>1. assemblies' = Append(rest, b) /\ outputs' = outputs
      BY <1>2, <1>7
    <2>2. ReBytes(b) <= ReMaxBytes
      <3>1. b.chunks \in Chunks
        BY <1>1 DEF Assemblies
      <3>2. PICK D \in SUBSET (0..(MaxFragments - 1)) : b.chunks \in [D -> DOMAIN Length]
        BY <3>1 DEF Chunks
      <3>3. IsFiniteSet(0..(MaxFragments - 1))
        <4>1. MaxFragments - 1 \in Int /\ 0 \in Int
          BY ReConstants
        <4> QED
          BY <4>1, FS_Interval
      <3>4. IsFiniteSet(DOMAIN b.chunks) /\ \A i \in DOMAIN b.chunks : b.chunks[i] \in DOMAIN Length
        BY <3>2, <3>3, FS_Subset
      <3>5. ReBytes(b) \in Nat
        BY <3>4, BytesCounted
      <3> QED
        BY <1>7, <3>5, ReConstants DEF TooLarge
    <2>3. Within(b)
      BY <1>1, <1>7, <2>2 DEF Within
    <2>4. /\ NewTable(assemblies', f) /\ \A n \in DOMAIN assemblies' : Key(assemblies'[n]) = Key(f) => assemblies'[n] = b
          /\ \E n \in DOMAIN assemblies' : assemblies'[n] = b
      <3>1. assemblies' \in Seq(Assemblies) /\ Adds(assemblies', rest, b)
        BY <1>1, <2>1, AppendAdds DEF RestFor
      <3> QED
        BY <1>1, <2>3, <3>1, PutBackFits
    <2>5. OutputsAuthentic'
      BY <1>3, <2>1 DEF OutputsAuthentic
    <2>6. ASSUME NEW m \in Messages, Key(m) = Key(f), Key(m) \notin excused'
          PROVE  /\ \A n \in DOMAIN assemblies' : Key(assemblies'[n]) = Key(m) => AgreesWith(assemblies'[n], m)
                 /\ Returned(m) \in outputs' \/ \A g \in FragmentsOf(m) \cap arrived' : HeldIn(assemblies', g)
      <3>1. \A n \in DOMAIN assemblies' : Key(assemblies'[n]) = Key(m) => AgreesWith(assemblies'[n], m)
        BY <1>1, <2>4, <2>6
      <3>2. ASSUME NEW g \in FragmentsOf(m) \cap arrived', Returned(m) \notin outputs PROVE HeldIn(assemblies', g)
        <4>1. g \in arrived \/ g = f
          BY <2>6, OwnerOf
        <4>2. g.index \in DOMAIN b.chunks
          BY <1>1, <2>6, <3>2, <4>1 DEF BaseFor
        <4>3. Key(g) = Key(b)
          BY <1>1, <2>6, OwnFragments
        <4> QED
          BY <2>4, <4>2, <4>3 DEF HeldIn
      <3> QED
        BY <2>1, <3>1, <3>2
    <2>7. \A m \in Messages : Key(m) = Key(f) /\ Key(m) \notin excused' =>
            /\ \A n \in DOMAIN assemblies' : Key(assemblies'[n]) = Key(m) => AgreesWith(assemblies'[n], m)
            /\ Returned(m) \in outputs' \/ \A g \in FragmentsOf(m) \cap arrived' : HeldIn(assemblies', g)
      BY <2>6
    <2>8. outputs \subseteq outputs'
      BY <2>1
    <2> QED
      BY <2>4, <2>5, <2>7, <2>8, ArrivedKeeps
  <1> QED
    BY <1>5, <1>6, <1>7

\* The types of the history variables do not depend on what becomes of the table.
LEMMA ArriveTypes ==
  ASSUME ReInv, NEW f \in Network, Arrive(f)
  PROVE  ReTypes' /\ (WellFormed(f) => ArrivesWell(f))
  <1>1. Excused(f) \subseteq {Key(g) : g \in Network}
    <2>1. ASSUME Len(assemblies) >= MaxAssemblies PROVE Key(Head(assemblies)) \in {Key(g) : g \in Network}
      <3>1. 1 \in DOMAIN assemblies /\ Head(assemblies) = assemblies[1]
        BY <2>1, ReConstants DEF ReInv, TableFits
      <3>2. Sound(assemblies[1]) /\ DOMAIN assemblies[1].chunks # {}
        BY <3>1 DEF ReInv, TableFits, Within
      <3>3. PICK i \in DOMAIN assemblies[1].chunks : Carried(assemblies[1], i, assemblies[1].chunks[i])
        BY <3>2 DEF Sound
      <3>4. \E g \in Network : Key(assemblies[1]) = Key(g)
        BY <3>3 DEF Carried, SameKey
      <3> QED
        BY <3>1, <3>4
    <2> QED
      BY <2>1 DEF Excused
  <1>2. excused' = IF WellFormed(f) THEN excused \cup Excused(f) ELSE excused
    BY DEF Arrive
  <1>3. arrived' = arrived \cup ({f} \ Strays) /\ reNow' = reNow
    BY DEF Arrive
  <1>4. ReTypes'
    BY <1>1, <1>2, <1>3 DEF ReInv, ReTypes
  <1>5. ASSUME WellFormed(f) PROVE ArrivesWell(f)
    BY <1>2, <1>3, <1>5 DEF ArrivesWell, Excused
  <1> QED
    BY <1>4, <1>5

\* parse_fragment_payload and add_fragment_packet: what is rejected is a stray.
LEMMA RejectKeeps ==
  ASSUME ReInv, NEW f \in Network, Arrive(f), Reject(f)
  PROVE  ReInv'
  <1>1. ~WellFormed(f) /\ assemblies' = assemblies /\ outputs' = outputs /\ excused' = excused /\ reNow' = reNow
    BY DEF Reject, Arrive
  <1>2. f \in Strays
    <2>1. SUFFICES ASSUME f \notin Strays PROVE FALSE
      OBVIOUS
    <2>2. f \in UNION {FragmentsOf(m) : m \in Messages}
      BY <2>1 DEF Network
    <2>3. PICK m \in Messages : f \in FragmentsOf(m)
      BY <2>2, Zenon
    <2> QED
      BY <1>1, <2>3, OwnFragments
  <1>3. arrived' = arrived
    BY <1>2 DEF Arrive
  <1> QED
    BY <1>1, <1>3 DEF ReInv, ReTypes, TableFits, Sound, Within, Carried, Complete, SameKey, KeysDiffer,
       OutputsAuthentic, NothingMissing, HeldIn, AgreesWith

\* The first fragment of an assembly.
LEMMA OpenKeeps ==
  ASSUME ReInv, NEW f \in Network, Arrive(f), OpenAssembly(f)
  PROVE  ReInv'
  <1> DEFINE a == [sender |-> f.sender, fid |-> f.fid, type |-> f.type, total |-> f.total,
                   chunks |-> <<>>, at |-> reNow]
  <1>1. WellFormed(f) /\ KeyPosition(f) = {} /\ Put(Room, a, f)
    BY DEF OpenAssembly
  <1>2. ReTypes' /\ ArrivesWell(f)
    BY <1>1, ArriveTypes
  <1>3. /\ assemblies \in Seq(Assemblies) /\ Len(assemblies) <= MaxAssemblies /\ KeysDiffer(assemblies)
        /\ Len(assemblies) \in Nat /\ MaxAssemblies \in Nat \ {0}
    BY ReConstants DEF ReInv, TableFits
  <1>4. \A i \in DOMAIN assemblies : Key(assemblies[i]) # Key(f)
    BY <1>1 DEF KeyPosition, SameKey
  <1>5. RestFor(Room, f)
    <2>1. CASE Len(assemblies) >= MaxAssemblies
      <3>1. Room = Tail(assemblies) /\ assemblies # <<>>
        BY <1>3, <2>1 DEF Room
      <3>2. /\ Room \in Seq(Assemblies) /\ KeysDiffer(Room) /\ Len(Room) = Len(assemblies) - 1
            /\ \A n \in DOMAIN Room : \E i \in DOMAIN assemblies : i # 1 /\ Room[n] = assemblies[i]
            /\ \A i \in DOMAIN assemblies : i # 1 => \E n \in DOMAIN Room : Room[n] = assemblies[i]
            /\ Head(assemblies) = assemblies[1] /\ 1 \in DOMAIN assemblies
        <4>1. /\ Room \in Seq(Assemblies) /\ LacksFirst(Room, assemblies)
              /\ Head(assemblies) = assemblies[1] /\ 1 \in DOMAIN assemblies
          BY <1>3, <3>1, TailLacksFirst
        <4> QED
          BY <1>3, <4>1, TailTable
      <3>3. Len(Room) < MaxAssemblies
        BY <1>3, <3>2
      <3>4. Key(assemblies[1]) \in excused'
        BY <1>1, <2>1, <3>2 DEF Arrive, Excused
      <3>5. \A n \in DOMAIN Room : Key(Room[n]) # Key(f) /\ \E i \in DOMAIN assemblies : Room[n] = assemblies[i]
        BY <1>4, <3>2
      <3>6. \A i \in DOMAIN assemblies : Key(assemblies[i]) \notin excused' => \E n \in DOMAIN Room : Room[n] = assemblies[i]
        BY <3>2, <3>4
      <3> QED
        BY <3>2, <3>3, <3>5, <3>6 DEF RestFor
    <2>2. CASE ~(Len(assemblies) >= MaxAssemblies)
      <3>1. Room = assemblies /\ Len(assemblies) < MaxAssemblies
        BY <1>3, <2>2 DEF Room
      <3> QED
        BY <1>3, <1>4, <3>1 DEF RestFor
    <2> QED
      BY <2>1, <2>2
  <1>6. a \in Assemblies
    <2>1. <<>> \in [{} -> DOMAIN Length]
      OBVIOUS
    <2>2. <<>> \in Chunks
      BY <2>1 DEF Chunks
    <2>3. f.total \in 1..MaxFragments /\ reNow \in 0..ReMaxTime
      BY <1>1, WellFormedTypes DEF ReInv, ReTypes
    <2> QED
      BY <2>2, <2>3 DEF Assemblies
  <1>7. Key(a) = Key(f) /\ a.type = f.type /\ a.total = f.total /\ a.at = reNow /\ DOMAIN a.chunks = {}
    BY DEF Key
  <1>8. BaseFor(a, f)
    <2>1. Sound(a)
      BY <1>7 DEF Sound
    <2>2. a.at <= reNow
      BY <1>7, ReConstants DEF ReInv, ReTypes
    <2>3. ASSUME NEW m \in Messages, Key(m) = Key(f), Key(m) \notin excused'
          PROVE  /\ AgreesWith(a, m)
                 /\ Returned(m) \in outputs \/ \A g \in FragmentsOf(m) \cap arrived : g.index \in DOMAIN a.chunks
      <3>1. f \in FragmentsOf(m)
        BY <1>2, <2>3, OwnerOf
      <3>2. f.type = m.type /\ f.total = Len(m.chunks)
        BY <3>1, OwnFragments
      <3>3. AgreesWith(a, m)
        BY <1>7, <3>2 DEF AgreesWith
      <3>4. Key(m) \notin excused
        BY <1>2, <2>3 DEF ArrivesWell
      <3>5. Returned(m) \in outputs \/ \A g \in FragmentsOf(m) \cap arrived : HeldIn(assemblies, g)
        BY <3>4 DEF ReInv, NothingMissing
      <3>6. \A g \in FragmentsOf(m) : ~HeldIn(assemblies, g)
        BY <1>4, <2>3, OwnFragments DEF HeldIn
      <3> QED
        BY <3>3, <3>5, <3>6
    <2> QED
      BY <1>6, <1>7, <2>1, <2>2, <2>3 DEF BaseFor
  <1> HIDE DEF a
  <1> QED
    BY <1>1, <1>2, <1>5, <1>8, PutKeeps

\* A fragment of a known assembly.
LEMMA JoinKeeps ==
  ASSUME ReInv, NEW f \in Network, Arrive(f), JoinAssembly(f)
  PROVE  ReInv'
  <1>1. PICK i \in KeyPosition(f) :
          /\ WellFormed(f)
          /\ IF Conflicting(assemblies[i], f)
             THEN assemblies' = Picked(assemblies, DOMAIN assemblies \ {i}) /\ UNCHANGED outputs
             ELSE IF f.index \in DOMAIN assemblies[i].chunks
             THEN /\ assemblies' = Append(Picked(assemblies, DOMAIN assemblies \ {i}), assemblies[i])
                  /\ UNCHANGED outputs
             ELSE Put(Picked(assemblies, DOMAIN assemblies \ {i}), assemblies[i], f)
    BY DEF JoinAssembly
  <1> DEFINE a == assemblies[i]
             I == DOMAIN assemblies \ {i}
             rest == Picked(assemblies, I)
  <1>2. ReTypes' /\ ArrivesWell(f)
    BY <1>1, ArriveTypes
  <1>3. /\ assemblies \in Seq(Assemblies) /\ Len(assemblies) <= MaxAssemblies /\ KeysDiffer(assemblies)
        /\ Len(assemblies) \in Nat /\ MaxAssemblies \in Nat \ {0}
        /\ i \in DOMAIN assemblies /\ Key(a) = Key(f) /\ a \in Assemblies
        /\ Sound(a) /\ Within(a) /\ a.at <= reNow
    BY ReConstants DEF ReInv, TableFits, KeyPosition, SameKey
  <1>4. RestFor(rest, f)
    <2>1. /\ rest \in Seq(Assemblies) /\ KeysDiffer(rest)
          /\ \A n \in DOMAIN rest : \E j \in I : rest[n] = assemblies[j]
          /\ \A j \in I : \E n \in DOMAIN rest : rest[n] = assemblies[j]
      <3>1. I \in SUBSET (DOMAIN assemblies) /\ rest = Picked(assemblies, I)
        OBVIOUS
      <3> HIDE DEF I, rest
      <3> QED
        BY <1>3, <3>1, SubTable
    <2>2. Len(rest) < Len(assemblies)
      BY <1>3, PickedShorter
    <2>3. Len(rest) < MaxAssemblies
      <3>1. Len(rest) \in Nat
        BY <2>1
      <3> HIDE DEF rest
      <3> QED
        BY <1>3, <2>2, <3>1
    <2>4. \A j \in I : Key(assemblies[j]) # Key(f)
      BY <1>3 DEF KeysDiffer
    <2>5. \A j \in DOMAIN assemblies : Key(assemblies[j]) # Key(f) => j \in I
      BY <1>3
    <2> HIDE DEF rest, I
    <2>6. \A n \in DOMAIN rest : Key(rest[n]) # Key(f) /\ \E j \in DOMAIN assemblies : rest[n] = assemblies[j]
      BY <2>1, <2>4 DEF I
    <2> QED
      BY <2>1, <2>3, <2>5, <2>6 DEF RestFor
  <1>5. ASSUME NEW m \in Messages, Key(m) = Key(f), Key(m) \notin excused'
        PROVE  /\ AgreesWith(a, m) /\ f \in FragmentsOf(m) /\ f.type = m.type /\ f.total = Len(m.chunks)
               /\ f.data = m.chunks[f.index + 1]
               /\ Returned(m) \in outputs \/ \A g \in FragmentsOf(m) \cap arrived : g.index \in DOMAIN a.chunks
    <2>1. Key(m) \notin excused
      BY <1>2, <1>5 DEF ArrivesWell
    <2>2. /\ AgreesWith(a, m)
          /\ Returned(m) \in outputs \/ \A g \in FragmentsOf(m) \cap arrived : HeldIn(assemblies, g)
      BY <1>3, <1>5, <2>1 DEF ReInv, NothingMissing
    <2>3. \A g \in FragmentsOf(m) : HeldIn(assemblies, g) => g.index \in DOMAIN a.chunks
      <3> TAKE g \in FragmentsOf(m)
      <3> HAVE HeldIn(assemblies, g)
      <3>1. PICK j \in DOMAIN assemblies : Key(assemblies[j]) = Key(g) /\ g.index \in DOMAIN assemblies[j].chunks
        BY DEF HeldIn
      <3>2. Key(g) = Key(m)
        BY OwnFragments
      <3>3. j = i
        BY <1>3, <1>5, <3>1, <3>2 DEF KeysDiffer
      <3> QED
        BY <3>1, <3>3
    <2>4. f \in FragmentsOf(m)
      BY <1>2, <1>5, OwnerOf
    <2> QED
      BY <2>2, <2>3, <2>4, OwnFragments
  <1>6. OutputsAuthentic
    BY DEF ReInv
  <1> HIDE DEF rest, a
  <1>7. CASE Conflicting(a, f)
    <2>1. assemblies' = rest /\ outputs' = outputs
      BY <1>1, <1>7 DEF a, rest
    <2>2. ASSUME NEW m \in Messages, Key(m) = Key(f), Key(m) \notin excused' PROVE FALSE
      <3>1. /\ AgreesWith(a, m) /\ f.type = m.type /\ f.total = Len(m.chunks) /\ f.data = m.chunks[f.index + 1]
        BY <1>5, <2>2
      <3> QED
        BY <1>7, <3>1 DEF Conflicting, ConflictingData, AgreesWith
    <2>3. OutputsAuthentic'
      BY <1>6, <2>1 DEF OutputsAuthentic
    <2>4. NewTable(assemblies', f)
      BY <1>2, <1>4, <2>1, RestFits
    <2> QED
      BY <1>2, <2>1, <2>2, <2>3, <2>4, ArrivedKeeps
  <1>8. CASE ~Conflicting(a, f) /\ f.index \in DOMAIN a.chunks
    <2>1. assemblies' = Append(rest, a) /\ outputs' = outputs
      BY <1>1, <1>8 DEF a, rest
    <2>2. /\ NewTable(assemblies', f) /\ \A n \in DOMAIN assemblies' : Key(assemblies'[n]) = Key(f) => assemblies'[n] = a
          /\ \E n \in DOMAIN assemblies' : assemblies'[n] = a
      <3>1. assemblies' \in Seq(Assemblies) /\ Adds(assemblies', rest, a)
        BY <1>3, <1>4, <2>1, AppendAdds DEF RestFor
      <3> QED
        BY <1>2, <1>3, <1>4, <3>1, PutBackFits
    <2>3. OutputsAuthentic'
      BY <1>6, <2>1 DEF OutputsAuthentic
    <2>4. ASSUME NEW m \in Messages, Key(m) = Key(f), Key(m) \notin excused'
          PROVE  /\ \A n \in DOMAIN assemblies' : Key(assemblies'[n]) = Key(m) => AgreesWith(assemblies'[n], m)
                 /\ Returned(m) \in outputs' \/ \A g \in FragmentsOf(m) \cap arrived' : HeldIn(assemblies', g)
      <3>1. \A n \in DOMAIN assemblies' : Key(assemblies'[n]) = Key(m) => AgreesWith(assemblies'[n], m)
        BY <1>5, <2>2, <2>4
      <3>2. ASSUME NEW g \in FragmentsOf(m) \cap arrived', Returned(m) \notin outputs PROVE HeldIn(assemblies', g)
        <4>1. g \in arrived \/ g = f
          BY <1>2, <2>4, OwnerOf
        <4>2. g.index \in DOMAIN a.chunks
          BY <1>5, <1>8, <2>4, <3>2, <4>1
        <4>3. Key(g) = Key(a)
          BY <1>3, <2>4, OwnFragments
        <4> QED
          BY <2>2, <4>2, <4>3 DEF HeldIn
      <3> QED
        BY <2>1, <3>1, <3>2
    <2>5. \A m \in Messages : Key(m) = Key(f) /\ Key(m) \notin excused' =>
            /\ \A n \in DOMAIN assemblies' : Key(assemblies'[n]) = Key(m) => AgreesWith(assemblies'[n], m)
            /\ Returned(m) \in outputs' \/ \A g \in FragmentsOf(m) \cap arrived' : HeldIn(assemblies', g)
      BY <2>4
    <2>6. outputs \subseteq outputs'
      BY <2>1
    <2> QED
      BY <1>2, <2>2, <2>3, <2>5, <2>6, ArrivedKeeps
  <1>9. CASE ~Conflicting(a, f) /\ f.index \notin DOMAIN a.chunks
    <2>1. Put(rest, a, f)
      BY <1>1, <1>9 DEF a, rest
    <2>2. BaseFor(a, f)
      <3>1. a.type = f.type /\ a.total = f.total
        BY <1>9 DEF Conflicting
      <3>2. \A m \in Messages : Key(m) = Key(f) /\ Key(m) \notin excused' =>
              /\ AgreesWith(a, m)
              /\ Returned(m) \in outputs \/ \A g \in FragmentsOf(m) \cap arrived : g.index \in DOMAIN a.chunks
        BY <1>5
      <3> QED
        BY <1>3, <3>1, <3>2 DEF BaseFor
    <2> QED
      BY <1>2, <1>4, <2>1, <2>2, PutKeeps
  <1> QED
    BY <1>7, <1>8, <1>9

\* prune_stale.
LEMMA PruneKeeps ==
  ASSUME ReInv, RePruneStale
  PROVE  ReInv'
  <1> DEFINE I == {i \in DOMAIN assemblies : ~Stale(assemblies[i])}
             r == Picked(assemblies, I)
             gone == {Key(a) : a \in {b \in Range(assemblies) : Stale(b)}}
  <1>1. /\ assemblies' = r /\ excused' = excused \cup gone
        /\ reNow' = reNow /\ outputs' = outputs /\ arrived' = arrived
    BY DEF RePruneStale
  <1>2. /\ assemblies \in Seq(Assemblies) /\ Len(assemblies) <= MaxAssemblies /\ KeysDiffer(assemblies)
        /\ Len(assemblies) \in Nat /\ MaxAssemblies \in Nat
    BY ReConstants DEF ReInv, TableFits
  <1>3. /\ r \in Seq(Assemblies) /\ KeysDiffer(r) /\ Len(r) <= Len(assemblies)
        /\ \A n \in DOMAIN r : \E i \in I : r[n] = assemblies[i]
        /\ \A i \in I : \E n \in DOMAIN r : r[n] = assemblies[i]
    <2>1. I \in SUBSET (DOMAIN assemblies)
      OBVIOUS
    <2> HIDE DEF I
    <2> QED
      BY <1>2, <2>1, SubTable
  <1>a. I \subseteq DOMAIN assemblies
    OBVIOUS
  <1>4. \A i \in DOMAIN assemblies : i \notin I => Key(assemblies[i]) \in gone
    BY DEF Range
  <1>5. gone \subseteq {Key(f) : f \in Network}
    <2> SUFFICES ASSUME NEW i \in DOMAIN assemblies PROVE \E f \in Network : Key(assemblies[i]) = Key(f)
      BY DEF Range
    <2>1. Sound(assemblies[i]) /\ DOMAIN assemblies[i].chunks # {}
      BY DEF ReInv, TableFits, Within
    <2>2. PICK n \in DOMAIN assemblies[i].chunks : Carried(assemblies[i], n, assemblies[i].chunks[n])
      BY <2>1 DEF Sound
    <2> QED
      BY <2>2 DEF Carried, SameKey
  <1> HIDE DEF I, r, gone
  <1>6. ReTypes'
    BY <1>1, <1>5 DEF ReInv, ReTypes
  <1>7. TableFits'
    <2>1. \A n \in DOMAIN r : Sound(r[n]) /\ Within(r[n]) /\ r[n].at <= reNow
      BY <1>3, <1>a DEF ReInv, TableFits
    <2>2. Len(r) <= MaxAssemblies
      <3>1. Len(r) \in Nat
        BY <1>3
      <3> QED
        BY <1>2, <1>3, <3>1
    <2> QED
      BY <1>1, <1>3, <2>1, <2>2 DEF TableFits, Sound, Within, Carried, Complete, SameKey, KeysDiffer
  <1>8. OutputsAuthentic'
    BY <1>1 DEF ReInv, OutputsAuthentic
  <1>9. ASSUME NEW m \in Messages, Key(m) \notin excused'
        PROVE  /\ \A n \in DOMAIN assemblies' : Key(assemblies'[n]) = Key(m) => AgreesWith(assemblies'[n], m)
               /\ Returned(m) \in outputs' \/ \A g \in FragmentsOf(m) \cap arrived' : HeldIn(assemblies', g)
    <2>1. /\ \A i \in DOMAIN assemblies : Key(assemblies[i]) = Key(m) => AgreesWith(assemblies[i], m)
          /\ Returned(m) \in outputs \/ \A g \in FragmentsOf(m) \cap arrived : HeldIn(assemblies, g)
      BY <1>1, <1>9 DEF ReInv, NothingMissing
    <2>2. \A n \in DOMAIN assemblies' : Key(assemblies'[n]) = Key(m) => AgreesWith(assemblies'[n], m)
      BY <1>1, <1>3, <1>a, <2>1
    <2>3. ASSUME NEW g \in FragmentsOf(m), HeldIn(assemblies, g) PROVE HeldIn(assemblies', g)
      <3>1. PICK i \in DOMAIN assemblies : Key(assemblies[i]) = Key(g) /\ g.index \in DOMAIN assemblies[i].chunks
        BY <2>3 DEF HeldIn
      <3>2. Key(g) = Key(m)
        BY OwnFragments
      <3>3. i \in I
        BY <1>1, <1>4, <1>9, <3>1, <3>2
      <3> QED
        BY <1>1, <1>3, <3>1, <3>3 DEF HeldIn
    <2> QED
      BY <1>1, <2>1, <2>2, <2>3
  <1>10. NothingMissing'
    BY <1>9 DEF NothingMissing
  <1> QED
    BY <1>6, <1>7, <1>8, <1>10 DEF ReInv

LEMMA ReTickKeeps ==
  ASSUME ReInv, ReTick
  PROVE  ReInv'
  <1>1. /\ reNow' = reNow + 1 /\ reNow < ReMaxTime /\ assemblies' = assemblies /\ outputs' = outputs
        /\ arrived' = arrived /\ excused' = excused
    BY DEF ReTick
  <1>2. ReTypes'
    BY <1>1, ReConstants DEF ReInv, ReTypes
  <1>3. TableFits'
    <2>1. \A i \in DOMAIN assemblies : assemblies[i].at <= reNow + 1
      <3> TAKE i \in DOMAIN assemblies
      <3>1. assemblies[i].at <= reNow /\ assemblies[i] \in Assemblies
        BY DEF ReInv, TableFits
      <3>2. assemblies[i].at \in Nat /\ reNow \in Nat
        BY <3>1, ReConstants DEF Assemblies, ReInv, ReTypes
      <3> QED
        BY <3>1, <3>2
    <2> QED
      BY <1>1, <2>1 DEF ReInv, TableFits, Sound, Within, Carried, Complete, SameKey, KeysDiffer
  <1> QED
    BY <1>1, <1>2, <1>3 DEF ReInv, OutputsAuthentic, NothingMissing, HeldIn, AgreesWith

LEMMA ReStutterKeeps ==
  ASSUME ReInv, UNCHANGED reVars
  PROVE  ReInv'
  BY DEF reVars, ReInv, ReTypes, TableFits, Sound, Within, Carried, Complete, SameKey, KeysDiffer,
     OutputsAuthentic, NothingMissing, HeldIn, AgreesWith

\* What the invariant says of the states.
LEMMA ReInvMeans ==
  ASSUME ReInv
  PROVE  ReSafe
  <1>1. ReTypeOK
    <2> SUFFICES ASSUME NEW i \in DOMAIN assemblies
                 PROVE  /\ assemblies[i].at \in 0..reNow /\ assemblies[i].total \in 1..MaxFragments
                        /\ DOMAIN assemblies[i].chunks \subseteq 0..(assemblies[i].total - 1)
      BY DEF ReTypeOK, ReInv, ReTypes
    <2>1. assemblies[i] \in Assemblies /\ assemblies[i].at <= reNow /\ Sound(assemblies[i])
      BY DEF ReInv, TableFits
    <2> QED
      BY <2>1, ReConstants DEF Assemblies, Sound, ReInv, ReTypes
  <1>2. MemoryBounded
    BY DEF ReInv, TableFits, Within, MemoryBounded
  <1>3. NoSilentLoss
    <2> SUFFICES ASSUME NEW m \in Messages, FragmentsOf(m) \subseteq arrived, Key(m) \notin excused,
                        Returned(m) \notin outputs
                 PROVE  FALSE
      BY DEF NoSilentLoss
    <2>1. /\ \A i \in DOMAIN assemblies : Key(assemblies[i]) = Key(m) => AgreesWith(assemblies[i], m)
          /\ \A f \in FragmentsOf(m) : HeldIn(assemblies, f)
      BY DEF ReInv, NothingMissing
    <2> DEFINE c == Len(m.chunks)
    <2>2. c \in Nat /\ c >= 2
      BY ReConstants
    <2>3. PICK f1 \in FragmentsOf(m) : f1.index = 0
      <3>1. 1 \in 1..c /\ 1 - 1 = 0
        BY <2>2
      <3> QED
        BY <3>1, FragmentAt
    <2>4. PICK i \in DOMAIN assemblies : Key(assemblies[i]) = Key(m)
      BY <2>1, <2>3, OwnFragments DEF HeldIn
    <2> DEFINE a == assemblies[i]
    <2>5. /\ a.total = c /\ DOMAIN a.chunks \subseteq 0..(c - 1) /\ ~Complete(a) /\ KeysDiffer(assemblies)
      BY <2>1, <2>4 DEF ReInv, TableFits, AgreesWith, Sound, Within
    <2>6. \A k \in 0..(c - 1) : k \in DOMAIN a.chunks
      <3> TAKE k \in 0..(c - 1)
      <3>1. k + 1 \in 1..c /\ (k + 1) - 1 = k
        BY <2>2
      <3>2. PICK f \in FragmentsOf(m) : f.index = k
        BY <3>1, FragmentAt
      <3>3. PICK j \in DOMAIN assemblies : Key(assemblies[j]) = Key(f) /\ k \in DOMAIN assemblies[j].chunks
        BY <2>1, <3>2 DEF HeldIn
      <3>4. Key(f) = Key(m)
        BY OwnFragments
      <3>5. j = i
        BY <2>4, <2>5, <3>3, <3>4 DEF KeysDiffer
      <3> QED
        BY <3>3, <3>5
    <2>7. DOMAIN a.chunks = 0..(c - 1)
      BY <2>5, <2>6
    <2> DEFINE b == c - 1
    <2>8. b \in Int /\ ~(0 > b) /\ b - 0 + 1 = c
      BY <2>2
    <2> HIDE DEF b
    <2>9. Cardinality(0..b) = c
      BY <2>8, FS_Interval
    <2> QED
      BY <2>5, <2>7, <2>9 DEF Complete, b
  <1> QED
    BY <1>1, <1>2, <1>3 DEF ReSafe, ReInv

\* ReassemblySafety: ReSafe, for any packets and strays, in any order and however often.
THEOREM ReassemblySafety == ReSpec => []ReSafe
  <1>1. ReInit => ReInv
    <2> SUFFICES ASSUME ReInit PROVE ReInv
      OBVIOUS
    <2>1. reNow = 0 /\ assemblies = <<>> /\ outputs = {} /\ arrived = {} /\ excused = {}
      BY DEF ReInit
    <2>2. ReTypes
      BY <2>1, ReConstants DEF ReTypes
    <2>3. DOMAIN assemblies = {} /\ assemblies \in Seq(Assemblies) /\ Len(assemblies) = 0
      BY <2>1
    <2>4. TableFits
      BY <2>3, ReConstants DEF TableFits, KeysDiffer
    <2>5. NothingMissing
      BY <2>1, <2>3 DEF NothingMissing
    <2> QED
      BY <2>1, <2>2, <2>4, <2>5 DEF ReInv, OutputsAuthentic
  <1>2. ReInv /\ [ReNext]_reVars => ReInv'
    <2> SUFFICES ASSUME ReInv, [ReNext]_reVars PROVE ReInv'
      OBVIOUS
    <2>1. ASSUME NEW f \in Network, Arrive(f) PROVE ReInv'
      <3>1. Reject(f) \/ OpenAssembly(f) \/ JoinAssembly(f)
        BY <2>1 DEF Arrive
      <3> QED
        BY <2>1, <3>1, RejectKeeps, OpenKeeps, JoinKeeps
    <2> QED
      BY <2>1, PruneKeeps, ReTickKeeps, ReStutterKeeps DEF ReNext
  <1> QED
    BY <1>1, <1>2, ReInvMeans, PTL DEF ReSpec
=============================================================================
