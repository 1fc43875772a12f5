------------------------------ MODULE BleLinks ------------------------------
(***************************************************************************)
(* The links of a BLEManager (ble/manager.py) to one address: a table      *)
(* entry per address, and for each connect_peer a BLETransport with its    *)
(* receive worker (ble/transport.py) over a BLEConnection                  *)
(* (ble/connection.py).  A link's connect is cut at its three awaits       *)
(* (connect, gatt, notify) and, when it fails, where it closes the client  *)
(* (failing) and where the manager drops the entry (popping).  connect and *)
(* disconnect of one link exclude each other; links of one address do not, *)
(* and the table is cleared by address.                                    *)
(***************************************************************************)
EXTENDS Naturals, FiniteSets

CONSTANTS BleMaxLinks, \* bound: calls of connect_peer that make a link
          BleQueueMax  \* queue_max_size of the receive queue

ASSUME BleAssumption == BleMaxLinks \in Nat \ {0} /\ BleQueueMax \in Nat \ {0}

BleIds == 1..BleMaxLinks
BleDialling == {"connect", "gatt", "notify", "failing"}
BleUnborn == [at |-> "unborn", state |-> "DISCONNECTED", client |-> FALSE, run |-> FALSE,
              stop |-> "none", queue |-> 0]

VARIABLES
  bleEntry,   \* the link in _transports for the address, 0 if there is none
  links,      \* every link: where its connect stands, _state, is the client
              \* connected, does the worker run, its stop, its receive queue
  bleCrossed  \* history: was a link made while an earlier one was not over?
bleVars == <<bleEntry, links, bleCrossed>>

BleTypeOK ==
  /\ bleEntry \in 0..BleMaxLinks /\ bleCrossed \in BOOLEAN
  /\ links \in [BleIds -> [at : BleDialling \cup {"unborn", "popping", "up", "over"},
                           state : {"DISCONNECTED", "CONNECTING", "DISCOVERING_GATT", "SUBSCRIBING",
                                    "READY", "DISCONNECTING"},
                           client : BOOLEAN, run : BOOLEAN, stop : {"none", "lock", "clean", "done"},
                           queue : 0..BleQueueMax]]

BleInit == bleEntry = 0 /\ links = [k \in BleIds |-> BleUnborn] /\ bleCrossed = FALSE

\* is_ready.
IsReady(l) == l.state = "READY" /\ l.client
BleOver(l) == l.at \in {"unborn", "over"} \/ (l.at = "up" /\ l.stop = "done")

\* BLETransport.stop up to its first await: the worker ends, the queue is emptied.
StopBegun(l) == IF l.stop # "none" THEN l ELSE [l EXCEPT !.stop = "lock", !.run = FALSE, !.queue = 0]
StopOf(ls, k) == IF k = 0 THEN ls ELSE [ls EXCEPT ![k] = StopBegun(@)]

\* _on_disconnected and the manager's _handle_peer_disconnected: the entry of the
\* address is removed and its link stopped, whichever link it is.
Disconnected(ls, k) ==
  <<0, StopOf([ls EXCEPT ![k].client = FALSE, ![k].state = "DISCONNECTED"], bleEntry)>>

-----------------------------------------------------------------------------
\* connect_peer: a link that is ready is returned, any other is replaced.
BleConnect ==
  /\ bleEntry # 0 => ~IsReady(links[bleEntry])
  /\ \E k \in BleIds :
       /\ links[k].at = "unborn" /\ \A j \in BleIds : j < k => links[j].at # "unborn"
       /\ bleEntry' = k
       /\ links' = [links EXCEPT ![k].at = "connect", ![k].state = "CONNECTING", ![k].run = TRUE]
       /\ bleCrossed' = (bleCrossed \/ \E j \in BleIds : ~BleOver(links[j]))

\* BLEConnection.connect goes on: the client is connected, the GATT service
\* found, the notifications subscribed to.
BleDialStep(k) ==
  /\ \/ /\ links[k].at = "connect"
        /\ links' = [links EXCEPT ![k].at = "gatt", ![k].state = "DISCOVERING_GATT", ![k].client = TRUE]
     \/ /\ links[k].at = "gatt"
        /\ links' = [links EXCEPT ![k].at = "notify", ![k].state = "SUBSCRIBING"]
     \/ /\ links[k].at = "notify"
        /\ links' = [links EXCEPT ![k].at = "up", ![k].state = "READY"]
  /\ UNCHANGED <<bleEntry, bleCrossed>>

\* Any of the three fails: the client is closed if it was connected, the
\* transport stopped, and the entry of the address removed.
BleDialFails(k) ==
  /\ links[k].at \in {"connect", "gatt", "notify"}
  /\ links' = [links EXCEPT ![k].at = IF links[k].client THEN "failing" ELSE "popping",
                            ![k].state = IF links[k].client THEN "DISCONNECTING" ELSE "DISCONNECTED",
                            ![k].run = @ /\ links[k].client, ![k].queue = IF links[k].client THEN @ ELSE 0]
  /\ UNCHANGED <<bleEntry, bleCrossed>>

\* connect's own cleanup; a client that was lost meanwhile is closed already.
BleDialClosed(k) ==
  /\ links[k].at = "failing"
  /\ LET gone == IF links[k].client THEN Disconnected(links, k)
                 ELSE <<bleEntry, [links EXCEPT ![k].state = "DISCONNECTED"]>>
     IN  bleEntry' = gone[1] /\ links' = [gone[2] EXCEPT ![k].at = "popping", ![k].run = FALSE, ![k].queue = 0]
  /\ UNCHANGED bleCrossed

EntryKept == bleEntry
EntryPopped == 0
BleDialPops(k) ==
  /\ links[k].at = "popping" /\ bleEntry' = EntryPopped
  /\ links' = [links EXCEPT ![k].at = "over"]
  /\ UNCHANGED bleCrossed

\* disconnect_peer; shutdown and the halt task do the same for every address.
BleDisconnect ==
  /\ bleEntry # 0 /\ bleEntry' = 0 /\ links' = StopOf(links, bleEntry)
  /\ UNCHANGED bleCrossed

\* BLEConnection.disconnect once connect has released the lock, and its end.
StopForgetsClient(k) ==
  /\ links[k].stop = "lock" /\ links[k].at \notin BleDialling
  /\ links' = [links EXCEPT ![k].stop = "done", ![k].state = "DISCONNECTED"]
  /\ UNCHANGED <<bleEntry, bleCrossed>>
BleStopLocked(k) ==
  /\ links[k].stop = "lock" /\ links[k].at \notin BleDialling
  /\ links' = [links EXCEPT
       ![k].stop = IF links[k].state # "DISCONNECTED" /\ links[k].client THEN "clean" ELSE "done",
       ![k].state = IF links[k].state # "DISCONNECTED" /\ links[k].client THEN "DISCONNECTING"
                    ELSE "DISCONNECTED"]
  /\ UNCHANGED <<bleEntry, bleCrossed>>

BleStopEnds(k) ==
  /\ links[k].stop = "clean"
  /\ LET gone == IF links[k].client THEN Disconnected(links, k)
                 ELSE <<bleEntry, [links EXCEPT ![k].state = "DISCONNECTED"]>>
     IN  bleEntry' = gone[1] /\ links' = [gone[2] EXCEPT ![k].stop = "done"]
  /\ UNCHANGED bleCrossed

\* The peer leaves or the radio is lost.
BleDropped(k) ==
  /\ links[k].client
  /\ bleEntry' = Disconnected(links, k)[1] /\ links' = Disconnected(links, k)[2]
  /\ UNCHANGED bleCrossed

-----------------------------------------------------------------------------
\* _raw_notification_handler and _handle_incoming_notification: queued while the
\* connection is READY, dropped when the queue is full.
Queued(q) == IF q = BleQueueMax THEN q ELSE q + 1
BleNotified(k) ==
  /\ links[k].client /\ links[k].state = "READY"
  /\ links' = [links EXCEPT ![k].queue = Queued(@)]
  /\ UNCHANGED <<bleEntry, bleCrossed>>

\* _receive_worker takes one.
BleWorks(k) ==
  /\ links[k].run /\ links[k].queue > 0
  /\ links' = [links EXCEPT ![k].queue = @ - 1]
  /\ UNCHANGED <<bleEntry, bleCrossed>>

BleAwaited(k) == BleDialStep(k) \/ BleDialClosed(k) \/ BleDialPops(k) \/ BleStopLocked(k) \/ BleStopEnds(k)
BleNext ==
  \/ BleConnect \/ BleDisconnect
  \/ \E k \in BleIds : BleAwaited(k) \/ BleDialFails(k) \/ BleDropped(k) \/ BleNotified(k) \/ BleWorks(k)

\* Every await ends and every worker gets its turn.
BleFairness == \A k \in BleIds : WF_bleVars(BleAwaited(k)) /\ WF_bleVars(BleWorks(k))
BleSpec == BleInit /\ [][BleNext]_bleVars /\ BleFairness

-----------------------------------------------------------------------------
BleSettled == \A k \in BleIds : links[k].at \in {"unborn", "up", "over"} /\ links[k].stop \in {"none", "done"}

\* BleTracked: a link that is ready is the one in the table or is being
\* stopped, so that shutdown finds it, unless two connects to one address
\* overlapped.
BleTracked ==
  ~bleCrossed => \A k \in BleIds : IsReady(links[k]) => bleEntry = k \/ links[k].stop # "none"

\* BleEntriesReady: once nothing is in progress the entry in the table is a
\* link that is ready.
BleEntriesReady == BleSettled /\ ~bleCrossed /\ bleEntry # 0 => IsReady(links[bleEntry])

\* BleWorkersEnd: once nothing is in progress only the link in the table has a
\* receive worker: none is left of a connect that failed or a peer that left.
BleWorkersEnd == BleSettled /\ ~bleCrossed => \A k \in BleIds : links[k].run => bleEntry = k

\* BleClosed: a link whose stop was begun is closed in the end, also when it
\* came up only afterwards.
BleClosed == \A k \in BleIds : links[k].stop = "lock" ~> ~links[k].client

\* BleSafe: the table lists the link that is ready, and no other has a worker.
BleSafe == BleTypeOK /\ BleTracked /\ BleEntriesReady /\ BleWorkersEnd
=============================================================================
