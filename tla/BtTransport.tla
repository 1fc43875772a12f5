----------------------------- MODULE BtTransport -----------------------------
(***************************************************************************)
(* The Bluetooth transport of one node: BluetoothTransport                 *)
(* (transport/bluetooth.py) with the workers it starts and stops: the      *)
(* scanner, the GATT server, the adapter monitor and the peer links        *)
(* (ble/scanner.py, server.py, adapter.py, manager.py).  start and stop    *)
(* run under _start_lock; the halt task spawned when the adapter is lost,  *)
(* start_discovery and connect_peer do not.                                *)
(*                                                                         *)
(* A job is the sequence of awaits it has ahead of it.  Each await is a    *)
(* call of one worker made under that worker's own lock, so it is a step:  *)
(*   check  check_adapter      mon    start_monitoring   unmon  its stop   *)
(*   serve  server.start       unserve its stop                            *)
(*   scan   scanner.start      unscan its stop                             *)
(*   gather the halt task stop cancelled     links  every peer link closed *)
(***************************************************************************)
EXTENDS Naturals, Sequences

CONSTANTS
  BtRoleSets,   \* the roles an adapter may support: sets of "central", "peripheral"
  BtMaxFlips,   \* bound: times the radio changes
  BtMaxOps      \* bound: starts, stops, scans, dials and cancellations

ASSUME BtAssumption ==
  BtRoleSets \subseteq SUBSET {"central", "peripheral"} /\ {BtMaxFlips, BtMaxOps} \subseteq Nat

BtRadios == {"on", "off", "gone"}
BtDown == {"UNAVAILABLE", "DISABLED", "OFFLINE", "ERROR"}
BtModes == BtDown \cup {"CHECKING", "SCANNING", "PEER_FOUND", "READY", "CONNECTING", "CONNECTED"}
BtSteps == {"check", "mon", "unmon", "serve", "unserve", "scan", "unscan", "gather", "links"}
BtNoJob == [kind |-> "none", todo |-> <<>>]
BtJob(kind, todo) == [kind |-> kind, todo |-> todo]

VARIABLES
  btRunning, btMode,    \* _is_running, _state
  roles,                \* _central_supported and _peripheral_supported
  scanning, onAir,      \* scanner._is_scanning; is the radio scanning?
  advertising,          \* ble_server._is_advertising
  btMonitoring,         \* adapter_manager._is_monitoring
  radio, radioSeen,     \* the adapter, and adapter_manager._current_info
  btApi, btHalt, btFind,\* the job under _start_lock, _halt_task, a start_discovery
  link,                 \* a peer link: none, dialling, live; doomed, closing once
                        \* it is out of the manager's table
  btWanted,             \* history: was the last call a start or a scan, not a stop?
  btMishaps,            \* history: how jobs came into each other's way
  btFlips, btOps

btVars == <<btRunning, btMode, roles, scanning, onAir, advertising, btMonitoring, radio,
            radioSeen, btApi, btHalt, btFind, link, btWanted, btMishaps, btFlips, btOps>>
btWorkers == <<roles, scanning, onAir, advertising, btMonitoring>>
btHost == <<radio, radioSeen>>

BtTypeOK ==
  /\ btRunning \in BOOLEAN /\ btMode \in BtModes /\ roles \subseteq {"central", "peripheral"}
  /\ {scanning, onAir, advertising, btMonitoring, btWanted} \subseteq BOOLEAN
  /\ radio \in BtRadios /\ radioSeen \in BtRadios
  /\ \A job \in {btApi, btHalt, btFind} :
       /\ job.kind \in {"none", "start", "scanfail", "release", "stop", "halt", "find"}
       /\ Len(job.todo) <= 5 /\ \A i \in 1..Len(job.todo) : job.todo[i] \in BtSteps
       /\ job.kind = "none" <=> job.todo = <<>>
  /\ link \in {"none", "dialling", "live", "doomed", "closing"}
  /\ btMishaps \subseteq {"lost", "scan", "cut", "late"}
  /\ btFlips \in 0..BtMaxFlips /\ btOps \in 0..BtMaxOps

BtInit ==
  /\ btRunning = FALSE /\ btMode = "OFFLINE" /\ roles = {}
  /\ scanning = FALSE /\ onAir = FALSE /\ advertising = FALSE /\ btMonitoring = FALSE
  /\ radio \in BtRadios /\ radioSeen = "gone"
  /\ btApi = BtNoJob /\ btHalt = BtNoJob /\ btFind = BtNoJob /\ link = "none"
  /\ btWanted = FALSE /\ btMishaps = {} /\ btFlips = 0 /\ btOps = 0

BtAt(job) == IF job.todo = <<>> THEN "none" ELSE Head(job.todo)
BtNextOf(job) == IF Len(job.todo) <= 1 THEN BtNoJob ELSE [job EXCEPT !.todo = Tail(@)]
BtLockFree == btApi = BtNoJob
BtIdle == btApi = BtNoJob /\ btHalt = BtNoJob /\ btFind = BtNoJob

\* The state once no peer is connected, whatever it was.
BtRest == IF scanning THEN "SCANNING" ELSE "READY"

\* A scan asked for is still in progress; a link changes a state not its own.
Crossed == IF btFind = BtNoJob THEN {} ELSE {"scan"}
Late == IF btMode \in BtDown \cup {"CHECKING"} THEN {"late"} ELSE {}

-----------------------------------------------------------------------------
\* The workers' own calls.  A scanner and an advertisement start only while
\* the radio is on, and may fail even then.
ScannerStopped == scanning' = FALSE /\ onAir' = (onAir /\ ~scanning)

\* Clearing the manager's table before its links are stopped.
LinkDropped == link' = CASE link = "live" -> "closing" [] link = "dialling" -> "doomed" [] OTHER -> link

\* start's handler for every exception: running is cleared, then three stops.
BtRelease == BtJob("release", <<"unmon", "unscan", "unserve">>)

\* start, up to its first await.
BtStart ==
  /\ BtLockFree /\ ~btRunning
  /\ btRunning' = TRUE /\ btMode' = "CHECKING" /\ btWanted' = TRUE
  /\ btApi' = BtJob("start", <<"check", "mon", "serve", "scan">>)
  /\ btMishaps' = btMishaps \cup Crossed \cup (IF btHalt = BtNoJob /\ link = "none" THEN {} ELSE {"late"})
  /\ UNCHANGED <<btWorkers, btHost, btHalt, btFind, link>>

\* check_adapter has answered: no adapter and a radio switched off end start.
BtChecked ==
  /\ BtAt(btApi) = "check" /\ radioSeen' = radio
  /\ IF radio = "on"
     THEN btApi' = BtNextOf(btApi) /\ UNCHANGED <<btRunning, btMode>>
     ELSE /\ btApi' = BtRelease /\ btRunning' = FALSE
          /\ btMode' = IF radio = "gone" THEN "UNAVAILABLE" ELSE "DISABLED"
  /\ UNCHANGED <<btWorkers, radio, btHalt, btFind, link, btWanted, btMishaps>>

\* start_monitoring is through (it checks the adapter once more when it begins
\* to poll); the roles of the adapter decide what start does next.
BtMonitored ==
  /\ BtAt(btApi) = "mon"
  /\ btMonitoring' = TRUE /\ radioSeen' = IF btMonitoring THEN radioSeen ELSE radio
  /\ roles' \in BtRoleSets
  /\ IF roles' = {}
     THEN btApi' = BtRelease /\ btRunning' = FALSE /\ btMode' = "ERROR"
     ELSE /\ btApi' = BtJob("start", (IF "peripheral" \in roles' THEN <<"serve">> ELSE <<>>)
                                 \o (IF "central" \in roles' THEN <<"scan">> ELSE <<>>))
          /\ UNCHANGED <<btRunning, btMode>>
  /\ UNCHANGED <<scanning, onAir, advertising, radio, btHalt, btFind, link, btWanted, btMishaps>>

\* start's end once it has no await left: without a worker it is a failure.
BtStartEnds(scans, serves, mode) ==
  IF scans \/ serves
  THEN /\ btApi' = BtNoJob /\ UNCHANGED btRunning
       /\ btMode' = IF "central" \in roles THEN mode ELSE "READY"
  ELSE btApi' = BtRelease /\ btRunning' = FALSE /\ btMode' = "ERROR"

\* ble_server.start: advertising, or a failure start only warns of.
BtServed ==
  /\ BtAt(btApi) = "serve"
  /\ advertising' \in {advertising, radio = "on"}
  /\ IF Len(btApi.todo) = 1
     THEN BtStartEnds(scanning, advertising', btMode)
     ELSE btApi' = BtNextOf(btApi) /\ UNCHANGED <<btRunning, btMode>>
  /\ UNCHANGED <<roles, scanning, onAir, btMonitoring, btHost, btHalt, btFind, link, btWanted, btMishaps>>

\* manager.start_discovery, for start and for a /scan of the user.
BtScanned ==
  /\ scanning \/ radio = "on"
  /\ scanning' = TRUE /\ onAir' = TRUE /\ btMode' = "SCANNING"
  /\ \/ BtAt(btApi) = "scan" /\ btApi' = BtNoJob /\ UNCHANGED btFind
     \/ BtAt(btFind) = "scan" /\ btFind' = BtNoJob /\ UNCHANGED btApi
  /\ UNCHANGED <<btRunning, roles, advertising, btMonitoring, btHost, btHalt, link, btWanted, btMishaps>>

BtScanFails ==
  /\ ~scanning
  /\ \/ /\ BtAt(btApi) = "scan" /\ UNCHANGED btFind
        /\ IF advertising
           THEN btApi' = BtJob("scanfail", <<"unserve">>) /\ UNCHANGED <<btRunning, btMode>>
           ELSE btApi' = BtRelease /\ btRunning' = FALSE /\ btMode' = "ERROR"
     \/ /\ BtAt(btFind) = "scan" /\ btFind' = BtNoJob
        /\ UNCHANGED <<btApi, btRunning, btMode>>
  /\ UNCHANGED <<btWorkers, btHost, btHalt, link, btWanted, btMishaps>>

\* The coordinator's retry cancels a start that takes too long.  A scanner
\* start that is cancelled leaves its flag down whatever the radio does.
BtStartCancelled ==
  /\ btApi.kind = "start"
  /\ btApi' = BtRelease /\ btRunning' = FALSE
  /\ IF BtAt(btApi) = "scan" /\ ~scanning
     THEN onAir' \in {onAir, radio = "on"} /\ btMishaps' = btMishaps \cup {"cut"}
     ELSE UNCHANGED <<onAir, btMishaps>>
  /\ UNCHANGED <<btMode, roles, scanning, advertising, btMonitoring, btHost, btHalt, btFind, link, btWanted>>

-----------------------------------------------------------------------------
\* stop: the halt task is cancelled and awaited, the state is OFFLINE, and
\* manager.shutdown and server.stop follow.
ShutdownServing == <<"unmon", "unscan", "links">>
BtShutdown == <<"unmon", "unscan", "links", "unserve">>
BtStop ==
  /\ BtLockFree
  /\ btRunning' = FALSE /\ btWanted' = FALSE
  /\ IF btHalt = BtNoJob
     THEN /\ btMode' = "OFFLINE" /\ btApi' = BtJob("stop", BtShutdown)
          /\ btMishaps' = btMishaps \cup Crossed
     ELSE /\ btApi' = BtJob("stop", <<"gather">> \o BtShutdown) /\ UNCHANGED btMode
          /\ btMishaps' = btMishaps \cup Crossed \cup {"cut"}
  /\ UNCHANGED <<btWorkers, btHost, btHalt, btFind, link>>

\* The halt task ends where the cancellation finds it: the scanner's flag is
\* lowered on the way out, the server's is not.
BtGathered ==
  /\ BtAt(btApi) = "gather"
  /\ btHalt' = BtNoJob /\ btMode' = "OFFLINE" /\ btApi' = BtNextOf(btApi)
  /\ IF BtAt(btHalt) = "unscan" /\ scanning
     THEN scanning' = FALSE /\ onAir' \in {FALSE, onAir}
     ELSE UNCHANGED <<scanning, onAir>>
  /\ UNCHANGED <<btRunning, roles, advertising, btMonitoring, btHost, btFind, link, btWanted, btMishaps>>

\* A stop of one worker, for the job under the lock.
BtApiStops ==
  /\ \/ /\ BtAt(btApi) = "unmon" /\ btMonitoring' = FALSE
        /\ UNCHANGED <<scanning, onAir, advertising, link>>
     \/ /\ BtAt(btApi) = "unscan" /\ ScannerStopped
        /\ IF btApi.kind = "stop" THEN LinkDropped ELSE UNCHANGED link
        /\ UNCHANGED <<btMonitoring, advertising>>
     \/ /\ BtAt(btApi) = "links" /\ link \notin {"doomed", "closing"}
        /\ UNCHANGED <<btMonitoring, scanning, onAir, advertising, link>>
     \/ /\ BtAt(btApi) = "unserve" /\ advertising' = FALSE
        /\ UNCHANGED <<btMonitoring, scanning, onAir, link>>
  /\ IF btApi.kind = "scanfail"
     THEN btApi' = BtRelease /\ btRunning' = FALSE /\ btMode' = "ERROR"
     ELSE btApi' = BtNextOf(btApi) /\ UNCHANGED <<btRunning, btMode>>
  /\ UNCHANGED <<roles, btHost, btHalt, btFind, btWanted, btMishaps>>

\* The same for the halt task.
BtHaltStops ==
  /\ BtAt(btApi) # "gather"
  /\ \/ BtAt(btHalt) = "unscan" /\ ScannerStopped /\ LinkDropped /\ UNCHANGED advertising
     \/ /\ BtAt(btHalt) = "links" /\ link \notin {"doomed", "closing"}
        /\ UNCHANGED <<scanning, onAir, advertising, link>>
     \/ BtAt(btHalt) = "unserve" /\ advertising' = FALSE /\ UNCHANGED <<scanning, onAir, link>>
  /\ btHalt' = BtNextOf(btHalt)
  /\ UNCHANGED <<btRunning, btMode, roles, btMonitoring, btHost, btApi, btFind, btWanted, btMishaps>>

-----------------------------------------------------------------------------
\* The host's radio, and the poll (or radio event) that notices it.
RadioFlip ==
  /\ btFlips < BtMaxFlips /\ btFlips' = btFlips + 1
  /\ \E r \in BtRadios \ {radio} : radio' = r
  /\ UNCHANGED <<btRunning, btMode, btWorkers, radioSeen, btApi, btHalt, btFind, link, btWanted, btMishaps, btOps>>

\* _schedule_halt: one halt task at a time.
HaltNever == btHalt
ScheduleHalt ==
  IF btHalt = BtNoJob THEN BtJob("halt", <<"unscan", "links", "unserve">>) ELSE btHalt

\* _poll_loop and _handle_adapter_state_changed: losing the adapter ends it all,
\* its return changes nothing.
BtPoll ==
  /\ btMonitoring /\ radioSeen # radio /\ radioSeen' = radio
  /\ IF radio = "on" THEN UNCHANGED <<btRunning, btMode, btHalt, btMishaps>>
     ELSE /\ btMode' = IF radio = "off" THEN "DISABLED" ELSE "UNAVAILABLE"
          /\ btRunning' = FALSE /\ btHalt' = ScheduleHalt
          /\ btMishaps' = btMishaps \cup Crossed \cup (IF BtLockFree THEN {} ELSE {"lost"})
  /\ UNCHANGED <<btWorkers, radio, btApi, btFind, link, btWanted, btFlips, btOps>>

-----------------------------------------------------------------------------
\* start_discovery, which the /scan command calls in every state; while the
\* scanner scans and nobody holds its lock, it returns at once.
ScannerBusy == \E job \in {btApi, btHalt} : BtAt(job) \in {"scan", "unscan"}
BtFind ==
  /\ btFind = BtNoJob /\ "central" \in roles /\ btWanted' = TRUE
  /\ IF scanning /\ ~ScannerBusy
     THEN btMode' = "SCANNING" /\ UNCHANGED btFind
     ELSE btFind' = BtJob("find", <<"scan">>) /\ UNCHANGED btMode
  /\ btMishaps' = btMishaps \cup (IF btRunning /\ BtIdle THEN {} ELSE {"scan"})
  /\ UNCHANGED <<btRunning, btWorkers, btHost, btApi, btHalt, link>>

\* _handle_peer_discovered.
BtPeerFound ==
  /\ onAir /\ btMode = "SCANNING" /\ btMode' = "PEER_FOUND"
  /\ UNCHANGED <<btRunning, btWorkers, btHost, btApi, btHalt, btFind, link, btWanted, btMishaps>>

\* connect_peer up to its await; the link it makes may come up, fail or end.
DialAllowed == btMode \notin BtDown
BtDial ==
  /\ link = "none" /\ DialAllowed
  /\ link' = "dialling" /\ btMode' = "CONNECTING" /\ btMishaps' = btMishaps \cup Late
  /\ UNCHANGED <<btRunning, btWorkers, btHost, btApi, btHalt, btFind, btWanted>>

BtDialled ==
  /\ \/ link = "dialling" /\ link' = "live"
     \/ link = "doomed" /\ link' = "closing"
  /\ btMode' = "CONNECTED"
  /\ btMishaps' = btMishaps \cup Late
  /\ UNCHANGED <<btRunning, btWorkers, btHost, btApi, btHalt, btFind, btWanted>>

\* The dial fails, the peer leaves, or the link is closed: the state is that of
\* a transport without peers, whatever it was.
BtLinkGone ==
  /\ link # "none" /\ link' = "none" /\ btMode' = BtRest
  /\ btMishaps' = btMishaps \cup Late
  /\ UNCHANGED <<btRunning, btWorkers, btHost, btApi, btHalt, btFind, btWanted>>

BtCounted(A) == A /\ btOps < BtMaxOps /\ btOps' = btOps + 1 /\ UNCHANGED btFlips
BtUncounted(A) == A /\ UNCHANGED <<btFlips, btOps>>

BtSteps1 ==
  BtChecked \/ BtMonitored \/ BtServed \/ BtScanned \/ BtScanFails
  \/ BtGathered \/ BtApiStops \/ BtHaltStops
BtGoesOn == BtUncounted(BtSteps1)
BtLinkEnds == BtUncounted(BtLinkGone)

BtNext ==
  \/ BtCounted(BtStart \/ BtStop \/ BtFind \/ BtDial \/ BtStartCancelled)
  \/ BtGoesOn \/ BtPoll \/ RadioFlip \/ BtLinkEnds
  \/ BtUncounted(BtPeerFound) \/ BtUncounted(BtDialled)

\* The event loop runs what can run, the monitor polls, and a link that is
\* being closed or dialled (with its timeout) ends.
BtFairness ==
  /\ WF_btVars(BtGoesOn) /\ WF_btVars(BtPoll)
  /\ WF_btVars(link \in {"doomed", "closing"} /\ BtLinkEnds)
BtSpec == BtInit /\ [][BtNext]_btVars /\ BtFairness

-----------------------------------------------------------------------------
\* BtReleased: "Stop BLE server, discovery scanner, and disconnect all peers"
\* (bluetooth.py:422): after a stop nothing of Bluetooth is left, the radio does
\* not scan either, unless a halt or a start was cut or a scan was asked for
\* behind its back; no peer is linked, unless the end of a late dial had made the
\* stopped transport look ready for another.
BtReleased ==
  BtIdle /\ ~btWanted /\ btMishaps \cap {"cut", "scan"} = {} =>
    /\ ~btRunning /\ ~scanning /\ ~onAir /\ ~advertising /\ ~btMonitoring
    /\ "late" \in btMishaps \/ link = "none"

\* BtFailedStart: a start that raises leaves no worker behind.
BtFailedStart ==
  [][btApi.kind = "release" /\ btApi' = BtNoJob /\ btMishaps \cap {"cut", "scan"} = {}
     => ~scanning' /\ ~onAir' /\ ~advertising' /\ ~btMonitoring']_btVars

\* BtModeTrue: a transport at rest that says it scans does, and one that claims
\* to work was started, unless a link's end overwrote the state or the adapter
\* was lost under another call.
BtWorks == btMode \notin BtDown \cup {"CHECKING"}
BtModeTrue ==
  BtIdle /\ btMishaps = {} =>
    (btMode \in {"SCANNING", "PEER_FOUND"} => scanning) /\ (BtWorks => btRunning)

\* BtLossHalts: an adapter that is gone for good, and watched, has its workers
\* stopped, unless it went while another call was in progress.
BtLossHalts ==
  []<>(\/ radio = "on" \/ ~btMonitoring \/ "lost" \in btMishaps \/ "scan" \in btMishaps
       \/ ~scanning /\ ~advertising)

\* BtSafe: after a stop nothing of Bluetooth is left, and a transport at rest is in
\* the mode it says it is in.
BtSafe == BtTypeOK /\ BtReleased /\ BtModeTrue

\* BtSettles: a failed start leaves no worker behind, and the loss of the adapter
\* stops them.
BtSettles == BtFailedStart /\ BtLossHalts
=============================================================================
