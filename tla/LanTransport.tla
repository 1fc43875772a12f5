---------------------------- MODULE LanTransport ----------------------------
(***************************************************************************)
(* The services of one LAN node: LANTransport (network/transport.py) with  *)
(* its TCP server, its UDP discovery and its network monitor (server.py,   *)
(* discovery.py, adapter.py).  start and stop run under a lock; the tasks  *)
(* that pause and resume the services when the network goes and comes do   *)
(* not, and stop cancels them.  A job is cut where it awaits:              *)
(*   new     the task has not run yet       bind   asyncio.start_server    *)
(*   quit    discovery.stop, its loops      drain  server.stop, its clients*)
(*   close   server.stop, wait_closed       gather stop, cancelled tasks   *)
(***************************************************************************)
EXTENDS Integers, FiniteSets

CONSTANTS
  LanTasks,       \* background tasks that may exist at once
  LanMaxSockets,  \* bound: listening sockets opened
  LanMaxFlips,    \* bound: times the network goes or comes
  LanMaxOps       \* bound: starts, stops, scans, dials and faults

ASSUME LanAssumption ==
  /\ "api" \notin LanTasks
  /\ {LanMaxSockets, LanMaxFlips, LanMaxOps} \subseteq Nat

LanJobs == LanTasks \cup {"api"}
LanModes == {"OFFLINE", "CHECKING", "UNAVAILABLE", "ERROR", "SCANNING", "READY",
             "CONNECTING", "CONNECTED"}
NoJob == [kind |-> "none", at |-> "done"]

VARIABLES
  lanRunning,     \* _is_running
  lanMode,        \* _state
  svc,            \* server and discovery: flags, sockets, accepted clients
  jobs,           \* the call holding _lock ("api") and the background tasks
  dialled,        \* the connection dialled: none, dialling, live; unlisted, stray
                  \* once stop has cleared the table it was listed in
  monitoring,     \* is the adapter polled?
  netUp, netSeen, \* the host's network, and current_info.is_connected
  lanWanted,      \* history: was the last call a start or scan, not a stop?
  lanMishaps,     \* history: how jobs came into each other's way
  lanFlips, lanOps

lanVars == <<lanRunning, lanMode, svc, jobs, dialled, monitoring, netUp, netSeen,
             lanWanted, lanMishaps, lanFlips, lanOps>>

LanTypeOK ==
  /\ lanRunning \in BOOLEAN /\ lanMode \in LanModes /\ monitoring \in BOOLEAN
  /\ svc \in [listening : BOOLEAN, server : 0..LanMaxSockets, open : SUBSET (1..LanMaxSockets),
              discovering : BOOLEAN, udp : BOOLEAN, clients : BOOLEAN, made : 0..LanMaxSockets]
  /\ jobs \in [LanJobs -> [kind : {"none", "start", "release", "stop", "pause", "resume", "held"},
                           at : {"done", "new", "bind", "quit", "drain", "close", "gather"}]]
  /\ dialled \in {"none", "dialling", "live", "unlisted", "stray"}
  /\ netUp \in BOOLEAN /\ netSeen \in BOOLEAN
  /\ lanWanted \in BOOLEAN /\ lanMishaps \subseteq {"cut", "overlap", "masked", "late", "scan", "bind"}
  /\ lanFlips \in 0..LanMaxFlips /\ lanOps \in 0..LanMaxOps
  \* Discovery's socket is open while it runs or is being stopped.
  /\ svc.udp => svc.discovering \/ \E j \in LanJobs : jobs[j].at = "quit"

LanInit ==
  /\ lanRunning = FALSE /\ lanMode = "OFFLINE" /\ monitoring = FALSE /\ dialled = "none"
  /\ svc = [listening |-> FALSE, server |-> 0, open |-> {}, discovering |-> FALSE,
            udp |-> FALSE, clients |-> FALSE, made |-> 0]
  /\ jobs = [j \in LanJobs |-> NoJob]
  /\ netUp \in BOOLEAN /\ netSeen = netUp
  /\ lanWanted = FALSE /\ lanMishaps = {} /\ lanFlips = 0 /\ lanOps = 0

-----------------------------------------------------------------------------
\* What a job does to the services up to its next await: the services, and
\* where the job then stands.
SocketClosed(s) == [s EXCEPT !.open = @ \ {s.server}]

ServerStop(s) ==
  IF ~s.listening THEN <<s, "done">>
  ELSE IF s.clients THEN <<[s EXCEPT !.listening = FALSE, !.clients = FALSE], "drain">>
  ELSE <<SocketClosed([s EXCEPT !.listening = FALSE]), "close">>

ServicesStop(s) ==
  IF s.discovering THEN <<[s EXCEPT !.discovering = FALSE], "quit">> ELSE ServerStop(s)

\* What follows each of the awaits of discovery.stop and server.stop.
KeepSocket(s, at) ==
  CASE at = "quit"  -> ServerStop([s EXCEPT !.udp = FALSE])
    [] at = "drain" -> <<[s EXCEPT !.server = 0], "done">>
    [] at = "close" -> <<[s EXCEPT !.server = 0], "done">>
StopGoesOn(s, at) ==
  CASE at = "quit"  -> ServerStop([s EXCEPT !.udp = FALSE])
    [] at = "drain" -> IF s.server = 0 THEN <<s, "done">> ELSE <<SocketClosed(s), "close">>
    [] at = "close" -> <<[s EXCEPT !.server = 0], "done">>

\* server.start after its await, and discovery.start, which has none.
ServerUp(s) ==
  [s EXCEPT !.listening = TRUE, !.server = s.made + 1, !.made = @ + 1,
            !.open = @ \cup {s.made + 1}]
DiscoveryUp(s) == IF s.discovering THEN s ELSE [s EXCEPT !.discovering = TRUE, !.udp = TRUE]

\* Jobs inside discovery or server calls, which another now enters.
Inside == {j \in LanJobs : jobs[j].at \in {"bind", "quit", "drain", "close"}}
Overlap == IF Inside # {} THEN {"overlap"} ELSE {}

JobAt(j, kind, at) == [jobs EXCEPT ![j] = IF at = "done" THEN NoJob ELSE [kind |-> kind, at |-> at]]
LockFree == jobs["api"] = NoJob
LanIdle == \A j \in LanJobs : jobs[j] = NoJob

\* _handle_peer_disconnected and its like: the state once nobody is connected,
\* whatever the state was.
RestMode(s) == IF s.discovering THEN "SCANNING" ELSE "READY"
Masks == IF lanMode \in {"UNAVAILABLE", "ERROR", "OFFLINE"} THEN {"masked"} ELSE {}

-----------------------------------------------------------------------------
\* start, on a transport that is not running.
LanStartNoNetwork ==
  /\ LockFree /\ ~lanRunning /\ ~netUp
  /\ netSeen' = FALSE /\ monitoring' = TRUE /\ lanMode' = "UNAVAILABLE" /\ lanWanted' = TRUE
  /\ UNCHANGED <<lanRunning, svc, jobs, dialled, netUp, lanMishaps>>

LanStart ==
  /\ LockFree /\ ~lanRunning /\ netUp
  /\ lanRunning' = TRUE /\ netSeen' = TRUE /\ lanWanted' = TRUE
  /\ IF svc.listening
     THEN /\ svc' = DiscoveryUp(svc) /\ monitoring' = TRUE /\ lanMode' = "SCANNING"
          /\ UNCHANGED jobs
     ELSE /\ jobs' = JobAt("api", "start", "bind") /\ lanMode' = "CHECKING"
          /\ UNCHANGED <<svc, monitoring>>
  /\ lanMishaps' = lanMishaps \cup Overlap
  /\ UNCHANGED <<dialled, netUp>>

\* start and _resume_lan_services go on when the server has bound its port.
LanBound(j) ==
  /\ jobs[j].at = "bind" /\ svc.made < LanMaxSockets
  /\ svc' = DiscoveryUp(ServerUp(svc))
  /\ lanMode' = "SCANNING" /\ lanRunning' = (lanRunning \/ jobs[j].kind = "resume")
  /\ IF jobs[j].kind = "start" /\ ~monitoring
     THEN monitoring' = TRUE /\ netSeen' = netUp
     ELSE UNCHANGED <<monitoring, netSeen>>
  /\ jobs' = [jobs EXCEPT ![j] = NoJob]
  /\ UNCHANGED <<dialled, netUp, lanWanted, lanMishaps>>

\* Neither port can be bound, or the server's can and discovery's cannot:
\* start releases what it has brought up, _resume_lan_services does not.
Released(j, s) == IF jobs[j].kind = "start" THEN ServicesStop(s) ELSE <<s, "done">>
LanBindFails(j) ==
  /\ jobs[j].at = "bind"
  /\ \E s \in {svc} \cup (IF svc.made < LanMaxSockets /\ ~svc.discovering THEN {ServerUp(svc)} ELSE {}) :
       LET next == Released(j, s)
       IN  /\ svc' = next[1]
           /\ jobs' = JobAt(j, "release", next[2])
           /\ lanMode' = IF next[2] = "done" THEN "ERROR" ELSE lanMode
  /\ lanRunning' = (lanRunning /\ jobs[j].kind # "start")
  /\ lanMishaps' = lanMishaps \cup {"bind"}
  /\ UNCHANGED <<dialled, monitoring, netUp, netSeen, lanWanted>>

\* stop: the tasks it cancels end where they are, except in discovery.stop,
\* which takes the cancellation for that of the loop it waits for.
Cancelled(js) ==
  [j \in LanJobs |-> IF j # "api" /\ js[j].at # "quit" THEN NoJob
                     ELSE IF j = "api" THEN [kind |-> "stop", at |-> "gather"]
                     ELSE [kind |-> "held", at |-> "quit"]]
LanStop ==
  /\ LockFree
  /\ lanRunning' = FALSE /\ lanMode' = "OFFLINE" /\ lanWanted' = FALSE
  /\ jobs' = Cancelled(jobs)
  /\ lanMishaps' = lanMishaps
       \cup (IF \E j \in LanTasks : jobs[j].kind = "pause" /\ jobs[j].at = "drain"
             THEN {"cut"} ELSE {})
  /\ UNCHANGED <<svc, dialled, monitoring, netUp, netSeen>>

\* Where stop is done with the services it clears the tables, under the lock,
\* and closes the connections that were in them.
StopCleared(at) ==
  IF at # "done" \/ dialled \in {"none", "unlisted", "stray"} THEN UNCHANGED <<dialled, lanMode, lanMishaps>>
  ELSE IF dialled = "dialling" THEN dialled' = "unlisted" /\ UNCHANGED <<lanMode, lanMishaps>>
  ELSE dialled' = "none" /\ lanMode' = RestMode(svc') /\ lanMishaps' = lanMishaps \cup Masks

LanStopGathered ==
  LET next == ServicesStop(svc)
  IN  /\ jobs["api"].at = "gather" /\ \A j \in LanTasks : jobs[j].kind # "held"
      /\ monitoring' = FALSE /\ svc' = next[1]
      /\ jobs' = JobAt("api", "stop", next[2])
      /\ StopCleared(next[2])
      /\ UNCHANGED <<lanRunning, netUp, netSeen, lanWanted>>

\* A step of discovery.stop or server.stop, for whoever called them.  The
\* clients it drains report that they are gone.
LanStopStep(j) ==
  LET next == StopGoesOn(svc, jobs[j].at)
      kind == jobs[j].kind
  IN  /\ jobs[j].at \in {"quit", "drain", "close"}
      /\ svc' = next[1]
      /\ jobs' = JobAt(j, kind, next[2])
      /\ CASE kind = "stop" /\ jobs[j].at # "drain" -> StopCleared(next[2])
           [] kind = "release" /\ next[2] = "done" ->
                lanMode' = "ERROR" /\ UNCHANGED <<dialled, lanMishaps>>
           [] jobs[j].at = "drain" /\ dialled # "live" /\ (kind = "release" => next[2] # "done") ->
                /\ lanMode' = RestMode(svc) /\ lanMishaps' = lanMishaps \cup Masks
                /\ UNCHANGED dialled
           [] OTHER -> UNCHANGED <<lanMode, dialled, lanMishaps>>
      /\ UNCHANGED <<lanRunning, monitoring, netUp, netSeen, lanWanted>>

-----------------------------------------------------------------------------
\* The host's network, the poll that notices, and the tasks it spawns.
NetFlip ==
  /\ netUp' = ~netUp /\ lanFlips < LanMaxFlips /\ lanFlips' = lanFlips + 1
  /\ UNCHANGED <<lanRunning, lanMode, svc, jobs, dialled, monitoring, netSeen, lanWanted, lanMishaps, lanOps>>

\* The task of an earlier poll, seconds ago, has started by now.
Spawn(kind) ==
  /\ \A j \in LanTasks : jobs[j].at # "new"
  /\ \E j \in LanTasks : jobs[j] = NoJob /\ jobs' = [jobs EXCEPT ![j] = [kind |-> kind, at |-> "new"]]

ResumeNever(mode) == FALSE
ResumeFrom(mode) == mode \in {"UNAVAILABLE", "ERROR"}

\* _poll_loop and _handle_network_changed.
LanPoll ==
  /\ monitoring /\ netSeen # netUp /\ netSeen' = netUp
  /\ lanMishaps' = lanMishaps \cup
       (IF ~LanIdle /\ lanMode # "OFFLINE" THEN {"late"} ELSE {})
  /\ \/ /\ ~lanRunning /\ lanMode = "OFFLINE" /\ UNCHANGED <<jobs, lanMode>>
     \/ /\ lanRunning \/ lanMode # "OFFLINE"
        /\ ~netUp /\ lanMode' = "UNAVAILABLE" /\ Spawn("pause")
     \/ /\ lanRunning \/ lanMode # "OFFLINE"
        /\ netUp /\ UNCHANGED lanMode
        /\ IF ResumeFrom(lanMode) THEN Spawn("resume") ELSE UNCHANGED jobs
  /\ UNCHANGED <<lanRunning, svc, dialled, monitoring, netUp, lanWanted, lanFlips, lanOps>>

LanPauseBegins(j) ==
  LET next == ServicesStop(svc)
  IN  /\ jobs[j] = [kind |-> "pause", at |-> "new"]
      /\ svc' = next[1]
      /\ jobs' = JobAt(j, "pause", next[2])
      /\ lanMishaps' = lanMishaps \cup Overlap
      /\ UNCHANGED <<lanRunning, lanMode, dialled, monitoring, netUp, netSeen, lanWanted>>

LanResumeBegins(j) ==
  /\ jobs[j] = [kind |-> "resume", at |-> "new"]
  /\ IF svc.listening
     THEN /\ svc' = DiscoveryUp(svc) /\ lanRunning' = TRUE /\ lanMode' = "SCANNING"
          /\ jobs' = [jobs EXCEPT ![j] = NoJob]
     ELSE jobs' = JobAt(j, "resume", "bind") /\ UNCHANGED <<svc, lanRunning, lanMode>>
  /\ lanMishaps' = lanMishaps \cup Overlap
  /\ UNCHANGED <<dialled, monitoring, netUp, netSeen, lanWanted>>

-----------------------------------------------------------------------------
\* start_discovery, which the /scan command calls in every state.
LanScan ==
  /\ svc' = DiscoveryUp(svc) /\ lanMode' = "SCANNING"
  /\ lanMishaps' = lanMishaps \cup (IF ~LanIdle THEN {"overlap"} ELSE {})
       \cup (IF Masks # {} THEN {"scan"} ELSE {})
  /\ lanWanted' = TRUE
  /\ UNCHANGED <<lanRunning, jobs, dialled, monitoring, netUp, netSeen>>

\* connect_peer up to its await, which it reaches under the lock, and its ends.
LanDial ==
  /\ LockFree /\ dialled = "none"
  /\ lanMode \notin {"UNAVAILABLE", "OFFLINE", "ERROR"}
  /\ lanMode' = "CONNECTING" /\ dialled' = "dialling"
  /\ UNCHANGED <<lanRunning, svc, jobs, monitoring, netUp, netSeen, lanWanted, lanMishaps>>

LanDialDone ==
  /\ \/ dialled = "dialling" /\ dialled' = "live"
     \/ dialled = "unlisted" /\ dialled' = "stray"
  /\ lanMode' = "CONNECTED" /\ lanMishaps' = lanMishaps \cup Masks
  /\ UNCHANGED <<lanRunning, svc, jobs, monitoring, netUp, netSeen, lanWanted, lanFlips, lanOps>>

\* The dial fails, or the connection ends.
LanDialGone ==
  /\ dialled # "none" /\ dialled' = "none"
  /\ dialled \in {"dialling", "unlisted"} => LockFree
  /\ IF dialled \in {"live", "stray"} /\ svc.clients THEN UNCHANGED <<lanMode, lanMishaps>>
     ELSE lanMode' = RestMode(svc) /\ lanMishaps' = lanMishaps \cup Masks
  /\ UNCHANGED <<lanRunning, svc, jobs, monitoring, netUp, netSeen, lanWanted, lanFlips, lanOps>>

\* A peer connects to a socket that is open; a peer that was connected leaves.
LanClient ==
  /\ svc.open # {} /\ ~svc.clients
  /\ svc' = [svc EXCEPT !.clients = TRUE] /\ lanMode' = "CONNECTED"
  /\ lanMishaps' = lanMishaps \cup Masks
  /\ UNCHANGED <<lanRunning, jobs, dialled, monitoring, netUp, netSeen, lanWanted>>

LanClientGone ==
  /\ svc.clients /\ svc' = [svc EXCEPT !.clients = FALSE]
  /\ IF dialled = "live" THEN UNCHANGED <<lanMode, lanMishaps>>
     ELSE lanMode' = RestMode(svc) /\ lanMishaps' = lanMishaps \cup Masks
  /\ UNCHANGED <<lanRunning, jobs, dialled, monitoring, netUp, netSeen, lanWanted, lanFlips, lanOps>>

LanCounted(A) == A /\ lanOps < LanMaxOps /\ lanOps' = lanOps + 1 /\ UNCHANGED lanFlips
LanUncounted(A) == A /\ UNCHANGED <<lanFlips, lanOps>>

LanAsked == LanCounted(LanStartNoNetwork \/ LanStart \/ LanStop \/ LanScan \/ LanDial \/ LanClient)
LanSteps ==
  \/ LanUncounted(LanStopGathered)
  \/ \E j \in LanJobs : LanUncounted(LanBound(j) \/ LanStopStep(j))
  \/ \E j \in LanTasks : LanUncounted(LanPauseBegins(j) \/ LanResumeBegins(j))

LanNext ==
  \/ LanAsked \/ LanSteps \/ LanPoll \/ NetFlip \/ LanDialDone \/ LanDialGone \/ LanClientGone
  \/ \E j \in LanJobs : LanCounted(LanBindFails(j))

\* The event loop runs every task that can go on, and the monitor polls.
LanFairness == WF_lanVars(LanSteps) /\ WF_lanVars(LanPoll)
LanSpec == LanInit /\ [][LanNext]_lanVars /\ LanFairness

-----------------------------------------------------------------------------
\* LanReleased: "Cleanly stop discovery, TCP server, and disconnect all peers"
\* (network/transport.py:451): nothing listens after a stop, unless it cut a
\* pause short, a poll came in between (late), or two jobs were inside the services.
LanReleased ==
  LanIdle /\ ~lanWanted /\ lanMishaps \cap {"cut", "overlap", "late"} = {} =>
    svc.open = {} /\ ~svc.udp /\ ~monitoring /\ ~lanRunning

\* LanServing: the flags of server and discovery are true of their sockets,
\* and no listening socket is without an owner, when jobs did not overlap.
LanServing ==
  LanIdle /\ lanMishaps \cap {"cut", "overlap", "late"} = {} =>
    /\ svc.open = IF svc.listening THEN {svc.server} ELSE {}
    /\ svc.discovering <=> svc.udp

\* LanFailedStart: a start that fails on the way has released what it brought up
\* ("Stop services a failed start() may already have brought up").
LanFailedStart ==
  [][/\ jobs["api"].kind \in {"start", "release"} /\ jobs'["api"] = NoJob /\ lanMode' = "ERROR"
     /\ lanMishaps \cap {"cut", "overlap", "late"} = {}
     => svc'.open = {} /\ ~svc'.udp /\ ~lanRunning']_lanVars

\* LanRecoversUnmasked: "Restart LAN sockets after the host network returns"
\* (network/transport.py:361): when the network is back to stay, the sockets
\* are, unless the transport was stopped, a port could not be bound, the user
\* scanned meanwhile, jobs overlapped, or a connection ended during the outage,
\* which replaces the state the return of the network is checked against.
LanGivenUp == ~netUp \/ ~lanWanted \/ ~monitoring
LanRecoversUnmasked ==
  []<>(LanGivenUp \/ lanMishaps # {} \/ (svc.listening /\ svc.discovering))

\* LanSafe: no socket is without an owner, the flags are true of the sockets, and
\* nothing listens after a stop.
LanSafe == LanTypeOK /\ LanReleased /\ LanServing

\* LanSettles: a failed start has released what it brought up, and the services are
\* back after the network is.
LanSettles == LanFailedStart /\ LanRecoversUnmasked
=============================================================================
