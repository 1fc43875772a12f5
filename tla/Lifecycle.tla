------------------------------ MODULE Lifecycle ------------------------------
(***************************************************************************)
(* Which transport runs: SessionCoordinator's start, retry, switch,        *)
(* go_offline and stop (app/session_coordinator.py), over transports that  *)
(* are started, stopped and lost as BtTransport and LanTransport say.      *)
(* Every operation but stop runs under _retry_lock.  An operation is cut   *)
(* where it awaits:                                                        *)
(*   stop1, stop2  a transport's stop      start     a transport's start   *)
(*   reset         cancelled timeouts      announce  the Announce packet   *)
(***************************************************************************)
EXTENDS Naturals, FiniteSets

CONSTANTS LcMaxOps,   \* bound: operations called
          LcMaxLosses \* bound: times a transport loses or regains its medium

ASSUME LcAssumption == {LcMaxOps, LcMaxLosses} \subseteq Nat

LcTransports == {"bluetooth", "lan"}
LcNoOp == [kind |-> "none", at |-> "done", target |-> "lan"]

VARIABLES
  lcRunning, lcOffline,  \* _is_running, offline_mode
  lcActive,              \* active_transport_name
  lcModes,               \* the transports: off, up, failed, lost (the medium went)
  lcWired,               \* the transports whose callbacks reach the coordinator
  lcPrune,               \* is the periodic prune task alive?
  lcSessions,            \* the transports that sessions and peer entries came over
  lcOp,                  \* the operation that holds _retry_lock
  lcStop,                \* a stop: "none", "tasks", or the transport it stops next
  lcStopped,             \* history: has stop been called since the last start?
  lcCrossed,             \* history: did stop meet another operation?
  lcOps, lcLosses

lcVars == <<lcRunning, lcOffline, lcActive, lcModes, lcWired, lcPrune, lcSessions, lcOp,
            lcStop, lcStopped, lcCrossed, lcOps, lcLosses>>

LcTypeOK ==
  /\ {lcRunning, lcOffline, lcPrune, lcStopped, lcCrossed} \subseteq BOOLEAN
  /\ lcActive \in LcTransports /\ lcModes \in [LcTransports -> {"off", "up", "failed", "lost"}]
  /\ lcWired \subseteq LcTransports /\ lcSessions \subseteq LcTransports
  /\ lcOp \in [kind : {"none", "start", "retry", "switch", "offline"}, target : LcTransports,
               at : {"done", "stop1", "reset", "start", "announce", "stop2"}]
  /\ lcStop \in {"none", "tasks"} \cup LcTransports
  /\ lcOps \in 0..LcMaxOps /\ lcLosses \in 0..LcMaxLosses

LcInit ==
  /\ lcRunning = FALSE /\ lcOffline = FALSE /\ lcActive \in LcTransports
  /\ lcModes = [t \in LcTransports |-> "off"] /\ lcWired = {lcActive}
  /\ lcPrune = FALSE /\ lcSessions = {} /\ lcOp = LcNoOp /\ lcStop = "none"
  /\ lcStopped = FALSE /\ lcCrossed = FALSE /\ lcOps = 0 /\ lcLosses = 0

LcOpAt(kind, at, target) == lcOp' = [kind |-> kind, at |-> at, target |-> target]
LcGoesTo(at) == lcOp' = [lcOp EXCEPT !.at = at]
\* A transport counts as running while the medium it lost may still return.
LcRuns(t) == lcModes[t] = "up" \/ (t = "lan" /\ lcModes[t] = "lost")
\* A transport's start and stop exclude each other.
LcStarting(t) == lcOp.at = "start" /\ lcActive = t
LcCalled ==
  /\ lcOp = LcNoOp /\ lcCrossed' = (lcCrossed \/ lcStop # "none")

-----------------------------------------------------------------------------
\* start: ignored while running, and in offline mode.
StartIgnored == lcRunning \/ lcOffline
LcStart ==
  /\ LcCalled /\ ~StartIgnored
  /\ lcRunning' = TRUE /\ lcWired' = lcWired \cup {lcActive} /\ lcStopped' = FALSE
  /\ LcOpAt("start", "start", lcActive)
  /\ UNCHANGED <<lcOffline, lcActive, lcModes, lcPrune, lcSessions, lcStop>>

\* retry_active_transport stops the transport before it starts it.
LcRetry ==
  /\ LcCalled /\ LcOpAt("retry", "stop1", lcActive)
  /\ UNCHANGED <<lcRunning, lcOffline, lcActive, lcModes, lcWired, lcPrune, lcSessions, lcStop, lcStopped>>

\* switch_transport, to the transport in use only if it does not run.
LcSwitch ==
  /\ LcCalled
  /\ \E t \in LcTransports : (t = lcActive => ~LcRuns(t)) /\ LcOpAt("switch", "stop1", t)
  /\ UNCHANGED <<lcRunning, lcOffline, lcActive, lcModes, lcWired, lcPrune, lcSessions, lcStop, lcStopped>>

\* go_offline.
LcGoOffline ==
  /\ LcCalled /\ LcOpAt("offline", "stop1", "bluetooth") /\ lcOffline' = TRUE
  /\ UNCHANGED <<lcRunning, lcActive, lcModes, lcWired, lcPrune, lcSessions, lcStop, lcStopped>>

\* The first stop is through: of the active transport, of both for go_offline.
\* A switch then detaches the transport it leaves.
KeepAttached == lcWired
Detached == lcWired \ {lcActive}
LcOldStopped ==
  /\ lcOp.at = "stop1"
  /\ LET t == IF lcOp.kind = "offline" THEN lcOp.target ELSE lcActive IN
     /\ lcModes' = [lcModes EXCEPT ![t] = "off"]
     /\ lcWired' = IF lcOp.kind = "switch" THEN Detached ELSE lcWired
     /\ CASE lcOp.kind = "retry" -> LcGoesTo("start")
          [] lcOp.kind = "offline" /\ t = "bluetooth" -> LcOpAt("offline", "stop1", "lan")
          [] OTHER -> LcGoesTo("reset")
  /\ UNCHANGED <<lcRunning, lcOffline, lcActive, lcPrune, lcSessions, lcStop, lcStopped, lcCrossed>>

\* _reset_session_state, and what follows it.
SessionsCleared == {}
LcReset ==
  /\ lcOp.at = "reset" /\ lcSessions' = SessionsCleared
  /\ IF lcOp.kind = "switch"
     THEN /\ lcActive' = lcOp.target /\ lcWired' = lcWired \cup {lcOp.target}
          /\ LcGoesTo("start") /\ UNCHANGED lcRunning
     ELSE lcRunning' = FALSE /\ lcOp' = LcNoOp /\ UNCHANGED <<lcActive, lcWired>>
  /\ UNCHANGED <<lcOffline, lcModes, lcPrune, lcStop, lcStopped, lcCrossed>>

\* The transport's start returns (it may have lost its medium on the way), and
\* only start takes its word that it works.
Accepts(mode) == lcOp.kind = "start" \/ mode = "up"
LcStarted ==
  /\ lcOp.at = "start"
  /\ \E mode \in {"up", "lost"} :
       LET ok == Accepts(mode) IN
       /\ lcModes' = [lcModes EXCEPT ![lcActive] = mode]
       /\ lcRunning' = (lcRunning \/ ok \/ lcOp.kind = "retry")
       /\ lcOffline' = (lcOffline /\ ~(ok /\ lcOp.kind # "start"))
       /\ LcGoesTo(IF ok THEN "announce" ELSE "stop2")
  /\ UNCHANGED <<lcActive, lcWired, lcPrune, lcSessions, lcStop, lcStopped, lcCrossed>>

\* It raises; the retry's start is cancelled after TRANSPORT_RETRY_TIMEOUT_SECONDS.
LcStartRaises ==
  /\ lcOp.at = "start" /\ lcModes' = [lcModes EXCEPT ![lcActive] = "failed"]
  /\ LcGoesTo("stop2") /\ lcRunning' = (lcRunning /\ lcOp.kind # "start")
  /\ UNCHANGED <<lcOffline, lcActive, lcWired, lcPrune, lcSessions, lcStop, lcStopped, lcCrossed>>

NeverTimesOut == FALSE
TimesOut == lcOp.kind = "retry" /\ lcOp.at = "start"
LcTimeout ==
  /\ TimesOut /\ LcGoesTo("stop2") /\ lcModes' = [lcModes EXCEPT ![lcActive] = "off"]
  /\ UNCHANGED <<lcRunning, lcOffline, lcActive, lcWired, lcPrune, lcSessions, lcStop, lcStopped, lcCrossed>>

\* The Announce is out and the prune task runs, or sending it raised.
Pruning == TRUE
LcAnnounced ==
  /\ lcOp.at = "announce"
  /\ \/ lcOp' = LcNoOp /\ lcPrune' = Pruning /\ UNCHANGED lcRunning
     \/ LcGoesTo("stop2") /\ lcRunning' = (lcRunning /\ lcOp.kind # "start") /\ UNCHANGED lcPrune
  /\ UNCHANGED <<lcOffline, lcActive, lcModes, lcWired, lcSessions, lcStop, lcStopped, lcCrossed>>

\* What failed is stopped, and _preserve_failed_transport_state puts its state back.
Preserved == "failed"
LcFailedStopped ==
  /\ lcOp.at = "stop2" /\ lcModes' = [lcModes EXCEPT ![lcActive] = Preserved]
  /\ lcRunning' = FALSE /\ lcOp' = LcNoOp
  /\ UNCHANGED <<lcOffline, lcActive, lcWired, lcPrune, lcSessions, lcStop, lcStopped, lcCrossed>>

-----------------------------------------------------------------------------
\* stop takes no lock: what it meets goes on beside it.
LcStop ==
  /\ lcStop = "none" /\ lcStop' = "tasks"
  /\ lcRunning' = FALSE /\ lcPrune' = FALSE /\ lcStopped' = TRUE
  /\ lcCrossed' = (lcCrossed \/ lcOp # LcNoOp)
  /\ UNCHANGED <<lcOffline, lcActive, lcModes, lcWired, lcSessions, lcOp>>

\* The tasks are gone, and the sessions; then each transport is detached and stopped.
LcStopTasks ==
  /\ lcStop = "tasks" /\ lcStop' = "bluetooth"
  /\ lcSessions' = {} /\ lcPrune' = FALSE /\ lcWired' = lcWired \ {"bluetooth"}
  /\ UNCHANGED <<lcRunning, lcOffline, lcActive, lcModes, lcOp, lcStopped, lcCrossed>>

StopsNext(t) == IF t = "bluetooth" THEN "lan" ELSE "none"
LcStopTransport ==
  /\ lcStop \in LcTransports /\ ~LcStarting(lcStop)
  /\ lcModes' = [lcModes EXCEPT ![lcStop] = "off"]
  /\ lcStop' = StopsNext(lcStop)
  /\ lcWired' = lcWired \ {lcStop'}
  /\ UNCHANGED <<lcRunning, lcOffline, lcActive, lcPrune, lcSessions, lcOp, lcStopped, lcCrossed>>

-----------------------------------------------------------------------------
\* A transport loses its medium; LAN finds it again, and is running again.
LcLoss(t) ==
  /\ lcLosses < LcMaxLosses /\ lcLosses' = lcLosses + 1 /\ ~LcStarting(t)
  /\ \/ lcModes[t] = "up" /\ lcModes' = [lcModes EXCEPT ![t] = "lost"]
     \/ t = "lan" /\ lcModes[t] = "lost" /\ lcModes' = [lcModes EXCEPT ![t] = "up"]
  /\ UNCHANGED <<lcRunning, lcOffline, lcActive, lcWired, lcPrune, lcSessions, lcOp, lcStop, lcStopped, lcCrossed, lcOps>>

\* A packet over a transport makes a session or a peer entry.
LcPacket(t) ==
  /\ lcModes[t] = "up" /\ t \in lcWired /\ lcSessions' = lcSessions \cup {t}
  /\ UNCHANGED <<lcRunning, lcOffline, lcActive, lcModes, lcWired, lcPrune, lcOp, lcStop, lcStopped, lcCrossed, lcOps, lcLosses>>

\* _periodic_prune_loop sees that the coordinator does not run.
LcPruneEnds ==
  /\ lcPrune /\ ~lcRunning /\ lcPrune' = FALSE
  /\ UNCHANGED <<lcRunning, lcOffline, lcActive, lcModes, lcWired, lcSessions, lcOp, lcStop, lcStopped, lcCrossed, lcOps, lcLosses>>

LcCounted(A) == A /\ lcOps < LcMaxOps /\ lcOps' = lcOps + 1 /\ UNCHANGED lcLosses
LcUncounted(A) == A /\ UNCHANGED <<lcOps, lcLosses>>

\* A transport's start may take for ever; everything else that is awaited ends.
LcBounded ==
  LcUncounted(LcOldStopped \/ LcReset \/ LcTimeout \/ LcAnnounced \/ LcFailedStopped
              \/ LcStopTasks \/ LcStopTransport)
LcNext ==
  \/ LcCounted(LcStart \/ LcRetry \/ LcSwitch \/ LcGoOffline \/ LcStop)
  \/ LcBounded \/ LcUncounted(LcStarted \/ LcStartRaises) \/ LcPruneEnds
  \/ \E t \in LcTransports : LcLoss(t) \/ LcPacket(t)
LcFairness == WF_lcVars(LcBounded)
LcSpec == LcInit /\ [][LcNext]_lcVars /\ LcFairness

-----------------------------------------------------------------------------
\* LcOneTransport: between operations only the active transport runs and only
\* its events reach the coordinator ("Stop old transport completely and detach
\* it"), if stop met no other operation.
LcOneTransport ==
  lcOp = LcNoOp /\ ~lcCrossed =>
    {t \in LcTransports : lcModes[t] \in {"up", "lost"}} \subseteq {lcActive} /\ lcWired \subseteq {lcActive}

\* LcOfflineQuiet: "Deliberately disable all networking": in offline mode no
\* transport runs between operations and the coordinator does not say it does,
\* if stop met no other operation: a retry or switch that fails leaves it so.
LcOfflineQuiet ==
  lcOffline /\ lcOp = LcNoOp /\ ~lcCrossed =>
    /\ \A t \in LcTransports : lcModes[t] \in {"off", "failed"}
    /\ ~lcRunning

\* LcServed: a coordinator that says it runs has a transport that was started,
\* its events wired, and the prune task, between operations.
LcServed ==
  lcOp = LcNoOp /\ lcRunning /\ ~lcStopped /\ ~lcCrossed =>
    lcModes[lcActive] \in {"up", "lost"} /\ lcActive \in lcWired /\ lcPrune

\* LcSessionsMoved: "session teardown": after a switch no session or peer entry of
\* the transport it left remains.
LcSessionsMoved == lcOp = LcNoOp => lcSessions \subseteq {lcActive} \/ lcCrossed

\* LcShutDown: when a stop that met no other operation ends, no transport runs,
\* none is wired and no prune task is left.
LcShutDown ==
  [][(lcStop \in LcTransports /\ lcStop' = "none" /\ ~lcCrossed)
     => /\ \A t \in LcTransports : lcModes'[t] \in {"off", "failed"}
        /\ lcWired' = {} /\ ~lcPrune' /\ ~lcRunning']_lcVars

\* LcRetryEnds: "The attempt is bounded by TRANSPORT_RETRY_TIMEOUT_SECONDS": a
\* retry ends however long the transport's start takes.
LcRetryEnds == lcOp.kind = "retry" ~> lcOp.kind # "retry"

\* LcSafe: between operations only the active transport runs and is wired, offline
\* mode is quiet, a coordinator that says it runs is served, and sessions do not
\* outlive the transport they were made over.
LcSafe == LcTypeOK /\ LcOneTransport /\ LcOfflineQuiet /\ LcServed /\ LcSessionsMoved

\* LcSettles: stop leaves nothing running, and a retry ends.
LcSettles == LcShutDown /\ LcRetryEnds
=============================================================================
