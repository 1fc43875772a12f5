----------------------------- MODULE Peripheral -----------------------------
(***************************************************************************)
(* The GATT server of a node: BLEServer (ble/server.py), its BlueZ backend *)
(* (ble/bluez.py) and its WinRT resources.  A backend registers an         *)
(* application and then an advertisement with the Bluetooth service of the *)
(* host, which holds them until they are unregistered or the bus they came *)
(* over is closed.  start and stop hold the server's lock and are cut at   *)
(* their awaits; a registration is made by the host (regapp, regadv)       *)
(* before start learns of it (appreply, advreply).                         *)
(***************************************************************************)
EXTENDS Naturals, FiniteSets

CONSTANTS SrvMaxBackends, \* bound: starts
          SrvAdapters     \* the adapters of the host

ASSUME SrvAssumption == SrvMaxBackends \in Nat \ {0} /\ SrvAdapters \subseteq Nat

SrvIds == 1..SrvMaxBackends
SrvNoJob == [kind |-> "none", at |-> "done", id |-> 0]
SrvNew == [adapter |-> 0, app |-> FALSE, adv |-> FALSE]

VARIABLES
  srvPlatform,  \* "linux" or "windows"
  srvFit,       \* what each adapter is: powered, gatt and adv capable
  srvOn,        \* BLEServer._is_advertising
  srvCur,       \* the backend the server holds, 0 if none
  srvFlags,     \* each backend's adapter, _app_registered and _adv_registered
  hostApp, hostAdv, \* the backends whose registrations the host holds
  srvJob,       \* the start or stop that holds the lock
  srvMade,      \* backends made so far
  srvMishaps    \* history: cut, restarted, raced
srvVars == <<srvPlatform, srvFit, srvOn, srvCur, srvFlags, hostApp, hostAdv, srvJob, srvMade, srvMishaps>>
srvHost == <<srvPlatform, srvFit>>

SrvTypeOK ==
  /\ srvPlatform \in {"linux", "windows"} /\ srvFit \in [SrvAdapters -> SUBSET {"powered", "gatt", "adv"}]
  /\ srvOn \in BOOLEAN /\ srvCur \in 0..SrvMaxBackends /\ srvMade \in 0..SrvMaxBackends
  /\ srvFlags \in [SrvIds -> [adapter : SrvAdapters \cup {0}, app : BOOLEAN, adv : BOOLEAN]]
  /\ hostApp \subseteq SrvIds /\ hostAdv \subseteq SrvIds
  /\ srvJob \in [kind : {"none", "start", "undo", "stop"}, id : 0..SrvMaxBackends,
                 at : {"done", "bus", "find", "regapp", "appreply", "regadv", "advreply", "unadv", "unapp"}]
  /\ srvMishaps \subseteq {"cut", "restarted", "raced"}
  \* The application is unregistered after its advertisement.
  /\ srvJob.at = "unapp" => ~srvFlags[srvJob.id].adv

SrvInit ==
  /\ srvPlatform \in {"linux", "windows"} /\ srvFit \in [SrvAdapters -> SUBSET {"powered", "gatt", "adv"}]
  /\ srvOn = FALSE /\ srvCur = 0 /\ srvFlags = [i \in SrvIds |-> SrvNew]
  /\ hostApp = {} /\ hostAdv = {} /\ srvJob = SrvNoJob /\ srvMade = 0 /\ srvMishaps = {}

SrvGoesTo(at) == srvJob' = [srvJob EXCEPT !.at = at]

\* _find_adapter: the first adapter that is powered and can do both; 0, an
\* error, if there is none.
FindAdapter(fit) ==
  LET able == {a \in SrvAdapters : fit[a] = {"powered", "gatt", "adv"}}
  IN  IF able = {} THEN 0 ELSE CHOOSE a \in able : \A b \in able : a <= b

-----------------------------------------------------------------------------
\* start: a backend of its own for every start.
SrvStart ==
  /\ srvJob = SrvNoJob /\ ~srvOn /\ srvMade < SrvMaxBackends
  /\ srvMade' = srvMade + 1 /\ srvCur' = srvMade'
  /\ srvJob' = [kind |-> "start", at |-> IF srvPlatform = "linux" THEN "bus" ELSE "regapp", id |-> srvMade']
  /\ srvMishaps' = srvMishaps \cup (IF srvCur = 0 THEN {} ELSE {"restarted"})
  /\ UNCHANGED <<srvHost, srvOn, srvFlags, hostApp, hostAdv>>

\* The bus is connected, the adapter found; BlueZ objects are exported.
SrvPrepared ==
  /\ srvJob.kind = "start"
  /\ \/ srvJob.at = "bus" /\ SrvGoesTo("find") /\ UNCHANGED srvFlags
     \/ /\ srvJob.at = "find" /\ FindAdapter(srvFit) # 0 /\ SrvGoesTo("regapp")
        /\ srvFlags' = [srvFlags EXCEPT ![srvJob.id].adapter = FindAdapter(srvFit)]
  /\ UNCHANGED <<srvHost, srvOn, srvCur, hostApp, hostAdv, srvMade, srvMishaps>>

\* The host registers what it was asked to, and start learns of it.
SrvRegistered ==
  /\ srvJob.kind = "start"
  /\ \/ srvJob.at = "regapp" /\ hostApp' = hostApp \cup {srvJob.id} /\ SrvGoesTo("appreply") /\ UNCHANGED hostAdv
     \/ srvJob.at = "regadv" /\ hostAdv' = hostAdv \cup {srvJob.id} /\ SrvGoesTo("advreply") /\ UNCHANGED hostApp
  /\ UNCHANGED <<srvHost, srvOn, srvCur, srvFlags, srvMade, srvMishaps>>

SrvReplied ==
  /\ srvJob.kind = "start"
  /\ \/ /\ srvJob.at = "appreply" /\ SrvGoesTo("regadv")
        /\ srvFlags' = [srvFlags EXCEPT ![srvJob.id].app = TRUE]
        /\ UNCHANGED <<srvOn, srvMishaps>>
     \/ /\ srvJob.at = "advreply" /\ srvJob' = SrvNoJob /\ srvOn' = TRUE
        /\ srvFlags' = [srvFlags EXCEPT ![srvJob.id].adv = TRUE]
        /\ srvMishaps' = srvMishaps \cup (IF srvJob.id \in hostAdv THEN {} ELSE {"raced"})
  /\ UNCHANGED <<srvHost, srvCur, hostApp, hostAdv, srvMade>>

\* _cleanup asks for what the flags say is registered and then closes the bus,
\* with which the host forgets the rest; WinRT resources are released at once.
BusClosed(id) == hostApp' = hostApp \ {id} /\ hostAdv' = hostAdv \ {id}
AwaitOf(f) == IF srvPlatform = "windows" THEN "done" ELSE IF f.adv THEN "unadv" ELSE IF f.app THEN "unapp" ELSE "done"
CleanedFrom(kind, id, f) ==
  /\ srvFlags' = [srvFlags EXCEPT ![id] = IF AwaitOf(f) = "done" THEN SrvNew ELSE f]
  /\ IF AwaitOf(f) = "done"
     THEN srvJob' = SrvNoJob /\ srvOn' = FALSE /\ BusClosed(id)
     ELSE srvJob' = [kind |-> kind, at |-> AwaitOf(f), id |-> id] /\ UNCHANGED <<srvOn, hostApp, hostAdv>>

\* A step of start fails or start is cancelled: the server lets go of the
\* backend, which cleans up after itself.
SrvFails ==
  /\ srvJob.kind = "start" /\ srvCur' = 0
  /\ CleanedFrom("undo", srvJob.id, srvFlags[srvJob.id])
  /\ UNCHANGED <<srvHost, srvMade, srvMishaps>>

\* stop: the server lets go of the backend before it is stopped.
SrvStop ==
  /\ srvJob = SrvNoJob
  /\ IF srvCur = 0 THEN srvOn' = FALSE /\ UNCHANGED <<srvCur, srvFlags, hostApp, hostAdv, srvJob>>
     ELSE srvCur' = 0 /\ CleanedFrom("stop", srvCur, srvFlags[srvCur])
  /\ UNCHANGED <<srvHost, srvMade, srvMishaps>>

\* An unregistration is through; a failure of it is ignored.
Unregistered(at, f) == IF at = "unadv" THEN [f EXCEPT !.adv = FALSE] ELSE [f EXCEPT !.app = FALSE]
SrvUnregistered ==
  /\ srvJob.at \in {"unadv", "unapp"}
  /\ CleanedFrom(srvJob.kind, srvJob.id, Unregistered(srvJob.at, srvFlags[srvJob.id]))
  /\ UNCHANGED <<srvHost, srvCur, srvMade, srvMishaps>>

\* The halt task is cancelled inside stop: nobody holds the backend any more.
SrvStopCut ==
  /\ srvJob.kind = "stop" /\ srvJob' = SrvNoJob /\ srvMishaps' = srvMishaps \cup {"cut"}
  /\ UNCHANGED <<srvHost, srvOn, srvCur, srvFlags, hostApp, hostAdv, srvMade>>

\* BlueZ releases an advertisement: _on_advertisement_released.
IgnoreRelease(on) == on
ReleaseSeen(on) == FALSE
SrvReleasedByHost(id) ==
  /\ srvPlatform = "linux" /\ id \in hostAdv /\ hostAdv' = hostAdv \ {id}
  /\ srvFlags' = [srvFlags EXCEPT ![id].adv = FALSE] /\ srvOn' = ReleaseSeen(srvOn)
  /\ UNCHANGED <<srvHost, srvCur, hostApp, srvJob, srvMade, srvMishaps>>

SrvNext ==
  \/ SrvStart \/ SrvPrepared \/ SrvRegistered \/ SrvReplied \/ SrvFails
  \/ SrvStop \/ SrvUnregistered \/ SrvStopCut
  \/ \E id \in SrvIds : SrvReleasedByHost(id)
SrvSpec == SrvInit /\ [][SrvNext]_srvVars

-----------------------------------------------------------------------------
\* SrvNothingLeft: a server that was stopped, or whose start failed at whatever
\* step, has left nothing registered with the host: an answer it did not live
\* to see included.
SrvNothingLeft ==
  srvJob = SrvNoJob /\ srvCur = 0 /\ srvMishaps \cap {"cut", "restarted"} = {} => hostApp = {} /\ hostAdv = {}

\* SrvTruthful: "Return truthful telemetry about GATT server state": a server
\* that says it advertises does, unless the host took the advertisement back
\* before start had read that it was accepted.
SrvTruthful ==
  srvJob = SrvNoJob /\ srvOn /\ srvMishaps = {} => srvCur \in hostAdv /\ srvCur \in hostApp

\* SrvFitAdapter: what is registered is so on a powered adapter that can do both.
SrvFitAdapter ==
  srvPlatform = "linux" => \A id \in hostApp : srvFlags[id].adapter # 0 /\ srvFit[srvFlags[id].adapter] = {"powered", "gatt", "adv"}

\* SrvSafe: what the server says of its registrations is true of the host, on an
\* adapter that can serve, and nothing is left of one that stopped or failed.
SrvSafe == SrvTypeOK /\ SrvNothingLeft /\ SrvTruthful /\ SrvFitAdapter
=============================================================================
