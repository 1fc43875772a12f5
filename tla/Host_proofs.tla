----------------------------- MODULE Host_proofs -----------------------------
(***************************************************************************)
(* What a host keeps and runs, for every value of the constants: the       *)
(* coordinator's transports (LcSafety, LcShutsDown), the identity in its   *)
(* file (IdSafety), the two front ends, the line-mode program              *)
(* (ConsoleSafety) and the terminal interface (ShellSafety), the           *)
(* coordinator's tables of names and addresses (DirectorySafety), the      *)
(* store-and-forward queue (StoreForwardSafety) and the settings in their  *)
(* file (SettingsSafety).  Each proof strengthens the invariant of its     *)
(* module and goes through the actions one by one.                         *)
(***************************************************************************)
EXTENDS Lifecycle, IdentityStore, Console, Shell, Directory, StoreForward, Settings, Picking_proofs, TLAPS

-----------------------------------------------------------------------------
(***************************************************************************)
(* Lifecycle, for any number of operations and any number of losses: at    *)
(* most one transport runs, offline mode is quiet, a coordinator that says *)
(* it runs is served, and a stop shuts down.                               *)
(***************************************************************************)

\* The transports that run or wait for their medium.
LcBusy == {t \in LcTransports : lcModes[t] \in {"up", "lost"}}

\* Where each kind of operation can be.
LcShape ==
  /\ lcOp.at = "done" => lcOp = LcNoOp
  /\ lcOp.kind = "none" => lcOp = LcNoOp
  /\ lcOp.at = "stop1" => lcOp.kind \in {"retry", "switch", "offline"}
  /\ lcOp.at = "reset" => lcOp.kind \in {"switch", "offline"}
  /\ lcOp.at \in {"start", "announce", "stop2"} => lcOp.kind \in {"start", "retry", "switch"}

\* The active transport alone is ever busy, wired or the origin of sessions; the
\* one a switch leaves is neither busy nor wired when the sessions are cleared.
LcAlone ==
  /\ LcBusy \subseteq {lcActive} /\ lcWired \subseteq {lcActive} /\ lcSessions \subseteq {lcActive}
  /\ lcOp.kind = "offline" /\ lcOp.target = "lan" => "bluetooth" \notin LcBusy
  /\ lcOp.at = "reset" => LcBusy = {}
  /\ lcOp.at = "reset" /\ lcOp.kind = "switch" => lcWired = {}

\* Offline mode is quiet but for the go_offline that brings it about and for the
\* start that a retry or a switch attempts, which ends it or is stopped again.
LcQuietOffline ==
  lcOffline =>
    /\ lcOp.kind # "start" /\ lcOp.at # "announce"
    /\ lcOp.kind # "offline" /\ lcOp.at # "stop2" => LcBusy = {} /\ ~lcRunning

\* Since start, the active transport's events are wired but while a switch goes
\* from one to the other; once started it is busy until the next operation.
LcServing ==
  ~lcStopped =>
    /\ lcActive \in lcWired \/ (lcOp.kind = "switch" /\ lcOp.at = "reset")
    /\ lcOp.at = "announce" => lcActive \in LcBusy
    /\ lcOp = LcNoOp /\ lcRunning => lcActive \in LcBusy /\ lcPrune

\* A stop that meets no operation: what it has stopped stays so.
LcStopAlone ==
  lcStop # "none" =>
    /\ lcOp = LcNoOp /\ lcStopped /\ ~lcRunning /\ ~lcPrune
    /\ lcStop \in LcTransports => "bluetooth" \notin lcWired
    /\ lcStop = "lan" => lcWired = {} /\ "bluetooth" \notin LcBusy

LcIInv ==
  /\ LcTypeOK /\ LcShape
  /\ ~lcCrossed => LcAlone /\ LcQuietOffline /\ LcServing /\ LcStopAlone

-----------------------------------------------------------------------------
\* The fields and the modes that LcTypeOK promises, as the provers use them.
LEMMA LcFields ==
  ASSUME LcTypeOK
  PROVE  /\ lcOp.kind \in {"none", "start", "retry", "switch", "offline"}
         /\ lcOp.target \in {"bluetooth", "lan"}
         /\ lcOp.at \in {"done", "stop1", "reset", "start", "announce", "stop2"}
         /\ lcActive \in {"bluetooth", "lan"}
  BY DEF LcTypeOK, LcTransports

\* Every action keeps the counts of operations and of losses within their bounds.
LEMMA LcCounters ==
  ASSUME LcTypeOK, LcNext
  PROVE  lcOps' \in 0..LcMaxOps /\ lcLosses' \in 0..LcMaxLosses
  BY LcAssumption DEF LcTypeOK, LcNext, LcCounted, LcUncounted, LcBounded, LcLoss, LcPacket, LcPruneEnds

\* No step of the coordinator, of a stop beside it or of a transport leaves LcIInv.
LEMMA LcInductive == LcIInv /\ [LcNext]_lcVars => LcIInv'
  <1> SUFFICES ASSUME LcIInv, [LcNext]_lcVars PROVE LcIInv'
    OBVIOUS
  <1>1. CASE UNCHANGED lcVars
    BY <1>1 DEF LcIInv, lcVars, LcTypeOK, LcShape, LcAlone, LcBusy, LcQuietOffline, LcServing, LcStopAlone
  <1>2. CASE LcNext
    <2>0. lcOps' \in 0..LcMaxOps /\ lcLosses' \in 0..LcMaxLosses
      BY <1>2, LcCounters DEF LcIInv
    <2>1. ASSUME LcStart PROVE LcIInv'
      <3>1. LcTypeOK' /\ LcShape'
        BY <2>0, <2>1 DEF LcStart, LcCalled, LcOpAt, StartIgnored, LcIInv, LcTypeOK, LcShape, LcNoOp, LcTransports
      <3>2. ASSUME ~lcCrossed' PROVE (LcAlone /\ LcQuietOffline /\ LcServing /\ LcStopAlone)'
        BY <2>1, <3>2, LcFields DEF LcStart, LcCalled, LcOpAt, StartIgnored, LcIInv, LcTypeOK, LcShape, LcNoOp, LcTransports,
           LcAlone, LcBusy, LcQuietOffline, LcServing, LcStopAlone
      <3> QED
        BY <3>1, <3>2 DEF LcIInv
    <2>2. ASSUME LcRetry PROVE LcIInv'
      <3>1. LcTypeOK' /\ LcShape'
        BY <2>0, <2>2 DEF LcRetry, LcCalled, LcOpAt, LcIInv, LcTypeOK, LcShape, LcNoOp, LcTransports
      <3>2. ASSUME ~lcCrossed' PROVE (LcAlone /\ LcQuietOffline /\ LcServing /\ LcStopAlone)'
        BY <2>2, <3>2, LcFields DEF LcRetry, LcCalled, LcOpAt, LcIInv, LcTypeOK, LcShape, LcNoOp, LcTransports,
           LcAlone, LcBusy, LcQuietOffline, LcServing, LcStopAlone
      <3> QED
        BY <3>1, <3>2 DEF LcIInv
    <2>3. ASSUME LcSwitch PROVE LcIInv'
      <3>1. LcTypeOK' /\ LcShape'
        BY <2>0, <2>3 DEF LcSwitch, LcCalled, LcOpAt, LcRuns, LcIInv, LcTypeOK, LcShape, LcNoOp, LcTransports
      <3>2. ASSUME ~lcCrossed' PROVE (LcAlone /\ LcQuietOffline /\ LcServing /\ LcStopAlone)'
        BY <2>3, <3>2, LcFields DEF LcSwitch, LcCalled, LcOpAt, LcRuns, LcIInv, LcTypeOK, LcShape, LcNoOp, LcTransports,
           LcAlone, LcBusy, LcQuietOffline, LcServing, LcStopAlone
      <3> QED
        BY <3>1, <3>2 DEF LcIInv
    <2>4. ASSUME LcGoOffline PROVE LcIInv'
      <3>1. LcTypeOK' /\ LcShape'
        BY <2>0, <2>4 DEF LcGoOffline, LcCalled, LcOpAt, LcIInv, LcTypeOK, LcShape, LcNoOp, LcTransports
      <3>2. ASSUME ~lcCrossed' PROVE (LcAlone /\ LcQuietOffline /\ LcServing /\ LcStopAlone)'
        BY <2>4, <3>2, LcFields DEF LcGoOffline, LcCalled, LcOpAt, LcIInv, LcTypeOK, LcShape, LcNoOp, LcTransports,
           LcAlone, LcBusy, LcQuietOffline, LcServing, LcStopAlone
      <3> QED
        BY <3>1, <3>2 DEF LcIInv
    <2>5. ASSUME LcOldStopped PROVE LcIInv'
      <3>1. LcTypeOK' /\ LcShape'
        BY <2>0, <2>5 DEF LcOldStopped, Detached, LcGoesTo, LcOpAt, LcIInv, LcTypeOK, LcShape, LcNoOp, LcTransports
      <3>2. ASSUME ~lcCrossed' PROVE (LcAlone /\ LcQuietOffline /\ LcServing /\ LcStopAlone)'
        BY <2>5, <3>2, LcFields DEF LcOldStopped, Detached, LcGoesTo, LcOpAt, LcIInv, LcTypeOK, LcShape, LcNoOp, LcTransports,
           LcAlone, LcBusy, LcQuietOffline, LcServing, LcStopAlone
      <3> QED
        BY <3>1, <3>2 DEF LcIInv
    <2>6. ASSUME LcReset PROVE LcIInv'
      <3>1. LcTypeOK' /\ LcShape'
        <4>1. CASE lcOp.kind = "switch"
          BY <2>0, <2>6, <4>1, LcFields
             DEF LcReset, SessionsCleared, LcGoesTo, LcIInv, LcTypeOK, LcShape, LcNoOp, LcTransports
        <4>2. CASE lcOp.kind # "switch"
          <5>1. lcOp' = LcNoOp /\ lcRunning' = FALSE /\ lcSessions' = {} /\ lcActive' = lcActive
                /\ lcWired' = lcWired
            BY <2>6, <4>2 DEF LcReset, SessionsCleared
          <5> QED
            BY <2>0, <2>6, <5>1 DEF LcReset, LcIInv, LcTypeOK, LcShape, LcNoOp, LcTransports
        <4> QED
          BY <4>1, <4>2
      <3>2. ASSUME ~lcCrossed' PROVE (LcAlone /\ LcQuietOffline /\ LcServing /\ LcStopAlone)'
        BY <2>6, <3>2, LcFields DEF LcReset, SessionsCleared, LcGoesTo, LcIInv, LcTypeOK, LcShape, LcNoOp, LcTransports,
           LcAlone, LcBusy, LcQuietOffline, LcServing, LcStopAlone
      <3> QED
        BY <3>1, <3>2 DEF LcIInv
    <2>7. ASSUME LcStarted PROVE LcIInv'
      <3>1. LcTypeOK' /\ LcShape'
        BY <2>0, <2>7 DEF LcStarted, Accepts, LcGoesTo, LcIInv, LcTypeOK, LcShape, LcNoOp, LcTransports
      <3>2. ASSUME ~lcCrossed' PROVE (LcAlone /\ LcQuietOffline /\ LcServing /\ LcStopAlone)'
        BY <2>7, <3>2, LcFields DEF LcStarted, Accepts, LcGoesTo, LcIInv, LcTypeOK, LcShape, LcNoOp, LcTransports,
           LcAlone, LcBusy, LcQuietOffline, LcServing, LcStopAlone
      <3> QED
        BY <3>1, <3>2 DEF LcIInv
    <2>8. ASSUME LcStartRaises PROVE LcIInv'
      <3>1. LcTypeOK' /\ LcShape'
        BY <2>0, <2>8 DEF LcStartRaises, LcGoesTo, LcIInv, LcTypeOK, LcShape, LcNoOp, LcTransports
      <3>2. ASSUME ~lcCrossed' PROVE (LcAlone /\ LcQuietOffline /\ LcServing /\ LcStopAlone)'
        BY <2>8, <3>2, LcFields DEF LcStartRaises, LcGoesTo, LcIInv, LcTypeOK, LcShape, LcNoOp, LcTransports,
           LcAlone, LcBusy, LcQuietOffline, LcServing, LcStopAlone
      <3> QED
        BY <3>1, <3>2 DEF LcIInv
    <2>9. ASSUME LcTimeout PROVE LcIInv'
      <3>1. LcTypeOK' /\ LcShape'
        BY <2>0, <2>9 DEF LcTimeout, TimesOut, LcGoesTo, LcIInv, LcTypeOK, LcShape, LcNoOp, LcTransports
      <3>2. ASSUME ~lcCrossed' PROVE (LcAlone /\ LcQuietOffline /\ LcServing /\ LcStopAlone)'
        BY <2>9, <3>2, LcFields DEF LcTimeout, TimesOut, LcGoesTo, LcIInv, LcTypeOK, LcShape, LcNoOp, LcTransports,
           LcAlone, LcBusy, LcQuietOffline, LcServing, LcStopAlone
      <3> QED
        BY <3>1, <3>2 DEF LcIInv
    <2>10. ASSUME LcAnnounced PROVE LcIInv'
      <3>1. LcTypeOK' /\ LcShape'
        <4>1. CASE lcOp' = LcNoOp /\ lcPrune' = Pruning /\ UNCHANGED lcRunning
          BY <2>0, <2>10, <4>1 DEF LcAnnounced, Pruning, LcIInv, LcTypeOK, LcShape, LcNoOp, LcTransports
        <4>2. CASE LcGoesTo("stop2") /\ lcRunning' = (lcRunning /\ lcOp.kind # "start") /\ UNCHANGED lcPrune
          BY <2>0, <2>10, <4>2, LcFields
             DEF LcAnnounced, LcGoesTo, LcIInv, LcTypeOK, LcShape, LcNoOp, LcTransports
        <4> QED
          BY <2>10, <4>1, <4>2 DEF LcAnnounced
      <3>2. ASSUME ~lcCrossed' PROVE (LcAlone /\ LcQuietOffline /\ LcServing /\ LcStopAlone)'
        BY <2>10, <3>2, LcFields DEF LcAnnounced, Pruning, LcGoesTo, LcIInv, LcTypeOK, LcShape, LcNoOp, LcTransports,
           LcAlone, LcBusy, LcQuietOffline, LcServing, LcStopAlone
      <3> QED
        BY <3>1, <3>2 DEF LcIInv
    <2>11. ASSUME LcFailedStopped PROVE LcIInv'
      <3>1. LcTypeOK' /\ LcShape'
        BY <2>0, <2>11 DEF LcFailedStopped, Preserved, LcIInv, LcTypeOK, LcShape, LcNoOp, LcTransports
      <3>2. ASSUME ~lcCrossed' PROVE (LcAlone /\ LcQuietOffline /\ LcServing /\ LcStopAlone)'
        BY <2>11, <3>2, LcFields DEF LcFailedStopped, Preserved, LcIInv, LcTypeOK, LcShape, LcNoOp, LcTransports,
           LcAlone, LcBusy, LcQuietOffline, LcServing, LcStopAlone
      <3> QED
        BY <3>1, <3>2 DEF LcIInv
    <2>12. ASSUME LcStop PROVE LcIInv'
      <3>1. LcTypeOK' /\ LcShape'
        BY <2>0, <2>12 DEF LcStop, LcIInv, LcTypeOK, LcShape, LcNoOp, LcTransports
      <3>2. ASSUME ~lcCrossed' PROVE (LcAlone /\ LcQuietOffline /\ LcServing /\ LcStopAlone)'
        BY <2>12, <3>2, LcFields DEF LcStop, LcIInv, LcTypeOK, LcShape, LcNoOp, LcTransports,
           LcAlone, LcBusy, LcQuietOffline, LcServing, LcStopAlone
      <3> QED
        BY <3>1, <3>2 DEF LcIInv
    <2>13. ASSUME LcStopTasks PROVE LcIInv'
      <3>1. LcTypeOK' /\ LcShape'
        BY <2>0, <2>13 DEF LcStopTasks, LcIInv, LcTypeOK, LcShape, LcNoOp, LcTransports
      <3>2. ASSUME ~lcCrossed' PROVE (LcAlone /\ LcQuietOffline /\ LcServing /\ LcStopAlone)'
        BY <2>13, <3>2, LcFields DEF LcStopTasks, LcIInv, LcTypeOK, LcShape, LcNoOp, LcTransports,
           LcAlone, LcBusy, LcQuietOffline, LcServing, LcStopAlone
      <3> QED
        BY <3>1, <3>2 DEF LcIInv
    <2>14. ASSUME LcStopTransport PROVE LcIInv'
      <3>1. LcTypeOK' /\ LcShape'
        BY <2>0, <2>14 DEF LcStopTransport, StopsNext, LcIInv, LcTypeOK, LcShape, LcNoOp, LcTransports
      <3>2. ASSUME ~lcCrossed' PROVE (LcAlone /\ LcQuietOffline /\ LcServing /\ LcStopAlone)'
        BY <2>14, <3>2, LcFields DEF LcStopTransport, StopsNext, LcIInv, LcTypeOK, LcShape, LcNoOp, LcTransports,
           LcAlone, LcBusy, LcQuietOffline, LcServing, LcStopAlone
      <3> QED
        BY <3>1, <3>2 DEF LcIInv
    <2>15. ASSUME NEW t \in LcTransports, LcLoss(t) PROVE LcIInv'
      <3>1. LcTypeOK' /\ LcShape'
        BY <2>0, <2>15 DEF LcLoss, LcIInv, LcTypeOK, LcShape, LcNoOp, LcTransports
      <3>2. ASSUME ~lcCrossed' PROVE (LcAlone /\ LcQuietOffline /\ LcServing /\ LcStopAlone)'
        <4>1. LcBusy' = LcBusy
          BY <2>15 DEF LcLoss, LcBusy, LcIInv, LcTypeOK
        <4> QED
          BY <2>15, <3>2, <4>1 DEF LcLoss, LcIInv, LcAlone, LcQuietOffline, LcServing, LcStopAlone
      <3> QED
        BY <3>1, <3>2 DEF LcIInv
    <2>16. ASSUME NEW t \in LcTransports, LcPacket(t) PROVE LcIInv'
      BY <2>16 DEF LcPacket, LcIInv, LcTypeOK, LcShape, LcAlone, LcBusy, LcQuietOffline, LcServing, LcStopAlone
    <2>17. ASSUME LcPruneEnds PROVE LcIInv'
      BY <2>17 DEF LcPruneEnds, LcIInv, LcTypeOK, LcShape, LcAlone, LcBusy, LcQuietOffline, LcServing, LcStopAlone
    <2> QED
      BY <1>2, <2>1, <2>2, <2>3, <2>4, <2>5, <2>6, <2>7, <2>8, <2>9, <2>10, <2>11, <2>12, <2>13,
         <2>14, <2>15, <2>16, <2>17 DEF LcNext, LcCounted, LcUncounted, LcBounded
  <1> QED
    BY <1>1, <1>2

\* LcIInv holds in every state of the coordinator.
LEMMA LcInvariant == LcSpec => []LcIInv
  <1>1. LcInit => LcIInv
    <2> SUFFICES ASSUME LcInit PROVE LcIInv
      OBVIOUS
    <2>1. LcTypeOK
      <3>1. lcOps \in 0..LcMaxOps /\ lcLosses \in 0..LcMaxLosses
        BY LcAssumption DEF LcInit
      <3> QED
        BY <3>1 DEF LcInit, LcTypeOK, LcNoOp, LcTransports
    <2>2. LcShape
      BY DEF LcInit, LcShape, LcNoOp
    <2>3. LcAlone /\ LcQuietOffline /\ LcServing /\ LcStopAlone
      BY DEF LcInit, LcNoOp, LcTransports, LcAlone, LcBusy, LcQuietOffline, LcServing, LcStopAlone
    <2> QED
      BY <2>1, <2>2, <2>3 DEF LcIInv
  <1> QED
    BY <1>1, LcInductive, PTL DEF LcSpec

\* However start, retry, switch and go_offline of SessionCoordinator follow each
\* other, fail, time out and lose their medium, between them only the active
\* transport runs and is wired, offline mode is quiet, a coordinator that says
\* it runs is served, and no session outlives its transport.
THEOREM LcSafety == LcSpec => []LcSafe
  <1>1. LcIInv => LcSafe
    <2> SUFFICES ASSUME LcIInv PROVE LcSafe
      OBVIOUS
    <2>1. LcOneTransport /\ LcSessionsMoved
      BY DEF LcIInv, LcAlone, LcBusy, LcOneTransport, LcSessionsMoved
    <2>2. LcOfflineQuiet
      BY DEF LcIInv, LcTypeOK, LcQuietOffline, LcBusy, LcNoOp, LcOfflineQuiet
    <2>3. LcServed
      BY DEF LcIInv, LcServing, LcBusy, LcNoOp, LcServed
    <2> QED
      BY <2>1, <2>2, <2>3 DEF LcIInv, LcSafe
  <1> QED
    BY <1>1, LcInvariant, PTL

\* SessionCoordinator.stop, when it meets no other operation, ends with both
\* transports stopped and detached and without a prune task.
THEOREM LcShutsDown == LcSpec => LcShutDown
  <1>1. ASSUME LcIInv, [LcNext]_lcVars, lcStop \in LcTransports, lcStop' = "none", ~lcCrossed
        PROVE  /\ \A t \in LcTransports : lcModes'[t] \in {"off", "failed"}
               /\ lcWired' = {} /\ ~lcPrune' /\ ~lcRunning'
    <2>1. LcStopTransport
      BY <1>1 DEF LcNext, LcCounted, LcUncounted, LcBounded, LcStart, LcRetry, LcSwitch, LcGoOffline, LcStop,
         LcOldStopped, LcReset, LcStarted, LcStartRaises, LcTimeout, LcAnnounced, LcFailedStopped,
         LcStopTasks, LcLoss, LcPacket, LcPruneEnds, lcVars, LcTransports
    <2>2. lcStop = "lan"
      BY <1>1, <2>1 DEF LcStopTransport, StopsNext, LcTransports
    <2>3. LcStopAlone /\ LcTypeOK
      BY <1>1 DEF LcIInv
    <2> QED
      BY <2>1, <2>2, <2>3 DEF LcStopTransport, LcStopAlone, LcTypeOK, LcBusy, LcTransports
  <1>2. LcIInv /\ [LcNext]_lcVars =>
          [(lcStop \in LcTransports /\ lcStop' = "none" /\ ~lcCrossed)
           => /\ \A t \in LcTransports : lcModes'[t] \in {"off", "failed"}
              /\ lcWired' = {} /\ ~lcPrune' /\ ~lcRunning']_lcVars
    BY <1>1
  <1> QED
    BY <1>2, LcInvariant, PTL DEF LcSpec, LcShutDown

-----------------------------------------------------------------------------
(***************************************************************************)
(* IdentityStore, for any number of processes, launches, crashes and power *)
(* losses: one identity, which stays, in a file that is never torn and     *)
(* that only the user can read.                                            *)
(***************************************************************************)

Saving == {"saving", "restricting", "writing", "syncing", "replacing"}

\* Whoever is in the section holds the lock.
IdLocked == \A p \in IdProcs : idPc[p] \in InSection => idLock = p

\* What a process has found or generated, by where it is: a file that is not
\* there when it saves was not there when it looked.
IdStaged ==
  \A p \in IdProcs :
    /\ idPc[p] \in Saving => idNew[p] # NoKeys /\ idFile = NoKeys
    /\ idPc[p] = "reading" => idFile # NoKeys /\ idPrivate
    /\ idMine[p] # NoKeys <=> idPc[p] = "running"

\* The temporary file, by where its process is in _atomic_write_json.
IdTempStaged ==
  \A p \in IdProcs :
    /\ idPc[p] \notin {"restricting", "writing", "syncing", "replacing"} => idTemp[p] = NoTemp
    /\ idPc[p] \in {"restricting", "writing"} => idTemp[p].content = NoKeys
    /\ idPc[p] \in {"writing", "syncing", "replacing"} => idTemp[p].private
    /\ idPc[p] \in {"syncing", "replacing"} => idTemp[p].content = idNew[p]
    /\ idPc[p] = "replacing" => idTemp[p].synced

\* A process that runs goes by what identity.json holds, unless it was damaged since.
IdAgrees == \A p \in IdProcs : idMine[p] # NoKeys => idFile \in {idMine[p], Damaged}

\* Until power is lost identity.json holds the first identity handed out.
IdFirstStays == idLost \/ idFile \in {idFirst, Damaged}

\* Only what is synced becomes identity.json.
IdOnDisk == idSynced /\ (idDurable = Damaged => idHurt)

\* A process launched at sign-in holds the mutex.
IdGuarded == idUnguarded \/ \A p \in IdProcs : idAtSignIn[p] => idHandle[p] /\ idWindows

IdIInv ==
  /\ IdTypeOK /\ IdLocked /\ IdStaged /\ IdTempStaged /\ IdAgrees /\ IdFirstStays /\ IdOnDisk /\ IdGuarded
  /\ OneIdentity /\ IdentityStays /\ NeverTorn /\ KeysPrivate /\ OneAtSignIn

-----------------------------------------------------------------------------
\* The bounds, and what tells a damaged file from an identity.
LEMMA IdConstants ==
  /\ IdMaxKeys \in Nat \ {0} /\ IdMaxLaunches \in Nat /\ IdMaxFaults \in Nat
  /\ Damaged \in Contents /\ NoKeys \in Contents /\ Damaged \notin 0..IdMaxKeys /\ NoTemp \in Temps
  /\ \A k \in Contents : k # Damaged => k \in 0..IdMaxKeys
  /\ 0..IdMaxKeys \subseteq Contents /\ 0 \notin IdProcs
  BY IdAssumption DEF Damaged, NoKeys, Contents, NoTemp, Temps

\* A process that ends, by an exception, an exit or a crash, disturbs nobody.
LEMMA IdGoneKeeps ==
  ASSUME IdIInv, NEW p \in IdProcs, Gone(p),
         UNCHANGED <<idDisk, idHistory>>, idFaults' \in 0..IdMaxFaults,
         idBackups' \in {idBackups, idBackups \cup {idFile}},
         idLeft' \in {idLeft, idLeft \cup {idTemp[p]}}
  PROVE  IdIInv'
  <1>1. IdTypeOK'
    <2>1. idTemp[p] \in Temps /\ idFile \in Contents
      BY DEF IdIInv, IdTypeOK
    <2>2. idLock' \in {0} \cup {q \in IdProcs : idPc'[q] \in InSection}
      BY DEF IdIInv, IdTypeOK, Gone, Goes, FreeOf
    <2>3. /\ idTemp' \in [IdProcs -> Temps] /\ idLeft' \subseteq Temps /\ idBackups' \subseteq Contents
          /\ idNew' \in [IdProcs -> 0..IdMaxKeys] /\ idMine' \in [IdProcs -> 0..IdMaxKeys]
      BY <2>1, IdConstants DEF IdIInv, IdTypeOK, Gone, NoKeys
    <2> QED
      BY <2>2, <2>3 DEF IdIInv, IdTypeOK, Gone, Goes, idDisk, idHistory
  <1>2. IdLocked' /\ IdStaged' /\ IdTempStaged'
    BY IdConstants DEF Gone, Goes, FreeOf, idVars, idDisk, idProcess, idHistory, IdIInv,
       IdTypeOK, InSection, IdLocked, IdStaged, IdTempStaged, Saving, Temps, NoTemp
  <1>3. IdAgrees' /\ IdFirstStays' /\ OneIdentity' /\ IdentityStays'
    BY IdConstants DEF Gone, Goes, FreeOf, idVars, idDisk, idProcess, idHistory, IdIInv,
       IdTypeOK, InSection, IdLocked, IdStaged, Saving, IdAgrees, IdFirstStays, OneIdentity,
       IdentityStays
  <1>4. IdOnDisk' /\ NeverTorn' /\ KeysPrivate'
    BY IdConstants DEF Gone, Goes, FreeOf, idVars, idDisk, idProcess, idHistory, IdIInv,
       IdTypeOK, IdStaged, IdTempStaged, Saving, IdOnDisk, NeverTorn, KeysPrivate, NoTemp
  <1>5. IdGuarded' /\ OneAtSignIn'
    BY DEF Gone, Goes, FreeOf, idVars, idDisk, idProcess, idHistory, IdIInv, IdTypeOK,
       IdGuarded, OneAtSignIn
  <1> QED
    BY <1>1, <1>2, <1>3, <1>4, <1>5 DEF IdIInv

\* A step of _atomic_write_json on the temporary file alone.
LEMMA IdTempStepKeeps ==
  ASSUME IdIInv, NEW p \in IdProcs, NEW from \in Saving, NEW to \in Saving \ {"saving"}, NEW temp \in Temps,
         TempStep(p, from, to, temp),
         to \in {"restricting", "writing"} => temp.content = NoKeys,
         to \in {"writing", "syncing", "replacing"} => temp.private,
         to \in {"syncing", "replacing"} => temp.content = idNew[p],
         to = "replacing" => temp.synced
  PROVE  IdIInv'
  <1>1. IdTypeOK'
    BY IdConstants DEF TempStep, At, Goes, idVars, idDisk, idProcess, idHistory, IdIInv,
       IdTypeOK, InSection, IdLocked, IdStaged, IdTempStaged, Saving
  <1>2. IdLocked' /\ IdStaged' /\ IdTempStaged'
    BY IdConstants DEF TempStep, At, Goes, idVars, idDisk, idProcess, idHistory, IdIInv,
       IdTypeOK, InSection, IdLocked, IdStaged, IdTempStaged, Saving, Temps, NoTemp
  <1>3. IdAgrees' /\ IdFirstStays' /\ OneIdentity' /\ IdentityStays'
    BY IdConstants DEF TempStep, At, Goes, idVars, idDisk, idProcess, idHistory, IdIInv,
       IdTypeOK, InSection, IdLocked, IdStaged, Saving, IdAgrees, IdFirstStays, OneIdentity,
       IdentityStays
  <1>4. IdOnDisk' /\ NeverTorn' /\ KeysPrivate'
    <2>1. temp.content # NoKeys => temp.private
      BY DEF Saving
    <2>2. \A q \in IdProcs : idTemp'[q] = IF q = p THEN temp ELSE idTemp[q]
      BY DEF TempStep, IdIInv, IdTypeOK
    <2>3. /\ \A t \in idLeft : t.content # NoKeys => t.private
          /\ \A q \in IdProcs : idTemp[q].content # NoKeys => idTemp[q].private
      BY DEF IdIInv, KeysPrivate
    <2> QED
      BY <2>1, <2>2, <2>3 DEF TempStep, idDisk, idHistory, IdIInv, IdOnDisk, NeverTorn, KeysPrivate
  <1>5. IdGuarded' /\ OneAtSignIn'
    BY DEF TempStep, At, Goes, idVars, idDisk, idProcess, idHistory, IdIInv, IdTypeOK,
       IdGuarded, OneAtSignIn
  <1> QED
    BY <1>1, <1>2, <1>3, <1>4, <1>5 DEF IdIInv

\* No step of a process, of the disk or of the power leaves IdIInv.
LEMMA IdInductive == IdIInv /\ [IdNext]_idVars => IdIInv'
  <1> SUFFICES ASSUME IdIInv, [IdNext]_idVars PROVE IdIInv'
    OBVIOUS
  <1>0. CASE UNCHANGED idVars
    BY <1>0 DEF IdIInv, idVars, idDisk, idProcess, idHistory, IdTypeOK, IdLocked, IdStaged, IdTempStaged,
       IdAgrees, IdFirstStays, IdOnDisk, IdGuarded, OneIdentity, IdentityStays, NeverTorn, KeysPrivate,
       OneAtSignIn
  <1>1. ASSUME NEW p \in IdProcs, NEW signIn \in BOOLEAN, NEW mutex \in BOOLEAN, IdLaunch(p, signIn, mutex) PROVE IdIInv'
    <2>1. IdTypeOK'
      BY <1>1, IdConstants DEF IdLaunch, At, Goes, AlreadyRunning, idVars, idDisk, idProcess,
         idHistory, IdIInv, IdTypeOK, InSection, IdLocked, IdStaged, IdTempStaged, Saving
    <2>2. IdLocked' /\ IdStaged' /\ IdTempStaged'
      BY <1>1, IdConstants DEF IdLaunch, At, Goes, AlreadyRunning, idVars, idDisk, idProcess,
         idHistory, IdIInv, IdTypeOK, InSection, IdLocked, IdStaged, IdTempStaged, Saving, Temps,
         NoTemp
    <2>3. IdAgrees' /\ IdFirstStays' /\ OneIdentity' /\ IdentityStays'
      BY <1>1, IdConstants DEF IdLaunch, At, Goes, AlreadyRunning, idVars, idDisk, idProcess,
         idHistory, IdIInv, IdTypeOK, InSection, IdLocked, IdStaged, Saving, IdAgrees, IdFirstStays,
         OneIdentity, IdentityStays
    <2>4. IdOnDisk' /\ NeverTorn' /\ KeysPrivate'
      BY <1>1, IdConstants DEF IdLaunch, At, Goes, AlreadyRunning, idVars, idDisk, idProcess,
         idHistory, IdIInv, IdTypeOK, IdStaged, IdTempStaged, Saving, IdOnDisk, NeverTorn,
         KeysPrivate, NoTemp
    <2>5. IdGuarded' /\ OneAtSignIn'
      BY <1>1 DEF IdLaunch, At, Goes, AlreadyRunning, idVars, idDisk, idProcess, idHistory, IdIInv,
         IdTypeOK, IdGuarded, OneAtSignIn
    <2> QED
      BY <2>1, <2>2, <2>3, <2>4, <2>5 DEF IdIInv
  <1>2. ASSUME NEW p \in IdProcs, IdAcquire(p) PROVE IdIInv'
    <2>1. IdTypeOK'
      BY <1>2, IdConstants DEF IdAcquire, At, Goes, LockFreeFor, idVars, idDisk, idProcess,
         idHistory, IdIInv, IdTypeOK, InSection, IdLocked, IdStaged, IdTempStaged, Saving
    <2>2. IdLocked' /\ IdStaged' /\ IdTempStaged'
      BY <1>2, IdConstants DEF IdAcquire, At, Goes, LockFreeFor, idVars, idDisk, idProcess,
         idHistory, IdIInv, IdTypeOK, InSection, IdLocked, IdStaged, IdTempStaged, Saving, Temps,
         NoTemp
    <2>3. IdAgrees' /\ IdFirstStays' /\ OneIdentity' /\ IdentityStays'
      BY <1>2, IdConstants DEF IdAcquire, At, Goes, LockFreeFor, idVars, idDisk, idProcess,
         idHistory, IdIInv, IdTypeOK, InSection, IdLocked, IdStaged, Saving, IdAgrees, IdFirstStays,
         OneIdentity, IdentityStays
    <2>4. IdOnDisk' /\ NeverTorn' /\ KeysPrivate'
      BY <1>2, IdConstants DEF IdAcquire, At, Goes, LockFreeFor, idVars, idDisk, idProcess,
         idHistory, IdIInv, IdTypeOK, IdStaged, IdTempStaged, Saving, IdOnDisk, NeverTorn,
         KeysPrivate, NoTemp
    <2>5. IdGuarded' /\ OneAtSignIn'
      BY <1>2 DEF IdAcquire, At, Goes, LockFreeFor, idVars, idDisk, idProcess, idHistory, IdIInv,
         IdTypeOK, IdGuarded, OneAtSignIn
    <2> QED
      BY <2>1, <2>2, <2>3, <2>4, <2>5 DEF IdIInv
  <1>3. ASSUME NEW p \in IdProcs, IdRestrict(p) PROVE IdIInv'
    <2>1. IdTypeOK'
      BY <1>3, IdConstants DEF IdRestrict, At, Goes, idVars, idDisk, idProcess, idHistory, IdIInv,
         IdTypeOK, InSection, IdLocked, IdStaged, IdTempStaged, Saving
    <2>2. IdLocked' /\ IdStaged' /\ IdTempStaged'
      BY <1>3, IdConstants DEF IdRestrict, At, Goes, idVars, idDisk, idProcess, idHistory, IdIInv,
         IdTypeOK, InSection, IdLocked, IdStaged, IdTempStaged, Saving, Temps, NoTemp
    <2>3. IdAgrees' /\ IdFirstStays' /\ OneIdentity' /\ IdentityStays'
      BY <1>3, IdConstants DEF IdRestrict, At, Goes, idVars, idDisk, idProcess, idHistory, IdIInv,
         IdTypeOK, InSection, IdLocked, IdStaged, Saving, IdAgrees, IdFirstStays, OneIdentity,
         IdentityStays
    <2>4. IdOnDisk' /\ NeverTorn' /\ KeysPrivate'
      BY <1>3, IdConstants DEF IdRestrict, At, Goes, idVars, idDisk, idProcess, idHistory, IdIInv,
         IdTypeOK, IdStaged, IdTempStaged, Saving, IdOnDisk, NeverTorn, KeysPrivate, NoTemp
    <2>5. IdGuarded' /\ OneAtSignIn'
      BY <1>3 DEF IdRestrict, At, Goes, idVars, idDisk, idProcess, idHistory, IdIInv, IdTypeOK,
         IdGuarded, OneAtSignIn
    <2> QED
      BY <2>1, <2>2, <2>3, <2>4, <2>5 DEF IdIInv
  <1>4. ASSUME NEW p \in IdProcs, IdRead(p) PROVE IdIInv'
    <2>1. IdTypeOK'
      BY <1>4, IdConstants DEF IdRead, At, Goes, Handed, FreeOf, idVars, idDisk, idProcess,
         idHistory, IdIInv, IdTypeOK, InSection, IdLocked, IdStaged, IdTempStaged, Saving
    <2>2. IdLocked' /\ IdStaged' /\ IdTempStaged'
      BY <1>4, IdConstants DEF IdRead, At, Goes, Handed, FreeOf, idVars, idDisk, idProcess,
         idHistory, IdIInv, IdTypeOK, InSection, IdLocked, IdStaged, IdTempStaged, Saving, Temps,
         NoTemp
    <2>3. IdAgrees' /\ IdFirstStays' /\ OneIdentity' /\ IdentityStays'
      BY <1>4, IdConstants DEF IdRead, At, Goes, Handed, FreeOf, idVars, idDisk, idProcess,
         idHistory, IdIInv, IdTypeOK, InSection, IdLocked, IdStaged, Saving, IdAgrees, IdFirstStays,
         OneIdentity, IdentityStays
    <2>4. IdOnDisk' /\ NeverTorn' /\ KeysPrivate'
      BY <1>4, IdConstants DEF IdRead, At, Goes, Handed, FreeOf, idVars, idDisk, idProcess,
         idHistory, IdIInv, IdTypeOK, IdStaged, IdTempStaged, Saving, IdOnDisk, NeverTorn,
         KeysPrivate, NoTemp
    <2>5. IdGuarded' /\ OneAtSignIn'
      BY <1>4 DEF IdRead, At, Goes, Handed, FreeOf, idVars, idDisk, idProcess, idHistory, IdIInv,
         IdTypeOK, IdGuarded, OneAtSignIn
    <2> QED
      BY <2>1, <2>2, <2>3, <2>4, <2>5 DEF IdIInv
  <1>5. ASSUME NEW p \in IdProcs, IdGenerate(p) PROVE IdIInv'
    <2>0. idKeys + 1 \in 0..IdMaxKeys /\ idKeys + 1 # NoKeys
      BY <1>5, IdConstants DEF IdGenerate, IdIInv, IdTypeOK, NoKeys
    <2>1. IdTypeOK'
      BY <1>5, IdConstants, <2>0 DEF IdGenerate, At, Goes, Creates, idVars, idDisk, idProcess, idHistory,
         IdIInv, IdTypeOK, InSection, IdLocked, IdStaged, IdTempStaged, Saving
    <2>2. IdLocked' /\ IdStaged' /\ IdTempStaged'
      BY <1>5, IdConstants, <2>0 DEF IdGenerate, At, Goes, Creates, idVars, idDisk, idProcess, idHistory,
         IdIInv, IdTypeOK, InSection, IdLocked, IdStaged, IdTempStaged, Saving, Temps, NoTemp
    <2>3. IdAgrees' /\ IdFirstStays' /\ OneIdentity' /\ IdentityStays'
      BY <1>5, IdConstants, <2>0 DEF IdGenerate, At, Goes, Creates, idVars, idDisk, idProcess, idHistory,
         IdIInv, IdTypeOK, InSection, IdLocked, IdStaged, Saving, IdAgrees, IdFirstStays,
         OneIdentity, IdentityStays
    <2>4. IdOnDisk' /\ NeverTorn' /\ KeysPrivate'
      BY <1>5, IdConstants, <2>0 DEF IdGenerate, At, Goes, Creates, idVars, idDisk, idProcess, idHistory,
         IdIInv, IdTypeOK, IdStaged, IdTempStaged, Saving, IdOnDisk, NeverTorn, KeysPrivate, NoTemp
    <2>5. IdGuarded' /\ OneAtSignIn'
      BY <1>5 DEF IdGenerate, At, Goes, Creates, idVars, idDisk, idProcess, idHistory, IdIInv,
         IdTypeOK, IdGuarded, OneAtSignIn
    <2> QED
      BY <2>1, <2>2, <2>3, <2>4, <2>5 DEF IdIInv
  <1>6. ASSUME NEW p \in IdProcs, IdTemp(p) PROVE IdIInv'
    <2> DEFINE temp == [NoTemp EXCEPT !.exists = TRUE, !.private = ~idWindows]
    <2>1. TempStep(p, "saving", "restricting", temp) /\ idPc[p] = "saving"
      BY <1>6 DEF IdTemp, TempStep, At
    <2>2. temp \in Temps
      BY IdConstants DEF IdIInv, IdTypeOK, Temps, NoTemp, Contents
    <2>3. temp.content = NoKeys
      BY <2>1, IdConstants DEF IdIInv, IdTypeOK, IdTempStaged, Temps, NoTemp
    <2> HIDE DEF temp
    <2> QED
      BY <2>1, <2>2, <2>3, IdTempStepKeeps DEF Saving
  <1>7. ASSUME NEW p \in IdProcs, IdRestrictTemp(p) PROVE IdIInv'
    <2> DEFINE temp == [idTemp[p] EXCEPT !.private = TRUE]
    <2>1. TempStep(p, "restricting", "writing", temp) /\ idPc[p] = "restricting"
      BY <1>7 DEF IdRestrictTemp, TempStep, At
    <2>2. temp \in Temps
      BY IdConstants DEF IdIInv, IdTypeOK, Temps, NoTemp, Contents
    <2>3. temp.content = NoKeys /\ temp.private
      BY <2>1, IdConstants DEF IdIInv, IdTypeOK, IdTempStaged, Temps, NoTemp
    <2> HIDE DEF temp
    <2> QED
      BY <2>1, <2>2, <2>3, IdTempStepKeeps DEF Saving
  <1>8. ASSUME NEW p \in IdProcs, IdWrite(p) PROVE IdIInv'
    <2> DEFINE temp == [idTemp[p] EXCEPT !.content = idNew[p]]
    <2>1. TempStep(p, "writing", "syncing", temp) /\ idPc[p] = "writing"
      BY <1>8 DEF IdWrite, TempStep, At
    <2>2. temp \in Temps
      BY IdConstants DEF IdIInv, IdTypeOK, Temps, NoTemp, Contents
    <2>3. temp.content = idNew[p] /\ temp.private
      BY <2>1, IdConstants DEF IdIInv, IdTypeOK, IdTempStaged, Temps, NoTemp
    <2> HIDE DEF temp
    <2> QED
      BY <2>1, <2>2, <2>3, IdTempStepKeeps DEF Saving
  <1>9. ASSUME NEW p \in IdProcs, IdSync(p) PROVE IdIInv'
    <2> DEFINE temp == [idTemp[p] EXCEPT !.synced = TRUE]
    <2>1. TempStep(p, "syncing", "replacing", temp) /\ idPc[p] = "syncing"
      BY <1>9 DEF IdSync, TempStep, At
    <2>2. temp \in Temps
      BY IdConstants DEF IdIInv, IdTypeOK, Temps, NoTemp, Contents
    <2>3. temp.content = idNew[p] /\ temp.private /\ temp.synced
      BY <2>1, IdConstants DEF IdIInv, IdTypeOK, IdTempStaged, Temps, NoTemp
    <2> HIDE DEF temp
    <2> QED
      BY <2>1, <2>2, <2>3, IdTempStepKeeps DEF Saving
  <1>10. ASSUME NEW p \in IdProcs, IdReplace(p) PROVE IdIInv'
    <2>1. IdTypeOK'
      BY <1>10, IdConstants DEF IdReplace, At, Goes, Handed, FreeOf, idVars, idDisk, idProcess,
         idHistory, IdIInv, IdTypeOK, InSection, IdLocked, IdStaged, IdTempStaged, Saving
    <2>2. IdLocked' /\ IdStaged' /\ IdTempStaged'
      BY <1>10, IdConstants DEF IdReplace, At, Goes, Handed, FreeOf, idVars, idDisk, idProcess,
         idHistory, IdIInv, IdTypeOK, InSection, IdLocked, IdStaged, IdTempStaged, Saving, Temps,
         NoTemp
    <2>3. IdAgrees' /\ IdFirstStays' /\ OneIdentity' /\ IdentityStays'
      <3>1. /\ idFile = NoKeys /\ idNew[p] # NoKeys /\ idFile' = idNew[p]
            /\ idMine' = [idMine EXCEPT ![p] = idNew[p]] /\ idLost' = idLost
            /\ idFirst' = IF idFirst = NoKeys THEN idNew[p] ELSE idFirst
        BY <1>10 DEF IdReplace, At, Handed, IdIInv, IdStaged, IdTempStaged, Saving
      <3>2. NoKeys # Damaged
        BY IdConstants DEF NoKeys, Damaged
      <3>3. \A q \in IdProcs : idMine[q] = NoKeys
        BY <3>1, <3>2 DEF IdIInv, IdAgrees
      <3>4. idLost \/ idFirst = NoKeys
        BY <3>1, <3>2 DEF IdIInv, IdFirstStays
      <3> QED
        BY <3>1, <3>3, <3>4 DEF IdIInv, IdTypeOK, IdAgrees, IdFirstStays, OneIdentity, IdentityStays
    <2>4. IdOnDisk' /\ NeverTorn' /\ KeysPrivate'
      BY <1>10, IdConstants DEF IdReplace, At, Goes, Handed, FreeOf, idVars, idDisk, idProcess,
         idHistory, IdIInv, IdTypeOK, IdStaged, IdTempStaged, Saving, IdOnDisk, NeverTorn,
         KeysPrivate, NoTemp
    <2>5. IdGuarded' /\ OneAtSignIn'
      BY <1>10 DEF IdReplace, At, Goes, Handed, FreeOf, idVars, idDisk, idProcess, idHistory,
         IdIInv, IdTypeOK, IdGuarded, OneAtSignIn
    <2> QED
      BY <2>1, <2>2, <2>3, <2>4, <2>5 DEF IdIInv
  <1>11. ASSUME IdFlush PROVE IdIInv'
    <2>1. IdTypeOK'
      BY <1>11, IdConstants DEF IdFlush, idVars, idDisk, idProcess, idHistory, IdIInv, IdTypeOK,
         InSection, IdLocked, IdStaged, IdTempStaged, Saving
    <2>2. IdLocked' /\ IdStaged' /\ IdTempStaged'
      BY <1>11, IdConstants DEF IdFlush, idVars, idDisk, idProcess, idHistory, IdIInv, IdTypeOK,
         InSection, IdLocked, IdStaged, IdTempStaged, Saving, Temps, NoTemp
    <2>3. IdAgrees' /\ IdFirstStays' /\ OneIdentity' /\ IdentityStays'
      BY <1>11, IdConstants DEF IdFlush, idVars, idDisk, idProcess, idHistory, IdIInv, IdTypeOK,
         InSection, IdLocked, IdStaged, Saving, IdAgrees, IdFirstStays, OneIdentity, IdentityStays
    <2>4. IdOnDisk' /\ NeverTorn' /\ KeysPrivate'
      BY <1>11, IdConstants DEF IdFlush, idVars, idDisk, idProcess, idHistory, IdIInv, IdTypeOK,
         IdStaged, IdTempStaged, Saving, IdOnDisk, NeverTorn, KeysPrivate, NoTemp
    <2>5. IdGuarded' /\ OneAtSignIn'
      BY <1>11 DEF IdFlush, idVars, idDisk, idProcess, idHistory, IdIInv, IdTypeOK, IdGuarded,
         OneAtSignIn
    <2> QED
      BY <2>1, <2>2, <2>3, <2>4, <2>5 DEF IdIInv
  <1>12. ASSUME IdPowerLoss PROVE IdIInv'
    <2>1. IdTypeOK'
      <3>1. idFile' \in Contents /\ idDurable' \in Contents /\ idFaults' \in 0..IdMaxFaults
        BY <1>12, IdConstants DEF IdPowerLoss, Fault, IdIInv, IdTypeOK
      <3>2. {idTemp[p] : p \in IdProcs} \subseteq Temps
        BY DEF IdIInv, IdTypeOK
      <3>3. idTemp' \in [IdProcs -> Temps] /\ idLeft' \subseteq Temps
        BY <1>12, <3>2, IdConstants DEF IdPowerLoss, IdIInv, IdTypeOK
      <3>4. idNew' \in [IdProcs -> 0..IdMaxKeys] /\ idMine' \in [IdProcs -> 0..IdMaxKeys]
        BY <1>12, IdConstants DEF IdPowerLoss, NoKeys
      <3>5. idPc' \in [IdProcs -> InSection \cup {"off", "waiting", "running"}] /\ idLock' = 0
        BY <1>12 DEF IdPowerLoss
      <3>6. {idPrivate, idSynced, idWindows}' \subseteq BOOLEAN /\ {idLost, idHurt, idUnguarded}' \subseteq BOOLEAN
        BY <1>12 DEF IdPowerLoss, IdIInv, IdTypeOK
      <3>7. idHandle' \in [IdProcs -> BOOLEAN] /\ idAtSignIn' \in [IdProcs -> BOOLEAN]
        BY <1>12 DEF IdPowerLoss
      <3> QED
        BY <1>12, <3>1, <3>3, <3>4, <3>5, <3>6, <3>7 DEF IdPowerLoss, IdIInv, IdTypeOK
    <2>2. IdLocked' /\ IdStaged' /\ IdTempStaged'
      BY <1>12, IdConstants DEF IdPowerLoss, Fault, idVars, idDisk, idProcess, idHistory, IdIInv,
         IdTypeOK, InSection, IdLocked, IdStaged, IdTempStaged, Saving, Temps, NoTemp
    <2>3. IdAgrees' /\ IdFirstStays' /\ OneIdentity' /\ IdentityStays'
      BY <1>12, IdConstants DEF IdPowerLoss, Fault, idVars, idDisk, idProcess, idHistory, IdIInv,
         IdTypeOK, InSection, IdLocked, IdStaged, Saving, IdAgrees, IdFirstStays, OneIdentity,
         IdentityStays
    <2>4. IdOnDisk' /\ NeverTorn' /\ KeysPrivate'
      BY <1>12, IdConstants DEF IdPowerLoss, Fault, idVars, idDisk, idProcess, idHistory, IdIInv,
         IdTypeOK, IdStaged, IdTempStaged, Saving, IdOnDisk, NeverTorn, KeysPrivate, NoTemp
    <2>5. IdGuarded' /\ OneAtSignIn'
      BY <1>12 DEF IdPowerLoss, Fault, idVars, idDisk, idProcess, idHistory, IdIInv, IdTypeOK,
         IdGuarded, OneAtSignIn
    <2> QED
      BY <2>1, <2>2, <2>3, <2>4, <2>5 DEF IdIInv
  <1>13. ASSUME IdDamage PROVE IdIInv'
    <2>1. IdTypeOK'
      BY <1>13, IdConstants DEF IdDamage, Fault, idVars, idDisk, idProcess, idHistory, IdIInv,
         IdTypeOK, InSection, IdLocked, IdStaged, IdTempStaged, Saving
    <2>2. IdLocked' /\ IdStaged' /\ IdTempStaged'
      BY <1>13, IdConstants DEF IdDamage, Fault, idVars, idDisk, idProcess, idHistory, IdIInv,
         IdTypeOK, InSection, IdLocked, IdStaged, IdTempStaged, Saving, Temps, NoTemp
    <2>3. IdAgrees' /\ IdFirstStays' /\ OneIdentity' /\ IdentityStays'
      BY <1>13, IdConstants DEF IdDamage, Fault, idVars, idDisk, idProcess, idHistory, IdIInv,
         IdTypeOK, InSection, IdLocked, IdStaged, Saving, IdAgrees, IdFirstStays, OneIdentity,
         IdentityStays
    <2>4. IdOnDisk' /\ NeverTorn' /\ KeysPrivate'
      BY <1>13, IdConstants DEF IdDamage, Fault, idVars, idDisk, idProcess, idHistory, IdIInv,
         IdTypeOK, IdStaged, IdTempStaged, Saving, IdOnDisk, NeverTorn, KeysPrivate, NoTemp
    <2>5. IdGuarded' /\ OneAtSignIn'
      BY <1>13 DEF IdDamage, Fault, idVars, idDisk, idProcess, idHistory, IdIInv, IdTypeOK,
         IdGuarded, OneAtSignIn
    <2> QED
      BY <2>1, <2>2, <2>3, <2>4, <2>5 DEF IdIInv
  <1>14. ASSUME NEW p \in IdProcs, IdTimesOut(p) \/ IdReadDamaged(p) \/ IdFails(p) \/ IdExit(p) \/ IdCrash(p)
        PROVE IdIInv'
    <2>1. idFaults' \in 0..IdMaxFaults
      BY <1>14, IdConstants DEF IdTimesOut, IdReadDamaged, IdFails, IdExit, IdCrash, Fault, IdIInv, IdTypeOK
    <2> QED
      BY <1>14, <2>1, IdGoneKeeps DEF IdTimesOut, IdReadDamaged, IdFails, IdExit, IdCrash, idHistory
  <1> QED
    BY <1>0, <1>1, <1>2, <1>3, <1>4, <1>5, <1>6, <1>7, <1>8, <1>9, <1>10, <1>11, <1>12, <1>13, <1>14 DEF IdNext, IdSteps

\* IdIInv holds in every state.
LEMMA IdInvariant == IdSpec => []IdIInv
  <1>1. IdInit => IdIInv
    <2> SUFFICES ASSUME IdInit PROVE IdIInv
      OBVIOUS
    <2>1. IdTypeOK
      <3>1. /\ idFile \in Contents /\ idDurable \in Contents /\ idKeys \in 0..IdMaxKeys /\ idFirst \in 0..IdMaxKeys
            /\ idLaunches \in 0..IdMaxLaunches /\ idFaults \in 0..IdMaxFaults
        BY IdConstants DEF IdInit, NoKeys, Contents
      <3>2. /\ idTemp \in [IdProcs -> Temps] /\ idNew \in [IdProcs -> 0..IdMaxKeys] /\ idMine \in [IdProcs -> 0..IdMaxKeys]
            /\ idPc \in [IdProcs -> InSection \cup {"off", "waiting", "running"}]
        BY IdConstants DEF IdInit, NoKeys
      <3>3. idHandle \in [IdProcs -> BOOLEAN] /\ idAtSignIn \in [IdProcs -> BOOLEAN]
        BY DEF IdInit
      <3>4. {idPrivate, idSynced, idWindows} \subseteq BOOLEAN /\ {idLost, idHurt, idUnguarded} \subseteq BOOLEAN
        BY DEF IdInit
      <3> QED
        BY <3>1, <3>2, <3>3, <3>4 DEF IdInit, IdTypeOK
    <2>2. IdLocked /\ IdStaged /\ IdTempStaged /\ IdAgrees
      BY IdConstants DEF IdInit, IdLocked, IdStaged, IdTempStaged, IdAgrees, InSection, Saving
    <2>3. IdFirstStays /\ IdOnDisk /\ IdGuarded /\ NeverTorn
      BY IdConstants DEF IdInit, IdFirstStays, IdOnDisk, IdGuarded, NeverTorn, NoKeys, Damaged
    <2>4. OneIdentity /\ IdentityStays /\ KeysPrivate /\ OneAtSignIn
      BY DEF IdInit, OneIdentity, IdentityStays, KeysPrivate, OneAtSignIn, NoTemp
    <2> QED
      BY <2>1, <2>2, <2>3, <2>4 DEF IdIInv
  <1> QED
    BY <1>1, IdInductive, PTL DEF IdSpec

\* Whatever processes of a user are launched, end, crash or lose power at any
\* step of FileConfigStorage.load_or_create_identity, those that run go by one
\* identity, it stays, and its file is never torn nor readable by others.
THEOREM IdSafety == IdSpec => []IdSafe
  <1>1. IdIInv => IdSafe
    BY DEF IdIInv, IdSafe
  <1> QED
    BY <1>1, IdInvariant, PTL

-----------------------------------------------------------------------------
(* Console.  Until the loop is closed there is one loop, the coordinator's   *)
(* once it has one; only a coordinator that was made can be running or up.   *)

CnShutting == {"stop", "stopping", "close", "storage", "exited"}
CnCommandFits == cnCommand.error \/ cnCommand.args >= Indexes(cnCommand.type)

CnShape ==
  /\ cnPhase \in {"fresh", "read", "call", "run"} \cup CnShutting
  /\ cnInit \in BOOLEAN /\ cnMade \in BOOLEAN /\ cnRunning \in BOOLEAN
  /\ cnUp \in BOOLEAN /\ cnClosed \in BOOLEAN /\ cnCut \in BOOLEAN
  /\ cnTodo \in Seq(CnCoroutines)
  /\ cnLoop \in Nat /\ cnLoops \in Nat /\ cnHome \in Nat
  /\ cnTasks \subseteq CnCoroutines \cup {"prune", "work", "started"}
  /\ cnRead \in 0..CnMaxLines
  /\ CnCommandFits

\* A handler that is running has a coroutine left.
CnHasWork == cnPhase \in {"call", "run"} => cnTodo # <<>>
CnOneLoop == cnPhase \notin {"storage", "exited"} /\ cnHome # 0 => cnLoop = cnHome
CnMadeFirst ==
  /\ cnPhase = "run" /\ Head(cnTodo) = "start" => cnMade
  /\ "start" \in cnTasks \/ cnRunning \/ cnUp => cnMade
\* What each stage of the shutdown has done.
CnStaged ==
  /\ cnPhase = "stopping" => ~cnRunning
  /\ cnPhase \in {"close", "storage"} => ~cnRunning /\ ~cnUp
  /\ cnPhase = "storage" => cnTasks = {} /\ cnLoop = 0

CnIInv == CnShape /\ CnHasWork /\ CnOneLoop /\ CnMadeFirst /\ CnStaged /\ ExitReleases

\* The command a line is parsed to has the arguments its handler takes.
FittingCommands ==
  {c \in [type : CnNames \cup {"empty", "dm", "initialize_chat", "unknown"}, args : Nat, error : BOOLEAN] :
     c.error \/ c.args >= Indexes(c.type)}
LEMMA ParseFits ==
  ASSUME NEW l \in CnLines
  PROVE  Parse(l) \in FittingCommands
  <1>1. /\ l.words \in 0..3 /\ l.chat \in BOOLEAN /\ l.slash \in BOOLEAN /\ l.name \in CnNames
        /\ l.chat => l.words > 1
    BY DEF CnLines
  \* One name for what each branch of the parser yields.
  <1> DEFINE empty == Cmd("empty", 0, FALSE)
             noOne == Cmd("dm", 0, TRUE)
             at == IF l.words = 1 THEN Cmd("dm", 1, TRUE) ELSE Cmd("dm", 2, FALSE)
             init == Cmd("initialize_chat", l.words - 2, FALSE)
             one == IF l.words = 1 THEN Cmd(l.name, 0, TRUE) ELSE Cmd(l.name, 1, FALSE)
             dm == ParseDm(l)
             hangup == Cmd("disconnect", IF l.words = 1 THEN 0 ELSE 1, FALSE)
             free == Cmd(l.name, l.words - 1, FALSE)
             unknown == Cmd("unknown", l.words, TRUE)
  <1>2. {empty, noOne, at, dm, unknown} \subseteq FittingCommands
    BY <1>1 DEF FittingCommands, Cmd, Indexes, ParseDm
  <1>3. l.words > 0 /\ l.name = "initialize" /\ ~l.slash /\ l.chat => init \in FittingCommands
    BY <1>1 DEF FittingCommands, Cmd, Indexes
  <1>4. l.words > 0 /\ l.name \in OneArg => one \in FittingCommands
    BY <1>1 DEF FittingCommands, Cmd, Indexes, OneArg
  <1>5. l.words > 0 /\ l.name = "disconnect" => hangup \in FittingCommands
    BY <1>1 DEF FittingCommands, Cmd, Indexes
  <1>6. l.words > 0 /\ l.name \in Free => free \in FittingCommands
    BY <1>1 DEF FittingCommands, Cmd, Indexes, Free
  <1> HIDE DEF empty, noOne, at, init, one, dm, hangup, free, unknown
  <1>7. (CASE l.words = 0 -> empty
           [] l.words > 0 /\ l.name = "@" -> noOne
           [] l.words > 0 /\ l.name = "@peer" -> at
           [] l.words > 0 /\ l.name = "initialize" /\ ~l.slash /\ l.chat -> init
           [] l.words > 0 /\ l.name \in OneArg -> one
           [] l.words > 0 /\ l.name = "dm" -> dm
           [] l.words > 0 /\ l.name = "disconnect" -> hangup
           [] l.words > 0 /\ l.name \in Free -> free
           [] OTHER -> unknown) \in FittingCommands
    BY <1>1, <1>2, <1>3, <1>4, <1>5, <1>6
  <1> QED
    BY <1>7 DEF Parse, empty, noOne, at, init, one, dm, hangup, free, unknown

LEMMA OwnType == ASSUME NEW c, NEW slash PROVE Own(c, slash) \in Seq(CnCoroutines)
  <1>1. /\ <<>> \in Seq(CnCoroutines) /\ <<"send">> \in Seq(CnCoroutines)
        /\ <<"connect">> \in Seq(CnCoroutines) /\ <<"announce">> \in Seq(CnCoroutines)
        /\ <<"hangup">> \in Seq(CnCoroutines) /\ <<"hangup_all">> \in Seq(CnCoroutines)
        /\ <<"detect">> \in Seq(CnCoroutines)
    BY DEF CnCoroutines
  <1> QED
    BY <1>1 DEF Own

LEMMA EntersLoop ==
  ASSUME CnIInv, cnPhase \in {"call", "stop"}, Enters
  PROVE  cnLoop' \in Nat /\ cnLoops' \in Nat /\ cnLoop' # 0 /\ (cnHome # 0 => cnLoop' = cnHome)
  BY DEF CnIInv, CnShape, CnOneLoop, CnShutting, Enters, LoopFor

LEMMA CnInductive ==
  ASSUME CnIInv, [CnNext]_cnVars
  PROVE  CnIInv'
  <1> USE DEF CnIInv, CnShape, CnHasWork, CnOneLoop, CnMadeFirst, CnStaged, ExitReleases,
              CnShutting, CnCommandFits
  <1>1. CASE CnStartup
    BY <1>1 DEF CnStartup, cnLoopVars
  <1>2. CASE CnEndOfInput
    BY <1>2 DEF CnEndOfInput, cnLoopVars
  <1>3. CASE CnCall
    <2>1. Enters /\ cnPhase = "call"
      BY <1>3 DEF CnCall
    <2>2. cnLoop' \in Nat /\ cnLoops' \in Nat /\ cnLoop' # 0 /\ (cnHome # 0 => cnLoop' = cnHome)
      BY <2>1, EntersLoop
    <2> QED
      BY <1>3, <2>2 DEF CnCall
  <1>4. CASE CnNoIdentity
    BY <1>4 DEF CnNoIdentity, cnLoopVars
  <1>5. CASE CnReturns
    BY <1>5 DEF CnReturns, cnLoopVars
  <1>6. CASE CnRaises
    BY <1>6 DEF CnRaises, cnLoopVars
  <1>7. CASE CnInterrupted
    BY <1>7 DEF CnInterrupted, cnLoopVars
  <1>8. CASE CnLeftoverStart
    BY <1>8 DEF CnLeftoverStart, LoopRuns, cnLoopVars
  <1>9. CASE CnTaskEnds
    BY <1>9 DEF CnTaskEnds, LoopRuns, cnLoopVars
  <1>10. CASE CnStop
    <2>1. CASE cnMade
      <3>1. Enters /\ cnPhase = "stop"
        BY <1>10, <2>1 DEF CnStop, NeedsStop
      <3>2. cnLoop' \in Nat /\ cnLoops' \in Nat /\ (cnHome # 0 => cnLoop' = cnHome)
        BY <3>1, EntersLoop
      <3> QED
        BY <1>10, <2>1, <3>2 DEF CnStop, NeedsStop
    <2>2. CASE ~cnMade
      BY <1>10, <2>2 DEF CnStop, NeedsStop, cnLoopVars
    <2> QED
      BY <2>1, <2>2
  <1>11. CASE CnStopped
    BY <1>11 DEF CnStopped, cnLoopVars
  <1>12. CASE CnCloseLoop
    BY <1>12 DEF CnCloseLoop, cnLoopVars
  <1>13. CASE CnCloseStorage
    BY <1>13 DEF CnCloseStorage, cnLoopVars
  <1>14. CASE CnStopCut
    BY <1>14 DEF CnStopCut, cnLoopVars
  <1>15. ASSUME NEW l \in CnLines, CnDispatch(l) PROVE CnIInv'
    <2>1. cnTodo' \in Seq(CnCoroutines)
      <3>1. <<"start">> \in Seq(CnCoroutines) /\ <<>> \in Seq(CnCoroutines)
        BY DEF CnCoroutines
      <3> QED
        BY <1>15, <3>1, OwnType DEF CnDispatch
    <2>2. CnCommandFits'
      BY <1>15, ParseFits DEF CnDispatch, FittingCommands
    <2>3. cnRead' \in 0..CnMaxLines
      BY <1>15, CnAssumption DEF CnDispatch
    <2>4. cnInit' \in BOOLEAN
      BY <1>15 DEF CnDispatch
    <2>5. /\ cnPhase = "read" /\ cnPhase' \in {"stop", "read", "call"}
          /\ cnPhase' = "call" => cnTodo' # <<>>
          /\ UNCHANGED <<cnMade, cnRunning, cnUp, cnLoopVars, cnTasks, cnClosed, cnCut>>
      BY <1>15 DEF CnDispatch
    <2> QED
      BY <2>1, <2>2, <2>3, <2>4, <2>5 DEF cnLoopVars
  <1>16. CASE UNCHANGED cnVars
    BY <1>16 DEF cnVars, cnLoopVars
  <1> QED
    BY <1>1, <1>2, <1>3, <1>4, <1>5, <1>6, <1>7, <1>8, <1>9, <1>10, <1>11, <1>12, <1>13, <1>14,
       <1>15, <1>16 DEF CnNext

\* ConsoleSafety: whatever lines are read and wherever a command fails or Ctrl-C
\* strikes, coroutines run on the coordinator's loop, handlers find their
\* arguments, and run returns with everything released.
THEOREM ConsoleSafety == CnSpec => []CnSafe
  <1>1. CnInitial => CnIInv
    <2> SUFFICES ASSUME CnInitial PROVE CnIInv
      OBVIOUS
    <2>1. cnTodo \in Seq(CnCoroutines) /\ cnRead \in 0..CnMaxLines
      BY CnAssumption DEF CnInitial
    <2>2. CnCommandFits
      BY DEF CnInitial, CnCommandFits, Cmd, Indexes
    <2> QED
      BY <2>1, <2>2 DEF CnInitial, CnIInv, CnShape, CnHasWork, CnOneLoop, CnMadeFirst, CnStaged,
                        ExitReleases, CnShutting
  <1>2. CnIInv => CnSafe
    <2> SUFFICES ASSUME CnIInv PROVE CnSafe
      OBVIOUS
    <2>1. /\ {cnInit, cnMade, cnRunning, cnUp, cnClosed, cnCut} \subseteq BOOLEAN
          /\ {cnLoop, cnLoops, cnHome} \subseteq Nat
      BY DEF CnIInv, CnShape
    <2>2. SameLoop
      BY DEF CnIInv, CnOneLoop, SameLoop, LoopRuns
    <2> QED
      BY <2>1, <2>2 DEF CnIInv, CnShape, CnSafe, CnTypeOK, CnCommandFits, CnShutting
  <1> QED
    BY <1>1, <1>2, CnInductive, PTL DEF CnSpec
-----------------------------------------------------------------------------
(* Shell.  The task that shuts down is the only one that may, and as long as *)
(* quitting was asked for once there is no other that would exit.            *)

ShTaskKinds == {"none", "start", "retry", "switch", "offline", "quit", "gather", "stop"}
ShShape ==
  /\ shActive \in Transports /\ shServing \in BOOLEAN /\ shOffline \in BOOLEAN
  /\ shStopped \in BOOLEAN /\ shDown \in BOOLEAN /\ shExited \in BOOLEAN
  /\ shPopped \in BOOLEAN /\ shSilent \in BOOLEAN
  /\ shTasks \in [ShSlots -> [kind : ShTaskKinds, about : Transports]]
  /\ shEvents \in Seq(Transports) /\ shScreens \in Seq(Recovery \cup Plain)
  /\ shQuits \in Nat /\ shOps \in 0..ShMaxOps

Closing(s) == shTasks[s].kind \in {"gather", "stop"}
ShOneCloses ==
  /\ shDown /\ ~shExited => \E s \in ShSlots : Closing(s)
  /\ \A s \in ShSlots : Closing(s) => shDown
\* The quit that was asked for is waiting its turn, or has begun the shutdown.
ShQuitOnce ==
  /\ shQuits = 0 => ~shDown /\ \A s \in ShSlots : shTasks[s].kind # "quit"
  /\ shQuits = 1 =>
       \A s \in ShSlots : shTasks[s].kind = "quit" =>
         ~shDown /\ \A r \in ShSlots : shTasks[r].kind = "quit" => r = s
  /\ shExited => shDown

ShIInv ==
  ShShape /\ ShOneCloses /\ ShQuitOnce /\ OneRecoveryDialog /\ FailurePutToUser
  /\ ExitsStoppedAtOneQuit

-----------------------------------------------------------------------------
(* The stack of dialogs.                                                     *)
OneOf(q) == \A i, j \in DOMAIN q : q[i] \in Recovery /\ q[j] \in Recovery => i = j
SomeOf(q) == \E i \in DOMAIN q : q[i] \in Recovery

LEMMA FrontKeeps ==
  ASSUME NEW q \in Seq(Recovery \cup Plain), q # <<>>, OneOf(q)
  PROVE  /\ Front(q) \in Seq(Recovery \cup Plain) /\ OneOf(Front(q))
         /\ Last(q) \notin Recovery /\ SomeOf(q) => SomeOf(Front(q))
         /\ Last(q) \in Recovery \cup Plain
  <1>1. Len(q) \in Nat \ {0} /\ DOMAIN q = 1..Len(q)
    OBVIOUS
  <1>2. Front(q) = [i \in 1..(Len(q) - 1) |-> q[i]]
    BY DEF Front
  <1>3. DOMAIN Front(q) = 1..(Len(q) - 1) /\ \A i \in 1..(Len(q) - 1) : Front(q)[i] = q[i]
    BY <1>2
  <1>4. Front(q) \in Seq(Recovery \cup Plain)
    BY <1>1, <1>2
  <1>5. OneOf(Front(q))
    BY <1>1, <1>3 DEF OneOf
  <1>6. ASSUME Last(q) \notin Recovery, SomeOf(q) PROVE SomeOf(Front(q))
    <2>1. PICK i \in 1..Len(q) : q[i] \in Recovery
      BY <1>1, <1>6 DEF SomeOf
    <2>2. i # Len(q)
      BY <1>6, <2>1 DEF Last
    <2> DEFINE n == Len(q)
    <2>3. n \in Nat /\ i \in 1..n /\ i # n
      BY <2>2
    <2>4. i \in 1..(n - 1)
      <3> HIDE DEF n
      <3> QED
        BY <2>3
    <2>5. i \in DOMAIN Front(q) /\ Front(q)[i] = q[i]
      BY <1>3, <2>4
    <2> QED
      BY <2>1, <2>5 DEF SomeOf
  <1> QED
    BY <1>1, <1>4, <1>5, <1>6 DEF Last

LEMMA PushKeeps ==
  ASSUME NEW q \in Seq(Recovery \cup Plain), OneOf(q), NEW d \in Recovery \cup Plain,
         d \in Plain \/ ~SomeOf(q)
  PROVE  /\ Append(q, d) \in Seq(Recovery \cup Plain) /\ OneOf(Append(q, d))
         /\ SomeOf(q) \/ d \in Recovery => SomeOf(Append(q, d))
  <1>1. Len(q) \in Nat /\ DOMAIN q = 1..Len(q) /\ Append(q, d) \in Seq(Recovery \cup Plain)
    OBVIOUS
  <1>2. /\ DOMAIN Append(q, d) = 1..(Len(q) + 1)
        /\ \A i \in 1..Len(q) : Append(q, d)[i] = q[i]
        /\ Append(q, d)[Len(q) + 1] = d
    OBVIOUS
  <1>3. Plain \cap Recovery = {}
    BY DEF Plain, Recovery, Transports
  <1>4. OneOf(Append(q, d))
    BY <1>1, <1>2, <1>3 DEF OneOf, SomeOf
  <1> QED
    BY <1>1, <1>2, <1>4 DEF SomeOf

\* Opening the recovery dialog leaves one open, and only one.
LEMMA PresentKeeps ==
  ASSUME ShShape, OneRecoveryDialog, NEW t \in Transports, Present(t)
  PROVE  shScreens' \in Seq(Recovery \cup Plain) /\ OneRecoveryDialog' /\ DialogOpen'
  <1>1. shScreens \in Seq(Recovery \cup Plain) /\ OneOf(shScreens) /\ (DialogOpen <=> SomeOf(shScreens))
    BY DEF ShShape, OneRecoveryDialog, OneOf, SomeOf, DialogOpen
  <1>2. t \in Recovery
    BY DEF Recovery
  <1>3. shScreens' \in Seq(Recovery \cup Plain) /\ OneOf(shScreens') /\ SomeOf(shScreens')
    BY <1>1, <1>2, PushKeeps DEF Present
  <1> QED
    BY <1>3 DEF OneRecoveryDialog, OneOf, SomeOf, DialogOpen

\* Closing the top dialog; one that is not about recovery leaves that one open.
LEMMA PopKeeps ==
  ASSUME ShShape, OneRecoveryDialog, shScreens # <<>>, shScreens' = Front(shScreens)
  PROVE  /\ shScreens' \in Seq(Recovery \cup Plain) /\ OneRecoveryDialog'
         /\ ~TopDialog /\ DialogOpen => DialogOpen'
  <1>1. shScreens \in Seq(Recovery \cup Plain) /\ OneOf(shScreens) /\ (DialogOpen <=> SomeOf(shScreens))
    BY DEF ShShape, OneRecoveryDialog, OneOf, SomeOf, DialogOpen
  <1>2. /\ shScreens' \in Seq(Recovery \cup Plain) /\ OneOf(shScreens')
        /\ Last(shScreens) \notin Recovery /\ SomeOf(shScreens) => SomeOf(shScreens')
    BY <1>1, FrontKeeps
  <1> QED
    BY <1>1, <1>2 DEF OneRecoveryDialog, OneOf, SomeOf, DialogOpen, TopDialog

-----------------------------------------------------------------------------
(* The background tasks.                                                     *)
LEMMA PostType ==
  ASSUME ShShape, NEW t \in Transports, Post(t)
  PROVE  shEvents' \in Seq(Transports) /\ shEvents' # <<>>
  BY DEF ShShape, Post

\* A task other than the one that shuts down ends: the others are as they were.
LEMMA EndKeeps ==
  ASSUME ShShape, ShOneCloses, ShQuitOnce, NEW s \in ShSlots, ~Closing(s), Ends(s),
         UNCHANGED <<shDown, shExited, shQuits>>
  PROVE  /\ shTasks' \in [ShSlots -> [kind : ShTaskKinds, about : Transports]]
         /\ ShOneCloses' /\ ShQuitOnce'
  <1>1. NoTask \in [kind : ShTaskKinds, about : Transports]
    BY DEF NoTask, ShTaskKinds, Transports
  <1>2. shTasks' \in [ShSlots -> [kind : ShTaskKinds, about : Transports]]
    BY <1>1 DEF ShShape, Ends
  <1>3. /\ shTasks'[s] = NoTask /\ \A r \in ShSlots \ {s} : shTasks'[r] = shTasks[r]
        /\ NoTask.kind = "none"
    BY DEF ShShape, Ends, NoTask
  <1>4. ShOneCloses'
    BY <1>3 DEF ShOneCloses, Closing
  <1>5. ShQuitOnce'
    BY <1>3 DEF ShQuitOnce, Closing
  <1> QED
    BY <1>2, <1>4, <1>5

\* A task is started that is not a quit.
LEMMA SpawnKeeps ==
  ASSUME ShShape, ShOneCloses, ShQuitOnce, NEW kind \in {"retry", "switch", "offline"},
         NEW t \in Transports, Spawn(kind, t), UNCHANGED <<shDown, shExited, shQuits>>
  PROVE  /\ shTasks' \in [ShSlots -> [kind : ShTaskKinds, about : Transports]]
         /\ ShOneCloses' /\ ShQuitOnce' /\ \E s \in ShSlots : shTasks'[s] # NoTask
  <1>1. PICK s \in ShSlots : shTasks[s] = NoTask /\ shTasks' = [shTasks EXCEPT ![s] = ShTask(kind, t)]
    BY DEF Spawn, FreeSlot
  <1>2. ShTask(kind, t) \in [kind : ShTaskKinds, about : Transports] /\ ShTask(kind, t) # NoTask
    BY DEF ShTask, ShTaskKinds, NoTask
  <1>3. /\ shTasks' \in [ShSlots -> [kind : ShTaskKinds, about : Transports]]
        /\ shTasks'[s] = ShTask(kind, t) /\ \A r \in ShSlots \ {s} : shTasks'[r] = shTasks[r]
    BY <1>1, <1>2 DEF ShShape
  <1>4. ShTask(kind, t).kind = kind /\ NoTask.kind = "none"
    BY DEF ShTask, NoTask
  <1>5. ShOneCloses'
    BY <1>1, <1>3, <1>4 DEF ShOneCloses, Closing
  <1>6. ShQuitOnce'
    BY <1>1, <1>3, <1>4 DEF ShQuitOnce
  <1> QED
    BY <1>2, <1>3, <1>5, <1>6

-----------------------------------------------------------------------------
LEMMA ShInductive ==
  ASSUME ShIInv, [ShNext]_shVars
  PROVE  ShIInv'
  <1> USE DEF ShIInv
  <1>0. \A s \in ShSlots : shTasks[s].kind \in ShTaskKinds /\ shTasks[s].about \in Transports
    BY DEF ShShape
  <1>1. ASSUME NEW s \in ShSlots, ShDone(s) PROVE ShIInv'
    <2>1. ~Closing(s) /\ Ends(s) /\ UNCHANGED <<shDown, shExited, shQuits>>
      BY <1>1 DEF ShDone, Closing, shHistory
    <2>2. /\ shTasks' \in [ShSlots -> [kind : ShTaskKinds, about : Transports]]
          /\ ShOneCloses' /\ ShQuitOnce'
      BY <2>1, EndKeeps
    <2>3. ShShape'
      BY <1>0, <1>1, <2>2 DEF ShDone, ShShape, shHistory
    <2>4. OneRecoveryDialog'
      BY <1>1 DEF ShDone, OneRecoveryDialog
    <2>5. FailurePutToUser'
      BY <1>1 DEF ShDone, FailurePutToUser, shHistory
    <2>6. ExitsStoppedAtOneQuit'
      BY <1>1 DEF ShDone, ExitsStoppedAtOneQuit, ExitsStopped, Alive, shHistory
    <2> QED
      BY <2>2, <2>3, <2>4, <2>5, <2>6
  <1>2. ASSUME NEW s \in ShSlots, ShStartFails(s) PROVE ShIInv'
    <2>1. ~Closing(s) /\ Ends(s) /\ UNCHANGED <<shDown, shExited, shQuits>>
      BY <1>2 DEF ShStartFails, Closing, shHistory
    <2>2. /\ shTasks' \in [ShSlots -> [kind : ShTaskKinds, about : Transports]]
          /\ ShOneCloses' /\ ShQuitOnce'
      BY <2>1, EndKeeps
    <2>3. shEvents' \in Seq(Transports) /\ shEvents' # <<>>
      BY <1>2, PostType DEF ShStartFails, ShShape
    <2>4. ShShape'
      BY <1>2, <2>2, <2>3 DEF ShStartFails, ShShape, shHistory
    <2>5. OneRecoveryDialog' /\ FailurePutToUser' /\ ExitsStoppedAtOneQuit'
      BY <1>2, <2>3 DEF ShStartFails, OneRecoveryDialog, FailurePutToUser, ExitsStoppedAtOneQuit,
                        ExitsStopped, Alive, shHistory
    <2> QED
      BY <2>2, <2>4, <2>5
  <1>3. ASSUME NEW s \in ShSlots, NEW posted \in BOOLEAN, ShRetryFails(s, posted) PROVE ShIInv'
    <2>1. ~Closing(s) /\ Ends(s) /\ UNCHANGED <<shDown, shExited, shQuits>>
      BY <1>3 DEF ShRetryFails, Closing
    <2>2. /\ shTasks' \in [ShSlots -> [kind : ShTaskKinds, about : Transports]]
          /\ ShOneCloses' /\ ShQuitOnce'
      BY <2>1, EndKeeps
    <2>3. shEvents' \in Seq(Transports) /\ (posted => shEvents' # <<>>)
      BY <1>3, PostType DEF ShRetryFails, ShShape
    <2>4. /\ shScreens' \in Seq(Recovery \cup Plain) /\ OneRecoveryDialog'
          /\ shTasks[s].about = "bluetooth" => DialogOpen'
      <3>1. CASE shTasks[s].about = "bluetooth"
        BY <1>3, <3>1, PresentKeeps DEF ShRetryFails, Transports
      <3>2. CASE shTasks[s].about # "bluetooth"
        BY <1>3, <3>2 DEF ShRetryFails, OneRecoveryDialog, ShShape
      <3> QED
        BY <3>1, <3>2
    <2>5. shSilent' \in BOOLEAN /\ (~posted /\ shTasks[s].about = "lan" => shSilent')
      BY <1>3 DEF ShRetryFails, ShShape
    <2>6. ShShape'
      BY <1>3, <2>2, <2>3, <2>4, <2>5 DEF ShRetryFails, ShShape
    <2>7. FailurePutToUser'
      BY <1>0, <2>3, <2>4, <2>5 DEF FailurePutToUser, Transports
    <2>8. ExitsStoppedAtOneQuit'
      BY <1>3 DEF ShRetryFails, ExitsStoppedAtOneQuit, ExitsStopped, Alive
    <2> QED
      BY <2>2, <2>4, <2>6, <2>7, <2>8
  <1>4. ASSUME NEW s \in ShSlots, ShSwitchFails(s) PROVE ShIInv'
    <2>1. ~Closing(s) /\ Ends(s) /\ UNCHANGED <<shDown, shExited, shQuits>>
      BY <1>4 DEF ShSwitchFails, Closing, shHistory
    <2>2. /\ shTasks' \in [ShSlots -> [kind : ShTaskKinds, about : Transports]]
          /\ ShOneCloses' /\ ShQuitOnce'
      BY <2>1, EndKeeps
    <2>3. shActive' \in Transports
      BY <1>0, <1>4 DEF ShSwitchFails
    <2>4. shEvents' \in Seq(Transports) /\ shEvents' # <<>>
      BY <1>4, <2>3, PostType DEF ShSwitchFails
    <2>5. shScreens' \in Seq(Recovery \cup Plain) /\ OneRecoveryDialog'
      BY <1>4, <2>3, PresentKeeps DEF ShSwitchFails
    <2>6. ShShape'
      BY <1>4, <2>2, <2>3, <2>4, <2>5 DEF ShSwitchFails, ShShape, shHistory
    <2>7. FailurePutToUser' /\ ExitsStoppedAtOneQuit'
      BY <1>4, <2>4 DEF ShSwitchFails, FailurePutToUser, ExitsStoppedAtOneQuit, ExitsStopped, Alive, shHistory
    <2> QED
      BY <2>2, <2>5, <2>6, <2>7
  <1>5. ASSUME NEW s \in ShSlots, ShOfflineDone(s) PROVE ShIInv'
    <2>1. ~Closing(s) /\ Ends(s) /\ UNCHANGED <<shDown, shExited, shQuits>>
      BY <1>5 DEF ShOfflineDone, Closing, shHistory
    <2>2. /\ shTasks' \in [ShSlots -> [kind : ShTaskKinds, about : Transports]]
          /\ ShOneCloses' /\ ShQuitOnce'
      BY <2>1, EndKeeps
    <2>3. ShShape'
      BY <1>5, <2>2 DEF ShOfflineDone, ShShape, shHistory
    <2>4. OneRecoveryDialog' /\ FailurePutToUser' /\ ExitsStoppedAtOneQuit'
      BY <1>5 DEF ShOfflineDone, OneRecoveryDialog, FailurePutToUser, ExitsStoppedAtOneQuit,
                  ExitsStopped, Alive, shHistory
    <2> QED
      BY <2>2, <2>3, <2>4
  <1>6. ASSUME NEW s \in ShSlots, ShQuitBegins(s) PROVE ShIInv'
    <2>1. /\ \A r \in ShSlots : shTasks'[r] = IF r = s THEN ShTask("gather", "lan") ELSE NoTask
          /\ shTasks' \in [ShSlots -> [kind : ShTaskKinds, about : Transports]]
      BY <1>6 DEF ShQuitBegins, Cancelled, ShTask, NoTask, ShTaskKinds, Transports
    <2>2. ShTask("gather", "lan").kind = "gather" /\ NoTask.kind = "none"
      BY DEF ShTask, NoTask
    <2>3. ShOneCloses'
      BY <1>6, <2>1, <2>2 DEF ShOneCloses, Closing, ShQuitBegins
    <2>4. shQuits # 0 /\ shQuits' = shQuits /\ shDown' /\ ~shExited /\ shExited' = shExited
      BY <1>6 DEF ShQuitOnce, ShQuitBegins, shHistory, Alive
    <2>5. ShQuitOnce'
      BY <2>1, <2>2, <2>4 DEF ShQuitOnce
    <2>6. shServing' \in BOOLEAN
      BY <1>6 DEF ShQuitBegins, ShShape
    <2>7. ShShape'
      BY <1>6, <2>1, <2>6 DEF ShShape, ShQuitBegins, shHistory
    <2>8. OneRecoveryDialog' /\ FailurePutToUser' /\ ExitsStoppedAtOneQuit'
      BY <1>6, <2>4 DEF ShQuitBegins, OneRecoveryDialog, FailurePutToUser, ExitsStoppedAtOneQuit, ExitsStopped
    <2> QED
      BY <2>3, <2>5, <2>7, <2>8
  <1>7. ASSUME NEW s \in ShSlots, ShGathered(s) PROVE ShIInv'
    <2> DEFINE t == [shTasks[s] EXCEPT !.kind = "stop"]
    <2>1. t \in [kind : ShTaskKinds, about : Transports] /\ t.kind = "stop" /\ t # NoTask
      BY DEF ShShape, ShTaskKinds, NoTask
    <2>2. shTasks' = [shTasks EXCEPT ![s] = t]
      BY <1>7 DEF ShGathered, StopCalled
    <2> HIDE DEF t
    <2>3. /\ shTasks' \in [ShSlots -> [kind : ShTaskKinds, about : Transports]]
          /\ shTasks'[s] = t /\ \A r \in ShSlots \ {s} : shTasks'[r] = shTasks[r]
      BY <2>1, <2>2 DEF ShShape
    <2>4. ShOneCloses' /\ ShQuitOnce'
      BY <1>7, <2>1, <2>3 DEF ShGathered, ShOneCloses, ShQuitOnce, Closing, shHistory
    <2>5. ShShape'
      BY <1>7, <2>3 DEF ShGathered, ShShape, shCoord, shHistory
    <2>6. OneRecoveryDialog' /\ FailurePutToUser' /\ ExitsStoppedAtOneQuit'
      BY <1>7, <2>1, <2>3 DEF ShGathered, OneRecoveryDialog, FailurePutToUser, ExitsStoppedAtOneQuit,
                  ExitsStopped, shCoord, shHistory
    <2> QED
      BY <2>4, <2>5, <2>6
  <1>8. ASSUME NEW s \in ShSlots, ShStopEnds(s) PROVE ShIInv'
    <2>1. NoTask \in [kind : ShTaskKinds, about : Transports] /\ NoTask.kind = "none"
      BY DEF NoTask, ShTaskKinds, Transports
    <2>2. /\ shTasks' \in [ShSlots -> [kind : ShTaskKinds, about : Transports]]
          /\ shTasks'[s] = NoTask /\ \A r \in ShSlots \ {s} : shTasks'[r] = shTasks[r]
      BY <1>8, <2>1 DEF ShStopEnds, Ends, ShShape
    <2>3. shDown /\ shDown' = shDown /\ shExited' /\ shQuits' = shQuits
      BY <1>8 DEF ShStopEnds, ShOneCloses, Closing, shHistory
    <2>4. ShOneCloses' /\ ShQuitOnce'
      BY <2>1, <2>2, <2>3 DEF ShOneCloses, ShQuitOnce, Closing
    <2>5. ShShape'
      BY <1>8, <2>2 DEF ShStopEnds, ShShape, shHistory
    <2>6. OneRecoveryDialog' /\ FailurePutToUser' /\ ExitsStoppedAtOneQuit'
      BY <1>8, <2>3 DEF ShStopEnds, OneRecoveryDialog, FailurePutToUser, ExitsStoppedAtOneQuit, ExitsStopped
    <2> QED
      BY <2>4, <2>5, <2>6
  <1>9. ASSUME NEW s \in ShSlots, ShQuitAgain(s) PROVE ShIInv'
    <2>1. NoTask \in [kind : ShTaskKinds, about : Transports] /\ NoTask.kind = "none"
      BY DEF NoTask, ShTaskKinds, Transports
    <2>2. /\ shTasks' \in [ShSlots -> [kind : ShTaskKinds, about : Transports]]
          /\ shTasks'[s] = NoTask /\ \A r \in ShSlots \ {s} : shTasks'[r] = shTasks[r]
      BY <1>9, <2>1 DEF ShQuitAgain, Ends, ShShape
    <2>3. /\ shDown /\ shDown' = shDown /\ shExited' /\ shQuits' = shQuits
          /\ shQuits # 0 /\ shQuits # 1 /\ shQuits \in Nat
      BY <1>9 DEF ShQuitAgain, ShQuitOnce, ShShape, shHistory
    <2>4. ShOneCloses' /\ ShQuitOnce'
      BY <1>9, <2>1, <2>2, <2>3 DEF ShOneCloses, ShQuitOnce, Closing
    <2>5. ShShape'
      BY <1>9, <2>2 DEF ShQuitAgain, ShShape, shCoord, shHistory
    <2>6. OneRecoveryDialog' /\ FailurePutToUser' /\ ExitsStoppedAtOneQuit'
      BY <1>9, <2>3 DEF ShQuitAgain, OneRecoveryDialog, FailurePutToUser, ExitsStoppedAtOneQuit
    <2> QED
      BY <2>4, <2>5, <2>6
  <1>10. ASSUME UNCHANGED <<shTasks, shDown, shExited, shQuits>> PROVE ShOneCloses' /\ ShQuitOnce'
    BY <1>10 DEF ShOneCloses, ShQuitOnce, Closing
  <1>11. CASE ShLost
    <2>1. UNCHANGED <<shTasks, shDown, shExited, shQuits>> /\ ~shExited /\ shOps' \in 0..ShMaxOps
      BY <1>11, ShAssumption DEF ShLost, ShShape, ShOperation, Alive, shHistory
    <2>2. shEvents' \in Seq(Transports) /\ shEvents' # <<>>
      BY <1>11, PostType DEF ShLost, ShShape
    <2>3. ShShape'
      BY <1>11, <2>1, <2>2 DEF ShLost, ShShape, shHistory
    <2>4. OneRecoveryDialog' /\ FailurePutToUser' /\ ExitsStoppedAtOneQuit'
      BY <1>11, <2>1, <2>2 DEF ShLost, OneRecoveryDialog, FailurePutToUser, ExitsStoppedAtOneQuit, ExitsStopped
    <2> QED
      BY <1>10, <2>1, <2>3, <2>4
  <1>12. CASE ShBack
    <2>1. UNCHANGED <<shTasks, shDown, shExited, shQuits>> /\ ~shExited /\ shOps' \in 0..ShMaxOps
      BY <1>12, ShAssumption DEF ShBack, ShShape, ShOperation, Alive, shHistory
    <2>2. ShShape'
      BY <1>12, <2>1 DEF ShBack, ShShape, shHistory
    <2>3. OneRecoveryDialog' /\ FailurePutToUser' /\ ExitsStoppedAtOneQuit'
      BY <1>12, <2>1 DEF ShBack, OneRecoveryDialog, FailurePutToUser, ExitsStoppedAtOneQuit, ExitsStopped
    <2> QED
      BY <1>10, <2>1, <2>2, <2>3
  <1>13. CASE ShWarned
    <2>1. UNCHANGED <<shTasks, shDown, shExited, shQuits>> /\ ~shExited /\ shOps' \in 0..ShMaxOps
      BY <1>13, ShAssumption DEF ShWarned, ShShape, ShOperation, Alive, shHistory
    <2>2. shEvents' \in Seq(Transports) /\ shEvents' # <<>>
      BY <1>13, PostType DEF ShWarned, Transports
    <2>3. ShShape'
      BY <1>13, <2>1, <2>2 DEF ShWarned, ShShape, shCoord, shHistory
    <2>4. OneRecoveryDialog' /\ FailurePutToUser' /\ ExitsStoppedAtOneQuit'
      BY <1>13, <2>1, <2>2 DEF ShWarned, OneRecoveryDialog, FailurePutToUser, ExitsStoppedAtOneQuit, ExitsStopped
    <2> QED
      BY <1>10, <2>1, <2>3, <2>4
  <1>14. CASE ShHandle
    <2>1. UNCHANGED <<shTasks, shDown, shExited, shQuits>> /\ ~shExited
      BY <1>14 DEF ShHandle, Alive, shHistory
    <2>2. Head(shEvents) \in Transports /\ shEvents' \in Seq(Transports)
      BY <1>14 DEF ShHandle, ShShape
    <2>3. shScreens' \in Seq(Recovery \cup Plain) /\ OneRecoveryDialog' /\ DialogOpen'
      BY <1>14, <2>2, PresentKeeps DEF ShHandle
    <2>4. ShShape'
      BY <1>14, <2>1, <2>2, <2>3 DEF ShHandle, ShShape, shCoord, shHistory
    <2>5. FailurePutToUser' /\ ExitsStoppedAtOneQuit'
      BY <2>1, <2>3 DEF FailurePutToUser, ExitsStoppedAtOneQuit, ExitsStopped
    <2> QED
      BY <1>10, <2>1, <2>3, <2>4, <2>5
  <1>15. CASE ShClose
    <2>1. UNCHANGED <<shTasks, shDown, shExited, shQuits>> /\ ~shExited
      BY <1>15 DEF ShClose, Alive, shHistory
    <2>2. ~TopDialog
      BY <1>15 DEF ShClose, TopDialog, Plain, Recovery, Transports
    <2>3. shScreens' \in Seq(Recovery \cup Plain) /\ OneRecoveryDialog' /\ (DialogOpen => DialogOpen')
      BY <1>15, <2>2, PopKeeps DEF ShClose
    <2>4. ShShape'
      BY <1>15, <2>1, <2>3 DEF ShClose, ShShape, shCoord, shHistory
    <2>5. FailurePutToUser' /\ ExitsStoppedAtOneQuit'
      BY <1>15, <2>1, <2>3 DEF ShClose, FailurePutToUser, ExitsStoppedAtOneQuit, ExitsStopped, shCoord, shHistory
    <2> QED
      BY <1>10, <2>1, <2>3, <2>4, <2>5
  <1>16. CASE ShInfo
    <2>1. UNCHANGED <<shTasks, shDown, shExited, shQuits>> /\ ~shExited /\ shOps' \in 0..ShMaxOps
      BY <1>16, ShAssumption DEF ShInfo, ShShape, ShOperation, Alive, shHistory
    <2>2. shScreens' = <<"info">> /\ shScreens' \in Seq(Recovery \cup Plain) /\ ~DialogOpen
      BY <1>16 DEF ShInfo, Plain, DialogOpen
    <2>3. ShShape'
      BY <1>16, <2>1, <2>2 DEF ShInfo, ShShape, shCoord, shHistory
    <2>4. OneRecoveryDialog'
      BY <2>2 DEF OneRecoveryDialog
    <2>5. FailurePutToUser' /\ ExitsStoppedAtOneQuit'
      BY <1>16, <2>1, <2>2 DEF ShInfo, FailurePutToUser, ExitsStoppedAtOneQuit, ExitsStopped, shCoord, shHistory
    <2> QED
      BY <1>10, <2>1, <2>3, <2>4, <2>5
  <1>17. CASE ShQuit
    <2>1. /\ ~shExited /\ UNCHANGED <<shDown, shExited>> /\ shQuits' = shQuits + 1
          /\ shOps' \in 0..ShMaxOps
      BY <1>17, ShAssumption DEF ShQuit, ShShape, ShOperation, Alive
    <2>2. PICK s \in ShSlots : shTasks[s] = NoTask /\ shTasks' = [shTasks EXCEPT ![s] = ShTask("quit", "lan")]
      BY <1>17 DEF ShQuit, Spawn, FreeSlot
    <2>3. /\ ShTask("quit", "lan") \in [kind : ShTaskKinds, about : Transports]
          /\ ShTask("quit", "lan").kind = "quit" /\ ShTask("quit", "lan") # NoTask /\ NoTask.kind = "none"
      BY DEF ShTask, ShTaskKinds, NoTask, Transports
    <2>4. /\ shTasks' \in [ShSlots -> [kind : ShTaskKinds, about : Transports]]
          /\ shTasks'[s].kind = "quit" /\ shTasks'[s] # NoTask
          /\ \A r \in ShSlots \ {s} : shTasks'[r] = shTasks[r]
      BY <2>2, <2>3 DEF ShShape
    <2>5. ShOneCloses'
      BY <2>1, <2>2, <2>3, <2>4 DEF ShOneCloses, Closing
    <2>6. ShQuitOnce'
      BY <2>1, <2>2, <2>3, <2>4 DEF ShQuitOnce, ShShape
    <2>7. ShShape'
      BY <1>17, <2>1, <2>4 DEF ShQuit, ShShape, shCoord
    <2>8. OneRecoveryDialog' /\ FailurePutToUser' /\ ExitsStoppedAtOneQuit'
      BY <1>17, <2>1, <2>4 DEF ShQuit, OneRecoveryDialog, FailurePutToUser, ExitsStoppedAtOneQuit, ExitsStopped
    <2> QED
      BY <2>5, <2>6, <2>7, <2>8
  <1>18. ASSUME NEW kind \in {"retry", "switch", "offline"}, ShAnswer(kind) PROVE ShIInv'
    <2> DEFINE t == IF kind = "switch" THEN Elsewhere(Last(shScreens)) ELSE Last(shScreens)
    <2>1. t \in Transports
      BY <1>18 DEF ShAnswer, TopDialog, Recovery, Elsewhere, Transports
    <2>2. /\ Spawn(kind, t) /\ UNCHANGED <<shDown, shExited, shQuits>> /\ ~shExited
          /\ shOps' \in 0..ShMaxOps
      BY <1>18, ShAssumption DEF ShAnswer, ShShape, ShOperation, Alive, shHistory
    <2> HIDE DEF t
    <2>3. /\ shTasks' \in [ShSlots -> [kind : ShTaskKinds, about : Transports]]
          /\ ShOneCloses' /\ ShQuitOnce' /\ \E s \in ShSlots : shTasks'[s] # NoTask
      BY <2>1, <2>2, SpawnKeeps
    <2>4. shScreens' \in Seq(Recovery \cup Plain) /\ OneRecoveryDialog'
      BY <1>18, PopKeeps DEF ShAnswer, TopDialog
    <2>5. ShShape'
      BY <1>18, <2>2, <2>3, <2>4 DEF ShAnswer, ShShape, shCoord, shHistory
    <2>6. FailurePutToUser' /\ ExitsStoppedAtOneQuit'
      BY <2>2, <2>3 DEF FailurePutToUser, ExitsStoppedAtOneQuit, ExitsStopped
    <2> QED
      BY <2>3, <2>4, <2>5, <2>6
  <1>19. ASSUME NEW d \in Plain, ShKey(d) PROVE ShIInv'
    <2>1. UNCHANGED <<shTasks, shDown, shExited, shQuits>> /\ ~shExited /\ shOps' \in 0..ShMaxOps
      BY <1>19, ShAssumption DEF ShKey, ShShape, ShOperation, Alive
    <2>2. /\ shScreens' \in Seq(Recovery \cup Plain) /\ OneRecoveryDialog'
          /\ ~TopDialog /\ DialogOpen => DialogOpen'
      <3> DEFINE q == TopPopped(shScreens)
      <3>1. shScreens \in Seq(Recovery \cup Plain) /\ OneOf(shScreens)
        BY DEF ShShape, OneRecoveryDialog, OneOf
      <3>2. /\ q \in Seq(Recovery \cup Plain) /\ OneOf(q)
            /\ ~TopDialog /\ SomeOf(shScreens) => SomeOf(q)
        BY <3>1, FrontKeeps DEF TopPopped, TopDialog
      <3> HIDE DEF q
      <3>3. CASE shScreens # <<>> /\ shScreens' = Front(shScreens)
        BY <3>3, PopKeeps
      <3>4. CASE shScreens' = Append(q, d)
        <4>1. Append(q, d) \in Seq(Recovery \cup Plain) /\ OneOf(Append(q, d))
              /\ (SomeOf(q) => SomeOf(Append(q, d)))
          BY <3>2, PushKeeps
        <4> QED
          BY <3>2, <3>4, <4>1 DEF OneRecoveryDialog, OneOf, SomeOf, DialogOpen
      <3> QED
        BY <1>19, <3>3, <3>4 DEF ShKey, q
    <2>3. shPopped' \in BOOLEAN /\ (shPopped \/ TopDialog => shPopped')
      BY <1>19 DEF ShKey, TopDialog, ShShape
    <2>4. ShShape'
      BY <1>19, <2>1, <2>2, <2>3 DEF ShKey, ShShape, shCoord
    <2>5. FailurePutToUser'
      BY <1>19, <2>1, <2>2, <2>3 DEF ShKey, FailurePutToUser, shCoord
    <2>6. ExitsStoppedAtOneQuit'
      BY <2>1 DEF ExitsStoppedAtOneQuit, ExitsStopped
    <2> QED
      BY <1>10, <2>1, <2>2, <2>4, <2>5, <2>6
  <1>20. ASSUME NEW t \in Transports, ShSwitch(t) PROVE ShIInv'
    <2>1. /\ Spawn("switch", t) /\ UNCHANGED <<shDown, shExited, shQuits>> /\ ~shExited
          /\ shOps' \in 0..ShMaxOps
      BY <1>20, ShAssumption DEF ShSwitch, ShShape, ShOperation, Alive, shHistory
    <2>2. /\ shTasks' \in [ShSlots -> [kind : ShTaskKinds, about : Transports]]
          /\ ShOneCloses' /\ ShQuitOnce' /\ \E s \in ShSlots : shTasks'[s] # NoTask
      BY <2>1, SpawnKeeps
    <2>3. shScreens' \in Seq(Recovery \cup Plain) /\ OneRecoveryDialog'
      <3>1. CASE UNCHANGED shScreens
        BY <3>1 DEF ShShape, OneRecoveryDialog
      <3>2. CASE shScreens # <<>> /\ shScreens' = Front(shScreens)
        BY <3>2, PopKeeps
      <3> QED
        BY <1>20, <3>1, <3>2 DEF ShSwitch
    <2>4. ShShape'
      BY <1>20, <2>1, <2>2, <2>3 DEF ShSwitch, ShShape, shCoord, shHistory
    <2>5. FailurePutToUser' /\ ExitsStoppedAtOneQuit'
      BY <2>1, <2>2 DEF FailurePutToUser, ExitsStoppedAtOneQuit, ExitsStopped
    <2> QED
      BY <2>2, <2>3, <2>4, <2>5
  <1>21. CASE UNCHANGED shVars
    BY <1>21 DEF shVars, shCoord, shHistory, ShShape, ShOneCloses, ShQuitOnce, Closing, OneRecoveryDialog,
                 FailurePutToUser, DialogOpen, ExitsStoppedAtOneQuit, ExitsStopped
  <1> QED
    BY <1>1, <1>2, <1>3, <1>4, <1>5, <1>6, <1>7, <1>8, <1>9, <1>11, <1>12, <1>13, <1>14, <1>15,
       <1>16, <1>17, <1>18, <1>19, <1>20, <1>21 DEF ShNext

\* ShellSafety: however errors, retries, switches, keys and quits interleave, there
\* is at most one recovery dialog, a failure stays in front of the user until it is
\* answered (or lost in one of the two ways the code can lose it), and quitting
\* once exits with the coordinator stopped.
THEOREM ShellSafety == ShSpec => []ShSafe
  <1>1. ShInit => ShIInv
    <2> SUFFICES ASSUME ShInit PROVE ShIInv
      OBVIOUS
    <2>1. PICK s \in ShSlots : shTasks = [i \in ShSlots |-> IF i = s THEN ShTask("start", "lan") ELSE NoTask]
      BY DEF ShInit
    <2>2. /\ ShTask("start", "lan") \in [kind : ShTaskKinds, about : Transports]
          /\ NoTask \in [kind : ShTaskKinds, about : Transports]
          /\ ShTask("start", "lan").kind = "start" /\ NoTask.kind = "none" /\ ShTask("start", "lan") # NoTask
      BY DEF ShTask, NoTask, ShTaskKinds, Transports
    <2>3. /\ shTasks \in [ShSlots -> [kind : ShTaskKinds, about : Transports]]
          /\ \A r \in ShSlots : shTasks[r].kind \in {"start", "none"} /\ shTasks[s] # NoTask
      BY <2>1, <2>2
    <2>4. 0 \in 0..ShMaxOps /\ <<>> \in Seq(Transports) /\ <<>> \in Seq(Recovery \cup Plain)
      BY ShAssumption
    <2>5. ShShape
      BY <2>3, <2>4 DEF ShInit, ShShape
    <2>6. ShOneCloses /\ ShQuitOnce
      BY <2>3 DEF ShInit, ShOneCloses, ShQuitOnce, Closing
    <2>7. OneRecoveryDialog /\ FailurePutToUser /\ ExitsStoppedAtOneQuit
      BY <2>3 DEF ShInit, OneRecoveryDialog, FailurePutToUser, ExitsStoppedAtOneQuit, ExitsStopped
    <2> QED
      BY <2>5, <2>6, <2>7 DEF ShIInv
  <1>2. ShIInv => ShSafe
    <2> SUFFICES ASSUME ShIInv PROVE ShSafe
      OBVIOUS
    <2>1. {shServing, shOffline, shStopped, shDown, shExited, shPopped, shSilent} \subseteq BOOLEAN
      BY DEF ShIInv, ShShape
    <2> QED
      BY <2>1 DEF ShIInv, ShShape, ShOneCloses, Closing, ShSafe, ShTypeOK, ShTaskKinds
  <1> QED
    BY <1>1, <1>2, ShInductive, PTL DEF ShSpec

-----------------------------------------------------------------------------
(***************************************************************************)
(* Directory.  SentToPeer looks at connected addresses only; what is kept  *)
(* is that the two tables agree on every peer's address, connected or not, *)
(* until another peer has been heard there.                                *)
(***************************************************************************)

DirTypes ==
  /\ dirAt \in [DirAddrs -> DirPeers] /\ dirFound \in [DirAddrs -> DirPeers \cup {"none"}]
  /\ dirConn \subseteq DirAddrs /\ dirInbound \subseteq dirConn
  /\ dirMine \in DirNames /\ dirSwitched \in BOOLEAN /\ dirOps \in 0..DirMaxOps
DirTables ==
  /\ peerAddr \in [DirPeers -> DirAddrs \cup {"none"}] /\ addrPeer \in [DirAddrs -> DirPeers \cup {"none"}]
  /\ dirRebound \subseteq DirPeers
  /\ \A q \in DirPeers \ dirRebound : peerAddr[q] # "none" => addrPeer[peerAddr[q]] = q
DirNicks ==
  /\ nickOf \in [DirPeers -> DirNames \cup {"none"}]
  /\ nickOrder \in Seq(DirPeers) /\ IsInjective(nickOrder)
  /\ ToSet(nickOrder) = {q \in DirPeers : nickOf[q] # "none"}
  /\ NamesUnique
DirAuth ==
  /\ dirSessions \subseteq DirPeers /\ tuiAuth \subseteq DirPeers /\ tuiMissed \subseteq DirPeers
  /\ tuiAuthAddr \in [DirPeers -> DirAddrs \cup {"none"}]
  /\ AuthCurrent

DirIInv == DirTypes /\ DirTables /\ DirNicks /\ DirAuth

LEMMA DirNone == /\ "none" \notin DirPeers /\ "none" \notin DirAddrs /\ "none" \notin DirNames
                 /\ DirPrefixOf \in [DirNames -> SUBSET DirPeers] /\ DirMaxOps \in Nat
  BY DirAssumption

LEMMA DirIsSafe == DirIInv => DirSafe
  <1> SUFFICES ASSUME DirIInv PROVE DirSafe
    OBVIOUS
  <1> USE DEF DirIInv
  <1>1. DirTypeOK
    BY DEF DirTypeOK, DirTypes, DirTables, DirNicks, DirAuth
  <1>2. NamesUnique /\ AuthCurrent
    BY DEF DirNicks, DirAuth
  <1>3. SentToPeer
    <2> SUFFICES ASSUME NEW q \in DirPeers \ dirRebound, NEW a \in ConnectedAddress(q) PROVE addrPeer[a] = q
      BY DEF SentToPeer
    <2>1. CASE peerAddr[q] \in dirConn
      <3>1. a = peerAddr[q] /\ a # "none"
        BY <2>1, DirNone DEF ConnectedAddress, DirTypes
      <3> QED
        BY <3>1 DEF DirTables
    <2>2. CASE peerAddr[q] \notin dirConn
      BY <2>2 DEF ConnectedAddress
    <2> QED
      BY <2>1, <2>2
  <1>4. NameReachesHolder
    <2> SUFFICES ASSUME NEW q \in DirPeers, NEW n, n = nickOf[q], n # "none",
                        (DirPrefixOf[n] \cap ToSet(nickOrder)) \subseteq {q}
                 PROVE  DmTarget(n) = q
      BY DEF NameReachesHolder
    <2> DEFINE F == {i \in DOMAIN nickOrder : NameOrPrefix(n, nickOrder[i])}
               m == Len(nickOrder)
    <2>1. m \in Nat /\ DOMAIN nickOrder = 1..m /\ nickOrder \in Seq(DirPeers)
      BY DEF DirNicks
    <2>2. \A i \in F : nickOrder[i] = q
      <3> TAKE i \in F
      <3>1. nickOrder[i] \in DirPeers /\ nickOrder[i] \in ToSet(nickOrder)
        BY <2>1 DEF ToSet
      <3>2. nickOf[nickOrder[i]] = n \/ nickOrder[i] \in DirPrefixOf[n]
        BY DEF NameOrPrefix
      <3> QED
        BY <3>1, <3>2 DEF DirNicks, NamesUnique
    <2>3. F # {}
      <3>1. q \in ToSet(nickOrder)
        BY DEF DirNicks
      <3>2. PICK i \in DOMAIN nickOrder : nickOrder[i] = q
        BY <3>1 DEF ToSet
      <3> QED
        BY <3>2 DEF NameOrPrefix
    <2>4. F \in SUBSET (1..m)
      BY <2>1
    <2>5. DmTarget(n) = nickOrder[Min(F)]
      BY <2>3 DEF DmTarget
    <2> HIDE DEF F, m
    <2>6. Min(F) \in F
      BY <2>1, <2>3, <2>4, EndsOf
    <2> QED
      BY <2>2, <2>5, <2>6
  <1> QED
    BY <1>1, <1>2, <1>3, <1>4 DEF DirSafe

LEMMA DirStarts == DirInit => DirIInv
  <1> SUFFICES ASSUME DirInit PROVE DirIInv
    OBVIOUS
  <1>1. DirTypes
    <2>1. 0 \in 0..DirMaxOps
      BY DirNone
    <2>2. dirFound \in [DirAddrs -> DirPeers \cup {"none"}]
      BY DEF DirInit, Nowhere
    <2> QED
      BY <2>1, <2>2 DEF DirInit, DirTypes
  <1>2. DirTables
    BY DEF DirInit, DirTables, Nobody, Nowhere
  <1>3. DirNicks
    <2>1. \A q \in DirPeers : nickOf[q] = "none"
      BY DEF DirInit, Nobody
    <2>2. nickOf \in [DirPeers -> DirNames \cup {"none"}] /\ nickOrder = <<>> /\ DOMAIN <<>> = {}
      BY DEF DirInit, Nobody
    <2>3. ToSet(nickOrder) = {} /\ IsInjective(nickOrder) /\ nickOrder \in Seq(DirPeers)
      BY <2>2 DEF ToSet, IsInjective
    <2> QED
      BY <2>1, <2>2, <2>3 DEF DirNicks, NamesUnique
  <1>4. DirAuth
    BY DEF DirInit, DirAuth, AuthCurrent, Nobody
  <1> QED
    BY <1>1, <1>2, <1>3, <1>4 DEF DirIInv

\* Names.  A name that is not spoofed belongs to nobody else; the order of the
\* keys follows.
LEMMA RenamedFits ==
  ASSUME DirNicks, NEW q \in DirPeers, NEW n \in DirNames \cup {"none"}, NEW gone \in SUBSET (DirPeers \ {q}),
         n # "none" => ~Spoofed(q, n), Renamed(q, n, gone)
  PROVE  DirNicks'
  <1> DEFINE names == [r \in DirPeers |-> IF r \in gone THEN "none" ELSE IF r = q /\ n # "none" THEN n ELSE nickOf[r]]
             I == {i \in DOMAIN nickOrder : nickOrder[i] \notin gone}
             kept == Picked(nickOrder, I)
  <1>0. /\ nickOf \in [DirPeers -> DirNames \cup {"none"}] /\ nickOrder \in Seq(DirPeers) /\ IsInjective(nickOrder)
        /\ ToSet(nickOrder) = {r \in DirPeers : nickOf[r] # "none"} /\ NamesUnique
    BY DEF DirNicks
  <1>1. nickOf' = names /\ nickOrder' = IF names[q] = "none" THEN kept ELSE Inserted(kept, q)
    BY DEF Renamed
  <1>2. nickOf' \in [DirPeers -> DirNames \cup {"none"}]
    BY <1>0, <1>1
  <1>3. ASSUME NEW a \in DirPeers, NEW b \in DirPeers, nickOf'[a] # "none", nickOf'[a] = nickOf'[b] PROVE a = b
    <2>1. a \notin gone /\ b \notin gone
      BY <1>1, <1>3
    <2>2. \A r \in DirPeers \ {q} : n # "none" => nickOf[r] # n
      BY DEF Spoofed
    <2>3. nickOf'[a] = (IF a = q /\ n # "none" THEN n ELSE nickOf[a])
          /\ nickOf'[b] = (IF b = q /\ n # "none" THEN n ELSE nickOf[b])
      BY <1>1, <2>1
    <2> QED
      BY <1>0, <1>3, <2>2, <2>3 DEF NamesUnique
  <1>4. I \in SUBSET (DOMAIN nickOrder) /\ \A i \in DOMAIN nickOrder : i \in I <=> nickOrder[i] \notin gone
    OBVIOUS
  <1>5. /\ names[q] = (IF n # "none" THEN n ELSE nickOf[q])
        /\ \A r \in DirPeers \ {q} : names[r] = IF r \in gone THEN "none" ELSE nickOf[r]
    OBVIOUS
  <1> HIDE DEF names, I, kept
  <1>6. /\ kept \in Seq(DirPeers) /\ Len(kept) \in Nat /\ DOMAIN kept = 1..Len(kept)
        /\ \A k \in 1..Len(kept) : Nth(I, k) \in I /\ kept[k] = nickOrder[Nth(I, k)]
        /\ \A a, b \in 1..Len(kept) : Nth(I, a) = Nth(I, b) => a = b
        /\ \A i \in I : Rank(I, i) \in 1..Len(kept) /\ kept[Rank(I, i)] = nickOrder[i]
    BY <1>0, <1>4, PickedIs DEF kept
  <1>7. ToSet(kept) = {r \in DirPeers : nickOf[r] # "none" /\ r \notin gone}
    <2>1. ASSUME NEW k \in 1..Len(kept) PROVE kept[k] \in ToSet(nickOrder) /\ kept[k] \notin gone
      BY <1>4, <1>6 DEF ToSet
    <2>2. ASSUME NEW i \in DOMAIN nickOrder, nickOrder[i] \notin gone PROVE nickOrder[i] \in ToSet(kept)
      BY <1>4, <1>6, <2>2 DEF ToSet
    <2>3. ToSet(kept) \subseteq ToSet(nickOrder) \ gone
      BY <1>6, <2>1 DEF ToSet
    <2>4. ToSet(nickOrder) \ gone \subseteq ToSet(kept)
      BY <2>2 DEF ToSet
    <2> QED
      BY <1>0, <2>3, <2>4
  <1>8. IsInjective(kept)
    BY <1>0, <1>4, <1>6 DEF IsInjective
  <1>9. nickOrder' \in Seq(DirPeers) /\ IsInjective(nickOrder') /\ ToSet(nickOrder') = {r \in DirPeers : names[r] # "none"}
    <2>1. CASE names[q] = "none"
      <3>1. nickOrder' = kept /\ nickOf[q] = "none"
        BY <1>1, <1>5, <2>1
      <3>2. {r \in DirPeers : names[r] # "none"} = {r \in DirPeers : nickOf[r] # "none" /\ r \notin gone}
        BY <1>5, <2>1, <3>1
      <3> QED
        BY <1>6, <1>7, <1>8, <3>1, <3>2
    <2>2. CASE names[q] # "none"
      <3>1. nickOrder' = Inserted(kept, q)
        BY <1>1, <2>2
      <3>2. {r \in DirPeers : names[r] # "none"} = {r \in DirPeers : nickOf[r] # "none" /\ r \notin gone} \cup {q}
        BY <1>5, <2>2
      <3>3. CASE Contains(kept, q)
        <4>1. nickOrder' = kept /\ q \in ToSet(kept)
          BY <1>6, <3>1, <3>3 DEF Inserted, Contains, ToSet
        <4> QED
          BY <1>6, <1>7, <1>8, <3>2, <4>1
      <3>4. CASE ~Contains(kept, q)
        <4> DEFINE c == Len(kept)
        <4>1. nickOrder' = Append(kept, q)
          BY <3>1, <3>4 DEF Inserted
        <4>2. \A k \in 1..c : kept[k] # q
          BY <1>6, <3>4 DEF Contains
        <4>3. /\ nickOrder' \in Seq(DirPeers) /\ DOMAIN nickOrder' = 1..(c + 1) /\ nickOrder'[c + 1] = q
              /\ \A k \in 1..c : nickOrder'[k] = kept[k]
          BY <1>6, <4>1
        <4>4. c \in Nat /\ DOMAIN kept = 1..c
          BY <1>6
        <4> HIDE DEF c
        <4>5. \A k \in 1..(c + 1) : k \in 1..c \/ k = c + 1
          BY <4>4
        <4>6. IsInjective(nickOrder')
          BY <1>8, <4>2, <4>3, <4>4, <4>5 DEF IsInjective
        <4>7. ToSet(nickOrder') = ToSet(kept) \cup {q}
          <5>1. 1..(c + 1) = 1..c \cup {c + 1}
            BY <4>4
          <5> QED
            BY <4>3, <4>4, <5>1 DEF ToSet
        <4> QED
          BY <1>7, <3>2, <4>3, <4>6, <4>7
      <3> QED
        BY <3>3, <3>4
    <2> QED
      BY <2>1, <2>2
  <1>10. NamesUnique'
    BY <1>3 DEF NamesUnique
  <1> QED
    BY <1>1, <1>2, <1>9, <1>10 DEF DirNicks, IsInjective, ToSet

\* What an event leaves alone keeps fitting.
LEMMA TablesSame ==
  ASSUME DirTables, UNCHANGED <<peerAddr, addrPeer, dirRebound>>
  PROVE  DirTables'
  BY DEF DirTables

LEMMA NicksSame ==
  ASSUME DirNicks, UNCHANGED <<nickOf, nickOrder>>
  PROVE  DirNicks'
  BY DEF DirNicks, NamesUnique, IsInjective, ToSet

LEMMA AuthSame ==
  ASSUME DirAuth, UNCHANGED <<dirSessions, dirUi, dirSwitched>>
  PROVE  DirAuth'
  BY DEF DirAuth, AuthCurrent, dirUi

LEMMA EventCounts ==
  ASSUME dirOps \in 0..DirMaxOps, Event
  PROVE  dirOps' \in 0..DirMaxOps
  BY DirNone DEF Event

\* The handlers that change none of the tables.
LEMMA QuietStep ==
  ASSUME DirIInv,
         \/ \E a \in DirAddrs, q \in DirPeers : DirMove(a, q)
         \/ \E a \in DirAddrs : DirFindUnnamed(a) \/ DirExpire(a)
         \/ \E a \in DirAddrs, inbound \in BOOLEAN : DirConnect(a, inbound)
         \/ \E n \in DirNames : DirSetNickname(n)
  PROVE  DirIInv'
  <1> USE DEF DirIInv, DirTypes
  <1>1. ASSUME NEW a \in DirAddrs, NEW q \in DirPeers, DirMove(a, q) PROVE DirIInv'
    <2>1. DirTypes'
      BY <1>1, EventCounts DEF DirMove
    <2> QED
      BY <1>1, <2>1, TablesSame, NicksSame, AuthSame DEF DirMove, dirTables
  <1>2. ASSUME NEW a \in DirAddrs, DirFindUnnamed(a) \/ DirExpire(a) PROVE DirIInv'
    <2>1. DirTypes'
      BY <1>2, EventCounts DEF DirFindUnnamed, DirExpire
    <2> QED
      BY <1>2, <2>1, TablesSame, NicksSame, AuthSame DEF DirFindUnnamed, DirExpire, dirTables
  <1>3. ASSUME NEW a \in DirAddrs, NEW inbound \in BOOLEAN, DirConnect(a, inbound) PROVE DirIInv'
    <2>1. DirTypes'
      BY <1>3, EventCounts DEF DirConnect
    <2> QED
      BY <1>3, <2>1, TablesSame, NicksSame, AuthSame DEF DirConnect, dirTables
  <1>4. ASSUME NEW n \in DirNames, DirSetNickname(n) PROVE DirIInv'
    <2>1. DirTypes'
      BY <1>4, EventCounts DEF DirSetNickname
    <2> QED
      BY <1>4, <2>1, TablesSame, NicksSame, AuthSame DEF DirSetNickname, dirTables
  <1> QED
    BY <1>1, <1>2, <1>3, <1>4

\* Scanning: the address goes to the peer seen there, and its previous owner is
\* evicted.
LEMMA FindStep ==
  ASSUME DirIInv, NEW a \in DirAddrs, NEW n \in DirNames \cup {"none"}, DirFind(a, n)
  PROVE  DirIInv'
  <1> DEFINE q == dirAt[a]
             old == peerAddr[q]
             E == Evicted(a, q)
             m == IF n # "none" /\ Spoofed(q, n) THEN "none" ELSE n
  <1>0. DirTypes /\ DirTables /\ DirNicks /\ DirAuth
    BY DEF DirIInv
  <1>1. q \in DirPeers /\ E \in SUBSET (DirPeers \ {q}) /\ m \in DirNames \cup {"none"}
    BY <1>0 DEF DirTypes, Evicted
  <1>2. DirNicks'
    <2>1. Renamed(q, m, E) /\ (m # "none" => ~Spoofed(q, m))
      BY DEF DirFind
    <2> HIDE DEF q, m, E
    <2> QED
      BY <1>0, <1>1, <2>1, RenamedFits
  <1>3. DirTypes'
    BY <1>0, <1>1, EventCounts DEF DirTypes, DirFind
  <1>4. DirAuth'
    BY <1>0, AuthSame DEF DirFind
  <1>5. DirTables'
    <2>1. /\ peerAddr' = [r \in DirPeers |-> IF r = q THEN a ELSE IF r \in E THEN "none" ELSE peerAddr[r]]
          /\ addrPeer' = [b \in DirAddrs |->
               IF b = a THEN q
               ELSE IF b = old /\ b \notin dirConn /\ addrPeer[b] = q THEN "none" ELSE addrPeer[b]]
          /\ dirRebound' = dirRebound \ ({q} \cup E)
      BY DEF DirFind
    <2>2. \A r \in DirPeers \ {q} : r \in E <=> addrPeer[a] = r /\ peerAddr[r] = a
      BY DEF Evicted
    <2> HIDE DEF q, old, E
    <2>3. peerAddr' \in [DirPeers -> DirAddrs \cup {"none"}] /\ addrPeer' \in [DirAddrs -> DirPeers \cup {"none"}]
      BY <1>0, <1>1, <2>1 DEF DirTables
    <2>4. ASSUME NEW r \in DirPeers \ dirRebound', peerAddr'[r] # "none" PROVE addrPeer'[peerAddr'[r]] = r
      <3>1. CASE r = q
        BY <1>1, <2>1, <3>1
      <3>2. CASE r # q
        <4>1. r \notin E /\ peerAddr'[r] = peerAddr[r] /\ r \notin dirRebound
          BY <2>1, <2>4, <3>2
        <4> DEFINE b == peerAddr[r]
        <4>2. b \in DirAddrs /\ addrPeer[b] = r
          BY <1>0, <2>4, <4>1 DEF DirTables
        <4>3. b # a
          BY <2>2, <3>2, <4>1, <4>2
        <4> HIDE DEF b
        <4>4. addrPeer'[b] = r
          BY <2>1, <3>2, <4>2, <4>3
        <4> QED
          BY <4>1, <4>4 DEF b
      <3> QED
        BY <3>1, <3>2
    <2> QED
      BY <1>0, <2>1, <2>3, <2>4 DEF DirTables
  <1> QED
    BY <1>2, <1>3, <1>4, <1>5 DEF DirIInv

\* A neighbour's packet binds its address, for a LAN peer that dialled in only
\* one way.
LEMMA HearStep ==
  ASSUME DirIInv, NEW a \in DirAddrs, NEW n \in DirNames \cup {"none"}, DirHear(a, n)
  PROVE  DirIInv'
  <1> DEFINE q == dirAt[a]
             m == IF n # "none" /\ Spoofed(q, n) THEN "none" ELSE n
  <1>0. DirTypes /\ DirTables /\ DirNicks /\ DirAuth
    BY DEF DirIInv
  <1>1. q \in DirPeers /\ m \in DirNames \cup {"none"}
    BY <1>0 DEF DirTypes
  <1>2. DirNicks'
    <2>1. Renamed(q, m, {}) /\ (m # "none" => ~Spoofed(q, m)) /\ {} \in SUBSET (DirPeers \ {q})
      BY DEF DirHear
    <2> HIDE DEF q, m
    <2> QED
      BY <1>0, <1>1, <2>1, RenamedFits
  <1>3. DirTypes'
    BY <1>0, EventCounts DEF DirTypes, DirHear
  <1>4. DirAuth'
    BY <1>0, AuthSame DEF DirHear
  <1>5. DirTables'
    <2>1. /\ addrPeer' = [addrPeer EXCEPT ![a] = q]
          /\ peerAddr' = IF a \in dirInbound THEN peerAddr ELSE [peerAddr EXCEPT ![q] = a]
          /\ dirRebound' = (dirRebound \cup {r \in DirPeers \ {q} : peerAddr[r] = a})
                              \ (IF a \in dirInbound THEN {} ELSE {q})
      BY DEF DirHear, Binds
    <2> HIDE DEF q
    <2>2. peerAddr' \in [DirPeers -> DirAddrs \cup {"none"}] /\ addrPeer' \in [DirAddrs -> DirPeers \cup {"none"}]
      BY <1>0, <1>1, <2>1 DEF DirTables
    <2>3. dirRebound' \subseteq DirPeers
      BY <1>0, <2>1 DEF DirTables
    <2>4. ASSUME NEW r \in DirPeers \ dirRebound', peerAddr'[r] # "none" PROVE addrPeer'[peerAddr'[r]] = r
      <3>1. CASE r = q /\ a \notin dirInbound
        BY <1>0, <1>1, <2>1, <3>1 DEF DirTables
      <3>2. CASE r # q \/ a \in dirInbound
        <4>1. peerAddr'[r] = peerAddr[r] /\ r \notin dirRebound
          BY <1>0, <2>1, <2>4, <3>2 DEF DirTables
        <4> DEFINE b == peerAddr[r]
        <4>2. b \in DirAddrs /\ addrPeer[b] = r
          BY <1>0, <2>4, <4>1 DEF DirTables
        <4>3. b = a => r = q
          BY <2>1, <2>4, <3>2
        <4> HIDE DEF b
        <4>4. addrPeer'[b] = r
          BY <1>0, <2>1, <4>2, <4>3 DEF DirTables
        <4> QED
          BY <4>1, <4>4 DEF b
      <3> QED
        BY <3>1, <3>2
    <2> QED
      BY <2>2, <2>3, <2>4 DEF DirTables
  <1> QED
    BY <1>2, <1>3, <1>4, <1>5 DEF DirIInv

LEMMA RelayedStep ==
  ASSUME DirIInv, NEW q \in DirPeers, NEW n \in DirNames, DirHearRelayed(q, n)
  PROVE  DirIInv'
  <1>0. DirTypes /\ DirTables /\ DirNicks /\ DirAuth
    BY DEF DirIInv
  <1>1. {} \in SUBSET (DirPeers \ {q}) /\ n \in DirNames \cup {"none"} /\ Renamed(q, n, {}) /\ ~Spoofed(q, n)
    BY DEF DirHearRelayed
  <1>2. DirNicks'
    BY <1>0, <1>1, RenamedFits
  <1>3. DirTypes'
    BY <1>0, EventCounts DEF DirTypes, DirHearRelayed
  <1> QED
    BY <1>0, <1>2, <1>3, TablesSame, AuthSame DEF DirHearRelayed, DirIInv

LEMMA SessionStep ==
  ASSUME DirIInv, NEW q \in DirPeers, DirSession(q)
  PROVE  DirIInv'
  <1>0. DirTypes /\ DirTables /\ DirNicks /\ DirAuth
    BY DEF DirIInv
  <1>1. DirTypes'
    BY <1>0, EventCounts DEF DirTypes, DirSession
  <1>2. FirstAddr(q) \in DirAddrs \cup {"none"}
    BY <1>0 DEF DirTables, FirstAddr
  <1>3. DirAuth'
    <2>1. CASE q \in tuiAuth
      BY <1>0, <2>1 DEF DirSession, DirAuth, AuthCurrent, dirUi
    <2>2. CASE q \notin tuiAuth
      BY <1>0, <1>2, <2>2 DEF DirSession, DirAuth, AuthCurrent
    <2> QED
      BY <2>1, <2>2
  <1> QED
    BY <1>0, <1>1, <1>3, TablesSame, NicksSame DEF DirSession, DirIInv, dirTables

\* A connection ends: the peer is taken to be where it was discovered, unless
\* another peer was heard there.
LEMMA DropStep ==
  ASSUME DirIInv, NEW a \in DirAddrs, DirDrop(a)
  PROVE  DirIInv'
  <1> DEFINE q == addrPeer[a]
             seen == {b \in DirAddrs : q # "none" /\ dirFound[b] = q}
             back == IF seen = {} THEN "none" ELSE CHOOSE b \in seen : TRUE
             popped == [addrPeer EXCEPT ![a] = "none"]
             toPeer == IF back # "none" /\ popped[back] = "none" THEN [popped EXCEPT ![back] = q] ELSE popped
             moves == q # "none" /\ peerAddr[q] \in {a, "none"}
  <1>0. DirTypes /\ DirTables /\ DirNicks /\ DirAuth
    BY DEF DirIInv
  <1>1. /\ a \in dirConn /\ dirConn' = dirConn \ {a} /\ dirInbound' = dirInbound \ {a}
        /\ addrPeer' = toPeer
        /\ peerAddr' = [r \in DirPeers |-> IF r = q /\ moves THEN back ELSE peerAddr[r]]
        /\ dirRebound' = IF ~moves THEN dirRebound
                         ELSE IF back # "none" /\ addrPeer[back] \notin {q, "none"} THEN dirRebound \cup {q}
                         ELSE dirRebound \ {q}
    BY DEF DirDrop
  <1>2. DirTypes'
    BY <1>0, <1>1 DEF DirTypes, DirDrop
  <1>3. DirNicks'
    BY <1>0, NicksSame DEF DirDrop
  <1>4. q \in DirPeers \cup {"none"} /\ back \in DirAddrs \cup {"none"} /\ (back # "none" => q # "none")
    BY <1>0 DEF DirTables
  <1>5. DirAuth'
    <2>1. /\ dirSessions' = {r \in dirSessions : r = q => ~SessionOver(q, a, toPeer)}
          /\ tuiAuth' = tuiAuth \ Deauthenticated(a)
          /\ tuiAuthAddr' = [r \in DirPeers |-> IF r \in Deauthenticated(a) THEN "none" ELSE tuiAuthAddr[r]]
          /\ tuiMissed' = tuiMissed \cup {r \in (dirSessions \ dirSessions') \cap tuiAuth : tuiAuthAddr[r] # a}
          /\ dirSwitched' = dirSwitched
      BY DEF DirDrop
    <2>2. dirSessions' \subseteq dirSessions
      BY <2>1
    <2>3. \A r \in DirPeers : r \in Deauthenticated(a) <=> tuiAuthAddr[r] = a
      BY DEF Deauthenticated
    <2> HIDE DEF q, seen, back, popped, toPeer, moves
    <2>4. /\ dirSessions' \subseteq DirPeers /\ tuiAuth' \subseteq DirPeers /\ tuiMissed' \subseteq DirPeers
          /\ tuiAuthAddr' \in [DirPeers -> DirAddrs \cup {"none"}]
      BY <1>0, <2>1, <2>2 DEF DirAuth
    <2>5. ASSUME ~dirSwitched, NEW r \in tuiAuth' PROVE r \in dirSessions' \cup tuiMissed'
      <3>1. r \in tuiAuth /\ r \in DirPeers /\ tuiAuthAddr[r] # a
        BY <1>0, <2>1, <2>3 DEF DirAuth
      <3>2. r \in dirSessions \/ r \in tuiMissed
        BY <1>0, <2>5, <3>1 DEF DirAuth, AuthCurrent
      <3> QED
        BY <2>1, <3>1, <3>2
    <2> QED
      BY <2>1, <2>4, <2>5 DEF DirAuth, AuthCurrent
  <1>6. DirTables'
    <2>1. popped \in [DirAddrs -> DirPeers \cup {"none"}] /\ popped[a] = "none"
          /\ \A b \in DirAddrs \ {a} : popped[b] = addrPeer[b]
      BY <1>0 DEF DirTables
    <2> HIDE DEF seen, back, popped
    <2>2. /\ toPeer \in [DirAddrs -> DirPeers \cup {"none"}]
          /\ \A b \in DirAddrs : popped[b] # "none" => toPeer[b] = popped[b]
          /\ back # "none" /\ popped[back] = "none" => toPeer[back] = q
      BY <1>4, <2>1
    <2> HIDE DEF toPeer
    <2>3. peerAddr' \in [DirPeers -> DirAddrs \cup {"none"}] /\ dirRebound' \subseteq DirPeers
      BY <1>0, <1>1, <1>4 DEF DirTables
    <2>4. ASSUME NEW r \in DirPeers \ dirRebound', peerAddr'[r] # "none" PROVE addrPeer'[peerAddr'[r]] = r
      <3>1. CASE r = q /\ moves
        <4>1. peerAddr'[r] = back /\ back \in DirAddrs /\ addrPeer[back] \in {q, "none"}
          BY <1>1, <1>4, <2>4, <3>1
        <4>2. popped[back] \in {q, "none"}
          BY <2>1, <4>1
        <4> QED
          BY <1>1, <2>2, <2>4, <3>1, <4>1, <4>2
      <3>2. CASE ~(r = q /\ moves)
        <4>1. peerAddr'[r] = peerAddr[r] /\ r \notin dirRebound
          BY <1>1, <2>4, <3>2
        <4> DEFINE b == peerAddr[r]
        <4>2. b \in DirAddrs /\ addrPeer[b] = r /\ r # "none"
          BY <1>0, <2>4, <4>1, DirNone DEF DirTables
        <4>3. b # a
          BY <3>2, <4>2
        <4> HIDE DEF b
        <4>4. toPeer[b] = r
          BY <2>1, <2>2, <4>2, <4>3
        <4> QED
          BY <1>1, <4>1, <4>4 DEF b
      <3> QED
        BY <3>1, <3>2
    <2> QED
      BY <1>1, <2>2, <2>3, <2>4 DEF DirTables
  <1> QED
    BY <1>2, <1>3, <1>5, <1>6 DEF DirIInv

LEMMA SwitchStep ==
  ASSUME DirIInv, DirSwitch
  PROVE  DirIInv'
  <1>0. DirTypes /\ DirTables /\ DirNicks /\ DirAuth
    BY DEF DirIInv
  <1>1. DirTypes'
    <2>1. dirFound' \in [DirAddrs -> DirPeers \cup {"none"}]
      BY DEF DirSwitch, Nowhere
    <2> QED
      BY <1>0, <2>1, EventCounts DEF DirTypes, DirSwitch
  <1>2. DirTables'
    BY DEF DirTables, DirSwitch, Nobody, Nowhere
  <1>3. DirNicks'
    <2>1. \A r \in DirPeers : nickOf'[r] = "none"
      BY DEF DirSwitch, Nobody
    <2>2. nickOf' \in [DirPeers -> DirNames \cup {"none"}] /\ nickOrder' = <<>> /\ DOMAIN <<>> = {}
      BY DEF DirSwitch, Nobody
    <2>3. nickOrder' \in Seq(DirPeers)
      BY <2>2
    <2> QED
      BY <2>1, <2>2, <2>3 DEF DirNicks, NamesUnique, ToSet, IsInjective
  <1>4. DirAuth'
    BY <1>0 DEF DirAuth, AuthCurrent, DirSwitch, dirUi
  <1> QED
    BY <1>1, <1>2, <1>3, <1>4 DEF DirIInv

LEMMA DirSteps == DirIInv /\ [DirNext]_dirVars => DirIInv'
  <1> SUFFICES ASSUME DirIInv, [DirNext]_dirVars PROVE DirIInv'
    OBVIOUS
  <1>1. CASE UNCHANGED dirVars
    <2>1. DirTypes'
      BY <1>1 DEF DirIInv, DirTypes, dirVars
    <2> QED
      BY <1>1, <2>1, TablesSame, NicksSame, AuthSame DEF DirIInv, dirVars, dirTables
  <1>2. CASE DirNext
    BY <1>2, QuietStep, FindStep, HearStep, RelayedStep, SessionStep, DropStep, SwitchStep DEF DirNext
  <1> QED
    BY <1>1, <1>2

\* Packets and direct messages go to the peer meant, a name means one peer and an
\* authenticated peer has a session, for every set of peers, addresses and names
\* and however addresses change hands (_handle_peer_discovered, _process_packet_async,
\* _handle_peer_disconnected, _send_direct_message).
THEOREM DirectorySafety == DirSpec => []DirSafe
  BY DirStarts, DirSteps, DirIsSafe, PTL DEF DirSpec

-----------------------------------------------------------------------------
(***************************************************************************)
(* The store-and-forward queue.  Packets are numbered as they are offered, *)
(* so the numbers in a peer's queue ascend, behind all that was delivered  *)
(* to it; the packet enqueue is busy with has the last number, and its     *)
(* peer's queue has room.                                                  *)
(***************************************************************************)

SfLast == IF pc = "idle" THEN offered ELSE offered - 1

SfTypes ==
  /\ sfNow \in 0..SfMaxTime /\ pc \in {"idle", "evictTotal", "evictBytes"} /\ offered \in 0..MaxPackets
  /\ pc = "idle" => cur = NoCall
  /\ pc # "idle" => cur \in [peer : Peers, pkt : Packets] /\ cur.pkt.id = offered
KeysFit == keys \in Seq(Peers) /\ IsInjective(keys) /\ \A p \in Peers : queues[p] # <<>> => p \in ToSet(keys)

Ordered(q) == \A i, j \in DOMAIN q : i < j => q[i].id < q[j].id
QueuesFit ==
  /\ queues \in [Peers -> Seq(Packets)]
  /\ \A p \in Peers : Ordered(queues[p]) /\ Len(queues[p]) <= MaxPerPeer
  /\ pc # "idle" => Len(queues[cur.peer]) < MaxPerPeer
DeliveredFits ==
  /\ delivered \in [Peers -> Seq(1..MaxPackets)] /\ DeliveredInOrder
  /\ \A p \in Peers : \A i \in DOMAIN delivered[p] :
       delivered[p][i] <= SfLast /\ \A j \in DOMAIN queues[p] : delivered[p][i] < queues[p][j].id
CountsFit ==
  /\ IsFiniteSet(Stored) /\ orphans \subseteq Packets /\ IsFiniteSet(orphans)
  /\ \A pkt \in Stored \cup orphans : pkt.id <= SfLast
  /\ CountersExplained
  /\ Cardinality(Stored) <= MaxTotal /\ SfBytes(Stored) <= MaxBytes
  /\ pc = "evictBytes" => totalPackets < MaxTotal

SfIInv == SfTypes /\ KeysFit /\ QueuesFit /\ DeliveredFits /\ CountsFit

LEMMA SfConstants ==
  /\ Sizes \subseteq Nat \ {0} /\ MaxTotal \in Nat \ {0} /\ MaxPerPeer \in Nat \ {0} /\ MaxBytes \in Nat \ {0}
  /\ SfTtl \in Nat /\ SfMaxTime \in Nat /\ MaxPackets \in Nat
  BY QueueAssumption

LEMMA PacketFields ==
  ASSUME NEW pkt \in Packets
  PROVE  pkt.id \in 1..MaxPackets /\ pkt.id \in Int /\ pkt.at \in 0..SfMaxTime /\ pkt.size \in Nat
  <1>1. pkt.id \in 1..MaxPackets /\ pkt.at \in 0..SfMaxTime /\ pkt.size \in Sizes
    BY DEF Packets
  <1>2. pkt.size \in Nat
    BY <1>1, SfConstants
  <1>3. pkt.id \in Int
    BY <1>1, SfConstants
  <1> QED
    BY <1>1, <1>2, <1>3

\* Bytes.
LEMMA BytesFinite ==
  ASSUME NEW S \in SUBSET Packets, IsFiniteSet(S)
  PROVE  IsFiniteSet(BytesOf(S)) /\ SfBytes(S) \in Nat
  <1> DEFINE f == [pkt \in S |-> {pkt} \X (1..pkt.size)]
             T == {f[pkt] : pkt \in S}
  <1>1. f \in Surjection(S, T)
    BY DEF Surjection
  <1>2. \A pkt \in S : IsFiniteSet(f[pkt])
    <2> TAKE pkt \in S
    <2>1. pkt.size \in Nat
      BY PacketFields
    <2>2. IsFiniteSet(1..pkt.size)
      BY <2>1, FS_Interval
    <2>3. IsFiniteSet({pkt})
      BY FS_Singleton
    <2>4. IsFiniteSet({pkt} \X (1..pkt.size))
      BY <2>2, <2>3, FS_Product
    <2> QED
      BY <2>4
  <1>3. BytesOf(S) = UNION T
    BY DEF BytesOf
  <1> HIDE DEF f
  <1>4. IsFiniteSet(T) /\ \A t \in T : IsFiniteSet(t)
    BY <1>1, <1>2, FS_Surjection
  <1> HIDE DEF T
  <1>5. IsFiniteSet(BytesOf(S))
    BY <1>3, <1>4, FS_UNION
  <1> QED
    BY <1>5, FS_CardinalityType DEF SfBytes

LEMMA BytesSplit ==
  ASSUME NEW S \in SUBSET Packets, IsFiniteSet(S), NEW T \in SUBSET S
  PROVE  /\ IsFiniteSet(T) /\ Cardinality(T) \in Nat /\ SfBytes(T) \in Nat /\ SfBytes(S) \in Nat
         /\ Cardinality(S \ T) \in Nat /\ Cardinality(S) = Cardinality(T) + Cardinality(S \ T)
         /\ SfBytes(S \ T) \in Nat /\ SfBytes(S) = SfBytes(T) + SfBytes(S \ T)
  <1> DEFINE R == S \ T
             A == BytesOf(T)
             B == BytesOf(R)
  <1>1. IsFiniteSet(T) /\ IsFiniteSet(R) /\ T \in SUBSET Packets /\ R \in SUBSET Packets
    BY FS_Subset
  <1>2. S = T \cup R /\ T \cap R = {}
    OBVIOUS
  <1>3. IsFiniteSet(A) /\ IsFiniteSet(B) /\ SfBytes(T) \in Nat /\ SfBytes(R) \in Nat /\ SfBytes(S) \in Nat
    BY <1>1, BytesFinite
  <1>4. BytesOf(S) = A \cup B
    BY <1>2 DEF BytesOf
  <1>5. A \cap B = {}
    <2> SUFFICES ASSUME NEW b \in A, b \in B PROVE FALSE
      OBVIOUS
    <2>1. PICK t \in T : b \in {t} \X (1..t.size)
      BY DEF BytesOf
    <2>2. PICK r \in R : b \in {r} \X (1..r.size)
      BY DEF BytesOf
    <2>3. b[1] = t /\ b[1] = r
      BY <2>1, <2>2
    <2> QED
      BY <1>2, <2>3
  <1> HIDE DEF R, A, B
  <1>6. Cardinality(T) \in Nat /\ Cardinality(R) \in Nat /\ Cardinality({}) = 0
    BY <1>1, FS_CardinalityType, FS_EmptySet
  <1>7. Cardinality(S) = Cardinality(T) + Cardinality(R) - Cardinality({})
    BY <1>1, <1>2, FS_Union
  <1>8. Cardinality(BytesOf(S)) = Cardinality(A) + Cardinality(B) - Cardinality({})
    BY <1>3, <1>4, <1>5, FS_Union
  <1>9. SfBytes(S) = SfBytes(T) + SfBytes(R)
    BY <1>3, <1>6, <1>8 DEF SfBytes, A, B
  <1> QED
    BY <1>1, <1>3, <1>6, <1>7, <1>9 DEF R

LEMMA BytesAdd ==
  ASSUME NEW S \in SUBSET Packets, IsFiniteSet(S), NEW pkt \in Packets, pkt \notin S
  PROVE  /\ IsFiniteSet(S \cup {pkt}) /\ Cardinality(S \cup {pkt}) = Cardinality(S) + 1
         /\ SfBytes(S \cup {pkt}) = SfBytes(S) + pkt.size
  <1> DEFINE U == S \cup {pkt}
             one == {pkt} \X (1..pkt.size)
  <1>1. IsFiniteSet(U) /\ Cardinality(U) = Cardinality(S) + 1
    BY FS_AddElement
  <1>2. U \in SUBSET Packets /\ S \in SUBSET U /\ U \ S = {pkt}
    OBVIOUS
  <1>3. SfBytes(U) = SfBytes(S) + SfBytes(U \ S)
    <2> HIDE DEF U
    <2> QED
      BY <1>1, <1>2, BytesSplit
  <1>4. BytesOf({pkt}) = one
    BY DEF BytesOf
  <1>5. Cardinality(one) = pkt.size
    <2> DEFINE n == pkt.size
    <2>1. n \in Nat
      BY PacketFields
    <2> HIDE DEF n
    <2>2. IsFiniteSet(1..n) /\ Cardinality(1..n) = n
      BY <2>1, FS_Interval
    <2>3. IsFiniteSet({pkt}) /\ Cardinality({pkt}) = 1
      BY FS_Singleton
    <2>4. Cardinality({pkt} \X (1..n)) = 1 * n
      BY <2>2, <2>3, FS_Product
    <2> QED
      BY <2>1, <2>4 DEF n
  <1>6. SfBytes({pkt}) = pkt.size
    BY <1>4, <1>5 DEF SfBytes
  <1> QED
    BY <1>1, <1>2, <1>3, <1>6

\* Packets leave a queue from its head.
TailOf(r, q) ==
  /\ r \in Seq(Packets) /\ Len(r) <= Len(q)
  /\ \E d \in 0..Len(q) : Len(r) = Len(q) - d /\ \A n \in 1..Len(r) : r[n] = q[n + d]

LEMMA TailOfFits ==
  ASSUME NEW q \in Seq(Packets), NEW r, TailOf(r, q), Ordered(q)
  PROVE  /\ Ordered(r) /\ ToSet(r) \subseteq ToSet(q) /\ Len(r) \in Nat /\ Len(r) <= Len(q)
         /\ \A j \in DOMAIN r : \E k \in DOMAIN q : r[j] = q[k]
  <1> DEFINE m == Len(q)
             c == Len(r)
  <1>1. r \in Seq(Packets) /\ c \in Nat /\ DOMAIN r = 1..c /\ m \in Nat /\ DOMAIN q = 1..m /\ c <= m
    BY DEF TailOf
  <1>2. PICK d \in 0..m : c = m - d /\ \A n \in 1..c : r[n] = q[n + d]
    BY DEF TailOf
  <1> HIDE DEF m, c
  <1>3. \A n \in 1..c : n + d \in 1..m
    BY <1>1, <1>2
  <1>4. Ordered(r)
    <2> SUFFICES ASSUME NEW i \in 1..c, NEW j \in 1..c, i < j PROVE r[i].id < r[j].id
      BY <1>1 DEF Ordered
    <2>1. i + d < j + d /\ i + d \in DOMAIN q /\ j + d \in DOMAIN q
      BY <1>1, <1>3
    <2> QED
      BY <1>2, <2>1 DEF Ordered
  <1>5. \A j \in DOMAIN r : \E k \in DOMAIN q : r[j] = q[k]
    BY <1>1, <1>2, <1>3
  <1>6. ToSet(r) \subseteq ToSet(q)
    BY <1>5 DEF ToSet
  <1> QED
    BY <1>1, <1>4, <1>5, <1>6 DEF c, m

LEMMA TailOfSelf ==
  ASSUME NEW q \in Seq(Packets)
  PROVE  TailOf(q, q) /\ TailOf(<<>>, q) /\ (q # <<>> => TailOf(Tail(q), q) /\ Len(Tail(q)) < Len(q))
  <1> DEFINE m == Len(q)
  <1>1. m \in Nat /\ DOMAIN q = 1..m
    OBVIOUS
  <1>2. TailOf(q, q)
    <2>1. 0 \in 0..m /\ m = m - 0 /\ m <= m /\ \A n \in 1..m : q[n] = q[n + 0]
      BY <1>1
    <2> QED
      BY <2>1 DEF TailOf
  <1>3. TailOf(<<>>, q)
    <2>1. m \in 0..m /\ 0 = m - m /\ 0 <= m /\ Len(<<>>) = 0 /\ <<>> \in Seq(Packets)
      BY <1>1
    <2> QED
      BY <2>1 DEF TailOf
  <1>4. ASSUME q # <<>> PROVE TailOf(Tail(q), q) /\ Len(Tail(q)) < Len(q)
    <2>1. 1 \in 0..m /\ Len(Tail(q)) = m - 1 /\ m - 1 <= m /\ Tail(q) \in Seq(Packets) /\ m - 1 < m
      BY <1>1, <1>4
    <2>2. \A n \in 1..(m - 1) : Tail(q)[n] = q[n + 1]
      BY <1>4
    <2> QED
      BY <2>1, <2>2 DEF TailOf
  <1> QED
    BY <1>2, <1>3, <1>4

LEMMA TailOfTail ==
  ASSUME NEW q \in Seq(Packets), NEW r, TailOf(r, q), NEW s, TailOf(s, r)
  PROVE  TailOf(s, q)
  <1> DEFINE m == Len(q)
             c == Len(r)
             b == Len(s)
  <1>1. m \in Nat /\ r \in Seq(Packets) /\ c \in Nat /\ s \in Seq(Packets) /\ b \in Nat
    BY DEF TailOf
  <1>2. PICK d \in 0..m : c = m - d /\ \A n \in 1..c : r[n] = q[n + d]
    BY DEF TailOf
  <1>3. PICK e \in 0..c : b = c - e /\ \A n \in 1..b : s[n] = r[n + e]
    BY DEF TailOf
  <1> HIDE DEF m, c, b
  <1>4. e + d \in 0..m /\ b = m - (e + d) /\ b <= m
    BY <1>1, <1>2, <1>3
  <1>5. \A n \in 1..b : s[n] = q[n + (e + d)]
    <2> TAKE n \in 1..b
    <2>1. n + e \in 1..c /\ (n + e) + d = n + (e + d)
      BY <1>1, <1>2, <1>3
    <2> QED
      BY <1>2, <1>3, <2>1
  <1> QED
    BY <1>1, <1>4, <1>5 DEF TailOf, m, b

LEMMA ExpiredDropped ==
  ASSUME NEW q \in Seq(Packets)
  PROVE  TailOf(DropExpired(q), q)
  <1> DEFINE live == {i \in DOMAIN q : ~Expired(q[i])}
             m == Len(q)
  <1>1. m \in Nat /\ live \in SUBSET (1..m)
    OBVIOUS
  <1>2. DropExpired(q) = IF live = {} THEN <<>> ELSE SubSeq(q, Min(live), m)
    BY DEF DropExpired
  <1> HIDE DEF live, m
  <1>3. CASE live = {}
    BY <1>2, <1>3, TailOfSelf
  <1>4. CASE live # {}
    <2> DEFINE a == Min(live)
               r == SubSeq(q, a, m)
    <2>1. a \in live
      BY <1>1, <1>4, EndsOf
    <2>2. a \in 1..m /\ DropExpired(q) = r
      BY <1>1, <1>2, <1>4, <2>1
    <2> HIDE DEF a
    <2> DEFINE d == a - 1
    <2>3. r \in Seq(Packets) /\ Len(r) = m - d /\ \A n \in 1..(m - d) : r[n] = q[n + d]
      BY <1>1, <2>2 DEF m
    <2>4. d \in 0..m /\ m - d <= m
      BY <1>1, <2>2
    <2> QED
      BY <2>2, <2>3, <2>4 DEF TailOf, m
  <1> QED
    BY <1>3, <1>4

\* Removals: whatever leaves the queues from their heads goes off the counters.
LEMMA KeepFits ==
  ASSUME QueuesFit, DeliveredFits, CountsFit, NEW qs \in [Peers -> Seq(Packets)],
         \A p \in Peers : TailOf(qs[p], queues[p]), KeepOnly(qs), orphans' = orphans
  PROVE  /\ \A p \in Peers : Ordered(qs[p]) /\ Len(qs[p]) <= MaxPerPeer /\ Len(qs[p]) <= Len(queues[p])
         /\ \A p \in Peers : \A i \in DOMAIN delivered[p] : \A j \in DOMAIN qs[p] : delivered[p][i] < qs[p][j].id
         /\ Stored' \subseteq Stored /\ IsFiniteSet(Stored')
         /\ CountersExplained' /\ Cardinality(Stored') <= MaxTotal /\ SfBytes(Stored') <= MaxBytes
         /\ totalPackets' \in Nat /\ totalPackets \in Nat /\ totalPackets' <= totalPackets
  <1>1. ASSUME NEW p \in Peers
        PROVE  /\ Ordered(qs[p]) /\ ToSet(qs[p]) \subseteq ToSet(queues[p]) /\ Len(qs[p]) \in Nat
               /\ Len(qs[p]) <= Len(queues[p]) /\ \A j \in DOMAIN qs[p] : \E k \in DOMAIN queues[p] : qs[p][j] = queues[p][k]
    <2>1. queues[p] \in Seq(Packets) /\ TailOf(qs[p], queues[p]) /\ Ordered(queues[p])
      BY DEF QueuesFit
    <2> QED
      BY <2>1, TailOfFits
  <1>2. \A p \in Peers : Len(qs[p]) <= MaxPerPeer
    <2> TAKE p \in Peers
    <2>1. Len(queues[p]) \in Nat /\ Len(queues[p]) <= MaxPerPeer
      BY DEF QueuesFit
    <2> QED
      BY <1>1, <2>1, SfConstants
  <1>3. \A p \in Peers : \A i \in DOMAIN delivered[p] : \A j \in DOMAIN qs[p] : delivered[p][i] < qs[p][j].id
    BY <1>1 DEF DeliveredFits
  <1>4. queues' = qs /\ Stored' = StoredIn(qs)
    BY DEF KeepOnly, Stored, StoredIn
  <1>5. StoredIn(qs) \subseteq Stored
    BY <1>1 DEF Stored, StoredIn
  <1> DEFINE S == Stored
             T == StoredIn(qs)
             R == S \ T
  <1>6. S \in SUBSET Packets /\ IsFiniteSet(S)
    <2>1. \A p \in Peers : ToSet(queues[p]) \subseteq Packets
      BY DEF QueuesFit, ToSet
    <2> QED
      BY <2>1 DEF CountsFit, Stored, StoredIn
  <1>7. totalPackets' = totalPackets - Cardinality(R) /\ totalBytes' = totalBytes - SfBytes(R)
    BY DEF KeepOnly
  <1> HIDE DEF S, T
  <1>8. T \in SUBSET S
    BY <1>5 DEF S, T
  <1>9. /\ IsFiniteSet(T) /\ Cardinality(T) \in Nat /\ SfBytes(T) \in Nat /\ SfBytes(S) \in Nat
        /\ Cardinality(R) \in Nat /\ Cardinality(S) = Cardinality(T) + Cardinality(R)
        /\ SfBytes(R) \in Nat /\ SfBytes(S) = SfBytes(T) + SfBytes(R)
    BY <1>6, <1>8, BytesSplit
  <1>10. /\ totalPackets = Cardinality(S) + Cardinality(orphans) /\ totalBytes = SfBytes(S) + SfBytes(orphans)
         /\ Cardinality(S) <= MaxTotal /\ SfBytes(S) <= MaxBytes
         /\ IsFiniteSet(orphans) /\ orphans \in SUBSET Packets
    BY DEF CountsFit, CountersExplained, S
  <1>11. Cardinality(orphans) \in Nat /\ SfBytes(orphans) \in Nat
    BY <1>10, FS_CardinalityType, BytesFinite
  <1> HIDE DEF R
  <1>12. /\ totalPackets' = Cardinality(T) + Cardinality(orphans) /\ totalBytes' = SfBytes(T) + SfBytes(orphans)
         /\ Cardinality(T) <= MaxTotal /\ SfBytes(T) <= MaxBytes
         /\ totalPackets' \in Nat /\ totalPackets \in Nat /\ totalPackets' <= totalPackets
    <2>1. MaxTotal \in Nat /\ MaxBytes \in Nat
      BY SfConstants
    <2>2. Cardinality(T) \in Nat /\ Cardinality(R) \in Nat /\ Cardinality(S) = Cardinality(T) + Cardinality(R)
      BY <1>9
    <2>3. SfBytes(T) \in Nat /\ SfBytes(R) \in Nat /\ SfBytes(S) = SfBytes(T) + SfBytes(R)
      BY <1>9
    <2>4. totalPackets = Cardinality(S) + Cardinality(orphans) /\ Cardinality(S) <= MaxTotal
      BY <1>10
    <2>5. totalBytes = SfBytes(S) + SfBytes(orphans) /\ SfBytes(S) <= MaxBytes
      BY <1>10
    <2>6. /\ totalPackets' = Cardinality(T) + Cardinality(orphans) /\ Cardinality(T) <= MaxTotal
          /\ totalPackets' \in Nat /\ totalPackets \in Nat /\ totalPackets' <= totalPackets
      BY ONLY <1>7, <1>11, <2>1, <2>2, <2>4
    <2>7. totalBytes' = SfBytes(T) + SfBytes(orphans) /\ SfBytes(T) <= MaxBytes
      BY ONLY <1>7, <1>11, <2>1, <2>3, <2>5
    <2> QED
      BY <2>6, <2>7
  <1>13. SfBytes(Stored)' = SfBytes(T) /\ SfBytes(orphans)' = SfBytes(orphans) /\ SfBytes(Stored') = SfBytes(T)
    BY <1>4 DEF T, SfBytes, BytesOf
  <1>14. Stored' = T
    BY <1>4 DEF T
  <1>15. CountersExplained'
    BY <1>12, <1>13, <1>14 DEF CountersExplained
  <1> QED
    BY <1>1, <1>2, <1>3, <1>8, <1>9, <1>12, <1>13, <1>14, <1>15 DEF S

\* The dictionary's keys without some of those whose queue is empty.
LEMMA KeysPicked ==
  ASSUME keys \in Seq(Peers), IsInjective(keys), NEW I \in SUBSET (DOMAIN keys), NEW ks, ks = Picked(keys, I)
  PROVE  ks \in Seq(Peers) /\ IsInjective(ks) /\ ToSet(ks) = {keys[i] : i \in I}
  <1>1. /\ ks \in Seq(Peers) /\ DOMAIN ks = 1..Len(ks)
        /\ \A n \in 1..Len(ks) : Nth(I, n) \in I /\ ks[n] = keys[Nth(I, n)]
        /\ \A a, b \in 1..Len(ks) : Nth(I, a) = Nth(I, b) => a = b
        /\ \A i \in I : Rank(I, i) \in 1..Len(ks) /\ ks[Rank(I, i)] = keys[i]
    BY PickedIs
  <1>2. IsInjective(ks)
    BY <1>1 DEF IsInjective
  <1>3. ToSet(ks) \subseteq {keys[i] : i \in I}
    BY <1>1 DEF ToSet
  <1>4. {keys[i] : i \in I} \subseteq ToSet(ks)
    BY <1>1 DEF ToSet
  <1> QED
    BY <1>1, <1>2, <1>3, <1>4

LEMMA PrunedFits ==
  ASSUME KeysFit, QueuesFit
  PROVE  /\ Pruned \in [Peers -> Seq(Packets)] /\ \A p \in Peers : TailOf(Pruned[p], queues[p])
         /\ PrunedKeys \in Seq(Peers) /\ IsInjective(PrunedKeys)
         /\ \A p \in Peers : Pruned[p] # <<>> => p \in ToSet(PrunedKeys)
  <1> DEFINE I == {i \in DOMAIN keys : Pruned[keys[i]] # <<>>}
  <1>1. \A p \in Peers : queues[p] \in Seq(Packets)
    BY DEF QueuesFit
  <1>2. \A p \in Peers : Pruned[p] = DropExpired(queues[p]) /\ TailOf(Pruned[p], queues[p])
    BY <1>1, ExpiredDropped DEF Pruned
  <1>3. Pruned \in [Peers -> Seq(Packets)]
    <2>1. Pruned = [p \in Peers |-> Pruned[p]]
      BY DEF Pruned
    <2>2. \A p \in Peers : Pruned[p] \in Seq(Packets)
      BY <1>2 DEF TailOf
    <2> HIDE DEF Pruned
    <2> QED
      BY <2>1, <2>2
  <1>4. keys \in Seq(Peers) /\ IsInjective(keys) /\ I \in SUBSET (DOMAIN keys) /\ PrunedKeys = Picked(keys, I)
    BY DEF KeysFit, PrunedKeys
  <1> HIDE DEF I
  <1>5. PrunedKeys \in Seq(Peers) /\ IsInjective(PrunedKeys) /\ ToSet(PrunedKeys) = {keys[i] : i \in I}
    BY <1>4, KeysPicked
  <1>6. ASSUME NEW p \in Peers, Pruned[p] # <<>> PROVE p \in ToSet(PrunedKeys)
    <2>1. queues[p] # <<>>
      <3> SUFFICES ASSUME queues[p] = <<>> PROVE FALSE
        OBVIOUS
      <3>1. Len(queues[p]) = 0 /\ Len(Pruned[p]) <= Len(queues[p]) /\ Pruned[p] \in Seq(Packets)
        BY <1>2 DEF TailOf
      <3>2. Len(Pruned[p]) = 0
        BY <3>1
      <3> QED
        BY <1>6, <3>1, <3>2
    <2>2. PICK i \in DOMAIN keys : keys[i] = p
      BY <2>1 DEF KeysFit, ToSet
    <2> QED
      BY <1>5, <1>6, <2>2 DEF I
  <1> QED
    BY <1>2, <1>3, <1>5, <1>6

LEMMA SfLastIs ==
  ASSUME SfTypes
  PROVE  SfLast \in Int /\ offered \in Nat
  BY SfConstants DEF SfTypes, SfLast

LEMMA StoredPackets ==
  ASSUME QueuesFit
  PROVE  Stored \subseteq Packets
  <1>1. \A p \in Peers : ToSet(queues[p]) \subseteq Packets
    BY DEF QueuesFit, ToSet
  <1> QED
    BY <1>1 DEF Stored, StoredIn

LEMMA Removal ==
  ASSUME SfIInv, NEW qs \in [Peers -> Seq(Packets)], \A p \in Peers : TailOf(qs[p], queues[p]),
         KeepOnly(qs), orphans' = orphans, delivered' = delivered, SfLast' \in Int, SfLast <= SfLast',
         pc' # "idle" => Len(qs[cur'.peer]) < MaxPerPeer, pc' = "evictBytes" => pc = "evictBytes"
  PROVE  QueuesFit' /\ DeliveredFits' /\ CountsFit'
  <1>0. SfTypes /\ QueuesFit /\ DeliveredFits /\ CountsFit
    BY DEF SfIInv
  <1>1. /\ \A p \in Peers : Ordered(qs[p]) /\ Len(qs[p]) <= MaxPerPeer /\ Len(qs[p]) <= Len(queues[p])
        /\ \A p \in Peers : \A i \in DOMAIN delivered[p] : \A j \in DOMAIN qs[p] : delivered[p][i] < qs[p][j].id
        /\ Stored' \subseteq Stored /\ IsFiniteSet(Stored')
        /\ CountersExplained' /\ Cardinality(Stored') <= MaxTotal /\ SfBytes(Stored') <= MaxBytes
        /\ totalPackets' \in Nat /\ totalPackets \in Nat /\ totalPackets' <= totalPackets
    BY <1>0, KeepFits
  <1>2. queues' = qs
    BY DEF KeepOnly
  <1>3. SfLast \in Int
    BY <1>0, SfLastIs
  <1>4. QueuesFit'
    BY <1>1, <1>2 DEF QueuesFit, Ordered
  <1>5. DeliveredFits'
    <2>1. \A p \in Peers : \A i \in DOMAIN delivered[p] : delivered[p][i] \in Int /\ delivered[p][i] <= SfLast
      BY <1>0, SfConstants DEF DeliveredFits
    <2>2. \A p \in Peers : \A i \in DOMAIN delivered[p] : delivered[p][i] <= SfLast'
      BY <1>3, <2>1
    <2> QED
      BY <1>0, <1>1, <1>2, <2>2 DEF DeliveredFits, DeliveredInOrder
  <1>6. CountsFit'
    <2>1. \A pkt \in Stored \cup orphans : pkt.id \in Int /\ pkt.id <= SfLast
      BY <1>0, StoredPackets, PacketFields DEF CountsFit
    <2>2. \A pkt \in Stored' \cup orphans' : pkt.id <= SfLast'
      BY <1>1, <1>3, <2>1
    <2>3. pc' = "evictBytes" => totalPackets' < MaxTotal
      BY <1>0, <1>1, SfConstants DEF CountsFit
    <2>4. IsFiniteSet(Stored)' /\ IsFiniteSet(orphans)' /\ (orphans \subseteq Packets)'
      BY <1>0, <1>1 DEF CountsFit
    <2>5. SfBytes(Stored)' = SfBytes(Stored') /\ Cardinality(Stored)' = Cardinality(Stored')
      BY DEF SfBytes, BytesOf
    <2> QED
      BY <1>1, <2>2, <2>3, <2>4, <2>5 DEF CountsFit
  <1> QED
    BY <1>4, <1>5, <1>6

LEMMA SfPruneStep ==
  ASSUME SfIInv, PruneExpired
  PROVE  SfIInv'
  <1>0. SfTypes /\ KeysFit /\ QueuesFit
    BY DEF SfIInv
  <1>1. /\ Pruned \in [Peers -> Seq(Packets)] /\ \A p \in Peers : TailOf(Pruned[p], queues[p])
        /\ PrunedKeys \in Seq(Peers) /\ IsInjective(PrunedKeys)
        /\ \A p \in Peers : Pruned[p] # <<>> => p \in ToSet(PrunedKeys)
    BY <1>0, PrunedFits
  <1>2. KeepOnly(Pruned) /\ keys' = PrunedKeys /\ pc = "idle" /\ UNCHANGED <<sfNow, pc, cur, offered, delivered, orphans>>
    BY DEF PruneExpired
  <1>3. SfTypes' /\ SfLast' = SfLast /\ SfLast \in Int
    BY <1>0, <1>2, SfLastIs DEF SfTypes, SfLast
  <1>4. QueuesFit' /\ DeliveredFits' /\ CountsFit'
    <2>1. SfLast <= SfLast'
      BY <1>3
    <2> QED
      BY <1>1, <1>2, <1>3, <2>1, Removal
  <1>5. KeysFit'
    <2>1. queues' = Pruned
      BY <1>2 DEF KeepOnly
    <2> QED
      BY <1>1, <1>2, <2>1 DEF KeysFit, IsInjective, ToSet
  <1> QED
    BY <1>3, <1>4, <1>5 DEF SfIInv

\* enqueue up to its loops.
LEMMA StartStep ==
  ASSUME SfIInv, NEW p \in Peers, NEW size \in Sizes, EnqueueStart(p, size)
  PROVE  SfIInv'
  <1>0. SfTypes /\ KeysFit /\ QueuesFit
    BY DEF SfIInv
  <1>1. /\ Pruned \in [Peers -> Seq(Packets)] /\ \A r \in Peers : TailOf(Pruned[r], queues[r])
        /\ PrunedKeys \in Seq(Peers) /\ IsInjective(PrunedKeys)
        /\ \A r \in Peers : Pruned[r] # <<>> => r \in ToSet(PrunedKeys)
    BY <1>0, PrunedFits
  <1>2. /\ pc = "idle" /\ offered < MaxPackets /\ offered' = offered + 1
        /\ UNCHANGED <<sfNow, delivered, orphans>>
    BY DEF EnqueueStart
  <1>3. offered \in Nat /\ SfLast = offered /\ MaxPackets \in Nat /\ sfNow \in 0..SfMaxTime
    BY <1>0, <1>2, SfConstants DEF SfTypes, SfLast
  <1>4. offered' \in 0..MaxPackets /\ offered' \in 1..MaxPackets
    BY <1>2, <1>3
  <1>5. CASE size > MaxBytes
    <2>1. KeepOnly(Pruned) /\ keys' = PrunedKeys /\ pc' = pc /\ cur' = cur
      BY <1>5 DEF EnqueueStart
    <2>2. SfTypes' /\ SfLast' = offered + 1
      BY <1>0, <1>2, <1>4, <2>1 DEF SfTypes, SfLast
    <2>3. SfLast' \in Int /\ SfLast <= SfLast'
      BY <1>3, <2>2
    <2>4. QueuesFit' /\ DeliveredFits' /\ CountsFit'
      BY <1>1, <1>2, <2>1, <2>3, Removal
    <2>5. queues' = Pruned
      BY <2>1 DEF KeepOnly
    <2>6. KeysFit'
      BY <1>1, <2>1, <2>5 DEF KeysFit, IsInjective, ToSet
    <2> QED
      BY <2>2, <2>4, <2>6 DEF SfIInv
  <1>6. CASE ~(size > MaxBytes)
    <2> DEFINE qs == PeerRoom(p)
               ks == IF p \in ToSet(PrunedKeys) THEN PrunedKeys ELSE Append(PrunedKeys, p)
               pkt == [id |-> offered + 1, at |-> sfNow, size |-> size]
    <2>1. KeepOnly(qs) /\ keys' = ks /\ pc' = "evictTotal" /\ cur' = [peer |-> p, pkt |-> pkt]
      BY <1>6 DEF EnqueueStart
    <2>2. pkt \in Packets /\ pkt.id = offered'
      BY <1>2, <1>3, <1>4 DEF Packets
    <2>3. SfTypes'
      BY <1>0, <1>2, <1>4, <2>1, <2>2 DEF SfTypes
    <2>4. SfLast' = SfLast /\ SfLast' \in Int /\ SfLast <= SfLast'
      <3>1. SfLast' = (offered + 1) - 1
        BY <1>2, <2>1 DEF SfLast
      <3> QED
        BY <1>3, <3>1
    <2> DEFINE r == Pruned[p]
    <2>5. r \in Seq(Packets) /\ Len(r) \in Nat /\ Len(r) <= Len(queues[p]) /\ Len(queues[p]) <= MaxPerPeer
          /\ queues[p] \in Seq(Packets) /\ Len(queues[p]) \in Nat /\ TailOf(r, queues[p])
      BY <1>0, <1>1 DEF QueuesFit, TailOf
    <2>6. /\ qs \in [Peers -> Seq(Packets)] /\ \A s \in Peers : TailOf(qs[s], queues[s])
          /\ Len(qs[p]) < MaxPerPeer /\ \A s \in Peers \ {p} : qs[s] = Pruned[s]
      <3>1. CASE Len(r) >= MaxPerPeer
        <4>1. qs = [Pruned EXCEPT ![p] = Tail(r)] /\ r # <<>>
          BY <1>1, <2>5, <3>1, SfConstants DEF PeerRoom
        <4>2. TailOf(Tail(r), r) /\ Len(Tail(r)) < Len(r) /\ Tail(r) \in Seq(Packets) /\ Len(Tail(r)) \in Nat
          BY <2>5, <4>1, TailOfSelf
        <4>3. TailOf(Tail(r), queues[p])
          BY <2>5, <4>2, TailOfTail
        <4>4. qs[p] = Tail(r) /\ qs \in [Peers -> Seq(Packets)] /\ \A s \in Peers \ {p} : qs[s] = Pruned[s]
          BY <1>1, <4>1, <4>2
        <4> HIDE DEF qs, r
        <4>5. Len(qs[p]) < MaxPerPeer
          BY <2>5, <4>2, <4>4, SfConstants
        <4> QED
          BY <1>1, <4>3, <4>4, <4>5
      <3>2. CASE ~(Len(r) >= MaxPerPeer)
        <4>1. qs = Pruned
          BY <3>2 DEF PeerRoom
        <4>2. Len(r) < MaxPerPeer
          BY <2>5, <3>2, SfConstants
        <4> QED
          BY <1>1, <4>1, <4>2
      <3> QED
        BY <3>1, <3>2
    <2>7. queues' = qs
      BY <2>1 DEF KeepOnly
    <2>8. ks \in Seq(Peers) /\ IsInjective(ks) /\ ToSet(ks) = ToSet(PrunedKeys) \cup {p}
      <3>1. CASE p \in ToSet(PrunedKeys)
        BY <1>1, <3>1
      <3>2. CASE p \notin ToSet(PrunedKeys)
        <4> DEFINE c == Len(PrunedKeys)
        <4>1. ks = Append(PrunedKeys, p) /\ \A i \in DOMAIN PrunedKeys : PrunedKeys[i] # p
          BY <3>2 DEF ToSet
        <4>2. c \in Nat /\ DOMAIN PrunedKeys = 1..c
          BY <1>1
        <4>3. /\ ks \in Seq(Peers) /\ DOMAIN ks = 1..(c + 1) /\ ks[c + 1] = p
              /\ \A i \in 1..c : ks[i] = PrunedKeys[i]
          BY <1>1, <4>1
        <4> HIDE DEF c, ks
        <4>4. 1..(c + 1) = 1..c \cup {c + 1}
          BY <4>2
        <4>5. IsInjective(ks)
          BY <1>1, <4>1, <4>2, <4>3, <4>4 DEF IsInjective
        <4>6. ToSet(ks) = ToSet(PrunedKeys) \cup {p}
          BY <4>2, <4>3, <4>4 DEF ToSet
        <4> QED
          BY <4>3, <4>5, <4>6
      <3> QED
        BY <3>1, <3>2
    <2> HIDE DEF qs, ks, pkt
    <2>9. QueuesFit' /\ DeliveredFits' /\ CountsFit'
      BY <1>2, <2>1, <2>4, <2>6, Removal
    <2>10. KeysFit'
      <3>1. \A s \in Peers : qs[s] # <<>> => s \in ToSet(ks)
        BY <1>1, <2>6, <2>8
      <3> QED
        BY <2>1, <2>7, <2>8, <3>1 DEF KeysFit, IsInjective, ToSet
    <2> QED
      BY <2>3, <2>9, <2>10 DEF SfIInv
  <1> QED
    BY <1>5, <1>6

\* _evict_oldest.
LEMMA EvictKeeps ==
  ASSUME SfIInv, EvictOldest, pc # "idle", UNCHANGED <<sfNow, pc, cur, offered, delivered, orphans>>
  PROVE  SfIInv'
  <1> DEFINE waiting == {i \in DOMAIN keys : queues[keys[i]] # <<>>}
             HeadAt(i) == queues[keys[i]][1].at
             oldest == {i \in waiting : \A j \in waiting : HeadAt(i) <= HeadAt(j)}
             k == Min(oldest)
             p == keys[k]
             qs == [queues EXCEPT ![p] = Tail(@)]
             m == Len(keys)
  <1>0. SfTypes /\ KeysFit /\ QueuesFit /\ DeliveredFits /\ CountsFit
    BY DEF SfIInv
  <1>1. SfTypes' /\ SfLast' = SfLast /\ SfLast \in Int /\ SfLast <= SfLast
    BY <1>0, SfLastIs DEF SfTypes, SfLast
  <1>2. keys \in Seq(Peers) /\ IsInjective(keys) /\ m \in Nat /\ DOMAIN keys = 1..m
    BY <1>0 DEF KeysFit
  <1>3. CASE waiting = {}
    <2>1. UNCHANGED <<keys, queues, counters>>
      BY <1>3 DEF EvictOldest
    <2> QED
      BY <1>0, <1>1, <2>1 DEF SfIInv, KeysFit, QueuesFit, DeliveredFits, CountsFit, CountersExplained,
         DeliveredInOrder, Stored, StoredIn, ToSet, IsInjective, Ordered, SfBytes, BytesOf, counters
  <1>4. CASE waiting # {}
    <2>1. KeepOnly(qs) /\ keys' = DropEmptyKey(k)
      BY <1>4 DEF EvictOldest
    <2>2. \A i \in waiting : HeadAt(i) \in 0..SfMaxTime /\ HeadAt(i) \in Int
      <3> TAKE i \in waiting
      <3>1. keys[i] \in Peers /\ queues[keys[i]] \in Seq(Packets) /\ queues[keys[i]] # <<>>
        BY <1>0, <1>2 DEF QueuesFit
      <3>2. queues[keys[i]][1] \in Packets
        BY <3>1
      <3> QED
        BY <3>2, PacketFields
    <2>3. oldest # {}
      <3> DEFINE T == {HeadAt(i) + 1 : i \in waiting}
                 w == SfMaxTime + 1
      <3>1. T \in SUBSET (1..w) /\ w \in Nat /\ T # {}
        BY <1>4, <2>2, SfConstants
      <3>2. \A i \in waiting : HeadAt(i) + 1 \in T
        OBVIOUS
      <3>3. \A y \in T : \E i \in waiting : y = HeadAt(i) + 1
        OBVIOUS
      <3> HIDE DEF T, w, HeadAt
      <3>4. Min(T) \in T /\ \A y \in T : Min(T) <= y
        BY ONLY <3>1, EndsOf
      <3>5. PICK i \in waiting : Min(T) = HeadAt(i) + 1
        BY <3>3, <3>4
      <3>6. \A j \in waiting : HeadAt(i) + 1 <= HeadAt(j) + 1
        BY <3>2, <3>4, <3>5
      <3>7. \A j \in waiting : HeadAt(i) <= HeadAt(j)
        BY <2>2, <3>6
      <3> QED
        BY <3>7
    <2>4. oldest \in SUBSET (1..m)
      BY <1>2
    <2>5. k \in oldest
      <3> HIDE DEF oldest, m
      <3> QED
        BY <1>2, <2>3, <2>4, EndsOf
    <2>a. \A i \in oldest : i \in DOMAIN keys /\ queues[keys[i]] # <<>> /\ keys[i] \in Peers
      BY <1>2
    <2> HIDE DEF waiting, HeadAt, oldest, k
    <2>6. k \in DOMAIN keys /\ queues[p] # <<>> /\ p \in Peers
      BY <2>5, <2>a
    <2> DEFINE q == queues[p]
    <2>7. /\ q \in Seq(Packets) /\ q # <<>> /\ TailOf(Tail(q), q) /\ Tail(q) \in Seq(Packets)
          /\ Len(Tail(q)) = Len(q) - 1 /\ Len(q) \in Nat
      BY <1>0, <2>6, TailOfSelf DEF QueuesFit
    <2>8. /\ qs \in [Peers -> Seq(Packets)] /\ qs[p] = Tail(q) /\ \A r \in Peers \ {p} : qs[r] = queues[r]
      BY <1>0, <2>6, <2>7 DEF QueuesFit
    <2>9. \A r \in Peers : TailOf(qs[r], queues[r]) /\ Len(qs[r]) <= Len(queues[r]) /\ Len(qs[r]) \in Nat
                           /\ Len(queues[r]) \in Nat
      <3> TAKE r \in Peers
      <3>1. queues[r] \in Seq(Packets)
        BY <1>0 DEF QueuesFit
      <3>2. TailOf(qs[r], queues[r])
        BY <2>7, <2>8, <3>1, TailOfSelf
      <3> QED
        BY <3>1, <3>2 DEF TailOf
    <2> HIDE DEF qs
    <2>10. Len(qs[cur'.peer]) < MaxPerPeer
      <3>1. cur.peer \in Peers /\ Len(queues[cur.peer]) < MaxPerPeer
        BY <1>0 DEF SfTypes, QueuesFit
      <3> QED
        BY <2>9, <3>1, SfConstants
    <2>11. QueuesFit' /\ DeliveredFits' /\ CountsFit'
      BY <1>1, <2>1, <2>8, <2>9, <2>10, Removal
    <2>12. queues' = qs
      BY <2>1 DEF KeepOnly
    <2>13. KeysFit'
      <3>1. CASE Len(q) = 1
        <4> DEFINE I == DOMAIN keys \ {k}
        <4>1. keys' = Picked(keys, I) /\ I \in SUBSET (DOMAIN keys)
          BY <2>1, <3>1 DEF DropEmptyKey
        <4>2. keys' \in Seq(Peers) /\ IsInjective(keys') /\ ToSet(keys') = {keys[i] : i \in I}
          <5> HIDE DEF I
          <5> QED
            BY <1>2, <4>1, KeysPicked
        <4>3. qs[p] = <<>>
          <5> DEFINE z == Tail(q)
          <5>1. z \in Seq(Packets) /\ Len(z) = 0
            BY <2>7, <3>1
          <5> HIDE DEF z
          <5>2. z = <<>>
            BY <5>1
          <5> QED
            BY <2>8, <5>2 DEF z
        <4>4. ASSUME NEW r \in Peers, qs[r] # <<>> PROVE r \in ToSet(keys')
          <5>1. r # p /\ queues[r] # <<>>
            BY <2>8, <4>3, <4>4
          <5>2. PICK i \in DOMAIN keys : keys[i] = r
            BY <1>0, <5>1 DEF KeysFit, ToSet
          <5> QED
            BY <4>2, <5>1, <5>2
        <4> QED
          BY <2>12, <4>2, <4>4 DEF KeysFit, IsInjective, ToSet
      <3>2. CASE Len(q) # 1
        <4>1. keys' = keys
          BY <2>1, <3>2 DEF DropEmptyKey
        <4>2. \A r \in Peers : qs[r] # <<>> => queues[r] # <<>>
          BY <2>7, <2>8
        <4> QED
          BY <1>0, <2>12, <4>1, <4>2 DEF KeysFit, IsInjective, ToSet
      <3> QED
        BY <3>1, <3>2
    <2> QED
      BY <1>1, <2>11, <2>13 DEF SfIInv
  <1> QED
    BY <1>3, <1>4

LEMMA LoopStep ==
  ASSUME SfIInv, EvictForPackets \/ EvictForBytes \/ PacketsFit
  PROVE  SfIInv'
  <1>1. CASE EvictForPackets \/ EvictForBytes
    BY <1>1, EvictKeeps DEF EvictForPackets, EvictForBytes
  <1>2. CASE PacketsFit
    <2>0. SfTypes /\ KeysFit /\ QueuesFit /\ DeliveredFits /\ CountsFit
      BY DEF SfIInv
    <2>1. /\ pc = "evictTotal" /\ pc' = "evictBytes" /\ totalPackets < MaxTotal
          /\ UNCHANGED <<sfNow, keys, queues, counters, cur, offered, delivered, orphans>>
      BY <1>2 DEF PacketsFit
    <2>2. SfTypes' /\ SfLast' = SfLast
      BY <2>0, <2>1 DEF SfTypes, SfLast
    <2>3. KeysFit' /\ QueuesFit'
      BY <2>0, <2>1 DEF KeysFit, QueuesFit, ToSet, IsInjective, Ordered
    <2>4. DeliveredFits'
      BY <2>0, <2>1, <2>2 DEF DeliveredFits, DeliveredInOrder
    <2>5. CountsFit'
      BY <2>0, <2>1, <2>2 DEF CountsFit, CountersExplained, Stored, StoredIn, ToSet, SfBytes, BytesOf, counters
    <2> QED
      BY <2>2, <2>3, <2>4, <2>5 DEF SfIInv
  <1> QED
    BY <1>1, <1>2

\* enqueue's end: the packet is the newest there is, and its peer's queue has room.
LEMMA EndStep ==
  ASSUME SfIInv, EnqueueEnd
  PROVE  SfIInv'
  <1> DEFINE pkt == cur.pkt
             p == cur.peer
  <1>0. SfTypes /\ KeysFit /\ QueuesFit /\ DeliveredFits /\ CountsFit
    BY DEF SfIInv
  <1>1. /\ pc = "evictBytes" /\ ~(Oversubscribed /\ totalPackets > 0) /\ pc' = "idle" /\ cur' = NoCall
        /\ UNCHANGED <<sfNow, keys, offered, delivered>>
    BY DEF EnqueueEnd
  <1>2. p \in Peers /\ pkt \in Packets /\ pkt.id = offered /\ offered \in Nat
    BY <1>0, <1>1, SfConstants DEF SfTypes
  <1>3. SfTypes'
    BY <1>0, <1>1 DEF SfTypes
  <1>4. SfLast = offered - 1 /\ SfLast' = offered
    BY <1>1 DEF SfLast
  <1>5. \A r \in Peers : \A i \in DOMAIN delivered[r] :
          delivered[r][i] \in Int /\ delivered[r][i] <= offered /\ delivered[r][i] < offered
    <2>1. \A r \in Peers : \A i \in DOMAIN delivered[r] : delivered[r][i] \in Int /\ delivered[r][i] <= SfLast
      BY <1>0, SfConstants DEF DeliveredFits
    <2> QED
      BY <1>2, <1>4, <2>1
  <1>6. \A x \in Stored \cup orphans : x.id \in Int /\ x.id <= offered /\ x.id < offered
    <2>1. \A x \in Stored \cup orphans : x.id \in Int /\ x.id <= SfLast
      BY <1>0, StoredPackets, PacketFields DEF CountsFit
    <2> QED
      BY <1>2, <1>4, <2>1
  <1>a. Stored \in SUBSET Packets /\ orphans \in SUBSET Packets /\ IsFiniteSet(Stored) /\ IsFiniteSet(orphans)
    BY <1>0, StoredPackets DEF CountsFit
  <1>b. Cardinality(Stored) \in Nat /\ SfBytes(Stored) \in Nat /\ Cardinality(orphans) \in Nat /\ SfBytes(orphans) \in Nat
    BY <1>a, FS_CardinalityType, BytesFinite
  <1>c. /\ totalPackets = Cardinality(Stored) + Cardinality(orphans) /\ totalBytes = SfBytes(Stored) + SfBytes(orphans)
        /\ totalPackets < MaxTotal
    BY <1>0, <1>1 DEF CountsFit, CountersExplained
  <1>7. CASE Oversubscribed
    <2>1. UNCHANGED <<queues, counters, orphans>>
      BY <1>7 DEF EnqueueEnd
    <2>2. KeysFit' /\ QueuesFit'
      BY <1>0, <1>1, <2>1 DEF KeysFit, QueuesFit, ToSet, IsInjective, Ordered
    <2>3. DeliveredFits'
      BY <1>0, <1>1, <1>4, <1>5, <2>1 DEF DeliveredFits, DeliveredInOrder
    <2>4. Stored' = Stored /\ SfBytes(Stored)' = SfBytes(Stored) /\ SfBytes(orphans)' = SfBytes(orphans)
      BY <2>1 DEF Stored, StoredIn, ToSet, SfBytes, BytesOf
    <2>5. CountsFit'
      BY <1>0, <1>1, <1>4, <1>6, <2>1, <2>4 DEF CountsFit, CountersExplained, counters
    <2> QED
      BY <1>3, <2>2, <2>3, <2>5 DEF SfIInv
  <1>8. CASE ~Oversubscribed
    <2> DEFINE size == pkt.size
               q == queues[p]
               m == Len(q)
    <2>1. size \in Nat /\ pkt \notin Stored /\ pkt \notin orphans
      BY <1>2, <1>6, PacketFields
    <2>2. totalBytes + size <= MaxBytes
      BY <1>8, <1>b, <1>c, <2>1, SfConstants DEF Oversubscribed
    <2>3. totalPackets' = totalPackets + 1 /\ totalBytes' = totalBytes + size
      BY <1>8 DEF EnqueueEnd
    <2>4. q \in Seq(Packets) /\ Ordered(q) /\ m \in Nat /\ m < MaxPerPeer /\ DOMAIN q = 1..m
      BY <1>0, <1>1, <1>2 DEF QueuesFit
    <2> HIDE DEF pkt, p, size, q, m
    <2>5. CASE p \in ToSet(keys)
      <3> DEFINE r == Append(q, pkt)
      <3>1. queues' = [queues EXCEPT ![p] = r] /\ orphans' = orphans
        BY <1>8, <2>5 DEF EnqueueEnd, Enqueued, p, pkt, q
      <3>2. /\ r \in Seq(Packets) /\ Len(r) = m + 1 /\ DOMAIN r = 1..(m + 1) /\ r[m + 1] = pkt
            /\ \A i \in 1..m : r[i] = q[i]
        BY <1>2, <2>4 DEF m
      <3> HIDE DEF r
      <3>3. /\ queues' \in [Peers -> Seq(Packets)] /\ queues'[p] = r /\ \A s \in Peers \ {p} : queues'[s] = queues[s]
        BY <1>0, <1>2, <3>1, <3>2 DEF QueuesFit
      <3>4. ToSet(r) = ToSet(q) \cup {pkt}
        <4>1. 1..(m + 1) = 1..m \cup {m + 1}
          BY <2>4
        <4> QED
          BY <2>4, <3>2, <4>1 DEF ToSet
      <3>5. Stored' = Stored \cup {pkt}
        <4>1. \A s \in Peers : ToSet(queues'[s]) = IF s = p THEN ToSet(queues[s]) \cup {pkt} ELSE ToSet(queues[s])
          BY <3>3, <3>4 DEF q
        <4>2. Stored' = UNION {ToSet(queues'[s]) : s \in Peers} /\ Stored = UNION {ToSet(queues[s]) : s \in Peers}
          BY DEF Stored, StoredIn, ToSet
        <4>3. ASSUME NEW x PROVE x \in Stored' <=> x \in Stored \/ x = pkt
          BY <1>2, <4>1, <4>2
        <4> QED
          BY <4>3
      <3>6. /\ IsFiniteSet(Stored \cup {pkt}) /\ Cardinality(Stored \cup {pkt}) = Cardinality(Stored) + 1
            /\ SfBytes(Stored \cup {pkt}) = SfBytes(Stored) + size
        BY <1>2, <1>a, <2>1, BytesAdd DEF size
      <3>7. \A x \in ToSet(q) : x.id \in Int /\ x.id < offered
        BY <1>2, <1>6 DEF Stored, StoredIn, q
      <3>8. Ordered(r)
        <4> SUFFICES ASSUME NEW i \in 1..(m + 1), NEW j \in 1..(m + 1), i < j PROVE r[i].id < r[j].id
          BY <3>2 DEF Ordered
        <4>1. i \in 1..m
          BY <2>4
        <4>2. CASE j = m + 1
          <5>1. r[i] = q[i] /\ q[i] \in ToSet(q)
            BY <2>4, <3>2, <4>1 DEF ToSet
          <5> QED
            BY <1>2, <3>2, <3>7, <4>2, <5>1
        <4>3. CASE j # m + 1
          <5>1. j \in 1..m
            BY <2>4, <4>3
          <5> QED
            BY <2>4, <3>2, <4>1, <5>1 DEF Ordered
        <4> QED
          BY <4>2, <4>3
      <3>9. Len(r) <= MaxPerPeer
        BY <2>4, <3>2, SfConstants
      <3>10. QueuesFit'
        <4>1. \A s \in Peers : Ordered(queues'[s]) /\ Len(queues'[s]) <= MaxPerPeer
          BY <1>0, <3>3, <3>8, <3>9 DEF QueuesFit
        <4> QED
          BY <1>1, <3>3, <4>1 DEF QueuesFit, Ordered
      <3>11. KeysFit'
        <4>1. \A s \in Peers : queues'[s] # <<>> => s \in ToSet(keys)
          BY <1>0, <2>5, <3>3 DEF KeysFit
        <4> QED
          BY <1>0, <1>1, <4>1 DEF KeysFit, ToSet, IsInjective
      <3>12. DeliveredFits'
        <4>1. ASSUME NEW s \in Peers, NEW i \in DOMAIN delivered[s], NEW j \in DOMAIN queues'[s]
              PROVE  delivered[s][i] < queues'[s][j].id
          <5>1. CASE s # p
            BY <1>0, <3>3, <4>1, <5>1 DEF DeliveredFits
          <5>2. CASE s = p
            <6>1. j \in 1..(m + 1) /\ queues'[s][j] = r[j]
              BY <3>2, <3>3, <5>2
            <6>2. CASE j = m + 1
              BY <1>2, <1>5, <3>2, <6>1, <6>2
            <6>3. CASE j # m + 1
              <7>1. j \in 1..m
                BY <2>4, <6>1, <6>3
              <7>2. j \in DOMAIN queues[s] /\ queues'[s][j] = queues[s][j]
                BY <2>4, <3>2, <5>2, <6>1, <7>1 DEF q
              <7> QED
                BY <1>0, <7>2 DEF DeliveredFits
            <6> QED
              BY <6>2, <6>3
          <5> QED
            BY <5>1, <5>2
        <4> QED
          BY <1>0, <1>1, <1>4, <1>5, <4>1 DEF DeliveredFits, DeliveredInOrder
      <3>13. CountsFit'
        <4>1. SfBytes(Stored)' = SfBytes(Stored \cup {pkt}) /\ SfBytes(orphans)' = SfBytes(orphans)
          BY <3>1, <3>5 DEF SfBytes, BytesOf
        <4>2. \A x \in Stored' \cup orphans' : x.id <= SfLast'
          BY <1>2, <1>4, <1>6, <3>1, <3>5
        <4>a. Cardinality(Stored)' = Cardinality(Stored) + 1 /\ Cardinality(orphans)' = Cardinality(orphans)
          BY <3>1, <3>5, <3>6
        <4>b. SfBytes(Stored)' = SfBytes(Stored) + size
          BY <3>6, <4>1
        <4>3. CountersExplained'
          <5>1. totalPackets' = (Cardinality(Stored) + 1) + Cardinality(orphans)
            BY ONLY <1>b, <1>c, <2>3
          <5>2. totalBytes' = (SfBytes(Stored) + size) + SfBytes(orphans)
            BY ONLY <1>b, <1>c, <2>1, <2>3
          <5> QED
            BY <4>1, <4>a, <4>b, <5>1, <5>2 DEF CountersExplained
        <4>4. Cardinality(Stored) + 1 <= MaxTotal /\ SfBytes(Stored) + size <= MaxBytes
          <5>1. MaxTotal \in Nat /\ MaxBytes \in Nat
            BY SfConstants
          <5>2. Cardinality(Stored) + 1 <= MaxTotal
            BY ONLY <1>b, <1>c, <5>1
          <5>3. SfBytes(Stored) + size <= MaxBytes
            BY ONLY <1>b, <1>c, <2>1, <2>2, <5>1
          <5> QED
            BY <5>2, <5>3
        <4>5. IsFiniteSet(Stored)' /\ IsFiniteSet(orphans)' /\ (orphans \subseteq Packets)'
          BY <1>a, <3>1, <3>5, <3>6
        <4> QED
          BY <1>1, <4>2, <4>3, <4>4, <4>5, <4>a, <4>b DEF CountsFit
      <3> QED
        BY <1>3, <3>10, <3>11, <3>12, <3>13 DEF SfIInv
    <2>6. CASE p \notin ToSet(keys)
      <3>1. queues' = queues /\ orphans' = orphans \cup {pkt}
        BY <1>8, <2>6 DEF EnqueueEnd, p, pkt
      <3>2. KeysFit' /\ QueuesFit'
        BY <1>0, <1>1, <3>1 DEF KeysFit, QueuesFit, ToSet, IsInjective, Ordered
      <3>3. DeliveredFits'
        BY <1>0, <1>1, <1>4, <1>5, <3>1 DEF DeliveredFits, DeliveredInOrder
      <3>4. /\ IsFiniteSet(orphans \cup {pkt}) /\ Cardinality(orphans \cup {pkt}) = Cardinality(orphans) + 1
            /\ SfBytes(orphans \cup {pkt}) = SfBytes(orphans) + size
        BY <1>2, <1>a, <2>1, BytesAdd DEF size
      <3>5. /\ Stored' = Stored /\ SfBytes(Stored)' = SfBytes(Stored)
            /\ SfBytes(orphans)' = SfBytes(orphans \cup {pkt})
        BY <3>1 DEF Stored, StoredIn, ToSet, SfBytes, BytesOf
      <3>6. CountersExplained'
        <4>1. totalPackets' = Cardinality(Stored) + (Cardinality(orphans) + 1)
          BY ONLY <1>b, <1>c, <2>3
        <4>2. totalBytes' = SfBytes(Stored) + (SfBytes(orphans) + size)
          BY ONLY <1>b, <1>c, <2>1, <2>3
        <4> QED
          BY <3>1, <3>4, <3>5, <4>1, <4>2 DEF CountersExplained
      <3>7. \A x \in Stored' \cup orphans' : x.id <= SfLast'
        BY <1>2, <1>4, <1>6, <3>1, <3>5
      <3>8. CountsFit'
        BY <1>0, <1>1, <1>2, <3>1, <3>4, <3>5, <3>6, <3>7 DEF CountsFit
      <3> QED
        BY <1>3, <3>2, <3>3, <3>8 DEF SfIInv
    <2> QED
      BY <2>5, <2>6
  <1> QED
    BY <1>7, <1>8

LEMMA Joined ==
  ASSUME NEW S, NEW s \in Seq(S), NEW t \in Seq(S), NEW d, d = s \o t
  PROVE  /\ d \in Seq(S) /\ DOMAIN d = 1..(Len(s) + Len(t))
         /\ \A a \in 1..Len(s) : d[a] = s[a]
         /\ \A n \in 1..Len(t) : d[Len(s) + n] = t[n]
         /\ \A a \in DOMAIN s : s[a] \in S
  OBVIOUS

\* dequeue_for_peer: what is handed over follows all that was handed over before.
LEMMA Handover ==
  ASSUME NEW p \in Peers, SfTypes, QueuesFit, DeliveredFits, CountsFit,
         NEW I \in SUBSET (DOMAIN queues[p]), NEW fresh, fresh = Picked(queues[p], I),
         NEW d, d = delivered[p] \o [i \in DOMAIN fresh |-> fresh[i].id]
  PROVE  /\ d \in Seq(1..MaxPackets)
         /\ \A i, j \in DOMAIN d : i < j => d[i] < d[j]
         /\ \A i \in DOMAIN d : d[i] <= SfLast
  <1> DEFINE q == queues[p]
             old == delivered[p]
             c == Len(old)
             new == [i \in DOMAIN fresh |-> fresh[i].id]
             m == Len(fresh)
  <1>1. q \in Seq(Packets) /\ Ordered(q) /\ old \in Seq(1..MaxPackets) /\ c \in Nat /\ DOMAIN old = 1..c
    BY DEF QueuesFit, DeliveredFits
  <1>2. /\ fresh \in Seq(Packets) /\ m \in Nat /\ DOMAIN fresh = 1..m
        /\ \A n \in 1..m : Nth(I, n) \in I /\ fresh[n] = q[Nth(I, n)]
        /\ \A a, b \in 1..m : a < b => Nth(I, a) < Nth(I, b)
    <2> HIDE DEF q
    <2>1. I \in SUBSET (DOMAIN q) /\ fresh = Picked(q, I)
      BY DEF q
    <2> QED
      BY <1>1, <2>1, PickedIs
  <1>3. \A n \in 1..m : fresh[n] \in Packets /\ fresh[n].id \in 1..MaxPackets /\ fresh[n].id \in Int /\ fresh[n].id <= SfLast
    <2> TAKE n \in 1..m
    <2>1. fresh[n] \in Packets
      BY <1>2
    <2>2. fresh[n] \in Stored
      BY <1>2 DEF Stored, StoredIn, ToSet
    <2> QED
      BY <2>1, <2>2, PacketFields DEF CountsFit
  <1>4. /\ new \in Seq(1..MaxPackets) /\ Len(new) = m /\ DOMAIN new = 1..m /\ \A n \in 1..m : new[n] = fresh[n].id
    BY <1>2, <1>3
  <1>5. \A a, b \in 1..m : a < b => new[a] < new[b]
    <2> TAKE a, b \in 1..m
    <2> HAVE a < b
    <2>1. Nth(I, a) < Nth(I, b) /\ Nth(I, a) \in DOMAIN q /\ Nth(I, b) \in DOMAIN q
      BY <1>2
    <2> QED
      BY <1>1, <1>2, <1>4, <2>1 DEF Ordered
  <1>6. \A a \in 1..c : old[a] \in 1..MaxPackets /\ old[a] \in Int /\ old[a] <= SfLast /\ \A n \in 1..m : old[a] < new[n]
    <2> TAKE a \in 1..c
    <2>1. old[a] \in 1..MaxPackets
      <3>1. a \in DOMAIN old
        BY <1>1
      <3> HIDE DEF old, c
      <3> QED
        BY ONLY <1>1, <3>1, Joined
    <2>2. old[a] <= SfLast /\ \A j \in DOMAIN q : old[a] < q[j].id
      BY <1>1 DEF DeliveredFits
    <2> QED
      BY <1>2, <1>4, <2>1, <2>2, SfConstants
  <1>7. \A a, b \in 1..c : a < b => old[a] < old[b]
    BY <1>1 DEF DeliveredFits, DeliveredInOrder
  <1>8. d = old \o new
    OBVIOUS
  <1> HIDE DEF new, old
  <1>9. /\ d \in Seq(1..MaxPackets) /\ DOMAIN d = 1..(c + m)
        /\ \A a \in 1..c : d[a] = old[a]
        /\ \A n \in 1..m : d[c + n] = new[n]
    <2>1. old \in Seq(1..MaxPackets) /\ new \in Seq(1..MaxPackets) /\ Len(new) = m /\ d = old \o new
      BY <1>1, <1>4, <1>8
    <2> HIDE DEF m
    <2> QED
      BY ONLY <2>1, Joined DEF c
  <1> HIDE DEF c, m
  <1>10. \A i \in 1..(c + m) : i \notin 1..c => i - c \in 1..m /\ d[i] = new[i - c]
    <2> TAKE i \in 1..(c + m)
    <2> HAVE i \notin 1..c
    <2>1. i - c \in 1..m /\ c + (i - c) = i
      BY <1>1, <1>2
    <2> QED
      BY <1>9, <2>1
  <1>11. \A i, j \in 1..(c + m) : i < j => d[i] < d[j]
    <2> TAKE i, j \in 1..(c + m)
    <2> HAVE i < j
    <2>1. CASE j \in 1..c
      <3>1. i \in 1..c
        BY <1>1, <1>2, <2>1
      <3> QED
        BY <1>7, <1>9, <2>1, <3>1
    <2>2. CASE i \in 1..c /\ j \notin 1..c
      BY <1>6, <1>9, <1>10, <2>2
    <2>3. CASE i \notin 1..c /\ j \notin 1..c
      <3>1. i - c \in 1..m /\ j - c \in 1..m /\ i - c < j - c
        BY <1>1, <1>2, <1>10, <2>3
      <3> QED
        BY <1>5, <1>10, <2>3, <3>1
    <2> QED
      BY <2>1, <2>2, <2>3
  <1>12. \A i \in 1..(c + m) : d[i] <= SfLast
    BY <1>3, <1>4, <1>6, <1>9, <1>10
  <1> QED
    BY <1>9, <1>11, <1>12

LEMMA DequeueStep ==
  ASSUME SfIInv, NEW p \in Peers, DequeueForPeer(p)
  PROVE  SfIInv'
  <1> DEFINE qs == [queues EXCEPT ![p] = <<>>]
             I == {i \in DOMAIN queues[p] : ~Expired(queues[p][i])}
             fresh == Picked(queues[p], I)
             d == delivered[p] \o [i \in DOMAIN fresh |-> fresh[i].id]
             K == {i \in DOMAIN keys : keys[i] # p}
  <1>0. SfTypes /\ KeysFit /\ QueuesFit /\ DeliveredFits /\ CountsFit
    BY DEF SfIInv
  <1>1. /\ pc = "idle" /\ KeepOnly(qs) /\ keys' = Picked(keys, K)
        /\ UNCHANGED <<sfNow, pc, cur, offered, orphans>>
    BY DEF DequeueForPeer
  <1>2. delivered' = [delivered EXCEPT ![p] = d]
    BY DEF DequeueForPeer
  <1>3. I \in SUBSET (DOMAIN queues[p]) /\ K \in SUBSET (DOMAIN keys)
    OBVIOUS
  <1>4. queues' = qs /\ qs \in [Peers -> Seq(Packets)] /\ qs[p] = <<>> /\ \A r \in Peers \ {p} : qs[r] = queues[r]
    BY <1>0, <1>1 DEF KeepOnly, QueuesFit
  <1>5. \A r \in Peers : TailOf(qs[r], queues[r])
    BY <1>0, <1>4, TailOfSelf DEF QueuesFit
  <1>6. SfTypes' /\ SfLast' = SfLast /\ SfLast \in Int
    BY <1>0, <1>1, SfLastIs DEF SfTypes, SfLast
  <1> HIDE DEF I
  <1>7. d \in Seq(1..MaxPackets) /\ (\A i, j \in DOMAIN d : i < j => d[i] < d[j]) /\ \A i \in DOMAIN d : d[i] <= SfLast
    BY <1>0, <1>3, Handover
  <1> HIDE DEF qs, d, fresh
  <1>8. /\ \A r \in Peers : Ordered(qs[r]) /\ Len(qs[r]) <= MaxPerPeer /\ Len(qs[r]) <= Len(queues[r])
        /\ \A r \in Peers : \A i \in DOMAIN delivered[r] : \A j \in DOMAIN qs[r] : delivered[r][i] < qs[r][j].id
        /\ Stored' \subseteq Stored /\ IsFiniteSet(Stored')
        /\ CountersExplained' /\ Cardinality(Stored') <= MaxTotal /\ SfBytes(Stored') <= MaxBytes
        /\ totalPackets' \in Nat /\ totalPackets \in Nat /\ totalPackets' <= totalPackets
    BY <1>0, <1>1, <1>4, <1>5, KeepFits
  <1>9. QueuesFit'
    BY <1>1, <1>4, <1>8 DEF QueuesFit, Ordered
  <1>10. KeysFit'
    <2> HIDE DEF K
    <2>1. keys' \in Seq(Peers) /\ IsInjective(keys') /\ ToSet(keys') = {keys[i] : i \in K}
      BY <1>0, <1>1, <1>3, KeysPicked DEF KeysFit
    <2>2. ASSUME NEW r \in Peers, qs[r] # <<>> PROVE r \in ToSet(keys')
      <3>1. r # p /\ queues[r] # <<>>
        BY <1>4, <2>2
      <3>2. PICK i \in DOMAIN keys : keys[i] = r
        BY <1>0, <3>1 DEF KeysFit, ToSet
      <3> QED
        BY <2>1, <3>1, <3>2 DEF K
    <2> QED
      BY <1>4, <2>1, <2>2 DEF KeysFit, IsInjective, ToSet
  <1>11. DeliveredFits'
    <2>1. /\ delivered' \in [Peers -> Seq(1..MaxPackets)] /\ delivered'[p] = d
          /\ \A r \in Peers \ {p} : delivered'[r] = delivered[r]
      BY <1>0, <1>2, <1>7 DEF DeliveredFits
    <2>2. DeliveredInOrder'
      <3> SUFFICES ASSUME NEW r \in Peers, NEW i \in DOMAIN delivered'[r], NEW j \in DOMAIN delivered'[r], i < j
                   PROVE  delivered'[r][i] < delivered'[r][j]
        BY DEF DeliveredInOrder
      <3>1. CASE r = p
        BY <1>7, <2>1, <3>1
      <3>2. CASE r # p
        BY <1>0, <2>1, <3>2 DEF DeliveredFits, DeliveredInOrder
      <3> QED
        BY <3>1, <3>2
    <2>3. ASSUME NEW r \in Peers, NEW i \in DOMAIN delivered'[r]
          PROVE  delivered'[r][i] <= SfLast /\ \A j \in DOMAIN queues'[r] : delivered'[r][i] < queues'[r][j].id
      <3>1. CASE r = p
        <4>1. queues'[r] = <<>>
          BY <1>4, <3>1
        <4>2. DOMAIN queues'[r] = {}
          BY <4>1
        <4> QED
          BY <1>7, <2>1, <2>3, <3>1, <4>2
      <3>2. CASE r # p
        BY <1>0, <1>4, <2>1, <2>3, <3>2 DEF DeliveredFits
      <3> QED
        BY <3>1, <3>2
    <2> QED
      BY <1>6, <2>1, <2>2, <2>3 DEF DeliveredFits
  <1>12. CountsFit'
    <2>1. \A pkt \in Stored' \cup orphans' : pkt.id <= SfLast'
      BY <1>0, <1>1, <1>6, <1>8 DEF CountsFit
    <2>2. IsFiniteSet(Stored)' /\ IsFiniteSet(orphans)' /\ (orphans \subseteq Packets)'
      BY <1>0, <1>1, <1>8 DEF CountsFit
    <2>3. SfBytes(Stored)' = SfBytes(Stored') /\ Cardinality(Stored)' = Cardinality(Stored')
      BY DEF SfBytes, BytesOf
    <2> QED
      BY <1>1, <1>8, <2>1, <2>2, <2>3 DEF CountsFit
  <1> QED
    BY <1>6, <1>9, <1>10, <1>11, <1>12 DEF SfIInv

LEMMA NothingStored ==
  ASSUME NEW qs, qs = [p \in Peers |-> <<>>]
  PROVE  /\ StoredIn(qs) = {} /\ IsFiniteSet({}) /\ Cardinality({}) = 0 /\ SfBytes({}) = 0
         /\ qs \in [Peers -> Seq(Packets)]
         /\ \A p \in Peers : Len(qs[p]) = 0 /\ DOMAIN qs[p] = {} /\ qs[p] = <<>>
  <1>1. \A p \in Peers : qs[p] = <<>> /\ Len(qs[p]) = 0 /\ DOMAIN qs[p] = {}
    OBVIOUS
  <1>2. StoredIn(qs) = {}
    BY <1>1 DEF StoredIn, ToSet
  <1>3. BytesOf({}) = {}
    BY DEF BytesOf
  <1>4. IsFiniteSet({}) /\ Cardinality({}) = 0 /\ SfBytes({}) = 0
    BY <1>3, FS_EmptySet DEF SfBytes
  <1>5. qs \in [Peers -> Seq(Packets)]
    OBVIOUS
  <1> QED
    BY <1>1, <1>2, <1>4, <1>5

LEMMA EmptyKeys == <<>> \in Seq(Peers) /\ IsInjective(<<>>)
  BY DEF IsInjective

LEMMA ClearStep ==
  ASSUME SfIInv, Clear
  PROVE  SfIInv'
  <1>0. SfTypes /\ DeliveredFits /\ CountsFit
    BY DEF SfIInv
  <1>1. /\ pc = "idle" /\ keys' = <<>> /\ queues' = [p \in Peers |-> <<>>] /\ totalPackets' = 0 /\ totalBytes' = 0
        /\ orphans' = {} /\ UNCHANGED <<sfNow, pc, cur, offered, delivered>>
    BY DEF Clear
  <1>2. /\ StoredIn(queues') = {} /\ IsFiniteSet({}) /\ Cardinality({}) = 0 /\ SfBytes({}) = 0
        /\ queues' \in [Peers -> Seq(Packets)]
        /\ \A p \in Peers : Len(queues'[p]) = 0 /\ DOMAIN queues'[p] = {} /\ queues'[p] = <<>>
    BY <1>1, NothingStored
  <1>3. SfTypes' /\ SfLast' = SfLast
    BY <1>0, <1>1 DEF SfTypes, SfLast
  <1>4. KeysFit'
    BY <1>1, <1>2, EmptyKeys DEF KeysFit, IsInjective
  <1>5. QueuesFit'
    BY <1>1, <1>2, SfConstants DEF QueuesFit, Ordered
  <1>6. DeliveredFits'
    BY <1>0, <1>1, <1>2, <1>3 DEF DeliveredFits, DeliveredInOrder
  <1>7. CountsFit'
    <2>1. Stored' = {} /\ SfBytes(Stored)' = 0 /\ SfBytes(orphans)' = 0
      BY <1>1, <1>2 DEF Stored, StoredIn, ToSet, SfBytes, BytesOf
    <2>2. CountersExplained'
      BY <1>1, <1>2, <2>1 DEF CountersExplained
    <2> QED
      BY <1>1, <1>2, <2>1, <2>2, SfConstants DEF CountsFit
  <1> QED
    BY <1>3, <1>4, <1>5, <1>6, <1>7 DEF SfIInv

\* Steps that leave the queue alone.
LEMMA SfIdle ==
  ASSUME SfIInv, sfNow' \in 0..SfMaxTime, UNCHANGED <<keys, queues, counters, pc, cur, offered, delivered, orphans>>
  PROVE  SfIInv'
  <1>0. SfTypes /\ KeysFit /\ QueuesFit /\ DeliveredFits /\ CountsFit
    BY DEF SfIInv
  <1>1. SfTypes' /\ SfLast' = SfLast
    BY <1>0 DEF SfTypes, SfLast
  <1>2. KeysFit' /\ QueuesFit'
    BY <1>0 DEF KeysFit, QueuesFit, ToSet, IsInjective, Ordered
  <1>3. DeliveredFits'
    BY <1>0, <1>1 DEF DeliveredFits, DeliveredInOrder
  <1>4. CountsFit'
    BY <1>0, <1>1 DEF CountsFit, CountersExplained, Stored, StoredIn, ToSet, SfBytes, BytesOf, counters
  <1> QED
    BY <1>1, <1>2, <1>3, <1>4 DEF SfIInv

LEMMA SfStarts == SfInit => SfIInv
  <1> SUFFICES ASSUME SfInit PROVE SfIInv
    OBVIOUS
  <1>1. /\ sfNow = 0 /\ keys = <<>> /\ queues = [p \in Peers |-> <<>>] /\ totalPackets = 0 /\ totalBytes = 0
        /\ pc = "idle" /\ cur = NoCall /\ offered = 0 /\ delivered = [p \in Peers |-> <<>>] /\ orphans = {}
    BY DEF SfInit
  <1>2. /\ StoredIn(queues) = {} /\ IsFiniteSet({}) /\ Cardinality({}) = 0 /\ SfBytes({}) = 0
        /\ queues \in [Peers -> Seq(Packets)]
        /\ \A p \in Peers : Len(queues[p]) = 0 /\ DOMAIN queues[p] = {} /\ queues[p] = <<>>
    BY <1>1, NothingStored
  <1>3. SfTypes
    <2>1. 0 \in 0..SfMaxTime /\ 0 \in 0..MaxPackets
      BY SfConstants
    <2> QED
      BY <1>1, <2>1 DEF SfTypes
  <1>4. KeysFit
    BY <1>1, <1>2, EmptyKeys DEF KeysFit
  <1>5. QueuesFit
    BY <1>1, <1>2, SfConstants DEF QueuesFit, Ordered
  <1>6. DeliveredFits
    <2>1. delivered \in [Peers -> Seq(1..MaxPackets)] /\ \A p \in Peers : DOMAIN delivered[p] = {}
      BY <1>1
    <2> QED
      BY <2>1 DEF DeliveredFits, DeliveredInOrder
  <1>7. CountsFit
    <2>1. Stored = {}
      BY <1>2 DEF Stored
    <2>2. CountersExplained
      BY <1>1, <1>2, <2>1 DEF CountersExplained
    <2> QED
      BY <1>1, <1>2, <2>1, <2>2, SfConstants DEF CountsFit
  <1> QED
    BY <1>3, <1>4, <1>5, <1>6, <1>7 DEF SfIInv

LEMMA SfSteps == SfIInv /\ [SfNext]_sfVars => SfIInv'
  <1> SUFFICES ASSUME SfIInv, [SfNext]_sfVars PROVE SfIInv'
    OBVIOUS
  <1>1. CASE UNCHANGED sfVars
    <2>1. sfNow' = sfNow /\ UNCHANGED <<keys, queues, counters, pc, cur, offered, delivered, orphans>>
      BY <1>1 DEF sfVars
    <2>2. sfNow' \in 0..SfMaxTime
      BY <2>1 DEF SfIInv, SfTypes
    <2> QED
      BY <2>1, <2>2, SfIdle
  <1>2. ASSUME NEW p \in Peers, NEW size \in Sizes, EnqueueStart(p, size) PROVE SfIInv'
    BY <1>2, StartStep
  <1>3. CASE EnqueueStep
    BY <1>3, LoopStep, EndStep DEF EnqueueStep
  <1>4. ASSUME NEW p \in Peers, DequeueForPeer(p) PROVE SfIInv'
    BY <1>4, DequeueStep
  <1>5. CASE PruneExpired
    BY <1>5, SfPruneStep
  <1>6. CASE Clear
    BY <1>6, ClearStep
  <1>7. CASE SfSetClock
    BY <1>7, SfIdle DEF SfSetClock
  <1> QED
    BY <1>1, <1>2, <1>3, <1>4, <1>5, <1>6, <1>7 DEF SfNext

LEMMA SfIsSafe == SfIInv => SfSafe
  <1> SUFFICES ASSUME SfIInv PROVE SfSafe
    OBVIOUS
  <1>0. SfTypes /\ KeysFit /\ QueuesFit /\ DeliveredFits /\ CountsFit
    BY DEF SfIInv
  <1>1. totalPackets \in Nat /\ totalBytes \in Nat
    <2>1. Stored \in SUBSET Packets /\ orphans \in SUBSET Packets /\ IsFiniteSet(Stored) /\ IsFiniteSet(orphans)
      BY <1>0, StoredPackets DEF CountsFit
    <2>2. Cardinality(Stored) \in Nat /\ SfBytes(Stored) \in Nat /\ Cardinality(orphans) \in Nat /\ SfBytes(orphans) \in Nat
      BY <2>1, FS_CardinalityType, BytesFinite
    <2>3. totalPackets = Cardinality(Stored) + Cardinality(orphans) /\ totalBytes = SfBytes(Stored) + SfBytes(orphans)
      BY <1>0 DEF CountsFit, CountersExplained
    <2> QED
      BY ONLY <2>2, <2>3
  <1>2. SfTypeOK
    BY <1>0, <1>1 DEF SfTypeOK, SfTypes, KeysFit, QueuesFit, DeliveredFits, CountsFit
  <1>3. WithinLimits /\ CountersExplained /\ DeliveredInOrder
    BY <1>0 DEF WithinLimits, QueuesFit, DeliveredFits, CountsFit
  <1> QED
    BY <1>2, <1>3 DEF SfSafe

\* StoreForwardSafety: whatever the peers, packet sizes, limits and lifetime,
\* what the store-and-forward queue really holds is within all three limits, its
\* counters are what it holds plus what was appended to a deque no longer in the
\* dictionary, and a peer is handed its packets in the order they were offered,
\* none twice.
THEOREM StoreForwardSafety == SfSpec => []SfSafe
  <1>1. SfInit => SfIInv
    BY SfStarts
  <1>2. SfIInv /\ [SfNext]_sfVars => SfIInv'
    BY SfSteps
  <1>3. SfIInv => SfSafe
    BY SfIsSafe
  <1> QED
    BY <1>1, <1>2, <1>3, PTL DEF SfSpec

-----------------------------------------------------------------------------
(***************************************************************************)
(* Settings.  The loader's pass over the keys has exactly one result, and  *)
(* keys it has settled once it leaves alone (NormalizedExists, -Unique,    *)
(* SettledStay): that is why what a user set comes back.  While nothing    *)
(* has failed, dropped contacts or run beside it, the file has every       *)
(* fingerprint accepted, and a coordinator between load and save holds     *)
(* what the file holds and the one it is about to accept.                  *)
(***************************************************************************)

\* Keys the loader leaves as they are: none is empty, and one that an earlier action
\* has as well is the default.
SettledKeys(k) ==
  /\ k \in UsableMaps
  /\ \A i, j \in Actions : i < j /\ k[i] = k[j] => k[j] = CfgDefaultKeys[j]
KeysSettled ==
  /\ \A p \in CfgProcs : SettledKeys(cfgMem[p].keys) /\ SettledKeys(cfgRead[p].keys)
  /\ ~cfgEdited => SettledKeys(cfgFile.keys) /\ cfgState # "damaged"

\* One process at a time, unless two were up at once, and only one that is up is
\* recording a contact.
OneAtATime ==
  /\ \A p \in CfgProcs : cfgTrusting[p] # NoTrust => cfgUp[p]
  /\ ~cfgShared => \A p, o \in CfgProcs : cfgUp[p] /\ cfgUp[o] => p = o

\* Until something drops contacts, the file has every fingerprint accepted, and a
\* coordinator about to save has read what is still in the file.
FileContacts == IF cfgState = "absent" THEN NoContacts ELSE cfgFile.contacts
ContactsKept ==
  ~cfgStale /\ ~cfgFailed /\ ~cfgShared =>
    /\ ~cfgMistaken
    /\ \A q \in CfgPeers : cfgFirst[q] # 0 => FileContacts[q] = cfgFirst[q]
    /\ \A p \in CfgProcs : cfgTrusting[p] # NoTrust =>
         LET t == cfgTrusting[p]
         IN  /\ cfgRead[p].contacts = [FileContacts EXCEPT ![t.peer] = t.print]
             /\ FileContacts[t.peer] \in {0, t.print}

\* The file, or what the next launch starts from, has the settings last saved, and so
\* has what a coordinator is about to save.
LooksLikeLatest(c) == Shortened(c.prefs) = Shortened(cfgLatest.prefs) /\ c.keys = cfgLatest.keys
SettingsKept ==
  ~cfgShared /\ ~cfgFailed /\ ~cfgEdited =>
    /\ LooksLikeLatest(IF cfgState = "absent" THEN AppConfig ELSE cfgFile)
    /\ \A p \in CfgProcs : cfgTrusting[p] # NoTrust => LooksLikeLatest(cfgRead[p])

CfgInv == CfgTypeOK /\ KeysSettled /\ OneAtATime /\ ContactsKept /\ SettingsKept

LEMMA SequenceIs ==
  ASSUME NEW S, NEW s \in Seq(S)
  PROVE  Len(s) \in Nat /\ DOMAIN s = 1..Len(s) /\ s \in [1..Len(s) -> S]
  OBVIOUS

LEMMA CfgConstants ==
  /\ CfgPrints \subseteq Nat \ {0} /\ CfgLong \subseteq CfgPrefs /\ CfgMaxOps \in Nat
  /\ "default" \in CfgPrefs /\ "shortened" \in CfgPrefs /\ "default" \notin CfgLong /\ "shortened" \notin CfgLong
  /\ Len(CfgDefaultKeys) \in Nat /\ Actions = 1..Len(CfgDefaultKeys) /\ "" \in CfgKeys
  /\ CfgDefaultKeys \in UsableMaps /\ CfgDefaultKeys \in KeyMaps /\ UsableMaps \subseteq KeyMaps
  <1>1. CfgDefaultKeys \in Seq(CfgKeys \ {""})
    BY CfgAssumption
  <1>a. Len(CfgDefaultKeys) \in Nat /\ Actions = 1..Len(CfgDefaultKeys)
    BY <1>1, SequenceIs DEF Actions
  <1>b. CfgDefaultKeys \in [1..Len(CfgDefaultKeys) -> CfgKeys \ {""}]
    BY <1>1, SequenceIs
  <1>2. Len(CfgDefaultKeys) \in Nat /\ Actions = 1..Len(CfgDefaultKeys) /\ CfgDefaultKeys \in UsableMaps
    BY <1>a, <1>b DEF UsableMaps
  <1>3. UsableMaps \subseteq KeyMaps
    BY DEF UsableMaps, KeyMaps
  <1> QED
    BY <1>2, <1>3, CfgAssumption

LEMMA ActionsInOrder ==
  /\ \A i \in Actions : i \in Int
  /\ \A j \in Actions : \A i \in 1..(j - 1) : i \in Actions /\ i < j
  /\ \A i, j \in Actions : i < j => i \in 1..(j - 1)
  <1> DEFINE L == Len(CfgDefaultKeys)
  <1>1. L \in Nat /\ Actions = 1..L
    BY CfgConstants
  <1> HIDE DEF L
  <1>2. \A i \in 1..L : i \in Int /\ i >= 1 /\ i <= L
    BY <1>1
  <1>3. ASSUME NEW j \in 1..L, NEW i \in 1..(j - 1) PROVE i \in 1..L /\ i < j
    BY <1>1
  <1>4. ASSUME NEW i \in 1..L, NEW j \in 1..L, i < j PROVE i \in 1..(j - 1)
    BY <1>1, <1>4
  <1> QED
    BY <1>1, <1>2, <1>3, <1>4

\* A key an action gets is one that can be pressed, given or the default.
LEMMA ResolvedKey ==
  ASSUME NEW kb \in KeyMaps, NEW done, NEW i \in Actions
  PROVE  Resolved(kb, done, i) \in CfgKeys \ {""}
  BY CfgConstants DEF Resolved, Unusable, KeyMaps, UsableMaps

\* It depends on the keys of the actions before it only.
LEMMA ResolvedBefore ==
  ASSUME NEW kb, NEW c, NEW d, NEW i, \A j \in 1..(i - 1) : c[j] = d[j]
  PROVE  Resolved(kb, c, i) = Resolved(kb, d, i)
  <1>1. {c[j] : j \in 1..(i - 1)} = {d[j] : j \in 1..(i - 1)}
    OBVIOUS
  <1> QED
    BY <1>1 DEF Resolved

\* The loader's pass over the actions comes to an end.
SolvesUpTo(kb, done, n) == \A i \in 1..n : done[i] = Resolved(kb, done, i)
LEMMA NormalizedExists ==
  ASSUME NEW kb \in KeyMaps
  PROVE  \E done \in KeyMaps : \A i \in Actions : done[i] = Resolved(kb, done, i)
  <1> DEFINE L == Len(CfgDefaultKeys)
             Bad == {n \in 1..L : ~\E done \in KeyMaps : SolvesUpTo(kb, done, n)}
  <1>1. L \in Nat /\ Actions = 1..L
    BY CfgConstants
  <1> HIDE DEF L
  <1>2. Bad = {}
    <2> SUFFICES ASSUME Bad # {} PROVE FALSE
      OBVIOUS
    <2> DEFINE n == Min(Bad)
    <2>1. Bad \in SUBSET (1..L)
      OBVIOUS
    <2>2. n \in Bad /\ \A m \in Bad : n <= m
      <3> HIDE DEF Bad
      <3> QED
        BY <1>1, <2>1, EndsOf
    <2> HIDE DEF n
    <2>3. n \in 1..L /\ ~\E done \in KeyMaps : SolvesUpTo(kb, done, n)
      BY <2>2
    <2>4. PICK done \in KeyMaps : SolvesUpTo(kb, done, n - 1)
      <3>1. CASE n = 1
        <4>1. SolvesUpTo(kb, CfgDefaultKeys, n - 1)
          BY <3>1 DEF SolvesUpTo
        <4> QED
          BY <4>1, CfgConstants
      <3>2. CASE n # 1
        <4>1. n - 1 \in 1..L /\ ~(n <= n - 1)
          BY <1>1, <2>3, <3>2
        <4>2. n - 1 \notin Bad
          BY <2>2, <4>1
        <4> QED
          BY <4>1, <4>2
      <3> QED
        BY <3>1, <3>2
    <2> DEFINE next == [done EXCEPT ![n] = Resolved(kb, done, n)]
    <2>5. n \in Actions
      BY <1>1, <2>3
    <2>6. next \in KeyMaps /\ next[n] = Resolved(kb, done, n) /\ \A i \in Actions : i # n => next[i] = done[i]
      BY <2>5, ResolvedKey DEF KeyMaps
    <2> HIDE DEF next
    <2>7. ASSUME NEW i \in 1..n PROVE next[i] = Resolved(kb, next, i)
      <3>1. \A j \in 1..(i - 1) : j \in Actions /\ j # n
        BY <1>1, <2>3
      <3>2. \A j \in 1..(i - 1) : next[j] = done[j]
        BY <2>6, <3>1
      <3>3. Resolved(kb, next, i) = Resolved(kb, done, i)
        BY <3>2, ResolvedBefore
      <3>4. CASE i = n
        BY <2>6, <3>3, <3>4
      <3>5. CASE i # n
        <4>1. i \in 1..(n - 1) /\ i \in Actions
          BY <1>1, <2>3, <3>5
        <4>2. done[i] = Resolved(kb, done, i)
          BY <2>4, <4>1 DEF SolvesUpTo
        <4> QED
          BY <2>6, <3>3, <3>5, <4>1, <4>2
      <3> QED
        BY <3>4, <3>5
    <2>8. SolvesUpTo(kb, next, n)
      BY <2>7 DEF SolvesUpTo
    <2> QED
      BY <2>3, <2>6, <2>8
  <1>3. CASE L = 0
    <2>1. Actions = {}
      BY <1>1, <1>3
    <2> QED
      BY <2>1, CfgConstants
  <1>4. CASE L # 0
    <2>1. L \in 1..L
      BY <1>1, <1>4
    <2>2. \E done \in KeyMaps : SolvesUpTo(kb, done, L)
      BY <1>2, <2>1
    <2> QED
      BY <1>1, <2>2 DEF SolvesUpTo
  <1> QED
    BY <1>3, <1>4

LEMMA NormalizedIs ==
  ASSUME NEW kb \in KeyMaps
  PROVE  Normalized(kb) \in KeyMaps /\ \A i \in Actions : Normalized(kb)[i] = Resolved(kb, Normalized(kb), i)
  BY NormalizedExists DEF Normalized

\* There is one result only.
LEMMA NormalizedUnique ==
  ASSUME NEW kb \in KeyMaps, NEW d \in KeyMaps, \A i \in Actions : d[i] = Resolved(kb, d, i)
  PROVE  Normalized(kb) = d
  <1> DEFINE e == Normalized(kb)
             L == Len(CfgDefaultKeys)
             Bad == {i \in 1..L : e[i] # d[i]}
  <1>1. L \in Nat /\ Actions = 1..L
    BY CfgConstants
  <1>2. e \in KeyMaps /\ \A i \in Actions : e[i] = Resolved(kb, e, i)
    BY NormalizedIs
  <1> HIDE DEF L, e
  <1>3. Bad = {}
    <2> SUFFICES ASSUME Bad # {} PROVE FALSE
      OBVIOUS
    <2> DEFINE n == Min(Bad)
    <2>1. Bad \in SUBSET (1..L)
      OBVIOUS
    <2>2. n \in Bad /\ \A m \in Bad : n <= m
      <3> HIDE DEF Bad
      <3> QED
        BY <1>1, <2>1, EndsOf
    <2> HIDE DEF n
    <2>3. n \in 1..L /\ e[n] # d[n]
      BY <2>2
    <2>4. \A j \in 1..(n - 1) : e[j] = d[j]
      <3> TAKE j \in 1..(n - 1)
      <3>1. j \in 1..L /\ ~(n <= j)
        BY <1>1, <2>3
      <3>2. j \notin Bad
        BY <2>2, <3>1
      <3> QED
        BY <3>1, <3>2
    <2>5. Resolved(kb, e, n) = Resolved(kb, d, n)
      BY <2>4, ResolvedBefore
    <2> QED
      BY <1>1, <1>2, <2>3, <2>5
  <1>4. \A i \in Actions : e[i] = d[i]
    BY <1>1, <1>3
  <1> QED
    BY <1>2, <1>4 DEF KeyMaps, e

\* What the loader makes of any keys is settled,
LEMMA NormalizedSettles ==
  ASSUME NEW kb \in KeyMaps
  PROVE  SettledKeys(Normalized(kb))
  <1> DEFINE d == Normalized(kb)
  <1>1. d \in KeyMaps /\ \A i \in Actions : d[i] = Resolved(kb, d, i)
    BY NormalizedIs
  <1> HIDE DEF d
  <1>2. d \in UsableMaps
    BY <1>1, ResolvedKey DEF KeyMaps, UsableMaps
  <1>3. ASSUME NEW i \in Actions, NEW j \in Actions, i < j, d[i] = d[j] PROVE d[j] = CfgDefaultKeys[j]
    <2>1. i \in 1..(j - 1)
      BY <1>3, ActionsInOrder
    <2>2. d[i] \in {d[k] : k \in 1..(j - 1)}
      BY <2>1
    <2>3. d[j] = Resolved(kb, d, j)
      BY <1>1
    <2> QED
      BY <1>3, <2>2, <2>3 DEF Resolved, Unusable
  <1> QED
    BY <1>2, <1>3 DEF SettledKeys, d

\* and settled keys are left as they are.
LEMMA SettledStay ==
  ASSUME NEW k, SettledKeys(k)
  PROVE  k \in KeyMaps /\ Normalized(k) = k
  <1>1. k \in UsableMaps /\ k \in KeyMaps
    BY CfgConstants DEF SettledKeys
  <1>2. ASSUME NEW i \in Actions PROVE k[i] = Resolved(k, k, i)
    <2>1. k[i] # ""
      BY <1>1 DEF UsableMaps
    <2>2. CASE k[i] \in {k[j] : j \in 1..(i - 1)}
      <3>1. PICK j \in 1..(i - 1) : k[i] = k[j]
        BY <2>2
      <3>2. j \in Actions /\ j < i
        BY ActionsInOrder
      <3>3. k[i] = CfgDefaultKeys[i]
        BY <3>1, <3>2 DEF SettledKeys
      <3> QED
        BY <3>3 DEF Resolved
    <2>3. CASE k[i] \notin {k[j] : j \in 1..(i - 1)}
      BY <2>1, <2>3 DEF Resolved, Unusable
    <2> QED
      BY <2>2, <2>3
  <1> QED
    BY <1>1, <1>2, NormalizedUnique

LEMMA AcceptableSettled ==
  ASSUME NEW k \in KeyMaps, Acceptable(k)
  PROVE  SettledKeys(k)
  <1>1. \A i \in Actions : k[i] # ""
    BY DEF Acceptable
  <1>2. \A i, j \in Actions : i < j /\ k[i] = k[j] => k[j] = CfgDefaultKeys[j]
    <2> SUFFICES ASSUME NEW i \in Actions, NEW j \in Actions, i < j, k[i] = k[j] PROVE FALSE
      OBVIOUS
    <2>1. i = j
      BY DEF Acceptable
    <2> QED
      BY <2>1, ActionsInOrder
  <1> QED
    BY <1>1, <1>2 DEF SettledKeys, UsableMaps, KeyMaps

LEMMA DefaultSettled == SettledKeys(CfgDefaultKeys)
  BY CfgConstants DEF SettledKeys

LEMMA ShortenedTwice == \A v : Shortened(Shortened(v)) = Shortened(v)
  BY CfgConstants DEF Shortened

LEMMA AppConfigIs ==
  /\ AppConfig \in Configs /\ AppConfig.prefs = "default" /\ AppConfig.keys = CfgDefaultKeys
  /\ AppConfig.contacts = NoContacts /\ NoContacts \in [CfgPeers -> CfgPrints \cup {0}]
  /\ SettledKeys(AppConfig.keys)
  BY CfgConstants, DefaultSettled DEF AppConfig, Configs, NoContacts

\* load_config: what is loaded is settled, and has the file's contacts.
LEMMA LoadedIs ==
  ASSUME CfgInv
  PROVE  /\ Loaded \in Configs /\ SettledKeys(Loaded.keys) /\ Loaded.contacts = FileContacts
         /\ ~cfgShared /\ ~cfgFailed /\ ~cfgEdited => LooksLikeLatest(Loaded)
  <1>1. cfgFile \in Configs /\ cfgFile.prefs \in CfgPrefs /\ cfgFile.keys \in KeyMaps
        /\ cfgFile.contacts \in [CfgPeers -> CfgPrints \cup {0}]
    BY DEF CfgInv, CfgTypeOK, Configs
  <1>2. CASE cfgState = "absent"
    <2>1. Loaded = AppConfig /\ FileContacts = NoContacts
      BY <1>2 DEF Loaded, FileContacts
    <2>2. ~cfgShared /\ ~cfgFailed /\ ~cfgEdited => LooksLikeLatest(AppConfig)
      BY <1>2 DEF CfgInv, SettingsKept
    <2> QED
      BY <2>1, <2>2, AppConfigIs
  <1>3. CASE cfgState # "absent"
    <2> DEFINE k == Normalized(cfgFile.keys)
               v == Shortened(cfgFile.prefs)
    <2>1. Loaded = [prefs |-> v, keys |-> k, contacts |-> cfgFile.contacts] /\ FileContacts = cfgFile.contacts
      BY <1>3 DEF Loaded, FileContacts
    <2>2. SettledKeys(k) /\ k \in KeyMaps
      BY <1>1, NormalizedSettles, NormalizedIs
    <2>3. v \in CfgPrefs
      BY <1>1, CfgConstants DEF Shortened
    <2>4. ASSUME ~cfgShared, ~cfgFailed, ~cfgEdited PROVE LooksLikeLatest(Loaded)
      <3>1. LooksLikeLatest(cfgFile) /\ SettledKeys(cfgFile.keys)
        BY <1>3, <2>4 DEF CfgInv, SettingsKept, KeysSettled
      <3>2. k = cfgFile.keys /\ Shortened(v) = Shortened(cfgFile.prefs)
        BY <3>1, SettledStay, ShortenedTwice
      <3> HIDE DEF k, v
      <3> QED
        BY <2>1, <3>1, <3>2 DEF LooksLikeLatest
    <2> HIDE DEF k, v
    <2> QED
      BY <1>1, <2>1, <2>2, <2>3, <2>4 DEF Configs
  <1> QED
    BY <1>2, <1>3

LEMMA CountedOn ==
  ASSUME CfgInv, cfgOps < CfgMaxOps, cfgOps' = cfgOps + 1
  PROVE  cfgOps' \in 0..CfgMaxOps
  <1>1. cfgOps \in 0..CfgMaxOps
    BY DEF CfgInv, CfgTypeOK
  <1>2. CfgMaxOps \in Nat
    BY CfgConstants
  <1> QED
    BY <1>1, <1>2

\* A launch.
LEMMA CfgStartKeeps ==
  ASSUME CfgInv, NEW p \in CfgProcs, CfgStart(p)
  PROVE  CfgInv'
  <1> DEFINE c == IF cfgState = "damaged" THEN AppConfig ELSE Loaded
  <1>1. /\ ~cfgUp[p] /\ cfgUp' = [cfgUp EXCEPT ![p] = TRUE] /\ cfgOps < CfgMaxOps /\ cfgOps' = cfgOps + 1
        /\ cfgShared' = (cfgShared \/ \E q \in CfgProcs : cfgUp[q])
        /\ cfgMem' = [cfgMem EXCEPT ![p] = c] /\ cfgFailed' = (cfgFailed \/ cfgState = "damaged")
        /\ cfgState' = cfgState /\ cfgFile' = cfgFile /\ cfgRead' = cfgRead /\ cfgTrusting' = cfgTrusting
        /\ cfgFirst' = cfgFirst /\ cfgMistaken' = cfgMistaken /\ cfgLatest' = cfgLatest
        /\ cfgStale' = cfgStale /\ cfgEdited' = cfgEdited
    BY DEF CfgStart, Operation
  <1>2. c \in Configs /\ SettledKeys(c.keys)
    BY LoadedIs, AppConfigIs
  <1> HIDE DEF c
  <1>3. CfgTypeOK'
    <2>1. cfgMem' \in [CfgProcs -> Configs] /\ cfgUp' \in [CfgProcs -> BOOLEAN]
      BY <1>1, <1>2 DEF CfgInv, CfgTypeOK
    <2>2. \A o \in CfgProcs : cfgMem'[o].keys \in UsableMaps
      BY <1>1, <1>2 DEF CfgInv, CfgTypeOK, SettledKeys
    <2>3. cfgOps' \in 0..CfgMaxOps
      BY <1>1, CountedOn
    <2>4. cfgShared' \in BOOLEAN /\ cfgFailed' \in BOOLEAN
      BY <1>1 DEF CfgInv, CfgTypeOK
    <2> QED
      BY <1>1, <2>1, <2>2, <2>3, <2>4 DEF CfgInv, CfgTypeOK
  <1>4. KeysSettled'
    <2>1. \A o \in CfgProcs : cfgMem'[o] = cfgMem[o] \/ cfgMem'[o] = c
      BY <1>1 DEF CfgInv, CfgTypeOK
    <2> QED
      BY <1>1, <1>2, <2>1 DEF CfgInv, KeysSettled, SettledKeys
  <1>5. OneAtATime'
    <2>1. \A o \in CfgProcs : cfgUp'[o] = (o = p \/ cfgUp[o])
      BY <1>1 DEF CfgInv, CfgTypeOK
    <2> QED
      BY <1>1, <2>1 DEF CfgInv, OneAtATime
  <1>6. ContactsKept'
    BY <1>1 DEF CfgInv, ContactsKept, FileContacts
  <1>7. SettingsKept'
    BY <1>1 DEF CfgInv, SettingsKept, LooksLikeLatest
  <1> QED
    BY <1>3, <1>4, <1>5, <1>6, <1>7 DEF CfgInv

LEMMA CfgEndKeeps ==
  ASSUME CfgInv, NEW p \in CfgProcs, CfgEnd(p)
  PROVE  CfgInv'
  <1>1. /\ cfgUp' = [cfgUp EXCEPT ![p] = FALSE] /\ cfgTrusting' = [cfgTrusting EXCEPT ![p] = NoTrust]
        /\ cfgRead' = [cfgRead EXCEPT ![p] = AppConfig] /\ cfgMem' = [cfgMem EXCEPT ![p] = AppConfig]
        /\ cfgState' = cfgState /\ cfgFile' = cfgFile /\ cfgOps' = cfgOps
        /\ cfgFirst' = cfgFirst /\ cfgMistaken' = cfgMistaken /\ cfgLatest' = cfgLatest /\ cfgShared' = cfgShared
        /\ cfgFailed' = cfgFailed /\ cfgStale' = cfgStale /\ cfgEdited' = cfgEdited
    BY DEF CfgEnd, NotTrusting, cfgHistory
  <1>2. /\ \A o \in CfgProcs : o # p => /\ cfgUp'[o] = cfgUp[o] /\ cfgTrusting'[o] = cfgTrusting[o]
                                        /\ cfgRead'[o] = cfgRead[o] /\ cfgMem'[o] = cfgMem[o]
        /\ ~cfgUp'[p] /\ cfgTrusting'[p] = NoTrust /\ cfgRead'[p] = AppConfig /\ cfgMem'[p] = AppConfig
    BY <1>1 DEF CfgInv, CfgTypeOK
  <1>3. CfgTypeOK'
    <2>1. /\ cfgMem' \in [CfgProcs -> Configs] /\ cfgUp' \in [CfgProcs -> BOOLEAN] /\ cfgRead' \in [CfgProcs -> Configs]
          /\ cfgTrusting' \in [CfgProcs -> {NoTrust} \cup [peer : CfgPeers, print : CfgPrints]]
      BY <1>1, AppConfigIs DEF CfgInv, CfgTypeOK
    <2>2. \A o \in CfgProcs : cfgMem'[o].keys \in UsableMaps
      BY <1>2, AppConfigIs, CfgConstants DEF CfgInv, CfgTypeOK
    <2> QED
      BY <1>1, <2>1, <2>2 DEF CfgInv, CfgTypeOK
  <1>4. KeysSettled'
    BY <1>1, <1>2, AppConfigIs DEF CfgInv, KeysSettled, SettledKeys
  <1>5. OneAtATime'
    BY <1>1, <1>2 DEF CfgInv, OneAtATime
  <1>6. ContactsKept'
    BY <1>1, <1>2 DEF CfgInv, ContactsKept, FileContacts
  <1>7. SettingsKept'
    BY <1>1, <1>2 DEF CfgInv, SettingsKept, LooksLikeLatest
  <1> QED
    BY <1>3, <1>4, <1>5, <1>6, <1>7 DEF CfgInv

\* While one process at a time is up, an idle one means that none is recording.
LEMMA NoneTrusting ==
  ASSUME CfgInv, NEW p \in CfgProcs, Idle(p), ~cfgShared
  PROVE  \A o \in CfgProcs : cfgTrusting[o] = NoTrust
  BY DEF CfgInv, OneAtATime, Idle

\* A change of a setting.
LEMMA CfgSetKeeps ==
  ASSUME CfgInv, NEW p \in CfgProcs, NEW v \in CfgPrefs, NEW kb \in KeyMaps, CfgSet(p, v, kb)
  PROVE  CfgInv'
  <1> DEFINE c == [cfgMem[p] EXCEPT !.prefs = v, !.keys = kb]
  <1>1. /\ Idle(p) /\ cfgOps < CfgMaxOps /\ cfgOps' = cfgOps + 1 /\ (kb # cfgMem[p].keys => Acceptable(kb))
        /\ cfgMem' = [cfgMem EXCEPT ![p].prefs = v, ![p].keys = kb]
        /\ cfgUp' = cfgUp /\ cfgRead' = cfgRead /\ cfgTrusting' = cfgTrusting /\ cfgFirst' = cfgFirst
        /\ cfgMistaken' = cfgMistaken /\ cfgShared' = cfgShared /\ cfgEdited' = cfgEdited
    BY DEF CfgSet, Operation
  <1>2. cfgMem \in [CfgProcs -> Configs] /\ cfgMem[p] \in Configs
    BY DEF CfgInv, CfgTypeOK
  <1>3. c \in Configs /\ c.prefs = v /\ c.keys = kb /\ c.contacts = cfgMem[p].contacts
    BY <1>2 DEF Configs
  <1>4. cfgMem' = [cfgMem EXCEPT ![p] = c] /\ cfgMem'[p] = c
    BY <1>1, <1>2
  <1>5. \/ /\ cfgState' = "good" /\ cfgFile' = c /\ cfgFailed' = cfgFailed
           /\ cfgStale' = (cfgStale \/ Drops(c)) /\ cfgLatest' = [prefs |-> v, keys |-> kb]
        \/ /\ cfgState' = cfgState /\ cfgFile' = cfgFile /\ cfgFailed' = TRUE
           /\ cfgStale' = cfgStale /\ cfgLatest' = cfgLatest
    BY <1>4 DEF CfgSet, Saved, NotSaved
  <1>6. SettledKeys(kb)
    BY <1>1, AcceptableSettled DEF CfgInv, KeysSettled
  <1> HIDE DEF c
  <1>7. CfgTypeOK'
    <2>1. cfgMem' \in [CfgProcs -> Configs] /\ \A o \in CfgProcs : cfgMem'[o] = cfgMem[o] \/ cfgMem'[o] = c
      BY <1>2, <1>3, <1>4
    <2>2. \A o \in CfgProcs : cfgMem'[o].keys \in UsableMaps
      BY <1>3, <1>6, <2>1 DEF CfgInv, CfgTypeOK, SettledKeys
    <2>3. cfgOps' \in 0..CfgMaxOps
      BY <1>1, CountedOn
    <2>4. cfgFile' \in Configs /\ cfgLatest' \in [prefs : CfgPrefs, keys : KeyMaps]
          /\ cfgState' \in {"absent", "good", "damaged"}
      BY <1>3, <1>5 DEF CfgInv, CfgTypeOK
    <2>5. cfgFailed' \in BOOLEAN /\ cfgStale' \in BOOLEAN
      BY <1>5 DEF CfgInv, CfgTypeOK, Drops
    <2> QED
      BY <1>1, <2>1, <2>2, <2>3, <2>4, <2>5 DEF CfgInv, CfgTypeOK
  <1>8. KeysSettled'
    <2>1. \A o \in CfgProcs : cfgMem'[o] = cfgMem[o] \/ cfgMem'[o] = c
      BY <1>2, <1>4
    <2>2. \A o \in CfgProcs : SettledKeys(cfgMem'[o].keys)
      BY <1>3, <1>6, <2>1 DEF CfgInv, KeysSettled
    <2>3. ~cfgEdited => SettledKeys(cfgFile'.keys) /\ cfgState' # "damaged"
      BY <1>3, <1>5, <1>6 DEF CfgInv, KeysSettled
    <2> QED
      BY <1>1, <2>2, <2>3 DEF CfgInv, KeysSettled, SettledKeys
  <1>9. OneAtATime'
    BY <1>1 DEF CfgInv, OneAtATime
  <1>10. ContactsKept'
    <2> SUFFICES ASSUME ~cfgStale', ~cfgFailed', ~cfgShared'
                 PROVE  /\ ~cfgMistaken'
                        /\ \A q \in CfgPeers : cfgFirst'[q] # 0 => FileContacts'[q] = cfgFirst'[q]
                        /\ \A o \in CfgProcs : cfgTrusting'[o] = NoTrust
      BY DEF ContactsKept
    <2>1. /\ cfgState' = "good" /\ cfgFile' = c /\ ~cfgStale /\ ~Drops(c) /\ ~cfgFailed /\ ~cfgShared
      <3>1. ~cfgStale' /\ ~cfgFailed' /\ ~cfgShared
        BY <1>1
      <3>2. CASE /\ cfgState' = "good" /\ cfgFile' = c /\ cfgFailed' = cfgFailed
                 /\ cfgStale' = (cfgStale \/ Drops(c))
        BY <3>1, <3>2
      <3>3. CASE cfgFailed' = TRUE
        BY <3>1, <3>3
      <3> QED
        BY <1>5, <3>2, <3>3
    <2>2. ~cfgMistaken /\ \A q \in CfgPeers : cfgFirst[q] # 0 => FileContacts[q] = cfgFirst[q]
      BY <2>1 DEF CfgInv, ContactsKept
    <2>3. ASSUME NEW q \in CfgPeers, cfgFirst[q] # 0 PROVE c.contacts[q] = cfgFirst[q]
      <3>1. FileContacts[q] = cfgFirst[q]
        BY <2>2, <2>3
      <3>2. cfgState # "absent" /\ cfgFile.contacts[q] = cfgFirst[q]
        BY <2>3, <3>1 DEF FileContacts, NoContacts
      <3> QED
        BY <2>1, <2>3, <3>2 DEF Drops
    <2>4. FileContacts' = c.contacts
      BY <2>1 DEF FileContacts
    <2>5. \A o \in CfgProcs : cfgTrusting[o] = NoTrust
      BY <1>1, <2>1, NoneTrusting
    <2> QED
      BY <1>1, <2>2, <2>3, <2>4, <2>5
  <1>11. SettingsKept'
    <2> SUFFICES ASSUME ~cfgShared', ~cfgFailed', ~cfgEdited'
                 PROVE  LooksLikeLatest(cfgFile)' /\ cfgState' # "absent" /\ \A o \in CfgProcs : cfgTrusting'[o] = NoTrust
      BY DEF SettingsKept
    <2>1. cfgState' = "good" /\ cfgFile' = c /\ cfgLatest' = [prefs |-> v, keys |-> kb] /\ ~cfgShared
      BY <1>1, <1>5
    <2>2. \A o \in CfgProcs : cfgTrusting[o] = NoTrust
      BY <1>1, <2>1, NoneTrusting
    <2> QED
      BY <1>1, <1>3, <2>1, <2>2 DEF LooksLikeLatest
  <1> QED
    BY <1>7, <1>8, <1>9, <1>10, <1>11 DEF CfgInv

\* A contact accepted without being recorded, on a damaged file, or about to be.
LEMMA CfgTrustKeeps ==
  ASSUME CfgInv, NEW p \in CfgProcs, NEW q \in CfgPeers, NEW fp \in CfgPrints, CfgTrust(p, q, fp)
  PROVE  CfgInv'
  <1> DEFINE t == [peer |-> q, print |-> fp]
             r == Recorded(Loaded, q, fp)
  <1>1. /\ Idle(p) /\ cfgOps < CfgMaxOps /\ cfgOps' = cfgOps + 1 /\ cfgUp[p]
        /\ cfgState' = cfgState /\ cfgFile' = cfgFile /\ cfgUp' = cfgUp /\ cfgMem' = cfgMem
        /\ cfgLatest' = cfgLatest /\ cfgShared' = cfgShared /\ cfgStale' = cfgStale /\ cfgEdited' = cfgEdited
    BY DEF CfgTrust, Operation, Idle
  <1>2. cfgOps' \in 0..CfgMaxOps
    BY <1>1, CountedOn
  <1>3. CASE cfgState = "damaged"
    <2>1. Accept(q, fp) /\ cfgFailed' = TRUE /\ cfgRead' = cfgRead /\ cfgTrusting' = cfgTrusting
      BY <1>3 DEF CfgTrust
    <2>2. cfgFirst' \in [CfgPeers -> CfgPrints \cup {0}] /\ cfgMistaken' \in BOOLEAN
      BY <2>1 DEF Accept, CfgInv, CfgTypeOK
    <2>3. CfgTypeOK'
      BY <1>1, <1>2, <2>1, <2>2 DEF CfgInv, CfgTypeOK
    <2>4. KeysSettled' /\ OneAtATime'
      BY <1>1, <2>1 DEF CfgInv, KeysSettled, SettledKeys, OneAtATime
    <2>5. ContactsKept' /\ SettingsKept'
      BY <2>1 DEF ContactsKept, SettingsKept
    <2> QED
      BY <2>3, <2>4, <2>5 DEF CfgInv
  <1>4. CASE cfgState # "damaged" /\ Mismatch(Loaded, q, fp)
    <2>1. /\ cfgRead' = cfgRead /\ cfgTrusting' = cfgTrusting /\ cfgFirst' = cfgFirst
          /\ cfgMistaken' = cfgMistaken /\ cfgFailed' = cfgFailed
      BY <1>4 DEF CfgTrust
    <2>2. CfgTypeOK'
      BY <1>1, <1>2, <2>1 DEF CfgInv, CfgTypeOK
    <2>3. KeysSettled' /\ OneAtATime'
      BY <1>1, <2>1 DEF CfgInv, KeysSettled, SettledKeys, OneAtATime
    <2>4. ContactsKept'
      BY <1>1, <2>1 DEF CfgInv, ContactsKept, FileContacts
    <2>5. SettingsKept'
      BY <1>1, <2>1 DEF CfgInv, SettingsKept, LooksLikeLatest
    <2> QED
      BY <2>2, <2>3, <2>4, <2>5 DEF CfgInv
  <1>5. CASE cfgState # "damaged" /\ ~Mismatch(Loaded, q, fp)
    <2>1. /\ cfgRead' = [cfgRead EXCEPT ![p] = r] /\ cfgTrusting' = [cfgTrusting EXCEPT ![p] = t]
          /\ cfgFirst' = cfgFirst /\ cfgMistaken' = cfgMistaken /\ cfgFailed' = cfgFailed
      BY <1>5 DEF CfgTrust
    <2>2. /\ Loaded \in Configs /\ SettledKeys(Loaded.keys) /\ Loaded.contacts = FileContacts
          /\ ~cfgShared /\ ~cfgFailed /\ ~cfgEdited => LooksLikeLatest(Loaded)
      BY LoadedIs
    <2>3. /\ r \in Configs /\ r.keys = Loaded.keys /\ r.prefs = Loaded.prefs
          /\ r.contacts = [FileContacts EXCEPT ![q] = fp] /\ FileContacts[q] \in {0, fp}
      BY <1>5, <2>2 DEF Recorded, Configs, Mismatch
    <2>4. t \in [peer : CfgPeers, print : CfgPrints] /\ t.peer = q /\ t.print = fp /\ t # NoTrust
      <3>1. fp # 0
        BY CfgConstants
      <3> QED
        BY <3>1 DEF NoTrust
    <2> HIDE DEF t, r
    <2>5. /\ \A o \in CfgProcs : o # p => cfgTrusting'[o] = cfgTrusting[o] /\ cfgRead'[o] = cfgRead[o]
          /\ cfgTrusting'[p] = t /\ cfgRead'[p] = r
      BY <2>1 DEF CfgInv, CfgTypeOK
    <2>6. CfgTypeOK'
      <3>1. cfgTrusting' \in [CfgProcs -> {NoTrust} \cup [peer : CfgPeers, print : CfgPrints]]
        BY <2>1, <2>4 DEF CfgInv, CfgTypeOK
      <3>2. cfgRead' \in [CfgProcs -> Configs]
        BY <2>1, <2>3 DEF CfgInv, CfgTypeOK
      <3> QED
        BY <1>1, <1>2, <2>1, <3>1, <3>2 DEF CfgInv, CfgTypeOK
    <2>7. KeysSettled'
      <3>1. \A o \in CfgProcs : SettledKeys(cfgRead'[o].keys)
        BY <2>2, <2>3, <2>5 DEF CfgInv, KeysSettled
      <3> QED
        BY <1>1, <3>1 DEF CfgInv, KeysSettled, SettledKeys
    <2>8. OneAtATime'
      BY <1>1, <2>5 DEF CfgInv, OneAtATime
    <2>9. ContactsKept'
      <3> SUFFICES ASSUME ~cfgStale', ~cfgFailed', ~cfgShared'
                   PROVE  /\ ~cfgMistaken'
                          /\ \A i \in CfgPeers : cfgFirst'[i] # 0 => FileContacts'[i] = cfgFirst'[i]
                          /\ \A o \in CfgProcs : cfgTrusting'[o] # NoTrust =>
                               /\ cfgRead'[o].contacts = [FileContacts' EXCEPT ![cfgTrusting'[o].peer] = cfgTrusting'[o].print]
                               /\ FileContacts'[cfgTrusting'[o].peer] \in {0, cfgTrusting'[o].print}
        BY DEF ContactsKept
      <3>1. ~cfgStale /\ ~cfgFailed /\ ~cfgShared /\ FileContacts' = FileContacts
        BY <1>1, <2>1 DEF FileContacts
      <3>2. ~cfgMistaken /\ \A i \in CfgPeers : cfgFirst[i] # 0 => FileContacts[i] = cfgFirst[i]
        BY <3>1 DEF CfgInv, ContactsKept
      <3>3. \A o \in CfgProcs : cfgTrusting[o] = NoTrust
        BY <1>1, <3>1, NoneTrusting
      <3>4. \A o \in CfgProcs : cfgTrusting'[o] # NoTrust => o = p
        BY <2>5, <3>3
      <3> QED
        BY <2>1, <2>3, <2>4, <2>5, <3>1, <3>2, <3>4
    <2>10. SettingsKept'
      <3> SUFFICES ASSUME ~cfgShared', ~cfgFailed', ~cfgEdited'
                   PROVE  /\ LooksLikeLatest(IF cfgState = "absent" THEN AppConfig ELSE cfgFile)'
                          /\ \A o \in CfgProcs : cfgTrusting'[o] # NoTrust => LooksLikeLatest(cfgRead[o])'
        BY DEF SettingsKept
      <3>1. ~cfgShared /\ ~cfgFailed /\ ~cfgEdited
        BY <1>1, <2>1
      <3>2. /\ LooksLikeLatest(IF cfgState = "absent" THEN AppConfig ELSE cfgFile)
            /\ LooksLikeLatest(r)
        BY <2>2, <2>3, <3>1 DEF CfgInv, SettingsKept, LooksLikeLatest
      <3>3. \A o \in CfgProcs : cfgTrusting'[o] # NoTrust => o = p
        BY <1>1, <2>5, <3>1, NoneTrusting
      <3> QED
        BY <1>1, <2>5, <3>2, <3>3 DEF LooksLikeLatest
    <2> QED
      BY <2>6, <2>7, <2>8, <2>9, <2>10 DEF CfgInv
  <1> QED
    BY <1>3, <1>4, <1>5

\* The coordinator's save, and its contact accepted.
LEMMA CfgTrustedKeeps ==
  ASSUME CfgInv, NEW p \in CfgProcs, CfgTrusted(p)
  PROVE  CfgInv'
  <1> DEFINE t == cfgTrusting[p]
             r == cfgRead[p]
  <1>1. /\ t # NoTrust /\ Accept(t.peer, t.print) /\ (Saved(r) \/ NotSaved)
        /\ cfgTrusting' = [cfgTrusting EXCEPT ![p] = NoTrust] /\ cfgRead' = [cfgRead EXCEPT ![p] = AppConfig]
        /\ cfgUp' = cfgUp /\ cfgMem' = cfgMem /\ cfgOps' = cfgOps /\ cfgLatest' = cfgLatest
        /\ cfgShared' = cfgShared /\ cfgStale' = cfgStale /\ cfgEdited' = cfgEdited
    BY DEF CfgTrusted, NotTrusting
  <1>2. t \in [peer : CfgPeers, print : CfgPrints] /\ r \in Configs
    BY <1>1 DEF CfgInv, CfgTypeOK
  <1>3. t.peer \in CfgPeers /\ t.print \in CfgPrints /\ t.print # 0
    BY <1>2, CfgConstants
  <1>4. \/ cfgState' = "good" /\ cfgFile' = r /\ cfgFailed' = cfgFailed
        \/ cfgState' = cfgState /\ cfgFile' = cfgFile /\ cfgFailed' = TRUE
    BY <1>1 DEF Saved, NotSaved
  <1>5. /\ cfgFirst' = IF cfgFirst[t.peer] = 0 THEN [cfgFirst EXCEPT ![t.peer] = t.print] ELSE cfgFirst
        /\ cfgMistaken' = (cfgMistaken \/ cfgFirst[t.peer] \notin {0, t.print})
    BY <1>1 DEF Accept
  <1>6. \A o \in CfgProcs : /\ o # p => cfgTrusting'[o] = cfgTrusting[o] /\ cfgRead'[o] = cfgRead[o]
                            /\ o = p => cfgTrusting'[o] = NoTrust /\ cfgRead'[o] = AppConfig
    BY <1>1 DEF CfgInv, CfgTypeOK
  <1>7. cfgUp[p] /\ SettledKeys(r.keys)
    BY <1>1 DEF CfgInv, OneAtATime, KeysSettled
  <1>8. ~cfgShared => \A o \in CfgProcs : cfgTrusting'[o] = NoTrust
    BY <1>6, <1>7 DEF CfgInv, OneAtATime
  <1>9. CfgTypeOK'
    <2>1. cfgTrusting' \in [CfgProcs -> {NoTrust} \cup [peer : CfgPeers, print : CfgPrints]]
      BY <1>1 DEF CfgInv, CfgTypeOK
    <2>2. cfgRead' \in [CfgProcs -> Configs]
      BY <1>1, AppConfigIs DEF CfgInv, CfgTypeOK
    <2>3. cfgFirst' \in [CfgPeers -> CfgPrints \cup {0}] /\ cfgMistaken' \in BOOLEAN
      BY <1>3, <1>5 DEF CfgInv, CfgTypeOK
    <2>4. cfgFile' \in Configs /\ cfgState' \in {"absent", "good", "damaged"} /\ cfgFailed' \in BOOLEAN
      BY <1>2, <1>4 DEF CfgInv, CfgTypeOK
    <2> QED
      BY <1>1, <2>1, <2>2, <2>3, <2>4 DEF CfgInv, CfgTypeOK
  <1>10. KeysSettled'
    <2>1. \A o \in CfgProcs : SettledKeys(cfgRead'[o].keys)
      BY <1>6, AppConfigIs DEF CfgInv, KeysSettled
    <2>2. ~cfgEdited => SettledKeys(cfgFile'.keys) /\ cfgState' # "damaged"
      BY <1>4, <1>7 DEF CfgInv, KeysSettled
    <2> QED
      BY <1>1, <2>1, <2>2 DEF CfgInv, KeysSettled, SettledKeys
  <1>11. OneAtATime'
    BY <1>1, <1>6 DEF CfgInv, OneAtATime
  <1> HIDE DEF t, r
  <1>12. ContactsKept'
    <2> SUFFICES ASSUME ~cfgStale', ~cfgFailed', ~cfgShared'
                 PROVE  /\ ~cfgMistaken'
                        /\ \A q \in CfgPeers : cfgFirst'[q] # 0 => FileContacts'[q] = cfgFirst'[q]
                        /\ \A o \in CfgProcs : cfgTrusting'[o] = NoTrust
      BY DEF ContactsKept
    <2>1. cfgState' = "good" /\ cfgFile' = r /\ ~cfgFailed /\ ~cfgStale /\ ~cfgShared
      <3>1. CASE cfgState' = "good" /\ cfgFile' = r /\ cfgFailed' = cfgFailed
        BY <1>1, <3>1
      <3>2. CASE cfgFailed' = TRUE
        BY <3>2
      <3> QED
        BY <1>4, <3>1, <3>2
    <2>2. /\ ~cfgMistaken
          /\ \A q \in CfgPeers : cfgFirst[q] # 0 => FileContacts[q] = cfgFirst[q]
          /\ r.contacts = [FileContacts EXCEPT ![t.peer] = t.print] /\ FileContacts[t.peer] \in {0, t.print}
      BY <1>1, <2>1 DEF CfgInv, ContactsKept, t, r
    <2>3. cfgFirst[t.peer] \in {0, t.print}
      BY <1>3, <2>2
    <2>4. FileContacts \in [CfgPeers -> CfgPrints \cup {0}] /\ cfgFirst \in [CfgPeers -> CfgPrints \cup {0}]
      BY AppConfigIs DEF FileContacts, CfgInv, CfgTypeOK, Configs
    <2>5. FileContacts' = r.contacts
      BY <2>1 DEF FileContacts
    <2>6. ASSUME NEW q \in CfgPeers, cfgFirst'[q] # 0 PROVE r.contacts[q] = cfgFirst'[q]
      <3>1. CASE q = t.peer
        BY <1>3, <1>5, <2>2, <2>3, <2>4, <3>1
      <3>2. CASE q # t.peer
        BY <1>5, <2>2, <2>4, <2>6, <3>2
      <3> QED
        BY <3>1, <3>2
    <2> QED
      BY <1>5, <1>8, <2>1, <2>2, <2>3, <2>5, <2>6
  <1>13. SettingsKept'
    <2> SUFFICES ASSUME ~cfgShared', ~cfgFailed', ~cfgEdited'
                 PROVE  LooksLikeLatest(cfgFile)' /\ cfgState' # "absent" /\ \A o \in CfgProcs : cfgTrusting'[o] = NoTrust
      BY DEF SettingsKept
    <2>1. cfgState' = "good" /\ cfgFile' = r /\ ~cfgFailed /\ ~cfgShared /\ ~cfgEdited
      <3>1. CASE cfgState' = "good" /\ cfgFile' = r /\ cfgFailed' = cfgFailed
        BY <1>1, <3>1
      <3>2. CASE cfgFailed' = TRUE
        BY <3>2
      <3> QED
        BY <1>4, <3>1, <3>2
    <2>2. LooksLikeLatest(r)
      BY <1>1, <2>1 DEF CfgInv, SettingsKept, t, r
    <2> QED
      BY <1>1, <1>8, <2>1, <2>2 DEF LooksLikeLatest
  <1> QED
    BY <1>9, <1>10, <1>11, <1>12, <1>13 DEF CfgInv

\* The file edited by hand.
LEMMA CfgEditKeeps ==
  ASSUME CfgInv, NEW kb \in KeyMaps, CfgEdit(kb)
  PROVE  CfgInv'
  <1>1. /\ cfgState = "good" /\ cfgEdited' = TRUE
        /\ \/ cfgFile' = [cfgFile EXCEPT !.keys = kb] /\ cfgState' = cfgState
           \/ cfgState' = "damaged" /\ cfgFile' = cfgFile
        /\ cfgUp' = cfgUp /\ cfgMem' = cfgMem /\ cfgRead' = cfgRead /\ cfgTrusting' = cfgTrusting /\ cfgOps' = cfgOps
        /\ cfgFirst' = cfgFirst /\ cfgMistaken' = cfgMistaken /\ cfgLatest' = cfgLatest /\ cfgShared' = cfgShared
        /\ cfgStale' = cfgStale /\ cfgFailed' = cfgFailed
    BY DEF CfgEdit
  <1>2. cfgFile' \in Configs /\ cfgFile'.contacts = cfgFile.contacts /\ cfgState' \in {"good", "damaged"}
    <2>1. cfgFile \in Configs
      BY DEF CfgInv, CfgTypeOK
    <2> QED
      BY <1>1, <2>1 DEF Configs
  <1>3. CfgTypeOK'
    BY <1>1, <1>2 DEF CfgInv, CfgTypeOK
  <1>4. KeysSettled' /\ OneAtATime'
    BY <1>1 DEF CfgInv, KeysSettled, SettledKeys, OneAtATime
  <1>5. FileContacts' = FileContacts
    BY <1>1, <1>2 DEF FileContacts
  <1>6. ContactsKept'
    BY <1>1, <1>5 DEF CfgInv, ContactsKept
  <1>7. SettingsKept'
    BY <1>1 DEF SettingsKept
  <1> QED
    BY <1>3, <1>4, <1>6, <1>7 DEF CfgInv

LEMMA CfgStutterKeeps ==
  ASSUME CfgInv, UNCHANGED cfgVars
  PROVE  CfgInv'
  <1>1. CfgTypeOK'
    BY DEF CfgInv, CfgTypeOK, cfgVars, cfgHistory
  <1>2. KeysSettled' /\ OneAtATime'
    BY DEF CfgInv, KeysSettled, SettledKeys, OneAtATime, cfgVars, cfgHistory
  <1>3. ContactsKept'
    BY DEF CfgInv, ContactsKept, FileContacts, cfgVars, cfgHistory
  <1>4. SettingsKept'
    BY DEF CfgInv, SettingsKept, LooksLikeLatest, cfgVars, cfgHistory
  <1> QED
    BY <1>1, <1>2, <1>3, <1>4 DEF CfgInv

LEMMA CfgInitHolds ==
  ASSUME CfgInit
  PROVE  CfgInv
  <1>1. /\ cfgState = "absent" /\ cfgFile = AppConfig /\ cfgUp = [p \in CfgProcs |-> FALSE]
        /\ cfgMem = [p \in CfgProcs |-> AppConfig] /\ cfgRead = cfgMem
        /\ cfgTrusting = [p \in CfgProcs |-> NoTrust] /\ cfgOps = 0
        /\ cfgFirst = NoContacts /\ cfgMistaken = FALSE
        /\ cfgLatest = [prefs |-> "default", keys |-> CfgDefaultKeys]
        /\ cfgShared = FALSE /\ cfgStale = FALSE /\ cfgFailed = FALSE /\ cfgEdited = FALSE
    BY DEF CfgInit
  <1>2. CfgTypeOK
    <2>1. /\ cfgFile \in Configs /\ cfgMem \in [CfgProcs -> Configs] /\ cfgRead \in [CfgProcs -> Configs]
          /\ \A p \in CfgProcs : cfgMem[p].keys \in UsableMaps
          /\ cfgFirst \in [CfgPeers -> CfgPrints \cup {0}]
      BY <1>1, AppConfigIs, CfgConstants
    <2>2. cfgLatest \in [prefs : CfgPrefs, keys : KeyMaps]
      BY <1>1, CfgConstants
    <2>3. cfgOps \in 0..CfgMaxOps
      <3>1. CfgMaxOps \in Nat
        BY CfgConstants
      <3>2. 0 \in 0..CfgMaxOps
        BY <3>1
      <3> QED
        BY <1>1, <3>2
    <2>4. /\ cfgUp \in [CfgProcs -> BOOLEAN]
          /\ cfgTrusting \in [CfgProcs -> {NoTrust} \cup [peer : CfgPeers, print : CfgPrints]]
      BY <1>1
    <2> QED
      BY <1>1, <2>1, <2>2, <2>3, <2>4 DEF CfgTypeOK
  <1>3. KeysSettled /\ OneAtATime
    BY <1>1, AppConfigIs DEF KeysSettled, OneAtATime
  <1>4. ContactsKept
    BY <1>1 DEF ContactsKept, NoContacts
  <1>5. SettingsKept
    BY <1>1, AppConfigIs DEF SettingsKept, LooksLikeLatest
  <1> QED
    BY <1>2, <1>3, <1>4, <1>5 DEF CfgInv

LEMMA CfgInvMeans ==
  ASSUME CfgInv
  PROVE  CfgSafe
  <1>1. FirstUseUnlessDropped
    BY DEF CfgInv, CfgTypeOK, ContactsKept, FirstUseUnlessDropped, FirstUseKept
  <1>2. PrefsSurvive
    <2> SUFFICES ASSUME ~cfgShared, ~cfgFailed, ~cfgEdited
                 PROVE  Loaded.prefs = Shortened(cfgLatest.prefs) /\ Loaded.keys = cfgLatest.keys
      BY DEF PrefsSurvive
    <2>1. LooksLikeLatest(Loaded)
      BY LoadedIs
    <2>2. Shortened(Loaded.prefs) = Loaded.prefs
      BY ShortenedTwice, AppConfigIs, CfgConstants DEF Loaded, Shortened
    <2> QED
      BY <2>1, <2>2 DEF LooksLikeLatest
  <1>3. KeysDistinct
    <2> SUFFICES ASSUME NEW p \in CfgProcs, NEW i \in Actions, NEW j \in Actions, i # j,
                        cfgMem[p].keys[i] = cfgMem[p].keys[j]
                 PROVE  cfgMem[p].keys[i] \in {CfgDefaultKeys[i], CfgDefaultKeys[j]}
      BY DEF KeysDistinct
    <2>1. i < j \/ j < i
      BY ActionsInOrder
    <2>2. SettledKeys(cfgMem[p].keys)
      BY DEF CfgInv, KeysSettled
    <2> QED
      BY <2>1, <2>2 DEF SettledKeys
  <1> QED
    BY <1>1, <1>2, <1>3 DEF CfgSafe, CfgInv

\* SettingsSafety: CfgSafe, for any processes, peers, fingerprints, actions and keys.
THEOREM SettingsSafety == CfgSpec => []CfgSafe
  <1>1. CfgInv /\ [CfgNext]_cfgVars => CfgInv'
    <2> SUFFICES ASSUME CfgInv, [CfgNext]_cfgVars PROVE CfgInv'
      OBVIOUS
    <2> QED
      BY CfgStartKeeps, CfgEndKeeps, CfgSetKeeps, CfgTrustKeeps, CfgTrustedKeeps, CfgEditKeeps, CfgStutterKeeps
         DEF CfgNext
  <1> QED
    BY <1>1, CfgInitHolds, CfgInvMeans, PTL DEF CfgSpec
=============================================================================
