------------------------------- MODULE Shell -------------------------------
(***************************************************************************)
(* The terminal interface (tui/app.py) around the coordinator: background  *)
(* tasks that start, retry, switch or disable networking, error messages   *)
(* queued from transport callbacks, the stack of dialogs they open, keys   *)
(* that open and close dialogs, and quitting.  The coordinator is what     *)
(* Lifecycle shows of it: an operation ends with the active transport      *)
(* serving or not.                                                         *)
(***************************************************************************)
EXTENDS Naturals, Sequences, SequencesExt

CONSTANTS ShSlots,       \* bound: background tasks at a time
          ShMaxOps       \* bound: what users and transports do

ASSUME ShAssumption == ShMaxOps \in Nat

Transports == {"bluetooth", "lan"}
Elsewhere(t) == IF t = "lan" THEN "bluetooth" ELSE "lan"
\* Dialogs: the recovery dialog about a transport (BLEErrorModal), and the others.
Recovery == Transports
Plain == {"help", "settings", "theme", "info"}
NoTask == [kind |-> "none", about |-> "lan"]
ShTask(kind, t) == [kind |-> kind, about |-> t]

VARIABLES
  shActive, shServing,   \* the coordinator's active transport; does it serve?
  shOffline,             \* offline_mode
  shStopped,             \* has the coordinator's stop finished?
  shTasks,               \* _background_tasks
  shEvents,              \* messages posted and not handled yet
  shScreens,             \* the dialogs, the top one last
  shDown, shExited,      \* _is_shutting_down; has the app exited?
  shQuits,               \* history: how often quitting was asked for
  shPopped,              \* history: a recovery dialog was closed by a key for another one
  shSilent,              \* history: a LAN retry failed without an error message
  shOps
shCoord == <<shActive, shServing, shOffline, shStopped>>
shHistory == <<shQuits, shPopped, shSilent>>
shVars == <<shCoord, shTasks, shEvents, shScreens, shDown, shExited, shHistory, shOps>>

ShTypeOK ==
  /\ shActive \in Transports /\ {shServing, shOffline, shStopped, shDown, shExited, shPopped, shSilent} \subseteq BOOLEAN
  /\ shTasks \in [ShSlots -> [kind : {"none", "start", "retry", "switch", "offline", "quit", "gather", "stop"},
                              about : Transports]]
  /\ shEvents \in Seq(Transports) /\ shScreens \in Seq(Recovery \cup Plain)
  /\ shQuits \in Nat /\ shOps \in 0..ShMaxOps
  \* A shutdown that has begun and not ended is some task's.
  /\ shDown /\ ~shExited => \E s \in ShSlots : shTasks[s].kind \in {"gather", "stop"}

\* on_mount starts the coordinator in a task.
ShInit ==
  /\ shActive \in Transports /\ shServing = FALSE /\ shOffline = FALSE /\ shStopped = FALSE
  /\ \E s \in ShSlots : /\ \A r \in ShSlots : s <= r
                          /\ shTasks = [i \in ShSlots |-> IF i = s THEN ShTask("start", "lan") ELSE NoTask]
  /\ shEvents = <<>> /\ shScreens = <<>> /\ shDown = FALSE /\ shExited = FALSE
  /\ shQuits = 0 /\ shPopped = FALSE /\ shSilent = FALSE /\ shOps = 0

Alive == ~shExited
ShOperation == Alive /\ shOps < ShMaxOps /\ shOps' = shOps + 1
\* The first free slot takes a new task, so that equal states are not told apart.
FreeSlot(tasks, s) == tasks[s] = NoTask /\ \A r \in ShSlots : r < s => tasks[r] # NoTask
Spawn(kind, t) == \E s \in ShSlots : FreeSlot(shTasks, s) /\ shTasks' = [shTasks EXCEPT ![s] = ShTask(kind, t)]
Ends(s) == shTasks' = [shTasks EXCEPT ![s] = NoTask]

\* Every place that opens the recovery dialog looks for one in the stack first.
DialogOpen == \E i \in DOMAIN shScreens : shScreens[i] \in Recovery
TopDialog == shScreens # <<>> /\ Last(shScreens) \in Recovery
Present(t) == shScreens' = IF DialogOpen THEN shScreens ELSE Append(shScreens, t)

-----------------------------------------------------------------------------
\* The coordinator's operation ends well, or fails; a transport that cannot start
\* posts its error, a retry that times out posts none.
ShDone(s) ==
  LET task == shTasks[s]
  IN  /\ Alive /\ task.kind \in {"start", "retry", "switch"} /\ Ends(s)
      /\ IF task.kind = "start" /\ shOffline THEN UNCHANGED <<shActive, shServing, shOffline>>
         ELSE /\ shServing' = TRUE
              /\ shActive' = IF task.kind = "switch" THEN task.about ELSE shActive
              /\ shOffline' = FALSE
      /\ UNCHANGED <<shStopped, shEvents, shScreens, shDown, shExited, shHistory, shOps>>
PostSilently(t) == UNCHANGED shEvents
Post(t) == shEvents' = Append(shEvents, t)
ShStartFails(s) ==
  /\ Alive /\ shTasks[s].kind = "start" /\ ~shOffline /\ Ends(s) /\ shServing' = FALSE /\ Post(shActive)
  /\ UNCHANGED <<shActive, shOffline, shStopped, shScreens, shDown, shExited, shHistory, shOps>>
\* _handle_ble_retry opens the dialog again, _handle_lan_retry does not.
ShRetryFails(s, posted) ==
  /\ Alive /\ shTasks[s].kind = "retry" /\ Ends(s) /\ shServing' = FALSE
  /\ IF posted THEN Post(shActive) ELSE UNCHANGED shEvents
  /\ IF shTasks[s].about = "bluetooth" THEN Present("bluetooth") ELSE UNCHANGED shScreens
  /\ shSilent' = (shSilent \/ (~posted /\ shTasks[s].about = "lan"))
  /\ UNCHANGED <<shActive, shOffline, shStopped, shDown, shExited, shQuits, shPopped, shOps>>
ShSwitchFails(s) ==
  /\ Alive /\ shTasks[s].kind = "switch" /\ Ends(s) /\ shServing' = FALSE /\ shActive' = shTasks[s].about
  /\ Post(shActive') /\ Present(shActive')
  /\ UNCHANGED <<shOffline, shStopped, shDown, shExited, shHistory, shOps>>
ShOfflineDone(s) ==
  /\ Alive /\ shTasks[s].kind = "offline" /\ Ends(s) /\ shServing' = FALSE /\ shOffline' = TRUE
  /\ UNCHANGED <<shActive, shStopped, shEvents, shScreens, shDown, shExited, shHistory, shOps>>

\* The transport loses its medium (_handle_transport_error).
ShLost ==
  /\ shServing /\ ShOperation /\ shServing' = FALSE /\ Post(shActive)
  /\ UNCHANGED <<shActive, shOffline, shStopped, shTasks, shScreens, shDown, shExited, shHistory>>
\* A LAN that comes back serves again by itself.
ShBack ==
  /\ ~shServing /\ shActive = "lan" /\ ~shOffline /\ ~shStopped /\ ShOperation /\ shServing' = TRUE
  /\ UNCHANGED <<shActive, shOffline, shStopped, shTasks, shEvents, shScreens, shDown, shExited, shHistory>>
\* A role Bluetooth cannot play is reported too (on_ble_warning_reported).
ShWarned ==
  /\ shServing /\ shActive = "bluetooth" /\ ShOperation /\ Post("bluetooth")
  /\ UNCHANGED <<shCoord, shTasks, shScreens, shDown, shExited, shHistory>>
\* on_ble_error_reported, on_lan_error_reported.
ShHandle ==
  /\ Alive /\ shEvents # <<>> /\ shEvents' = Tail(shEvents) /\ Present(Head(shEvents))
  /\ UNCHANGED <<shCoord, shTasks, shDown, shExited, shHistory, shOps>>

-----------------------------------------------------------------------------
\* The recovery dialog is answered: retry, the other transport, or offline.
ShAnswer(kind) ==
  /\ TopDialog /\ ShOperation /\ shScreens' = Front(shScreens)
  /\ Spawn(kind, IF kind = "switch" THEN Elsewhere(Last(shScreens)) ELSE Last(shScreens))
  /\ UNCHANGED <<shCoord, shEvents, shDown, shExited, shHistory>>
\* A key opens a dialog in place of the top one, or closes it if it is that
\* dialog (action_show_help, action_open_settings, action_open_edit_theme).
TopPopped(screens) == IF screens = <<>> THEN screens ELSE Front(screens)
ShKey(d) ==
  /\ d \in {"help", "settings", "theme"} /\ ShOperation
  /\ shScreens' = IF shScreens # <<>> /\ Last(shScreens) = d THEN Front(shScreens)
                  ELSE Append(TopPopped(shScreens), d)
  /\ shPopped' = (shPopped \/ TopDialog)
  /\ UNCHANGED <<shCoord, shTasks, shEvents, shDown, shExited, shQuits, shSilent>>
ShClose ==
  /\ Alive /\ shScreens # <<>> /\ Last(shScreens) \in Plain /\ shScreens' = Front(shScreens)
  /\ UNCHANGED <<shCoord, shTasks, shEvents, shDown, shExited, shHistory, shOps>>
\* /transport, or the settings dialog's choice (on_settings_modal_settings_saved).
ShSwitch(t) ==
  /\ ShOperation /\ t # shActive /\ Spawn("switch", t)
  /\ \/ shScreens = <<>> /\ UNCHANGED shScreens
     \/ shScreens # <<>> /\ Last(shScreens) = "settings" /\ shScreens' = Front(shScreens)
  /\ UNCHANGED <<shCoord, shEvents, shDown, shExited, shHistory>>
\* /info and a click in the sidebar.
ShInfo ==
  /\ ShOperation /\ shScreens = <<>> /\ shScreens' = <<"info">>
  /\ UNCHANGED <<shCoord, shTasks, shEvents, shDown, shExited, shHistory>>

-----------------------------------------------------------------------------
\* action_quit: the first call cancels the other tasks, waits for them, stops the
\* coordinator and exits; a later one returns from _shutdown_resources at once
\* and exits.
ShQuit ==
  /\ ShOperation /\ Spawn("quit", "lan") /\ shQuits' = shQuits + 1
  /\ UNCHANGED <<shCoord, shEvents, shScreens, shDown, shExited, shPopped, shSilent>>
Cancelled(s) == [i \in ShSlots |-> IF i = s THEN ShTask("gather", "lan") ELSE NoTask]
ShQuitBegins(s) ==
  /\ Alive /\ shTasks[s].kind = "quit" /\ ~shDown /\ shDown' = TRUE
  /\ shTasks' = Cancelled(s)
  /\ shServing' \in IF \E i \in ShSlots : shTasks[i].kind \in {"start", "retry", "switch"} THEN BOOLEAN ELSE {shServing}
  /\ UNCHANGED <<shActive, shOffline, shStopped, shEvents, shScreens, shExited, shHistory, shOps>>
StopCalled(s) == "stop"
ShGathered(s) ==
  /\ Alive /\ shTasks[s].kind = "gather" /\ shTasks' = [shTasks EXCEPT ![s].kind = StopCalled(s)]
  /\ UNCHANGED <<shCoord, shEvents, shScreens, shDown, shExited, shHistory, shOps>>
ShStopEnds(s) ==
  /\ Alive /\ shTasks[s].kind = "stop" /\ Ends(s)
  /\ shServing' = FALSE /\ shStopped' = TRUE /\ shExited' = TRUE
  /\ UNCHANGED <<shActive, shOffline, shEvents, shScreens, shDown, shHistory, shOps>>
ShQuitAgain(s) ==
  /\ Alive /\ shTasks[s].kind = "quit" /\ shDown /\ Ends(s) /\ shExited' = TRUE
  /\ UNCHANGED <<shCoord, shEvents, shScreens, shDown, shHistory, shOps>>

ShNext ==
  \/ \E s \in ShSlots :
       \/ ShDone(s) \/ ShStartFails(s) \/ ShSwitchFails(s) \/ ShOfflineDone(s)
       \/ \E posted \in BOOLEAN : ShRetryFails(s, posted)
       \/ ShQuitBegins(s) \/ ShGathered(s) \/ ShStopEnds(s) \/ ShQuitAgain(s)
  \/ ShLost \/ ShBack \/ ShWarned \/ ShHandle \/ ShClose \/ ShInfo \/ ShQuit
  \/ \E kind \in {"retry", "switch", "offline"} : ShAnswer(kind)
  \/ \E d \in Plain : ShKey(d)
  \/ \E t \in Transports : ShSwitch(t)
ShSpec == ShInit /\ [][ShNext]_shVars

-----------------------------------------------------------------------------
\* OneRecoveryDialog: there is never more than one recovery dialog, whichever of
\* the error messages, warnings, retries and switches ask for one.
OneRecoveryDialog ==
  \A i, j \in DOMAIN shScreens : shScreens[i] \in Recovery /\ shScreens[j] \in Recovery => i = j

\* FailurePutToUser: when networking is down and nothing is under way, the user is
\* being asked what to do, or has chosen to be offline.  A key that opens another
\* dialog drops the question, and a LAN retry that times out asks none; after
\* either it may go unasked.
FailurePutToUser ==
  \/ shServing \/ shOffline \/ shDown \/ shPopped \/ shSilent \/ DialogOpen \/ shEvents # <<>>
  \/ \E s \in ShSlots : shTasks[s] # NoTask

\* ExitsStopped: when the app has exited the coordinator has been stopped
\* (on_unmount: "Guarantee graceful coordinator, transport, and storage
\* shutdown on terminal exit").  It does not hold: a second quit exits while
\* the first still waits.
ExitsStopped == shExited => shStopped /\ ~shServing

\* ExitsStoppedAtOneQuit: it holds when quitting is asked for once.
ExitsStoppedAtOneQuit == shQuits <= 1 => ExitsStopped

\* ShSafe: a failure is put to the user, in one dialog, and quitting once exits with
\* the coordinator stopped.
ShSafe == ShTypeOK /\ OneRecoveryDialog /\ FailurePutToUser /\ ExitsStoppedAtOneQuit
=============================================================================
