------------------------------ MODULE Console ------------------------------
(***************************************************************************)
(* The line-mode program: Application (app/application.py) reads a line,   *)
(* parses it (commands/parser.py), runs the coroutines its handler needs   *)
(* on the application's own event loop, and shuts down when told to, at    *)
(* the end of the input, or when a command raises.  The loop runs only     *)
(* while a coroutine does; what is left on it waits for the next one.      *)
(* Ctrl-C ends a command and may leave its coroutine on the loop.          *)
(***************************************************************************)
EXTENDS Naturals, Sequences

CONSTANTS CnNames,      \* first words of a line, without a leading slash
          CnMaxLines    \* bound: lines read

ASSUME CnAssumption == CnMaxLines \in Nat

OneArg == {"connect", "name", "large", "info"}
Free == {"help", "exit", "scan", "online", "configure", "settings", "edit", "status", "public", "transport", "clear"}
\* A line: its first word with or without a slash, whether the second is "chat",
\* and how many words there are.
CnLines == {l \in [slash : BOOLEAN, name : CnNames, chat : BOOLEAN, words : 0..3] :
              (l.chat => l.words > 1) /\ (l.slash => l.name \notin {"@", "@peer"})}
Cmd(type, args, error) == [type |-> type, args |-> args, error |-> error]

\* CommandParser.parse: the kind of command, its number of arguments, and
\* whether it carries a usage message instead.
ParseDm(l) == IF l.words < 3 THEN Cmd("dm", 0, TRUE) ELSE Cmd("dm", 2, FALSE)
Parse(l) ==
  CASE l.words = 0 -> Cmd("empty", 0, FALSE)
    [] l.words > 0 /\ l.name = "@" -> Cmd("dm", 0, TRUE)
    [] l.words > 0 /\ l.name = "@peer" -> IF l.words = 1 THEN Cmd("dm", 1, TRUE) ELSE Cmd("dm", 2, FALSE)
    [] l.words > 0 /\ l.name = "initialize" /\ ~l.slash /\ l.chat -> Cmd("initialize_chat", l.words - 2, FALSE)
    [] l.words > 0 /\ l.name \in OneArg -> IF l.words = 1 THEN Cmd(l.name, 0, TRUE) ELSE Cmd(l.name, 1, FALSE)
    [] l.words > 0 /\ l.name = "dm" -> ParseDm(l)
    [] l.words > 0 /\ l.name = "disconnect" -> Cmd("disconnect", IF l.words = 1 THEN 0 ELSE 1, FALSE)
    [] l.words > 0 /\ l.name \in Free -> Cmd(l.name, l.words - 1, FALSE)
    [] OTHER -> Cmd("unknown", l.words, TRUE)
\* The arguments a handler takes from command.args once there is no usage message.
Indexes(type) == CASE type = "dm" -> 2 [] type \in {"connect", "name", "large"} -> 1 [] OTHER -> 0

CnCoroutines == {"start", "connect", "send", "announce", "hangup", "hangup_all", "detect"}

VARIABLES
  cnPhase,            \* fresh, read, call, run, then stop, stopping, close, storage, exited
  cnCommand,          \* the command being handled
  cnInit, cnMade,     \* is_chat_initialized; is there a coordinator?
  cnRunning, cnUp,    \* the coordinator's _is_running; does its transport serve?
  cnTodo,             \* the coroutines the handler still has to run
  cnLoop, cnLoops,    \* _loop (0 for none), and how many there have been
  cnHome,             \* the loop the coordinator's resources belong to (0 for none)
  cnTasks,            \* tasks on the loop: prune, other work, coroutines Ctrl-C left
  cnClosed,           \* is the storage closed?
  cnCut,              \* history: did Ctrl-C end the shutdown?
  cnRead              \* lines read

cnLoopVars == <<cnLoop, cnLoops, cnHome>>
cnVars == <<cnPhase, cnCommand, cnInit, cnMade, cnRunning, cnUp, cnTodo, cnLoopVars, cnTasks, cnClosed, cnCut, cnRead>>

\* A command handed to its handler has the arguments the handler takes.
CnTypeOK ==
  /\ cnPhase \in {"fresh", "read", "call", "run", "stop", "stopping", "close", "storage", "exited"}
  /\ {cnInit, cnMade, cnRunning, cnUp, cnClosed, cnCut} \subseteq BOOLEAN
  /\ cnTodo \in Seq(CnCoroutines) /\ {cnLoop, cnLoops, cnHome} \subseteq Nat
  /\ cnTasks \subseteq CnCoroutines \cup {"prune", "work", "started"} /\ cnRead \in 0..CnMaxLines
  /\ ~cnCommand.error => cnCommand.args >= Indexes(cnCommand.type)

CnInitial ==
  /\ cnPhase = "fresh" /\ cnCommand = Cmd("empty", 0, FALSE) /\ cnInit = FALSE /\ cnMade = FALSE
  /\ cnRunning = FALSE /\ cnUp = FALSE /\ cnTodo = <<>> /\ cnLoop = 0 /\ cnLoops = 0 /\ cnHome = 0
  /\ cnTasks = {} /\ cnClosed = FALSE /\ cnCut = FALSE /\ cnRead = 0

\* startup; a configuration that cannot be read is replaced by the defaults.
CnStartup ==
  /\ cnPhase = "fresh" /\ cnPhase' = "read"
  /\ UNCHANGED <<cnCommand, cnInit, cnMade, cnRunning, cnUp, cnTodo, cnLoopVars, cnTasks, cnClosed, cnCut, cnRead>>

-----------------------------------------------------------------------------
\* The handlers that initialize the chat first, and what each then runs.
Initializes(c) == c.type = "initialize_chat" \/ (c.type \in {"connect", "dm", "large", "scan"} /\ ~cnInit)
Own(c, slash) ==
  CASE c.type = "unknown" -> IF cnInit /\ ~slash THEN <<"send">> ELSE <<>>
    [] c.type # "unknown" /\ c.error -> <<>>
    [] c.type = "connect" /\ ~c.error -> <<"connect">>
    [] c.type \in {"dm", "large"} /\ ~c.error -> <<"send">>
    [] c.type = "name" /\ ~c.error -> IF cnMade THEN <<"announce">> ELSE <<>>
    [] c.type = "disconnect" -> IF ~cnMade THEN <<>> ELSE IF c.args = 1 THEN <<"hangup">> ELSE <<"hangup_all">>
    [] c.type = "configure" -> <<"detect">>
    [] OTHER -> <<>>
\* dispatch.
CnDispatch(l) ==
  LET c == Parse(l)  todo == (IF Initializes(c) THEN <<"start">> ELSE <<>>) \o Own(c, l.slash)
  IN  /\ cnPhase = "read" /\ cnRead < CnMaxLines /\ cnRead' = cnRead + 1 /\ cnCommand' = c
      /\ cnInit' = (cnInit \/ Initializes(c)) /\ cnTodo' = todo
      /\ cnPhase' = IF c.type = "exit" THEN "stop" ELSE IF todo = <<>> THEN "read" ELSE "call"
      /\ UNCHANGED <<cnMade, cnRunning, cnUp, cnLoopVars, cnTasks, cnClosed, cnCut>>
\* run: the end of the input, or Ctrl-C at the prompt.
CnEndOfInput ==
  /\ cnPhase = "read" /\ cnPhase' = "stop"
  /\ UNCHANGED <<cnCommand, cnInit, cnMade, cnRunning, cnUp, cnTodo, cnLoopVars, cnTasks, cnClosed, cnCut, cnRead>>

\* _run_async: the one loop, made when first needed.
LoopFor == IF cnLoop = 0 THEN cnLoops + 1 ELSE cnLoop
Enters == cnLoop' = LoopFor /\ cnLoops' = IF cnLoop' > cnLoops THEN cnLoop' ELSE cnLoops
CnCall ==
  /\ cnPhase = "call" /\ cnPhase' = "run" /\ Enters
  /\ cnMade' = (cnMade \/ Head(cnTodo) = "start")
  /\ cnHome' = IF Head(cnTodo) = "start" /\ cnHome = 0 THEN cnLoop' ELSE cnHome
  /\ UNCHANGED <<cnCommand, cnInit, cnRunning, cnUp, cnTodo, cnTasks, cnClosed, cnCut, cnRead>>
\* _ensure_coordinator: the identity cannot be loaded.
CnNoIdentity ==
  /\ cnPhase = "call" /\ Head(cnTodo) = "start" /\ ~cnMade /\ cnPhase' = "stop" /\ cnTodo' = <<>>
  /\ UNCHANGED <<cnCommand, cnInit, cnMade, cnRunning, cnUp, cnLoopVars, cnTasks, cnClosed, cnCut, cnRead>>

\* A coroutine ends; the coordinator's start reports failure without raising.
CnReturns ==
  /\ cnPhase = "run" /\ cnTodo' = Tail(cnTodo) /\ cnPhase' = IF cnTodo' = <<>> THEN "read" ELSE "call"
  /\ IF Head(cnTodo) = "start" /\ ~cnRunning
     THEN \E ok \in BOOLEAN : cnRunning' = ok /\ cnUp' = ok /\ cnTasks' = cnTasks \cup (IF ok THEN {"prune"} ELSE {})
     ELSE UNCHANGED <<cnRunning, cnUp>> /\ cnTasks' \in {cnTasks, cnTasks \cup {"work"}}
  /\ UNCHANGED <<cnCommand, cnInit, cnMade, cnLoopVars, cnClosed, cnCut, cnRead>>
\* It raises: the exception leaves dispatch, and run shuts down.
CnRaises ==
  /\ cnPhase = "run" /\ Head(cnTodo) # "start" /\ cnPhase' = "stop" /\ cnTodo' = <<>>
  /\ UNCHANGED <<cnCommand, cnInit, cnMade, cnRunning, cnUp, cnLoopVars, cnTasks, cnClosed, cnCut, cnRead>>
\* Ctrl-C while the loop waits leaves the coroutine on it; while the coroutine
\* computes it ends it there, a start half done.
CnInterrupted ==
  LET c == Head(cnTodo)  fresh == c = "start" /\ ~cnRunning
  IN  /\ cnPhase = "run" /\ cnPhase' = "stop" /\ cnTodo' = <<>> /\ cnRunning' = (cnRunning \/ fresh)
      /\ \/ UNCHANGED cnUp /\ cnTasks' = IF c = "start" /\ ~fresh THEN cnTasks ELSE cnTasks \cup {c}
         \/ UNCHANGED cnTasks /\ IF fresh THEN cnUp' \in BOOLEAN ELSE UNCHANGED cnUp
      /\ UNCHANGED <<cnCommand, cnInit, cnMade, cnLoopVars, cnClosed, cnCut, cnRead>>

\* The loop runs its other tasks while a coroutine runs: work ends, what Ctrl-C
\* left goes on, a start first through the transport's, then to the prune task.
LoopRuns == cnPhase \in {"run", "stopping"}
CnLeftoverStart ==
  /\ LoopRuns /\ "start" \in cnTasks
  /\ \/ cnUp' = TRUE /\ cnTasks' = (cnTasks \ {"start"}) \cup {"started"}
     \/ cnUp' = FALSE /\ cnTasks' = cnTasks \ {"start"}
  /\ UNCHANGED <<cnPhase, cnCommand, cnInit, cnMade, cnRunning, cnTodo, cnLoopVars, cnClosed, cnCut, cnRead>>
CnTaskEnds ==
  /\ LoopRuns
  /\ \E t \in cnTasks \ {"prune", "start"} :
       cnTasks' = (cnTasks \ {t}) \cup (IF t = "started" THEN {"prune"} ELSE {})
  /\ UNCHANGED <<cnPhase, cnCommand, cnInit, cnMade, cnRunning, cnUp, cnTodo, cnLoopVars, cnClosed, cnCut, cnRead>>

-----------------------------------------------------------------------------
\* shutdown: the coordinator, if there is one, is stopped whatever state it is in.
StopIfUp == cnMade /\ cnUp
NeedsStop == cnMade
CnStop ==
  /\ cnPhase = "stop"
  /\ IF NeedsStop
     THEN /\ cnPhase' = "stopping" /\ Enters /\ cnRunning' = FALSE
          /\ cnTasks' = cnTasks \ {"prune", "work"} /\ UNCHANGED cnHome
     ELSE cnPhase' = "close" /\ UNCHANGED <<cnLoopVars, cnRunning, cnTasks>>
  /\ UNCHANGED <<cnCommand, cnInit, cnMade, cnUp, cnTodo, cnClosed, cnCut, cnRead>>
\* The transport's stop waits for the lock a start holds.
CnStopped ==
  /\ cnPhase = "stopping" /\ "start" \notin cnTasks /\ cnUp' = FALSE /\ cnPhase' = "close"
  /\ UNCHANGED <<cnCommand, cnInit, cnMade, cnRunning, cnTodo, cnLoopVars, cnTasks, cnClosed, cnCut, cnRead>>
\* _close_loop cancels and gathers what is left; then the storage is closed.
CnCloseLoop ==
  /\ cnPhase = "close" /\ cnPhase' = "storage" /\ cnTasks' = {} /\ cnLoop' = 0
  /\ UNCHANGED <<cnCommand, cnInit, cnMade, cnRunning, cnUp, cnTodo, cnLoops, cnHome, cnClosed, cnCut, cnRead>>
CnCloseStorage ==
  /\ cnPhase = "storage" /\ cnPhase' = "exited" /\ cnClosed' = TRUE
  /\ UNCHANGED <<cnCommand, cnInit, cnMade, cnRunning, cnUp, cnTodo, cnLoopVars, cnTasks, cnCut, cnRead>>
\* Ctrl-C during the shutdown ends it.
CnStopCut ==
  /\ cnPhase \in {"stopping", "close"} /\ cnPhase' = "exited" /\ cnCut' = TRUE
  /\ UNCHANGED <<cnCommand, cnInit, cnMade, cnRunning, cnUp, cnTodo, cnLoopVars, cnTasks, cnClosed, cnRead>>

CnNext ==
  \/ CnStartup \/ CnEndOfInput \/ CnCall \/ CnNoIdentity \/ CnReturns \/ CnRaises \/ CnInterrupted
  \/ CnLeftoverStart \/ CnTaskEnds \/ CnStop \/ CnStopped \/ CnCloseLoop \/ CnCloseStorage \/ CnStopCut
  \/ \E l \in CnLines : CnDispatch(l)
CnSpec == CnInitial /\ [][CnNext]_cnVars

-----------------------------------------------------------------------------
\* SameLoop: whatever runs, commands and the coordinator's stop included, runs on
\* the loop that the coordinator's locks, sockets and callbacks belong to
\* (_run_async: a fresh loop per command "would orphan them between commands").
SameLoop == LoopRuns /\ cnHome # 0 => cnLoop = cnHome

\* ExitReleases: when run has returned or raised, whichever command failed or was
\* interrupted and however far start had come, the transport is down, nothing is
\* left on the loop and the storage is closed.  Only Ctrl-C during the shutdown
\* itself can leave something.
ExitReleases == cnPhase = "exited" /\ ~cnCut => ~cnUp /\ ~cnRunning /\ cnTasks = {} /\ cnLoop = 0 /\ cnClosed

\* CnSafe: everything runs on the loop it belongs to, and the exit releases all.
CnSafe == CnTypeOK /\ SameLoop /\ ExitReleases
=============================================================================
