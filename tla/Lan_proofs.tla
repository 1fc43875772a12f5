----------------------------- MODULE Lan_proofs -----------------------------
(***************************************************************************)
(* The services of a LAN node, for every number of tasks, sockets, flips   *)
(* of the network and calls: nothing listens after a stop and no socket    *)
(* loses its owner (LanSafety), and a start that fails has released what   *)
(* it brought up (LanReleases); and its discovery, for every stream of     *)
(* beacons: who is found, who is reported and at what rate                 *)
(* (DiscoverySafety); and the packets on its connections, for all payloads *)
(* and sizes and whatever another program writes: delivered once, in order *)
(* and completely, and none decoded that no encoder writes (WireSafety);   *)
(* and the connections of two nodes, however they dial each other          *)
(* (LinksSafety).                                                          *)
(***************************************************************************)
EXTENDS LanTransport, LanDiscovery, LanLinks, Wire, Picking_proofs, TLAPS

-----------------------------------------------------------------------------
(***************************************************************************)
(* The LAN transport.  A history without the mishaps that LanReleased and  *)
(* LanServing except is calm: then at most one job is inside the services, *)
(* and they are what its next await says they are.                         *)
(***************************************************************************)

LanCalm == "cut" \notin lanMishaps /\ "overlap" \notin lanMishaps /\ "late" \notin lanMishaps

SvcRecord ==
  [listening : BOOLEAN, server : 0..LanMaxSockets, open : SUBSET (1..LanMaxSockets),
   discovering : BOOLEAN, udp : BOOLEAN, clients : BOOLEAN, made : 0..LanMaxSockets]
InsideAts == {"bind", "quit", "drain", "close"}
JobsOf(kind, ats) == {[kind |-> kind, at |-> at] : at \in ats}
ApiJobs ==
  {NoJob} \cup JobsOf("start", {"bind"}) \cup JobsOf("release", {"quit", "drain", "close"})
    \cup JobsOf("stop", {"gather", "quit", "drain", "close"})
TaskJobs ==
  {NoJob} \cup JobsOf("pause", {"new", "quit", "drain", "close"}) \cup JobsOf("resume", {"new", "bind"})
    \cup JobsOf("held", {"quit", "drain", "close"})

LanShape ==
  /\ lanRunning \in BOOLEAN /\ lanMode \in LanModes /\ monitoring \in BOOLEAN
  /\ svc \in SvcRecord
  /\ jobs \in [LanJobs -> ApiJobs \cup TaskJobs]
  /\ jobs["api"] \in ApiJobs /\ \A j \in LanTasks : jobs[j] \in TaskJobs
  /\ dialled \in {"none", "dialling", "live", "unlisted", "stray"}
  /\ netUp \in BOOLEAN /\ netSeen \in BOOLEAN
  /\ lanWanted \in BOOLEAN /\ lanMishaps \subseteq {"cut", "overlap", "masked", "late", "scan", "bind"}
LanCounts == lanFlips \in 0..LanMaxFlips /\ lanOps \in 0..LanMaxOps

\* Discovery's socket is open while it runs or is being stopped.
UdpOwned == svc.udp => svc.discovering \/ \E j \in LanJobs : jobs[j].at = "quit"

\* What the services are at each await of a job inside them, and when no job is.
SvcAt(s, at) ==
  /\ at \in {"quit", "drain", "close"} => ~s.discovering
  /\ at \in {"bind", "drain", "close"} => ~s.listening
  /\ at \in {"drain", "close"} => ~s.udp
  /\ at \notin {"quit", "drain", "close"} => (s.discovering <=> s.udp)
  /\ s.listening \/ at = "drain" => s.open = {s.server}
  /\ ~s.listening /\ at # "drain" => s.open = {}

OneInside ==
  /\ \A j, k \in LanJobs : jobs[j].at \in InsideAts /\ jobs[k].at \in InsideAts => j = k
  /\ \A j \in LanJobs : jobs[j].at \in InsideAts => SvcAt(svc, jobs[j].at)
  /\ (\A j \in LanJobs : jobs[j].at \notin InsideAts) => SvcAt(svc, "done")

\* While a stop runs the only tasks are the ones it waits for, until it has them;
\* what it has to stop is stopped when it ends.
StopAlone ==
  /\ jobs["api"].kind = "stop" =>
       \A j \in LanTasks : jobs[j] = NoJob \/ (jobs[j].kind = "held" /\ jobs["api"].at = "gather")
  /\ jobs["api"].kind # "stop" => \A j \in LanTasks : jobs[j].kind # "held"
  /\ jobs["api"].kind = "release" => ~lanRunning
  /\ ~lanWanted =>
       /\ ~lanRunning
       /\ jobs["api"].at # "gather" => ~monitoring /\ \A j \in LanTasks : jobs[j] = NoJob
       /\ jobs["api"] = NoJob => ~svc.listening /\ ~svc.discovering

\* A start is wanted, and so is its release.
StartWanted == jobs["api"].kind \in {"start", "release"} => lanWanted
CalmCore == OneInside /\ StopAlone /\ (jobs["api"].kind = "stop" => ~lanWanted)

LanCore == LanShape /\ UdpOwned /\ StartWanted /\ (LanCalm => CalmCore)

\* A transport that is off does not run.
OffIsOff == lanMode = "OFFLINE" => ~lanRunning
LanIInv == LanCore /\ OffIsOff /\ LanCounts

(* The services: what the steps of their calls do to them.                   *)
LEMMA SocketClosedIs ==
  ASSUME NEW s \in SvcRecord, NEW t \in SvcRecord, t = SocketClosed(s)
  PROVE  /\ t.listening = s.listening /\ t.discovering = s.discovering /\ t.udp = s.udp
         /\ t.open = s.open \ {s.server} /\ t.server = s.server
  BY DEF SvcRecord, SocketClosed

LEMMA SvcUpdates ==
  ASSUME NEW s \in SvcRecord
  PROVE  /\ SocketClosed(s) \in SvcRecord /\ [s EXCEPT !.udp = FALSE] \in SvcRecord
         /\ [s EXCEPT !.discovering = FALSE] \in SvcRecord /\ [s EXCEPT !.server = 0] \in SvcRecord
         /\ [s EXCEPT !.listening = FALSE] \in SvcRecord
         /\ [s EXCEPT !.listening = FALSE, !.clients = FALSE] \in SvcRecord
         /\ \A c \in BOOLEAN : [s EXCEPT !.clients = c] \in SvcRecord
  <1>1. 0 \in 0..LanMaxSockets
    BY LanAssumption
  <1> QED
    BY <1>1 DEF SvcRecord, SocketClosed

\* server.stop.
LEMMA ServerStopDoes ==
  ASSUME NEW s \in SvcRecord, NEW r, r = ServerStop(s)
  PROVE  /\ r[1] \in SvcRecord /\ r[2] \in {"done", "drain", "close"}
         /\ r[1].udp = s.udp /\ r[1].discovering = s.discovering /\ ~r[1].listening
         /\ SvcAt(s, "done") /\ ~s.discovering => SvcAt(r[1], r[2])
  <1>1. CASE ~s.listening
    BY <1>1 DEF ServerStop, SvcAt
  <1>2. CASE s.listening /\ s.clients
    <2> DEFINE t == [s EXCEPT !.listening = FALSE, !.clients = FALSE]
    <2>1. /\ t \in SvcRecord /\ t.udp = s.udp /\ t.discovering = s.discovering /\ ~t.listening
          /\ t.open = s.open /\ t.server = s.server
      BY SvcUpdates DEF SvcRecord
    <2>2. r = <<t, "drain">>
      BY <1>2 DEF ServerStop
    <2> HIDE DEF t
    <2>3. r[1] = t /\ r[2] = "drain"
      BY <2>2
    <2> QED
      BY <1>2, <2>1, <2>3 DEF SvcAt
  <1>3. CASE s.listening /\ ~s.clients
    <2> DEFINE u == [s EXCEPT !.listening = FALSE]
               t == SocketClosed(u)
    <2>1. /\ u \in SvcRecord /\ u.udp = s.udp /\ u.discovering = s.discovering /\ ~u.listening
          /\ u.open = s.open /\ u.server = s.server
      BY SvcUpdates DEF SvcRecord
    <2>2. r = <<t, "close">>
      BY <1>3 DEF ServerStop
    <2> HIDE DEF u
    <2>3. t \in SvcRecord
      BY <2>1, SvcUpdates
    <2>4. /\ t.udp = s.udp /\ t.discovering = s.discovering /\ ~t.listening
          /\ t.open = s.open \ {s.server}
      BY <2>1, <2>3, SocketClosedIs
    <2> HIDE DEF t
    <2>5. r[1] = t /\ r[2] = "close"
      BY <2>2
    <2> QED
      BY <1>3, <2>3, <2>4, <2>5 DEF SvcAt
  <1> QED
    BY <1>1, <1>2, <1>3

\* discovery.stop and server.stop, up to the first await.
LEMMA ServicesStopDoes ==
  ASSUME NEW s \in SvcRecord, NEW r, r = ServicesStop(s)
  PROVE  /\ r[1] \in SvcRecord /\ r[2] \in {"done", "quit", "drain", "close"}
         /\ r[1].udp => s.udp
         /\ s.discovering => r[2] = "quit"
         /\ ~s.discovering => ~r[1].discovering
         /\ r[2] = "done" => ~r[1].listening /\ ~r[1].discovering
         /\ SvcAt(s, "done") => SvcAt(r[1], r[2])
  <1>1. CASE s.discovering
    <2> DEFINE t == [s EXCEPT !.discovering = FALSE]
    <2>1. /\ t \in SvcRecord /\ t.udp = s.udp /\ ~t.discovering /\ t.listening = s.listening
          /\ t.open = s.open /\ t.server = s.server
      BY SvcUpdates DEF SvcRecord
    <2>2. r = <<t, "quit">>
      BY <1>1 DEF ServicesStop
    <2> HIDE DEF t
    <2>3. r[1] = t /\ r[2] = "quit"
      BY <2>2
    <2> QED
      BY <1>1, <2>1, <2>3 DEF SvcAt
  <1>2. CASE ~s.discovering
    <2>1. r = ServerStop(s)
      BY <1>2 DEF ServicesStop
    <2> QED
      BY <1>2, <2>1, ServerStopDoes DEF SvcRecord
  <1> QED
    BY <1>1, <1>2

\* What follows each of their awaits.
LEMMA StopGoesOnDoes ==
  ASSUME NEW s \in SvcRecord, NEW at \in {"quit", "drain", "close"}, NEW r, r = StopGoesOn(s, at)
  PROVE  /\ r[1] \in SvcRecord /\ r[2] \in {"done", "drain", "close"}
         /\ r[1].udp => s.udp /\ at # "quit"
         /\ r[1].discovering = s.discovering
         /\ SvcAt(s, at) => SvcAt(r[1], r[2]) /\ ~r[1].listening /\ ~r[1].discovering
  <1>1. CASE at = "quit"
    <2> DEFINE t == [s EXCEPT !.udp = FALSE]
    <2>1. /\ t \in SvcRecord /\ ~t.udp /\ t.discovering = s.discovering /\ t.listening = s.listening
          /\ t.open = s.open /\ t.server = s.server
      BY SvcUpdates DEF SvcRecord
    <2>2. r = ServerStop(t)
      BY <1>1 DEF StopGoesOn
    <2> HIDE DEF t
    <2>3. SvcAt(s, at) => SvcAt(t, "done") /\ ~t.discovering
      BY <1>1, <2>1 DEF SvcAt
    <2> QED
      BY <1>1, <2>1, <2>2, <2>3, ServerStopDoes DEF SvcRecord
  <1>2. CASE at = "drain" /\ s.server = 0
    <2>1. r = <<s, "done">>
      BY <1>2 DEF StopGoesOn
    <2>2. r[1] = s /\ r[2] = "done"
      BY <2>1
    <2>3. ~SvcAt(s, at)
      BY <1>2 DEF SvcAt, SvcRecord
    <2> QED
      BY <1>2, <2>2, <2>3
  <1>3. CASE at = "drain" /\ s.server # 0
    <2> DEFINE t == SocketClosed(s)
    <2>1. r = <<t, "close">>
      BY <1>3 DEF StopGoesOn
    <2>2. t \in SvcRecord
      BY SvcUpdates
    <2>3. /\ t.listening = s.listening /\ t.discovering = s.discovering /\ t.udp = s.udp
          /\ t.open = s.open \ {s.server}
      BY <2>2, SocketClosedIs
    <2> HIDE DEF t
    <2>4. r[1] = t /\ r[2] = "close"
      BY <2>1
    <2> QED
      BY <1>3, <2>2, <2>3, <2>4 DEF SvcAt
  <1>4. CASE at = "close"
    <2> DEFINE t == [s EXCEPT !.server = 0]
    <2>1. /\ t \in SvcRecord /\ t.udp = s.udp /\ t.discovering = s.discovering /\ t.listening = s.listening
          /\ t.open = s.open
      BY SvcUpdates DEF SvcRecord
    <2>2. r = <<t, "done">>
      BY <1>4 DEF StopGoesOn
    <2> HIDE DEF t
    <2>3. r[1] = t /\ r[2] = "done"
      BY <2>2
    <2> QED
      BY <1>4, <2>1, <2>3 DEF SvcAt
  <1> QED
    BY <1>1, <1>2, <1>3, <1>4

LEMMA ServerUpDoes ==
  ASSUME NEW s \in SvcRecord, s.made < LanMaxSockets, NEW t, t = ServerUp(s)
  PROVE  /\ t \in SvcRecord /\ t.listening /\ t.discovering = s.discovering /\ t.udp = s.udp
         /\ SvcAt(s, "bind") => SvcAt(t, "done")
  <1> DEFINE n == s.made + 1
  <1>1. n \in 1..LanMaxSockets /\ n \in 0..LanMaxSockets
    BY LanAssumption DEF SvcRecord
  <1>2. t = [s EXCEPT !.listening = TRUE, !.server = n, !.made = n, !.open = s.open \cup {n}]
    BY DEF ServerUp, SvcRecord
  <1> HIDE DEF n
  <1>3. s.open \cup {n} \in SUBSET (1..LanMaxSockets)
    BY <1>1 DEF SvcRecord
  <1> DEFINE o == s.open \cup {n}
  <1>4. t = [s EXCEPT !.listening = TRUE, !.server = n, !.made = n, !.open = o] /\ o \in SUBSET (1..LanMaxSockets)
    BY <1>2, <1>3
  <1>a. n \in o /\ (s.open = {} => o = {n})
    OBVIOUS
  <1> HIDE DEF o
  <1>5. t \in SvcRecord
    BY <1>1, <1>4 DEF SvcRecord
  <1>6. t.listening /\ t.discovering = s.discovering /\ t.udp = s.udp
    BY <1>4 DEF SvcRecord
  <1>7. t.server = n /\ t.open = o
    BY <1>4 DEF SvcRecord
  <1> QED
    BY <1>5, <1>6, <1>7, <1>a DEF SvcAt

LEMMA DiscoveryUpDoes ==
  ASSUME NEW s \in SvcRecord, NEW t, t = DiscoveryUp(s)
  PROVE  /\ t \in SvcRecord /\ t.discovering /\ t.listening = s.listening
         /\ SvcAt(s, "done") => SvcAt(t, "done")
  <1>1. CASE s.discovering
    BY <1>1 DEF DiscoveryUp
  <1>2. CASE ~s.discovering
    <2>1. t = [s EXCEPT !.discovering = TRUE, !.udp = TRUE]
      BY <1>2 DEF DiscoveryUp
    <2>2. /\ t \in SvcRecord /\ t.discovering /\ t.udp /\ t.listening = s.listening
          /\ t.open = s.open /\ t.server = s.server
      BY <2>1 DEF SvcRecord
    <2> QED
      BY <2>2 DEF SvcAt
  <1> QED
    BY <1>1, <1>2

(* Jobs.                                                                     *)
JobOf(kind, at) == IF at = "done" THEN NoJob ELSE [kind |-> kind, at |-> at]

LEMMA ApiJobIs ==
  ASSUME NEW x \in ApiJobs
  PROVE  /\ x.kind \in {"none", "start", "release", "stop"}
         /\ x.kind = "none" <=> x = NoJob
         /\ x.at = "done" <=> x = NoJob
         /\ x.kind = "start" <=> x.at = "bind"
         /\ x.kind = "release" => x.at \in {"quit", "drain", "close"}
         /\ x.at = "gather" => x.kind = "stop"
         /\ x.at \in {"done", "bind", "gather", "quit", "drain", "close"}
  BY DEF ApiJobs, JobsOf, NoJob

LEMMA TaskJobIs ==
  ASSUME NEW x \in TaskJobs
  PROVE  /\ x.kind \in {"none", "pause", "resume", "held"}
         /\ x.kind = "none" <=> x = NoJob
         /\ x.at = "done" <=> x = NoJob
         /\ x.at = "bind" => x.kind = "resume"
         /\ x.kind = "held" => x.at \in {"quit", "drain", "close"}
         /\ x.kind = "resume" => x.at \in {"new", "bind"}
         /\ x.at \in {"done", "new", "bind", "quit", "drain", "close"}
  BY DEF TaskJobs, JobsOf, NoJob

LEMMA JobOfIs ==
  ASSUME NEW kind, NEW at
  PROVE  /\ JobOf(kind, at).at = at
         /\ at = "done" => JobOf(kind, at) = NoJob
         /\ at # "done" => JobOf(kind, at).kind = kind /\ JobOf(kind, at) # NoJob
  BY DEF JobOf, NoJob

LEMMA JobOfIn ==
  /\ NoJob \in ApiJobs /\ NoJob \in TaskJobs /\ JobOf("start", "bind") \in ApiJobs
  /\ \A at \in {"done", "quit", "drain", "close"} :
       /\ JobOf("release", at) \in ApiJobs /\ JobOf("stop", at) \in ApiJobs
       /\ JobOf("pause", at) \in TaskJobs /\ JobOf("held", at) \in TaskJobs
  /\ \A at \in {"new", "bind"} : JobOf("resume", at) \in TaskJobs
  /\ JobOf("pause", "new") \in TaskJobs
  BY DEF ApiJobs, TaskJobs, JobsOf, JobOf, NoJob

LEMMA ApiIsNoTask ==
  /\ "api" \in LanJobs /\ LanTasks \subseteq LanJobs
  /\ \A j \in LanJobs : j \in LanTasks <=> j # "api"
  BY LanAssumption DEF LanJobs

\* One job moves.
LEMMA JobMoves ==
  ASSUME LanShape, NEW j \in LanJobs, NEW x, jobs' = [jobs EXCEPT ![j] = x],
         j = "api" => x \in ApiJobs, j # "api" => x \in TaskJobs
  PROVE  /\ jobs' \in [LanJobs -> ApiJobs \cup TaskJobs]
         /\ jobs'["api"] \in ApiJobs /\ \A k \in LanTasks : jobs'[k] \in TaskJobs
         /\ jobs'[j] = x /\ \A k \in LanJobs : k # j => jobs'[k] = jobs[k]
  BY ApiIsNoTask DEF LanShape

LEMMA JobAtMoves ==
  ASSUME LanShape, NEW j \in LanJobs, NEW kind, NEW at
  PROVE  JobAt(j, kind, at) = [jobs EXCEPT ![j] = JobOf(kind, at)]
  BY DEF JobAt, JobOf

\* Its services are what its await says, if no other job is inside them.
LEMMA InsideMoves ==
  ASSUME LanShape, NEW j \in LanJobs, NEW x, jobs' = [jobs EXCEPT ![j] = x],
         \A k \in LanJobs : jobs[k].at \in InsideAts => k = j,
         SvcAt(svc', x.at)
  PROVE  OneInside'
  <1>1. jobs'[j] = x /\ \A k \in LanJobs : k # j => jobs'[k] = jobs[k]
    BY DEF LanShape
  <1>2. \A k \in LanJobs : jobs'[k].at \in InsideAts => k = j
    BY <1>1
  <1>3. \A k \in LanJobs : jobs'[k].at \in InsideAts => SvcAt(svc', jobs'[k].at)
    BY <1>1, <1>2
  <1>4. x.at \notin InsideAts => SvcAt(svc', "done")
    BY DEF SvcAt, InsideAts
  <1>5. (\A k \in LanJobs : jobs'[k].at \notin InsideAts) => SvcAt(svc', "done")
    BY <1>1, <1>4
  <1> QED
    BY <1>2, <1>3, <1>5 DEF OneInside

LEMMA AloneInside ==
  ASSUME OneInside, NEW j \in LanJobs, jobs[j].at \in InsideAts
  PROVE  SvcAt(svc, jobs[j].at) /\ \A k \in LanJobs : jobs[k].at \in InsideAts => k = j
  BY DEF OneInside

LEMMA NobodyInside ==
  ASSUME OneInside, \A k \in LanJobs : jobs[k].at \notin InsideAts
  PROVE  SvcAt(svc, "done")
  BY DEF OneInside

LEMMA UdpMoves ==
  ASSUME LanShape, UdpOwned, NEW j \in LanJobs, NEW x, jobs' = [jobs EXCEPT ![j] = x],
         svc'.udp => svc'.discovering \/ x.at = "quit" \/ (svc.udp /\ ~svc.discovering /\ jobs[j].at # "quit")
  PROVE  UdpOwned'
  <1>1. jobs'[j] = x /\ \A k \in LanJobs : k # j => jobs'[k] = jobs[k]
    BY DEF LanShape
  <1> SUFFICES ASSUME svc'.udp, ~svc'.discovering PROVE \E k \in LanJobs : jobs'[k].at = "quit"
    BY DEF UdpOwned
  <1>2. CASE x.at = "quit"
    BY <1>1, <1>2
  <1>3. CASE svc.udp /\ ~svc.discovering /\ jobs[j].at # "quit"
    <2>1. PICK k \in LanJobs : jobs[k].at = "quit"
      BY <1>3 DEF UdpOwned
    <2> QED
      BY <1>1, <1>3, <2>1
  <1> QED
    BY <1>2, <1>3

LEMMA CalmBefore ==
  ASSUME lanMishaps \subseteq lanMishaps', LanCalm'
  PROVE  LanCalm
  BY DEF LanCalm

LEMMA MishapSets ==
  /\ Masks \subseteq {"masked"} /\ Overlap \subseteq {"overlap"}
  /\ Overlap = {} => \A k \in LanJobs : jobs[k].at \notin InsideAts
  BY DEF Masks, Overlap, Inside, InsideAts

LEMMA RestModeIn ==
  ASSUME NEW s
  PROVE  RestMode(s) \in LanModes
  BY DEF RestMode, LanModes

LanMishapKinds == {"cut", "overlap", "masked", "late", "scan", "bind"}
LanDials == {"none", "dialling", "live", "unlisted", "stray"}

\* Steps that leave the jobs and the sockets alone.
LEMMA StaysPut ==
  ASSUME LanCore, UNCHANGED <<lanRunning, jobs, monitoring, lanWanted>>, netSeen' \in BOOLEAN,
         svc' \in SvcRecord, svc'.listening = svc.listening, svc'.server = svc.server,
         svc'.open = svc.open, svc'.discovering = svc.discovering, svc'.udp = svc.udp,
         lanMode' \in LanModes, dialled' \in LanDials, netUp' \in BOOLEAN,
         lanMishaps \subseteq lanMishaps', lanMishaps' \subseteq LanMishapKinds
  PROVE  LanCore'
  <1>1. LanShape'
    BY DEF LanCore, LanShape, LanDials, LanMishapKinds
  <1>2. UdpOwned'
    BY DEF LanCore, UdpOwned
  <1>3. StartWanted'
    BY DEF LanCore, StartWanted
  <1>4. ASSUME LanCalm' PROVE CalmCore'
    <2>1. CalmCore
      BY <1>4, CalmBefore DEF LanCore
    <2>2. \A at : SvcAt(svc, at) => SvcAt(svc', at)
      BY DEF SvcAt
    <2>3. OneInside'
      BY <2>1, <2>2 DEF CalmCore, OneInside
    <2>4. StopAlone'
      BY <2>1 DEF CalmCore, StopAlone
    <2> QED
      BY <2>1, <2>3, <2>4 DEF CalmCore
  <1> QED
    BY <1>1, <1>2, <1>3, <1>4 DEF LanCore

LEMMA LanDialKeeps ==
  ASSUME LanCore, LanDial PROVE LanCore'
  <1>1. lanMode' \in LanModes /\ dialled' \in LanDials
    BY DEF LanDial, LanModes, LanDials
  <1> QED
    BY <1>1, StaysPut DEF LanDial, LanCore, LanShape, LanMishapKinds

LEMMA NetFlipKeeps ==
  ASSUME LanCore, NetFlip PROVE LanCore'
  BY StaysPut DEF NetFlip, LanCore, LanShape, LanMishapKinds, LanDials

LEMMA LanDialDoneKeeps ==
  ASSUME LanCore, LanDialDone PROVE LanCore'
  <1>1. lanMode' \in LanModes /\ dialled' \in LanDials
    BY DEF LanDialDone, LanModes, LanDials
  <1>2. lanMishaps \subseteq lanMishaps' /\ lanMishaps' \subseteq LanMishapKinds
    BY MishapSets DEF LanDialDone, LanCore, LanShape, LanMishapKinds
  <1> QED
    BY <1>1, <1>2, StaysPut DEF LanDialDone, LanCore, LanShape

LEMMA LanDialGoneKeeps ==
  ASSUME LanCore, LanDialGone PROVE LanCore'
  <1>1. lanMode' \in LanModes /\ dialled' \in LanDials
    BY RestModeIn DEF LanDialGone, LanDials, LanCore, LanShape
  <1>2. lanMishaps \subseteq lanMishaps' /\ lanMishaps' \subseteq LanMishapKinds
    BY MishapSets DEF LanDialGone, LanCore, LanShape, LanMishapKinds
  <1> QED
    BY <1>1, <1>2, StaysPut DEF LanDialGone, LanCore, LanShape

LEMMA ClientsChange ==
  ASSUME NEW s \in SvcRecord, NEW c \in BOOLEAN, NEW t, t = [s EXCEPT !.clients = c]
  PROVE  /\ t \in SvcRecord /\ t.listening = s.listening /\ t.server = s.server
         /\ t.open = s.open /\ t.discovering = s.discovering /\ t.udp = s.udp
  BY DEF SvcRecord

LEMMA LanClientKeeps ==
  ASSUME LanCore, LanClient PROVE LanCore'
  <1>1. lanMode' \in LanModes
    BY DEF LanClient, LanModes
  <1>2. lanMishaps \subseteq lanMishaps' /\ lanMishaps' \subseteq LanMishapKinds
    BY MishapSets DEF LanClient, LanCore, LanShape, LanMishapKinds
  <1>3. /\ svc' \in SvcRecord /\ svc'.listening = svc.listening /\ svc'.server = svc.server
        /\ svc'.open = svc.open /\ svc'.discovering = svc.discovering /\ svc'.udp = svc.udp
    BY ClientsChange DEF LanClient, LanCore, LanShape
  <1> QED
    BY <1>1, <1>2, <1>3, StaysPut DEF LanClient, LanCore, LanShape, LanDials

LEMMA LanClientGoneKeeps ==
  ASSUME LanCore, LanClientGone PROVE LanCore'
  <1>1. lanMode' \in LanModes
    BY RestModeIn DEF LanClientGone, LanCore, LanShape
  <1>2. lanMishaps \subseteq lanMishaps' /\ lanMishaps' \subseteq LanMishapKinds
    BY MishapSets DEF LanClientGone, LanCore, LanShape, LanMishapKinds
  <1>3. /\ svc' \in SvcRecord /\ svc'.listening = svc.listening /\ svc'.server = svc.server
        /\ svc'.open = svc.open /\ svc'.discovering = svc.discovering /\ svc'.udp = svc.udp
    BY ClientsChange DEF LanClientGone, LanCore, LanShape
  <1> QED
    BY <1>1, <1>2, <1>3, StaysPut DEF LanClientGone, LanCore, LanShape, LanDials

LEMMA LanStartNoNetworkKeeps ==
  ASSUME LanCore, LanStartNoNetwork PROVE LanCore'
  <1>0. LanShape
    BY DEF LanCore
  <1>1. LanShape'
    BY <1>0 DEF LanStartNoNetwork, LanShape, LanModes
  <1>2. UdpOwned' /\ StartWanted'
    BY DEF LanCore, LanStartNoNetwork, UdpOwned, StartWanted
  <1>3. ASSUME LanCalm' PROVE CalmCore'
    <2>1. CalmCore
      BY <1>3 DEF LanStartNoNetwork, LanCore, LanCalm
    <2>2. OneInside'
      BY <2>1 DEF CalmCore, OneInside, LanStartNoNetwork
    <2>3. jobs["api"].kind # "stop" /\ jobs["api"].kind # "release"
      BY DEF LanStartNoNetwork, LockFree, NoJob
    <2>4. StopAlone'
      BY <2>1, <2>3 DEF CalmCore, StopAlone, LanStartNoNetwork
    <2> QED
      BY <2>2, <2>3, <2>4 DEF CalmCore, LanStartNoNetwork
  <1> QED
    BY <1>1, <1>2, <1>3 DEF LanCore

LEMMA LanScanKeeps ==
  ASSUME LanCore, LanScan PROVE LanCore'
  <1>0. LanShape /\ svc' = DiscoveryUp(svc) /\ svc \in SvcRecord
    BY DEF LanCore, LanScan, LanShape
  <1>1. /\ svc' \in SvcRecord /\ svc'.discovering /\ svc'.listening = svc.listening
        /\ SvcAt(svc, "done") => SvcAt(svc', "done")
    BY <1>0, DiscoveryUpDoes
  <1>2. lanMishaps \subseteq lanMishaps' /\ lanMishaps' \subseteq LanMishapKinds
        /\ (LanCalm' => LanIdle)
    BY <1>0 DEF LanScan, LanShape, LanMishapKinds, LanCalm
  <1>3. LanShape'
    BY <1>0, <1>1, <1>2 DEF LanScan, LanShape, LanModes, LanMishapKinds
  <1>4. UdpOwned' /\ StartWanted'
    BY <1>1 DEF LanCore, LanScan, UdpOwned, StartWanted
  <1>5. ASSUME LanCalm' PROVE CalmCore'
    <2>1. CalmCore
      BY <1>2, <1>5, CalmBefore DEF LanCore
    <2>2. jobs' = jobs /\ \A k \in LanJobs : jobs[k] = NoJob /\ jobs[k].at \notin InsideAts
      BY <1>2, <1>5 DEF LanIdle, LanScan, NoJob, InsideAts
    <2>3. SvcAt(svc', "done")
      BY <1>1, <2>1, <2>2, NobodyInside DEF CalmCore
    <2>4. OneInside'
      BY <2>2, <2>3 DEF OneInside
    <2>5. jobs["api"] = NoJob /\ jobs["api"].kind # "stop" /\ jobs["api"].kind # "release"
          /\ \A k \in LanTasks : jobs[k].kind # "held"
      BY <2>2, ApiIsNoTask DEF NoJob
    <2>6. StopAlone'
      BY <2>2, <2>5 DEF StopAlone, LanScan
    <2> QED
      BY <2>2, <2>4, <2>5, <2>6 DEF CalmCore, LanScan
  <1> QED
    BY <1>3, <1>4, <1>5 DEF LanCore

LEMMA LanStartKeeps ==
  ASSUME LanCore, LanStart PROVE LanCore'
  <1>0. LanShape /\ svc \in SvcRecord /\ UdpOwned /\ jobs["api"] = NoJob
    BY DEF LanCore, LanStart, LanShape, LockFree
  <1>1. lanMishaps \subseteq lanMishaps' /\ lanMishaps' \subseteq LanMishapKinds
        /\ (LanCalm' => \A k \in LanJobs : jobs[k].at \notin InsideAts)
    <2>1. LanCalm' => Overlap = {}
      BY MishapSets DEF LanStart, LanCalm
    <2> QED
      BY <1>0, <2>1, MishapSets DEF LanStart, LanShape, LanMishapKinds
  <1>2. lanRunning' /\ lanWanted' /\ netSeen' /\ UNCHANGED <<dialled, netUp>>
    BY DEF LanStart
  <1>3. StartWanted'
    BY <1>2 DEF StartWanted
  <1>4. LanCalm' => CalmCore
    BY <1>1, CalmBefore DEF LanCore
  <1>5. jobs["api"].kind # "stop"
    BY <1>0 DEF NoJob
  <1>6. CASE svc.listening
    <2>1. svc' = DiscoveryUp(svc) /\ jobs' = jobs /\ monitoring' /\ lanMode' = "SCANNING"
      BY <1>6 DEF LanStart
    <2>2. svc' \in SvcRecord /\ svc'.discovering /\ (SvcAt(svc, "done") => SvcAt(svc', "done"))
      BY <1>0, <2>1, DiscoveryUpDoes
    <2>3. LanShape'
      BY <1>0, <1>1, <1>2, <2>1, <2>2 DEF LanShape, LanModes, LanMishapKinds
    <2>4. UdpOwned'
      BY <2>2 DEF UdpOwned
    <2>5. ASSUME LanCalm' PROVE CalmCore'
      <3>1. SvcAt(svc', "done")
        BY <1>1, <1>4, <2>2, <2>5, NobodyInside DEF CalmCore
      <3>2. OneInside'
        BY <1>1, <2>1, <2>5, <3>1 DEF OneInside
      <3>3. StopAlone'
        BY <1>0, <1>2, <1>4, <1>5, <2>1, <2>5 DEF CalmCore, StopAlone, NoJob
      <3> QED
        BY <1>5, <2>1, <3>2, <3>3 DEF CalmCore
    <2> QED
      BY <1>3, <2>3, <2>4, <2>5 DEF LanCore
  <1>7. CASE ~svc.listening
    <2> DEFINE x == JobOf("start", "bind")
    <2>1. jobs' = [jobs EXCEPT !["api"] = x] /\ lanMode' = "CHECKING" /\ UNCHANGED <<svc, monitoring>>
      BY <1>0, <1>7, JobAtMoves, ApiIsNoTask DEF LanStart
    <2>2. x \in ApiJobs /\ x.at = "bind" /\ x.kind = "start" /\ x # NoJob
      BY JobOfIn, JobOfIs
    <2> HIDE DEF x
    <2>3. /\ jobs' \in [LanJobs -> ApiJobs \cup TaskJobs]
          /\ jobs'["api"] \in ApiJobs /\ \A k \in LanTasks : jobs'[k] \in TaskJobs
          /\ jobs'["api"] = x /\ \A k \in LanJobs : k # "api" => jobs'[k] = jobs[k]
      BY <1>0, <2>1, <2>2, JobMoves, ApiIsNoTask
    <2>4. LanShape'
      BY <1>0, <1>1, <1>2, <2>1, <2>3 DEF LanShape, LanModes, LanMishapKinds
    <2>5. UdpOwned'
      <3>1. svc'.udp => svc'.discovering \/ (svc.udp /\ ~svc.discovering /\ jobs["api"].at # "quit")
        BY <1>0, <2>1 DEF NoJob
      <3> QED
        BY <1>0, <2>1, <3>1, UdpMoves, ApiIsNoTask
    <2>6. ASSUME LanCalm' PROVE CalmCore'
      <3>1. SvcAt(svc, "done")
        BY <1>1, <1>4, <2>6, NobodyInside DEF CalmCore
      <3>2. SvcAt(svc', "bind")
        BY <1>7, <2>1, <3>1 DEF SvcAt
      <3>3. OneInside'
        BY <1>0, <1>1, <2>1, <2>2, <2>6, <3>2, InsideMoves, ApiIsNoTask
      <3>4. \A k \in LanTasks : jobs'[k] = jobs[k]
        BY <2>3, ApiIsNoTask
      <3>5. StopAlone'
        BY <1>2, <1>4, <1>5, <2>2, <2>3, <2>6, <3>4 DEF CalmCore, StopAlone
      <3> QED
        BY <2>2, <2>3, <3>3, <3>5 DEF CalmCore
    <2> QED
      BY <1>3, <2>4, <2>5, <2>6 DEF LanCore
  <1> QED
    BY <1>6, <1>7

LEMMA LanStopKeeps ==
  ASSUME LanCore, LanStop PROVE LanCore'
  <1> DEFINE stopping == [kind |-> "stop", at |-> "gather"]
             held == [kind |-> "held", at |-> "quit"]
  <1>0. LanShape /\ svc \in SvcRecord /\ UdpOwned /\ jobs["api"] = NoJob /\ jobs["api"].kind # "stop"
    BY DEF LanCore, LanStop, LanShape, LockFree, NoJob
  <1>1. stopping \in ApiJobs /\ held \in TaskJobs /\ NoJob \in TaskJobs
    BY DEF ApiJobs, TaskJobs, JobsOf
  <1>2. /\ jobs'["api"] = stopping
        /\ \A j \in LanTasks : jobs[j].at = "quit" => jobs'[j] = held
        /\ \A j \in LanTasks : jobs[j].at # "quit" => jobs'[j] = NoJob
    BY ApiIsNoTask DEF LanStop, Cancelled
  <1>3. stopping.kind = "stop" /\ stopping.at = "gather" /\ held.kind = "held" /\ held.at = "quit"
        /\ NoJob.at = "done"
    BY DEF NoJob
  <1>4. jobs' = [j \in LanJobs |-> jobs'[j]]
    BY DEF LanStop, Cancelled
  <1> HIDE DEF stopping, held
  <1>5. /\ jobs' \in [LanJobs -> ApiJobs \cup TaskJobs]
        /\ jobs'["api"] \in ApiJobs /\ \A j \in LanTasks : jobs'[j] \in TaskJobs
    <2>1. \A j \in LanTasks : jobs'[j] \in TaskJobs
      BY <1>1, <1>2
    <2>2. \A j \in LanJobs : jobs'[j] \in ApiJobs \cup TaskJobs
      BY <1>1, <1>2, <2>1, ApiIsNoTask
    <2> QED
      BY <1>1, <1>2, <1>4, <2>1, <2>2
  <1>6. lanMishaps \subseteq lanMishaps' /\ lanMishaps' \subseteq LanMishapKinds
        /\ (LanCalm' => ~ \E j \in LanTasks : jobs[j].kind = "pause" /\ jobs[j].at = "drain")
    BY <1>0 DEF LanStop, LanShape, LanMishapKinds, LanCalm
  <1>7. ~lanRunning' /\ lanRunning' \in BOOLEAN /\ lanMode' = "OFFLINE" /\ ~lanWanted' /\ lanWanted' \in BOOLEAN
        /\ UNCHANGED <<svc, dialled, monitoring, netUp, netSeen>>
    BY DEF LanStop
  <1>8. LanShape'
    BY <1>0, <1>5, <1>6, <1>7 DEF LanShape, LanModes, LanMishapKinds
  <1>9. UdpOwned'
    <2> SUFFICES ASSUME svc.udp, ~svc.discovering PROVE \E k \in LanJobs : jobs'[k].at = "quit"
      BY <1>7 DEF UdpOwned
    <2>1. PICK k \in LanJobs : jobs[k].at = "quit"
      BY <1>0 DEF UdpOwned
    <2>2. k \in LanTasks
      BY <1>0, <1>3, <2>1, ApiIsNoTask
    <2> QED
      BY <1>2, <1>3, <2>1, <2>2
  <1>10. StartWanted'
    BY <1>2, <1>3 DEF StartWanted
  <1>11. ASSUME LanCalm' PROVE CalmCore'
    <2>1. CalmCore
      BY <1>6, <1>11, CalmBefore DEF LanCore
    <2>2. \A j \in LanTasks : jobs[j].kind # "held" /\ jobs[j].at # "drain"
      <3> TAKE j \in LanTasks
      <3>1. jobs[j].kind # "held"
        BY <1>0, <2>1 DEF CalmCore, StopAlone
      <3>2. jobs[j] \in TaskJobs
        BY <1>0 DEF LanShape
      <3>3. jobs[j].at = "drain" => jobs[j].kind = "pause"
        BY <3>1, <3>2, TaskJobIs DEF NoJob
      <3> QED
        BY <1>6, <1>11, <3>1, <3>3
    <2>3. \A j \in LanJobs : jobs'[j].at \in InsideAts => j \in LanTasks /\ jobs[j].at = "quit"
      BY <1>2, <1>3, ApiIsNoTask DEF InsideAts
    <2>4. \A j \in LanJobs : jobs[j].at = "quit" => j \in LanTasks /\ jobs'[j] = held
      BY <1>0, <1>2, <1>3, ApiIsNoTask
    <2>5. CASE \E j \in LanJobs : jobs[j].at = "quit"
      <3>1. PICK j \in LanJobs : jobs[j].at = "quit"
        BY <2>5
      <3>2. SvcAt(svc, "quit") /\ \A k \in LanJobs : jobs[k].at \in InsideAts => k = j
        BY <2>1, <3>1, AloneInside DEF CalmCore, InsideAts
      <3>3. \A k \in LanJobs : jobs'[k].at \in InsideAts => k = j
        BY <2>3, <3>2 DEF InsideAts
      <3>4. jobs'[j].at = "quit" /\ "quit" \in InsideAts
        BY <1>3, <2>4, <3>1 DEF InsideAts
      <3> QED
        <4>1. OneInside'
          BY <1>7, <3>2, <3>3, <3>4 DEF OneInside
        <4>2. StopAlone'
          BY <1>2, <1>3, <1>7 DEF StopAlone, NoJob
        <4> QED
          BY <1>7, <4>1, <4>2 DEF CalmCore
    <2>6. CASE ~ \E j \in LanJobs : jobs[j].at = "quit"
      <3>1. SvcAt(svc, "done")
        <4>1. CASE \A j \in LanJobs : jobs[j].at \notin InsideAts
          BY <2>1, <4>1, NobodyInside DEF CalmCore
        <4>2. CASE \E j \in LanJobs : jobs[j].at \in InsideAts
          <5>1. PICK j \in LanJobs : jobs[j].at \in InsideAts
            BY <4>2
          <5>2. SvcAt(svc, jobs[j].at)
            BY <2>1, <5>1, AloneInside DEF CalmCore
          <5>3. j \in LanTasks
            BY <1>0, <1>3, <5>1, ApiIsNoTask DEF InsideAts
          <5>4. jobs[j].at \in {"bind", "close"}
            BY <2>2, <2>6, <5>1, <5>3 DEF InsideAts
          <5> QED
            BY <5>2, <5>4 DEF SvcAt
        <4> QED
          BY <4>1, <4>2
      <3>2. \A j \in LanJobs : jobs'[j].at \notin InsideAts
        BY <2>3, <2>6
      <3>3. OneInside'
        BY <1>7, <3>1, <3>2 DEF OneInside
      <3>4. StopAlone'
        BY <1>2, <1>3, <1>7 DEF StopAlone, NoJob
      <3> QED
        BY <1>7, <3>3, <3>4 DEF CalmCore
    <2> QED
      BY <2>5, <2>6
  <1> QED
    BY <1>8, <1>9, <1>10, <1>11 DEF LanCore

\* A task of the monitor that is neither done nor held: no stop runs.
LEMMA TaskFree ==
  ASSUME LanShape, CalmCore, NEW j \in LanTasks, jobs[j].kind \in {"pause", "resume"}
  PROVE  jobs["api"].kind # "stop" /\ lanWanted /\ \A k \in LanTasks : jobs[k].kind # "held"
  <1>1. jobs[j] # NoJob /\ jobs[j].kind # "held"
    BY DEF NoJob
  <1>2. jobs["api"].kind # "stop"
    BY <1>1 DEF CalmCore, StopAlone
  <1>3. jobs["api"].at # "gather"
    BY <1>2, ApiJobIs DEF LanShape
  <1> QED
    BY <1>1, <1>2, <1>3 DEF CalmCore, StopAlone, LanShape

LEMMA LanBoundKeeps ==
  ASSUME LanCore, NEW j \in LanJobs, LanBound(j) PROVE LanCore'
  <1>0. LanShape /\ svc \in SvcRecord /\ UdpOwned /\ jobs[j].at = "bind" /\ svc.made < LanMaxSockets
    BY DEF LanCore, LanBound, LanShape
  <1> DEFINE s == ServerUp(svc)
  <1>1. s \in SvcRecord /\ (SvcAt(svc, "bind") => SvcAt(s, "done"))
    BY <1>0, ServerUpDoes
  <1>2. svc' = DiscoveryUp(s)
    BY DEF LanBound
  <1> HIDE DEF s
  <1>3. svc' \in SvcRecord /\ svc'.discovering /\ (SvcAt(s, "done") => SvcAt(svc', "done"))
    BY <1>1, <1>2, DiscoveryUpDoes
  <1>4. /\ jobs' = [jobs EXCEPT ![j] = NoJob] /\ NoJob.at = "done" /\ NoJob.kind = "none"
        /\ lanMode' = "SCANNING" /\ UNCHANGED <<dialled, netUp, lanWanted, lanMishaps>>
    BY DEF LanBound, NoJob
  <1>5. /\ jobs' \in [LanJobs -> ApiJobs \cup TaskJobs]
        /\ jobs'["api"] \in ApiJobs /\ \A k \in LanTasks : jobs'[k] \in TaskJobs
        /\ jobs'[j] = NoJob /\ \A k \in LanJobs : k # j => jobs'[k] = jobs[k]
    BY <1>0, <1>4, JobMoves, JobOfIn
  <1>6. lanRunning' \in BOOLEAN /\ monitoring' \in BOOLEAN /\ netSeen' \in BOOLEAN
    BY <1>0 DEF LanBound, LanShape
  <1>7. LanShape'
    BY <1>0, <1>3, <1>4, <1>5, <1>6 DEF LanShape, LanModes
  <1>8. UdpOwned'
    BY <1>3 DEF UdpOwned
  <1>9. StartWanted'
    BY <1>4, <1>5, ApiIsNoTask DEF StartWanted, LanCore
  <1>10. ASSUME LanCalm' PROVE CalmCore'
    <2>1. CalmCore
      BY <1>4, <1>10, CalmBefore DEF LanCore
    <2>2. SvcAt(svc, "bind") /\ \A k \in LanJobs : jobs[k].at \in InsideAts => k = j
      BY <1>0, <2>1, AloneInside DEF CalmCore, InsideAts
    <2>3. OneInside'
      BY <1>0, <1>1, <1>3, <1>4, <2>2, InsideMoves
    <2>4. CASE j = "api"
      <3>1. jobs["api"].kind = "start" /\ lanWanted
        BY <1>0, <2>4, ApiJobIs DEF LanShape, LanCore, StartWanted
      <3>2. \A k \in LanTasks : jobs'[k] = jobs[k]
        BY <1>5, <2>4, ApiIsNoTask
      <3>3. StopAlone'
        BY <1>4, <1>5, <2>1, <2>4, <3>1, <3>2 DEF CalmCore, StopAlone
      <3> QED
        BY <1>4, <1>5, <2>3, <2>4, <3>3 DEF CalmCore
    <2>5. CASE j # "api"
      <3>1. j \in LanTasks /\ jobs[j].kind = "resume"
        BY <1>0, <2>5, TaskJobIs, ApiIsNoTask DEF LanShape
      <3>2. jobs["api"].kind # "stop" /\ lanWanted /\ \A k \in LanTasks : jobs[k].kind # "held"
        BY <1>0, <2>1, <3>1, TaskFree
      <3>3. jobs["api"].kind # "release"
        BY <1>0, <2>2, <2>5, ApiJobIs, ApiIsNoTask DEF LanShape, InsideAts
      <3>4. jobs'["api"] = jobs["api"] /\ \A k \in LanTasks : jobs'[k].kind # "held"
        BY <1>4, <1>5, <2>5, <3>2, ApiIsNoTask
      <3>5. StopAlone'
        BY <1>4, <3>2, <3>3, <3>4 DEF StopAlone
      <3> QED
        BY <1>4, <2>3, <3>2, <3>4, <3>5 DEF CalmCore
    <2> QED
      BY <2>4, <2>5
  <1> QED
    BY <1>7, <1>8, <1>9, <1>10 DEF LanCore

LEMMA LanPauseBeginsKeeps ==
  ASSUME LanCore, NEW j \in LanTasks, LanPauseBegins(j) PROVE LanCore'
  <1> DEFINE r == ServicesStop(svc)
             x == JobOf("pause", r[2])
  <1>0. /\ LanShape /\ svc \in SvcRecord /\ UdpOwned /\ j \in LanJobs /\ j # "api"
        /\ jobs[j].at = "new" /\ jobs[j].kind = "pause"
    BY ApiIsNoTask DEF LanCore, LanPauseBegins, LanShape
  <1>1. /\ r[1] \in SvcRecord /\ r[2] \in {"done", "quit", "drain", "close"}
        /\ r[1].udp => svc.udp
        /\ svc.discovering => r[2] = "quit"
        /\ SvcAt(svc, "done") => SvcAt(r[1], r[2])
    BY <1>0, ServicesStopDoes
  <1>2. /\ svc' = r[1] /\ jobs' = [jobs EXCEPT ![j] = x]
        /\ UNCHANGED <<lanRunning, lanMode, dialled, monitoring, netUp, netSeen, lanWanted>>
    BY <1>0, JobAtMoves DEF LanPauseBegins
  <1>3. x \in TaskJobs /\ x.at = r[2] /\ x.kind # "held"
    BY <1>1, JobOfIn, JobOfIs DEF NoJob
  <1>4. lanMishaps \subseteq lanMishaps' /\ lanMishaps' \subseteq LanMishapKinds
        /\ (LanCalm' => \A k \in LanJobs : jobs[k].at \notin InsideAts)
    <2>1. LanCalm' => Overlap = {}
      BY MishapSets DEF LanPauseBegins, LanCalm
    <2> QED
      BY <1>0, <2>1, MishapSets DEF LanPauseBegins, LanShape, LanMishapKinds
  <1> HIDE DEF r, x
  <1>5. /\ jobs' \in [LanJobs -> ApiJobs \cup TaskJobs]
        /\ jobs'["api"] \in ApiJobs /\ \A k \in LanTasks : jobs'[k] \in TaskJobs
        /\ jobs'[j] = x /\ \A k \in LanJobs : k # j => jobs'[k] = jobs[k]
    BY <1>0, <1>2, <1>3, JobMoves
  <1>6. LanShape'
    BY <1>0, <1>1, <1>2, <1>4, <1>5 DEF LanShape, LanMishapKinds
  <1>7. UdpOwned'
    <2>1. svc'.udp => svc'.discovering \/ x.at = "quit" \/ (svc.udp /\ ~svc.discovering /\ jobs[j].at # "quit")
      BY <1>0, <1>1, <1>2, <1>3
    <2> QED
      BY <1>0, <1>2, <2>1, UdpMoves
  <1>8. jobs'["api"] = jobs["api"]
    BY <1>0, <1>5, ApiIsNoTask
  <1>9. StartWanted'
    BY <1>2, <1>8 DEF StartWanted, LanCore
  <1>10. ASSUME LanCalm' PROVE CalmCore'
    <2>1. CalmCore /\ SvcAt(svc, "done")
      BY <1>4, <1>10, CalmBefore, NobodyInside DEF LanCore, CalmCore
    <2>2. OneInside'
      BY <1>0, <1>1, <1>2, <1>3, <1>4, <1>10, <2>1, InsideMoves
    <2>3. jobs["api"].kind # "stop" /\ lanWanted /\ \A k \in LanTasks : jobs[k].kind # "held"
      BY <1>0, <2>1, TaskFree
    <2>4. \A k \in LanTasks : jobs'[k].kind # "held"
      BY <1>3, <1>5, <2>3, ApiIsNoTask
    <2>5. StopAlone'
      BY <1>2, <1>8, <2>1, <2>3, <2>4 DEF StopAlone, CalmCore
    <2> QED
      BY <1>8, <2>2, <2>3, <2>5 DEF CalmCore
  <1> QED
    BY <1>6, <1>7, <1>9, <1>10 DEF LanCore

LEMMA LanResumeBeginsKeeps ==
  ASSUME LanCore, NEW j \in LanTasks, LanResumeBegins(j) PROVE LanCore'
  <1>0. /\ LanShape /\ svc \in SvcRecord /\ UdpOwned /\ j \in LanJobs /\ j # "api"
        /\ jobs[j].at = "new" /\ jobs[j].kind = "resume"
    BY ApiIsNoTask DEF LanCore, LanResumeBegins, LanShape
  <1>1. lanMishaps \subseteq lanMishaps' /\ lanMishaps' \subseteq LanMishapKinds
        /\ (LanCalm' => \A k \in LanJobs : jobs[k].at \notin InsideAts)
    <2>1. LanCalm' => Overlap = {}
      BY MishapSets DEF LanResumeBegins, LanCalm
    <2> QED
      BY <1>0, <2>1, MishapSets DEF LanResumeBegins, LanShape, LanMishapKinds
  <1>2. UNCHANGED <<dialled, monitoring, netUp, netSeen, lanWanted>>
    BY DEF LanResumeBegins
  <1>3. ASSUME LanCalm'
        PROVE  /\ CalmCore /\ SvcAt(svc, "done")
               /\ jobs["api"].kind # "stop" /\ lanWanted /\ \A k \in LanTasks : jobs[k].kind # "held"
               /\ jobs["api"].kind # "release"
    <2>1. CalmCore /\ SvcAt(svc, "done")
      BY <1>1, <1>3, CalmBefore, NobodyInside DEF LanCore, CalmCore
    <2>2. jobs["api"].at \notin InsideAts
      BY <1>1, <1>3, ApiIsNoTask
    <2>3. jobs["api"].kind # "release"
      BY <1>0, <2>2, ApiJobIs DEF LanShape, InsideAts
    <2> QED
      BY <1>0, <2>1, <2>3, TaskFree
  <1>4. CASE svc.listening
    <2>1. svc' = DiscoveryUp(svc) /\ jobs' = [jobs EXCEPT ![j] = NoJob] /\ lanRunning' /\ lanMode' = "SCANNING"
          /\ NoJob.at = "done" /\ NoJob.kind = "none"
      BY <1>4 DEF LanResumeBegins, NoJob
    <2>2. svc' \in SvcRecord /\ svc'.discovering /\ (SvcAt(svc, "done") => SvcAt(svc', "done"))
      BY <1>0, <2>1, DiscoveryUpDoes
    <2>3. /\ jobs' \in [LanJobs -> ApiJobs \cup TaskJobs]
          /\ jobs'["api"] \in ApiJobs /\ \A k \in LanTasks : jobs'[k] \in TaskJobs
          /\ jobs'[j] = NoJob /\ \A k \in LanJobs : k # j => jobs'[k] = jobs[k]
      BY <1>0, <2>1, JobMoves, JobOfIn
    <2>a. lanRunning' \in BOOLEAN
      BY <1>4 DEF LanResumeBegins
    <2>4. LanShape'
      BY <1>0, <1>1, <1>2, <2>1, <2>2, <2>3, <2>a DEF LanShape, LanModes, LanMishapKinds
    <2>5. UdpOwned'
      BY <2>2 DEF UdpOwned
    <2>6. jobs'["api"] = jobs["api"]
      BY <1>0, <2>3, ApiIsNoTask
    <2>7. StartWanted'
      BY <1>2, <2>6 DEF StartWanted, LanCore
    <2>8. ASSUME LanCalm' PROVE CalmCore'
      <3>1. OneInside'
        BY <1>0, <1>1, <1>3, <2>1, <2>2, <2>8, InsideMoves
      <3>2. \A k \in LanTasks : jobs'[k].kind # "held"
        BY <1>3, <2>1, <2>3, <2>8, ApiIsNoTask
      <3>3. StopAlone'
        BY <1>2, <1>3, <2>6, <2>8, <3>2 DEF StopAlone
      <3> QED
        BY <1>3, <2>6, <2>8, <3>1, <3>3 DEF CalmCore
    <2> QED
      BY <2>4, <2>5, <2>7, <2>8 DEF LanCore
  <1>5. CASE ~svc.listening
    <2> DEFINE x == JobOf("resume", "bind")
    <2>1. jobs' = [jobs EXCEPT ![j] = x] /\ UNCHANGED <<svc, lanRunning, lanMode>>
      BY <1>0, <1>5, JobAtMoves DEF LanResumeBegins
    <2>2. x \in TaskJobs /\ x.at = "bind" /\ x.kind = "resume"
      BY JobOfIn, JobOfIs
    <2> HIDE DEF x
    <2>3. /\ jobs' \in [LanJobs -> ApiJobs \cup TaskJobs]
          /\ jobs'["api"] \in ApiJobs /\ \A k \in LanTasks : jobs'[k] \in TaskJobs
          /\ jobs'[j] = x /\ \A k \in LanJobs : k # j => jobs'[k] = jobs[k]
      BY <1>0, <2>1, <2>2, JobMoves
    <2>4. LanShape'
      BY <1>0, <1>1, <1>2, <2>1, <2>3 DEF LanShape, LanMishapKinds
    <2>5. UdpOwned'
      <3>1. svc'.udp => svc'.discovering \/ (svc.udp /\ ~svc.discovering /\ jobs[j].at # "quit")
        BY <1>0, <2>1
      <3> QED
        BY <1>0, <2>1, <3>1, UdpMoves
    <2>6. jobs'["api"] = jobs["api"]
      BY <1>0, <2>3, ApiIsNoTask
    <2>7. StartWanted'
      BY <1>2, <2>6 DEF StartWanted, LanCore
    <2>8. ASSUME LanCalm' PROVE CalmCore'
      <3>0. SvcAt(svc', "bind")
        BY <1>3, <1>5, <2>1, <2>8 DEF SvcAt
      <3>1. OneInside'
        BY <1>0, <1>1, <2>1, <2>2, <2>8, <3>0, InsideMoves
      <3>2. \A k \in LanTasks : jobs'[k].kind # "held"
        BY <1>3, <2>2, <2>3, <2>8, ApiIsNoTask
      <3>3. StopAlone'
        BY <1>2, <1>3, <2>6, <2>8, <3>2 DEF StopAlone
      <3> QED
        BY <1>3, <2>6, <2>8, <3>1, <3>3 DEF CalmCore
    <2> QED
      BY <2>4, <2>5, <2>7, <2>8 DEF LanCore
  <1> QED
    BY <1>4, <1>5

LEMMA LanBindFailsKeeps ==
  ASSUME LanCore, NEW j \in LanJobs, LanBindFails(j) PROVE LanCore'
  <1>0. LanShape /\ svc \in SvcRecord /\ UdpOwned /\ jobs[j].at = "bind"
    BY DEF LanCore, LanBindFails, LanShape
  <1>1. PICK s \in {svc} \cup (IF svc.made < LanMaxSockets /\ ~svc.discovering THEN {ServerUp(svc)} ELSE {}) :
          /\ svc' = Released(j, s)[1]
          /\ jobs' = JobAt(j, "release", Released(j, s)[2])
          /\ lanMode' = IF Released(j, s)[2] = "done" THEN "ERROR" ELSE lanMode
    BY DEF LanBindFails
  <1>2. /\ s \in SvcRecord /\ s.udp = svc.udp /\ s.discovering = svc.discovering
        /\ SvcAt(svc, "bind") => SvcAt(s, "done")
    <2>1. CASE s = svc
      BY <1>0, <2>1 DEF SvcAt
    <2>2. CASE svc.made < LanMaxSockets /\ s = ServerUp(svc)
      BY <1>0, <2>2, ServerUpDoes
    <2> QED
      BY <1>1, <2>1, <2>2
  <1>3. /\ lanRunning' = (lanRunning /\ jobs[j].kind # "start") /\ lanMishaps' = lanMishaps \cup {"bind"}
        /\ UNCHANGED <<dialled, monitoring, netUp, netSeen, lanWanted>>
    BY DEF LanBindFails
  <1>4. lanMishaps \subseteq lanMishaps' /\ lanMishaps' \subseteq LanMishapKinds /\ lanRunning' \in BOOLEAN
    BY <1>0, <1>3 DEF LanShape, LanMishapKinds
  <1>5. CASE j = "api"
    <2> DEFINE r == ServicesStop(s)
               x == JobOf("release", r[2])
    <2>1. jobs["api"].kind = "start" /\ lanWanted
      BY <1>0, <1>5, ApiJobIs DEF LanShape, LanCore, StartWanted
    <2>2. Released(j, s) = r
      BY <1>5, <2>1 DEF Released
    <2>3. /\ r[1] \in SvcRecord /\ r[2] \in {"done", "quit", "drain", "close"}
          /\ r[1].udp => s.udp
          /\ s.discovering => r[2] = "quit"
          /\ SvcAt(s, "done") => SvcAt(r[1], r[2])
      BY <1>2, ServicesStopDoes
    <2>a. lanMode' \in LanModes
      BY <1>0, <1>1 DEF LanModes, LanShape
    <2>b. JobAt("api", "release", r[2]) = [jobs EXCEPT !["api"] = x]
      BY <1>0, JobAtMoves, ApiIsNoTask
    <2>4. /\ svc' = r[1] /\ jobs' = [jobs EXCEPT !["api"] = x]
          /\ lanMode' \in LanModes /\ lanRunning' = FALSE
      BY <1>1, <1>3, <1>5, <2>1, <2>2, <2>a, <2>b
    <2>5. x \in ApiJobs /\ x.at = r[2] /\ x.kind # "stop"
      BY <2>3, JobOfIn, JobOfIs DEF NoJob
    <2> HIDE DEF r, x
    <2>6. /\ jobs' \in [LanJobs -> ApiJobs \cup TaskJobs]
          /\ jobs'["api"] \in ApiJobs /\ \A k \in LanTasks : jobs'[k] \in TaskJobs
          /\ jobs'["api"] = x /\ \A k \in LanJobs : k # "api" => jobs'[k] = jobs[k]
      BY <1>0, <2>4, <2>5, JobMoves, ApiIsNoTask
    <2>7. LanShape'
      BY <1>0, <1>3, <1>4, <2>3, <2>4, <2>6 DEF LanShape, LanMishapKinds
    <2>8. UdpOwned'
      <3>1. svc'.udp => svc'.discovering \/ x.at = "quit" \/ (svc.udp /\ ~svc.discovering /\ jobs["api"].at # "quit")
        BY <1>0, <1>2, <1>5, <2>3, <2>4, <2>5
      <3> QED
        BY <1>0, <2>4, <3>1, UdpMoves, ApiIsNoTask
    <2>9. StartWanted'
      BY <1>3, <2>1 DEF StartWanted
    <2>10. ASSUME LanCalm' PROVE CalmCore'
      <3>1. CalmCore
        BY <1>4, <2>10, CalmBefore DEF LanCore
      <3>2. SvcAt(svc, "bind") /\ \A k \in LanJobs : jobs[k].at \in InsideAts => k = "api"
        BY <1>0, <1>5, <3>1, AloneInside DEF CalmCore, InsideAts
      <3>3. OneInside'
        BY <1>0, <1>2, <2>3, <2>4, <2>5, <3>2, InsideMoves, ApiIsNoTask
      <3>4. \A k \in LanTasks : jobs'[k].kind # "held"
        BY <2>1, <2>6, <3>1, ApiIsNoTask DEF CalmCore, StopAlone
      <3>5. StopAlone'
        BY <1>3, <2>1, <2>4, <2>5, <2>6, <3>4 DEF StopAlone
      <3> QED
        BY <2>5, <2>6, <3>3, <3>5 DEF CalmCore
    <2> QED
      BY <2>7, <2>8, <2>9, <2>10 DEF LanCore
  <1>6. CASE j # "api"
    <2>1. j \in LanTasks /\ jobs[j].kind = "resume"
      BY <1>0, <1>6, TaskJobIs, ApiIsNoTask DEF LanShape
    <2> DEFINE r == <<s, "done">>
    <2>2. Released(j, s) = r /\ r[1] = s /\ r[2] = "done"
      BY <2>1 DEF Released
    <2>3. svc' = s /\ jobs' = [jobs EXCEPT ![j] = NoJob] /\ lanMode' \in LanModes /\ lanRunning' = lanRunning
          /\ NoJob.at = "done" /\ NoJob.kind = "none"
      BY <1>0, <1>1, <1>3, <2>1, <2>2, JobAtMoves, JobOfIs DEF LanModes, LanShape, NoJob
    <2>4. /\ jobs' \in [LanJobs -> ApiJobs \cup TaskJobs]
          /\ jobs'["api"] \in ApiJobs /\ \A k \in LanTasks : jobs'[k] \in TaskJobs
          /\ jobs'[j] = NoJob /\ \A k \in LanJobs : k # j => jobs'[k] = jobs[k]
      BY <1>0, <1>6, <2>3, JobMoves, JobOfIn
    <2>5. LanShape'
      BY <1>0, <1>2, <1>3, <1>4, <2>3, <2>4 DEF LanShape, LanMishapKinds
    <2>6. UdpOwned'
      <3>1. svc'.udp => svc'.discovering \/ (svc.udp /\ ~svc.discovering /\ jobs[j].at # "quit")
        BY <1>0, <1>2, <2>3
      <3> QED
        BY <1>0, <2>3, <3>1, UdpMoves
    <2>7. jobs'["api"] = jobs["api"]
      BY <1>6, <2>4, ApiIsNoTask
    <2>8. StartWanted'
      BY <1>3, <2>7 DEF StartWanted, LanCore
    <2>9. ASSUME LanCalm' PROVE CalmCore'
      <3>1. CalmCore
        BY <1>4, <2>9, CalmBefore DEF LanCore
      <3>2. SvcAt(svc, "bind") /\ \A k \in LanJobs : jobs[k].at \in InsideAts => k = j
        BY <1>0, <3>1, AloneInside DEF CalmCore, InsideAts
      <3>3. OneInside'
        BY <1>0, <1>2, <2>3, <3>2, InsideMoves
      <3>4. jobs["api"].kind # "stop" /\ lanWanted /\ \A k \in LanTasks : jobs[k].kind # "held"
        BY <1>0, <2>1, <3>1, TaskFree
      <3>5. \A k \in LanTasks : jobs'[k].kind # "held"
        BY <2>3, <2>4, <3>4, ApiIsNoTask
      <3>6. StopAlone'
        BY <1>3, <2>3, <2>7, <3>1, <3>4, <3>5 DEF StopAlone, CalmCore
      <3> QED
        BY <2>7, <3>3, <3>4, <3>6 DEF CalmCore
    <2> QED
      BY <2>5, <2>6, <2>8, <2>9 DEF LanCore
  <1> QED
    BY <1>5, <1>6

\* Where stop clears its tables.
LEMMA StopClearedDoes ==
  ASSUME LanShape, NEW at, StopCleared(at)
  PROVE  /\ lanMode' \in LanModes /\ dialled' \in LanDials
         /\ lanMishaps \subseteq lanMishaps' /\ lanMishaps' \subseteq LanMishapKinds
  <1>1. CASE UNCHANGED <<dialled, lanMode, lanMishaps>>
    BY <1>1 DEF LanShape, LanDials, LanMishapKinds
  <1>2. CASE dialled' = "unlisted" /\ UNCHANGED <<lanMode, lanMishaps>>
    BY <1>2 DEF LanShape, LanDials, LanMishapKinds
  <1>3. CASE dialled' = "none" /\ lanMode' = RestMode(svc') /\ lanMishaps' = lanMishaps \cup Masks
    BY <1>3, RestModeIn, MishapSets DEF LanShape, LanDials, LanMishapKinds
  <1> QED
    BY <1>1, <1>2, <1>3 DEF StopCleared

LEMMA LanStopGatheredKeeps ==
  ASSUME LanCore, LanStopGathered PROVE LanCore'
  <1> DEFINE r == ServicesStop(svc)
             x == JobOf("stop", r[2])
  <1>0. /\ LanShape /\ svc \in SvcRecord /\ UdpOwned /\ jobs["api"].at = "gather"
        /\ \A k \in LanTasks : jobs[k].kind # "held"
    BY DEF LanCore, LanStopGathered, LanShape
  <1>1. /\ r[1] \in SvcRecord /\ r[2] \in {"done", "quit", "drain", "close"}
        /\ r[1].udp => svc.udp
        /\ svc.discovering => r[2] = "quit"
        /\ r[2] = "done" => ~r[1].listening /\ ~r[1].discovering
        /\ SvcAt(svc, "done") => SvcAt(r[1], r[2])
    BY <1>0, ServicesStopDoes
  <1>2. /\ svc' = r[1] /\ jobs' = [jobs EXCEPT !["api"] = x] /\ monitoring' = FALSE
        /\ StopCleared(r[2]) /\ UNCHANGED <<lanRunning, netUp, netSeen, lanWanted>>
    BY <1>0, JobAtMoves, ApiIsNoTask DEF LanStopGathered
  <1>3. /\ x \in ApiJobs /\ x.at = r[2] /\ x.kind \in {"none", "stop"}
        /\ x = NoJob <=> r[2] = "done"
    BY <1>1, JobOfIn, JobOfIs DEF NoJob
  <1>4. /\ lanMode' \in LanModes /\ dialled' \in LanDials
        /\ lanMishaps \subseteq lanMishaps' /\ lanMishaps' \subseteq LanMishapKinds
    BY <1>0, <1>2, StopClearedDoes
  <1> HIDE DEF r, x
  <1>5. /\ jobs' \in [LanJobs -> ApiJobs \cup TaskJobs]
        /\ jobs'["api"] \in ApiJobs /\ \A k \in LanTasks : jobs'[k] \in TaskJobs
        /\ jobs'["api"] = x /\ \A k \in LanJobs : k # "api" => jobs'[k] = jobs[k]
    BY <1>0, <1>2, <1>3, JobMoves, ApiIsNoTask
  <1>6. LanShape'
    BY <1>0, <1>1, <1>2, <1>4, <1>5 DEF LanShape, LanMishapKinds, LanDials
  <1>7. UdpOwned'
    <2>1. svc'.udp => svc'.discovering \/ x.at = "quit" \/ (svc.udp /\ ~svc.discovering /\ jobs["api"].at # "quit")
      BY <1>0, <1>1, <1>2, <1>3
    <2> QED
      BY <1>0, <1>2, <2>1, UdpMoves, ApiIsNoTask
  <1>8. StartWanted'
    BY <1>3, <1>5 DEF StartWanted
  <1>9. ASSUME LanCalm' PROVE CalmCore'
    <2>1. CalmCore
      BY <1>4, <1>9, CalmBefore DEF LanCore
    <2>2. jobs["api"].kind = "stop" /\ ~lanWanted
      BY <1>0, <2>1, ApiJobIs DEF LanShape, CalmCore
    <2>3. \A k \in LanTasks : jobs[k] = NoJob
      BY <1>0, <2>1, <2>2 DEF CalmCore, StopAlone
    <2>4. \A k \in LanJobs : jobs[k].at \notin InsideAts
      BY <1>0, <2>3, ApiIsNoTask DEF InsideAts, NoJob
    <2>5. SvcAt(svc', x.at)
      BY <1>1, <1>2, <1>3, <2>1, <2>4, NobodyInside DEF CalmCore
    <2>6. OneInside'
      BY <1>0, <1>2, <2>4, <2>5, InsideMoves, ApiIsNoTask
    <2>7. \A k \in LanTasks : jobs'[k] = NoJob /\ jobs'[k].kind # "held"
      BY <1>5, <2>3, ApiIsNoTask DEF NoJob
    <2>8. ~lanRunning
      BY <2>1, <2>2 DEF CalmCore, StopAlone
    <2>9. jobs'["api"] = NoJob => ~svc'.listening /\ ~svc'.discovering
      BY <1>1, <1>2, <1>3, <1>5
    <2>10. StopAlone'
      BY <1>2, <1>3, <1>5, <2>2, <2>7, <2>8, <2>9 DEF StopAlone
    <2> QED
      BY <1>2, <2>2, <2>6, <2>10 DEF CalmCore
  <1> QED
    BY <1>6, <1>7, <1>8, <1>9 DEF LanCore

LEMMA LanStopStepSides ==
  ASSUME LanShape, NEW j \in LanJobs, LanStopStep(j)
  PROVE  /\ lanMode' \in LanModes /\ dialled' \in LanDials
         /\ lanMishaps \subseteq lanMishaps' /\ lanMishaps' \subseteq LanMishapKinds
         /\ lanMode' # lanMode => lanMode' # "OFFLINE"
  <1> DEFINE r == StopGoesOn(svc, jobs[j].at)
             A == jobs[j].kind = "stop" /\ jobs[j].at # "drain"
             B == jobs[j].kind = "release" /\ r[2] = "done"
             C == /\ jobs[j].at = "drain" /\ dialled # "live"
                  /\ jobs[j].kind = "release" => r[2] # "done"
  <1>1. CASE A
    <2>1. StopCleared(r[2])
      BY <1>1 DEF LanStopStep
    <2>2. lanMode' # lanMode => lanMode' # "OFFLINE"
      BY <2>1 DEF StopCleared, RestMode
    <2> QED
      BY <2>1, <2>2, StopClearedDoes
  <1>2. CASE ~A /\ B
    <2>1. lanMode' = "ERROR" /\ UNCHANGED <<dialled, lanMishaps>>
      BY <1>2 DEF LanStopStep
    <2> QED
      BY <2>1 DEF LanShape, LanModes, LanDials, LanMishapKinds
  <1>3. CASE ~A /\ ~B /\ C
    <2>1. lanMode' = RestMode(svc) /\ lanMishaps' = lanMishaps \cup Masks /\ UNCHANGED dialled
      BY <1>3 DEF LanStopStep
    <2>2. lanMode' # "OFFLINE"
      BY <2>1 DEF RestMode
    <2> QED
      BY <2>1, <2>2, RestModeIn, MishapSets DEF LanShape, LanDials, LanMishapKinds
  <1>4. CASE ~A /\ ~B /\ ~C
    <2>1. UNCHANGED <<lanMode, dialled, lanMishaps>>
      BY <1>4 DEF LanStopStep
    <2> QED
      BY <2>1 DEF LanShape, LanModes, LanDials, LanMishapKinds
  <1> QED
    BY <1>1, <1>2, <1>3, <1>4

LEMMA LanStopStepKeeps ==
  ASSUME LanCore, NEW j \in LanJobs, LanStopStep(j) PROVE LanCore'
  <1> DEFINE r == StopGoesOn(svc, jobs[j].at)
             x == JobOf(jobs[j].kind, r[2])
  <1>0. LanShape /\ svc \in SvcRecord /\ UdpOwned /\ jobs[j].at \in {"quit", "drain", "close"}
    BY DEF LanCore, LanStopStep, LanShape
  <1>1. /\ r[1] \in SvcRecord /\ r[2] \in {"done", "drain", "close"}
        /\ r[1].udp => svc.udp /\ jobs[j].at # "quit"
        /\ r[1].discovering = svc.discovering
        /\ SvcAt(svc, jobs[j].at) => SvcAt(r[1], r[2]) /\ ~r[1].listening /\ ~r[1].discovering
    BY <1>0, StopGoesOnDoes
  <1>2. /\ svc' = r[1] /\ jobs' = [jobs EXCEPT ![j] = x]
        /\ UNCHANGED <<lanRunning, monitoring, netUp, netSeen, lanWanted>>
    BY <1>0, JobAtMoves DEF LanStopStep
  <1>3. x.at = r[2] /\ x.kind \in {"none", jobs[j].kind} /\ (x = NoJob <=> r[2] = "done")
    BY <1>1, JobOfIs DEF NoJob
  <1>4. (j = "api" => x \in ApiJobs) /\ (j # "api" => x \in TaskJobs)
    <2>1. CASE j = "api"
      <3>1. jobs[j].kind \in {"release", "stop"}
        BY <1>0, <2>1, ApiJobIs DEF LanShape, NoJob
      <3> QED
        BY <1>1, <2>1, <3>1, JobOfIn
    <2>2. CASE j # "api"
      <3>1. jobs[j] \in TaskJobs
        BY <1>0, <2>2, ApiIsNoTask DEF LanShape
      <3>2. jobs[j].kind \in {"pause", "held"}
        BY <1>0, <3>1, TaskJobIs DEF NoJob
      <3> QED
        BY <1>1, <2>2, <3>2, JobOfIn
    <2> QED
      BY <2>1, <2>2
  <1>5. /\ lanMode' \in LanModes /\ dialled' \in LanDials
        /\ lanMishaps \subseteq lanMishaps' /\ lanMishaps' \subseteq LanMishapKinds
    BY <1>0, LanStopStepSides
  <1> HIDE DEF r, x
  <1>6. /\ jobs' \in [LanJobs -> ApiJobs \cup TaskJobs]
        /\ jobs'["api"] \in ApiJobs /\ \A k \in LanTasks : jobs'[k] \in TaskJobs
        /\ jobs'[j] = x /\ \A k \in LanJobs : k # j => jobs'[k] = jobs[k]
    BY <1>0, <1>2, <1>4, JobMoves
  <1>7. LanShape'
    BY <1>0, <1>1, <1>2, <1>5, <1>6 DEF LanShape, LanMishapKinds, LanDials
  <1>8. UdpOwned'
    <2>1. svc'.udp => svc'.discovering \/ (svc.udp /\ ~svc.discovering /\ jobs[j].at # "quit")
      BY <1>0, <1>1, <1>2
    <2> QED
      BY <1>0, <1>2, <2>1, UdpMoves
  <1>9. StartWanted'
    <2>1. jobs'["api"].kind \in {"none", jobs["api"].kind}
      BY <1>3, <1>6, ApiIsNoTask
    <2> QED
      BY <1>2, <2>1 DEF StartWanted, LanCore
  <1>10. ASSUME LanCalm' PROVE CalmCore'
    <2>1. CalmCore
      BY <1>5, <1>10, CalmBefore DEF LanCore
    <2>2. SvcAt(svc, jobs[j].at) /\ \A k \in LanJobs : jobs[k].at \in InsideAts => k = j
      BY <1>0, <2>1, AloneInside DEF CalmCore, InsideAts
    <2>3. OneInside'
      BY <1>0, <1>1, <1>2, <1>3, <2>2, InsideMoves
    <2>4. ~svc'.listening /\ ~svc'.discovering
      BY <1>1, <1>2, <2>2
    <2>5. CASE j = "api" /\ jobs[j].kind = "stop"
      <3>1. \A k \in LanTasks : jobs[k] = NoJob
        BY <1>0, <2>1, <2>5 DEF CalmCore, StopAlone
      <3>2. \A k \in LanTasks : jobs'[k] = NoJob /\ jobs'[k].kind # "held"
        BY <1>6, <2>5, <3>1, ApiIsNoTask DEF NoJob
      <3>3. ~lanWanted
        BY <2>1, <2>5 DEF CalmCore
      <3>4. ~lanRunning /\ ~monitoring
        BY <1>0, <2>1, <2>5, <3>3 DEF CalmCore, StopAlone
      <3>5. StopAlone'
        BY <1>2, <1>3, <1>6, <2>4, <2>5, <3>2, <3>3, <3>4 DEF StopAlone
      <3> QED
        BY <1>2, <2>3, <3>3, <3>5 DEF CalmCore
    <2>6. CASE j = "api" /\ jobs[j].kind # "stop"
      <3>1. jobs["api"].kind = "release" /\ lanWanted
        BY <1>0, <2>6, ApiJobIs DEF LanShape, NoJob, LanCore, StartWanted
      <3>2. \A k \in LanTasks : jobs'[k].kind # "held"
        BY <1>6, <2>1, <2>6, ApiIsNoTask DEF CalmCore, StopAlone
      <3>3. StopAlone'
        BY <1>2, <1>3, <1>6, <2>1, <2>6, <3>1, <3>2 DEF CalmCore, StopAlone
      <3> QED
        BY <1>3, <1>6, <2>3, <2>6, <3>1, <3>3 DEF CalmCore
    <2>7. CASE j # "api" /\ jobs[j].kind = "pause"
      <3>1. jobs["api"].kind # "stop" /\ lanWanted /\ \A k \in LanTasks : jobs[k].kind # "held"
        BY <1>0, <2>1, <2>7, TaskFree, ApiIsNoTask
      <3>2. jobs'["api"] = jobs["api"] /\ \A k \in LanTasks : jobs'[k].kind # "held"
        BY <1>3, <1>6, <2>7, <3>1, ApiIsNoTask
      <3>3. StopAlone'
        BY <1>2, <2>1, <3>1, <3>2 DEF StopAlone, CalmCore
      <3> QED
        BY <2>3, <3>1, <3>2, <3>3 DEF CalmCore
    <2>8. CASE j # "api" /\ jobs[j].kind = "held"
      <3>1. j \in LanTasks /\ jobs["api"].kind = "stop" /\ jobs["api"].at = "gather"
        BY <2>1, <2>8, ApiIsNoTask DEF CalmCore, StopAlone, NoJob
      <3>2. jobs'["api"] = jobs["api"]
        BY <1>6, <2>8, ApiIsNoTask
      <3>3. jobs'[j] = NoJob \/ jobs'[j].kind = "held"
        BY <1>1, <1>3, <1>6, <2>8, JobOfIs DEF x
      <3>4. \A k \in LanTasks : jobs'[k] = NoJob \/ jobs'[k].kind = "held"
        BY <1>6, <2>1, <3>1, <3>3, ApiIsNoTask DEF CalmCore, StopAlone
      <3>5. StopAlone'
        BY <1>2, <2>1, <3>1, <3>2, <3>4 DEF StopAlone, CalmCore, NoJob
      <3> QED
        BY <1>2, <2>1, <2>3, <3>2, <3>5 DEF CalmCore
    <2>9. j # "api" => jobs[j].kind \in {"pause", "held"}
      <3> SUFFICES ASSUME j # "api" PROVE jobs[j].kind \in {"pause", "held"}
        OBVIOUS
      <3>1. jobs[j] \in TaskJobs
        BY <1>0, ApiIsNoTask DEF LanShape
      <3> QED
        BY <1>0, <3>1, TaskJobIs DEF NoJob
    <2> QED
      BY <2>5, <2>6, <2>7, <2>8, <2>9
  <1> QED
    BY <1>7, <1>8, <1>9, <1>10 DEF LanCore

LEMMA LanPollKeeps ==
  ASSUME LanCore, OffIsOff, LanPoll PROVE LanCore'
  <1>0. /\ LanShape /\ svc \in SvcRecord /\ UdpOwned /\ monitoring /\ netSeen' \in BOOLEAN
        /\ UNCHANGED <<lanRunning, svc, dialled, monitoring, netUp, lanWanted>>
    BY DEF LanCore, LanPoll, LanShape
  <1>1. lanMishaps \subseteq lanMishaps' /\ lanMishaps' \subseteq LanMishapKinds
        /\ (LanCalm' => LanIdle \/ lanMode = "OFFLINE")
    BY <1>0 DEF LanPoll, LanShape, LanMishapKinds, LanCalm
  <1>2. lanMode' \in LanModes
    BY <1>0 DEF LanPoll, LanShape, LanModes
  <1>3. CASE jobs' = jobs
    BY <1>0, <1>1, <1>2, <1>3, StaysPut DEF LanShape, LanDials
  <1>4. ASSUME NEW kind \in {"pause", "resume"}, lanRunning \/ lanMode # "OFFLINE", Spawn(kind)
        PROVE  LanCore'
    <2> DEFINE x == JobOf(kind, "new")
    <2>1. PICK j \in LanTasks : jobs[j] = NoJob /\ jobs' = [jobs EXCEPT ![j] = [kind |-> kind, at |-> "new"]]
      BY <1>4 DEF Spawn
    <2>2. jobs' = [jobs EXCEPT ![j] = x] /\ x \in TaskJobs /\ x.at = "new" /\ x.kind = kind
          /\ j \in LanJobs /\ j # "api"
      BY <1>4, <2>1, JobOfIn, JobOfIs, ApiIsNoTask DEF JobOf
    <2> HIDE DEF x
    <2>3. /\ jobs' \in [LanJobs -> ApiJobs \cup TaskJobs]
          /\ jobs'["api"] \in ApiJobs /\ \A k \in LanTasks : jobs'[k] \in TaskJobs
          /\ jobs'[j] = x /\ \A k \in LanJobs : k # j => jobs'[k] = jobs[k]
      BY <1>0, <2>2, JobMoves
    <2>4. LanShape'
      BY <1>0, <1>1, <1>2, <2>3 DEF LanShape, LanMishapKinds
    <2>5. UdpOwned'
      <3>1. svc'.udp => svc'.discovering \/ (svc.udp /\ ~svc.discovering /\ jobs[j].at # "quit")
        BY <1>0, <2>1 DEF NoJob
      <3> QED
        BY <1>0, <2>2, <3>1, UdpMoves
    <2>6. jobs'["api"] = jobs["api"]
      BY <2>2, <2>3, ApiIsNoTask
    <2>7. StartWanted'
      BY <1>0, <2>6 DEF StartWanted, LanCore
    <2>8. ASSUME LanCalm' PROVE CalmCore'
      <3>1. CalmCore
        BY <1>1, <2>8, CalmBefore DEF LanCore
      <3>2. \A k \in LanJobs : jobs[k] = NoJob
        BY <1>1, <1>4, <2>8 DEF OffIsOff, LanIdle
      <3>3. \A k \in LanJobs : jobs[k].at \notin InsideAts
        BY <3>2 DEF InsideAts, NoJob
      <3>4. SvcAt(svc, "done")
        BY <3>1, <3>3, NobodyInside DEF CalmCore
      <3>5. SvcAt(svc', x.at)
        BY <1>0, <2>2, <3>4 DEF SvcAt
      <3>6. OneInside'
        BY <1>0, <2>2, <3>3, <3>5, InsideMoves
      <3>7. jobs["api"].at # "gather" /\ jobs["api"].kind = "none" /\ \A k \in LanTasks : jobs[k].kind = "none"
        BY <3>2, ApiIsNoTask DEF NoJob
      <3>8. lanWanted
        BY <1>0, <3>1, <3>7 DEF CalmCore, StopAlone
      <3>9. \A k \in LanTasks : jobs'[k].kind # "held"
        BY <1>4, <2>2, <2>3, <3>7, ApiIsNoTask
      <3>10. StopAlone'
        BY <1>0, <2>6, <3>7, <3>8, <3>9 DEF StopAlone
      <3> QED
        BY <2>6, <3>6, <3>7, <3>10 DEF CalmCore
    <2> QED
      BY <2>4, <2>5, <2>7, <2>8 DEF LanCore
  <1>5. CASE lanMode' = "UNAVAILABLE" /\ (lanRunning \/ lanMode # "OFFLINE") /\ Spawn("pause")
    BY <1>4, <1>5
  <1>6. CASE (lanRunning \/ lanMode # "OFFLINE") /\ Spawn("resume")
    BY <1>4, <1>6
  <1> QED
    BY <1>3, <1>5, <1>6 DEF LanPoll

LEMMA OffIsOffKeeps ==
  ASSUME LanCore, OffIsOff, LanNext PROVE OffIsOff'
  <1>0. LanShape
    BY DEF LanCore
  <1>1. CASE LanStartNoNetwork
    BY <1>1 DEF LanStartNoNetwork, OffIsOff
  <1>2. CASE LanStart
    <2>1. lanMode' # "OFFLINE"
      BY <1>2 DEF LanStart
    <2> QED
      BY <2>1 DEF OffIsOff
  <1>3. CASE LanStop
    BY <1>3 DEF LanStop, OffIsOff
  <1>4. CASE LanScan
    BY <1>4 DEF LanScan, OffIsOff
  <1>5. CASE LanDial
    BY <1>5 DEF LanDial, OffIsOff
  <1>6. CASE LanClient
    BY <1>6 DEF LanClient, OffIsOff
  <1>7. CASE LanStopGathered
    <2>1. PICK at : StopCleared(at) /\ lanRunning' = lanRunning
      BY <1>7 DEF LanStopGathered
    <2>2. lanMode' # lanMode => lanMode' # "OFFLINE"
      BY <2>1 DEF StopCleared, RestMode
    <2> QED
      BY <2>1, <2>2 DEF OffIsOff
  <1>8. ASSUME NEW j \in LanJobs, LanBound(j) PROVE OffIsOff'
    BY <1>8 DEF LanBound, OffIsOff
  <1>9. ASSUME NEW j \in LanJobs, LanStopStep(j) PROVE OffIsOff'
    <2>1. lanRunning' = lanRunning
      BY <1>9 DEF LanStopStep
    <2> QED
      BY <1>0, <1>9, <2>1, LanStopStepSides DEF OffIsOff
  <1>10. ASSUME NEW j \in LanTasks, LanPauseBegins(j) PROVE OffIsOff'
    BY <1>10 DEF LanPauseBegins, OffIsOff
  <1>11. ASSUME NEW j \in LanTasks, LanResumeBegins(j) PROVE OffIsOff'
    BY <1>11 DEF LanResumeBegins, OffIsOff
  <1>12. CASE LanPoll
    BY <1>12 DEF LanPoll, OffIsOff
  <1>13. CASE NetFlip
    BY <1>13 DEF NetFlip, OffIsOff
  <1>14. CASE LanDialDone
    BY <1>14 DEF LanDialDone, OffIsOff
  <1>15. CASE LanDialGone
    BY <1>15 DEF LanDialGone, OffIsOff, RestMode
  <1>16. CASE LanClientGone
    BY <1>16 DEF LanClientGone, OffIsOff, RestMode
  <1>17. ASSUME NEW j \in LanJobs, LanBindFails(j) PROVE OffIsOff'
    <2>1. lanMode' \in {"ERROR", lanMode} /\ (lanRunning' => lanRunning)
      BY <1>17 DEF LanBindFails
    <2> QED
      BY <2>1 DEF OffIsOff
  <1> QED
    BY <1>1, <1>2, <1>3, <1>4, <1>5, <1>6, <1>7, <1>8, <1>9, <1>10, <1>11, <1>12, <1>13, <1>14,
       <1>15, <1>16, <1>17 DEF LanNext, LanAsked, LanSteps, LanCounted, LanUncounted

LEMMA LanCoreKeeps ==
  ASSUME LanCore, OffIsOff, LanNext PROVE LanCore'
  BY LanStartNoNetworkKeeps, LanStartKeeps, LanStopKeeps, LanScanKeeps, LanDialKeeps,
     LanClientKeeps, LanStopGatheredKeeps, LanBoundKeeps, LanStopStepKeeps, LanPauseBeginsKeeps,
     LanResumeBeginsKeeps, LanPollKeeps, NetFlipKeeps, LanDialDoneKeeps, LanDialGoneKeeps,
     LanClientGoneKeeps, LanBindFailsKeeps
  DEF LanNext, LanAsked, LanSteps, LanCounted, LanUncounted

LEMMA LanCountsKeep ==
  ASSUME LanCounts, LanNext PROVE LanCounts'
  <1>1. {LanMaxFlips, LanMaxOps} \subseteq Nat
    BY LanAssumption
  <1>2. ASSUME lanOps < LanMaxOps, lanOps' = lanOps + 1, UNCHANGED lanFlips PROVE LanCounts'
    BY <1>1, <1>2 DEF LanCounts
  <1>3. ASSUME lanFlips < LanMaxFlips, lanFlips' = lanFlips + 1, UNCHANGED lanOps PROVE LanCounts'
    BY <1>1, <1>3 DEF LanCounts
  <1>4. CASE UNCHANGED <<lanFlips, lanOps>>
    BY <1>4 DEF LanCounts
  <1>5. \/ lanOps < LanMaxOps /\ lanOps' = lanOps + 1 /\ UNCHANGED lanFlips
        \/ lanFlips < LanMaxFlips /\ lanFlips' = lanFlips + 1 /\ UNCHANGED lanOps
        \/ UNCHANGED <<lanFlips, lanOps>>
    BY DEF LanNext, LanAsked, LanSteps, LanCounted, LanUncounted, LanPoll, NetFlip, LanDialDone,
           LanDialGone, LanClientGone
  <1> QED
    BY <1>2, <1>3, <1>4, <1>5

LEMMA LanInitially == LanInit => LanIInv
  <1> SUFFICES ASSUME LanInit PROVE LanIInv
    OBVIOUS
  <1>1. 0 \in 0..LanMaxFlips /\ 0 \in 0..LanMaxOps /\ 0 \in 0..LanMaxSockets
    BY LanAssumption
  <1>2. jobs \in [LanJobs -> ApiJobs \cup TaskJobs] /\ \A j \in LanJobs : jobs[j] = NoJob
    BY JobOfIn DEF LanInit
  <1>3. svc \in SvcRecord /\ SvcAt(svc, "done") /\ ~svc.udp
    BY <1>1 DEF LanInit, SvcRecord, SvcAt
  <1>4. LanShape
    <2>1. jobs["api"] \in ApiJobs /\ \A j \in LanTasks : jobs[j] \in TaskJobs
      BY <1>2, ApiIsNoTask, JobOfIn
    <2> QED
      BY <1>2, <1>3, <2>1 DEF LanInit, LanShape, LanModes
  <1>5. jobs["api"] = NoJob /\ \A j \in LanTasks : jobs[j] = NoJob
    BY <1>2, ApiIsNoTask
  <1>6. UdpOwned /\ StartWanted /\ OffIsOff
    BY <1>3, <1>5 DEF UdpOwned, StartWanted, OffIsOff, NoJob, LanInit
  <1>7. OneInside
    BY <1>2, <1>3 DEF OneInside, InsideAts, NoJob
  <1>8. StopAlone
    BY <1>5 DEF StopAlone, NoJob, LanInit
  <1> QED
    BY <1>1, <1>4, <1>5, <1>6, <1>7, <1>8 DEF LanIInv, LanCore, CalmCore, LanCounts, LanInit, NoJob

LEMMA LanInductive == LanIInv /\ [LanNext]_lanVars => LanIInv'
  <1>1. ASSUME LanIInv, LanNext PROVE LanIInv'
    BY <1>1, LanCoreKeeps, OffIsOffKeeps, LanCountsKeep DEF LanIInv
  <1>2. ASSUME LanIInv, UNCHANGED lanVars PROVE LanIInv'
    BY <1>2
    DEF LanIInv, LanCore, LanShape, UdpOwned, StartWanted, LanCalm, CalmCore, OneInside, StopAlone,
                OffIsOff, LanCounts, lanVars
  <1> QED
    BY <1>1, <1>2

LEMMA LanIInvIsSafe == LanIInv => LanSafe
  <1> SUFFICES ASSUME LanIInv PROVE LanSafe
    OBVIOUS
  <1>0. LanCore /\ LanShape /\ LanCounts /\ UdpOwned
    BY DEF LanIInv, LanCore
  <1>1. jobs \in [LanJobs -> [kind : {"none", "start", "release", "stop", "pause", "resume", "held"},
                              at : {"done", "new", "bind", "quit", "drain", "close", "gather"}]]
    <2>1. \A x \in ApiJobs \cup TaskJobs :
            x \in [kind : {"none", "start", "release", "stop", "pause", "resume", "held"},
                   at : {"done", "new", "bind", "quit", "drain", "close", "gather"}]
      BY DEF ApiJobs, TaskJobs, JobsOf, NoJob
    <2> QED
      BY <1>0, <2>1 DEF LanShape
  <1>2. LanTypeOK
    BY <1>0, <1>1 DEF LanTypeOK, LanShape, LanCounts, UdpOwned, SvcRecord
  <1>3. ASSUME LanIdle, lanMishaps \cap {"cut", "overlap", "late"} = {}
        PROVE  CalmCore /\ jobs["api"] = NoJob /\ SvcAt(svc, "done")
    <2>1. LanCalm
      BY <1>3 DEF LanCalm
    <2>2. \A j \in LanJobs : jobs[j] = NoJob /\ jobs[j].at \notin InsideAts
      BY <1>3 DEF LanIdle, NoJob, InsideAts
    <2>3. CalmCore
      BY <1>0, <2>1 DEF LanCore
    <2> QED
      BY <2>2, <2>3, NobodyInside, ApiIsNoTask DEF CalmCore
  <1>4. LanReleased
    <2> SUFFICES ASSUME LanIdle, ~lanWanted, lanMishaps \cap {"cut", "overlap", "late"} = {}
                 PROVE  svc.open = {} /\ ~svc.udp /\ ~monitoring /\ ~lanRunning
      BY DEF LanReleased
    <2>1. /\ ~lanRunning /\ ~monitoring /\ ~svc.listening /\ ~svc.discovering
      BY <1>3 DEF CalmCore, StopAlone, NoJob
    <2> QED
      BY <1>3, <2>1 DEF SvcAt
  <1>5. LanServing
    <2> SUFFICES ASSUME LanIdle, lanMishaps \cap {"cut", "overlap", "late"} = {}
                 PROVE  /\ svc.open = IF svc.listening THEN {svc.server} ELSE {}
                        /\ svc.discovering <=> svc.udp
      BY DEF LanServing
    <2> QED
      BY <1>3 DEF SvcAt
  <1> QED
    BY <1>2, <1>4, <1>5 DEF LanSafe

\* LanSafety: for every number of tasks, sockets, flips and calls, nothing listens
\* after a stop and no socket is without an owner, as LanSafe says.
THEOREM LanSafety == LanSpec => []LanSafe
  BY LanInitially, LanInductive, LanIInvIsSafe, PTL DEF LanSpec

LEMMA FailedStartStep ==
  ASSUME LanIInv, LanNext, jobs["api"].kind \in {"start", "release"}, jobs'["api"] = NoJob,
         lanMode' = "ERROR", lanMishaps \cap {"cut", "overlap", "late"} = {}
  PROVE  svc'.open = {} /\ ~svc'.udp /\ ~lanRunning'
  <1>0. LanCore /\ LanShape /\ CalmCore /\ svc \in SvcRecord /\ jobs["api"] # NoJob
    BY DEF LanIInv, LanCore, LanCalm, LanShape, NoJob
  <1>1. ASSUME NEW j \in LanJobs, LanBound(j) PROVE FALSE
    BY <1>1 DEF LanBound
  <1>2. ASSUME NEW j \in LanJobs, LanBindFails(j) PROVE svc'.open = {} /\ ~svc'.udp /\ ~lanRunning'
    <2>1. jobs[j].at = "bind"
      BY <1>2 DEF LanBindFails
    <2>2. PICK s \in {svc} \cup (IF svc.made < LanMaxSockets /\ ~svc.discovering THEN {ServerUp(svc)} ELSE {}) :
            svc' = Released(j, s)[1] /\ jobs' = JobAt(j, "release", Released(j, s)[2])
      BY <1>2 DEF LanBindFails
    <2>3. jobs' = [jobs EXCEPT ![j] = JobOf("release", Released(j, s)[2])]
      BY <1>0, <2>2, JobAtMoves
    <2>4. j = "api"
      BY <1>0, <2>3, ApiIsNoTask DEF LanShape
    <2>5. jobs[j].kind = "start"
      BY <1>0, <2>1, <2>4, ApiJobIs DEF LanShape
    <2> DEFINE r == ServicesStop(s)
    <2>6. Released(j, s) = r
      BY <2>5 DEF Released
    <2>7. jobs'["api"] = JobOf("release", r[2])
      BY <1>0, <2>3, <2>4, <2>6, ApiIsNoTask DEF LanShape
    <2>8. r[2] = "done"
      BY <2>7, JobOfIs
    <2>9. SvcAt(svc, "bind")
      BY <1>0, <2>1, AloneInside DEF CalmCore, InsideAts
    <2>10. s \in SvcRecord /\ SvcAt(s, "done")
      <3>1. CASE s = svc
        BY <1>0, <2>9, <3>1 DEF SvcAt
      <3>2. CASE svc.made < LanMaxSockets /\ s = ServerUp(svc)
        BY <1>0, <2>9, <3>2, ServerUpDoes
      <3> QED
        BY <2>2, <3>1, <3>2
    <2>11. ~r[1].listening /\ ~r[1].discovering /\ SvcAt(r[1], "done")
      BY <2>8, <2>10, ServicesStopDoes
    <2>12. ~lanRunning'
      BY <1>2, <2>5 DEF LanBindFails
    <2> QED
      BY <2>2, <2>6, <2>11, <2>12 DEF SvcAt
  <1>3. ASSUME NEW j \in LanJobs, LanStopStep(j) PROVE svc'.open = {} /\ ~svc'.udp /\ ~lanRunning'
    <2> DEFINE r == StopGoesOn(svc, jobs[j].at)
    <2>1. jobs[j].at \in {"quit", "drain", "close"} /\ svc' = r[1] /\ lanRunning' = lanRunning
          /\ jobs' = JobAt(j, jobs[j].kind, r[2])
      BY <1>3 DEF LanStopStep
    <2>2. jobs' = [jobs EXCEPT ![j] = JobOf(jobs[j].kind, r[2])]
      BY <1>0, <2>1, JobAtMoves
    <2>3. j = "api"
      BY <1>0, <2>2, ApiIsNoTask DEF LanShape
    <2>4. jobs'["api"] = JobOf(jobs[j].kind, r[2])
      BY <1>0, <2>2, <2>3, ApiIsNoTask DEF LanShape
    <2>5. r[2] = "done"
      BY <2>4, JobOfIs
    <2>6. SvcAt(svc, jobs[j].at)
      BY <1>0, <2>1, AloneInside DEF CalmCore, InsideAts
    <2>7. ~r[1].listening /\ ~r[1].discovering /\ SvcAt(r[1], "done")
      BY <1>0, <2>1, <2>5, <2>6, StopGoesOnDoes
    <2>8. jobs["api"].kind = "release"
      BY <1>0, <2>1, <2>3, ApiJobIs DEF LanShape
    <2>9. ~lanRunning
      BY <1>0, <2>8 DEF CalmCore, StopAlone
    <2> QED
      BY <2>1, <2>7, <2>9 DEF SvcAt
  <1>4. CASE LanStop \/ LanStart \/ LanStartNoNetwork
    BY <1>0, <1>4 DEF LanStop, LanStart, LanStartNoNetwork, LockFree
  <1>5. CASE LanStopGathered
    <2>1. jobs["api"].kind = "stop"
      BY <1>0, <1>5, ApiJobIs DEF LanStopGathered, LanShape
    <2> QED
      BY <2>1
  <1>6. ASSUME NEW j \in LanTasks, LanPauseBegins(j) \/ LanResumeBegins(j) PROVE FALSE
    <2>1. j \in LanJobs /\ j # "api"
      BY ApiIsNoTask
    <2>2. jobs'["api"] = jobs["api"]
      BY <1>0, <1>6, <2>1, ApiIsNoTask DEF LanPauseBegins, LanResumeBegins, JobAt, LanShape
    <2> QED
      BY <1>0, <2>2
  <1>7. CASE LanPoll
    <2>1. \A j \in LanTasks : j # "api"
      BY ApiIsNoTask
    <2>2. jobs'["api"] = jobs["api"]
      BY <1>0, <1>7, <2>1, ApiIsNoTask DEF LanPoll, Spawn, LanShape
    <2> QED
      BY <1>0, <2>2
  <1>8. CASE UNCHANGED jobs
    BY <1>0, <1>8
  <1>9. LanScan \/ LanDial \/ LanClient \/ NetFlip \/ LanDialDone \/ LanDialGone \/ LanClientGone => UNCHANGED jobs
    BY DEF LanScan, LanDial, LanClient, NetFlip, LanDialDone, LanDialGone, LanClientGone
  <1> QED
    BY <1>1, <1>2, <1>3, <1>4, <1>5, <1>6, <1>7, <1>8, <1>9
    DEF LanNext, LanAsked, LanSteps, LanCounted, LanUncounted

\* LanReleases: a start that fails on the way has released what it brought up, the
\* half of LanSettles that does not depend on fairness.
THEOREM LanReleases == LanSpec => LanFailedStart
  <1> DEFINE ReleasesAll ==
        /\ jobs["api"].kind \in {"start", "release"} /\ jobs'["api"] = NoJob /\ lanMode' = "ERROR"
        /\ lanMishaps \cap {"cut", "overlap", "late"} = {}
        => svc'.open = {} /\ ~svc'.udp /\ ~lanRunning'
  <1>1. LanIInv /\ [LanNext]_lanVars => [ReleasesAll]_lanVars
    BY FailedStartStep
  <1> HIDE DEF ReleasesAll
  <1>2. LanInit /\ [][LanNext]_lanVars => [][ReleasesAll]_lanVars
    BY <1>1, LanInitially, LanInductive, PTL
  <1> QED
    BY <1>2 DEF LanSpec, LanFailedStart, ReleasesAll

-----------------------------------------------------------------------------
(***************************************************************************)
(* Discovery.  The limiter's lists remember what was let through, as       *)
(* Picking_proofs says of limiters; what listeners were told goes with the *)
(* registry's one record per peer.                                         *)
(***************************************************************************)

Times == 0..DiscMaxTime

LimiterShape(lim) ==
  lim \in [DiscIps -> Seq(Times)] /\ \A ip \in DiscIps : Len(lim[ip]) <= DiscRate
LimiterFits(lim, ip) ==
  /\ Ascending(letThrough[ip], discNow)
  /\ Remembers(lim[ip], letThrough[ip], discNow, DiscWindow)
  /\ Spaced(letThrough[ip], DiscRate, DiscWindow)

RegistryShape ==
  /\ discNow \in Times /\ localId \in DiscIds /\ formerIds \subseteq DiscIds /\ registry \subseteq Known
RegistrySafe == OneRecordPerPeer /\ NeverSelf /\ ListenersCurrent
IpsSafe ==
  /\ LimiterShape(ipLimiter) /\ letThrough \in [DiscIps -> Seq(Times)]
  /\ \A ip \in DiscIps : LimiterFits(ipLimiter, ip)
DiscIInv == RegistryShape /\ RegistrySafe /\ IpsSafe

LEMMA TimesAreInts ==
  ASSUME NEW s \in Seq(Times)
  PROVE  s \in Seq(Int)
  <1>1. \A x \in Times : x \in Int
    BY DEF Times
  <1> QED
    BY <1>1

LEMMA DiscConstants ==
  /\ DiscRate \in Nat \ {0} /\ DiscWindow \in Nat /\ DiscMaxTime \in Nat /\ Times \subseteq Int
  BY DiscAssumption DEF Times

\* prune_rate_limiter.
LEMMA PrunedIpsFit ==
  ASSUME RegistryShape, IpsSafe
  PROVE  LimiterShape(PrunedIps) /\ \A ip \in DiscIps : LimiterFits(PrunedIps, ip)
  <1> DEFINE P == PrunedIps
  <1>1. P = [ip \in DiscIps |-> IF ipLimiter[ip] # <<>> /\ discNow - Last(ipLimiter[ip]) > DiscWindow
                                THEN <<>> ELSE ipLimiter[ip]]
    BY DEF PrunedIps
  <1>2. \A ip \in DiscIps : ipLimiter[ip] \in Seq(Times) /\ Len(ipLimiter[ip]) <= DiscRate
    BY DEF IpsSafe, LimiterShape
  <1>3. <<>> \in Seq(Times) /\ Len(<<>>) = 0
    OBVIOUS
  <1>4. \A ip \in DiscIps : P[ip] \in {<<>>, ipLimiter[ip]}
    BY <1>1
  <1> HIDE DEF P
  <1>5. P \in [DiscIps -> Seq(Times)]
    BY <1>1, <1>2, <1>3
  <1>6. \A ip \in DiscIps : Len(P[ip]) <= DiscRate
    BY <1>2, <1>3, <1>4, DiscConstants
  <1>7. ASSUME NEW ip \in DiscIps PROVE LimiterFits(P, ip)
    <2>0. LimiterFits(ipLimiter, ip)
      BY DEF IpsSafe
    <2>1. CASE ipLimiter[ip] # <<>> /\ discNow - Last(ipLimiter[ip]) > DiscWindow
      <3>1. ipLimiter[ip] \in Seq(Int) /\ letThrough[ip] \in Seq(Int) /\ discNow \in Int /\ DiscWindow \in Int
        BY <1>2, TimesAreInts, DiscConstants DEF IpsSafe, RegistryShape
      <3>2. P[ip] = <<>> /\ discNow - ipLimiter[ip][Len(ipLimiter[ip])] > DiscWindow
        BY <1>1, <2>1 DEF Last
      <3>3. Remembers(<<>>, letThrough[ip], discNow, DiscWindow)
        BY <2>0, <2>1, <3>1, <3>2, RemembersNothing DEF LimiterFits
      <3> QED
        BY <2>0, <3>2, <3>3 DEF LimiterFits
    <2>2. CASE ~(ipLimiter[ip] # <<>> /\ discNow - Last(ipLimiter[ip]) > DiscWindow)
      <3>1. P[ip] = ipLimiter[ip]
        BY <1>1, <2>2
      <3> QED
        BY <2>0, <3>1 DEF LimiterFits
    <2> QED
      BY <2>1, <2>2
  <1> QED
    BY <1>5, <1>6, <1>7 DEF LimiterShape, P

LEMMA TrackedFits ==
  ASSUME RegistryShape, IpsSafe
  PROVE  LimiterShape(Tracked) /\ \A ip \in DiscIps : LimiterFits(Tracked, ip)
  <1>1. Tracked \in {PrunedIps, ipLimiter}
    BY DEF Tracked
  <1>2. CASE Tracked = PrunedIps
    BY <1>2, PrunedIpsFit
  <1>3. CASE Tracked = ipLimiter
    BY <1>3 DEF IpsSafe
  <1> QED
    BY <1>1, <1>2, <1>3

\* _is_rate_limited.
LEMMA ChargeIpKeeps ==
  ASSUME RegistryShape, IpsSafe, NEW ip \in DiscIps, ChargeIp(ip), discNow' = discNow
  PROVE  IpsSafe'
  <1> DEFINE T == Tracked
             R == RecentFrom(ip)
             A == letThrough[ip]
  <1>1. /\ T \in [DiscIps -> Seq(Times)] /\ (\A k \in DiscIps : Len(T[k]) <= DiscRate)
        /\ \A k \in DiscIps : LimiterFits(T, k)
    BY TrackedFits DEF LimiterShape
  <1>2. R = Picked(T[ip], {i \in DOMAIN T[ip] : discNow - T[ip][i] <= DiscWindow})
    BY DEF RecentFrom
  <1>3. IpRateLimited(ip) <=> Len(R) >= DiscRate
    BY DEF IpRateLimited
  <1>4. /\ ipLimiter' = [T EXCEPT ![ip] = IF IpRateLimited(ip) THEN R ELSE Append(R, discNow)]
        /\ letThrough' = IF IpRateLimited(ip) THEN letThrough
                         ELSE [letThrough EXCEPT ![ip] = Append(A, discNow)]
    BY DEF ChargeIp
  <1>5. A \in Seq(Times) /\ letThrough \in [DiscIps -> Seq(Times)] /\ discNow \in Times
    BY DEF IpsSafe, RegistryShape
  <1> HIDE DEF T, R, A
  <1>6. T[ip] \in Seq(Times) /\ T[ip] \in Seq(Int) /\ A \in Seq(Int) /\ discNow \in Int /\ DiscWindow \in Int
    BY <1>1, <1>5, TimesAreInts, DiscConstants
  <1>7. R \in Seq(Times) /\ Len(R) \in Nat /\ Len(R) <= Len(T[ip])
    BY <1>2, <1>6, PickedIs
  <1>8. Ascending(A, discNow) /\ Spaced(A, DiscRate, DiscWindow) /\ Remembers(T[ip], A, discNow, DiscWindow)
    BY <1>1 DEF LimiterFits, A
  <1>9. R \in Seq(Int) /\ Remembers(R, A, discNow, DiscWindow)
    BY <1>2, <1>6, <1>8, RemembersRecent
  <1>10. \A k \in DiscIps : k # ip => LimiterFits(T, k)
    BY <1>1
  <1>11. CASE IpRateLimited(ip)
    <2>1. ipLimiter' = [T EXCEPT ![ip] = R] /\ letThrough' = letThrough
      BY <1>4, <1>11
    <2>2. Len(R) <= DiscRate
      BY <1>1, <1>6, <1>7, DiscConstants
    <2>3. LimiterShape(ipLimiter)'
      BY <1>1, <1>7, <2>1, <2>2 DEF LimiterShape, Times
    <2>4. \A k \in DiscIps : LimiterFits(ipLimiter, k)'
      BY <1>1, <1>8, <1>9, <2>1 DEF LimiterFits, A
    <2> QED
      BY <1>5, <2>1, <2>3, <2>4 DEF IpsSafe, Times
  <1>12. CASE ~IpRateLimited(ip)
    <2> DEFINE B == Append(A, discNow)
               Q == Append(R, discNow)
    <2>1. ipLimiter' = [T EXCEPT ![ip] = Q] /\ letThrough' = [letThrough EXCEPT ![ip] = B]
      BY <1>4, <1>12
    <2>2. Len(R) < DiscRate
      BY <1>3, <1>7, <1>12, DiscConstants
    <2>3. Q \in Seq(Times) /\ Len(Q) <= DiscRate /\ B \in Seq(Times)
      BY <1>5, <1>7, <2>2, DiscConstants
    <2>4. Ascending(B, discNow) /\ Remembers(Q, B, discNow, DiscWindow) /\ Spaced(B, DiscRate, DiscWindow)
      BY <1>6, <1>8, <1>9, <2>2, LetThrough, DiscConstants
    <2> HIDE DEF B, Q
    <2>5. letThrough'[ip] = B /\ ipLimiter'[ip] = Q
          /\ \A k \in DiscIps : k # ip => letThrough'[k] = letThrough[k] /\ ipLimiter'[k] = T[k]
      BY <1>1, <1>5, <2>1
    <2>6. ipLimiter' \in [DiscIps -> Seq(Times)] /\ letThrough' \in [DiscIps -> Seq(Times)]
      BY <1>1, <1>5, <2>1, <2>3
    <2>7. LimiterShape(ipLimiter)'
      BY <1>1, <2>3, <2>5, <2>6 DEF LimiterShape, Times
    <2>8. ASSUME NEW k \in DiscIps PROVE LimiterFits(ipLimiter, k)'
      <3>1. CASE k = ip
        BY <2>4, <2>5, <3>1 DEF LimiterFits
      <3>2. CASE k # ip
        BY <1>10, <2>5, <3>2 DEF LimiterFits
      <3> QED
        BY <3>1, <3>2
    <2> QED
      BY <2>6, <2>7, <2>8 DEF IpsSafe, Times
  <1> QED
    BY <1>11, <1>12

\* Each way of taking a beacon keeps one record per peer and endpoint.
LEMMA NewRegistryFits ==
  ASSUME RegistryShape, RegistrySafe, NEW b, b.ip \in DiscIps, b.port \in DiscPorts, b.peer \in DiscPeers,
         b.meta \in DiscMetas, ~OwnBeacon(b), NEW new, new = NewRegistry(b)
  PROVE  /\ new \subseteq Known
         /\ \A r, s \in new : (r.peer = s.peer \/ r.addr = s.addr) => r = s
         /\ \A r \in new : r.peer # localId /\ r.peer \notin formerIds
  <1> DEFINE rec == RecordOf(b)
             here == <<b.ip, b.port>>
             Fits(n) == /\ n \subseteq Known
                        /\ \A r, s \in n : (r.peer = s.peer \/ r.addr = s.addr) => r = s
                        /\ \A r \in n : r.peer # localId /\ r.peer \notin formerIds
  <1>1. here \in Endpoint
    BY DEF Endpoint
  <1>2. rec \in Known /\ rec.addr = here /\ rec.peer = b.peer
    BY <1>1 DEF RecordOf, Known, RegistryShape, Times
  <1>3. b.peer # localId /\ b.peer \notin formerIds
    BY DEF OwnBeacon
  <1>4. /\ registry \subseteq Known
        /\ \A r, s \in registry : (r.peer = s.peer \/ r.addr = s.addr) => r = s
        /\ \A r \in registry : r.peer # localId /\ r.peer \notin formerIds
    BY DEF RegistryShape, RegistrySafe, OneRecordPerPeer, NeverSelf
  <1> HIDE DEF rec, here
  <1>5. /\ \A r \in registry : r \in Elsewhere(b) <=> r.peer = b.peer /\ r.addr # here
        /\ \A r \in registry : r \in AtEndpoint(b) <=> r.addr = here
        /\ Elsewhere(b) \subseteq registry /\ AtEndpoint(b) \subseteq registry
    BY DEF Elsewhere, AtEndpoint, here
  <1>6. Fits(Rekeyed(b))
    <2>1. Rekeyed(b) = (registry \ (Elsewhere(b) \cup AtEndpoint(b))) \cup {rec}
      BY DEF Rekeyed, rec
    <2> QED
      BY <1>2, <1>3, <1>4, <1>5, <2>1
  <1>7. Elsewhere(b) = {} => Fits(Replaced(b))
    <2>1. Replaced(b) = (registry \ AtEndpoint(b)) \cup {rec}
      BY DEF Replaced, rec
    <2> QED
      BY <1>2, <1>3, <1>4, <1>5, <2>1
  <1>8. ASSUME NEW prior \in Elsewhere(b) PROVE Fits(Refreshed(b, prior))
    <2> DEFINE p == [prior EXCEPT !.seen = discNow, !.meta = b.meta]
    <2>1. prior \in registry /\ prior \in Known /\ prior.peer = b.peer
      BY <1>4, <1>5
    <2>2. p \in Known /\ p.peer = prior.peer /\ p.addr = prior.addr
      BY <2>1 DEF Known, RegistryShape, Times
    <2>3. Refreshed(b, prior) = (registry \ {prior}) \cup {p}
      BY DEF Refreshed
    <2> HIDE DEF p
    <2> QED
      BY <1>3, <1>4, <2>1, <2>2, <2>3
  <1>9. CASE Elsewhere(b) = {}
    BY <1>7, <1>9 DEF NewRegistry
  <1>10. CASE Elsewhere(b) # {}
    <2> DEFINE prior == CHOOSE r \in Elsewhere(b) : TRUE
    <2>1. prior \in Elsewhere(b)
      BY <1>10
    <2>2. new \in {Rekeyed(b), Refreshed(b, prior)}
      BY <1>10 DEF NewRegistry
    <2> HIDE DEF prior
    <2> QED
      BY <1>6, <1>8, <2>1, <2>2
  <1> QED
    BY <1>9, <1>10

\* Listeners are told of what the registry then holds, and it only.
LEMMA ReportFits ==
  ASSUME ListenersCurrent, NEW b, NEW new, Report(b, new),
         \A r, s \in new : r.peer = s.peer => r = s
  PROVE  \A r \in new : Identity(r) \in told'
  <1> DEFINE fresh == {Identity(r) : r \in new} \ {Identity(r) : r \in registry}
  <1>1. told' = {t \in told : \A f \in fresh : f.peer # t.peer} \cup fresh
    BY DEF Report
  <1>2. \A r : Identity(r).peer = r.peer
    BY DEF Identity
  <1> SUFFICES ASSUME NEW r \in new PROVE Identity(r) \in told'
    OBVIOUS
  <1>3. CASE Identity(r) \in fresh
    BY <1>1, <1>3
  <1>4. CASE Identity(r) \notin fresh
    <2>1. PICK q \in registry : Identity(r) = Identity(q)
      BY <1>4
    <2>2. Identity(r) \in told
      BY <2>1 DEF ListenersCurrent
    <2>3. ASSUME NEW f \in fresh PROVE f.peer # Identity(r).peer
      <3>1. PICK s \in new : f = Identity(s)
        OBVIOUS
      <3> QED
        BY <1>2, <1>4, <3>1
    <2> HIDE DEF fresh
    <2> QED
      BY <1>1, <2>2, <2>3
  <1> QED
    BY <1>3, <1>4

LEMMA BeaconKeeps ==
  ASSUME DiscIInv, NEW b, b.ip \in DiscIps, b.port \in DiscPorts, b.peer \in DiscPeers, b.meta \in DiscMetas,
         Beacon(b)
  PROVE  DiscIInv'
  <1>1. IpsSafe'
    BY ChargeIpKeeps DEF DiscIInv, Beacon
  <1>2. CASE UNCHANGED <<registry, told>>
    <2>1. RegistryShape' /\ RegistrySafe'
      BY <1>2 DEF DiscIInv, Beacon, RegistryShape, RegistrySafe, OneRecordPerPeer, NeverSelf, ListenersCurrent
    <2> QED
      BY <1>1, <2>1 DEF DiscIInv
  <1>3. CASE ~OwnBeacon(b) /\ registry' = NewRegistry(b) /\ Report(b, NewRegistry(b))
    <2> DEFINE new == NewRegistry(b)
    <2>1. /\ new \subseteq Known
          /\ \A r, s \in new : (r.peer = s.peer \/ r.addr = s.addr) => r = s
          /\ \A r \in new : r.peer # localId /\ r.peer \notin formerIds
      BY <1>3, NewRegistryFits DEF DiscIInv
    <2> HIDE DEF new
    <2>2. \A r \in new : Identity(r) \in told'
      BY <1>3, <2>1, ReportFits DEF DiscIInv, RegistrySafe, new
    <2>3. registry' = new /\ UNCHANGED <<discNow, localId, formerIds>>
      BY <1>3 DEF new, Beacon
    <2>4. RegistryShape'
      BY <2>1, <2>3 DEF RegistryShape, DiscIInv
    <2>5. RegistrySafe'
      BY <2>1, <2>2, <2>3 DEF RegistrySafe, OneRecordPerPeer, NeverSelf, ListenersCurrent
    <2> QED
      BY <1>1, <2>4, <2>5 DEF DiscIInv
  <1> QED
    BY <1>2, <1>3 DEF Beacon

LEMMA DiscInitially == DiscInit => DiscIInv
  <1> SUFFICES ASSUME DiscInit PROVE DiscIInv
    OBVIOUS
  <1>1. RegistryShape
    BY DiscAssumption DEF DiscInit, RegistryShape, Times
  <1>2. RegistrySafe
    BY DEF DiscInit, RegistrySafe, OneRecordPerPeer, NeverSelf, ListenersCurrent
  <1>3. <<>> \in Seq(Times) /\ Len(<<>>) = 0 /\ DOMAIN <<>> = {}
    OBVIOUS
  <1>4. \A ip \in DiscIps : ipLimiter[ip] = <<>> /\ letThrough[ip] = <<>>
    BY DEF DiscInit
  <1>5. LimiterShape(ipLimiter) /\ letThrough \in [DiscIps -> Seq(Times)]
    BY <1>3, <1>4, DiscConstants DEF DiscInit, LimiterShape
  <1>6. Ascending(<<>>, discNow) /\ Spaced(<<>>, DiscRate, DiscWindow)
    BY <1>3 DEF Ascending, Spaced
  <1>7. Remembers(<<>>, <<>>, discNow, DiscWindow)
    <2>1. 1..0 = {} /\ 1..(0 - 0) = {}
      OBVIOUS
    <2> QED
      BY <1>3, <2>1 DEF Remembers
  <1> QED
    BY <1>1, <1>2, <1>4, <1>5, <1>6, <1>7 DEF DiscIInv, IpsSafe, LimiterFits

LEMMA DiscInductive == DiscIInv /\ [DiscNext]_discVars => DiscIInv'
  <1>1. ASSUME DiscIInv,
               NEW ip \in DiscIps, NEW port \in DiscPorts, NEW p \in DiscPeers, NEW m \in DiscMetas, NEW own \in BOOLEAN,
               Beacon([ip |-> ip, port |-> port, peer |-> p, meta |-> m, own |-> own])
        PROVE  DiscIInv'
    <2> DEFINE b == [ip |-> ip, port |-> port, peer |-> p, meta |-> m, own |-> own]
    <2>1. b.ip \in DiscIps /\ b.port \in DiscPorts /\ b.peer \in DiscPeers /\ b.meta \in DiscMetas
      OBVIOUS
    <2>2. Beacon(b)
      BY <1>1
    <2> HIDE DEF b
    <2> QED
      BY <1>1, <2>1, <2>2, BeaconKeeps
  <1>2. ASSUME DiscIInv, NEW ip \in DiscIps, Malformed(ip) PROVE DiscIInv'
    <2>1. IpsSafe'
      BY <1>2, ChargeIpKeeps DEF DiscIInv, Malformed
    <2>2. RegistryShape' /\ RegistrySafe'
      BY <1>2 DEF DiscIInv, Malformed, RegistryShape, RegistrySafe, OneRecordPerPeer, NeverSelf, ListenersCurrent
    <2> QED
      BY <2>1, <2>2 DEF DiscIInv
  <1>3. ASSUME DiscIInv, PruneStale PROVE DiscIInv'
    <2>1. RegistryShape' /\ RegistrySafe'
      BY <1>3 DEF DiscIInv, PruneStale, RegistryShape, RegistrySafe, OneRecordPerPeer, NeverSelf, ListenersCurrent
    <2>2. ipLimiter' = PrunedIps /\ UNCHANGED <<discNow, letThrough>>
      BY <1>3 DEF PruneStale
    <2>3. LimiterShape(PrunedIps) /\ \A ip \in DiscIps : LimiterFits(PrunedIps, ip)
      BY <1>3, PrunedIpsFit DEF DiscIInv
    <2>4. IpsSafe'
      BY <1>3, <2>2, <2>3 DEF DiscIInv, IpsSafe, LimiterShape, LimiterFits, Times
    <2> QED
      BY <2>1, <2>4 DEF DiscIInv
  <1>4. ASSUME DiscIInv, NEW id \in DiscIds, UpdateIdentity(id) PROVE DiscIInv'
    <2>1. RegistryShape'
      BY <1>4 DEF DiscIInv, UpdateIdentity, RegistryShape
    <2>2. RegistrySafe'
      BY <1>4 DEF DiscIInv, UpdateIdentity, RegistrySafe, OneRecordPerPeer, NeverSelf, ListenersCurrent
    <2>3. IpsSafe'
      BY <1>4 DEF DiscIInv, UpdateIdentity, IpsSafe, LimiterShape, LimiterFits
    <2> QED
      BY <2>1, <2>2, <2>3 DEF DiscIInv
  <1>5. ASSUME DiscIInv, ClearRegistry PROVE DiscIInv'
    <2>1. RegistryShape' /\ RegistrySafe'
      BY <1>5 DEF DiscIInv, ClearRegistry, RegistryShape, RegistrySafe, OneRecordPerPeer, NeverSelf, ListenersCurrent
    <2>2. IpsSafe'
      BY <1>5 DEF DiscIInv, ClearRegistry, IpsSafe, LimiterShape, LimiterFits
    <2> QED
      BY <2>1, <2>2 DEF DiscIInv
  <1>6. ASSUME DiscIInv, DiscTick PROVE DiscIInv'
    <2>1. discNow \in Int /\ discNow' \in Int /\ discNow <= discNow' /\ discNow' \in Times
      BY <1>6, DiscConstants DEF DiscIInv, DiscTick, RegistryShape, Times
    <2>2. RegistryShape' /\ RegistrySafe'
      BY <1>6, <2>1 DEF DiscIInv, DiscTick, RegistryShape, RegistrySafe, OneRecordPerPeer, NeverSelf, ListenersCurrent
    <2>3. ASSUME NEW ip \in DiscIps PROVE LimiterFits(ipLimiter, ip)'
      <3>1. ipLimiter[ip] \in Seq(Int) /\ letThrough[ip] \in Seq(Int) /\ DiscWindow \in Int
        BY <1>6, TimesAreInts, DiscConstants DEF DiscIInv, IpsSafe, LimiterShape
      <3>2. LimiterFits(ipLimiter, ip) /\ UNCHANGED <<ipLimiter, letThrough>>
        BY <1>6 DEF DiscIInv, IpsSafe, DiscTick
      <3>3. Ascending(letThrough[ip], discNow') /\ Remembers(ipLimiter[ip], letThrough[ip], discNow', DiscWindow)
        BY <2>1, <3>1, <3>2, RemembersLater DEF LimiterFits
      <3> QED
        BY <3>2, <3>3 DEF LimiterFits
    <2>4. IpsSafe'
      BY <1>6, <2>3 DEF DiscIInv, DiscTick, IpsSafe, LimiterShape, Times
    <2> QED
      BY <2>2, <2>4 DEF DiscIInv
  <1>7. ASSUME DiscIInv, UNCHANGED discVars PROVE DiscIInv'
    BY <1>7 DEF DiscIInv, discVars, RegistryShape, RegistrySafe, OneRecordPerPeer, NeverSelf, ListenersCurrent,
                IpsSafe, LimiterShape, LimiterFits, Times
  <1> QED
    BY <1>1, <1>2, <1>3, <1>4, <1>5, <1>6, <1>7 DEF DiscNext

LEMMA DiscIInvIsSafe == DiscIInv => DiscSafe
  <1> SUFFICES ASSUME DiscIInv PROVE DiscSafe
    OBVIOUS
  <1>1. DiscTypeOK
    BY DEF DiscIInv, RegistryShape, IpsSafe, LimiterShape, DiscTypeOK, Times
  <1>2. BeaconRate
    BY DEF DiscIInv, IpsSafe, LimiterFits, Spaced, BeaconRate
  <1> QED
    BY <1>1, <1>2 DEF DiscIInv, RegistrySafe, DiscSafe

\* DiscoverySafety: for every number of peers, addresses and beacons and every rate,
\* the registry, its listeners and the limiter are what DiscSafe says.
THEOREM DiscoverySafety == DiscSpec => []DiscSafe
  BY DiscInitially, DiscInductive, DiscIInvIsSafe, PTL DEF DiscSpec

-----------------------------------------------------------------------------
(***************************************************************************)
(* Wire.  Between the frames already extracted and what was sent there are *)
(* the bytes of the buffer and of the stream.  While no other program      *)
(* wrote into it, they are the frames of the packets not yet extracted,    *)
(* one after the other: cut[i] is where the frame of packet i ends.        *)
(***************************************************************************)
WireTypes ==
  /\ wireMedium \in {"tcp", "ble"} /\ wireOpen \in BOOLEAN /\ feeding \in BOOLEAN /\ wireForeign \in BOOLEAN
  /\ buffer \in Seq(Nat) /\ frames \in Seq(Seq(Nat)) /\ sent \in Seq(WirePackets)
  /\ wireMedium = "tcp" => stream \in Seq(Nat)
  /\ wireMedium = "ble" => stream \in Seq(Seq(Nat)) /\ buffer = <<>> /\ frames = <<>> /\ ~feeding
  /\ wireSends \in 0..WireMaxSends
  /\ taken \in Seq(PacketFields) /\ \A i \in DOMAIN taken : FieldsAgree(taken[i])

\* Between reads there is no frame left to extract.
WireIdle ==
  /\ ~feeding => frames = <<>>
  /\ ~feeding /\ Len(buffer) >= HeaderSize => ~HeaderBad(buffer) /\ ~FrameComplete(buffer)
  /\ ~wireOpen => buffer = <<>> /\ frames = <<>> /\ ~feeding

\* What was delivered and what was extracted are the packets sent, in order.
Extracted(t, f, s) ==
  /\ Len(t) + Len(f) <= Len(s)
  /\ \A i \in 1..Len(t) : t[i] = s[i]
  /\ \A i \in 1..Len(f) : f[i] = Encode(s[Len(t) + i])
WireHistory == ~wireForeign => Extracted(taken, frames, sent)

FrameAt(b, at, w) ==
  /\ b[at + 1] = Magic /\ b[at + 2] = Len(w) /\ Len(w) <= WireMaxFrame
  /\ \A j \in 1..Len(w) : b[at + HeaderSize + j] = w[j]
Cut(b, s, k, cut) ==
  /\ cut[k] = 0 /\ cut[Len(s)] = Len(b)
  /\ \A i, j \in k..Len(s) : i <= j => cut[i] <= cut[j]
  /\ \A i \in (k + 1)..Len(s) :
       cut[i] = cut[i - 1] + HeaderSize + Len(Encode(s[i])) /\ FrameAt(b, cut[i - 1], Encode(s[i]))
WireStream ==
  ~wireForeign /\ wireMedium = "tcp" /\ wireOpen =>
    \E cut \in [Nat -> Int] : Cut(buffer \o stream, sent, Len(taken) + Len(frames), cut)
Written(t, w, s) ==
  /\ Len(t) + Len(w) = Len(s)
  /\ \A i \in 1..Len(w) : \E fill \in {0, 1} : w[i] = Padded(Encode(s[Len(t) + i]), fill)
WireWrites == ~wireForeign /\ wireMedium = "ble" => Written(taken, stream, sent)

WireInv == WireTypes /\ WireIdle /\ WireHistory /\ WireStream /\ WireWrites

-----------------------------------------------------------------------------
\* The length and the elements of a concatenation.
Joins(s, t, d) == d = s \o t
IsJoined(S, s, t, d) ==
  /\ d \in Seq(S) /\ Len(d) = Len(s) + Len(t) /\ DOMAIN d = 1..(Len(s) + Len(t))
  /\ \A a \in 1..Len(s) : d[a] = s[a]
  /\ \A n \in 1..Len(t) : d[Len(s) + n] = t[n]

LEMMA WireJoined ==
  ASSUME NEW S, NEW s \in Seq(S), NEW t \in Seq(S), NEW d, Joins(s, t, d)
  PROVE  IsJoined(S, s, t, d)
  BY DEF Joins, IsJoined

CutOut(s, a, n, d) == a \in Nat /\ n \in Nat /\ a + n <= Len(s) /\ d = SubSeq(s, a + 1, a + n)
IsCutOut(s, a, n, d) == d \in Seq(Nat) /\ Len(d) = n /\ \A i \in 1..n : d[i] = s[a + i]

LEMMA WireSubSeq ==
  ASSUME NEW s \in Seq(Nat), NEW a, NEW n, NEW d, CutOut(s, a, n, d)
  PROVE  IsCutOut(s, a, n, d)
  <1>1. a \in Nat /\ n \in Nat /\ a + n <= Len(s) /\ d = SubSeq(s, a + 1, a + n)
    BY DEF CutOut
  <1>2. \A i \in 1..n : a + i \in 1..Len(s)
    BY <1>1
  <1> QED
    BY <1>1, <1>2 DEF IsCutOut

\* Sequences with the same elements are the same.
LEMMA WireSame ==
  ASSUME NEW S, NEW s \in Seq(S), NEW t \in Seq(S), Len(s) = Len(t), \A i \in 1..Len(s) : s[i] = t[i]
  PROVE  s = t
  OBVIOUS

LEMMA WireConstants ==
  /\ WireMaxFrame \in Nat /\ WireOverhead \in Nat /\ WireMaxPad \in Nat /\ WireMaxSends \in Nat
  /\ WireBlocks \in Seq(Nat) /\ WirePayloads \subseteq Seq(Nat) /\ WireForeign \subseteq Seq(Nat)
  BY WireAssumption

\* The packets sent agree with their flags.
LEMMA PacketsAgree ==
  ASSUME NEW p \in WirePackets
  PROVE  p \in PacketFields /\ FieldsAgree(p)
  <1>1. PICK ty \in MessageTypes, fl \in 0..3, pl \in WirePayloads :
          p = [type |-> ty, flags |-> fl, sender |-> 3, recipient |-> IF HasRecipient(fl) THEN 4 ELSE 0,
               payload |-> pl, signature |-> IF HasSignature(fl) THEN <<5, 5>> ELSE <<>>]
    BY DEF WirePackets
  <1>2. pl \in Seq(Nat) /\ fl \in Nat
    BY WireConstants
  <1>3. p.signature \in Seq(Nat) /\ Len(p.signature) = IF HasSignature(fl) THEN 2 ELSE 0
    <2>1. <<5, 5>> \in Seq(Nat) /\ Len(<<5, 5>>) = 2 /\ <<>> \in Seq(Nat) /\ Len(<<>>) = 0
      OBVIOUS
    <2> QED
      BY <1>1, <2>1
  <1>4. p.recipient \in Nat /\ (~HasRecipient(fl) => p.recipient = 0)
    BY <1>1
  <1>5. p = [type |-> ty, flags |-> fl, sender |-> 3, recipient |-> p.recipient, payload |-> pl, signature |-> p.signature]
    BY <1>1
  <1>6. p.flags = fl
    BY <1>1
  <1> QED
    BY <1>2, <1>3, <1>4, <1>5, <1>6 DEF PacketFields, FieldsAgree, WireBytes

\* encode_packet: where each field is.
HeadSize(flags) == IF HasRecipient(flags) THEN 6 ELSE 5
EncodedAs(p, w) ==
  /\ w \in Seq(Nat) /\ Len(w) = HeadSize(p.flags) + Len(p.payload) + Len(p.signature)
  /\ w[1] = Version /\ w[2] = p.type /\ w[3] = p.flags /\ w[4] = Len(p.payload) /\ w[5] = p.sender
  /\ HasRecipient(p.flags) => w[6] = p.recipient
  /\ \A j \in 1..Len(p.payload) : w[HeadSize(p.flags) + j] = p.payload[j]
  /\ \A j \in 1..Len(p.signature) : w[HeadSize(p.flags) + Len(p.payload) + j] = p.signature[j]

LEMMA EncodeIs ==
  ASSUME NEW p \in PacketFields
  PROVE  EncodedAs(p, Encode(p))
  <1> DEFINE first == <<Version, p.type, p.flags, Len(p.payload), p.sender>>
             second == IF HasRecipient(p.flags) THEN <<p.recipient>> ELSE <<>>
             head == first \o second
             body == head \o p.payload
             whole == body \o p.signature
             h == HeadSize(p.flags)
             l == Len(p.payload)
  <1>1. /\ p.type \in Nat /\ p.flags \in Nat /\ p.sender \in Nat /\ p.recipient \in Nat
        /\ p.payload \in Seq(Nat) /\ p.signature \in Seq(Nat) /\ l \in Nat
    BY DEF PacketFields, WireBytes, MessageTypes
  <1>2. first \in Seq(Nat) /\ Len(first) = 5
    BY <1>1 DEF Version
  <1>3. second \in Seq(Nat) /\ Len(second) = h - 5 /\ (HasRecipient(p.flags) => second[1] = p.recipient)
    BY <1>1 DEF HeadSize
  <1>4. h \in {5, 6} /\ (HasRecipient(p.flags) => h = 6)
    BY DEF HeadSize
  <1>5. /\ first[1] = Version /\ first[2] = p.type /\ first[3] = p.flags /\ first[4] = l
        /\ first[5] = p.sender
    OBVIOUS
  <1>a. head = first \o second /\ body = head \o p.payload /\ whole = body \o p.signature
    OBVIOUS
  <1>b. h \in Nat /\ h >= 5 /\ h <= 6 /\ l \in Nat /\ Len(p.payload) = l /\ Len(p.signature) \in Nat
    BY <1>1, <1>4
  <1>9. whole = Encode(p)
    BY DEF Encode
  <1> HIDE DEF first, second, h, l, head, body, whole
  <1>6. /\ head \in Seq(Nat) /\ Len(head) = h /\ \A a \in 1..5 : head[a] = first[a]
        /\ HasRecipient(p.flags) => head[6] = p.recipient
    <2>1. /\ head \in Seq(Nat) /\ Len(head) = Len(first) + Len(second)
          /\ \A a \in 1..Len(first) : head[a] = first[a]
          /\ \A n \in 1..Len(second) : head[Len(first) + n] = second[n]
      <3>1. first \in Seq(Nat) /\ second \in Seq(Nat) /\ head = first \o second
        BY <1>2, <1>3, <1>a
      <3>2. first \in Seq(Nat) /\ second \in Seq(Nat) /\ Joins(first, second, head)
        BY ONLY <3>1 DEF Joins
      <3>3. IsJoined(Nat, first, second, head)
        BY ONLY <3>2, WireJoined
      <3> QED
        BY ONLY <3>3 DEF IsJoined
    <2>2. HasRecipient(p.flags) => head[5 + 1] = second[1]
      BY <1>2, <1>3, <1>4, <2>1
    <2> QED
      BY <1>2, <1>3, <1>4, <2>1, <2>2
  <1>7. /\ body \in Seq(Nat) /\ Len(body) = h + l /\ \A a \in 1..h : body[a] = head[a]
        /\ \A j \in 1..l : body[h + j] = p.payload[j]
    <2>1. /\ body \in Seq(Nat) /\ Len(body) = Len(head) + Len(p.payload) /\ \A a \in 1..Len(head) : body[a] = head[a]
          /\ \A j \in 1..Len(p.payload) : body[Len(head) + j] = p.payload[j]
      <3>1. head \in Seq(Nat) /\ p.payload \in Seq(Nat) /\ body = head \o p.payload
        BY <1>1, <1>6, <1>a
      <3>2. head \in Seq(Nat) /\ p.payload \in Seq(Nat) /\ Joins(head, p.payload, body)
        BY ONLY <3>1 DEF Joins
      <3>3. IsJoined(Nat, head, p.payload, body)
        BY ONLY <3>2, WireJoined
      <3> QED
        BY ONLY <3>3 DEF IsJoined
    <2> QED
      BY ONLY <1>6, <1>b, <2>1
  <1>8. /\ whole \in Seq(Nat) /\ Len(whole) = h + l + Len(p.signature) /\ \A a \in 1..(h + l) : whole[a] = body[a]
        /\ \A j \in 1..Len(p.signature) : whole[h + l + j] = p.signature[j]
    <2>1. /\ whole \in Seq(Nat) /\ Len(whole) = Len(body) + Len(p.signature) /\ \A a \in 1..Len(body) : whole[a] = body[a]
          /\ \A j \in 1..Len(p.signature) : whole[Len(body) + j] = p.signature[j]
      <3>1. body \in Seq(Nat) /\ p.signature \in Seq(Nat) /\ whole = body \o p.signature
        BY <1>1, <1>7, <1>a
      <3>2. body \in Seq(Nat) /\ p.signature \in Seq(Nat) /\ Joins(body, p.signature, whole)
        BY ONLY <3>1 DEF Joins
      <3>3. IsJoined(Nat, body, p.signature, whole)
        BY ONLY <3>2, WireJoined
      <3> QED
        BY ONLY <3>3 DEF IsJoined
    <2> QED
      BY ONLY <1>7, <1>b, <2>1
  <1>10. \A a \in 1..5 : whole[a] = first[a]
    <2> TAKE a \in 1..5
    <2>1. a \in 1..h /\ a \in 1..(h + l)
      BY ONLY <1>b
    <2> QED
      BY ONLY <1>6, <1>7, <1>8, <2>1
  <1>11. HasRecipient(p.flags) => whole[6] = p.recipient
    <2> HAVE HasRecipient(p.flags)
    <2>1. 6 \in 1..h /\ 6 \in 1..(h + l)
      BY ONLY <1>b, <1>4, HasRecipient(p.flags)
    <2> QED
      BY ONLY <1>6, <1>7, <1>8, <2>1, HasRecipient(p.flags)
  <1>12. \A j \in 1..l : whole[h + j] = p.payload[j]
    <2> TAKE j \in 1..l
    <2>1. h + j \in 1..(h + l)
      BY ONLY <1>b
    <2> QED
      BY ONLY <1>7, <1>8, <2>1
  <1>13. /\ whole[1] = Version /\ whole[2] = p.type /\ whole[3] = p.flags /\ whole[4] = l
         /\ whole[5] = p.sender
    BY <1>5, <1>10
  <1> QED
    BY <1>8, <1>9, <1>11, <1>12, <1>13 DEF EncodedAs, h, l

\* w and then padding that says how long it is.
PaddedBy(w, v) ==
  /\ v \in Seq(Nat) /\ Len(w) <= Len(v) /\ \A i \in 1..Len(w) : v[i] = w[i]
  /\ Len(v) > Len(w) => Len(v) - Len(w) <= WireMaxPad /\ v[Len(v)] = Len(v) - Len(w)

\* decode_packet undoes encode_packet, whatever padding follows.
LEMMA RoundTrip ==
  ASSUME NEW p \in PacketFields, FieldsAgree(p), NEW v, PaddedBy(Encode(p), v)
  PROVE  Decode(v) = p /\ p # NoPacket
  <1> DEFINE w == Encode(p)
             h == HeadSize(p.flags)
             l == Len(p.payload)
             g == Len(p.signature)
  <1>1. EncodedAs(p, w)
    BY EncodeIs
  <1>2. /\ p.type \in MessageTypes /\ p.flags \in Nat /\ p.sender \in Nat /\ p.recipient \in Nat
        /\ p.payload \in Seq(Nat) /\ p.signature \in Seq(Nat) /\ l \in Nat /\ g \in Nat
        /\ p = [type |-> p.type, flags |-> p.flags, sender |-> p.sender, recipient |-> p.recipient,
                payload |-> p.payload, signature |-> p.signature]
    BY DEF PacketFields, WireBytes
  <1>3. h \in {5, 6} /\ (HasRecipient(p.flags) => h = 6) /\ (~HasRecipient(p.flags) => h = 5)
    BY DEF HeadSize
  <1>4. /\ (~HasRecipient(p.flags) => p.recipient = 0)
        /\ g = IF HasSignature(p.flags) THEN 2 ELSE 0
    BY DEF FieldsAgree
  <1> HIDE DEF w, h, l, g
  <1>5. /\ w \in Seq(Nat) /\ Len(w) = h + l + g /\ w[1] = Version /\ w[2] = p.type /\ w[3] = p.flags
        /\ w[4] = l /\ w[5] = p.sender /\ (HasRecipient(p.flags) => w[6] = p.recipient)
        /\ \A j \in 1..l : w[h + j] = p.payload[j]
        /\ \A j \in 1..g : w[h + l + j] = p.signature[j]
    BY <1>1 DEF EncodedAs, h, l, g
  <1>a. h \in Nat /\ h >= 5 /\ l \in Nat /\ g \in Nat
    BY <1>2, <1>3
  <1>6. /\ v \in Seq(Nat) /\ h + l + g <= Len(v) /\ \A i \in 1..(h + l + g) : v[i] = w[i]
        /\ Len(v) > h + l + g => Len(v) - (h + l + g) <= WireMaxPad /\ v[Len(v)] = Len(v) - (h + l + g)
    BY <1>5 DEF PaddedBy, w
  <1>b. Len(v) \in Nat /\ Len(v) >= 5 /\ h + l <= Len(v)
    <2>1. Len(v) \in Nat
      BY <1>6
    <2> QED
      BY ONLY <1>a, <1>6, <2>1
  <1>c. \A i \in 1..(h + l) : v[i] = w[i]
    <2> TAKE i \in 1..(h + l)
    <2>1. i \in 1..(h + l + g)
      BY ONLY <1>a
    <2> QED
      BY ONLY <1>6, <2>1
  <1>d. \A i \in 1..5 : v[i] = w[i]
    <2> TAKE i \in 1..5
    <2>1. i \in 1..(h + l)
      BY ONLY <1>a
    <2> QED
      BY ONLY <1>c, <2>1
  <1>e. HasRecipient(p.flags) => v[6] = w[6]
    <2> HAVE HasRecipient(p.flags)
    <2>1. 6 \in 1..(h + l)
      BY <1>a, <1>3
    <2> QED
      BY ONLY <1>c, <2>1
  <1>7. /\ Len(v) \in Nat /\ Len(v) >= 5
        /\ v[1] = Version /\ v[2] = p.type /\ v[3] = p.flags /\ v[4] = l /\ v[5] = p.sender
        /\ (HasRecipient(p.flags) => v[6] = p.recipient)
    BY <1>5, <1>b, <1>d, <1>e
  <1>8. \A j \in 1..l : v[h + j] = p.payload[j]
    <2> TAKE j \in 1..l
    <2>1. h + j \in 1..(h + l)
      BY ONLY <1>a
    <2> QED
      BY ONLY <1>5, <1>c, <2>1
  <1>9. \A j \in 1..g : v[h + l + j] = p.signature[j]
    <2> TAKE j \in 1..g
    <2>1. h + l + j \in 1..(h + l + g)
      BY <1>2, <1>3
    <2> QED
      BY <1>5, <1>6, <2>1
  <1>10. UnpaddedSize(v) = h + l + g
    BY <1>2, <1>3, <1>4, <1>7 DEF UnpaddedSize
  <1>11. ~PaddingWrong(v, h + l + g)
    BY <1>2, <1>3, <1>6, <1>7, WireConstants DEF PaddingWrong, Last
  <1>12. SubSeq(v, h + 1, h + l) = p.payload
    <2> DEFINE d == SubSeq(v, h + 1, h + l)
    <2>1. d = SubSeq(v, h + 1, h + l) /\ l = Len(p.payload)
      BY DEF l
    <2> HIDE DEF d
    <2>2. d \in Seq(Nat) /\ Len(d) = l /\ \A i \in 1..l : d[i] = v[h + i]
      <3>c. CutOut(v, h, l, d) /\ v \in Seq(Nat)
        BY <1>6, <1>a, <1>b, <2>1 DEF CutOut
      <3>d. IsCutOut(v, h, l, d)
        BY ONLY <3>c, WireSubSeq
      <3> QED
        BY <3>d DEF IsCutOut
    <2>3. d = p.payload
      <3>1. p.payload \in Seq(Nat) /\ d \in Seq(Nat) /\ Len(d) = Len(p.payload) /\ \A i \in 1..Len(d) : d[i] = p.payload[i]
        BY <1>2, <1>8, <2>1, <2>2
      <3> QED
        BY ONLY <3>1, WireSame
    <2> QED
      BY <2>1, <2>3
  <1>13. SubSeq(v, h + l + 1, h + l + g) = p.signature
    <2> DEFINE a == h + l
    <2>1. a \in Nat /\ a + g <= Len(v) /\ g \in Nat
      BY ONLY <1>a, <1>6
    <2>2. \A j \in 1..g : v[a + j] = p.signature[j]
      BY <1>9
    <2> HIDE DEF a
    <2> DEFINE d == SubSeq(v, a + 1, a + g)
    <2>a. d = SubSeq(v, a + 1, a + g) /\ g = Len(p.signature)
      BY DEF g
    <2> HIDE DEF d
    <2>3. d \in Seq(Nat) /\ Len(d) = g /\ \A i \in 1..g : d[i] = v[a + i]
      <3>c. CutOut(v, a, g, d) /\ v \in Seq(Nat)
        BY <1>6, <2>1, <2>a DEF CutOut
      <3>d. IsCutOut(v, a, g, d)
        BY ONLY <3>c, WireSubSeq
      <3> QED
        BY <3>d DEF IsCutOut
    <2>4. d = p.signature
      BY ONLY <1>2, <2>2, <2>3, <2>a, WireSame
    <2> QED
      BY <2>4, <2>a DEF a
  <1>14. (IF HasRecipient(v[3]) THEN 6 ELSE 5) = h /\ (IF HasRecipient(v[3]) THEN v[6] ELSE 0) = p.recipient
    BY <1>3, <1>4, <1>7
  <1>15. Decode(v) = [type |-> v[2], flags |-> v[3], sender |-> v[5], recipient |-> p.recipient,
                      payload |-> SubSeq(v, h + 1, h + v[4]), signature |-> SubSeq(v, h + v[4] + 1, UnpaddedSize(v))]
    <2>1. ~(Len(v) < 5)
      BY <1>7
    <2>2. ~(v[1] # Version \/ v[2] \notin MessageTypes \/ Len(v) < UnpaddedSize(v) \/ PaddingWrong(v, UnpaddedSize(v)))
      <3>1. ~(Len(v) < UnpaddedSize(v))
        BY ONLY <1>a, <1>6, <1>7, <1>10
      <3> QED
        BY <1>2, <1>7, <1>10, <1>11, <3>1
    <2> QED
      BY <1>14, <2>1, <2>2 DEF Decode
  <1>16. Decode(v) = p
    BY <1>2, <1>7, <1>10, <1>12, <1>13, <1>15
  <1>17. p.type # NoPacket.type
    BY <1>2 DEF NoPacket, MessageTypes
  <1> QED
    BY <1>16, <1>17

\* What decode_packet accepts is what encode_packet writes, and its padding.
LEMMA DecodeAccepts ==
  ASSUME NEW w \in Seq(Nat), Decode(w) # NoPacket, NEW d, d = Decode(w)
  PROVE  d \in PacketFields /\ FieldsAgree(d) /\ PaddedBy(Encode(d), w)
  <1> DEFINE h == HeadSize(w[3])
             l == w[4]
             g == IF HasSignature(w[3]) THEN 2 ELSE 0
             size == UnpaddedSize(w)
  <1>1. ~(Len(w) < 5) /\ Len(w) \in Nat
    BY DEF Decode
  <1>2. w[1] \in Nat /\ w[2] \in Nat /\ w[3] \in Nat /\ w[4] \in Nat /\ w[5] \in Nat /\ (Len(w) >= 6 => w[6] \in Nat)
    BY <1>1
  <1>3. ~(w[1] # Version \/ w[2] \notin MessageTypes \/ Len(w) < size \/ PaddingWrong(w, size))
    BY <1>1 DEF Decode
  <1>4. d = [type |-> w[2], flags |-> w[3], sender |-> w[5], recipient |-> IF HasRecipient(w[3]) THEN w[6] ELSE 0,
             payload |-> SubSeq(w, h + 1, h + l), signature |-> SubSeq(w, h + l + 1, size)]
    BY <1>1, <1>3 DEF Decode, HeadSize
  <1>5. h \in Nat /\ h >= 5 /\ (HasRecipient(w[3]) => h >= 6) /\ l \in Nat /\ g \in Nat
    BY <1>2 DEF HeadSize
  <1>6. size = h + l + g
    BY <1>2 DEF UnpaddedSize, HeadSize
  <1> HIDE DEF h, l, g, size
  <1>7. size <= Len(w) /\ size \in Nat
    BY <1>1, <1>3, <1>5, <1>6
  <1>8. PICK payload : payload = SubSeq(w, h + 1, h + l)
    OBVIOUS
  <1>9. payload \in Seq(Nat) /\ Len(payload) = l /\ \A i \in 1..l : payload[i] = w[h + i]
    <2>1. w \in Seq(Nat) /\ h + l <= Len(w)
      BY <1>1, <1>5, <1>6, <1>7
    <2> QED
      <3>c. CutOut(w, h, l, payload) /\ w \in Seq(Nat)
        BY <1>5, <1>8, <2>1 DEF CutOut
      <3>d. IsCutOut(w, h, l, payload)
        BY ONLY <3>c, WireSubSeq
      <3> QED
        BY <3>d DEF IsCutOut
  <1>10. PICK signature : signature = SubSeq(w, h + l + 1, size)
    OBVIOUS
  <1>11. signature \in Seq(Nat) /\ Len(signature) = g /\ \A i \in 1..g : signature[i] = w[h + l + i]
    <2> DEFINE a == h + l
    <2>1. w \in Seq(Nat) /\ a \in Nat /\ a + g <= Len(w) /\ signature = SubSeq(w, a + 1, a + g)
      BY <1>1, <1>5, <1>6, <1>7, <1>10
    <2> HIDE DEF a
    <2>2. signature \in Seq(Nat) /\ Len(signature) = g /\ \A i \in 1..g : signature[i] = w[a + i]
      <3>c. CutOut(w, a, g, signature) /\ w \in Seq(Nat)
        BY <1>5, <2>1 DEF CutOut
      <3>d. IsCutOut(w, a, g, signature)
        BY ONLY <3>c, WireSubSeq
      <3> QED
        BY <3>d DEF IsCutOut
    <2> QED
      BY <2>2 DEF a
  <1>12. PICK recipient : recipient = IF HasRecipient(w[3]) THEN w[6] ELSE 0
    OBVIOUS
  <1>13. recipient \in Nat
    BY <1>2, <1>5, <1>6, <1>7, <1>1, <1>12
  <1>14. d = [type |-> w[2], flags |-> w[3], sender |-> w[5], recipient |-> recipient,
              payload |-> payload, signature |-> signature]
    BY <1>4, <1>8, <1>10, <1>12
  <1>15. d \in PacketFields
    BY <1>2, <1>3, <1>9, <1>11, <1>13, <1>14 DEF PacketFields, WireBytes
  <1>16. /\ d.type = w[2] /\ d.flags = w[3] /\ d.sender = w[5] /\ d.recipient = recipient
         /\ d.payload = payload /\ d.signature = signature
    BY <1>14
  <1>17. FieldsAgree(d)
    BY <1>11, <1>12, <1>16 DEF FieldsAgree, g
  <1>18. PICK e : e = Encode(d)
    OBVIOUS
  <1>19. EncodedAs(d, e)
    BY <1>15, <1>18, EncodeIs
  <1>20. HeadSize(d.flags) = h
    BY <1>16 DEF h
  <1>21. /\ e \in Seq(Nat) /\ Len(e) = h + l + g
         /\ e[1] = Version /\ e[2] = w[2] /\ e[3] = w[3] /\ e[4] = l /\ e[5] = w[5]
         /\ HasRecipient(w[3]) => e[6] = recipient
         /\ \A j \in 1..l : e[h + j] = payload[j]
         /\ \A j \in 1..g : e[h + l + j] = signature[j]
    BY <1>9, <1>11, <1>16, <1>19, <1>20 DEF EncodedAs
  <1>22. \A i \in 1..(h + l + g) : e[i] = w[i]
    <2> TAKE i \in 1..(h + l + g)
    <2>1. CASE i > h + l
      <3> DEFINE j == i - (h + l)
      <3>1. j \in 1..g /\ h + l + j = i
        BY ONLY <1>5, <2>1
      <3> HIDE DEF j
      <3> QED
        BY <1>11, <1>21, <3>1
    <2>2. CASE i > h /\ ~(i > h + l)
      <3> DEFINE j == i - h
      <3>1. j \in 1..l /\ h + j = i
        BY ONLY <1>5, <2>2
      <3> HIDE DEF j
      <3> QED
        BY <1>9, <1>21, <3>1
    <2>3. CASE i <= h
      <3>1. i \in 1..5 \/ (i = 6 /\ HasRecipient(w[3]))
        BY <1>5, <2>3 DEF h, HeadSize
      <3>2. e[1] = w[1] /\ e[2] = w[2] /\ e[3] = w[3] /\ e[4] = w[4] /\ e[5] = w[5]
        BY <1>3, <1>21 DEF l
      <3>3. HasRecipient(w[3]) => e[6] = w[6]
        BY <1>12, <1>21
      <3>4. i = 1 \/ i = 2 \/ i = 3 \/ i = 4 \/ i = 5 \/ (i = 6 /\ HasRecipient(w[3]))
        BY ONLY <3>1
      <3> QED
        BY ONLY <3>2, <3>3, <3>4
    <2>4. i > h + l \/ (i > h /\ ~(i > h + l)) \/ i <= h
      BY ONLY <1>5, i \in 1..(h + l + g)
    <2> QED
      BY <2>1, <2>2, <2>3, <2>4
  <1>23. Len(w) > size => Len(w) - size <= WireMaxPad /\ w[Len(w)] = Len(w) - size
    BY <1>1, <1>3, <1>7, WireConstants DEF PaddingWrong, Last
  <1>24. PaddedBy(e, w)
    BY <1>6, <1>7, <1>21, <1>22, <1>23 DEF PaddedBy
  <1> QED
    BY <1>15, <1>17, <1>18, <1>24

\* The property WireStrict, of one frame or write.
LEMMA StrictlyDecoded ==
  ASSUME NEW w \in Seq(Nat), Decode(w) # NoPacket
  PROVE  /\ IsPrefix(Encode(Decode(w)), w)
         /\ Len(w) > Len(Encode(Decode(w))) => Last(w) = Len(w) - Len(Encode(Decode(w)))
  <1>1. PICK d : d = Decode(w)
    OBVIOUS
  <1>2. d \in PacketFields /\ PaddedBy(Encode(d), w)
    BY <1>1, DecodeAccepts
  <1>3. PICK e : e = Encode(d)
    OBVIOUS
  <1>4. e \in Seq(Nat)
    BY <1>2, <1>3, EncodeIs DEF EncodedAs
  <1>5. /\ Len(e) <= Len(w) /\ (\A i \in 1..Len(e) : w[i] = e[i])
        /\ Len(w) > Len(e) => w[Len(w)] = Len(w) - Len(e)
    BY <1>2, <1>3 DEF PaddedBy
  <1>6. SubSeq(e, 1, Len(e)) = SubSeq(w, 1, Len(e))
    BY <1>4, <1>5
  <1> QED
    BY <1>1, <1>3, <1>5, <1>6 DEF IsPrefix, Last

\* pad_packet_data adds padding that decode_packet takes off.
LEMMA PaddedIs ==
  ASSUME NEW w \in Seq(Nat), NEW fill \in {0, 1}, NEW v, v = Padded(w, fill)
  PROVE  PaddedBy(w, v)
  <1> DEFINE n == Len(w)
             m == Len(WireBlocks)
             I == {i \in 1..m : n + WireOverhead <= WireBlocks[i]}
             k == PadNeeded(n)
  <1>1. n \in Nat /\ m \in Nat /\ DOMAIN WireBlocks = 1..m /\ \A i \in 1..m : WireBlocks[i] \in Nat
    BY WireConstants
  <1>2. BlockFor(n) \in Nat /\ BlockFor(n) >= n
    <2>1. CASE I = {}
      BY <1>1, <2>1 DEF BlockFor
    <2>2. CASE I # {}
      <3> DEFINE P(i) == /\ n + WireOverhead <= WireBlocks[i]
                         /\ \A j \in 1..(i - 1) : n + WireOverhead > WireBlocks[j]
      <3>1. PICK a : a = Min(I)
        OBVIOUS
      <3>2. a \in I /\ \A i \in I : a <= i
        BY <1>1, <2>2, <3>1, EndsOf
      <3>3. a \in 1..m /\ P(a)
        <4>1. a \in 1..m /\ n + WireOverhead <= WireBlocks[a]
          BY <3>2
        <4>2. ASSUME NEW j \in 1..(a - 1) PROVE n + WireOverhead > WireBlocks[j]
          <5>1. j \in 1..m /\ ~(a <= j)
            BY <1>1, <4>1
          <5>2. j \notin I
            BY <3>2, <5>1
          <5> QED
            BY <1>1, <5>1, <5>2, WireConstants
        <4> QED
          BY <4>1, <4>2
      <3>4. PICK b : b = CHOOSE i \in DOMAIN WireBlocks : P(i)
        OBVIOUS
      <3>5. b \in 1..m /\ P(b)
        BY <1>1, <3>3, <3>4
      <3>6. BlockFor(n) = WireBlocks[b]
        BY <1>1, <3>3, <3>4 DEF BlockFor
      <3> QED
        BY <1>1, <3>5, <3>6, WireConstants
    <2> QED
      BY <2>1, <2>2
  <1>3. k \in Nat /\ k <= WireMaxPad
    BY <1>1, <1>2, WireConstants DEF PadNeeded
  <1>a. k = PadNeeded(Len(w))
    OBVIOUS
  <1> HIDE DEF k
  <1>4. CASE k = 0
    <2>1. v = w
      BY <1>4, <1>a DEF Padded
    <2> QED
      BY <1>1, <2>1 DEF PaddedBy
  <1>5. CASE k # 0
    <2> DEFINE filling == [i \in 1..(k - 1) |-> fill]
               mark == <<k>>
               front == w \o filling
    <2>1. filling \in Seq(Nat) /\ Len(filling) = k - 1 /\ mark \in Seq(Nat) /\ Len(mark) = 1 /\ mark[1] = k
      BY <1>3, <1>5
    <2>2. v = front \o mark
      BY <1>5, <1>a DEF Padded
    <2>3. front = w \o filling
      OBVIOUS
    <2> HIDE DEF filling, mark, front
    <2>4. /\ front \in Seq(Nat) /\ Len(front) = Len(w) + Len(filling)
          /\ \A a \in 1..Len(w) : front[a] = w[a]
      <3>1. w \in Seq(Nat) /\ filling \in Seq(Nat) /\ front = w \o filling
        BY <2>1, <2>3
      <3>2. w \in Seq(Nat) /\ filling \in Seq(Nat) /\ Joins(w, filling, front)
        BY ONLY <3>1 DEF Joins
      <3>3. IsJoined(Nat, w, filling, front)
        BY ONLY <3>2, WireJoined
      <3> QED
        BY ONLY <3>3 DEF IsJoined
    <2>5. /\ v \in Seq(Nat) /\ Len(v) = Len(front) + Len(mark)
          /\ \A a \in 1..Len(front) : v[a] = front[a]
          /\ \A a \in 1..Len(mark) : v[Len(front) + a] = mark[a]
      <3>1. front \in Seq(Nat) /\ mark \in Seq(Nat) /\ v = front \o mark
        BY <2>1, <2>2, <2>4
      <3>2. front \in Seq(Nat) /\ mark \in Seq(Nat) /\ Joins(front, mark, v)
        BY ONLY <3>1 DEF Joins
      <3>3. IsJoined(Nat, front, mark, v)
        BY ONLY <3>2, WireJoined
      <3> QED
        BY ONLY <3>3 DEF IsJoined
    <2>6. Len(front) = n + k - 1 /\ Len(v) = n + k
      BY <1>1, <1>3, <2>1, <2>4, <2>5
    <2>7. \A a \in 1..n : v[a] = w[a]
      <3> TAKE a \in 1..n
      <3>1. a \in 1..Len(front) /\ a \in 1..Len(w)
        BY <1>1, <1>3, <1>5, <2>6
      <3> QED
        BY <2>4, <2>5, <3>1
    <2>8. v[n + k] = k
      <3>1. 1 \in 1..Len(mark) /\ Len(front) + 1 = n + k
        BY <1>1, <1>3, <2>1, <2>6
      <3> QED
        BY <2>1, <2>5, <3>1
    <2> QED
      BY <1>1, <1>3, <2>5, <2>6, <2>7, <2>8 DEF PaddedBy
  <1> QED
    BY <1>4, <1>5

\* What a read or a notification delivers: the packets decoded, without the
\* frames that are none.
LEMMA DeliveredIs ==
  ASSUME NEW ws \in Seq(Seq(Nat)), NEW q, q = Delivered(ws)
  PROVE  /\ q \in Seq(PacketFields) /\ \A i \in DOMAIN q : FieldsAgree(q[i])
         /\ \A i \in Accepted(ws) : Decode(ws[i]) \in PacketFields
  <1> DEFINE ps == [i \in DOMAIN ws |-> Decode(ws[i])]
             S == {ps[i] : i \in DOMAIN ps}
             I == Accepted(ws)
  <1>1. DOMAIN ws = 1..Len(ws) /\ Len(ws) \in Nat /\ \A i \in DOMAIN ws : ws[i] \in Seq(Nat)
    OBVIOUS
  <1>2. ps \in Seq(S) /\ DOMAIN ps = 1..Len(ws) /\ Len(ps) = Len(ws)
    BY <1>1
  <1>3. I \in SUBSET (DOMAIN ps)
    BY <1>1 DEF Accepted
  <1>4. q = Picked(ps, I)
    BY DEF Delivered
  <1>5. \A i \in I : ps[i] \in PacketFields /\ FieldsAgree(ps[i])
    <2> TAKE i \in I
    <2>1. i \in DOMAIN ws /\ Decode(ws[i]) # NoPacket
      BY DEF Accepted
    <2>2. ws[i] \in Seq(Nat)
      BY <1>1, <2>1
    <2>3. Decode(ws[i]) \in PacketFields /\ FieldsAgree(Decode(ws[i]))
      BY <2>1, <2>2, DecodeAccepts
    <2>4. ps[i] = Decode(ws[i])
      BY <2>1
    <2> QED
      BY <2>3, <2>4
  <1>b. \A i \in I : Decode(ws[i]) \in PacketFields
    BY <1>1, <1>3, <1>5 DEF Accepted
  <1> HIDE DEF ps, S, I
  <1>6. /\ q \in Seq(S) /\ Len(q) \in Nat /\ DOMAIN q = 1..Len(q)
        /\ \A n \in 1..Len(q) : Nth(I, n) \in I /\ q[n] = ps[Nth(I, n)]
    BY ONLY <1>2, <1>3, <1>4, PickedIs
  <1>7. \A n \in 1..Len(q) : q[n] \in PacketFields /\ FieldsAgree(q[n])
    BY <1>5, <1>6
  <1>8. q \in Seq(PacketFields)
    BY <1>6, <1>7
  <1> QED
    BY <1>6, <1>7, <1>8, <1>b DEF I

\* Frames that hold packets sent one after the other are delivered as these.
LEMMA DeliveredSent ==
  ASSUME NEW ws \in Seq(Seq(Nat)), NEW s \in Seq(WirePackets), NEW k \in Nat, k + Len(ws) <= Len(s),
         \A i \in 1..Len(ws) : PaddedBy(Encode(s[k + i]), ws[i]), NEW q, q = Delivered(ws)
  PROVE  Len(q) = Len(ws) /\ \A i \in 1..Len(ws) : q[i] = s[k + i]
  <1> DEFINE ps == [i \in DOMAIN ws |-> Decode(ws[i])]
             S == {ps[i] : i \in DOMAIN ps}
             I == Accepted(ws)
             m == Len(ws)
  <1>1. DOMAIN ws = 1..m /\ m \in Nat
    OBVIOUS
  <1>2. ps \in Seq(S) /\ DOMAIN ps = 1..m /\ Len(ps) = m
    BY <1>1
  <1>3. q = Picked(ps, I)
    BY DEF Delivered
  <1>4. \A i \in 1..m : Decode(ws[i]) = s[k + i] /\ s[k + i] # NoPacket
    <2> TAKE i \in 1..m
    <2>1. k + i \in 1..Len(s)
      BY <1>1
    <2>2. s[k + i] \in WirePackets
      BY <2>1
    <2>3. PICK p : p = s[k + i]
      OBVIOUS
    <2>4. p \in PacketFields /\ FieldsAgree(p) /\ PaddedBy(Encode(p), ws[i])
      BY <2>2, <2>3, PacketsAgree
    <2>5. Decode(ws[i]) = p /\ p # NoPacket
      BY <2>4, RoundTrip
    <2> QED
      BY <2>3, <2>5
  <1>5. I = 1..m
    BY <1>1, <1>4 DEF Accepted
  <1>6. \A i \in 1..m : ps[i] = s[k + i]
    BY <1>1, <1>4
  <1> HIDE DEF ps, S, I, m
  <1>7. I \in SUBSET (DOMAIN ps) /\ \A i \in I, j \in DOMAIN ps : i <= j => j \in I
    BY <1>2, <1>5
  <1>8. Len(q) = Cardinality(I)
    BY ONLY <1>2, <1>3, <1>7, PickedIs
  <1>9. Cardinality(I) = m
    BY <1>1, <1>5, FS_Interval
  <1>10. IsEndOf(q, ps)
    BY ONLY <1>2, <1>3, <1>7, EndPicked
  <1>11. \A n \in 1..m : q[n] = ps[n]
    BY <1>1, <1>2, <1>8, <1>9, <1>10 DEF IsEndOf
  <1> QED
    BY <1>6, <1>8, <1>9, <1>11 DEF m

\* The packets delivered go on in the order of those sent.
TakesOn(t, ws, s, u) ==
  /\ Len(t) + Len(ws) <= Len(s) /\ (\A i \in 1..Len(t) : t[i] = s[i])
  /\ (\A i \in 1..Len(ws) : PaddedBy(Encode(s[Len(t) + i]), ws[i])) /\ u = t \o Delivered(ws)

LEMMA DeliveredOn ==
  ASSUME NEW s \in Seq(WirePackets), NEW t \in Seq(PacketFields), NEW ws \in Seq(Seq(Nat)), NEW u,
         TakesOn(t, ws, s, u)
  PROVE  Len(u) = Len(t) + Len(ws) /\ \A i \in 1..Len(u) : u[i] = s[i]
  <1> DEFINE k == Len(t)
             q == Delivered(ws)
             m == Len(ws)
  <1>1. k \in Nat /\ m \in Nat
    OBVIOUS
  <1>0. /\ k + m <= Len(s) /\ (\A i \in 1..k : t[i] = s[i]) /\ u = t \o q
        /\ \A i \in 1..Len(ws) : PaddedBy(Encode(s[k + i]), ws[i])
    BY DEF TakesOn
  <1>2. Len(q) = m /\ \A i \in 1..m : q[i] = s[k + i]
    BY <1>0, <1>1, DeliveredSent
  <1>3. q \in Seq(PacketFields) /\ u = t \o q
    BY <1>0, DeliveredIs
  <1> HIDE DEF q
  <1>4. /\ Len(u) = Len(t) + Len(q) /\ \A a \in 1..Len(t) : u[a] = t[a]
        /\ \A n \in 1..Len(q) : u[Len(t) + n] = q[n]
    <2>1. t \in Seq(PacketFields) /\ q \in Seq(PacketFields) /\ u = t \o q
      BY <1>3
    <2>2. t \in Seq(PacketFields) /\ q \in Seq(PacketFields) /\ Joins(t, q, u)
      BY ONLY <2>1 DEF Joins
    <2>3. IsJoined(PacketFields, t, q, u)
      BY ONLY <2>2, WireJoined
    <2> QED
      BY ONLY <2>3 DEF IsJoined
  <1> HIDE DEF k, m
  <1>5. \A i \in 1..(k + m) : u[i] = s[i]
    <2> TAKE i \in 1..(k + m)
    <2>1. CASE i <= k
      BY <1>0, <1>1, <1>4, <2>1 DEF k
    <2>2. CASE i > k
      <3> DEFINE j == i - k
      <3>1. j \in 1..m /\ k + j = i
        BY <1>1, <2>2
      <3> HIDE DEF j
      <3> QED
        BY <1>2, <1>4, <3>1 DEF k
    <2>3. i \in Int /\ k \in Int
      BY <1>1
    <2>4. i <= k \/ i > k
      BY ONLY <2>3
    <2> QED
      BY <2>1, <2>2, <2>4
  <1> QED
    BY <1>2, <1>4, <1>5 DEF k, m

LEMMA PrefixIs ==
  ASSUME NEW S, NEW T, NEW s \in Seq(S), NEW t \in Seq(T), Len(s) <= Len(t), \A i \in 1..Len(s) : s[i] = t[i]
  PROVE  IsPrefix(s, t)
  <1>1. SubSeq(s, 1, Len(s)) = SubSeq(t, 1, Len(s))
    OBVIOUS
  <1> QED
    BY <1>1 DEF IsPrefix

\* A frame that is found again elsewhere.
LEMMA FrameMoved ==
  ASSUME NEW w \in Seq(Nat), NEW b \in Seq(Nat), NEW c \in Seq(Nat), NEW at \in Int, NEW to \in Int,
         FrameAt(b, at, w), \A x \in 1..(HeaderSize + Len(w)) : c[to + x] = b[at + x]
  PROVE  FrameAt(c, to, w)
  <1>1. Len(w) \in Nat
    OBVIOUS
  <1>2. 1 \in 1..(HeaderSize + Len(w)) /\ 2 \in 1..(HeaderSize + Len(w))
    BY <1>1 DEF HeaderSize
  <1>3. \A j \in 1..Len(w) : HeaderSize + j \in 1..(HeaderSize + Len(w)) /\ HeaderSize + j \in Int
    BY <1>1 DEF HeaderSize
  <1>4. c[to + 1] = b[at + 1] /\ c[to + 2] = b[at + 2]
    BY ONLY <1>2, \A x \in 1..(HeaderSize + Len(w)) : c[to + x] = b[at + x]
  <1>5. \A j \in 1..Len(w) : c[to + HeaderSize + j] = b[at + HeaderSize + j]
    <2> TAKE j \in 1..Len(w)
    <2>1. c[to + (HeaderSize + j)] = b[at + (HeaderSize + j)]
      BY <1>3
    <2>2. to + (HeaderSize + j) = to + HeaderSize + j /\ at + (HeaderSize + j) = at + HeaderSize + j
      BY <1>1 DEF HeaderSize
    <2> QED
      BY <2>1, <2>2
  <1> QED
    BY <1>4, <1>5 DEF FrameAt

LEMMA SizesOf ==
  ASSUME NEW s \in Seq(WirePackets)
  PROVE  /\ Len(s) \in Nat /\ DOMAIN s = 1..Len(s)
         /\ \A i \in 1..Len(s) : s[i] \in WirePackets /\ Encode(s[i]) \in Seq(Nat) /\ Len(Encode(s[i])) \in Nat
  <1>1. ASSUME NEW i \in 1..Len(s) PROVE s[i] \in WirePackets /\ Encode(s[i]) \in Seq(Nat) /\ Len(Encode(s[i])) \in Nat
    <2>1. s[i] \in WirePackets
      OBVIOUS
    <2>2. PICK p : p = s[i]
      OBVIOUS
    <2>3. p \in PacketFields
      BY <2>1, <2>2, PacketsAgree
    <2>4. Encode(p) \in Seq(Nat)
      BY <2>3, EncodeIs DEF EncodedAs
    <2> QED
      BY <2>1, <2>2, <2>4
  <1> QED
    BY <1>1

\* The ends of the frames lie within the bytes.
LEMMA CutWithin ==
  ASSUME NEW b \in Seq(Nat), NEW s \in Seq(WirePackets), NEW k \in Nat, k <= Len(s),
         NEW cut \in [Nat -> Int], Cut(b, s, k, cut)
  PROVE  /\ \A i \in k..Len(s) : cut[i] \in Nat /\ cut[i] <= Len(b)
         /\ \A i \in (k + 1)..Len(s) :
              /\ i - 1 \in k..Len(s) /\ i \in 1..Len(s) /\ cut[i - 1] \in Nat
              /\ cut[i - 1] + HeaderSize + Len(Encode(s[i])) <= Len(b)
  <1>1. Len(s) \in Nat /\ Len(b) \in Nat /\ k \in k..Len(s) /\ Len(s) \in k..Len(s)
    OBVIOUS
  <1>2. /\ cut[k] = 0 /\ cut[Len(s)] = Len(b) /\ \A i, j \in k..Len(s) : i <= j => cut[i] <= cut[j]
        /\ \A i \in (k + 1)..Len(s) : cut[i] = cut[i - 1] + HeaderSize + Len(Encode(s[i]))
    BY DEF Cut
  <1>3. ASSUME NEW i \in k..Len(s) PROVE cut[i] \in Nat /\ cut[i] <= Len(b)
    <2>1. cut[i] \in Int /\ k <= i /\ i <= Len(s)
      BY <1>1
    <2>2. cut[k] <= cut[i] /\ cut[i] <= cut[Len(s)]
      BY <1>1, <1>2, <2>1
    <2> QED
      BY <1>2, <2>1, <2>2
  <1>4. ASSUME NEW i \in (k + 1)..Len(s)
        PROVE  i - 1 \in k..Len(s) /\ i \in 1..Len(s) /\ i \in k..Len(s)
    BY <1>1
  <1> QED
    BY <1>2, <1>3, <1>4

\* A packet written adds its frame at the end.
LEMMA CutSent ==
  ASSUME NEW b \in Seq(Nat), NEW s \in Seq(WirePackets), NEW k \in Nat, k <= Len(s),
         NEW cut \in [Nat -> Int], Cut(b, s, k, cut), NEW p \in WirePackets, FitsFrame(Encode(p)),
         NEW c, c = b \o FrameOf(Encode(p)), NEW u, u = Append(s, p)
  PROVE  \E e \in [Nat -> Int] : Cut(c, u, k, e)
  <1> DEFINE w == Encode(p)
             f == FrameOf(w)
             n == Len(s)
             l == Len(w)
             m == Len(b)
             e == [cut EXCEPT ![n + 1] = m + HeaderSize + l]
  <1>1. n \in Nat /\ m \in Nat /\ k <= n
    OBVIOUS
  <1>2. w \in Seq(Nat)
    BY PacketsAgree, EncodeIs DEF EncodedAs
  <1>3. l \in Nat /\ l <= WireMaxFrame
    BY <1>2 DEF FitsFrame
  <1>4. /\ f \in Seq(Nat) /\ Len(f) = HeaderSize + l /\ f[1] = Magic /\ f[2] = l
        /\ \A j \in 1..l : f[HeaderSize + j] = w[j]
    <2> DEFINE top == <<Magic, l>>
    <2>1. top \in Seq(Nat) /\ Len(top) = 2 /\ top[1] = Magic /\ top[2] = l
      BY <1>3 DEF Magic
    <2>2. f = top \o w
      BY DEF FrameOf
    <2> HIDE DEF top, f, w
    <2>3. /\ f \in Seq(Nat) /\ Len(f) = Len(top) + Len(w)
          /\ \A a \in 1..Len(top) : f[a] = top[a]
          /\ \A a \in 1..Len(w) : f[Len(top) + a] = w[a]
      <3>1. top \in Seq(Nat) /\ w \in Seq(Nat) /\ f = top \o w
        BY <1>2, <2>1, <2>2
      <3>2. top \in Seq(Nat) /\ w \in Seq(Nat) /\ Joins(top, w, f)
        BY ONLY <3>1 DEF Joins
      <3>3. IsJoined(Nat, top, w, f)
        BY ONLY <3>2, WireJoined
      <3> QED
        BY ONLY <3>3 DEF IsJoined
    <2>4. Len(top) = HeaderSize /\ Len(w) = l
      BY <2>1 DEF HeaderSize
    <2>5. \A a \in 1..l : f[HeaderSize + a] = w[a]
      BY ONLY <2>3, <2>4
    <2>6. 1 \in 1..Len(top) /\ 2 \in 1..Len(top)
      BY <2>1
    <2>7. f[1] = Magic /\ f[2] = l
      BY ONLY <2>1, <2>3, <2>6
    <2>8. f \in Seq(Nat) /\ Len(f) = HeaderSize + l
      BY ONLY <2>3, <2>4
    <2> QED
      BY ONLY <2>5, <2>7, <2>8
  <1>5. c = b \o f /\ u = Append(s, p)
    OBVIOUS
  <1> HIDE DEF w, f
  <1>6. /\ c \in Seq(Nat) /\ Len(c) = m + HeaderSize + l
        /\ \A a \in 1..m : c[a] = b[a]
        /\ \A a \in 1..(HeaderSize + l) : c[m + a] = f[a]
    <2>1. /\ c \in Seq(Nat) /\ Len(c) = Len(b) + Len(f)
          /\ \A a \in 1..Len(b) : c[a] = b[a]
          /\ \A a \in 1..Len(f) : c[Len(b) + a] = f[a]
      <3>1. b \in Seq(Nat) /\ f \in Seq(Nat) /\ c = b \o f
        BY <1>4, <1>5
      <3>2. b \in Seq(Nat) /\ f \in Seq(Nat) /\ Joins(b, f, c)
        BY ONLY <3>1 DEF Joins
      <3>3. IsJoined(Nat, b, f, c)
        BY ONLY <3>2, WireJoined
      <3> QED
        BY ONLY <3>3 DEF IsJoined
    <2>2. Len(b) = m /\ Len(f) = HeaderSize + l
      BY <1>4
    <2>3. m + (HeaderSize + l) = m + HeaderSize + l
      BY ONLY <1>1, <1>3 DEF HeaderSize
    <2> QED
      BY ONLY <2>1, <2>2, <2>3
  <1>7. /\ Len(u) = n + 1 /\ u[n + 1] = p /\ \A i \in 1..n : u[i] = s[i]
    BY <1>1, <1>5
  <1>8. /\ cut[k] = 0 /\ cut[n] = m /\ \A i, j \in k..n : i <= j => cut[i] <= cut[j]
        /\ \A i \in (k + 1)..n : /\ cut[i] = cut[i - 1] + HeaderSize + Len(Encode(s[i]))
                                 /\ FrameAt(b, cut[i - 1], Encode(s[i]))
    BY DEF Cut
  <1>9. /\ \A i \in k..n : cut[i] \in Nat /\ cut[i] <= m
        /\ \A i \in (k + 1)..n : /\ i - 1 \in k..n /\ i \in 1..n /\ cut[i - 1] \in Nat
                                 /\ cut[i - 1] + HeaderSize + Len(Encode(s[i])) <= m
    BY CutWithin
  <1>10. /\ e \in [Nat -> Int] /\ e[n + 1] = m + HeaderSize + l /\ \A i \in 0..n : e[i] = cut[i]
    <2>1. n + 1 \in Nat /\ m + HeaderSize + l \in Int
      BY <1>1, <1>3 DEF HeaderSize
    <2>2. \A i \in 0..n : i \in Nat /\ i # n + 1
      BY <1>1
    <2> HIDE DEF n, m, l
    <2> QED
      BY <2>1, <2>2
  <1> HIDE DEF e
  <1>11. \A i \in 1..n : Encode(s[i]) \in Seq(Nat) /\ Len(Encode(s[i])) \in Nat
    BY SizesOf
  <1> HIDE DEF n, m, l
  <1>12. e[k] = 0 /\ e[n + 1] = Len(c)
    BY <1>1, <1>6, <1>8, <1>10
  <1>13. ASSUME NEW i \in k..(n + 1), NEW j \in k..(n + 1), i <= j PROVE e[i] <= e[j]
    <2>1. CASE j <= n
      <3>1. i \in k..n /\ j \in k..n /\ i \in 0..n /\ j \in 0..n
        BY <1>1, <1>13, <2>1
      <3> QED
        BY <1>8, <1>10, <1>13, <3>1
    <2>2. CASE j = n + 1 /\ i <= n
      <3>1. i \in k..n /\ i \in 0..n
        BY <1>1, <2>2
      <3>2. e[i] \in Nat /\ e[i] <= m
        BY <1>9, <1>10, <3>1
      <3>3. m <= m + HeaderSize + l
        BY ONLY <1>1, <1>3 DEF HeaderSize
      <3>4. e[j] = m + HeaderSize + l /\ m + HeaderSize + l \in Int
        BY <1>1, <1>3, <1>10, <2>2 DEF HeaderSize
      <3> QED
        BY ONLY <1>1, <3>2, <3>3, <3>4
    <2>3. CASE i = n + 1 /\ j = n + 1
      BY <1>1, <1>3, <1>10, <2>3 DEF HeaderSize
    <2> QED
      BY <1>1, <1>13, <2>1, <2>2, <2>3
  <1>14. ASSUME NEW i \in (k + 1)..(n + 1)
         PROVE  e[i] = e[i - 1] + HeaderSize + Len(Encode(u[i])) /\ FrameAt(c, e[i - 1], Encode(u[i]))
    <2>1. CASE i <= n
      <3>1. i \in (k + 1)..n /\ i \in 1..n /\ i \in 0..n /\ i - 1 \in 0..n
        BY <1>1, <2>1
      <3>2. /\ e[i] = cut[i] /\ e[i - 1] = cut[i - 1] /\ u[i] = s[i] /\ cut[i - 1] \in Nat
            /\ cut[i] = cut[i - 1] + HeaderSize + Len(Encode(s[i])) /\ FrameAt(b, cut[i - 1], Encode(s[i]))
            /\ cut[i - 1] + HeaderSize + Len(Encode(s[i])) <= m
        BY <1>7, <1>8, <1>9, <1>10, <3>1
      <3>3. PICK x, at : x = Encode(s[i]) /\ at = cut[i - 1]
        OBVIOUS
      <3>4. x \in Seq(Nat) /\ Len(x) \in Nat /\ at \in Nat /\ at \in Int
        <4>1. x \in Seq(Nat) /\ Len(x) \in Nat
          BY ONLY <1>11, <3>1, <3>3
        <4>2. at \in Nat
          BY ONLY <3>2, <3>3
        <4> QED
          BY ONLY <4>1, <4>2
      <3>5. FrameAt(b, at, x) /\ at + HeaderSize + Len(x) <= m
        BY <3>2, <3>3
      <3>6. \A y \in 1..(HeaderSize + Len(x)) : c[at + y] = b[at + y]
        <4> TAKE y \in 1..(HeaderSize + Len(x))
        <4>1. at + y \in 1..m
          BY ONLY <1>1, <3>4, <3>5 DEF HeaderSize
        <4> QED
          BY <1>6, <4>1
      <3>7. FrameAt(c, at, x)
        BY ONLY <1>6, <3>4, <3>5, <3>6, b \in Seq(Nat), FrameMoved
      <3> QED
        BY <3>2, <3>3, <3>7
    <2>2. CASE i = n + 1
      <3>1. n \in 0..n /\ i - 1 = n
        BY <1>1, <2>2
      <3>2. e[i - 1] = m /\ e[i] = m + HeaderSize + l /\ u[i] = p
        BY <1>7, <1>8, <1>10, <2>2, <3>1
      <3>3. FrameAt(c, m, w)
        <4>1. c[m + 1] = Magic /\ c[m + 2] = l
          <5>1. 1 \in 1..(HeaderSize + l) /\ 2 \in 1..(HeaderSize + l)
            BY <1>3 DEF HeaderSize
          <5> QED
            BY <1>4, <1>6, <5>1
        <4>2. ASSUME NEW j \in 1..l PROVE c[m + HeaderSize + j] = w[j]
          <5>1. HeaderSize + j \in 1..(HeaderSize + l) /\ m + (HeaderSize + j) = m + HeaderSize + j
            BY <1>1, <1>3 DEF HeaderSize
          <5> QED
            BY <1>4, <1>6, <5>1
        <4> QED
          BY <1>3, <4>1, <4>2 DEF FrameAt, l
      <3> QED
        BY <3>2, <3>3 DEF w, l
    <2>3. i <= n \/ i = n + 1
      BY ONLY <1>1, i \in (k + 1)..(n + 1)
    <2> QED
      BY <2>1, <2>2, <2>3
  <1>15. Cut(c, u, k, e)
    BY <1>7, <1>12, <1>13, <1>14 DEF Cut
  <1> QED
    BY <1>10, <1>15

\* The first frame, and what is left when it is taken.
CutsOff(b, d, w) ==
  w \in Seq(Nat) /\ FrameAt(b, 0, w) /\ HeaderSize + Len(w) <= Len(b) /\ d = HeaderSize + Len(w)

LEMMA CutFirst ==
  ASSUME NEW b \in Seq(Nat), NEW s \in Seq(WirePackets), NEW k \in Nat, k < Len(s),
         NEW cut \in [Nat -> Int], Cut(b, s, k, cut), NEW w, w = Encode(s[k + 1])
  PROVE  CutsOff(b, cut[k + 1], w)
  <1>1. k + 1 \in (k + 1)..Len(s) /\ k <= Len(s) /\ k + 1 \in 1..Len(s) /\ (k + 1) - 1 = k
    OBVIOUS
  <1>2. /\ cut[k] = 0 /\ cut[k + 1] = cut[(k + 1) - 1] + HeaderSize + Len(Encode(s[k + 1]))
        /\ FrameAt(b, cut[(k + 1) - 1], Encode(s[k + 1]))
    BY <1>1 DEF Cut
  <1>3. cut[(k + 1) - 1] + HeaderSize + Len(Encode(s[k + 1])) <= Len(b)
    BY <1>1, CutWithin
  <1>4. w \in Seq(Nat) /\ Len(w) \in Nat
    BY <1>1, SizesOf
  <1> QED
    BY <1>1, <1>2, <1>3, <1>4 DEF HeaderSize, CutsOff

LEMMA CutTaken ==
  ASSUME NEW b \in Seq(Nat), NEW s \in Seq(WirePackets), NEW k \in Nat, k < Len(s),
         NEW cut \in [Nat -> Int], Cut(b, s, k, cut), NEW c \in Seq(Nat), NEW d \in Nat, d = cut[k + 1],
         Len(c) = Len(b) - d, \A x \in 1..Len(c) : c[x] = b[d + x]
  PROVE  \E e \in [Nat -> Int] : Cut(c, s, k + 1, e)
  <1> DEFINE n == Len(s)
             m == Len(b)
             e == [i \in Nat |-> cut[i] - d]
  <1>1. n \in Nat /\ m \in Nat /\ k < n /\ k <= n /\ Len(c) \in Nat
    OBVIOUS
  <1>2. e \in [Nat -> Int] /\ \A i \in Nat : e[i] = cut[i] - d /\ cut[i] \in Int
    <2>1. \A i \in Nat : cut[i] \in Int
      OBVIOUS
    <2>2. \A i \in Nat : cut[i] - d \in Int
      BY ONLY <2>1, d \in Nat
    <2> QED
      BY ONLY <2>1, <2>2
  <1>3. /\ cut[n] = m /\ \A i, j \in k..n : i <= j => cut[i] <= cut[j]
        /\ \A i \in (k + 1)..n : /\ cut[i] = cut[i - 1] + HeaderSize + Len(Encode(s[i]))
                                 /\ FrameAt(b, cut[i - 1], Encode(s[i]))
    BY DEF Cut
  <1>4. \A i \in (k + 1)..n : /\ i - 1 \in k..n /\ i \in 1..n /\ cut[i - 1] \in Nat
                              /\ cut[i - 1] + HeaderSize + Len(Encode(s[i])) <= m
    BY <1>1, CutWithin
  <1>5. \A i \in 1..n : Encode(s[i]) \in Seq(Nat) /\ Len(Encode(s[i])) \in Nat
    BY SizesOf
  <1> HIDE DEF e, n, m
  <1>6. e[k + 1] = 0 /\ e[n] = Len(c)
    <2>1. k + 1 \in Nat /\ n \in Nat
      BY <1>1
    <2>2. e[k + 1] = d - d /\ e[n] = m - d
      BY <1>2, <1>3, <2>1
    <2>3. Len(c) = m - d /\ d - d = 0
      BY DEF m
    <2> QED
      BY ONLY <2>2, <2>3
  <1>7. ASSUME NEW i \in (k + 1)..n, NEW j \in (k + 1)..n, i <= j PROVE e[i] <= e[j]
    <2>1. i \in k..n /\ j \in k..n /\ i \in Nat /\ j \in Nat
      BY ONLY <1>1, k \in Nat, i \in (k + 1)..n, j \in (k + 1)..n
    <2>2. cut[i] <= cut[j]
      BY <1>3, <1>7, <2>1
    <2>3. cut[i] \in Int /\ cut[j] \in Int /\ e[i] = cut[i] - d /\ e[j] = cut[j] - d
      BY <1>2, <2>1
    <2>4. cut[i] - d <= cut[j] - d
      BY ONLY <2>2, <2>3, d \in Nat
    <2> QED
      BY ONLY <2>3, <2>4
  <1>8. ASSUME NEW i \in ((k + 1) + 1)..n
        PROVE  e[i] = e[i - 1] + HeaderSize + Len(Encode(s[i])) /\ FrameAt(c, e[i - 1], Encode(s[i]))
    <2>a. i \in Int /\ k + 2 <= i /\ i <= n /\ k \in Nat /\ n \in Nat
      BY ONLY <1>1, k \in Nat, i \in ((k + 1) + 1)..n
    <2>b. i \in (k + 1)..n /\ i \in 1..n /\ i \in Nat
      BY ONLY <2>a
    <2>c. i - 1 \in Nat /\ i - 1 \in k..n /\ k + 1 \in k..n /\ k + 1 <= i - 1
      BY ONLY <2>a
    <2>1. /\ i \in (k + 1)..n /\ i \in Nat /\ i - 1 \in Nat /\ i - 1 \in k..n /\ k + 1 \in k..n /\ k + 1 <= i - 1
          /\ i \in 1..n
      BY ONLY <2>b, <2>c
    <2>2. PICK x, at, to : x = Encode(s[i]) /\ at = cut[i - 1] /\ to = e[i - 1]
      OBVIOUS
    <2>3. x \in Seq(Nat) /\ Len(x) \in Nat /\ at \in Nat /\ to = at - d /\ to \in Int
      BY <1>2, <1>4, <1>5, <2>1, <2>2
    <2>4. cut[i] = at + HeaderSize + Len(x) /\ FrameAt(b, at, x) /\ at + HeaderSize + Len(x) <= m
      BY <1>3, <1>4, <2>1, <2>2
    <2>5. d <= at
      BY <1>3, <2>1, <2>2
    <2>6. \A y \in 1..(HeaderSize + Len(x)) : c[to + y] = b[at + y]
      <3> TAKE y \in 1..(HeaderSize + Len(x))
      <3>1. Len(c) = m - d /\ d \in Nat /\ to = at - d /\ at \in Nat /\ Len(x) \in Nat /\ m \in Nat
        BY <1>1, <2>3 DEF m
      <3>a. y \in Int /\ 1 <= y /\ y <= 2 + Len(x)
        BY ONLY <3>1, y \in 1..(HeaderSize + Len(x)) DEF HeaderSize
      <3>b. at + 2 + Len(x) <= m /\ d <= at
        BY <2>4, <2>5 DEF HeaderSize
      <3>e. at \in Nat /\ m \in Nat /\ d \in Nat /\ Len(x) \in Nat
        BY ONLY <3>1
      <3>c. at + y \in Nat /\ at + y <= m /\ d < at + y
        BY ONLY <3>a, <3>b, <3>e
      <3>d. to + y = (at + y) - d
        BY ONLY <2>3, <3>1, <3>a
      <3>2. to + y = (at + y) - d /\ at + y <= m /\ d < at + y /\ at + y \in Nat
        BY ONLY <3>c, <3>d
      <3>3. to + y \in 1..Len(c)
        BY ONLY <3>1, <3>2
      <3>4. d + (to + y) = at + y
        BY ONLY <3>1, <3>2
      <3> QED
        BY <3>3, <3>4
    <2>7. FrameAt(c, to, x)
      <3>1. at \in Int /\ c \in Seq(Nat) /\ b \in Seq(Nat)
        BY <2>3
      <3> QED
        BY ONLY <2>3, <2>4, <2>6, <3>1, FrameMoved
    <2>8. e[i] = to + HeaderSize + Len(x)
      <3>1. e[i] = (at + HeaderSize + Len(x)) - d
        BY <1>2, <2>1, <2>4
      <3> QED
        BY ONLY <2>3, <3>1, d \in Nat DEF HeaderSize
    <2> QED
      BY <2>2, <2>7, <2>8
  <1>9. Cut(c, s, k + 1, e)
    BY <1>6, <1>7, <1>8 DEF Cut, n
  <1> QED
    BY <1>2, <1>9

LEMMA WireStarts ==
  ASSUME WireInit
  PROVE  WireInv
  <1>1. Len(<<>>) = 0 /\ Len(sent) = 0 /\ Len(taken) = 0 /\ Len(frames) = 0 /\ Len(stream) = 0 /\ Len(buffer) = 0
    BY DEF WireInit
  <1>2. WireTypes
    <2>1. 0 \in 0..WireMaxSends
      BY WireConstants
    <2>2. taken \in Seq(PacketFields) /\ \A i \in DOMAIN taken : FieldsAgree(taken[i])
      BY DEF WireInit
    <2>3. /\ buffer \in Seq(Nat) /\ frames \in Seq(Seq(Nat)) /\ sent \in Seq(WirePackets)
          /\ stream \in Seq(Nat) /\ stream \in Seq(Seq(Nat))
      BY DEF WireInit
    <2>4. wireMedium \in {"tcp", "ble"} /\ wireOpen = TRUE /\ feeding = FALSE /\ wireForeign = FALSE /\ wireSends = 0
          /\ buffer = <<>> /\ frames = <<>>
      BY DEF WireInit
    <2> QED
      BY <2>1, <2>2, <2>3, <2>4 DEF WireTypes
  <1>3. WireIdle
    BY <1>1 DEF WireIdle, HeaderSize, WireInit
  <1>4. WireHistory
    BY <1>1 DEF WireHistory, Extracted
  <1>5. WireStream
    <2> DEFINE cut == [i \in Nat |-> 0]
    <2>1. buffer \o stream = <<>> /\ Len(buffer \o stream) = 0
      BY DEF WireInit
    <2>2. Cut(buffer \o stream, sent, 0, cut)
      <3>1. cut[0] = 0 /\ \A i \in 0..0 : cut[i] = 0
        OBVIOUS
      <3>2. \A i \in (0 + 1)..0 : FALSE
        OBVIOUS
      <3> HIDE DEF cut
      <3> QED
        BY <1>1, <2>1, <3>1, <3>2 DEF Cut
    <2>3. cut \in [Nat -> Int] /\ 0 + 0 = 0
      OBVIOUS
    <2> HIDE DEF cut
    <2> QED
      BY <1>1, <2>2, <2>3 DEF WireStream
  <1>6. WireWrites
    BY <1>1 DEF WireWrites, Written
  <1> QED
    BY <1>2, <1>3, <1>4, <1>5, <1>6 DEF WireInv

LEMMA ExtractedMore ==
  ASSUME NEW s \in Seq(WirePackets), NEW T, NEW t \in Seq(T), NEW F, NEW f \in Seq(F), Extracted(t, f, s),
         NEW p, NEW u, u = Append(s, p)
  PROVE  Extracted(t, f, u)
  <1>1. Len(s) \in Nat /\ Len(t) \in Nat /\ Len(f) \in Nat /\ Len(u) = Len(s) + 1 /\ \A i \in 1..Len(s) : u[i] = s[i]
    OBVIOUS
  <1>2. /\ Len(t) + Len(f) <= Len(s) /\ \A i \in 1..Len(t) : t[i] = s[i]
        /\ \A i \in 1..Len(f) : f[i] = Encode(s[Len(t) + i])
    BY DEF Extracted
  <1>3. (\A i \in 1..Len(t) : i \in 1..Len(s)) /\ (\A i \in 1..Len(f) : Len(t) + i \in 1..Len(s))
    BY ONLY <1>1, <1>2
  <1>4. Len(t) + Len(f) <= Len(u)
    BY ONLY <1>1, <1>2
  <1>5. \A i \in 1..Len(t) : t[i] = u[i]
    BY <1>1, <1>2, <1>3
  <1>6. \A i \in 1..Len(f) : f[i] = Encode(u[Len(t) + i])
    BY <1>1, <1>2, <1>3
  <1> QED
    BY <1>4, <1>5, <1>6 DEF Extracted

\* Without the frames that are lost with the connection.
LEMMA ExtractedLess ==
  ASSUME NEW T, NEW t \in Seq(T), NEW F, NEW f \in Seq(F), NEW s \in Seq(WirePackets), Extracted(t, f, s)
  PROVE  Extracted(t, <<>>, s)
  <1>1. Len(s) \in Nat /\ Len(t) \in Nat /\ Len(f) \in Nat /\ Len(<<>>) = 0
    OBVIOUS
  <1>2. Len(t) + Len(<<>>) <= Len(s)
    BY <1>1 DEF Extracted
  <1> QED
    BY <1>1, <1>2 DEF Extracted

LEMMA WrittenMore ==
  ASSUME NEW s \in Seq(WirePackets), NEW T, NEW t \in Seq(T), NEW W, NEW w \in Seq(W), Written(t, w, s),
         NEW p \in WirePackets, NEW fill \in {0, 1}, NEW v, v = Append(w, Padded(Encode(p), fill)),
         NEW u, u = Append(s, p)
  PROVE  Written(t, v, u)
  <1>1. /\ Len(s) \in Nat /\ Len(t) \in Nat /\ Len(w) \in Nat /\ Len(t) + Len(w) = Len(s)
        /\ \A i \in 1..Len(w) : \E fl \in {0, 1} : w[i] = Padded(Encode(s[Len(t) + i]), fl)
    BY DEF Written
  <1>2. Len(u) = Len(s) + 1 /\ u[Len(s) + 1] = p /\ \A i \in 1..Len(s) : u[i] = s[i]
    OBVIOUS
  <1>3. Len(v) = Len(w) + 1 /\ v[Len(w) + 1] = Padded(Encode(p), fill) /\ \A i \in 1..Len(w) : v[i] = w[i]
    OBVIOUS
  <1>4. Len(t) + Len(v) = Len(u)
    BY ONLY <1>1, <1>2, <1>3
  <1>5. ASSUME NEW i \in 1..Len(v) PROVE \E fl \in {0, 1} : v[i] = Padded(Encode(u[Len(t) + i]), fl)
    <2>1. CASE i = Len(w) + 1
      <3>a. Len(s) \in Nat /\ Len(t) \in Nat /\ Len(w) \in Nat /\ Len(t) + Len(w) = Len(s)
        BY <1>1
      <3>b. Len(t) + (Len(w) + 1) = Len(s) + 1
        BY ONLY <3>a
      <3>1. Len(t) + i = Len(s) + 1
        BY ONLY <2>1, <3>b
      <3> QED
        BY <1>2, <1>3, <2>1, <3>1
    <2>2. CASE i # Len(w) + 1
      <3>1. i \in 1..Len(w) /\ Len(t) + i \in 1..Len(s)
        BY ONLY <1>1, <1>3, <2>2, i \in 1..Len(v)
      <3> QED
        BY <1>1, <1>2, <1>3, <3>1
    <2> QED
      BY <2>1, <2>2
  <1> QED
    BY <1>4, <1>5 DEF Written

LEMMA WireTied ==
  ASSUME NEW a \in Seq(Nat), NEW b \in Seq(Nat), NEW c \in Seq(Nat)
  PROVE  a \o (b \o c) = (a \o b) \o c /\ a \o b \in Seq(Nat) /\ b \o c \in Seq(Nat)
  OBVIOUS

\* Closing leaves what was delivered.
LEMMA WireCloses ==
  ASSUME WireInv, CloseWire, UNCHANGED <<wireMedium, stream, sent, taken, wireForeign>>,
         wireSends' \in 0..WireMaxSends
  PROVE  WireInv'
  <1>1. wireOpen' = FALSE /\ buffer' = <<>> /\ frames' = <<>> /\ feeding' = FALSE
    BY DEF CloseWire
  <1>2. WireTypes'
    <2>1. buffer' \in Seq(Nat) /\ frames' \in Seq(Seq(Nat))
      BY <1>1
    <2>2. WireTypes
      BY DEF WireInv
    <2> QED
      BY <1>1, <2>1, <2>2 DEF WireTypes
  <1>3. WireIdle'
    <2>1. Len(buffer') = 0
      BY <1>1
    <2> QED
      BY <1>1, <2>1 DEF WireIdle, HeaderSize
  <1>4. WireHistory'
    <2> SUFFICES ASSUME ~wireForeign PROVE Extracted(taken, <<>>, sent)
      BY <1>1 DEF WireHistory
    <2>1. taken \in Seq(PacketFields) /\ frames \in Seq(Seq(Nat)) /\ sent \in Seq(WirePackets) /\ Extracted(taken, frames, sent)
      BY DEF WireInv, WireTypes, WireHistory
    <2> QED
      BY ONLY <2>1, ExtractedLess
  <1>5. WireStream'
    BY <1>1 DEF WireStream
  <1>6. WireWrites'
    BY DEF WireInv, WireWrites
  <1> QED
    BY <1>2, <1>3, <1>4, <1>5, <1>6 DEF WireInv

LEMMA WireSendKeeps ==
  ASSUME WireInv, NEW p \in WirePackets, WireSend(p)
  PROVE  WireInv'
  <1>1. /\ WireTypes /\ WireIdle /\ WireHistory /\ WireStream /\ WireWrites
        /\ sent \in Seq(WirePackets) /\ taken \in Seq(PacketFields) /\ frames \in Seq(Seq(Nat)) /\ buffer \in Seq(Nat)
    BY DEF WireInv, WireTypes
  <1>2. wireSends' \in 0..WireMaxSends
    BY <1>1, WireConstants DEF WireSend, WireTypes
  <1>3. UNCHANGED <<wireMedium, taken, wireForeign>> /\ wireOpen
    BY DEF WireSend
  <1>4. Encode(p) \in Seq(Nat)
    BY PacketsAgree, EncodeIs DEF EncodedAs
  <1>5. ASSUME sent' = Append(sent, p), UNCHANGED <<wireOpen, buffer, frames, feeding>> PROVE sent' \in Seq(WirePackets) /\ WireIdle' /\ WireHistory'
    <2>1. sent' \in Seq(WirePackets)
      BY <1>1, <1>5
    <2>2. WireIdle'
      BY <1>1, <1>5 DEF WireIdle, HeaderBad, FrameComplete
    <2>3. WireHistory'
      <3> SUFFICES ASSUME ~wireForeign PROVE Extracted(taken, frames, sent')
        BY <1>3, <1>5 DEF WireHistory
      <3>1. Extracted(taken, frames, sent)
        BY <1>1 DEF WireHistory
      <3> QED
        BY ONLY <1>1, <1>5, <3>1, ExtractedMore
    <2> QED
      BY <2>1, <2>2, <2>3
  <1>6. CASE wireMedium = "ble"
    <2>1. PICK fill \in {0, 1} : stream' = Append(stream, Padded(Encode(p), fill))
      BY <1>6 DEF WireSend
    <2>2. sent' = Append(sent, p) /\ UNCHANGED <<wireOpen, buffer, frames, feeding>>
      BY <1>6 DEF WireSend
    <2>3. sent' \in Seq(WirePackets) /\ WireIdle' /\ WireHistory'
      BY <1>5, <2>2
    <2>4. stream' \in Seq(Seq(Nat)) /\ stream \in Seq(Seq(Nat))
      <3>1. stream \in Seq(Seq(Nat))
        BY <1>1, <1>6 DEF WireTypes
      <3>2. Padded(Encode(p), fill) \in Seq(Nat)
        BY <1>4, PaddedIs DEF PaddedBy
      <3> QED
        BY ONLY <2>1, <3>1, <3>2
    <2>5. WireTypes'
      BY <1>1, <1>2, <1>3, <1>6, <2>2, <2>3, <2>4 DEF WireTypes
    <2>6. WireStream'
      BY <1>3, <1>6 DEF WireStream
    <2>7. WireWrites'
      <3> SUFFICES ASSUME ~wireForeign PROVE Written(taken, stream', sent')
        BY <1>3 DEF WireWrites
      <3>1. Written(taken, stream, sent)
        BY <1>1, <1>6 DEF WireWrites
      <3> QED
        BY ONLY <1>1, <2>1, <2>2, <2>4, <3>1, p \in WirePackets, WrittenMore
    <2> QED
      BY <2>3, <2>5, <2>6, <2>7 DEF WireInv
  <1>7. CASE wireMedium = "tcp" /\ FitsFrame(Encode(p))
    <2>1. /\ stream' = stream \o FrameOf(Encode(p)) /\ sent' = Append(sent, p)
          /\ UNCHANGED <<wireOpen, buffer, frames, feeding>>
      BY <1>7 DEF WireSend
    <2>2. sent' \in Seq(WirePackets) /\ WireIdle' /\ WireHistory'
      BY <1>5, <2>1
    <2>3. stream \in Seq(Nat) /\ FrameOf(Encode(p)) \in Seq(Nat)
      <3>1. stream \in Seq(Nat)
        BY <1>1, <1>7 DEF WireTypes
      <3>2. <<Magic, Len(Encode(p))>> \in Seq(Nat)
        BY <1>4 DEF Magic
      <3> QED
        BY <1>4, <3>1, <3>2 DEF FrameOf
    <2>4. stream' \in Seq(Nat)
      BY <2>1, <2>3, WireTied
    <2>5. WireTypes'
      BY <1>1, <1>2, <1>3, <1>7, <2>1, <2>2, <2>4 DEF WireTypes
    <2>6. WireStream'
      <3> SUFFICES ASSUME ~wireForeign
                   PROVE  \E e \in [Nat -> Int] : Cut(buffer \o stream', sent', Len(taken) + Len(frames), e)
        BY <1>3, <2>1 DEF WireStream
      <3>1. PICK b, c, k : b = buffer \o stream /\ c = buffer \o stream' /\ k = Len(taken) + Len(frames)
        OBVIOUS
      <3>2. c = b \o FrameOf(Encode(p)) /\ b \in Seq(Nat)
        BY <1>1, <2>1, <2>3, <3>1, WireTied
      <3>3. k \in Nat /\ k <= Len(sent)
        BY <1>1, <3>1 DEF WireHistory, Extracted
      <3>4. PICK cut \in [Nat -> Int] : Cut(b, sent, k, cut)
        BY <1>1, <1>3, <1>7, <3>1 DEF WireStream
      <3>5. \E e \in [Nat -> Int] : Cut(c, sent', k, e)
        BY ONLY <1>1, <1>7, <2>1, <3>2, <3>3, <3>4, p \in WirePackets, CutSent
      <3> QED
        BY <3>1, <3>5
    <2>7. WireWrites'
      BY <1>3, <1>7 DEF WireWrites
    <2> QED
      BY <2>2, <2>5, <2>6, <2>7 DEF WireInv
  <1>8. CASE wireMedium = "tcp" /\ ~FitsFrame(Encode(p))
    <2>1. CloseWire /\ UNCHANGED <<stream, sent>>
      BY <1>8 DEF WireSend
    <2> QED
      BY <1>2, <1>3, <2>1, WireCloses
  <1> QED
    BY <1>1, <1>6, <1>7, <1>8 DEF WireTypes

LEMMA WireForeignKeeps ==
  ASSUME WireInv, NEW w \in WireForeign, WireForeignWrite(w)
  PROVE  WireInv'
  <1>1. WireTypes /\ WireIdle
    BY DEF WireInv
  <1>2. wireSends' \in 0..WireMaxSends
    BY <1>1, WireConstants DEF WireForeignWrite, WireTypes
  <1>3. /\ wireForeign' = TRUE /\ UNCHANGED <<wireMedium, wireOpen, buffer, frames, feeding, sent, taken>>
        /\ wireMedium = "ble" => stream' = Append(stream, w)
        /\ wireMedium = "tcp" => stream' = stream \o w
    BY DEF WireForeignWrite
  <1>4. w \in Seq(Nat)
    BY WireConstants
  <1>5. wireMedium = "ble" => stream' \in Seq(Seq(Nat))
    <2> HAVE wireMedium = "ble"
    <2>1. stream \in Seq(Seq(Nat)) /\ stream' = Append(stream, w)
      BY <1>1, <1>3 DEF WireTypes
    <2> QED
      BY ONLY <1>4, <2>1
  <1>6. wireMedium = "tcp" => stream' \in Seq(Nat)
    <2> HAVE wireMedium = "tcp"
    <2>1. stream \in Seq(Nat) /\ stream' = stream \o w
      BY <1>1, <1>3 DEF WireTypes
    <2> QED
      BY ONLY <1>4, <2>1, WireTied
  <1>7. WireTypes'
    BY <1>1, <1>2, <1>3, <1>5, <1>6 DEF WireTypes
  <1>8. WireIdle'
    BY <1>1, <1>3 DEF WireIdle, HeaderBad, FrameComplete
  <1>9. WireHistory' /\ WireStream' /\ WireWrites'
    BY <1>3 DEF WireHistory, WireStream, WireWrites
  <1> QED
    BY <1>7, <1>8, <1>9 DEF WireInv

\* Where a read cuts the stream makes no difference to the bytes.
ReadFrom(b, s, n, c, r) ==
  n \in Nat /\ n <= Len(s) /\ c = b \o SubSeq(s, 1, n) /\ r = SubSeq(s, n + 1, Len(s))

SameBytes(b, s, c, r) == c \in Seq(Nat) /\ r \in Seq(Nat) /\ c \o r = b \o s

LEMMA ReadOn ==
  ASSUME NEW b \in Seq(Nat), NEW s \in Seq(Nat), NEW n, NEW c, NEW r, ReadFrom(b, s, n, c, r)
  PROVE  SameBytes(b, s, c, r)
  <1>0. n \in Nat /\ n <= Len(s) /\ c = b \o SubSeq(s, 1, n) /\ r = SubSeq(s, n + 1, Len(s))
    BY DEF ReadFrom
  <1>1. PICK h : h = SubSeq(s, 1, n)
    OBVIOUS
  <1>2. h \in Seq(Nat) /\ Len(h) = n /\ \A i \in 1..n : h[i] = s[i]
    BY <1>0, <1>1
  <1>3. Len(s) \in Nat /\ r \in Seq(Nat) /\ Len(r) = Len(s) - n /\ \A i \in 1..(Len(s) - n) : r[i] = s[n + i]
    <2>1. PICK m : m = Len(s) - n
      OBVIOUS
    <2>2. Len(s) \in Nat /\ m \in Nat /\ n + m = Len(s) /\ n + m <= Len(s)
      BY <1>0, <2>1
    <2>3. s \in Seq(Nat) /\ n \in Nat /\ m \in Nat /\ n + m <= Len(s) /\ r = SubSeq(s, n + 1, n + m)
      BY <1>0, <2>2
    <2>4. r \in Seq(Nat) /\ Len(r) = m /\ \A i \in 1..m : r[i] = s[n + i]
      <3>c. CutOut(s, n, m, r) /\ s \in Seq(Nat)
        BY <2>3 DEF CutOut
      <3>d. IsCutOut(s, n, m, r)
        BY ONLY <3>c, WireSubSeq
      <3> QED
        BY <3>d DEF IsCutOut
    <2> QED
      BY ONLY <2>1, <2>2, <2>4
  <1>4. h \o r = s
    <2>1. PICK x : x = h \o r
      OBVIOUS
    <2>2. /\ x \in Seq(Nat) /\ Len(x) = Len(h) + Len(r) /\ \A i \in 1..Len(h) : x[i] = h[i]
          /\ \A i \in 1..Len(r) : x[Len(h) + i] = r[i]
      <3>1. h \in Seq(Nat) /\ r \in Seq(Nat) /\ x = h \o r
        BY <1>2, <1>3, <2>1
      <3>2. h \in Seq(Nat) /\ r \in Seq(Nat) /\ Joins(h, r, x)
        BY ONLY <3>1 DEF Joins
      <3>3. IsJoined(Nat, h, r, x)
        BY ONLY <3>2, WireJoined
      <3> QED
        BY ONLY <3>3 DEF IsJoined
    <2>3. Len(x) = Len(s)
      BY ONLY <1>0, <1>2, <1>3, <2>2
    <2>4. \A i \in 1..Len(x) : x[i] = s[i]
      <3> TAKE i \in 1..Len(x)
      <3>1. CASE i <= n
        <4>1. i \in 1..Len(h)
          BY <1>0, <1>2, <1>3, <2>3, <3>1
        <4> QED
          BY <1>2, <2>2, <4>1
      <3>2. CASE i > n
        <4>1. PICK j : j = i - n
          OBVIOUS
        <4>2. j \in 1..Len(r) /\ n + j = i
          BY <1>0, <1>3, <2>3, <3>2, <4>1
        <4>3. x[n + j] = r[j] /\ r[j] = s[n + j]
          BY <1>2, <1>3, <2>2, <4>2
        <4> QED
          BY <4>2, <4>3
      <3>3. i <= n \/ i > n
        BY <1>0, <1>3, <2>3
      <3> QED
        BY <3>1, <3>2, <3>3
    <2> QED
      BY ONLY <2>1, <2>2, <2>3, <2>4, s \in Seq(Nat), WireSame
  <1>5. c = b \o h
    BY <1>0, <1>1
  <1>6. c \in Seq(Nat) /\ b \o (h \o r) = (b \o h) \o r
    BY ONLY <1>2, <1>3, <1>5, b \in Seq(Nat), WireTied
  <1> QED
    BY <1>3, <1>4, <1>5, <1>6 DEF SameBytes

LEMMA WireReadKeeps ==
  ASSUME WireInv, NEW n \in 1..WireReadSize, n <= Len(stream), WireRead(n)
  PROVE  WireInv'
  <1>1. WireTypes /\ WireIdle /\ WireHistory /\ WireStream /\ buffer \in Seq(Nat)
    BY DEF WireInv, WireTypes
  <1>2. /\ wireMedium = "tcp" /\ wireOpen /\ ~feeding /\ feeding' = TRUE
        /\ buffer' = buffer \o SubSeq(stream, 1, n) /\ stream' = SubSeq(stream, n + 1, Len(stream))
        /\ UNCHANGED <<wireMedium, wireOpen, frames, sent, taken, wireForeign, wireSends>>
    BY DEF WireRead
  <1>3. stream \in Seq(Nat) /\ n \in Nat
    BY <1>1, <1>2 DEF WireTypes
  <1>4. buffer' \in Seq(Nat) /\ stream' \in Seq(Nat) /\ buffer' \o stream' = buffer \o stream
    <2>1. ReadFrom(buffer, stream, n, buffer', stream')
      BY <1>2, <1>3 DEF ReadFrom
    <2> QED
      <3>1. SameBytes(buffer, stream, buffer', stream')
        BY ONLY <1>1, <1>3, <2>1, ReadOn
      <3> QED
        BY <3>1 DEF SameBytes
  <1>5. WireTypes'
    BY <1>1, <1>2, <1>4 DEF WireTypes
  <1>6. WireIdle'
    BY <1>2 DEF WireIdle
  <1>7. WireHistory'
    BY <1>1, <1>2 DEF WireHistory
  <1>8. WireStream'
    BY <1>1, <1>2, <1>4 DEF WireStream
  <1>9. WireWrites'
    BY <1>2 DEF WireWrites
  <1> QED
    BY <1>5, <1>6, <1>7, <1>8, <1>9 DEF WireInv

\* feed takes the first frame off the bytes.
TakenOff(b, s, x, r, c, a) ==
  /\ x = SubSeq(b, HeaderSize + 1, HeaderSize + b[2]) /\ r = SubSeq(b, HeaderSize + b[2] + 1, Len(b))
  /\ c = r \o s /\ a = b \o s
ShiftedBy(l, x, r, c, a) ==
  /\ a \in Seq(Nat) /\ x \in Seq(Nat) /\ r \in Seq(Nat) /\ c \in Seq(Nat) /\ l \in Nat
  /\ Len(x) = l /\ \A i \in 1..l : x[i] = a[HeaderSize + i]
  /\ Len(a) >= HeaderSize /\ a[2] = l
  /\ Len(c) = Len(a) - (HeaderSize + l) /\ \A i \in 1..Len(c) : c[i] = a[HeaderSize + l + i]

LEMMA FrameTaken ==
  ASSUME NEW b \in Seq(Nat), NEW s \in Seq(Nat), Len(b) >= HeaderSize, FrameComplete(b),
         NEW x, NEW r, NEW c, NEW a, TakenOff(b, s, x, r, c, a)
  PROVE  ShiftedBy(b[2], x, r, c, a)
  <1>1. PICK l, m : l = b[2] /\ m = Len(b)
    OBVIOUS
  <1>2. m \in Nat /\ m >= HeaderSize /\ m >= HeaderSize + l /\ Len(s) \in Nat
    BY <1>1 DEF FrameComplete
  <1>3. l \in Nat /\ HeaderSize + l \in Nat /\ HeaderSize \in Nat
    BY <1>1, <1>2 DEF HeaderSize
  <1>4. x \in Seq(Nat) /\ Len(x) = l /\ \A i \in 1..l : x[i] = b[HeaderSize + i]
    <2>1. PICK h : h = HeaderSize
      OBVIOUS
    <2>2. b \in Seq(Nat) /\ h \in Nat /\ l \in Nat /\ h + l <= Len(b) /\ x = SubSeq(b, h + 1, h + l)
      BY <1>1, <1>2, <1>3, <2>1 DEF TakenOff
    <2>3. x \in Seq(Nat) /\ Len(x) = l /\ \A i \in 1..l : x[i] = b[h + i]
      <3>c. CutOut(b, h, l, x) /\ b \in Seq(Nat)
        BY <2>2 DEF CutOut
      <3>d. IsCutOut(b, h, l, x)
        BY ONLY <3>c, WireSubSeq
      <3> QED
        BY <3>d DEF IsCutOut
    <2> QED
      BY ONLY <2>1, <2>3
  <1>5. PICK d, k : d = HeaderSize + l /\ k = m - d
    OBVIOUS
  <1>6. d \in Nat /\ k \in Nat /\ d + k = m /\ d + k <= Len(b)
    <2>1. d \in Nat /\ m \in Nat /\ m >= d
      BY ONLY <1>2, <1>3, <1>5
    <2>2. k = m - d
      BY <1>5
    <2>3. k \in Nat /\ d + k = m
      BY ONLY <2>1, <2>2
    <2> QED
      BY ONLY <1>1, <2>1, <2>3
  <1>7. r \in Seq(Nat) /\ Len(r) = k /\ \A i \in 1..k : r[i] = b[d + i]
    <2>1. b \in Seq(Nat) /\ d \in Nat /\ k \in Nat /\ d + k <= Len(b) /\ r = SubSeq(b, d + 1, d + k)
      BY <1>1, <1>5, <1>6 DEF TakenOff
    <2> QED
      <3>c. CutOut(b, d, k, r) /\ b \in Seq(Nat)
        BY <2>1 DEF CutOut
      <3>d. IsCutOut(b, d, k, r)
        BY ONLY <3>c, WireSubSeq
      <3> QED
        BY <3>d DEF IsCutOut
  <1>8. /\ a \in Seq(Nat) /\ Len(a) = m + Len(s) /\ \A i \in 1..m : a[i] = b[i]
        /\ \A i \in 1..Len(s) : a[m + i] = s[i]
    <2>1. b \in Seq(Nat) /\ s \in Seq(Nat) /\ a = b \o s
      BY DEF TakenOff
    <2>2. /\ a \in Seq(Nat) /\ Len(a) = Len(b) + Len(s) /\ \A i \in 1..Len(b) : a[i] = b[i]
          /\ \A i \in 1..Len(s) : a[Len(b) + i] = s[i]
      <3>1. b \in Seq(Nat) /\ s \in Seq(Nat) /\ Joins(b, s, a)
        BY ONLY <2>1 DEF Joins
      <3>2. IsJoined(Nat, b, s, a)
        BY ONLY <3>1, WireJoined
      <3> QED
        BY ONLY <3>2 DEF IsJoined
    <2> QED
      BY ONLY <1>1, <2>2
  <1>9. /\ c \in Seq(Nat) /\ Len(c) = k + Len(s) /\ \A i \in 1..k : c[i] = r[i]
        /\ \A i \in 1..Len(s) : c[k + i] = s[i]
    <2>1. /\ c \in Seq(Nat) /\ Len(c) = Len(r) + Len(s) /\ \A i \in 1..Len(r) : c[i] = r[i]
          /\ \A i \in 1..Len(s) : c[Len(r) + i] = s[i]
      <3>1. r \in Seq(Nat) /\ s \in Seq(Nat) /\ c = r \o s
        BY <1>7 DEF TakenOff
      <3>2. r \in Seq(Nat) /\ s \in Seq(Nat) /\ Joins(r, s, c)
        BY ONLY <3>1 DEF Joins
      <3>3. IsJoined(Nat, r, s, c)
        BY ONLY <3>2, WireJoined
      <3> QED
        BY ONLY <3>3 DEF IsJoined
    <2> QED
      BY ONLY <1>7, <2>1
  <1>10. Len(c) = Len(a) - d
    <2>1. m + Len(s) - d = (m - d) + Len(s)
      BY ONLY <1>2, <1>6
    <2>2. Len(c) = k + Len(s) /\ Len(a) = m + Len(s)
      BY <1>8, <1>9
    <2> QED
      BY ONLY <1>2, <1>5, <1>6, <2>1, <2>2
  <1>11. \A i \in 1..Len(c) : c[i] = a[d + i]
    <2> TAKE i \in 1..Len(c)
    <2>1. CASE i <= k
      <3>1. i \in 1..k /\ d + i \in 1..m
        BY ONLY <1>6, <2>1, i \in 1..Len(c)
      <3> QED
        BY ONLY <1>7, <1>8, <1>9, <3>1
    <2>2. CASE i > k
      <3>1. PICK j : j = i - k
        OBVIOUS
      <3>2. j \in 1..Len(s) /\ k + j = i /\ m + j = d + i
        BY ONLY <1>2, <1>6, <1>9, <2>2, <3>1, i \in 1..Len(c)
      <3>3. c[k + j] = s[j] /\ a[m + j] = s[j]
        BY ONLY <1>8, <1>9, <3>2
      <3> QED
        BY ONLY <3>2, <3>3
    <2>3. i <= k \/ i > k
      BY ONLY <1>6, i \in 1..Len(c)
    <2> QED
      BY <2>1, <2>2, <2>3
  <1>12. \A i \in 1..l : x[i] = a[HeaderSize + i]
    <2> TAKE i \in 1..l
    <2>1. HeaderSize + i \in 1..m
      BY ONLY <1>2, <1>3, i \in 1..l
    <2> QED
      BY ONLY <1>4, <1>8, <2>1
  <1>13. Len(a) >= HeaderSize /\ a[2] = b[2]
    <2>1. 2 \in 1..m
      BY <1>2 DEF HeaderSize
    <2>2. m + Len(s) >= HeaderSize
      BY ONLY <1>2, <1>3
    <2> QED
      BY ONLY <1>8, <2>1, <2>2
  <1> QED
    BY <1>1, <1>3, <1>4, <1>5, <1>7, <1>8, <1>9, <1>10, <1>11, <1>12, <1>13 DEF ShiftedBy

ExtractsNext(t, f, s, x, g) ==
  Len(t) + Len(f) < Len(s) /\ x = Encode(s[Len(t) + Len(f) + 1]) /\ g = Append(f, x)

LEMMA ExtractedNext ==
  ASSUME NEW s \in Seq(WirePackets), NEW T, NEW t \in Seq(T), NEW F, NEW f \in Seq(F), Extracted(t, f, s),
         NEW x, NEW g, ExtractsNext(t, f, s, x, g)
  PROVE  Extracted(t, g, s)
  <1>1. /\ Len(s) \in Nat /\ Len(t) \in Nat /\ Len(f) \in Nat /\ Len(g) = Len(f) + 1 /\ g[Len(f) + 1] = x
        /\ \A i \in 1..Len(f) : g[i] = f[i]
    BY DEF ExtractsNext
  <1>2. \A i \in 1..Len(f) : f[i] = Encode(s[Len(t) + i])
    BY DEF Extracted
  <1>3. Len(t) + Len(g) <= Len(s) /\ x = Encode(s[Len(t) + Len(f) + 1])
    BY <1>1 DEF ExtractsNext
  <1>4. ASSUME NEW i \in 1..Len(g) PROVE g[i] = Encode(s[Len(t) + i])
    <2>1. CASE i = Len(f) + 1
      <3>1. Len(t) + i = Len(t) + Len(f) + 1
        BY <1>1, <2>1
      <3> QED
        BY <1>1, <1>3, <2>1, <3>1
    <2>2. CASE i # Len(f) + 1
      <3>1. i \in 1..Len(f)
        BY <1>1, <2>2
      <3> QED
        BY <1>1, <1>2, <3>1
    <2> QED
      BY <2>1, <2>2
  <1> QED
    BY <1>1, <1>3, <1>4 DEF Extracted

LEMMA WireFrameKeeps ==
  ASSUME WireInv, WireFrame
  PROVE  WireInv'
  <1>1. /\ WireTypes /\ WireIdle /\ WireHistory /\ WireStream /\ buffer \in Seq(Nat) /\ frames \in Seq(Seq(Nat))
        /\ sent \in Seq(WirePackets) /\ taken \in Seq(PacketFields) /\ wireMedium \in {"tcp", "ble"}
    BY DEF WireInv, WireTypes
  <1>2. /\ feeding /\ Len(buffer) >= HeaderSize /\ ~HeaderBad(buffer) /\ FrameComplete(buffer)
        /\ UNCHANGED <<wireMedium, wireOpen, stream, feeding, sent, taken, wireForeign, wireSends>>
    BY DEF WireFrame
  <1>3. wireMedium = "tcp" /\ wireOpen
    BY <1>1, <1>2 DEF WireTypes, WireIdle
  <1>4. stream \in Seq(Nat)
    BY <1>1, <1>3 DEF WireTypes
  <1>5. PICK x : x = SubSeq(buffer, HeaderSize + 1, HeaderSize + buffer[2])
    OBVIOUS
  <1>6. frames' = Append(frames, x) /\ buffer' = SubSeq(buffer, HeaderSize + buffer[2] + 1, Len(buffer))
    BY <1>5 DEF WireFrame
  <1>7. PICK b, c, l : b = buffer \o stream /\ c = buffer' \o stream /\ l = buffer[2]
    OBVIOUS
  <1>8. /\ b \in Seq(Nat) /\ x \in Seq(Nat) /\ buffer' \in Seq(Nat) /\ c \in Seq(Nat) /\ l \in Nat
        /\ Len(x) = l /\ \A i \in 1..l : x[i] = b[HeaderSize + i]
        /\ Len(b) >= HeaderSize /\ b[2] = l
        /\ Len(c) = Len(b) - (HeaderSize + l) /\ \A i \in 1..Len(c) : c[i] = b[HeaderSize + l + i]
    <2>1. TakenOff(buffer, stream, x, buffer', c, b)
      BY <1>5, <1>6, <1>7 DEF TakenOff
    <2>2. ShiftedBy(buffer[2], x, buffer', c, b)
      BY ONLY <1>1, <1>2, <1>4, <2>1, FrameTaken
    <2> QED
      BY <1>7, <2>2 DEF ShiftedBy
  <1>9. WireTypes'
    <2>1. frames' \in Seq(Seq(Nat))
      BY ONLY <1>1, <1>6, <1>8
    <2> QED
      BY <1>1, <1>2, <1>3, <1>8, <2>1 DEF WireTypes
  <1>10. WireIdle'
    BY <1>2, <1>3 DEF WireIdle
  <1>11. WireHistory' /\ WireStream'
    <2>1. CASE wireForeign
      BY <1>2, <2>1 DEF WireHistory, WireStream
    <2>2. CASE ~wireForeign
      <3>1. PICK k : k = Len(taken) + Len(frames)
        OBVIOUS
      <3>2. Extracted(taken, frames, sent) /\ k \in Nat /\ k <= Len(sent) /\ Len(sent) \in Nat
        BY <1>1, <2>2, <3>1 DEF WireHistory, Extracted
      <3>3. PICK cut \in [Nat -> Int] : Cut(b, sent, k, cut)
        BY <1>1, <1>3, <1>7, <2>2, <3>1 DEF WireStream
      <3>4. k # Len(sent)
        BY <1>8, <3>3 DEF Cut, HeaderSize
      <3>5. k < Len(sent)
        BY ONLY <3>2, <3>4
      <3>6. PICK w : w = Encode(sent[k + 1])
        OBVIOUS
      <3>7. w \in Seq(Nat) /\ FrameAt(b, 0, w) /\ cut[k + 1] = HeaderSize + Len(w)
        <4>1. /\ b \in Seq(Nat) /\ sent \in Seq(WirePackets) /\ k \in Nat /\ k < Len(sent)
              /\ cut \in [Nat -> Int] /\ Cut(b, sent, k, cut)
          BY <1>1, <1>8, <3>2, <3>3, <3>5
        <4>2. CutsOff(b, cut[k + 1], w)
          BY ONLY <3>6, <4>1, CutFirst
        <4> QED
          BY <4>2 DEF CutsOff
      <3>8. Len(w) = l /\ \A j \in 1..Len(w) : b[HeaderSize + j] = w[j]
        <4>1. b[0 + 2] = Len(w) /\ \A j \in 1..Len(w) : b[0 + HeaderSize + j] = w[j]
          BY <3>7 DEF FrameAt
        <4>2. 0 + 2 = 2 /\ 0 + HeaderSize = HeaderSize
          BY DEF HeaderSize
        <4> QED
          BY ONLY <1>8, <4>1, <4>2
      <3>9. x = w
        <4>1. Len(x) = Len(w) /\ \A i \in 1..Len(x) : x[i] = w[i]
          BY ONLY <1>8, <3>8
        <4> QED
          BY ONLY <1>8, <3>7, <4>1, WireSame
      <3>10. Extracted(taken, frames', sent) /\ Len(frames') = Len(frames) + 1
        <4>1. x = Encode(sent[Len(taken) + Len(frames) + 1]) /\ Len(taken) + Len(frames) < Len(sent)
          BY <3>1, <3>5, <3>6, <3>9
        <4> QED
          <5>1. ExtractsNext(taken, frames, sent, x, frames')
            BY <1>6, <4>1 DEF ExtractsNext
          <5>2. Extracted(taken, frames', sent)
            BY ONLY <1>1, <3>2, <5>1, ExtractedNext
          <5>3. Len(frames') = Len(frames) + 1
            BY <1>1, <1>6, <1>8
          <5> QED
            BY <5>2, <5>3
      <3>11. WireHistory'
        BY <1>2, <3>10 DEF WireHistory
      <3>12. \E e \in [Nat -> Int] : Cut(c, sent, k + 1, e)
        <4>1. PICK d : d = cut[k + 1]
          OBVIOUS
        <4>2. d = HeaderSize + l /\ d \in Nat
          <5>1. d = HeaderSize + l
            BY ONLY <3>7, <3>8, <4>1
          <5>2. HeaderSize + l \in Nat
            BY <1>8 DEF HeaderSize
          <5> QED
            BY ONLY <5>1, <5>2
        <4>3. Len(c) = Len(b) - d /\ \A i \in 1..Len(c) : c[i] = b[d + i]
          BY ONLY <1>8, <4>2
        <4> QED
          <5>1. /\ b \in Seq(Nat) /\ sent \in Seq(WirePackets) /\ k \in Nat /\ k < Len(sent) /\ c \in Seq(Nat)
                /\ cut \in [Nat -> Int] /\ Cut(b, sent, k, cut)
            BY <1>1, <1>8, <3>2, <3>3, <3>5
          <5> QED
            BY ONLY <4>1, <4>2, <4>3, <5>1, CutTaken
      <3>13. k + 1 = Len(taken') + Len(frames')
        BY <1>1, <1>2, <3>1, <3>10
      <3>14. WireStream'
        BY <1>2, <1>7, <3>12, <3>13 DEF WireStream
      <3> QED
        BY <3>11, <3>14
    <2> QED
      BY <2>1, <2>2
  <1>12. WireWrites'
    BY <1>2, <1>3 DEF WireWrites
  <1> QED
    BY <1>9, <1>10, <1>11, <1>12 DEF WireInv

LEMMA WireErrorKeeps ==
  ASSUME WireInv, WireFramingError
  PROVE  WireInv'
  <1>1. CloseWire /\ UNCHANGED <<wireMedium, stream, sent, taken, wireForeign>> /\ wireSends' = wireSends
    BY DEF WireFramingError
  <1>2. wireSends' \in 0..WireMaxSends
    BY <1>1 DEF WireInv, WireTypes
  <1> QED
    BY <1>1, <1>2, WireCloses

LEMMA WireClosedKeeps ==
  ASSUME WireInv, WireClosed
  PROVE  WireInv'
  <1>1. CloseWire /\ UNCHANGED <<wireMedium, stream, sent, taken, wireForeign>> /\ wireSends' = wireSends
    BY DEF WireClosed
  <1>2. wireSends' \in 0..WireMaxSends
    BY <1>1 DEF WireInv, WireTypes
  <1> QED
    BY <1>1, <1>2, WireCloses

\* What was delivered keeps its type.
LEMMA TakenTyped ==
  ASSUME NEW t \in Seq(PacketFields), \A i \in DOMAIN t : FieldsAgree(t[i]), NEW ws \in Seq(Seq(Nat)),
         NEW u, u = t \o Delivered(ws)
  PROVE  u \in Seq(PacketFields) /\ \A i \in DOMAIN u : FieldsAgree(u[i])
  <1>1. PICK q : q = Delivered(ws)
    OBVIOUS
  <1>2. q \in Seq(PacketFields) /\ \A i \in DOMAIN q : FieldsAgree(q[i])
    BY <1>1, DeliveredIs
  <1>3. t \in Seq(PacketFields) /\ q \in Seq(PacketFields) /\ u = t \o q
    BY <1>1, <1>2
  <1>4. /\ u \in Seq(PacketFields) /\ Len(u) = Len(t) + Len(q) /\ DOMAIN u = 1..(Len(t) + Len(q))
        /\ \A a \in 1..Len(t) : u[a] = t[a]
        /\ \A n \in 1..Len(q) : u[Len(t) + n] = q[n]
    <2>1. t \in Seq(PacketFields) /\ q \in Seq(PacketFields) /\ u = t \o q
      BY <1>3
    <2>2. t \in Seq(PacketFields) /\ q \in Seq(PacketFields) /\ Joins(t, q, u)
      BY ONLY <2>1 DEF Joins
    <2>3. IsJoined(PacketFields, t, q, u)
      BY ONLY <2>2, WireJoined
    <2> QED
      BY ONLY <2>3 DEF IsJoined
  <1>5. PICK k, m : k = Len(t) /\ m = Len(q)
    OBVIOUS
  <1>6. k \in Nat /\ m \in Nat /\ DOMAIN t = 1..k /\ DOMAIN q = 1..m
    BY <1>2, <1>5
  <1>7. ASSUME NEW i \in 1..(k + m) PROVE FieldsAgree(u[i])
    <2>1. CASE i <= k
      <3>1. i \in 1..k
        BY <1>6, <2>1
      <3> QED
        BY <1>4, <1>5, <1>6, <3>1
    <2>2. CASE i > k
      <3>1. PICK j : j = i - k
        OBVIOUS
      <3>2. j \in 1..m /\ k + j = i
        BY ONLY <1>6, <2>2, <3>1, i \in 1..(k + m)
      <3>3. u[k + j] = q[j]
        BY <1>4, <1>5, <3>2
      <3> QED
        BY <1>2, <1>6, <3>2, <3>3
    <2>3. i <= k \/ i > k
      BY ONLY <1>6, i \in 1..(k + m)
    <2> QED
      BY <2>1, <2>2, <2>3
  <1> QED
    BY <1>4, <1>5, <1>7

\* Frames delivered are history, like those delivered before.
TookOn(t, ws, s, u) == Extracted(u, <<>>, s) /\ Len(u) = Len(t) + Len(ws)

LEMMA ExtractedDelivered ==
  ASSUME NEW s \in Seq(WirePackets), NEW t \in Seq(PacketFields), NEW ws \in Seq(Seq(Nat)), NEW u, TakesOn(t, ws, s, u)
  PROVE  TookOn(t, ws, s, u)
  <1>1. Len(s) \in Nat /\ Len(t) \in Nat /\ Len(ws) \in Nat /\ Len(<<>>) = 0
    OBVIOUS
  <1>2. /\ Len(t) + Len(ws) <= Len(s) /\ \A i \in 1..Len(t) : t[i] = s[i]
        /\ \A i \in 1..Len(ws) : PaddedBy(Encode(s[Len(t) + i]), ws[i])
        /\ u = t \o Delivered(ws)
    BY DEF TakesOn
  <1>3. Len(t) <= Len(s)
    BY <1>1, <1>2
  <1>4. Len(u) = Len(t) + Len(ws) /\ \A i \in 1..Len(u) : u[i] = s[i]
    BY DeliveredOn
  <1>5. Len(u) + Len(<<>>) <= Len(s)
    BY <1>1, <1>2, <1>4
  <1> QED
    BY <1>1, <1>4, <1>5 DEF Extracted, TookOn

LEMMA WireFedKeeps ==
  ASSUME WireInv, WireFed
  PROVE  WireInv'
  <1>1. /\ WireTypes /\ WireIdle /\ WireHistory /\ WireStream /\ buffer \in Seq(Nat) /\ frames \in Seq(Seq(Nat))
        /\ sent \in Seq(WirePackets) /\ taken \in Seq(PacketFields) /\ \A i \in DOMAIN taken : FieldsAgree(taken[i])
    BY DEF WireInv, WireTypes
  <1>2. /\ feeding /\ (Len(buffer) >= HeaderSize => ~HeaderBad(buffer) /\ ~FrameComplete(buffer))
        /\ taken' = taken \o Delivered(frames) /\ frames' = <<>> /\ feeding' = FALSE /\ buffer' = buffer
        /\ UNCHANGED <<wireMedium, wireOpen, stream, sent, wireForeign, wireSends>>
    BY DEF WireFed, BufferKept
  <1>3. wireMedium = "tcp" /\ wireOpen
    BY <1>1, <1>2 DEF WireTypes, WireIdle
  <1>4. taken' \in Seq(PacketFields) /\ \A i \in DOMAIN taken' : FieldsAgree(taken'[i])
    BY ONLY <1>1, <1>2, TakenTyped
  <1>5. WireTypes'
    <2>1. frames' \in Seq(Seq(Nat))
      BY <1>2
    <2> QED
      BY <1>1, <1>2, <1>3, <1>4, <2>1 DEF WireTypes
  <1>6. WireIdle'
    BY <1>2, <1>3 DEF WireIdle, HeaderBad, FrameComplete
  <1>7. WireHistory' /\ WireStream'
    <2>1. CASE wireForeign
      BY <1>2, <2>1 DEF WireHistory, WireStream
    <2>2. CASE ~wireForeign
      <3>1. Extracted(taken, frames, sent)
        BY <1>1, <2>2 DEF WireHistory
      <3>2. \A i \in 1..Len(frames) : PaddedBy(Encode(sent[Len(taken) + i]), frames[i])
        <4> TAKE i \in 1..Len(frames)
        <4>1. PICK w : w = frames[i]
          OBVIOUS
        <4>2. w = Encode(sent[Len(taken) + i]) /\ w \in Seq(Nat)
          BY <1>1, <3>1, <4>1 DEF Extracted
        <4>3. PaddedBy(w, w)
          BY <4>2 DEF PaddedBy
        <4> QED
          BY <4>1, <4>2, <4>3
      <3>3. TakesOn(taken, frames, sent, taken')
        BY <1>2, <3>1, <3>2 DEF TakesOn, Extracted
      <3>4. TookOn(taken, frames, sent, taken')
        BY ONLY <1>1, <3>3, ExtractedDelivered
      <3>5. WireHistory'
        BY <1>2, <3>4 DEF WireHistory, TookOn
      <3>6. Len(taken') + Len(frames') = Len(taken) + Len(frames)
        BY <1>1, <1>2, <3>4 DEF TookOn
      <3>7. WireStream'
        BY <1>1, <1>2, <3>6 DEF WireStream
      <3> QED
        BY <3>5, <3>7
    <2> QED
      BY <2>1, <2>2
  <1>8. WireWrites'
    BY <1>2, <1>3 DEF WireWrites
  <1> QED
    BY <1>5, <1>6, <1>7, <1>8 DEF WireInv

LEMMA WireNotifiedKeeps ==
  ASSUME WireInv, WireNotified
  PROVE  WireInv'
  <1>1. /\ WireTypes /\ WireIdle /\ WireHistory /\ WireWrites
        /\ sent \in Seq(WirePackets) /\ taken \in Seq(PacketFields) /\ \A i \in DOMAIN taken : FieldsAgree(taken[i])
    BY DEF WireInv, WireTypes
  <1>2. /\ wireMedium = "ble" /\ wireOpen /\ stream # <<>>
        /\ stream' = Tail(stream) /\ taken' = taken \o Delivered(<<Head(stream)>>)
        /\ UNCHANGED <<wireMedium, wireOpen, buffer, frames, feeding, sent, wireForeign, wireSends>>
    BY DEF WireNotified
  <1>3. stream \in Seq(Seq(Nat)) /\ frames = <<>>
    BY <1>1, <1>2 DEF WireTypes
  <1>4. PICK w, ws : w = stream[1] /\ ws = <<w>>
    OBVIOUS
  <1>5. /\ w \in Seq(Nat) /\ Head(stream) = w /\ stream' \in Seq(Seq(Nat))
        /\ Len(stream) \in Nat /\ Len(stream') = Len(stream) - 1 /\ Len(stream) >= 1
        /\ \A i \in 1..Len(stream') : stream'[i] = stream[i + 1]
    BY <1>2, <1>3, <1>4
  <1>6. ws \in Seq(Seq(Nat)) /\ Len(ws) = 1 /\ ws[1] = w /\ taken' = taken \o Delivered(ws)
    BY <1>2, <1>4, <1>5
  <1>7. taken' \in Seq(PacketFields) /\ \A i \in DOMAIN taken' : FieldsAgree(taken'[i])
    BY ONLY <1>1, <1>6, TakenTyped
  <1>8. WireTypes'
    BY <1>1, <1>2, <1>5, <1>7 DEF WireTypes
  <1>9. WireIdle'
    BY <1>1, <1>2 DEF WireIdle, HeaderBad, FrameComplete
  <1>10. WireStream'
    BY <1>2 DEF WireStream
  <1>11. WireHistory' /\ WireWrites'
    <2>1. CASE wireForeign
      BY <1>2, <2>1 DEF WireHistory, WireWrites
    <2>2. CASE ~wireForeign
      <3>1. Extracted(taken, frames, sent) /\ Written(taken, stream, sent)
        BY <1>1, <1>2, <2>2 DEF WireHistory, WireWrites
      <3>2. /\ Len(taken) \in Nat /\ Len(sent) \in Nat /\ Len(taken) + Len(stream) = Len(sent)
            /\ \A i \in 1..Len(stream) : \E fill \in {0, 1} : stream[i] = Padded(Encode(sent[Len(taken) + i]), fill)
        BY <1>1, <3>1 DEF Written
      <3>a. Len(taken) + Len(ws) <= Len(sent) /\ Len(taken) + 1 \in 1..Len(sent) /\ 1 \in 1..Len(stream)
        <4>1. Len(taken) \in Nat /\ Len(sent) \in Nat /\ Len(stream) \in Nat /\ Len(taken) + Len(stream) = Len(sent)
              /\ Len(stream) >= 1 /\ Len(ws) = 1
          BY <1>5, <1>6, <3>2
        <4> QED
          BY ONLY <4>1
      <3>3. PaddedBy(Encode(sent[Len(taken) + 1]), w)
        <4>1. PICK e : e = Encode(sent[Len(taken) + 1])
          OBVIOUS
        <4>2. e \in Seq(Nat)
          BY <1>1, <3>a, <4>1, SizesOf
        <4>3. PICK fill \in {0, 1} : w = Padded(e, fill)
          BY <1>4, <3>2, <3>a, <4>1
        <4> QED
          BY <4>1, <4>2, <4>3, PaddedIs
      <3>4. TakesOn(taken, ws, sent, taken')
        <4>1. \A i \in 1..Len(ws) : PaddedBy(Encode(sent[Len(taken) + i]), ws[i])
          BY <1>6, <3>3
        <4>2. \A i \in 1..Len(taken) : taken[i] = sent[i]
          BY <3>1 DEF Extracted
        <4> QED
          BY <1>6, <3>a, <4>1, <4>2 DEF TakesOn
      <3>5. TookOn(taken, ws, sent, taken')
        BY ONLY <1>1, <1>6, <3>4, ExtractedDelivered
      <3>6. WireHistory'
        BY <1>2, <1>3, <3>5 DEF WireHistory, TookOn
      <3>7. Len(taken') = Len(taken) + 1
        BY <1>6, <3>5 DEF TookOn
      <3>8. Len(taken') + Len(stream') = Len(sent)
        <4>1. Len(taken) \in Nat /\ Len(sent) \in Nat /\ Len(stream) \in Nat /\ Len(taken) + Len(stream) = Len(sent)
              /\ Len(stream') = Len(stream) - 1
          BY <1>5, <3>2
        <4> QED
          BY ONLY <3>7, <4>1
      <3>9. ASSUME NEW i \in 1..Len(stream')
            PROVE  \E fill \in {0, 1} : stream'[i] = Padded(Encode(sent[Len(taken') + i]), fill)
        <4>1. i + 1 \in 1..Len(stream) /\ Len(taken) + (i + 1) = (Len(taken) + 1) + i
          <5>1. Len(stream) \in Nat /\ Len(stream') = Len(stream) - 1 /\ Len(taken) \in Nat
            BY <1>5, <3>2
          <5> QED
            BY ONLY <5>1, i \in 1..Len(stream')
        <4>2. \E fill \in {0, 1} : stream[i + 1] = Padded(Encode(sent[Len(taken) + (i + 1)]), fill)
          BY <3>2, <4>1
        <4>3. stream'[i] = stream[i + 1]
          BY <1>5
        <4> QED
          BY <3>7, <4>1, <4>2, <4>3
      <3>10. WireWrites'
        BY <1>2, <3>8, <3>9 DEF WireWrites, Written
      <3> QED
        BY <3>6, <3>10
    <2> QED
      BY <2>1, <2>2
  <1> QED
    BY <1>8, <1>9, <1>10, <1>11 DEF WireInv

LEMMA WireInvIsEnough ==
  ASSUME WireInv
  PROVE  WireSafe
  <1>1. /\ WireTypes /\ WireIdle /\ WireHistory /\ WireStream /\ WireWrites
        /\ sent \in Seq(WirePackets) /\ taken \in Seq(PacketFields) /\ buffer \in Seq(Nat) /\ frames \in Seq(Seq(Nat))
        /\ wireMedium \in {"tcp", "ble"}
    BY DEF WireInv, WireTypes
  <1>2. WireTypeOK
    <2>1. {wireOpen, feeding, wireForeign} \subseteq BOOLEAN
      BY <1>1 DEF WireTypes
    <2>2. buffer \in Seq(WireBytes) /\ frames \in Seq(Seq(WireBytes))
      BY <1>1 DEF WireBytes
    <2>3. stream \in IF wireMedium = "tcp" THEN Seq(WireBytes) ELSE Seq(Seq(WireBytes))
      BY <1>1 DEF WireTypes, WireBytes
    <2>4. \A i \in DOMAIN taken : FieldsAgree(taken[i])
      BY <1>1 DEF WireTypes
    <2> QED
      BY <1>1, <2>1, <2>2, <2>3, <2>4 DEF WireTypeOK, WireTypes
  <1>3. WireInOrder
    <2> SUFFICES ASSUME ~wireForeign PROVE IsPrefix(taken, sent)
      BY DEF WireInOrder
    <2>1. Extracted(taken, frames, sent)
      BY <1>1 DEF WireHistory
    <2>2. Len(taken) <= Len(sent) /\ \A i \in 1..Len(taken) : taken[i] = sent[i]
      BY <1>1, <2>1 DEF Extracted
    <2> QED
      BY ONLY <1>1, <2>2, PrefixIs
  <1>4. WireComplete
    <2> SUFFICES ASSUME wireOpen, stream = <<>>, ~feeding, ~wireForeign PROVE taken = sent /\ buffer = <<>>
      BY DEF WireComplete
    <2>1. frames = <<>> /\ Extracted(taken, frames, sent)
      BY <1>1 DEF WireHistory, WireIdle
    <2>2. /\ Len(taken) \in Nat /\ Len(sent) \in Nat /\ Len(taken) <= Len(sent)
          /\ \A i \in 1..Len(taken) : taken[i] = sent[i]
      BY <1>1, <2>1 DEF Extracted
    <2>3. Len(taken) = Len(sent) /\ buffer = <<>>
      <3>1. CASE wireMedium = "ble"
        <4>1. Len(taken) + Len(stream) = Len(sent)
          BY <1>1, <3>1 DEF WireWrites, Written
        <4>2. Len(stream) = 0
          OBVIOUS
        <4> QED
          BY <1>1, <2>2, <3>1, <4>1, <4>2 DEF WireTypes
      <3>2. CASE wireMedium = "tcp"
        <4>1. PICK k : k = Len(taken) + Len(frames)
          OBVIOUS
        <4>2. k = Len(taken)
          BY <2>1, <2>2, <4>1
        <4>3. buffer \o stream = buffer
          BY <1>1
        <4>4. PICK cut \in [Nat -> Int] : Cut(buffer, sent, k, cut)
          BY <1>1, <3>2, <4>1, <4>3 DEF WireStream
        <4>5. k = Len(sent)
          <5> SUFFICES ASSUME k # Len(sent) PROVE FALSE
            OBVIOUS
          <5>1. k \in Nat /\ k < Len(sent)
            BY <2>2, <4>2
          <5>2. PICK w : w = Encode(sent[k + 1])
            OBVIOUS
          <5>3. CutsOff(buffer, cut[k + 1], w)
            <6>1. /\ buffer \in Seq(Nat) /\ sent \in Seq(WirePackets) /\ k \in Nat /\ k < Len(sent)
                  /\ cut \in [Nat -> Int] /\ Cut(buffer, sent, k, cut)
              BY <1>1, <4>4, <5>1
            <6> QED
              BY ONLY <5>2, <6>1, CutFirst
          <5>4. w \in Seq(Nat) /\ buffer[0 + 2] = Len(w) /\ HeaderSize + Len(w) <= Len(buffer)
            BY <5>3 DEF CutsOff, FrameAt
          <5>5. Len(w) \in Nat /\ Len(buffer) \in Nat /\ buffer[2] = Len(w)
            BY <1>1, <5>4
          <5>6. Len(buffer) >= HeaderSize
            BY <5>4, <5>5 DEF HeaderSize
          <5>7. FrameComplete(buffer)
            BY <5>4, <5>5 DEF HeaderSize, FrameComplete
          <5> QED
            BY <1>1, <5>6, <5>7 DEF WireIdle
        <4>6. Len(buffer) = 0
          BY <4>4, <4>5 DEF Cut
        <4> QED
          BY <1>1, <4>2, <4>5, <4>6
      <3> QED
        BY <1>1, <3>1, <3>2
    <2>4. taken = sent
      BY <1>1, <2>2, <2>3
    <2> QED
      BY <2>3, <2>4
  <1>5. WireBounded
    <2> SUFFICES ASSUME ~feeding PROVE Len(buffer) < HeaderSize + WireMaxFrame
      BY DEF WireBounded
    <2>1. Len(buffer) \in Nat
      BY <1>1
    <2>2. CASE ~(Len(buffer) >= HeaderSize)
      BY <2>1, <2>2, WireConstants DEF HeaderSize
    <2>3. CASE Len(buffer) >= HeaderSize
      <3>1. ~HeaderBad(buffer) /\ ~FrameComplete(buffer)
        BY <1>1, <2>3 DEF WireIdle
      <3>2. 2 \in 1..Len(buffer)
        BY <2>1, <2>3 DEF HeaderSize
      <3>3. buffer[2] \in Nat
        BY <1>1, <3>2
      <3>4. buffer[2] <= WireMaxFrame /\ Len(buffer) < HeaderSize + buffer[2]
        BY <2>1, <3>1, <3>3, WireConstants DEF HeaderBad, FrameComplete, HeaderSize
      <3> QED
        BY <2>1, <3>3, <3>4, WireConstants DEF HeaderSize
    <2> QED
      BY <2>2, <2>3
  <1>6. WireStrict
    <2> SUFFICES ASSUME NEW w \in ToSet(frames) \cup (IF wireMedium = "ble" THEN ToSet(stream) ELSE {}),
                        Decode(w) # NoPacket
                 PROVE  /\ IsPrefix(Encode(Decode(w)), w)
                        /\ Len(w) > Len(Encode(Decode(w))) => Last(w) = Len(w) - Len(Encode(Decode(w)))
      BY DEF WireStrict
    <2>1. w \in Seq(Nat)
      <3>1. CASE w \in ToSet(frames)
        BY <1>1, <3>1 DEF ToSet
      <3>2. CASE w \in ToSet(stream) /\ wireMedium = "ble"
        <4>1. stream \in Seq(Seq(Nat))
          BY <1>1, <3>2 DEF WireTypes
        <4> QED
          BY <3>2, <4>1 DEF ToSet
      <3> QED
        BY <3>1, <3>2
    <2> QED
      BY <2>1, StrictlyDecoded
  <1> QED
    BY <1>2, <1>3, <1>4, <1>5, <1>6 DEF WireSafe

\* Whatever the payloads, the sizes and the bytes another program writes:
\* packets are delivered once, in order and, once everything is read, all of
\* them, the buffer stays below one frame, and what decode_packet accepts is
\* what encode_packet writes (StreamFramer.feed, encode_packet, decode_packet).
THEOREM WireSafety == WireSpec => []WireSafe
  <1>1. WireInit => WireInv
    BY WireStarts
  <1>2. WireInv /\ [WireNext]_wireVars => WireInv'
    <2> SUFFICES ASSUME WireInv, [WireNext]_wireVars PROVE WireInv'
      OBVIOUS
    <2>1. ASSUME NEW p \in WirePackets, WireSend(p) PROVE WireInv'
      BY <2>1, WireSendKeeps
    <2>2. ASSUME NEW w \in WireForeign, WireForeignWrite(w) PROVE WireInv'
      BY <2>2, WireForeignKeeps
    <2>3. ASSUME NEW n \in 1..WireReadSize, n <= Len(stream), WireRead(n) PROVE WireInv'
      BY <2>3, WireReadKeeps
    <2>4. CASE WireFrame
      BY <2>4, WireFrameKeeps
    <2>5. CASE WireFramingError
      BY <2>5, WireErrorKeeps
    <2>6. CASE WireFed
      BY <2>6, WireFedKeeps
    <2>7. CASE WireNotified
      BY <2>7, WireNotifiedKeeps
    <2>8. CASE WireClosed
      BY <2>8, WireClosedKeeps
    <2>9. CASE UNCHANGED wireVars
      BY <2>9 DEF wireVars, WireInv, WireTypes, WireIdle, WireHistory, WireStream, WireWrites
    <2> QED
      BY <2>1, <2>2, <2>3, <2>4, <2>5, <2>6, <2>7, <2>8, <2>9 DEF WireNext
  <1>3. WireInv => WireSafe
    BY WireInvIsEnough
  <1> QED
    BY <1>1, <1>2, <1>3, PTL DEF WireSpec

-----------------------------------------------------------------------------
(***************************************************************************)
(* The connections of two nodes.  What a node lists is in use and found at *)
(* its own address, so that its close takes it out of both tables; what it *)
(* uses and does not list is about to be closed or was displaced.  Of two  *)
(* connections the ends drop the same: while nothing breaks, one of those  *)
(* that node 1 dialled stays, or one of node 2's when there are no others. *)
(***************************************************************************)

LkPhases == {"none", "connecting", "ready", "closing", "closed"}
LkTables ==
  /\ byAddress \in [Nodes -> [Addresses -> {NoLink} \cup LinkIds]]
  /\ byPeer \in [Nodes -> [{"peer", "ip"} -> {NoLink} \cup LinkIds]]
LkTypes ==
  /\ dialer \in [LinkIds -> {0} \cup Nodes]
  /\ ends \in [LinkIds -> [Nodes -> LkPhases]]
  /\ wired \subseteq LinkIds /\ doomed \in [Nodes -> SUBSET LinkIds]
  /\ LkTables
  /\ discovered \in [Nodes -> BOOLEAN]
  /\ lanState \in [Nodes -> {"SCANNING", "READY", "CONNECTING", "CONNECTED"}]
  /\ breaks \in 0..MaxBreaks /\ displaced \subseteq LinkIds
  /\ heard \in [Nodes -> SUBSET LinkIds]

\* Only the end that dialled is ever connecting, and it exists from the dial on.
LkEnds ==
  \A c \in LinkIds : \A n \in Nodes :
    /\ dialer[c] = 0 => ends[c][n] = "none"
    /\ dialer[c] = n => ends[c][n] # "none"
    /\ ends[c][n] = "connecting" => dialer[c] = n

\* A node that says it is connecting has a dial under way.
LkDials ==
  \A n \in Nodes : lanState[n] = "CONNECTING" => \E c \in LinkIds : ends[c][n] = "connecting"

\* A connection that a node lists is in use there and listed at its own
\* address, and also at the other's endpoint at most.
LkEntry(n, a, c) ==
  /\ dialer[c] # 0 /\ ends[c][n] \in {"connecting", "ready", "closing"}
  /\ byAddress[n][AddressOf(n, c)] = c
  /\ a = Listening \/ (a = c /\ Inbound(n, c))
  /\ Inbound(n, c) => c \in wired
LkListed ==
  \A n \in Nodes : \A a \in Addresses : \A c \in LinkIds : byAddress[n][a] = c => LkEntry(n, a, c)

\* What it holds under a name of the peer may be over, unless it came in.
LkNamed(n, k, c) ==
  /\ dialer[c] # 0 /\ ends[c][n] # "none"
  /\ Inbound(n, c) => byAddress[n][c] = c
  /\ k = "peer" /\ ~Inbound(n, c) /\ ends[c][n] \in {"connecting", "ready"} => byAddress[n][Listening] = c
  /\ k = "peer" /\ ends[c][n] = "connecting" => discovered[n]
LkPeers ==
  \A n \in Nodes : \A k \in {"peer", "ip"} : \A c \in LinkIds : byPeer[n][k] = c => LkNamed(n, k, c)

\* What is about to be closed is listed no more.
LkDoomed ==
  \A n \in Nodes : \A c \in doomed[n] :
    /\ ends[c][n] = "ready"
    /\ \A a \in Addresses : byAddress[n][a] # c
    /\ \A k \in {"peer", "ip"} : byPeer[n][k] # c

\* What is in use and not displaced is listed or about to be closed.
AtAddress(n, c) == byAddress[n][AddressOf(n, c)] = c
LkTracked ==
  \A n \in Nodes : \A c \in LinkIds :
    ends[c][n] \in {"connecting", "ready"} /\ c \notin displaced => AtAddress(n, c) \/ c \in doomed[n]

\* A listed connection that a packet was processed of is the peer's.
LkHeard ==
  \A n \in Nodes : \A c \in heard[n] :
    /\ ends[c][n] \notin {"none", "connecting"}
    /\ ends[c][n] = "ready" /\ AtAddress(n, c) => byPeer[n]["peer"] = c

\* Of the connections node d dialled one that was accepted stays.
LkOf(d) == {c \in LinkIds : dialer[c] = d}
LkStays(d, c) == ends[c][Other(d)] = "ready" /\ c \notin doomed[Other(d)]
LkKept(d) ==
  /\ \A c \in LkOf(d) : /\ c \notin doomed[d]
                        /\ ends[c][Other(d)] \in {"none", "ready"} => ends[c][d] \in {"connecting", "ready"}
  /\ (\E c \in LkOf(d) : ends[c][Other(d)] # "none") => \E c \in LkOf(d) : LkStays(d, c)
\* Those of node 1 are preferred; those of node 2 count while there are no others.
LkSurvives ==
  KeepsBlind = {1} /\ MaxConnections > 1 /\ breaks = 0 => LkKept(1) /\ (LkOf(1) = {} => LkKept(2))

LinksInv ==
  LkTypes /\ LkEnds /\ LkDials /\ LkListed /\ LkPeers /\ LkDoomed /\ LkTracked /\ LkHeard /\ LkSurvives

-----------------------------------------------------------------------------
\* What the helpers of the model do.

LEMMA NodePair ==
  ASSUME NEW n \in Nodes
  PROVE  /\ Other(n) \in Nodes /\ Other(n) # n /\ Other(Other(n)) = n
         /\ \A m \in Nodes : m = n \/ m = Other(n)
  BY DEF Nodes, Other

LEMMA LinkNumbers == /\ LinkIds \subseteq Addresses /\ Listening \in Addresses
                     /\ Listening \notin LinkIds /\ NoLink \notin LinkIds
                     /\ 0 \notin LinkIds /\ 0 \notin Nodes
  BY LinksAssumption DEF LinkIds, Addresses, Listening, NoLink, Nodes

LEMMA AddressFits ==
  ASSUME NEW n \in Nodes, NEW c \in LinkIds
  PROVE  AddressOf(n, c) \in Addresses
  BY LinkNumbers DEF AddressOf

LEMMA KeyFits ==
  ASSUME NEW n \in Nodes
  PROVE  PeerKey(n) \in {"peer", "ip"}
  BY DEF PeerKey

\* What is listed at a node when a connection is listed or forgotten.
LkMoved(n, drop) ==
  /\ LkTables'
  /\ \A m \in Nodes : m # n => byAddress'[m] = byAddress[m] /\ byPeer'[m] = byPeer[m]
LkNow(now, was, drop) == now = IF was = drop THEN NoLink ELSE was

LEMMA ListedDoes ==
  ASSUME LkTables, NEW n \in Nodes, NEW drop \in LinkIds \cup {NoLink}, NEW a \in Addresses, NEW c \in LinkIds,
         Listed(n, drop, a, c)
  PROVE  /\ LkMoved(n, drop)
         /\ byAddress'[n][a] = c /\ byPeer'[n][PeerKey(n)] = c
         /\ \A b \in Addresses : b # a => LkNow(byAddress'[n][b], byAddress[n][b], drop)
         /\ \A k \in {"peer", "ip"} : k # PeerKey(n) => LkNow(byPeer'[n][k], byPeer[n][k], drop)
  <1> DEFINE ta == [Unlisted(byAddress[n], drop) EXCEPT ![a] = c]
             tp == [Unlisted(byPeer[n], drop) EXCEPT ![PeerKey(n)] = c]
  <1>1. byAddress' = [byAddress EXCEPT ![n] = ta] /\ byPeer' = [byPeer EXCEPT ![n] = tp]
    BY DEF Listed
  <1>2. byAddress[n] \in [Addresses -> {NoLink} \cup LinkIds] /\ byPeer[n] \in [{"peer", "ip"} -> {NoLink} \cup LinkIds]
    BY DEF LkTables
  <1>3. /\ ta \in [Addresses -> {NoLink} \cup LinkIds] /\ ta[a] = c
        /\ \A b \in Addresses : b # a => LkNow(ta[b], byAddress[n][b], drop)
    BY <1>2 DEF Unlisted, LkNow
  <1>4. /\ tp \in [{"peer", "ip"} -> {NoLink} \cup LinkIds] /\ tp[PeerKey(n)] = c
        /\ \A k \in {"peer", "ip"} : k # PeerKey(n) => LkNow(tp[k], byPeer[n][k], drop)
    BY <1>2, KeyFits DEF Unlisted, LkNow
  <1>5. byAddress'[n] = ta /\ byPeer'[n] = tp
    BY <1>1 DEF LkTables
  <1>6. LkMoved(n, drop)
    <2> HIDE DEF ta, tp
    <2> QED
      BY <1>1, <1>3, <1>4 DEF LkTables, LkMoved
  <1> QED
    BY <1>3, <1>4, <1>5, <1>6

LEMMA ForgetDoes ==
  ASSUME LkTables, NEW n \in Nodes, NEW c \in LinkIds, Forget(n, c)
  PROVE  /\ LkMoved(n, c)
         /\ \A b \in Addresses : LkNow(byAddress'[n][b], byAddress[n][b], c)
         /\ \A k \in {"peer", "ip"} : LkNow(byPeer'[n][k], byPeer[n][k], c)
  <1> DEFINE ta == Unlisted(byAddress[n], c)
             tp == Unlisted(byPeer[n], c)
  <1>1. byAddress' = [byAddress EXCEPT ![n] = ta] /\ byPeer' = [byPeer EXCEPT ![n] = tp]
    BY DEF Forget
  <1>2. byAddress[n] \in [Addresses -> {NoLink} \cup LinkIds] /\ byPeer[n] \in [{"peer", "ip"} -> {NoLink} \cup LinkIds]
    BY DEF LkTables
  <1>3. /\ ta \in [Addresses -> {NoLink} \cup LinkIds]
        /\ \A b \in Addresses : LkNow(ta[b], byAddress[n][b], c)
    BY <1>2 DEF Unlisted, LkNow
  <1>4. /\ tp \in [{"peer", "ip"} -> {NoLink} \cup LinkIds]
        /\ \A k \in {"peer", "ip"} : LkNow(tp[k], byPeer[n][k], c)
    BY <1>2 DEF Unlisted, LkNow
  <1>5. byAddress'[n] = ta /\ byPeer'[n] = tp
    BY <1>1 DEF LkTables
  <1>6. LkMoved(n, c)
    <2> HIDE DEF ta, tp
    <2> QED
      BY <1>1, <1>3, <1>4 DEF LkTables, LkMoved
  <1> QED
    BY <1>3, <1>4, <1>5, <1>6

LEMMA ExistingIs ==
  ASSUME LkTypes, LkListed, LkPeers, LkDoomed, NEW n \in Nodes, NEW a \in Addresses
  PROVE  /\ \A c \in Existing(n, a) : /\ c \in LinkIds /\ ends[c][n] = "ready" /\ dialer[c] # 0
                                     /\ c \notin doomed[n] /\ (Inbound(n, c) => byAddress[n][c] = c)
         /\ Existing(n, a) = {} => /\ \A b \in Addresses : ~IsReady(n, byAddress[n][b])
                                  /\ ~IsReady(n, byPeer[n][PeerKey(n)])
         /\ IsReady(n, byAddress[n][a]) => Existing(n, a) = {byAddress[n][a]}
         /\ ~IsReady(n, byAddress[n][a]) /\ IsReady(n, byPeer[n][PeerKey(n)])
              => Existing(n, a) = {byPeer[n][PeerKey(n)]}
  <1>0. /\ \A b \in Addresses : byAddress[n][b] \in {NoLink} \cup LinkIds
        /\ byPeer[n][PeerKey(n)] \in {NoLink} \cup LinkIds
    BY KeyFits DEF LkTypes, LkTables
  <1>1. ASSUME NEW c \in Existing(n, a)
        PROVE  IsReady(n, c) /\ ((\E b \in Addresses : byAddress[n][b] = c) \/ byPeer[n][PeerKey(n)] = c)
    BY <1>1 DEF Existing, Entries
  <1>2. ASSUME NEW c \in Existing(n, a)
        PROVE  /\ c \in LinkIds /\ ends[c][n] = "ready" /\ dialer[c] # 0
               /\ c \notin doomed[n] /\ (Inbound(n, c) => byAddress[n][c] = c)
    <2>1. c \in LinkIds /\ ends[c][n] = "ready"
      BY <1>0, <1>1, <1>2 DEF IsReady
    <2>2. CASE \E b \in Addresses : byAddress[n][b] = c
      BY <2>1, <2>2 DEF LkListed, LkEntry, LkDoomed, AddressOf
    <2>3. CASE byPeer[n][PeerKey(n)] = c
      BY <2>1, <2>3, KeyFits DEF LkPeers, LkNamed, LkDoomed
    <2> QED
      BY <1>1, <1>2, <2>1, <2>2, <2>3
  <1>3. ASSUME Existing(n, a) = {}
        PROVE  (\A b \in Addresses : ~IsReady(n, byAddress[n][b])) /\ ~IsReady(n, byPeer[n][PeerKey(n)])
    BY <1>3 DEF Existing, Entries, IsReady
  <1> QED
    BY <1>2, <1>3 DEF Existing

LEMMA EndMoves ==
  ASSUME LkTypes, NEW n \in Nodes, NEW c \in LinkIds, NEW v \in LkPhases,
         ends' = [ends EXCEPT ![c][n] = v]
  PROVE  /\ ends' \in [LinkIds -> [Nodes -> LkPhases]] /\ ends'[c][n] = v
         /\ \A d \in LinkIds : \A m \in Nodes : d # c \/ m # n => ends'[d][m] = ends[d][m]
  BY DEF LkTypes

-----------------------------------------------------------------------------
\* Every step keeps the invariant, action by action.

LEMMA ReuseStep ==
  ASSUME LinksInv, NEW n \in Nodes, Reuse(n)
  PROVE  LinksInv'
  <1>0. LkTypes /\ LkEnds /\ LkDials /\ LkListed /\ LkPeers /\ LkDoomed /\ LkTracked /\ LkHeard /\ LkSurvives
    BY DEF LinksInv
  <1>1. PICK c \in Existing(n, Listening) : Listed(n, NoLink, Listening, c)
    BY DEF Reuse
  <1>2. /\ c \in LinkIds /\ ends[c][n] = "ready" /\ dialer[c] # 0
        /\ c \notin doomed[n] /\ (Inbound(n, c) => byAddress[n][c] = c)
        /\ IsReady(n, byAddress[n][Listening]) => c = byAddress[n][Listening]
    BY <1>0, LinkNumbers, ExistingIs
  <1>3. /\ LkMoved(n, NoLink)
        /\ byAddress'[n][Listening] = c /\ byPeer'[n][PeerKey(n)] = c
        /\ \A b \in Addresses : b # Listening => byAddress'[n][b] = byAddress[n][b]
        /\ \A k \in {"peer", "ip"} : k # PeerKey(n) => byPeer'[n][k] = byPeer[n][k]
    BY <1>0, <1>1, <1>2, LinkNumbers, ListedDoes DEF LkNow, LkTypes
  <1>4. /\ dialer' = dialer /\ ends' = ends /\ wired' = wired /\ doomed' = doomed
        /\ discovered' = discovered /\ breaks' = breaks
        /\ lanState' = [lanState EXCEPT ![n] = "CONNECTED"]
        /\ displaced' = displaced \cup Dialling(n, Listening) /\ heard' = [heard EXCEPT ![n] = {}]
    BY DEF Reuse
  <1>5. /\ \A b \in Addresses : byAddress[n][b] \in {NoLink} \cup LinkIds
        /\ Dialling(n, Listening) = {d \in {byAddress[n][Listening]} \ {NoLink} : ends[d][n] = "connecting"}
    BY <1>0 DEF LkTypes, LkTables, Dialling
  <1>6. LkTypes'
    BY <1>0, <1>3, <1>4, <1>5, LinkNumbers DEF LkTypes, LkMoved
  <1>7. LkEnds' /\ LkSurvives'
    BY <1>0, <1>4 DEF LkEnds, LkSurvives, LkKept, LkOf, LkStays
  <1>8. LkDials'
    BY <1>0, <1>4 DEF LkDials, LkTypes
  <1>9. LkListed'
    <2> SUFFICES ASSUME NEW m \in Nodes, NEW a \in Addresses, NEW d \in LinkIds, byAddress'[m][a] = d
                 PROVE  LkEntry(m, a, d)'
      BY DEF LkListed
    <2>1. CASE m # n
      BY <1>0, <1>3, <1>4, <2>1 DEF LkMoved, LkListed, LkEntry, AddressOf, Inbound
    <2>2. CASE m = n /\ a = Listening
      <3>1. d = c
        BY <1>3, <2>2
      <3>2. Inbound(n, c) => byAddress[n][c] = c /\ c \in wired
        BY <1>0, <1>2, LinkNumbers DEF LkListed, LkEntry
      <3> QED
        BY <1>2, <1>3, <1>4, <2>2, <3>1, <3>2, LinkNumbers DEF LkEntry, AddressOf, Inbound
    <2>3. CASE m = n /\ a # Listening
      <3>1. byAddress[n][a] = d
        BY <1>3, <2>3
      <3>2. LkEntry(n, a, d) /\ a = d
        BY <1>0, <2>3, <3>1 DEF LkListed, LkEntry
      <3> QED
        BY <1>3, <1>4, <2>3, <3>1, <3>2 DEF LkEntry, AddressOf, Inbound
    <2> QED
      BY <2>1, <2>2, <2>3
  <1>10. LkPeers'
    <2> SUFFICES ASSUME NEW m \in Nodes, NEW k \in {"peer", "ip"}, NEW d \in LinkIds, byPeer'[m][k] = d
                 PROVE  LkNamed(m, k, d)'
      BY DEF LkPeers
    <2>1. CASE m # n
      BY <1>0, <1>3, <1>4, <2>1 DEF LkMoved, LkPeers, LkNamed, Inbound
    <2>2. CASE m = n /\ k = PeerKey(n)
      BY <1>2, <1>3, <1>4, <2>2, LinkNumbers DEF LkNamed, Inbound
    <2>3. CASE m = n /\ k # PeerKey(n)
      <3>1. byPeer[n][k] = d /\ LkNamed(n, k, d)
        BY <1>0, <1>3, <2>3 DEF LkPeers
      <3>2. Inbound(n, d) => byAddress'[n][d] = d
        BY <1>3, <3>1, LinkNumbers DEF LkNamed
      <3>3. k = "peer" => ~discovered[n]
        BY <2>3 DEF PeerKey
      <3>4. k = "peer" /\ ~Inbound(n, d) /\ ends[d][n] \in {"connecting", "ready"} => byAddress'[n][Listening] = d
        BY <1>2, <1>3, <3>1, <3>3, LinkNumbers DEF LkNamed, IsReady
      <3> QED
        BY <1>4, <2>3, <3>1, <3>2, <3>3, <3>4 DEF LkNamed, Inbound
    <2> QED
      BY <2>1, <2>2, <2>3
  <1>11. LkDoomed'
    <2> SUFFICES ASSUME NEW m \in Nodes, NEW d \in doomed[m]
                 PROVE  /\ ends[d][m] = "ready"
                        /\ \A a \in Addresses : byAddress'[m][a] # d
                        /\ \A k \in {"peer", "ip"} : byPeer'[m][k] # d
      BY <1>4 DEF LkDoomed
    <2>1. CASE m # n
      BY <1>0, <1>3, <2>1 DEF LkMoved, LkDoomed
    <2>2. CASE m = n
      BY <1>0, <1>2, <1>3, <2>2 DEF LkDoomed
    <2> QED
      BY <2>1, <2>2
  <1>12. LkTracked'
    <2> SUFFICES ASSUME NEW m \in Nodes, NEW d \in LinkIds,
                        ends[d][m] \in {"connecting", "ready"}, d \notin displaced'
                 PROVE  AtAddress(m, d)' \/ d \in doomed[m]
      BY <1>4 DEF LkTracked
    <2>1. AtAddress(m, d) \/ d \in doomed[m]
      BY <1>0, <1>4 DEF LkTracked
    <2>2. CASE m # n
      BY <1>3, <1>4, <2>1, <2>2 DEF LkMoved, AtAddress, AddressOf, Inbound
    <2>3. CASE m = n /\ AtAddress(m, d)
      BY <1>2, <1>3, <1>4, <1>5, <2>3, LinkNumbers DEF AtAddress, AddressOf, Inbound, IsReady
    <2> QED
      BY <2>1, <2>2, <2>3
  <1>13. LkHeard'
    <2> SUFFICES ASSUME NEW m \in Nodes, NEW d \in heard'[m]
                 PROVE  /\ ends[d][m] \notin {"none", "connecting"}
                        /\ ends[d][m] = "ready" /\ AtAddress(m, d)' => byPeer'[m]["peer"] = d
      BY <1>4 DEF LkHeard
    <2>1. m # n /\ d \in heard[m]
      BY <1>0, <1>4 DEF LkTypes
    <2> QED
      BY <1>0, <1>3, <1>4, <2>1 DEF LkMoved, LkHeard, AtAddress, AddressOf, Inbound
  <1> QED
    BY <1>6, <1>7, <1>8, <1>9, <1>10, <1>11, <1>12, <1>13 DEF LinksInv

LEMMA IdleStep ==
  ASSUME LinksInv, NEW n \in Nodes, DialRefused(n) \/ Discover(n)
  PROVE  LinksInv'
  <1>0. LkTypes /\ LkEnds /\ LkDials /\ LkListed /\ LkPeers /\ LkDoomed /\ LkTracked /\ LkHeard /\ LkSurvives
    BY DEF LinksInv
  <1>1. /\ dialer' = dialer /\ ends' = ends /\ wired' = wired /\ doomed' = doomed
        /\ byAddress' = byAddress /\ byPeer' = byPeer
        /\ breaks' = breaks /\ displaced' = displaced /\ heard' = heard
    BY DEF DialRefused, Discover
  <1>2. /\ discovered' \in [Nodes -> BOOLEAN] /\ \A m \in Nodes : discovered[m] => discovered'[m]
        /\ lanState' \in [Nodes -> {"SCANNING", "READY", "CONNECTING", "CONNECTED"}]
        /\ \A m \in Nodes : lanState'[m] = "CONNECTING" => lanState[m] = "CONNECTING"
    BY <1>0 DEF DialRefused, Discover, LkTypes
  <1>3. LkTypes' /\ LkEnds' /\ LkSurvives' /\ LkDoomed'
    BY <1>0, <1>1, <1>2 DEF LkTypes, LkTables, LkEnds, LkSurvives, LkKept, LkOf, LkStays, LkDoomed
  <1>4. LkDials'
    BY <1>0, <1>1, <1>2 DEF LkDials
  <1>5. LkListed' /\ LkTracked' /\ LkHeard'
    BY <1>0, <1>1 DEF LkListed, LkEntry, AddressOf, Inbound, LkTracked, LkHeard, AtAddress
  <1>6. LkPeers'
    BY <1>0, <1>1, <1>2 DEF LkPeers, LkNamed, Inbound
  <1> QED
    BY <1>3, <1>4, <1>5, <1>6 DEF LinksInv

LEMMA DialStep ==
  ASSUME LinksInv, NEW n \in Nodes, Dial(n)
  PROVE  LinksInv'
  <1>0. LkTypes /\ LkEnds /\ LkDials /\ LkListed /\ LkPeers /\ LkDoomed /\ LkTracked /\ LkHeard /\ LkSurvives
    BY DEF LinksInv
  <1>1. PICK c \in LinkIds : /\ dialer[c] = 0 /\ dialer' = [dialer EXCEPT ![c] = n]
                             /\ ends' = [ends EXCEPT ![c][n] = "connecting"]
                             /\ Listed(n, NoLink, Listening, c)
    BY DEF Dial
  <1>2. /\ \A b \in Addresses : ~IsReady(n, byAddress[n][b])
        /\ \A b \in Addresses : byAddress[n][b] \in {NoLink} \cup LinkIds
    <2>1. Existing(n, Listening) = {}
      BY DEF Dial
    <2>2. \A b \in Addresses : ~IsReady(n, byAddress[n][b])
      BY <1>0, <2>1, LinkNumbers, ExistingIs
    <2> QED
      BY <1>0, <2>2 DEF LkTypes, LkTables
  <1>3. /\ LkMoved(n, NoLink)
        /\ byAddress'[n][Listening] = c /\ byPeer'[n][PeerKey(n)] = c
        /\ \A b \in Addresses : b # Listening => byAddress'[n][b] = byAddress[n][b]
        /\ \A k \in {"peer", "ip"} : k # PeerKey(n) => byPeer'[n][k] = byPeer[n][k]
    BY <1>0, <1>1, LinkNumbers, ListedDoes DEF LkNow, LkTypes
  <1>4. /\ wired' = wired /\ doomed' = doomed /\ discovered' = discovered /\ breaks' = breaks
        /\ lanState' = [lanState EXCEPT ![n] = "CONNECTING"] /\ heard' = heard
        /\ displaced' = displaced \cup Dialling(n, Listening)
    BY DEF Dial
  <1>5. Dialling(n, Listening) = {d \in {byAddress[n][Listening]} \ {NoLink} : ends[d][n] = "connecting"}
    BY DEF Dialling
  <1>6. /\ ends' \in [LinkIds -> [Nodes -> LkPhases]] /\ ends'[c][n] = "connecting"
        /\ \A d \in LinkIds : \A m \in Nodes : d # c \/ m # n => ends'[d][m] = ends[d][m]
    BY <1>0, <1>1, EndMoves DEF LkPhases
  <1>7. /\ dialer' \in [LinkIds -> {0} \cup Nodes] /\ dialer'[c] = n
        /\ \A d \in LinkIds : d # c => dialer'[d] = dialer[d]
    BY <1>0, <1>1 DEF LkTypes
  <1>8. /\ \A m \in Nodes : ends[c][m] = "none" /\ c \notin doomed[m] /\ c \notin heard[m]
        /\ \A m \in Nodes : \A a \in Addresses : byAddress[m][a] # c
        /\ \A m \in Nodes : \A k \in {"peer", "ip"} : byPeer[m][k] # c
    BY <1>0, <1>1 DEF LkEnds, LkDoomed, LkHeard, LkListed, LkEntry, LkPeers, LkNamed
  <1>9. \A d \in LinkIds : \A m \in Nodes : d # c => AddressOf(m, d)' = AddressOf(m, d) /\ (Inbound(m, d)' <=> Inbound(m, d))
    BY <1>7 DEF AddressOf, Inbound
  <1>10. AddressOf(n, c)' = Listening /\ ~Inbound(n, c)'
    BY <1>7 DEF AddressOf, Inbound
  <1>11. LkTypes'
    BY <1>0, <1>2, <1>3, <1>4, <1>5, <1>6, <1>7, LinkNumbers DEF LkTypes, LkMoved
  <1>12. LkEnds'
    BY <1>0, <1>6, <1>7, <1>8, LinkNumbers DEF LkEnds
  <1>13. LkDials'
    BY <1>0, <1>4, <1>6, <1>8 DEF LkDials, LkTypes
  <1>14. LkListed'
    <2> SUFFICES ASSUME NEW m \in Nodes, NEW a \in Addresses, NEW d \in LinkIds, byAddress'[m][a] = d
                 PROVE  LkEntry(m, a, d)'
      BY DEF LkListed
    <2>1. CASE m # n
      <3>1. byAddress'[m] = byAddress[m] /\ byAddress[m][a] = d /\ d # c
        BY <1>3, <1>8, <2>1 DEF LkMoved
      <3>2. LkEntry(m, a, d)
        BY <1>0, <3>1 DEF LkListed
      <3> QED
        BY <1>4, <1>6, <1>7, <1>9, <3>1, <3>2 DEF LkEntry
    <2>2. CASE m = n /\ a = Listening
      BY <1>3, <1>6, <1>7, <1>10, <2>2, LinkNumbers DEF LkEntry
    <2>3. CASE m = n /\ a # Listening
      <3>1. byAddress[n][a] = d /\ d # c
        BY <1>3, <1>8, <2>3
      <3>2. LkEntry(n, a, d) /\ a = d /\ AddressOf(n, d) = d
        BY <1>0, <2>3, <3>1 DEF LkListed, LkEntry, AddressOf
      <3> QED
        BY <1>3, <1>4, <1>6, <1>7, <1>9, <2>3, <3>1, <3>2 DEF LkEntry
    <2> QED
      BY <2>1, <2>2, <2>3
  <1>15. LkPeers'
    <2> SUFFICES ASSUME NEW m \in Nodes, NEW k \in {"peer", "ip"}, NEW d \in LinkIds, byPeer'[m][k] = d
                 PROVE  LkNamed(m, k, d)'
      BY DEF LkPeers
    <2>1. CASE m # n
      <3>1. byPeer'[m] = byPeer[m] /\ byAddress'[m] = byAddress[m] /\ byPeer[m][k] = d /\ d # c
        BY <1>3, <1>8, <2>1 DEF LkMoved
      <3>2. LkNamed(m, k, d)
        BY <1>0, <3>1 DEF LkPeers
      <3> QED
        BY <1>4, <1>6, <1>7, <1>9, <3>1, <3>2 DEF LkNamed
    <2>2. CASE m = n /\ k = PeerKey(n)
      BY <1>3, <1>4, <1>6, <1>7, <1>10, <2>2, LinkNumbers DEF LkNamed, PeerKey
    <2>3. CASE m = n /\ k # PeerKey(n)
      <3>1. byPeer[n][k] = d /\ d # c /\ LkNamed(n, k, d)
        BY <1>0, <1>3, <1>8, <2>3 DEF LkPeers
      <3>2. Inbound(n, d) => byAddress'[n][d] = d
        BY <1>3, <3>1, LinkNumbers DEF LkNamed
      <3>3. k = "peer" => ~discovered[n]
        BY <2>3 DEF PeerKey
      <3>4. ~(k = "peer" /\ ~Inbound(n, d) /\ ends[d][n] \in {"connecting", "ready"})
        BY <1>2, <3>1, <3>3, LinkNumbers DEF LkNamed, IsReady
      <3> QED
        BY <1>4, <1>6, <1>7, <1>9, <2>3, <3>1, <3>2, <3>3, <3>4 DEF LkNamed
    <2> QED
      BY <2>1, <2>2, <2>3
  <1>16. LkDoomed'
    <2> SUFFICES ASSUME NEW m \in Nodes, NEW d \in doomed[m]
                 PROVE  /\ ends'[d][m] = "ready"
                        /\ \A a \in Addresses : byAddress'[m][a] # d
                        /\ \A k \in {"peer", "ip"} : byPeer'[m][k] # d
      BY <1>4 DEF LkDoomed
    <2>0. d # c /\ d \in LinkIds
      BY <1>0, <1>8 DEF LkTypes
    <2>1. CASE m # n
      BY <1>0, <1>3, <1>6, <2>0, <2>1 DEF LkMoved, LkDoomed
    <2>2. CASE m = n
      BY <1>0, <1>3, <1>6, <2>0, <2>2 DEF LkDoomed
    <2> QED
      BY <2>1, <2>2
  <1>17. LkTracked'
    <2> SUFFICES ASSUME NEW m \in Nodes, NEW d \in LinkIds,
                        ends'[d][m] \in {"connecting", "ready"}, d \notin displaced'
                 PROVE  AtAddress(m, d)' \/ d \in doomed[m]
      BY <1>4 DEF LkTracked
    <2>1. CASE d = c
      BY <1>3, <1>6, <1>8, <1>10, <2>1 DEF AtAddress
    <2>2. CASE d # c
      <3>1. AtAddress(m, d) \/ d \in doomed[m]
        BY <1>0, <1>4, <1>6, <2>2 DEF LkTracked
      <3>2. CASE m # n
        BY <1>3, <1>9, <2>2, <3>1, <3>2 DEF LkMoved, AtAddress
      <3>3. CASE m = n /\ AtAddress(m, d)
        <4>1. ends[d][n] \in {"connecting", "ready"} /\ d # NoLink
          BY <1>6, <2>2, <3>3, LinkNumbers
        <4>2. AddressOf(n, d) # Listening
          BY <1>2, <1>4, <1>5, <3>3, <4>1, LinkNumbers DEF AtAddress, IsReady
        <4> QED
          BY <1>3, <1>9, <2>2, <3>3, <4>2, AddressFits DEF AtAddress
      <3> QED
        BY <3>1, <3>2, <3>3
    <2> QED
      BY <2>1, <2>2
  <1>18. LkHeard'
    <2> SUFFICES ASSUME NEW m \in Nodes, NEW d \in heard[m]
                 PROVE  /\ ends'[d][m] \notin {"none", "connecting"}
                        /\ ends'[d][m] = "ready" /\ AtAddress(m, d)' => byPeer'[m]["peer"] = d
      BY <1>4 DEF LkHeard
    <2>0. d # c /\ d \in LinkIds /\ ends'[d][m] = ends[d][m]
      BY <1>0, <1>6, <1>8 DEF LkTypes
    <2>1. CASE m # n
      BY <1>0, <1>3, <1>9, <2>0, <2>1 DEF LkMoved, LkHeard, AtAddress
    <2>2. CASE m = n
      <3>1. AtAddress(n, d)' => AtAddress(n, d)
        BY <1>3, <1>9, <2>0, AddressFits DEF AtAddress
      <3> QED
        BY <1>0, <1>2, <2>0, <2>2, <3>1, AddressFits, LinkNumbers DEF LkHeard, AtAddress, IsReady
    <2> QED
      BY <2>1, <2>2
  <1>19. LkSurvives'
    <2> SUFFICES ASSUME KeepsBlind = {1}, MaxConnections > 1, breaks = 0
                 PROVE  LkKept(1)' /\ (LkOf(1)' = {} => LkKept(2)')
      BY <1>4 DEF LkSurvives
    <2>1. ASSUME NEW d \in Nodes, LkKept(d), d = 1 \/ n # 1
          PROVE  LkKept(d)'
      <3>1. /\ LkOf(d)' = LkOf(d) \cup (IF d = n THEN {c} ELSE {}) /\ c \notin LkOf(d)
            /\ d = n => ends'[c][Other(d)] = "none"
        BY <1>1, <1>6, <1>7, <1>8, NodePair, LinkNumbers DEF LkOf
      <3>2. /\ \A e \in LkOf(d) : \A m \in Nodes : ends'[e][m] = ends[e][m]
            /\ \A e \in LkOf(d) : LkStays(d, e)' = LkStays(d, e)
        BY <1>4, <1>6, <3>1, NodePair DEF LkOf, LkStays
      <3>3. \A e \in LkOf(d)' :
              /\ e \notin doomed'[d]
              /\ ends'[e][Other(d)] \in {"none", "ready"} => ends'[e][d] \in {"connecting", "ready"}
        BY <1>4, <1>6, <1>8, <2>1, <3>1, <3>2, NodePair DEF LkKept
      <3>4. ASSUME NEW e \in LkOf(d)', ends'[e][Other(d)] # "none" PROVE \E g \in LkOf(d)' : LkStays(d, g)'
        BY <2>1, <3>1, <3>2, <3>4, NodePair DEF LkKept
      <3> QED
        BY <3>3, <3>4 DEF LkKept
    <2>2. LkOf(1)' = {} => LkOf(1) = {} /\ n # 1
      BY <1>1, <1>7, LinkNumbers DEF LkOf
    <2> QED
      BY <1>0, <2>1, <2>2 DEF LkSurvives, Nodes
  <1> QED
    BY <1>11, <1>12, <1>13, <1>14, <1>15, <1>16, <1>17, <1>18, <1>19 DEF LinksInv

LEMMA DialReadyStep ==
  ASSUME LinksInv, NEW n \in Nodes, NEW c \in LinkIds, DialReady(n, c)
  PROVE  LinksInv'
  <1>0. LkTypes /\ LkEnds /\ LkDials /\ LkListed /\ LkPeers /\ LkDoomed /\ LkTracked /\ LkHeard /\ LkSurvives
    BY DEF LinksInv
  <1>1. /\ dialer' = dialer /\ wired' = wired /\ doomed' = doomed /\ discovered' = discovered
        /\ byAddress' = byAddress /\ byPeer' = byPeer
        /\ breaks' = breaks /\ displaced' = displaced /\ heard' = heard
        /\ lanState' = [lanState EXCEPT ![n] = "CONNECTED"]
        /\ dialer[c] = n /\ ends[c][n] = "connecting"
    BY DEF DialReady
  <1>2. /\ ends' \in [LinkIds -> [Nodes -> LkPhases]] /\ ends'[c][n] = "ready"
        /\ \A d \in LinkIds : \A m \in Nodes : d # c \/ m # n => ends'[d][m] = ends[d][m]
    BY <1>0, EndMoves DEF DialReady, LkPhases
  <1>3. /\ ~Inbound(n, c) /\ c \notin doomed[n] /\ c \notin heard[n]
    BY <1>0, <1>1 DEF Inbound, LkDoomed, LkHeard
  <1>4. LkTypes'
    BY <1>0, <1>1, <1>2 DEF LkTypes, LkTables
  <1>5. LkEnds'
    BY <1>0, <1>1, <1>2, LinkNumbers DEF LkEnds
  <1>6. LkDials'
    BY <1>0, <1>1, <1>2 DEF LkDials, LkTypes, LkEnds
  <1>7. LkListed' /\ LkTracked'
    BY <1>0, <1>1, <1>2, <1>3 DEF LkListed, LkEntry, AddressOf, Inbound, LkTracked, AtAddress
  <1>8. LkPeers'
    BY <1>0, <1>1, <1>2, <1>3 DEF LkPeers, LkNamed, Inbound
  <1>9. LkDoomed' /\ LkHeard'
    <2>1. ASSUME NEW m \in Nodes, NEW d \in doomed[m] \cup heard[m]
          PROVE  d \in LinkIds /\ ends'[d][m] = ends[d][m]
      BY <1>0, <1>2, <1>3, <2>1 DEF LkTypes
    <2>2. \A m \in Nodes : \A d \in LinkIds : AtAddress(m, d)' <=> AtAddress(m, d)
      BY <1>1 DEF AtAddress, AddressOf, Inbound
    <2>3. LkDoomed'
      BY <1>0, <1>1, <2>1 DEF LkDoomed
    <2>4. LkHeard'
      BY <1>0, <1>1, <2>1, <2>2 DEF LkHeard
    <2> QED
      BY <2>3, <2>4
  <1>10. LkSurvives'
    <2>1. ASSUME NEW d \in Nodes, LkKept(d) PROVE LkKept(d)'
      <3>1. \A e \in LkOf(d) : ends'[e][Other(d)] = ends[e][Other(d)]
        BY <1>1, <1>2, NodePair DEF LkOf
      <3>2. \A e \in LkOf(d) : ends[e][d] \in {"connecting", "ready"} => ends'[e][d] \in {"connecting", "ready"}
        BY <1>1, <1>2 DEF LkOf
      <3> QED
        BY <1>1, <2>1, <3>1, <3>2 DEF LkKept, LkOf, LkStays
    <2> QED
      BY <1>0, <1>1, <2>1 DEF LkSurvives, Nodes, LkOf
  <1> QED
    BY <1>4, <1>5, <1>6, <1>7, <1>8, <1>9, <1>10 DEF LinksInv

LEMMA DialFailsStep ==
  ASSUME LinksInv, NEW n \in Nodes, NEW c \in LinkIds, DialFails(n, c)
  PROVE  LinksInv'
  <1>0. LkTypes /\ LkEnds /\ LkDials /\ LkListed /\ LkPeers /\ LkDoomed /\ LkTracked /\ LkHeard /\ LkSurvives
    BY DEF LinksInv
  <1>1. /\ dialer' = dialer /\ wired' = wired /\ doomed' = doomed /\ discovered' = discovered
        /\ breaks < MaxBreaks /\ breaks' = breaks + 1 /\ displaced' = displaced /\ heard' = heard
        /\ lanState' = [lanState EXCEPT ![n] = "SCANNING"]
        /\ dialer[c] = n /\ Forget(n, c)
    BY DEF DialFails, FailedState
  <1>2. ends[c][n] = "connecting" /\ \A m \in Nodes : m # n => ends[c][m] = "none"
    BY DEF DialFails
  <1>3. /\ ends' \in [LinkIds -> [Nodes -> LkPhases]] /\ \A m \in Nodes : ends'[c][m] = "closed"
        /\ \A d \in LinkIds : d # c => ends'[d] = ends[d]
    BY <1>0 DEF DialFails, LkTypes, LkPhases
  <1>4. /\ LkMoved(n, c)
        /\ \A b \in Addresses : byAddress'[n][b] = IF byAddress[n][b] = c THEN NoLink ELSE byAddress[n][b]
        /\ \A k \in {"peer", "ip"} : byPeer'[n][k] = IF byPeer[n][k] = c THEN NoLink ELSE byPeer[n][k]
    BY <1>0, <1>1, ForgetDoes DEF LkTypes, LkNow
  <1>5. /\ \A m \in Nodes : c \notin doomed[m] /\ c \notin heard[m]
        /\ \A m \in Nodes : \A a \in Addresses : byAddress'[m][a] # c
        /\ \A m \in Nodes : \A k \in {"peer", "ip"} : byPeer'[m][k] # c
    <2>1. \A m \in Nodes : c \notin doomed[m] /\ c \notin heard[m]
      BY <1>0, <1>2 DEF LkDoomed, LkHeard
    <2>2. ASSUME NEW m \in Nodes, m # n
          PROVE  (\A a \in Addresses : byAddress'[m][a] # c) /\ \A k \in {"peer", "ip"} : byPeer'[m][k] # c
      BY <1>0, <1>2, <1>4, <2>2 DEF LkMoved, LkListed, LkEntry, LkPeers, LkNamed
    <2> QED
      BY <1>4, <2>1, <2>2, LinkNumbers
  <1>6. /\ \A m \in Nodes : \A a \in Addresses : \A d \in LinkIds :
             d # c => (byAddress'[m][a] = d <=> byAddress[m][a] = d)
        /\ \A m \in Nodes : \A k \in {"peer", "ip"} : \A d \in LinkIds :
             d # c => (byPeer'[m][k] = d <=> byPeer[m][k] = d)
    BY <1>4, LinkNumbers DEF LkMoved
  <1>7. LkTypes'
    BY <1>0, <1>1, <1>3, <1>4, LinksAssumption DEF LkTypes, LkMoved
  <1>8. LkEnds'
    BY <1>0, <1>1, <1>3, LinkNumbers DEF LkEnds
  <1>9. LkDials'
    <2> SUFFICES ASSUME NEW m \in Nodes, lanState'[m] = "CONNECTING"
                 PROVE  \E d \in LinkIds : ends'[d][m] = "connecting"
      BY DEF LkDials
    <2>1. m # n /\ lanState[m] = "CONNECTING"
      BY <1>0, <1>1 DEF LkTypes
    <2>2. PICK d \in LinkIds : ends[d][m] = "connecting"
      BY <1>0, <2>1 DEF LkDials
    <2> QED
      BY <1>2, <1>3, <2>1, <2>2
  <1>10. LkListed'
    <2> SUFFICES ASSUME NEW m \in Nodes, NEW a \in Addresses, NEW d \in LinkIds, byAddress'[m][a] = d
                 PROVE  LkEntry(m, a, d)'
      BY DEF LkListed
    <2>1. d # c /\ byAddress[m][a] = d /\ LkEntry(m, a, d)
      BY <1>0, <1>5, <1>6 DEF LkListed
    <2> QED
      BY <1>1, <1>3, <1>6, <2>1, AddressFits DEF LkEntry, AddressOf, Inbound
  <1>11. LkPeers'
    <2> SUFFICES ASSUME NEW m \in Nodes, NEW k \in {"peer", "ip"}, NEW d \in LinkIds, byPeer'[m][k] = d
                 PROVE  LkNamed(m, k, d)'
      BY DEF LkPeers
    <2>1. d # c /\ byPeer[m][k] = d /\ LkNamed(m, k, d)
      BY <1>0, <1>5, <1>6 DEF LkPeers
    <2> QED
      BY <1>1, <1>3, <1>6, <2>1, LinkNumbers DEF LkNamed, Inbound
  <1>12. LkDoomed'
    <2> SUFFICES ASSUME NEW m \in Nodes, NEW d \in doomed[m]
                 PROVE  /\ ends'[d][m] = "ready"
                        /\ \A a \in Addresses : byAddress'[m][a] # d
                        /\ \A k \in {"peer", "ip"} : byPeer'[m][k] # d
      BY <1>1 DEF LkDoomed
    <2>1. d # c /\ d \in LinkIds
      BY <1>0, <1>5 DEF LkTypes
    <2>2. /\ ends[d][m] = "ready"
          /\ \A a \in Addresses : byAddress[m][a] # d
          /\ \A k \in {"peer", "ip"} : byPeer[m][k] # d
      BY <1>0 DEF LkDoomed
    <2> QED
      BY <1>3, <1>6, <2>1, <2>2
  <1>13. LkTracked'
    BY <1>0, <1>1, <1>3, <1>6, AddressFits DEF LkTracked, AtAddress, AddressOf, Inbound
  <1>14. LkHeard'
    <2> SUFFICES ASSUME NEW m \in Nodes, NEW d \in heard[m]
                 PROVE  /\ ends'[d][m] \notin {"none", "connecting"}
                        /\ ends'[d][m] = "ready" /\ AtAddress(m, d)' => byPeer'[m]["peer"] = d
      BY <1>1 DEF LkHeard
    <2>1. d # c /\ d \in LinkIds
      BY <1>0, <1>5 DEF LkTypes
    <2>2. AtAddress(m, d)' <=> AtAddress(m, d)
      BY <1>1, <1>6, <2>1, AddressFits DEF AtAddress, AddressOf, Inbound
    <2> QED
      BY <1>0, <1>3, <1>6, <2>1, <2>2 DEF LkHeard
  <1>15. LkSurvives'
    BY <1>0, <1>1 DEF LkSurvives, LkTypes
  <1> QED
    BY <1>7, <1>8, <1>9, <1>10, <1>11, <1>12, <1>13, <1>14, <1>15 DEF LinksInv

\* A connection that is accepted and not kept: closed at once, or to be closed.
LkTurnedAway(n, c, v) ==
  /\ dialer[c] = Other(n) /\ ends[c][n] = "none" /\ v \in {"ready", "closed"}
  /\ ends' = [ends EXCEPT ![c][n] = v]
  /\ doomed' = [doomed EXCEPT ![n] = IF v = "closed" THEN @ ELSE @ \cup {c}]
  /\ UNCHANGED <<dialer, wired, byAddress, byPeer, discovered, lanState, breaks, displaced, heard>>
LkPreferring(d) ==
  KeepsBlind = {1} /\ MaxConnections > 1 /\ breaks = 0 /\ (d = 1 \/ LkOf(1) = {})

LEMMA PreferringKeeps ==
  ASSUME LkSurvives, NEW d \in Nodes, LkPreferring(d)
  PROVE  LkKept(d)
  BY DEF LkSurvives, LkPreferring, Nodes

LEMMA TurnedAwayStep ==
  ASSUME LinksInv, NEW n \in Nodes, NEW c \in LinkIds, NEW v, LkTurnedAway(n, c, v),
         LkPreferring(Other(n)) => \E e \in LkOf(Other(n)) : ends[e][n] # "none"
  PROVE  LinksInv'
  <1>0. LkTypes /\ LkEnds /\ LkDials /\ LkListed /\ LkPeers /\ LkDoomed /\ LkTracked /\ LkHeard /\ LkSurvives
    BY DEF LinksInv
  <1>1. /\ dialer' = dialer /\ wired' = wired /\ discovered' = discovered
        /\ byAddress' = byAddress /\ byPeer' = byPeer /\ lanState' = lanState
        /\ breaks' = breaks /\ displaced' = displaced /\ heard' = heard
        /\ dialer[c] = Other(n) /\ ends[c][n] = "none" /\ v \in {"ready", "closed"}
    BY DEF LkTurnedAway
  <1>2. /\ ends' \in [LinkIds -> [Nodes -> LkPhases]] /\ ends'[c][n] = v
        /\ \A d \in LinkIds : \A m \in Nodes : d # c \/ m # n => ends'[d][m] = ends[d][m]
    <2>1. v \in LkPhases /\ ends' = [ends EXCEPT ![c][n] = v]
      BY <1>1 DEF LkTurnedAway, LkPhases
    <2> QED
      BY <1>0, <2>1, EndMoves
  <1>3. /\ doomed' \in [Nodes -> SUBSET LinkIds]
        /\ \A m \in Nodes : m # n => doomed'[m] = doomed[m]
        /\ doomed'[n] = doomed[n] \cup (IF v = "closed" THEN {} ELSE {c})
    BY <1>0 DEF LkTurnedAway, LkTypes
  <1>4. /\ c \notin doomed[n] /\ c \notin heard[n]
        /\ \A a \in Addresses : byAddress[n][a] # c
        /\ \A k \in {"peer", "ip"} : byPeer[n][k] # c
    BY <1>0, <1>1 DEF LkDoomed, LkHeard, LkListed, LkEntry, LkPeers, LkNamed
  <1>5. LkTypes'
    BY <1>0, <1>1, <1>2, <1>3 DEF LkTypes, LkTables
  <1>6. LkEnds'
    BY <1>0, <1>1, <1>2, NodePair, LinkNumbers DEF LkEnds
  <1>7. LkDials'
    BY <1>0, <1>1, <1>2 DEF LkDials
  <1>8. LkListed' /\ LkPeers'
    <2>1. LkListed'
      BY <1>0, <1>1, <1>2, <1>4 DEF LkListed, LkEntry, AddressOf, Inbound
    <2>2. LkPeers'
      BY <1>0, <1>1, <1>2, <1>4 DEF LkPeers, LkNamed, Inbound
    <2> QED
      BY <2>1, <2>2
  <1>9. LkDoomed'
    <2> SUFFICES ASSUME NEW m \in Nodes, NEW d \in doomed'[m]
                 PROVE  /\ ends'[d][m] = "ready"
                        /\ \A a \in Addresses : byAddress[m][a] # d
                        /\ \A k \in {"peer", "ip"} : byPeer[m][k] # d
      BY <1>1 DEF LkDoomed
    <2>1. CASE m = n /\ d = c
      BY <1>1, <1>2, <1>3, <1>4, <2>1
    <2>2. CASE ~(m = n /\ d = c)
      <3>1. d \in doomed[m] /\ d \in LinkIds
        BY <1>0, <1>3, <2>2 DEF LkTypes
      <3> QED
        BY <1>0, <1>2, <2>2, <3>1 DEF LkDoomed
    <2> QED
      BY <2>1, <2>2
  <1>10. LkTracked'
    <2> SUFFICES ASSUME NEW m \in Nodes, NEW d \in LinkIds,
                        ends'[d][m] \in {"connecting", "ready"}, d \notin displaced
                 PROVE  AtAddress(m, d) \/ d \in doomed'[m]
      BY <1>1 DEF LkTracked, AtAddress, AddressOf, Inbound
    <2>1. CASE m = n /\ d = c
      BY <1>1, <1>2, <1>3, <2>1
    <2>2. CASE ~(m = n /\ d = c)
      BY <1>0, <1>2, <1>3, <2>2 DEF LkTracked
    <2> QED
      BY <2>1, <2>2
  <1>11. LkHeard'
    <2>1. ASSUME NEW m \in Nodes, NEW d \in heard[m]
          PROVE  ends'[d][m] = ends[d][m]
      BY <1>0, <1>2, <1>4 DEF LkTypes
    <2>2. \A m \in Nodes : \A d \in LinkIds : AtAddress(m, d)' <=> AtAddress(m, d)
      BY <1>1 DEF AtAddress, AddressOf, Inbound
    <2> QED
      BY <1>0, <1>1, <2>1, <2>2 DEF LkHeard, LkTypes
  <1>12. LkSurvives'
    <2>1. ASSUME NEW d \in Nodes, LkPreferring(d)
          PROVE  LkKept(d)'
      <3>0. LkKept(d)
        BY <1>0, <2>1, PreferringKeeps
      <3>1. LkOf(d)' = LkOf(d)
        BY <1>1 DEF LkOf
      <3>2. CASE n = d
        <4>1. c \notin LkOf(d)
          BY <1>1, <3>2, NodePair DEF LkOf
        <4> QED
          BY <1>2, <1>3, <3>0, <3>1, <3>2, <4>1, NodePair DEF LkKept, LkStays, LkOf
      <3>3. CASE n = Other(d)
        <4>1. n # d /\ d = Other(n)
          BY <3>3, NodePair
        <4>2. \A e \in LkOf(d) : /\ e \notin doomed'[d]
                                 /\ ends'[e][n] \in {"none", "ready"} => ends'[e][d] \in {"connecting", "ready"}
          BY <1>1, <1>2, <1>3, <3>0, <3>3, <4>1 DEF LkKept, LkOf
        <4>3. PICK g \in LkOf(d) : LkStays(d, g)
          BY <2>1, <3>0, <3>3, <4>1 DEF LkKept
        <4>4. g # c /\ LkStays(d, g)'
          BY <1>1, <1>2, <1>3, <3>3, <4>3 DEF LkStays, LkOf
        <4> QED
          BY <3>1, <3>3, <4>2, <4>3, <4>4 DEF LkKept
      <3> QED
        BY <3>2, <3>3, NodePair
    <2>2. \A d : LkPreferring(d)' => LkPreferring(d)
      BY <1>1 DEF LkPreferring, LkOf
    <2> QED
      BY <2>1, <2>2 DEF LkSurvives, LkPreferring, Nodes
  <1> QED
    BY <1>5, <1>6, <1>7, <1>8, <1>9, <1>10, <1>11, <1>12 DEF LinksInv

\* A full server has a connection that came in, and so has a full transport.
LEMMA FullIsUsed ==
  ASSUME LinksInv, NEW n \in Nodes, MaxConnections > 1, ServerFull(n) \/ TransportFull(n)
  PROVE  \E e \in LkOf(Other(n)) : ends[e][n] # "none"
  <1>0. LkTypes /\ LkEnds /\ LkListed
    BY DEF LinksInv
  <1>1. CASE ServerFull(n)
    <2> DEFINE S == {d \in LinkIds : dialer[d] = Other(n) /\ ends[d][n] \in {"ready", "closing"}}
    <2>1. Cardinality(S) >= MaxConnections
      BY <1>1 DEF ServerFull
    <2>2. S # {}
      <3>1. S = {} => Cardinality(S) = 0
        BY FS_EmptySet
      <3> QED
        BY <2>1, <3>1, LinksAssumption
    <2> QED
      BY <2>2 DEF LkOf
  <1>2. CASE TransportFull(n)
    <2>1. Cardinality(Entries(n)) >= MaxConnections
      BY <1>2 DEF TransportFull
    <2>2. \E a \in Entries(n) : a # Listening
      <3>1. SUFFICES ASSUME Entries(n) \subseteq {Listening} PROVE FALSE
        OBVIOUS
      <3>2. IsFiniteSet({Listening}) /\ Cardinality({Listening}) = 1
        BY FS_Singleton
      <3>3. Cardinality(Entries(n)) <= 1
        BY <3>1, <3>2, FS_Subset
      <3>4. Cardinality(Entries(n)) \in Nat
        BY <3>1, <3>2, FS_Subset, FS_CardinalityType
      <3> QED
        BY <2>1, <3>3, <3>4, LinksAssumption
    <2>3. PICK a \in Addresses : a # Listening /\ byAddress[n][a] # NoLink
      BY <2>2 DEF Entries
    <2>4. PICK e \in LinkIds : byAddress[n][a] = e
      BY <1>0, <2>3 DEF LkTypes, LkTables
    <2>5. Inbound(n, e) /\ dialer[e] # 0 /\ ends[e][n] # "none"
      BY <1>0, <2>3, <2>4 DEF LkListed, LkEntry
    <2>6. dialer[e] = Other(n)
      BY <1>0, <2>5, NodePair DEF LkTypes, Inbound
    <2> QED
      BY <2>5, <2>6 DEF LkOf
  <1> QED
    BY <1>1, <1>2

LEMMA KeepsOutbound ==
  ASSUME KeepsBlind = {1}, NEW n \in Nodes, NEW known \in BOOLEAN
  PROVE  KeepOutbound(n, known) <=> n = 1
  BY DEF KeepOutbound, Nodes, Other

LEMMA LoserIs ==
  ASSUME KeepsBlind = {1}, NEW n \in Nodes, NEW conn, NEW old
  PROVE  LoserOf(n, conn, old) = IF n = 1 THEN (IF Inbound(n, old) THEN old ELSE conn)
                                 ELSE (IF Inbound(n, old) THEN conn ELSE old)
  <1>1. KeepOutbound(n, TRUE) = (n = 1)
    BY DEF KeepOutbound, Nodes, Other
  <1> QED
    BY <1>1 DEF LoserOf, Inbound

LEMMA RefusedStep ==
  ASSUME LinksInv, NEW n \in Nodes, NEW c \in LinkIds, Accept(n, c), ServerFull(n) \/ TransportFull(n)
  PROVE  LinksInv'
  <1>1. AcceptRefused(n, c)
    BY DEF Accept
  <1>2. LkTurnedAway(n, c, IF ServerFull(n) THEN "closed" ELSE "ready")
    BY <1>1 DEF Accept, AcceptRefused, LkTurnedAway
  <1>3. LkPreferring(Other(n)) => \E e \in LkOf(Other(n)) : ends[e][n] # "none"
    BY FullIsUsed DEF LkPreferring
  <1> QED
    BY <1>2, <1>3, TurnedAwayStep

LEMMA DroppedStep ==
  ASSUME LinksInv, NEW n \in Nodes, NEW c \in LinkIds, Accept(n, c),
         NEW old \in Existing(n, c), AcceptDropped(n, c, old)
  PROVE  LinksInv'
  <1>0. LkTypes /\ LkListed /\ LkPeers /\ LkDoomed
    BY DEF LinksInv
  <1>1. LkTurnedAway(n, c, "ready")
    BY DEF Accept, AcceptDropped, LkTurnedAway
  <1>2. old \in LinkIds /\ ends[old][n] = "ready" /\ dialer[old] # 0
    BY <1>0, LinkNumbers, ExistingIs
  <1>3. ASSUME LkPreferring(Other(n)) PROVE old \in LkOf(Other(n))
    <2>1. SUFFICES ASSUME dialer[old] = n PROVE FALSE
      BY <1>0, <1>2, NodePair DEF LkOf, LkTypes
    <2>2. KeepOutbound(n, discovered[n])
      BY <2>1 DEF AcceptDropped, DropsInbound, Inbound
    <2>3. n = 1
      BY <1>0, <1>3, <2>2, KeepsOutbound DEF LkPreferring, LkTypes
    <2> QED
      BY <1>2, <1>3, <2>1, <2>3, NodePair DEF LkPreferring, LkOf
  <1>4. LkPreferring(Other(n)) => \E e \in LkOf(Other(n)) : ends[e][n] # "none"
    BY <1>2, <1>3
  <1> QED
    BY <1>1, <1>4, TurnedAwayStep

LEMMA KeptStep ==
  ASSUME LinksInv, NEW n \in Nodes, NEW c \in LinkIds, Accept(n, c),
         NEW old \in IF Existing(n, c) = {} THEN {NoLink} ELSE Existing(n, c), AcceptKept(n, c, old)
  PROVE  LinksInv'
  <1>0. LkTypes /\ LkEnds /\ LkDials /\ LkListed /\ LkPeers /\ LkDoomed /\ LkTracked /\ LkHeard /\ LkSurvives
    BY DEF LinksInv
  <1>1. /\ dialer' = dialer /\ discovered' = discovered
        /\ breaks' = breaks /\ displaced' = displaced /\ heard' = heard
        /\ wired' = wired \cup {c} /\ lanState' = [lanState EXCEPT ![n] = "CONNECTED"]
        /\ dialer[c] = Other(n) /\ ends[c][n] = "none"
        /\ old # NoLink => ~DropsInbound(n, old)
    BY DEF Accept, AcceptKept
  <1>2. /\ ends' \in [LinkIds -> [Nodes -> LkPhases]] /\ ends'[c][n] = "ready"
        /\ \A d \in LinkIds : \A m \in Nodes : d # c \/ m # n => ends'[d][m] = ends[d][m]
    <2>1. "ready" \in LkPhases /\ ends' = [ends EXCEPT ![c][n] = "ready"]
      BY DEF AcceptKept, LkPhases
    <2> QED
      BY <1>0, <2>1, EndMoves
  <1>3. /\ c \notin doomed[n] /\ c \notin heard[n]
        /\ \A a \in Addresses : byAddress[n][a] # c
        /\ \A k \in {"peer", "ip"} : byPeer[n][k] # c
    BY <1>0, <1>1 DEF LkDoomed, LkHeard, LkListed, LkEntry, LkPeers, LkNamed
  <1>4. /\ old \in LinkIds \cup {NoLink} /\ old # c
        /\ old # NoLink => ends[old][n] = "ready" /\ old \notin doomed[n] /\ dialer[old] = n
    <2>1. old # NoLink => old \in Existing(n, c)
      OBVIOUS
    <2>2. old # NoLink => old \in LinkIds /\ ends[old][n] = "ready" /\ old \notin doomed[n] /\ dialer[old] # 0
      BY <1>0, <2>1, LinkNumbers, ExistingIs
    <2>3. old # NoLink => ~Inbound(n, old)
      BY <1>1 DEF DropsInbound
    <2> QED
      BY <1>1, <2>2, <2>3, LinkNumbers DEF Inbound
  <1>5. /\ doomed' \in [Nodes -> SUBSET LinkIds]
        /\ \A m \in Nodes : m # n => doomed'[m] = doomed[m]
        /\ doomed'[n] = doomed[n] \cup ({old} \ {NoLink})
    BY <1>0, <1>4 DEF AcceptKept, LkTypes
  <1>6. /\ LkMoved(n, old)
        /\ byAddress'[n][c] = c /\ byPeer'[n][PeerKey(n)] = c
        /\ \A b \in Addresses : b # c => LkNow(byAddress'[n][b], byAddress[n][b], old)
        /\ \A k \in {"peer", "ip"} : k # PeerKey(n) => LkNow(byPeer'[n][k], byPeer[n][k], old)
    <2>1. Listed(n, old, c, c)
      BY DEF AcceptKept
    <2>2. c \in Addresses /\ LkTables /\ old \in LinkIds \cup {NoLink}
      BY <1>0, <1>4, LinkNumbers DEF LkTypes
    <2> QED
      BY <2>1, <2>2, ListedDoes
  <1>7. /\ \A a \in Addresses : byAddress[n][a] \in {NoLink} \cup LinkIds
        /\ \A k \in {"peer", "ip"} : byPeer[n][k] \in {NoLink} \cup LinkIds
    BY <1>0 DEF LkTypes, LkTables
  <1>8. /\ \A a \in Addresses : \A d \in LinkIds : d # c => (byAddress'[n][a] = d <=> byAddress[n][a] = d /\ d # old)
        /\ \A a \in Addresses : byAddress'[n][a] = c => a = c
    <2>1. byAddress[n][c] = NoLink
      BY <1>0, <1>1, <1>3, <1>7, LinkNumbers DEF LkListed, LkEntry
    <2> QED
      BY <1>3, <1>6, <1>7, <2>1, LinkNumbers DEF LkNow
  <1>9. \A d \in LinkIds : \A k \in {"peer", "ip"} : d # c /\ byPeer'[n][k] = d => byPeer[n][k] = d /\ d # old
    BY <1>6, <1>7, LinkNumbers DEF LkNow
  <1>10. \A d \in LinkIds : \A m \in Nodes : AddressOf(m, d)' = AddressOf(m, d) /\ (Inbound(m, d)' <=> Inbound(m, d))
    BY <1>1 DEF AddressOf, Inbound
  <1>11. Inbound(n, c) /\ AddressOf(n, c) = c /\ dialer[c] # 0
    BY <1>1, NodePair, LinkNumbers DEF AddressOf, Inbound
  <1>12. LkTypes'
    BY <1>0, <1>1, <1>2, <1>5, <1>6 DEF LkTypes, LkMoved
  <1>13. LkEnds'
    BY <1>0, <1>1, <1>2, <1>11, NodePair, LinkNumbers DEF LkEnds
  <1>14. LkDials'
    BY <1>0, <1>1, <1>2 DEF LkDials, LkTypes
  <1>15. LkListed'
    <2> SUFFICES ASSUME NEW m \in Nodes, NEW a \in Addresses, NEW d \in LinkIds, byAddress'[m][a] = d
                 PROVE  LkEntry(m, a, d)'
      BY DEF LkListed
    <2>1. CASE m # n
      <3>1. byAddress'[m] = byAddress[m] /\ LkEntry(m, a, d)
        BY <1>0, <1>6, <2>1 DEF LkMoved, LkListed
      <3> QED
        BY <1>1, <1>2, <1>10, <2>1, <3>1 DEF LkEntry
    <2>2. CASE m = n /\ d = c
      BY <1>1, <1>2, <1>6, <1>8, <1>10, <1>11, <2>2 DEF LkEntry
    <2>3. CASE m = n /\ d # c
      <3>1. byAddress[n][a] = d /\ d # old /\ LkEntry(n, a, d)
        BY <1>0, <1>8, <2>3 DEF LkListed
      <3> QED
        BY <1>1, <1>2, <1>8, <1>10, <2>3, <3>1, AddressFits DEF LkEntry
    <2> QED
      BY <2>1, <2>2, <2>3
  <1>16. LkPeers'
    <2> SUFFICES ASSUME NEW m \in Nodes, NEW k \in {"peer", "ip"}, NEW d \in LinkIds, byPeer'[m][k] = d
                 PROVE  LkNamed(m, k, d)'
      BY DEF LkPeers
    <2>1. CASE m # n
      <3>1. byPeer'[m] = byPeer[m] /\ byAddress'[m] = byAddress[m] /\ LkNamed(m, k, d)
        BY <1>0, <1>6, <2>1 DEF LkMoved, LkPeers
      <3> QED
        BY <1>1, <1>2, <1>10, <2>1, <3>1 DEF LkNamed
    <2>2. CASE m = n /\ d = c
      BY <1>1, <1>2, <1>6, <1>10, <1>11, <2>2 DEF LkNamed
    <2>3. CASE m = n /\ d # c
      <3>1. byPeer[n][k] = d /\ d # old /\ LkNamed(n, k, d)
        BY <1>0, <1>9, <2>3 DEF LkPeers
      <3> QED
        BY <1>1, <1>2, <1>8, <1>10, <2>3, <3>1, LinkNumbers DEF LkNamed
    <2> QED
      BY <2>1, <2>2, <2>3
  <1>17. LkDoomed'
    <2> SUFFICES ASSUME NEW m \in Nodes, NEW d \in doomed'[m]
                 PROVE  /\ ends'[d][m] = "ready"
                        /\ \A a \in Addresses : byAddress'[m][a] # d
                        /\ \A k \in {"peer", "ip"} : byPeer'[m][k] # d
      BY DEF LkDoomed
    <2>1. d \in LinkIds
      BY <1>5
    <2>2. CASE m # n
      BY <1>0, <1>2, <1>5, <1>6, <2>1, <2>2 DEF LkMoved, LkDoomed
    <2>3. CASE m = n /\ d = old
      BY <1>2, <1>4, <1>8, <1>9, <2>1, <2>3, LinkNumbers
    <2>4. CASE m = n /\ d # old
      <3>1. d \in doomed[n] /\ d # c
        BY <1>3, <1>5, <2>4
      <3>2. /\ ends[d][n] = "ready" /\ \A a \in Addresses : byAddress[n][a] # d
            /\ \A k \in {"peer", "ip"} : byPeer[n][k] # d
        BY <1>0, <3>1 DEF LkDoomed
      <3> QED
        BY <1>2, <1>8, <1>9, <2>1, <2>4, <3>1, <3>2
    <2> QED
      BY <2>2, <2>3, <2>4
  <1>18. LkTracked'
    <2> SUFFICES ASSUME NEW m \in Nodes, NEW d \in LinkIds,
                        ends'[d][m] \in {"connecting", "ready"}, d \notin displaced
                 PROVE  AtAddress(m, d)' \/ d \in doomed'[m]
      BY <1>1 DEF LkTracked
    <2>1. CASE m # n
      <3>1. byAddress'[m] = byAddress[m] /\ (AtAddress(m, d) \/ d \in doomed[m])
        BY <1>0, <1>2, <1>6, <2>1 DEF LkMoved, LkTracked
      <3> QED
        BY <1>5, <1>10, <2>1, <3>1 DEF AtAddress
    <2>2. CASE m = n /\ d = c
      BY <1>6, <1>10, <1>11, <2>2 DEF AtAddress
    <2>3. CASE m = n /\ d # c
      <3>1. AtAddress(n, d) \/ d \in doomed[n]
        BY <1>0, <1>2, <2>3 DEF LkTracked
      <3>2. d = old => d \in doomed'[n]
        BY <1>5, LinkNumbers
      <3> QED
        BY <1>5, <1>8, <1>10, <2>3, <3>1, <3>2, AddressFits DEF AtAddress
    <2> QED
      BY <2>1, <2>2, <2>3
  <1>19. LkHeard'
    <2> SUFFICES ASSUME NEW m \in Nodes, NEW d \in heard[m]
                 PROVE  /\ ends'[d][m] \notin {"none", "connecting"}
                        /\ ends'[d][m] = "ready" /\ AtAddress(m, d)' => byPeer'[m]["peer"] = d
      BY <1>1 DEF LkHeard
    <2>1. d \in LinkIds /\ ends'[d][m] = ends[d][m] /\ ends[d][m] \notin {"none", "connecting"}
          /\ (ends[d][m] = "ready" /\ AtAddress(m, d) => byPeer[m]["peer"] = d)
      BY <1>0, <1>2, <1>3 DEF LkTypes, LkHeard
    <2>2. CASE m # n
      BY <1>6, <1>10, <2>1, <2>2 DEF LkMoved, AtAddress
    <2>3. CASE m = n
      <3>1. SUFFICES ASSUME ends[d][n] = "ready", AtAddress(n, d)' PROVE byPeer'[n]["peer"] = d
        BY <2>1, <2>3
      <3>2. d # c /\ AtAddress(n, d) /\ d # old /\ byPeer[n]["peer"] = d
        BY <1>3, <1>8, <1>10, <2>1, <2>3, <3>1, AddressFits DEF AtAddress
      <3>3. ~discovered[n]
        <4>1. SUFFICES ASSUME discovered[n] PROVE FALSE
          OBVIOUS
        <4>2. PeerKey(n) = "peer" /\ IsReady(n, byPeer[n][PeerKey(n)])
          BY <2>1, <3>1, <3>2, <4>1, LinkNumbers DEF PeerKey, IsReady
        <4>3. ~IsReady(n, byAddress[n][c])
          BY <1>0, <1>1, <1>3, <1>7, LinkNumbers DEF IsReady, LkListed, LkEntry
        <4>4. Existing(n, c) = {byPeer[n][PeerKey(n)]}
          BY <1>0, <4>2, <4>3, LinkNumbers, ExistingIs
        <4> QED
          BY <3>2, <4>2, <4>4
      <3>4. PeerKey(n) # "peer"
        BY <3>3 DEF PeerKey
      <3> QED
        BY <1>6, <3>2, <3>4 DEF LkNow
    <2> QED
      BY <2>2, <2>3
  <1>20. LkSurvives'
    <2>1. ASSUME NEW d \in Nodes, LkPreferring(d)
          PROVE  LkKept(d)'
      <3>0. LkKept(d)
        BY <1>0, <2>1, PreferringKeeps
      <3>1. LkOf(d)' = LkOf(d)
        BY <1>1 DEF LkOf
      <3>2. CASE n = d
        <4>1. c \notin LkOf(d)
          BY <1>1, <3>2, NodePair DEF LkOf
        <4>2. old = NoLink
          <5>1. SUFFICES ASSUME old # NoLink PROVE FALSE
            OBVIOUS
          <5>2. ~KeepOutbound(n, discovered[n])
            BY <1>1, <5>1 DEF DropsInbound
          <5>3. n # 1
            BY <1>0, <2>1, <5>2, KeepsOutbound DEF LkPreferring, LkTypes
          <5> QED
            BY <1>1, <2>1, <3>2, <5>3, NodePair DEF LkPreferring, LkOf, Nodes
        <4> QED
          BY <1>2, <1>5, <3>0, <3>1, <3>2, <4>1, <4>2, NodePair DEF LkKept, LkStays, LkOf
      <3>3. CASE n = Other(d)
        <4>1. n # d /\ d = Other(n)
          BY <3>3, NodePair
        <4>2. \A e \in LkOf(d) : /\ e \notin doomed'[d]
                                 /\ ends'[e][n] \in {"none", "ready"} => ends'[e][d] \in {"connecting", "ready"}
          BY <1>1, <1>2, <1>5, <3>0, <3>3, <4>1 DEF LkKept, LkOf
        <4>3. c \in LkOf(d) /\ LkStays(d, c)'
          BY <1>1, <1>2, <1>3, <1>4, <1>5, <3>3, <4>1 DEF LkStays, LkOf
        <4> QED
          BY <3>1, <3>3, <4>2, <4>3 DEF LkKept
      <3> QED
        BY <3>2, <3>3, NodePair
    <2>2. \A d : LkPreferring(d)' => LkPreferring(d)
      BY <1>1 DEF LkPreferring, LkOf
    <2> QED
      BY <2>1, <2>2 DEF LkSurvives, LkPreferring, Nodes
  <1> QED
    BY <1>12, <1>13, <1>14, <1>15, <1>16, <1>17, <1>18, <1>19, <1>20 DEF LinksInv

LEMMA AcceptStep ==
  ASSUME LinksInv, NEW n \in Nodes, NEW c \in LinkIds, Accept(n, c)
  PROVE  LinksInv'
  <1>1. CASE ServerFull(n) \/ TransportFull(n)
    BY <1>1, RefusedStep
  <1>2. CASE ~(ServerFull(n) \/ TransportFull(n))
    <2>1. PICK old \in IF Existing(n, c) = {} THEN {NoLink} ELSE Existing(n, c) :
            (old # NoLink /\ AcceptDropped(n, c, old)) \/ AcceptKept(n, c, old)
      BY <1>2 DEF Accept
    <2>2. CASE AcceptKept(n, c, old)
      BY <2>2, KeptStep
    <2>3. CASE old # NoLink /\ AcceptDropped(n, c, old)
      BY <2>3, DroppedStep
    <2> QED
      BY <2>1, <2>2, <2>3
  <1> QED
    BY <1>1, <1>2

LEMMA PacketStep ==
  ASSUME LinksInv, NEW n \in Nodes, NEW c \in LinkIds, HandlePacket(n, c)
  PROVE  LinksInv'
  <1> DEFINE conn == byAddress[n][AddressOf(n, c)]
             old  == byPeer[n]["peer"]
             drop == LoserOf(n, conn, old)
             keep == IF drop = old THEN conn ELSE old
  <1>0. LkTypes /\ LkEnds /\ LkDials /\ LkListed /\ LkPeers /\ LkDoomed /\ LkTracked /\ LkHeard /\ LkSurvives
    BY DEF LinksInv
  <1>1. /\ dialer' = dialer /\ ends' = ends /\ wired' = wired /\ discovered' = discovered
        /\ lanState' = lanState /\ breaks' = breaks /\ displaced' = displaced
        /\ heard' = [heard EXCEPT ![n] = @ \cup {c}] /\ ends[c][n] = "ready"
    BY DEF HandlePacket, IsReady
  <1>2. /\ \A b \in Addresses : byAddress[n][b] \in {NoLink} \cup LinkIds
        /\ \A k \in {"peer", "ip"} : byPeer[n][k] \in {NoLink} \cup LinkIds
        /\ AddressOf(n, c) \in Addresses
    BY <1>0, AddressFits DEF LkTypes, LkTables
  <1>3. /\ heard' \in [Nodes -> SUBSET LinkIds] /\ heard'[n] = heard[n] \cup {c}
        /\ \A m \in Nodes : m # n => heard'[m] = heard[m]
    BY <1>0, <1>1 DEF LkTypes
  <1>4. \A d \in LinkIds : \A m \in Nodes : AddressOf(m, d)' = AddressOf(m, d) /\ (Inbound(m, d)' <=> Inbound(m, d))
    BY <1>1 DEF AddressOf, Inbound
  <1>5. IsReady(n, conn) => /\ conn \in LinkIds /\ ends[conn][n] = "ready" /\ conn \notin doomed[n]
                            /\ LkEntry(n, AddressOf(n, c), conn)
    BY <1>0, <1>2 DEF IsReady, LkDoomed, LkListed
  <1>6. IsReady(n, old) => /\ old \in LinkIds /\ ends[old][n] = "ready" /\ old \notin doomed[n]
                           /\ LkNamed(n, "peer", old)
    BY <1>0, <1>2 DEF IsReady, LkDoomed, LkPeers
  <1>7. LkEnds' /\ LkDials'
    BY <1>0, <1>1 DEF LkEnds, LkDials
  <1>8. IsReady(n, conn) => LkNamed(n, "peer", conn)
    <2>1. SUFFICES ASSUME IsReady(n, conn) PROVE LkNamed(n, "peer", conn)
      OBVIOUS
    <2>2. Inbound(n, conn) => byAddress[n][conn] = conn
      BY <1>5, <2>1 DEF LkEntry, AddressOf
    <2>3. ~Inbound(n, conn) => byAddress[n][Listening] = conn
      BY <1>5, <2>1 DEF LkEntry, AddressOf
    <2> QED
      BY <1>5, <2>1, <2>2, <2>3 DEF LkNamed, LkEntry
  <1>9. ASSUME ~BothReady(n, conn, old)
        PROVE  LinksInv'
    <2>1. /\ doomed' = doomed /\ byAddress' = byAddress
          /\ byPeer' = [byPeer EXCEPT ![n]["peer"] = IF IsReady(n, conn) THEN conn ELSE @]
      BY <1>9 DEF HandlePacket
    <2>2. /\ byPeer' \in [Nodes -> [{"peer", "ip"} -> {NoLink} \cup LinkIds]]
          /\ byPeer'[n]["peer"] = (IF IsReady(n, conn) THEN conn ELSE old) /\ byPeer'[n]["ip"] = byPeer[n]["ip"]
          /\ \A m \in Nodes : m # n => byPeer'[m] = byPeer[m]
      BY <1>0, <1>2, <2>1 DEF LkTypes, LkTables
    <2>3. LkTypes'
      BY <1>0, <1>1, <1>3, <2>1, <2>2 DEF LkTypes, LkTables
    <2>4. LkListed' /\ LkTracked'
      BY <1>0, <1>1, <2>1 DEF LkListed, LkEntry, LkTracked, AtAddress, AddressOf, Inbound
    <2>5. LkPeers'
      <3> SUFFICES ASSUME NEW m \in Nodes, NEW k \in {"peer", "ip"}, NEW d \in LinkIds, byPeer'[m][k] = d
                   PROVE  LkNamed(m, k, d)'
        BY DEF LkPeers
      <3>1. LkNamed(m, k, d)
        BY <1>0, <1>8, <2>2 DEF LkPeers
      <3> QED
        BY <1>1, <1>4, <2>1, <3>1 DEF LkNamed
    <2>6. LkDoomed'
      <3> SUFFICES ASSUME NEW m \in Nodes, NEW d \in doomed[m]
                   PROVE  \A k \in {"peer", "ip"} : byPeer'[m][k] # d
        BY <1>0, <1>1, <2>1 DEF LkDoomed
      <3>1. \A k \in {"peer", "ip"} : byPeer[m][k] # d
        BY <1>0 DEF LkDoomed
      <3> QED
        BY <1>5, <2>2, <3>1
    <2>7. LkHeard'
      <3> SUFFICES ASSUME NEW m \in Nodes, NEW d \in heard'[m]
                   PROVE  /\ ends[d][m] \notin {"none", "connecting"}
                          /\ ends[d][m] = "ready" /\ AtAddress(m, d) => byPeer'[m]["peer"] = d
        BY <1>1, <1>3, <1>4, <2>1 DEF LkHeard, AtAddress
      <3>1. CASE m = n /\ d = c
        <4>1. AtAddress(n, c) => conn = c /\ IsReady(n, conn)
          BY <1>1, LinkNumbers DEF AtAddress, IsReady
        <4> QED
          BY <1>1, <2>2, <3>1, <4>1
      <3>2. CASE ~(m = n /\ d = c)
        <4>1. d \in heard[m] /\ d \in LinkIds
          BY <1>0, <1>3, <3>2 DEF LkTypes
        <4>2. /\ ends[d][m] \notin {"none", "connecting"}
              /\ ends[d][m] = "ready" /\ AtAddress(m, d) => byPeer[m]["peer"] = d
          BY <1>0, <4>1 DEF LkHeard
        <4>3. CASE m # n
          BY <2>2, <4>2, <4>3
        <4>4. CASE m = n
          <5>1. ends[d][n] = "ready" /\ AtAddress(n, d) => old = d /\ IsReady(n, old)
            BY <4>1, <4>2, <4>4, LinkNumbers DEF IsReady
          <5>2. IsReady(n, old) /\ IsReady(n, conn) => conn = old
            BY <1>9 DEF BothReady
          <5> QED
            BY <2>2, <4>2, <4>4, <5>1, <5>2
        <4> QED
          BY <4>3, <4>4
      <3> QED
        BY <3>1, <3>2
    <2>8. LkSurvives'
      BY <1>0, <1>1, <2>1 DEF LkSurvives, LkKept, LkOf, LkStays
    <2> QED
      BY <1>7, <2>3, <2>4, <2>5, <2>6, <2>7, <2>8 DEF LinksInv
  <1>10. ASSUME BothReady(n, conn, old)
         PROVE  LinksInv'
    <2>1. /\ conn # old /\ IsReady(n, conn) /\ IsReady(n, old)
          /\ drop \in {conn, old} /\ keep \in {conn, old} /\ drop # keep
          /\ drop \in LinkIds /\ keep \in LinkIds /\ IsReady(n, keep)
          /\ ends[drop][n] = "ready" /\ ends[keep][n] = "ready" /\ keep \notin doomed[n]
          /\ LkNamed(n, "peer", keep)
      BY <1>5, <1>6, <1>8, <1>10 DEF BothReady, LoserOf
    <2>2. /\ doomed' = [doomed EXCEPT ![n] = @ \cup {drop}]
          /\ byAddress' = [byAddress EXCEPT ![n] = Unlisted(@, drop)]
          /\ byPeer' = [byPeer EXCEPT ![n] = [Unlisted(@, drop) EXCEPT !["peer"] = keep]]
      BY <1>10 DEF HandlePacket
    <2>3. /\ doomed' \in [Nodes -> SUBSET LinkIds] /\ doomed'[n] = doomed[n] \cup {drop}
          /\ \A m \in Nodes : m # n => doomed'[m] = doomed[m]
      BY <1>0, <2>1, <2>2 DEF LkTypes
    <2>4. /\ LkTables'
          /\ \A m \in Nodes : m # n => byAddress'[m] = byAddress[m] /\ byPeer'[m] = byPeer[m]
          /\ \A b \in Addresses : byAddress'[n][b] = IF byAddress[n][b] = drop THEN NoLink ELSE byAddress[n][b]
          /\ byPeer'[n]["peer"] = keep
          /\ byPeer'[n]["ip"] = IF byPeer[n]["ip"] = drop THEN NoLink ELSE byPeer[n]["ip"]
      <3> HIDE DEF drop, keep
      <3> DEFINE ta == Unlisted(byAddress[n], drop)
                 tp == [Unlisted(byPeer[n], drop) EXCEPT !["peer"] = keep]
      <3>1. byAddress' = [byAddress EXCEPT ![n] = ta] /\ byPeer' = [byPeer EXCEPT ![n] = tp]
        BY <2>2
      <3>2. byAddress[n] \in [Addresses -> {NoLink} \cup LinkIds] /\ byPeer[n] \in [{"peer", "ip"} -> {NoLink} \cup LinkIds]
        BY <1>0 DEF LkTypes, LkTables
      <3>3. /\ ta \in [Addresses -> {NoLink} \cup LinkIds]
            /\ \A b \in Addresses : ta[b] = IF byAddress[n][b] = drop THEN NoLink ELSE byAddress[n][b]
        BY <3>2 DEF Unlisted
      <3>4. /\ tp \in [{"peer", "ip"} -> {NoLink} \cup LinkIds] /\ tp["peer"] = keep
            /\ tp["ip"] = IF byPeer[n]["ip"] = drop THEN NoLink ELSE byPeer[n]["ip"]
        BY <2>1, <3>2 DEF Unlisted
      <3>5. byAddress'[n] = ta /\ byPeer'[n] = tp
        BY <1>0, <3>1 DEF LkTypes, LkTables
      <3>6. /\ LkTables'
            /\ \A m \in Nodes : m # n => byAddress'[m] = byAddress[m] /\ byPeer'[m] = byPeer[m]
        <4> HIDE DEF ta, tp
        <4> QED
          BY <1>0, <3>1, <3>3, <3>4 DEF LkTypes, LkTables
      <3> QED
        BY <3>3, <3>4, <3>5, <3>6
    <2> HIDE DEF drop, keep
    <2>5. /\ \A d \in LinkIds : \A b \in Addresses : byAddress'[n][b] = d <=> byAddress[n][b] = d /\ d # drop
          /\ \A d \in LinkIds : \A k \in {"peer", "ip"} :
               byPeer'[n][k] = d => d # drop /\ (byPeer[n][k] = d \/ (d = keep /\ k = "peer"))
      BY <2>1, <2>4, LinkNumbers
    <2>6. LkTypes'
      BY <1>0, <1>1, <1>3, <2>3, <2>4 DEF LkTypes
    <2>7. LkListed'
      <3> SUFFICES ASSUME NEW m \in Nodes, NEW a \in Addresses, NEW d \in LinkIds, byAddress'[m][a] = d
                   PROVE  LkEntry(m, a, d)'
        BY DEF LkListed
      <3>1. LkEntry(m, a, d)
        BY <1>0, <2>4, <2>5 DEF LkListed
      <3>2. byAddress'[m][AddressOf(m, d)] = d
        BY <2>4, <2>5, <3>1, AddressFits DEF LkEntry
      <3> QED
        BY <1>1, <1>4, <3>1, <3>2 DEF LkEntry
    <2>8. LkPeers'
      <3> SUFFICES ASSUME NEW m \in Nodes, NEW k \in {"peer", "ip"}, NEW d \in LinkIds, byPeer'[m][k] = d
                   PROVE  LkNamed(m, k, d)'
        BY DEF LkPeers
      <3>1. LkNamed(m, k, d)
        BY <1>0, <2>1, <2>4, <2>5 DEF LkPeers
      <3>2. \A b \in Addresses : byAddress[m][b] = d => byAddress'[m][b] = d
        BY <2>4, <2>5
      <3> QED
        BY <1>1, <1>4, <3>1, <3>2, LinkNumbers DEF LkNamed
    <2>9. LkDoomed'
      <3> SUFFICES ASSUME NEW m \in Nodes, NEW d \in doomed'[m]
                   PROVE  /\ ends[d][m] = "ready"
                          /\ \A a \in Addresses : byAddress'[m][a] # d
                          /\ \A k \in {"peer", "ip"} : byPeer'[m][k] # d
        BY <1>1 DEF LkDoomed
      <3>1. CASE m = n /\ d = drop
        BY <2>1, <2>5, <3>1
      <3>2. CASE ~(m = n /\ d = drop)
        <4>1. d \in doomed[m] /\ d \in LinkIds
          BY <2>3, <3>2
        <4>2. /\ ends[d][m] = "ready" /\ \A a \in Addresses : byAddress[m][a] # d
              /\ \A k \in {"peer", "ip"} : byPeer[m][k] # d
          BY <1>0, <4>1 DEF LkDoomed
        <4> QED
          BY <2>1, <2>4, <2>5, <4>1, <4>2
      <3> QED
        BY <3>1, <3>2
    <2>10. LkTracked'
      <3> SUFFICES ASSUME NEW m \in Nodes, NEW d \in LinkIds,
                          ends[d][m] \in {"connecting", "ready"}, d \notin displaced
                   PROVE  AtAddress(m, d)' \/ d \in doomed'[m]
        BY <1>1 DEF LkTracked
      <3>1. AtAddress(m, d) \/ d \in doomed[m]
        BY <1>0 DEF LkTracked
      <3> QED
        BY <1>4, <2>3, <2>4, <2>5, <3>1, AddressFits DEF AtAddress
    <2>11. LkHeard'
      <3> SUFFICES ASSUME NEW m \in Nodes, NEW d \in heard'[m]
                   PROVE  /\ ends[d][m] \notin {"none", "connecting"}
                          /\ ends[d][m] = "ready" /\ AtAddress(m, d)' => byPeer'[m]["peer"] = d
        BY <1>1 DEF LkHeard
      <3>0. d \in LinkIds
        BY <1>3
      <3>1. CASE m # n
        <4>1. d \in heard[m] /\ byAddress'[m] = byAddress[m] /\ byPeer'[m] = byPeer[m]
          BY <1>3, <2>4, <3>1
        <4> QED
          BY <1>0, <1>4, <3>0, <4>1 DEF LkHeard, AtAddress
      <3>2. CASE m = n
        <4>1. AtAddress(n, d)' => AtAddress(n, d) /\ d # drop
          BY <1>4, <2>5, <3>0, AddressFits DEF AtAddress
        <4>2. CASE d = c
          <5>1. AtAddress(n, c) => conn = c
            BY DEF AtAddress
          <5> QED
            BY <1>1, <2>1, <2>4, <3>2, <4>1, <4>2, <5>1
        <4>3. CASE d # c
          <5>1. /\ ends[d][n] \notin {"none", "connecting"}
                /\ ends[d][n] = "ready" /\ AtAddress(n, d) => old = d
            BY <1>0, <1>3, <3>2, <4>3 DEF LkHeard
          <5> QED
            BY <2>1, <2>4, <3>2, <4>1, <5>1
        <4> QED
          BY <4>2, <4>3
      <3> QED
        BY <3>1, <3>2
    <2>12. Inbound(n, conn) \/ Inbound(n, old)
      <3>1. ~Inbound(n, conn) => byAddress[n][Listening] = conn
        BY <1>5, <2>1 DEF LkEntry, AddressOf
      <3>2. ~Inbound(n, old) => byAddress[n][Listening] = old
        BY <1>6, <2>1 DEF LkNamed
      <3> QED
        BY <2>1, <3>1, <3>2
    <2>13. dialer[conn] # 0 /\ dialer[old] # 0
      BY <1>5, <1>6, <2>1 DEF LkEntry, LkNamed
    <2>14. LkSurvives'
      <3>1. ASSUME NEW d \in Nodes, LkPreferring(d)
            PROVE  LkKept(d)'
        <4>0. LkKept(d)
          BY <1>0, <3>1, PreferringKeeps
        <4>1. LkOf(d)' = LkOf(d)
          BY <1>1 DEF LkOf
        <4>2. n = 1 /\ d # 1 => Inbound(n, conn) /\ Inbound(n, old)
          BY <2>1, <3>1, <1>5, <1>6 DEF LkPreferring, LkOf, Inbound
        <4>3. drop = IF n = 1 THEN (IF Inbound(n, old) THEN old ELSE conn)
                     ELSE (IF Inbound(n, old) THEN conn ELSE old)
          BY <3>1, LoserIs DEF drop, LkPreferring
        <4>4. n = 2 /\ d = 2 => FALSE
          BY <1>0, <2>1, <2>12, <2>13, <3>1, LinkNumbers DEF LkTypes, LkPreferring, LkOf, Inbound, Nodes
        <4>5. CASE n = d
          <5>1. n = 1
            BY <4>4, <4>5 DEF Nodes
          <5>2. drop \notin LkOf(d)
            BY <2>12, <4>3, <4>5, <5>1 DEF LkOf, Inbound
          <5> QED
            BY <1>1, <2>3, <4>0, <4>1, <4>5, <5>2, NodePair DEF LkKept, LkStays, LkOf
        <4>6. CASE n = Other(d)
          <5>1. n # d /\ d = Other(n)
            BY <4>6, NodePair
          <5>2. \A e \in LkOf(d) : /\ e \notin doomed'[d]
                                   /\ ends[e][n] \in {"none", "ready"} => ends[e][d] \in {"connecting", "ready"}
            BY <2>3, <4>0, <4>6, <5>1 DEF LkKept
          <5>3. PICK g \in LkOf(d) : LkStays(d, g)
            BY <2>1, <2>12, <2>13, <4>0, <4>6, <5>1, <1>0, <1>5, <1>6, NodePair DEF LkKept, LkOf, Inbound, LkTypes
          <5>4. CASE g # drop
            <6>1. LkStays(d, g)'
              BY <1>1, <2>3, <4>6, <5>3, <5>4 DEF LkStays
            <6> QED
              BY <1>1, <4>1, <4>6, <5>2, <5>3, <6>1 DEF LkKept
          <5>5. CASE g = drop
            <6>1. dialer[drop] = d /\ Inbound(n, drop)
              BY <5>1, <5>3, <5>5 DEF LkOf, Inbound
            <6>2. PICK k \in LinkIds : k = keep
              BY <2>1
            <6>3. Inbound(n, k)
              BY <2>1, <4>2, <4>3, <5>1, <6>1, <6>2 DEF keep
            <6>4. k \in LkOf(d)
              BY <1>0, <2>1, <2>13, <5>1, <6>2, <6>3, NodePair DEF LkOf, Inbound, LkTypes
            <6>5. LkStays(d, k)'
              BY <1>1, <2>1, <2>3, <4>6, <6>2 DEF LkStays
            <6> QED
              BY <1>1, <4>1, <4>6, <5>2, <6>4, <6>5 DEF LkKept
          <5> QED
            BY <5>4, <5>5
        <4> QED
          BY <4>5, <4>6, NodePair
      <3>2. \A d : LkPreferring(d)' => LkPreferring(d)
        BY <1>1 DEF LkPreferring, LkOf
      <3> QED
        BY <3>1, <3>2 DEF LkSurvives, LkPreferring, Nodes
    <2> QED
      BY <1>7, <2>6, <2>7, <2>8, <2>9, <2>10, <2>11, <2>14 DEF LinksInv
  <1> QED
    BY <1>9, <1>10

LEMMA CloseBeginsStep ==
  ASSUME LinksInv, NEW n \in Nodes, NEW c \in LinkIds, CloseBegins(n, c)
  PROVE  LinksInv'
  <1>0. LkTypes /\ LkEnds /\ LkDials /\ LkListed /\ LkPeers /\ LkDoomed /\ LkTracked /\ LkHeard /\ LkSurvives
    BY DEF LinksInv
  <1>1. /\ dialer' = dialer /\ wired' = wired /\ byAddress' = byAddress /\ byPeer' = byPeer
        /\ discovered' = discovered /\ lanState' = lanState /\ displaced' = displaced /\ heard' = heard
        /\ ends[c][n] = "ready"
        /\ \/ breaks' = breaks /\ (c \in doomed[n] \/ ends[c][Other(n)] \in {"closing", "closed"})
           \/ breaks < MaxBreaks /\ breaks' = breaks + 1
    BY DEF CloseBegins, IsReady
  <1>2. /\ ends' \in [LinkIds -> [Nodes -> LkPhases]] /\ ends'[c][n] = "closing"
        /\ \A d \in LinkIds : \A m \in Nodes : d # c \/ m # n => ends'[d][m] = ends[d][m]
    <2>1. "closing" \in LkPhases /\ ends' = [ends EXCEPT ![c][n] = "closing"]
      BY DEF CloseBegins, LkPhases
    <2> QED
      BY <1>0, <2>1, EndMoves
  <1>3. /\ doomed' \in [Nodes -> SUBSET LinkIds] /\ doomed'[n] = doomed[n] \ {c}
        /\ \A m \in Nodes : m # n => doomed'[m] = doomed[m]
    BY <1>0 DEF CloseBegins, LkTypes
  <1>4. \A d \in LinkIds : \A m \in Nodes : AddressOf(m, d)' = AddressOf(m, d) /\ (Inbound(m, d)' <=> Inbound(m, d))
    BY <1>1 DEF AddressOf, Inbound
  <1>5. LkTypes'
    BY <1>0, <1>1, <1>2, <1>3, LinksAssumption DEF LkTypes, LkTables
  <1>6. LkEnds'
    BY <1>0, <1>1, <1>2 DEF LkEnds
  <1>7. LkDials'
    BY <1>0, <1>1, <1>2 DEF LkDials
  <1>8. LkListed'
    BY <1>0, <1>1, <1>2, <1>4 DEF LkListed, LkEntry
  <1>9. LkPeers'
    BY <1>0, <1>1, <1>2, <1>4 DEF LkPeers, LkNamed
  <1>10. LkDoomed'
    <2>1. ASSUME NEW m \in Nodes, NEW d \in doomed'[m]
          PROVE  d \in doomed[m] /\ ends'[d][m] = ends[d][m]
      BY <1>2, <1>3
    <2> QED
      BY <1>0, <1>1, <2>1 DEF LkDoomed
  <1>11. LkTracked'
    <2> SUFFICES ASSUME NEW m \in Nodes, NEW d \in LinkIds,
                        ends'[d][m] \in {"connecting", "ready"}, d \notin displaced
                 PROVE  AtAddress(m, d) \/ d \in doomed'[m]
      BY <1>1, <1>4 DEF LkTracked, AtAddress
    <2>1. ~(m = n /\ d = c) /\ ends'[d][m] = ends[d][m]
      BY <1>2
    <2> QED
      BY <1>0, <1>3, <2>1 DEF LkTracked
  <1>12. LkHeard'
    <2> SUFFICES ASSUME NEW m \in Nodes, NEW d \in heard[m]
                 PROVE  /\ ends'[d][m] \notin {"none", "connecting"}
                        /\ ends'[d][m] = "ready" /\ AtAddress(m, d) => byPeer[m]["peer"] = d
      BY <1>0, <1>1, <1>4 DEF LkHeard, AtAddress, LkTypes
    <2>1. d \in LinkIds
      BY <1>0 DEF LkTypes
    <2> QED
      BY <1>0, <1>2, <2>1 DEF LkHeard
  <1>13. LkSurvives'
    <2>1. ASSUME NEW d \in Nodes, LkPreferring(d), breaks' = 0
          PROVE  LkKept(d)'
      <3>0. LkKept(d)
        BY <1>0, <2>1, PreferringKeeps
      <3>1. LkOf(d)' = LkOf(d) /\ Other(d) \in Nodes /\ Other(d) # d
        BY <1>1, NodePair DEF LkOf
      <3>2. c \in doomed[n] \/ ends[c][Other(n)] \in {"closing", "closed"}
        BY <1>0, <1>1, <2>1 DEF LkTypes
      <3>3. ASSUME c \in LkOf(d), n = d PROVE ends[c][Other(d)] \notin {"none", "ready"}
        BY <3>0, <3>2, <3>3 DEF LkKept
      <3>4. ASSUME NEW e \in LkOf(d)
            PROVE  /\ e \notin doomed'[d]
                   /\ ends'[e][Other(d)] \in {"none", "ready"} => ends'[e][d] \in {"connecting", "ready"}
        <4>1. e \notin doomed'[d]
          BY <1>3, <3>0 DEF LkKept
        <4>2. CASE e = c /\ n = d
          BY <1>2, <3>1, <3>3, <4>1, <4>2 DEF LkOf
        <4>3. CASE e = c /\ n # d
          BY <1>2, <3>1, <4>1, <4>3, NodePair
        <4>4. CASE e # c
          BY <1>2, <3>0, <3>1, <4>1, <4>4 DEF LkKept, LkOf
        <4> QED
          BY <4>1, <4>2, <4>3, <4>4
      <3>5. ASSUME NEW e \in LkOf(d), ends'[e][Other(d)] # "none" PROVE \E g \in LkOf(d) : LkStays(d, g)'
        <4>1. ends[e][Other(d)] # "none"
          BY <1>1, <1>2, <3>1, <3>5 DEF LkOf
        <4>2. PICK g \in LkOf(d) : LkStays(d, g)
          BY <3>0, <4>1 DEF LkKept
        <4>3. ends[g][d] \in {"connecting", "ready"}
          BY <3>0, <4>2 DEF LkKept, LkStays
        <4>4. ~(g = c /\ n = Other(d))
          BY <3>2, <4>2, <4>3, NodePair DEF LkStays
        <4>5. LkStays(d, g)'
          BY <1>2, <1>3, <3>1, <4>2, <4>4 DEF LkStays, LkOf
        <4> QED
          BY <4>5
      <3> QED
        BY <3>1, <3>4, <3>5 DEF LkKept
    <2>2. \A d : LkPreferring(d)' => LkPreferring(d) /\ breaks' = 0
      BY <1>0, <1>1, LinksAssumption DEF LkPreferring, LkOf, LkTypes
    <2> QED
      BY <2>1, <2>2 DEF LkSurvives, LkPreferring, Nodes
  <1> QED
    BY <1>5, <1>6, <1>7, <1>8, <1>9, <1>10, <1>11, <1>12, <1>13 DEF LinksInv

\* A connection taken out of both tables.
LEMMA ForgottenLinks ==
  ASSUME LinksInv, NEW n \in Nodes, NEW c \in LinkIds, Forget(n, c)
  PROVE  /\ LkTables'
         /\ \A m \in Nodes : \A a \in Addresses : \A d \in LinkIds :
              byAddress'[m][a] = d <=> byAddress[m][a] = d /\ ~(m = n /\ d = c)
         /\ \A m \in Nodes : \A k \in {"peer", "ip"} : \A d \in LinkIds :
              byPeer'[m][k] = d <=> byPeer[m][k] = d /\ ~(m = n /\ d = c)
  <1>1. LkTables
    BY DEF LinksInv, LkTypes
  <1> QED
    BY <1>1, ForgetDoes, LinkNumbers DEF LkMoved, LkNow

\* The tables after some connections of a node were taken out of them; what is
\* left of the invariant is then what it says of those connections.
LkDropped(n, gone) ==
  /\ LkTables'
  /\ \A m \in Nodes : \A a \in Addresses : \A d \in LinkIds :
       byAddress'[m][a] = d <=> byAddress[m][a] = d /\ ~(m = n /\ d \in gone)
  /\ \A m \in Nodes : \A k \in {"peer", "ip"} : \A d \in LinkIds :
       byPeer'[m][k] = d <=> byPeer[m][k] = d /\ ~(m = n /\ d \in gone)

LEMMA DroppedTables ==
  ASSUME LinksInv, NEW n \in Nodes, NEW gone \in SUBSET LinkIds, LkDropped(n, gone),
         dialer' = dialer, wired' = wired, discovered' = discovered, heard' = heard,
         \A d \in LinkIds : \A m \in Nodes :
           ends'[d][m] = ends[d][m]
             \/ (ends[d][m] = "closing" /\ ends'[d][m] = "closed" /\ \A a \in Addresses : byAddress'[m][a] # d)
  PROVE  LkListed' /\ LkPeers' /\ LkHeard'
  <1>0. LkTypes /\ LkListed /\ LkPeers /\ LkHeard
    BY DEF LinksInv
  <1>1. \A d \in LinkIds : \A m \in Nodes : AddressOf(m, d)' = AddressOf(m, d) /\ (Inbound(m, d)' <=> Inbound(m, d))
    BY DEF AddressOf, Inbound
  <1>2. LkListed'
    <2> SUFFICES ASSUME NEW m \in Nodes, NEW a \in Addresses, NEW d \in LinkIds, byAddress'[m][a] = d
                 PROVE  LkEntry(m, a, d)'
      BY DEF LkListed
    <2>1. LkEntry(m, a, d) /\ ~(m = n /\ d \in gone) /\ ends'[d][m] = ends[d][m]
      BY <1>0 DEF LkListed, LkDropped
    <2>2. byAddress'[m][AddressOf(m, d)] = d
      BY <2>1, AddressFits DEF LkEntry, LkDropped
    <2> QED
      BY <1>1, <2>1, <2>2 DEF LkEntry
  <1>3. LkPeers'
    <2> SUFFICES ASSUME NEW m \in Nodes, NEW k \in {"peer", "ip"}, NEW d \in LinkIds, byPeer'[m][k] = d
                 PROVE  LkNamed(m, k, d)'
      BY DEF LkPeers
    <2>1. LkNamed(m, k, d) /\ ~(m = n /\ d \in gone)
      BY <1>0 DEF LkPeers, LkDropped
    <2>2. \A b \in Addresses : byAddress[m][b] = d => byAddress'[m][b] = d
      BY <2>1 DEF LkDropped
    <2> QED
      BY <1>1, <2>1, <2>2, LinkNumbers DEF LkNamed
  <1>4. LkHeard'
    <2> SUFFICES ASSUME NEW m \in Nodes, NEW d \in heard[m]
                 PROVE  /\ ends'[d][m] \notin {"none", "connecting"}
                        /\ ends'[d][m] = "ready" /\ AtAddress(m, d)' => byPeer'[m]["peer"] = d
      BY DEF LkHeard
    <2>1. d \in LinkIds
      BY <1>0 DEF LkTypes
    <2>2. AtAddress(m, d)' => AtAddress(m, d) /\ ~(m = n /\ d \in gone)
      BY <1>1, <2>1, AddressFits DEF AtAddress, LkDropped
    <2> QED
      BY <1>0, <2>1, <2>2 DEF LkHeard, LkDropped
  <1> QED
    BY <1>2, <1>3, <1>4

LEMMA CloseEndsStep ==
  ASSUME LinksInv, NEW n \in Nodes, NEW c \in LinkIds, CloseEnds(n, c)
  PROVE  LinksInv'
  <1> DEFINE found == byAddress[n][AddressOf(n, c)]
  <1>0. LkTypes /\ LkEnds /\ LkDials /\ LkListed /\ LkPeers /\ LkDoomed /\ LkTracked /\ LkHeard /\ LkSurvives
    BY DEF LinksInv
  <1>1. /\ dialer' = dialer /\ wired' = wired /\ doomed' = doomed /\ discovered' = discovered
        /\ breaks' = breaks /\ heard' = heard /\ ends[c][n] = "closing"
    BY DEF CloseEnds
  <1>2. /\ ends' \in [LinkIds -> [Nodes -> LkPhases]] /\ ends'[c][n] = "closed"
        /\ \A d \in LinkIds : \A m \in Nodes : d # c \/ m # n => ends'[d][m] = ends[d][m]
    <2>1. "closed" \in LkPhases /\ ends' = [ends EXCEPT ![c][n] = "closed"]
      BY DEF CloseEnds, LkPhases
    <2> QED
      BY <1>0, <2>1, EndMoves
  <1>3. found \in {NoLink} \cup LinkIds
    BY <1>0, AddressFits DEF LkTypes, LkTables
  <1>4. /\ lanState' \in [Nodes -> {"SCANNING", "READY", "CONNECTING", "CONNECTED"}]
        /\ \A m \in Nodes : lanState'[m] = "CONNECTING" => lanState[m] = "CONNECTING"
    <2>1. lanState' = lanState \/ lanState' = [lanState EXCEPT ![n] = RestState(n)]
      BY DEF CloseEnds
    <2>2. RestState(n) \in {lanState[n], "SCANNING"}
      BY DEF RestState
    <2> QED
      BY <1>0, <2>1, <2>2 DEF LkTypes
  <1>5. \A a \in Addresses : byAddress[n][a] = c => found = c /\ ~(Inbound(n, c) /\ c \notin wired)
    BY <1>0 DEF LkListed, LkEntry
  <1>6. PICK gone \in SUBSET LinkIds :
          /\ LkDropped(n, gone)
          /\ gone \subseteq {found} /\ gone \ {c} \subseteq displaced' /\ displaced' \subseteq displaced \cup gone
          /\ \A a \in Addresses : byAddress[n][a] = c => c \in gone
    <2>1. displaced' = displaced \cup (Mistaken(n, c) \ {c, NoLink})
      BY DEF CloseEnds
    <2>2. CASE Inbound(n, c) /\ c \notin wired
      <3>1. byAddress' = byAddress /\ byPeer' = byPeer /\ Mistaken(n, c) = {}
        BY <2>2 DEF CloseEnds, Mistaken
      <3>2. LkDropped(n, {})
        BY <1>0, <3>1 DEF LkDropped, LkTypes, LkTables
      <3>3. \A a \in Addresses : byAddress[n][a] # c
        BY <1>5, <2>2
      <3> QED
        BY <2>1, <3>1, <3>2, <3>3
    <2>3. CASE ~(Inbound(n, c) /\ c \notin wired) /\ found = NoLink
      <3>1. byAddress' = byAddress /\ byPeer' = byPeer /\ Mistaken(n, c) = {NoLink}
        BY <2>3 DEF CloseEnds, Mistaken
      <3>2. LkDropped(n, {})
        BY <1>0, <3>1 DEF LkDropped, LkTypes, LkTables
      <3>3. \A a \in Addresses : byAddress[n][a] # c
        BY <1>5, <2>3, LinkNumbers
      <3> QED
        BY <2>1, <3>1, <3>2, <3>3
    <2>4. CASE ~(Inbound(n, c) /\ c \notin wired) /\ found # NoLink
      <3>1. Forget(n, found) /\ Mistaken(n, c) = {found} /\ found \in LinkIds
        BY <1>3, <2>4 DEF CloseEnds, ForgetAddress, Mistaken
      <3>2. LkDropped(n, {found})
        <4>1. PICK g \in LinkIds : g = found
          BY <3>1
        <4>2. LkDropped(n, {g})
          BY <3>1, <4>1, ForgottenLinks DEF LkDropped
        <4> QED
          BY <4>1, <4>2
      <3>3. \A a \in Addresses : byAddress[n][a] = c => c \in {found}
        BY <1>5
      <3> QED
        BY <2>1, <2>4, <3>1, <3>2, <3>3, LinkNumbers
    <2> QED
      BY <2>2, <2>3, <2>4
  <1>7. LkTypes'
    <2>1. displaced' \subseteq LinkIds
      BY <1>0, <1>6 DEF LkTypes
    <2> QED
      BY <1>0, <1>1, <1>2, <1>4, <1>6, <2>1 DEF LkTypes, LkDropped
  <1>8. LkEnds'
    BY <1>0, <1>1, <1>2 DEF LkEnds
  <1>9. LkDials'
    <2> SUFFICES ASSUME NEW m \in Nodes, lanState'[m] = "CONNECTING"
                 PROVE  \E d \in LinkIds : ends'[d][m] = "connecting"
      BY DEF LkDials
    <2>1. PICK d \in LinkIds : ends[d][m] = "connecting"
      BY <1>0, <1>4 DEF LkDials
    <2> QED
      BY <1>1, <1>2, <2>1
  <1>10. LkListed' /\ LkPeers' /\ LkHeard'
    <2>1. \A a \in Addresses : byAddress'[n][a] # c
      BY <1>6 DEF LkDropped
    <2>2. \A d \in LinkIds : \A m \in Nodes :
            ends'[d][m] = ends[d][m]
              \/ (ends[d][m] = "closing" /\ ends'[d][m] = "closed" /\ \A a \in Addresses : byAddress'[m][a] # d)
      BY <1>1, <1>2, <2>1
    <2> QED
      BY <1>1, <1>6, <2>2, DroppedTables
  <1>11. LkDoomed'
    <2> SUFFICES ASSUME NEW m \in Nodes, NEW d \in doomed[m]
                 PROVE  /\ ends'[d][m] = "ready"
                        /\ \A a \in Addresses : byAddress'[m][a] # d
                        /\ \A k \in {"peer", "ip"} : byPeer'[m][k] # d
      BY <1>1 DEF LkDoomed
    <2>1. /\ d \in LinkIds /\ ends[d][m] = "ready" /\ \A a \in Addresses : byAddress[m][a] # d
          /\ \A k \in {"peer", "ip"} : byPeer[m][k] # d
      BY <1>0 DEF LkDoomed, LkTypes
    <2> QED
      BY <1>1, <1>2, <1>6, <2>1 DEF LkDropped
  <1>12. LkTracked'
    <2> SUFFICES ASSUME NEW m \in Nodes, NEW d \in LinkIds,
                        ends'[d][m] \in {"connecting", "ready"}, d \notin displaced'
                 PROVE  AtAddress(m, d)' \/ d \in doomed[m]
      BY <1>1 DEF LkTracked
    <2>1. ~(m = n /\ d = c) /\ ends'[d][m] = ends[d][m]
      BY <1>2
    <2>2. CASE d \in displaced
      BY <1>6, <2>2 DEF CloseEnds
    <2>3. CASE d \notin displaced
      <3>1. AtAddress(m, d) \/ d \in doomed[m]
        BY <1>0, <2>1, <2>3 DEF LkTracked
      <3>2. ~(m = n /\ d \in gone)
        BY <1>6, <2>1
      <3>3. AddressOf(m, d)' = AddressOf(m, d)
        BY <1>1 DEF AddressOf, Inbound
      <3> QED
        BY <1>6, <3>1, <3>2, <3>3, AddressFits DEF AtAddress, LkDropped
    <2> QED
      BY <2>2, <2>3
  <1>13. LkSurvives'
    <2>1. ASSUME NEW d \in Nodes, LkKept(d)
          PROVE  LkKept(d)'
      <3>1. /\ LkOf(d)' = LkOf(d) /\ Other(d) \in Nodes
            /\ \A e \in LkOf(d) : e \in LinkIds
        BY <1>1, NodePair DEF LkOf
      <3>2. \A e \in LkOf(d) : \A m \in Nodes :
              /\ ends'[e][m] \in {"none", "ready", "connecting"} <=> ends[e][m] \in {"none", "ready", "connecting"}
              /\ ends[e][m] \in {"none", "ready", "connecting"} => ends'[e][m] = ends[e][m]
        BY <1>1, <1>2, <3>1
      <3>3. \A e \in LkOf(d) : LkStays(d, e)' <=> LkStays(d, e)
        BY <1>1, <3>1, <3>2 DEF LkStays
      <3>4. \A e \in LkOf(d) : ends'[e][Other(d)] # "none" => ends[e][Other(d)] # "none"
        BY <3>1, <3>2
      <3>5. \A e \in LkOf(d) : ends'[e][Other(d)] \in {"none", "ready"} => ends'[e][d] \in {"connecting", "ready"}
        BY <2>1, <3>1, <3>2 DEF LkKept
      <3> QED
        BY <1>1, <2>1, <3>1, <3>3, <3>4, <3>5 DEF LkKept
    <2>2. LkOf(1)' = LkOf(1)
      BY <1>1 DEF LkOf
    <2> QED
      BY <1>0, <1>1, <2>1, <2>2 DEF LkSurvives, Nodes
  <1> QED
    BY <1>7, <1>8, <1>9, <1>10, <1>11, <1>12, <1>13 DEF LinksInv

LEMMA DisconnectStep ==
  ASSUME LinksInv, NEW n \in Nodes, NEW a \in Addresses, DisconnectPeer(n, a)
  PROVE  LinksInv'
  <1>0. LkTypes /\ LkEnds /\ LkDials /\ LkListed /\ LkPeers /\ LkDoomed /\ LkTracked /\ LkHeard /\ LkSurvives
    BY DEF LinksInv
  <1>1. PICK c \in LinkIds : byAddress[n][a] = c
    BY <1>0 DEF DisconnectPeer, LkTypes, LkTables
  <1>2. /\ dialer' = dialer /\ ends' = ends /\ wired' = wired /\ discovered' = discovered /\ heard' = heard
        /\ breaks < MaxBreaks /\ breaks' = breaks + 1 /\ Forget(n, c)
        /\ displaced' = displaced \cup {d \in {c} \ {NoLink} : ends[d][n] = "connecting"}
    BY <1>1 DEF DisconnectPeer, Dialling
  <1>3. /\ doomed' \in [Nodes -> SUBSET LinkIds] /\ \A m \in Nodes : m # n => doomed'[m] = doomed[m]
        /\ doomed'[n] = IF ends[c][n] = "ready" THEN doomed[n] \cup {c} ELSE doomed[n]
    BY <1>0, <1>1, LinkNumbers DEF DisconnectPeer, IsReady, LkTypes
  <1>4. /\ lanState' \in [Nodes -> {"SCANNING", "READY", "CONNECTING", "CONNECTED"}]
        /\ \A m \in Nodes : lanState'[m] = "CONNECTING" => lanState[m] = "CONNECTING"
    BY <1>0 DEF DisconnectPeer, LkTypes
  <1>5. LkDropped(n, {c})
    BY <1>2, ForgottenLinks DEF LkDropped
  <1>6. LkTypes'
    <2>1. displaced' \subseteq LinkIds /\ breaks' \in 0..MaxBreaks
      BY <1>0, <1>2, LinksAssumption DEF LkTypes
    <2> QED
      BY <1>0, <1>2, <1>3, <1>4, <1>5, <2>1 DEF LkTypes, LkDropped
  <1>7. LkEnds' /\ LkDials'
    BY <1>0, <1>2, <1>4 DEF LkEnds, LkDials
  <1>8. LkListed' /\ LkPeers' /\ LkHeard'
    BY <1>2, <1>5, DroppedTables
  <1>9. LkDoomed'
    <2> SUFFICES ASSUME NEW m \in Nodes, NEW d \in doomed'[m]
                 PROVE  /\ ends[d][m] = "ready"
                        /\ \A b \in Addresses : byAddress'[m][b] # d
                        /\ \A k \in {"peer", "ip"} : byPeer'[m][k] # d
      BY <1>2 DEF LkDoomed
    <2>1. CASE m = n /\ d = c
      <3>1. ends[c][n] = "ready"
        BY <1>0, <1>1, <1>3, <2>1 DEF LkDoomed
      <3> QED
        BY <1>5, <2>1, <3>1 DEF LkDropped
    <2>2. CASE ~(m = n /\ d = c)
      <3>1. d \in doomed[m] /\ d \in LinkIds
        BY <1>3, <2>2
      <3>2. /\ ends[d][m] = "ready" /\ \A b \in Addresses : byAddress[m][b] # d
            /\ \A k \in {"peer", "ip"} : byPeer[m][k] # d
        BY <1>0, <3>1 DEF LkDoomed
      <3> QED
        BY <1>5, <3>1, <3>2 DEF LkDropped
    <2> QED
      BY <2>1, <2>2
  <1>10. LkTracked'
    <2> SUFFICES ASSUME NEW m \in Nodes, NEW d \in LinkIds,
                        ends[d][m] \in {"connecting", "ready"}, d \notin displaced'
                 PROVE  AtAddress(m, d)' \/ d \in doomed'[m]
      BY <1>2 DEF LkTracked
    <2>1. d \notin displaced /\ AddressOf(m, d)' = AddressOf(m, d)
      BY <1>2 DEF AddressOf, Inbound
    <2>2. AtAddress(m, d) \/ d \in doomed[m]
      BY <1>0, <2>1 DEF LkTracked
    <2>3. CASE m = n /\ d = c
      BY <1>2, <1>3, <2>3, LinkNumbers
    <2>4. CASE ~(m = n /\ d = c)
      BY <1>3, <1>5, <2>1, <2>2, <2>4, AddressFits DEF AtAddress, LkDropped
    <2> QED
      BY <2>3, <2>4
  <1>11. LkSurvives'
    BY <1>0, <1>2 DEF LkSurvives, LkTypes
  <1> QED
    BY <1>6, <1>7, <1>8, <1>9, <1>10, <1>11 DEF LinksInv

-----------------------------------------------------------------------------
\* The invariant holds initially, is kept and implies what is claimed.

LEMMA LinksInitially ==
  LinksInit => LinksInv
  <1> SUFFICES ASSUME LinksInit PROVE LinksInv
    OBVIOUS
  <1>1. LkTypes
    BY LinksAssumption DEF LinksInit, LkTypes, LkTables, LkPhases
  <1>2. /\ \A c \in LinkIds : dialer[c] = 0 /\ \A n \in Nodes : ends[c][n] = "none"
        /\ \A n \in Nodes : /\ doomed[n] = {} /\ heard[n] = {} /\ lanState[n] = "SCANNING"
                            /\ \A a \in Addresses : byAddress[n][a] = NoLink
                            /\ \A k \in {"peer", "ip"} : byPeer[n][k] = NoLink
    BY DEF LinksInit
  <1>3. LkEnds /\ LkDials /\ LkListed /\ LkPeers /\ LkDoomed /\ LkTracked /\ LkHeard
    BY <1>2, LinkNumbers DEF LkEnds, LkDials, LkListed, LkPeers, LkDoomed, LkTracked, LkHeard
  <1>4. LkSurvives
    BY <1>2, LinkNumbers DEF LkSurvives, LkKept, LkOf, Nodes
  <1> QED
    BY <1>1, <1>3, <1>4 DEF LinksInv

LEMMA LinksInductive ==
  LinksInv /\ [LinksNext]_linkVars => LinksInv'
  <1> SUFFICES ASSUME LinksInv, [LinksNext]_linkVars PROVE LinksInv'
    OBVIOUS
  <1>1. CASE UNCHANGED linkVars
    BY <1>1 DEF linkVars, LinksInv, LkTypes, LkTables, LkEnds, LkDials, LkListed, LkEntry, LkPeers, LkNamed, LkDoomed,
                LkTracked, LkHeard, AtAddress, AddressOf, Inbound, LkSurvives, LkKept, LkOf, LkStays
  <1>2. CASE LinksNext
    <2>1. PICK n \in Nodes :
            \/ Reuse(n) \/ DialRefused(n) \/ Dial(n) \/ Discover(n)
            \/ \E c \in LinkIds :
                 \/ DialReady(n, c) \/ DialFails(n, c) \/ Accept(n, c)
                 \/ HandlePacket(n, c) \/ CloseBegins(n, c) \/ CloseEnds(n, c)
            \/ \E a \in Addresses : DisconnectPeer(n, a)
      BY <1>2 DEF LinksNext
    <2>2. CASE Reuse(n)
      BY <2>2, ReuseStep
    <2>3. CASE DialRefused(n) \/ Discover(n)
      BY <2>3, IdleStep
    <2>4. CASE Dial(n)
      BY <2>4, DialStep
    <2>5. ASSUME NEW c \in LinkIds, DialReady(n, c) \/ DialFails(n, c) PROVE LinksInv'
      BY <2>5, DialReadyStep, DialFailsStep
    <2>6. ASSUME NEW c \in LinkIds, Accept(n, c) \/ HandlePacket(n, c) PROVE LinksInv'
      BY <2>6, AcceptStep, PacketStep
    <2>7. ASSUME NEW c \in LinkIds, CloseBegins(n, c) \/ CloseEnds(n, c) PROVE LinksInv'
      BY <2>7, CloseBeginsStep, CloseEndsStep
    <2>8. ASSUME NEW a \in Addresses, DisconnectPeer(n, a) PROVE LinksInv'
      BY <2>8, DisconnectStep
    <2> QED
      BY <2>1, <2>2, <2>3, <2>4, <2>5, <2>6, <2>7, <2>8
  <1> QED
    BY <1>1, <1>2

LEMMA ListedLinksLive ==
  ASSUME LinksInv, AtRest, NEW n \in Nodes, NEW c \in LinkIds, dialer[c] # 0, ends[c][n] \notin {"none", "closed"}
  PROVE  c \in Live
  <1>1. \A m \in Nodes : ends[c][m] \in {"ready", "closed"}
    BY DEF AtRest
  <1>2. "closed" \in {ends[c][m] : m \in Nodes} => ends[c][1] = ends[c][2]
    BY DEF AtRest
  <1>3. \A m \in Nodes : ends[c][m] = "ready"
    BY <1>1, <1>2 DEF Nodes
  <1> QED
    BY <1>3 DEF Live

LEMMA LiveLinksListed ==
  ASSUME LinksInv, AtRest, NEW n \in Nodes, NEW c \in Live \ displaced
  PROVE  c \in LinkIds /\ ends[c][n] = "ready" /\ AtAddress(n, c)
  <1>1. c \in LinkIds /\ ends[c][n] = "ready" /\ c \notin doomed[n] /\ c \notin displaced
    BY DEF Live, AtRest
  <1> QED
    BY <1>1 DEF LinksInv, LkTracked

LEMMA LinksInvIsSafe ==
  LinksInv => LinksSafe
  <1> SUFFICES ASSUME LinksInv PROVE LinksSafe
    OBVIOUS
  <1>0. LkTypes /\ LkEnds /\ LkDials /\ LkListed /\ LkPeers /\ LkDoomed /\ LkTracked /\ LkHeard /\ LkSurvives
    BY DEF LinksInv
  <1>1. LinksTypeOK
    <2>1. \A n \in Nodes : lanState[n] = "CONNECTING" =>
            \E c \in LinkIds : dialer[c] = n /\ ends[c][n] \in {"connecting", "closing"}
      BY <1>0 DEF LkDials, LkEnds
    <2> QED
      BY <1>0, <2>1 DEF LinksTypeOK, LkTypes, LkTables, LkPhases
  <1>2. NoDeadEntries
    <2> SUFFICES ASSUME AtRest, NEW n \in Nodes, NEW a \in Entries(n) PROVE byAddress[n][a] \in Live
      BY DEF NoDeadEntries
    <2>1. PICK c \in LinkIds : byAddress[n][a] = c /\ LkEntry(n, a, c)
      BY <1>0 DEF Entries, LkTypes, LkTables, LkListed
    <2>2. dialer[c] # 0 /\ ends[c][n] \notin {"none", "closed"}
      BY <2>1 DEF LkEntry
    <2> QED
      BY <2>1, <2>2, ListedLinksLive
  <1>3. LinksTracked
    BY LiveLinksListed, AddressFits DEF LinksTracked, Tracks, AtAddress
  <1>4. OneLink
    <2> SUFFICES ASSUME AtRest, \A n \in Nodes : Live \subseteq heard[n]
                 PROVE  Cardinality(Live \ displaced) <= 1
      BY DEF OneLink
    <2>0. 1 \in Nodes
      BY DEF Nodes
    <2>1. ASSUME NEW c \in Live \ displaced PROVE c = byPeer[1]["peer"]
      <3>1. c \in heard[1] /\ ends[c][1] = "ready" /\ AtAddress(1, c)
        BY <2>0, <2>1, LiveLinksListed
      <3> QED
        BY <1>0, <2>0, <3>1 DEF LkHeard
    <2>2. Live \ displaced \in SUBSET {byPeer[1]["peer"]}
      BY <2>1
    <2>3. IsFiniteSet({byPeer[1]["peer"]}) /\ Cardinality({byPeer[1]["peer"]}) = 1
      BY FS_Singleton
    <2>4. Cardinality(Live \ displaced) <= Cardinality({byPeer[1]["peer"]})
      BY <2>2, <2>3, FS_Subset
    <2> QED
      BY <2>3, <2>4
  <1>5. LinkSurvives
    <2> SUFFICES ASSUME KeepsBlind = {1}, MaxConnections > 1, AtRest, breaks = 0, dialer[1] # 0
                 PROVE  Live # {}
      BY DEF LinkSurvives
    <2>0. 1 \in LinkIds /\ 1 \in Nodes /\ 2 \in Nodes
      BY LinksAssumption DEF LinkIds, Nodes
    <2>1. ASSUME NEW d \in Nodes, LkKept(d), NEW c \in LkOf(d) PROVE Live # {}
      <3>0. Other(d) \in Nodes
        BY NodePair
      <3>1. c \in LinkIds /\ dialer[c] # 0
        BY <2>1, LinkNumbers DEF LkOf
      <3>2. ends[c][Other(d)] # "none"
        BY <3>0, <3>1 DEF AtRest
      <3>3. PICK g \in LkOf(d) : LkStays(d, g)
        BY <2>1, <3>2 DEF LkKept
      <3>4. g \in LinkIds /\ dialer[g] # 0 /\ ends[g][Other(d)] \notin {"none", "closed"}
        BY <2>1, <3>3, LinkNumbers DEF LkOf, LkStays
      <3> QED
        BY <3>0, <3>4, ListedLinksLive
    <2>2. CASE LkOf(1) # {}
      BY <1>0, <2>0, <2>1, <2>2 DEF LkSurvives
    <2>3. CASE LkOf(1) = {}
      <3>1. dialer[1] = 2
        BY <1>0, <2>0, <2>3 DEF LkTypes, LkOf, Nodes
      <3>2. 1 \in LkOf(2) /\ LkKept(2)
        BY <1>0, <2>0, <2>3, <3>1 DEF LkSurvives, LkOf
      <3> QED
        BY <2>0, <2>1, <3>2
    <2> QED
      BY <2>2, <2>3
  <1> QED
    BY <1>1, <1>2, <1>3, <1>4, <1>5 DEF LinksSafe

\* LinksSafety: whatever order two LAN nodes dial, accept, learn of each other,
\* process packets and close in, once at rest they list exactly the connections
\* that work but for the displaced ones, keep one when packets were processed at
\* both ends, and have not dropped both (connect_peer, _handle_inbound_connection,
\* _handle_packet_received, LANConnection.close).
THEOREM LinksSafety == LinksSpec => []LinksSafe
  BY LinksInitially, LinksInductive, LinksInvIsSafe, PTL DEF LinksSpec
=============================================================================
