---------------------------- MODULE SecureSession ---------------------------
(***************************************************************************)
(* A private conversation between two SessionCoordinators: the Noise XX    *)
(* handshake (crypto/sessions.py, crypto/noise.py), the texts queued while *)
(* it runs, its timeout, and what tears a session down                     *)
(* (app/session_coordinator.py).                                           *)
(*                                                                         *)
(* A handler runs until it awaits; what it does after the await is a step  *)
(* of its own.  A session writes one ephemeral key, so the number of the   *)
(* session (its owner's gens) stands for that key, and a handshake message *)
(* carries the keys its transcript hash covers: it authenticates only      *)
(* where the reader's own transcript has the same keys.                    *)
(*                                                                         *)
(* The network may reorder packets and, per Lossy, lose them; the          *)
(* receiver's deduplicator lets each be processed once.                    *)
(***************************************************************************)
EXTENDS Integers, Sequences, FiniteSets, SequencesExt

CONSTANTS
  Lossy,          \* kinds of packets the network may lose
  Faults,         \* which of FaultKinds may happen
  Mistrusting,    \* peers that stored another fingerprint for the other one
  MaxGen,         \* bound: sessions a peer creates
  MaxTexts        \* bound: texts a user sends

Kinds      == {"request", "msg1", "msg2", "msg3", "encrypted"}
FaultKinds == {"sendError", "disconnect", "restart", "reset", "slow"}

Peers    == {1, 2}      \* peer identifiers, ordered as their hex strings are
Other(p) == 3 - p

ASSUME SessionAssumption ==
  /\ Lossy \subseteq Kinds /\ Faults \subseteq FaultKinds /\ Mistrusting \subseteq Peers
  /\ MaxGen \in Nat /\ MaxTexts \in Nat

VARIABLES
  gens,           \* sessions created so far
  sess,           \* _sessions[the other]
  timer,          \* _handshake_timeout_tasks[the other]: its session, 0 if none
  pending,        \* _pending_messages[the other]
  flush,          \* send_direct_message tasks spawned on completion, in order
  replying,       \* sessions whose handler is awaiting the sending of msg3
  waiting,        \* handlers polling for a session to decrypt a packet with
  resetting,      \* inside _reset_session_state, awaiting cancelled timeouts
  said, got,      \* texts the user sent; texts shown to the user
  net             \* packets on their way

local == <<gens, sess, timer, pending, flush, replying, waiting, resetting>>
vars  == <<local, said, got, net>>

Gens    == 0..MaxGen
Texts   == 1..MaxTexts
NoKey   == 0              \* also what a key is taken from bytes that are none
Packets == [kind : Kinds, src : Peers, ea : Gens, eb : Gens, text : 0..MaxTexts]
Sessions  == [gen : Gens, st : {"none", "uninitialized", "handshaking", "established"},
              re : Gens]
NoSession == [gen |-> 0, st |-> "none", re |-> NoKey]

TypeOK ==
  /\ gens \in [Peers -> Gens]
  /\ sess \in [Peers -> Sessions]
  /\ timer \in [Peers -> Gens]
  /\ pending \in [Peers -> Seq(Texts)] /\ flush \in [Peers -> Seq(Texts)]
  /\ replying \in [Peers -> SUBSET Gens]
  /\ waiting \in [Peers -> SUBSET [gen : Gens, pkt : Packets]]
  /\ resetting \in [Peers -> BOOLEAN]
  /\ said \in [Peers -> 0..MaxTexts] /\ got \in [Peers -> Seq(0..MaxTexts)]
  /\ net \subseteq Packets

Init ==
  /\ gens = [p \in Peers |-> 0]
  /\ sess = [p \in Peers |-> NoSession]
  /\ timer = [p \in Peers |-> 0]
  /\ pending = [p \in Peers |-> <<>>] /\ flush = [p \in Peers |-> <<>>]
  /\ replying = [p \in Peers |-> {}] /\ waiting = [p \in Peers |-> {}]
  /\ resetting = [p \in Peers |-> FALSE]
  /\ said = [p \in Peers |-> 0] /\ got = [p \in Peers |-> <<>>]
  /\ net = {}

-----------------------------------------------------------------------------
\* determine_handshake_role: the lower identifier initiates.
Initiates(p) == p < Other(p)

St(p) == sess[p].st

\* The keys of p's transcript: the initiator's ephemeral, then the responder's.
TranscriptOf(p, s) ==
  IF Initiates(p) THEN [ea |-> s.gen, eb |-> s.re] ELSE [ea |-> s.re, eb |-> s.gen]

Packet(kind, p, keys, text) ==
  [kind |-> kind, src |-> p, ea |-> keys.ea, eb |-> keys.eb, text |-> text]
NoKeys == [ea |-> NoKey, eb |-> NoKey]

\* get_or_create_session
CanGetSession(p) == St(p) # "none" \/ gens[p] < MaxGen
GotSession(p) ==
  IF St(p) # "none" THEN sess[p]
  ELSE [gen |-> gens[p] + 1, st |-> "uninitialized", re |-> NoKey]
\* Keep s as p's session, counting it if it is new.
KeepSession(p, s) ==
  /\ sess' = [sess EXCEPT ![p] = s]
  /\ gens' = [gens EXCEPT ![p] = IF St(p) = "none" THEN @ + 1 ELSE @]

\* _schedule_handshake_timeout: a timeout already scheduled for the peer stays.
ScheduleTimeout(p, s) ==
  timer' = [timer EXCEPT ![p] = IF @ # 0 THEN @ ELSE s.gen]

\* _discard_failed_session, and the teardown of a lost connection: the timeout,
\* the session and the queued texts go.
DiscardInTable(p) ==
  /\ timer' = [timer EXCEPT ![p] = 0]
  /\ sess' = [sess EXCEPT ![p].st = "failed"]
  /\ pending' = [pending EXCEPT ![p] = <<>>]
  /\ UNCHANGED gens
DiscardKeepingTimer(p) ==
  /\ sess' = [sess EXCEPT ![p] = NoSession]
  /\ pending' = [pending EXCEPT ![p] = <<>>]
  /\ UNCHANGED <<gens, timer>>
Discard(p) ==
  /\ timer' = [timer EXCEPT ![p] = 0]
  /\ sess' = [sess EXCEPT ![p] = NoSession]
  /\ pending' = [pending EXCEPT ![p] = <<>>]
  /\ UNCHANGED gens

\* start_handshake as the initiator: msg1 leaves, and the session is timed.
StartHandshake(p, s, rest) ==
  LET started == [s EXCEPT !.st = "handshaking"]
  IN  /\ KeepSession(p, started)
      /\ ScheduleTimeout(p, started)
      /\ net' = rest \cup {Packet("msg1", p, TranscriptOf(p, started), 0)}

-----------------------------------------------------------------------------
\* send_direct_message, until it awaits: encrypt on an established session,
\* otherwise queue the text and, on a session nobody has started, start the
\* handshake or ask the other side to.
DirectMessage(p, t) ==
  LET s == GotSession(p)
  IN  /\ CanGetSession(p)
      /\ IF s.st = "established"
         THEN /\ net' = net \cup {Packet("encrypted", p, TranscriptOf(p, s), t)}
              /\ UNCHANGED <<sess, gens, timer, pending>>
         ELSE /\ pending' = [pending EXCEPT ![p] = Append(@, t)]
              /\ \/ /\ s.st = "uninitialized" /\ Initiates(p)
                    /\ StartHandshake(p, s, net)
                 \/ /\ s.st = "uninitialized" /\ ~Initiates(p)
                    /\ KeepSession(p, s)
                    /\ net' = net \cup {Packet("request", p, NoKeys, t)}
                    /\ UNCHANGED timer
                 \/ /\ s.st = "handshaking"
                    /\ UNCHANGED <<sess, gens, timer, net>>

UserSends(p) ==
  /\ said[p] < MaxTexts
  /\ said' = [said EXCEPT ![p] = @ + 1]
  /\ DirectMessage(p, said[p] + 1)
  /\ UNCHANGED <<flush, replying, waiting, resetting, got>>

\* A task that completion spawned for a queued text.
RunFlush(p) ==
  /\ flush[p] # <<>>
  /\ DirectMessage(p, Head(flush[p]))
  /\ flush' = [flush EXCEPT ![p] = Tail(@)]
  /\ UNCHANGED <<replying, waiting, resetting, said, got>>

\* _on_handshake_established for session s: the timeout is cancelled, the
\* fingerprint checked against the stored one, and queued texts become tasks.
CompleteKeepingQueue(p, s) ==
  /\ timer' = [timer EXCEPT ![p] = 0]
  /\ flush' = [flush EXCEPT ![p] = @ \o pending[p]]
  /\ KeepSession(p, s) /\ UNCHANGED pending
CompleteUnverified(p, s) ==
  /\ timer' = [timer EXCEPT ![p] = 0]
  /\ flush' = [flush EXCEPT ![p] = @ \o pending[p]]
  /\ pending' = [pending EXCEPT ![p] = <<>>]
  /\ KeepSession(p, s)
Complete(p, s) ==
  IF p \in Mistrusting
  THEN Discard(p) /\ UNCHANGED flush
  ELSE /\ timer' = [timer EXCEPT ![p] = 0]
       /\ flush' = [flush EXCEPT ![p] = @ \o pending[p]]
       /\ pending' = [pending EXCEPT ![p] = <<>>]
       /\ KeepSession(p, s)

-----------------------------------------------------------------------------
\* NoiseHandshakeState.read_message: what a session in state s accepts.  An
\* unstarted responder takes the first bytes of any message for msg1's key.
ReadsFirst(p, s)       == ~Initiates(p) /\ s.st = "uninitialized"
ReadsSecondUnchecked(p, s, pkt) == Initiates(p) /\ s.st = "handshaking" /\ pkt.kind = "msg2"
ReadsSecond(p, s, pkt) == Initiates(p) /\ s.st = "handshaking"
                          /\ pkt.kind = "msg2" /\ pkt.ea = s.gen
ReadsThird(p, s, pkt)  == ~Initiates(p) /\ s.st = "handshaking"
                          /\ pkt.kind = "msg3" /\ pkt.ea = s.re /\ pkt.eb = s.gen
KeyRead(pkt) == IF pkt.kind = "msg1" THEN pkt.ea ELSE NoKey

\* HandshakeRequest: only an initiator that has not started acts on it.
HandleRequest(p, rest) ==
  LET s == GotSession(p)
  IN  /\ CanGetSession(p)
      /\ IF s.st = "uninitialized" /\ Initiates(p)
         THEN StartHandshake(p, s, rest)
         ELSE KeepSession(p, s) /\ net' = rest /\ UNCHANGED timer
      /\ UNCHANGED <<pending, flush, replying, waiting, got>>

\* NoiseHandshakeInit and NoiseHandshakeResp, through process_handshake_message.
Answer(p, s, pkt, rest) ==
  LET heard == [gen |-> s.gen, st |-> "handshaking", re |-> KeyRead(pkt)]
  IN  /\ ReadsFirst(p, s)
      /\ KeepSession(p, heard)
      /\ ScheduleTimeout(p, heard)
      /\ net' = rest \cup {Packet("msg2", p, TranscriptOf(p, heard), 0)}
      /\ UNCHANGED <<pending, flush, replying>>

\* The initiator is established before msg3 is sent; completion comes after.
Reply(p, s, pkt, rest) ==
  LET done == [gen |-> s.gen, st |-> "established", re |-> pkt.eb]
  IN  /\ ReadsSecond(p, s, pkt)
      /\ KeepSession(p, done)
      /\ \/ /\ net' = rest \cup {Packet("msg3", p, TranscriptOf(p, done), 0)}
            /\ replying' = [replying EXCEPT ![p] = @ \cup {s.gen}]
         \/ "sendError" \in Faults /\ net' = rest /\ UNCHANGED replying
      /\ UNCHANGED <<timer, pending, flush>>

Accept(p, s, pkt, rest) ==
  /\ ReadsThird(p, s, pkt)
  /\ Complete(p, [s EXCEPT !.st = "established"])
  /\ net' = rest
  /\ UNCHANGED replying

Fail(p, s, pkt, rest) ==
  /\ ~ReadsFirst(p, s) /\ ~ReadsSecond(p, s, pkt) /\ ~ReadsThird(p, s, pkt)
  /\ Discard(p)
  /\ net' = rest
  /\ UNCHANGED <<flush, replying>>

\* A response for no session is ignored; a first message creates one.
HandleHandshake(p, pkt, rest) ==
  /\ IF pkt.kind # "msg1" /\ St(p) = "none"
     THEN net' = rest /\ UNCHANGED <<sess, gens, timer, pending, flush, replying>>
     ELSE LET s == GotSession(p)
          IN  /\ CanGetSession(p)
              /\ \/ Answer(p, s, pkt, rest) \/ Reply(p, s, pkt, rest)
                 \/ Accept(p, s, pkt, rest) \/ Fail(p, s, pkt, rest)
  /\ UNCHANGED <<waiting, got>>

\* NoiseSession.decrypt succeeds under the same keys, and shows the text.
Decrypts(p, pkt) ==
  /\ St(p) = "established"
  /\ pkt.ea = TranscriptOf(p, sess[p]).ea /\ pkt.eb = TranscriptOf(p, sess[p]).eb
ShowIfDecrypts(p, pkt) ==
  got' = IF Decrypts(p, pkt) THEN [got EXCEPT ![p] = Append(@, pkt.text)] ELSE got

\* NoiseEncrypted: dropped without a session, polled for before establishment.
HandleEncryptedAtOnce(p, pkt, rest) ==
  /\ net' = rest
  /\ ShowIfDecrypts(p, pkt)
  /\ UNCHANGED <<gens, sess, timer, pending, flush, replying, waiting>>
HandleEncrypted(p, pkt, rest) ==
  /\ net' = rest
  /\ IF St(p) \in {"uninitialized", "handshaking"}
     THEN /\ waiting' = [waiting EXCEPT ![p] = @ \cup {[gen |-> sess[p].gen, pkt |-> pkt]}]
          /\ UNCHANGED got
     ELSE ShowIfDecrypts(p, pkt) /\ UNCHANGED waiting
  /\ UNCHANGED <<gens, sess, timer, pending, flush, replying>>

\* _process_packet_async
Deliver(pkt) ==
  LET p == Other(pkt.src)
      rest == net \ {pkt}
  IN  /\ pkt \in net
      /\ CASE pkt.kind = "request" -> HandleRequest(p, rest)
           [] pkt.kind = "encrypted" -> HandleEncrypted(p, pkt, rest)
           [] OTHER -> HandleHandshake(p, pkt, rest)
      /\ UNCHANGED <<resetting, said>>

-----------------------------------------------------------------------------
\* After the await in the handler of msg2: complete, if still established.
SendDone(p) ==
  \E g \in replying[p] :
    /\ replying' = [replying EXCEPT ![p] = @ \ {g}]
    /\ IF sess[p].gen = g /\ St(p) = "established"
       THEN Complete(p, sess[p])
       ELSE UNCHANGED <<gens, sess, timer, pending, flush>>
    /\ UNCHANGED <<waiting, resetting, said, got, net>>

\* After a poll in the handler of an encrypted packet.
Usable(p, w)  == sess[p].gen = w.gen /\ St(p) = "established"
PollSucceeds(p) ==
  \E w \in waiting[p] :
    /\ Usable(p, w)
    /\ ShowIfDecrypts(p, w.pkt)
    /\ waiting' = [waiting EXCEPT ![p] = @ \ {w}]
    /\ UNCHANGED <<gens, sess, timer, pending, flush, replying, resetting, said, net>>

\* Timeouts (10 s for a handshake, 1 s of polling) strike while the packet they
\* wait for is still on its way only if the network is slow.
HandshakeUnderway == \E pkt \in net : pkt.kind \in {"msg1", "msg2", "msg3"}
TimedOut == "slow" \in Faults \/ ~HandshakeUnderway
PollGivesUp(p) ==
  \E w \in waiting[p] :
    /\ ~Usable(p, w) /\ TimedOut
    /\ waiting' = [waiting EXCEPT ![p] = @ \ {w}]
    /\ UNCHANGED <<gens, sess, timer, pending, flush, replying, resetting, said, got, net>>

\* expire_handshake: its session, if current and still handshaking, is discarded.
TimerFires(p) ==
  /\ timer[p] # 0 /\ TimedOut
  /\ IF sess[p].gen = timer[p] /\ St(p) = "handshaking"
     THEN Discard(p)
     ELSE timer' = [timer EXCEPT ![p] = 0] /\ UNCHANGED <<gens, sess, pending>>
  /\ UNCHANGED <<flush, replying, waiting, resetting, said, got, net>>

\* _handle_peer_disconnected for the other's last connection.
Disconnect(p) ==
  /\ "disconnect" \in Faults
  /\ Discard(p)
  /\ UNCHANGED <<flush, replying, waiting, resetting, said, got, net>>

\* stop, or the process ending, and a new start: only the identity is stored.
Restart(p) ==
  /\ "restart" \in Faults
  /\ Discard(p)
  /\ flush' = [flush EXCEPT ![p] = <<>>]
  /\ replying' = [replying EXCEPT ![p] = {}]
  /\ waiting' = [waiting EXCEPT ![p] = {}]
  /\ resetting' = [resetting EXCEPT ![p] = FALSE]
  /\ UNCHANGED <<said, got, net>>

\* _reset_session_state, for a transport switch or going offline: timeouts are
\* cancelled and awaited, then sessions and queues are cleared.
ResetBegins(p) ==
  /\ "reset" \in Faults /\ ~resetting[p]
  /\ resetting' = [resetting EXCEPT ![p] = TRUE]
  /\ timer' = [timer EXCEPT ![p] = 0]
  /\ UNCHANGED <<gens, sess, pending, flush, replying, waiting, said, got, net>>
ResetEnds(p) ==
  /\ resetting[p]
  /\ resetting' = [resetting EXCEPT ![p] = FALSE]
  /\ sess' = [sess EXCEPT ![p] = NoSession]
  /\ pending' = [pending EXCEPT ![p] = <<>>]
  /\ UNCHANGED <<gens, timer, flush, replying, waiting, said, got, net>>

Lose ==
  \E pkt \in net :
    /\ pkt.kind \in Lossy
    /\ net' = net \ {pkt}
    /\ UNCHANGED <<local, said, got>>

Next ==
  \/ \E p \in Peers :
       \/ UserSends(p) \/ RunFlush(p) \/ SendDone(p)
       \/ PollSucceeds(p) \/ PollGivesUp(p) \/ TimerFires(p)
       \/ Disconnect(p) \/ Restart(p) \/ ResetBegins(p) \/ ResetEnds(p)
  \/ \E pkt \in net : Deliver(pkt)
  \/ Lose

Spec == Init /\ [][Next]_vars

\* The event loop runs every ready task and expired timer, and the network
\* hands over every packet it does not lose.  Users and faults owe nothing.
FairSpec ==
  /\ Spec
  /\ \A p \in Peers :
       /\ WF_vars(RunFlush(p)) /\ WF_vars(SendDone(p))
       /\ WF_vars(PollSucceeds(p)) /\ WF_vars(PollGivesUp(p))
       /\ WF_vars(TimerFires(p)) /\ WF_vars(ResetEnds(p))
  /\ \A pkt \in Packets : WF_vars(Deliver(pkt))

-----------------------------------------------------------------------------
\* SameKeys: whenever both peers hold an established session, the two sessions
\* share one transcript, after any timeouts, restarts, losses and late packets.
SameKeys ==
  St(1) = "established" /\ St(2) = "established"
    => TranscriptOf(1, sess[1]) = TranscriptOf(2, sess[2])

\* HandshakesTimed: a handshake in progress has a timeout of its own scheduled,
\* so that a session nobody completes is discarded in the end.
HandshakesTimed == \A p \in Peers : St(p) = "handshaking" => timer[p] = sess[p].gen

\* OnlyTrusted: a peer that refuses the other's fingerprint holds an
\* established session at most while it awaits the sending of msg3.
OnlyTrusted ==
  \A p \in Mistrusting : St(p) = "established" => sess[p].gen \in replying[p]

\* Channel: the conversation implements the at-most-once channel, the texts
\* that can still arrive being those queued, scheduled, in flight or polled for.
HeldBy(p) ==
  ToSet(pending[p]) \cup ToSet(flush[p])
  \cup {pkt.text : pkt \in {x \in net : x.kind = "encrypted" /\ x.src = p}}
  \cup {w.pkt.text : w \in waiting[Other(p)]}
Channel == INSTANCE SecureChannel WITH held <- [p \in Peers |-> HeldBy(p)]
ChannelSpec == Channel!Spec

\* AllArrive: on a network that loses nothing and is never slower than the
\* timeouts, every text a user sends is shown to the other, in whichever order
\* the two users start and packets arrive.
AllArrive ==
  \A p \in Peers, t \in Texts :
    said[p] >= t ~> t \in ToSet(got[Other(p)])

\* QueueDrains: no text stays queued for a handshake for ever, "Deterministic
\* initiator/responder assignment preventing handshake deadlocks"
\* (docs/security/THREAT_MODEL.md:64).
QueueDrains ==
  \A p \in Peers, t \in Texts : t \in ToSet(pending[p]) ~> t \notin ToSet(pending[p])

\* EstablishedFlushes: once a session is established its queued texts do not
\* stay queued: "Queued pending messages are flushed and sent as
\* `NoiseEncrypted` packets" (docs/security/NOISE.md:132).
EstablishedFlushes ==
  \A p \in Peers :
    St(p) = "established" /\ pending[p] # <<>> ~> pending[p] = <<>>
=============================================================================
