------------------------ MODULE SecureSession_proofs ------------------------
(***************************************************************************)
(* Proofs about SecureSession, for any number of sessions and texts, any   *)
(* faults and any loss: type correctness, agreement of the two ends on the *)
(* keys of a session, the timing of handshakes, the end of a session with  *)
(* a peer whose fingerprint is not the stored one, and the refinement of   *)
(* SecureChannel.                                                          *)
(***************************************************************************)
EXTENDS SecureSession, TLAPS

Shape(kind) == {pkt \in net : pkt.kind = kind}

\* A session in the table is the last one created.
SessionsCurrent ==
  \A p \in Peers :
    /\ St(p) = "none" => sess[p] = NoSession
    /\ St(p) # "none" => sess[p].gen = gens[p] /\ gens[p] > 0

\* Handshake messages name keys that exist.
KeysExist ==
  /\ \A x \in Shape("msg1") : x.src = 1 /\ x.ea <= gens[1]
  /\ \A x \in Shape("msg2") : x.src = 2 /\ x.ea <= gens[1] /\ x.eb <= gens[2]
  /\ \A m \in Shape("msg3") : m.src = 1 /\ m.ea <= gens[1] /\ m.eb <= gens[2]
  /\ \A x \in Shape("request") : x.src = 2
  /\ sess[1].re <= gens[2] /\ sess[2].re <= gens[1]
  /\ St(1) # "uninitialized"

\* What names the responder's current key names the key it answered.
AnsweredOnce ==
  LET Answered(ea, eb) ==
        St(2) # "none" /\ eb = sess[2].gen
          => St(2) \in {"handshaking", "established"} /\ ea = sess[2].re
  IN  /\ \A x \in Shape("msg2") : Answered(x.ea, x.eb)
      /\ \A m \in Shape("msg3") : Answered(m.ea, m.eb)
      /\ St(1) = "established" => Answered(sess[1].gen, sess[1].re)

\* A later session of the initiator is answered by a later one of the responder.
AnsweredInOrder ==
  /\ \A m \in Shape("msg3"), x \in Shape("msg2") : m.ea < x.ea => m.eb < x.eb
  /\ St(1) = "established" =>
       \A m \in Shape("msg3") :
         /\ m.ea < sess[1].gen => m.eb < sess[1].re
         /\ m.ea = sess[1].gen => m.eb = sess[1].re
  /\ St(1) = "handshaking" => \A m \in Shape("msg3") : m.ea < sess[1].gen
  /\ St(2) = "established" =>
       /\ \A x \in Shape("msg2") : sess[2].re < x.ea => sess[2].gen < x.eb
       /\ St(1) = "handshaking" => sess[2].re < sess[1].gen

KeyInv == SessionsCurrent /\ KeysExist /\ AnsweredOnce /\ AnsweredInOrder /\ SameKeys

-----------------------------------------------------------------------------
LEMMA GotSessionType ==
  ASSUME TypeOK, NEW p \in Peers, CanGetSession(p)
  PROVE  /\ GotSession(p) \in Sessions
         /\ (IF St(p) = "none" THEN gens[p] + 1 ELSE gens[p]) \in Gens
  BY SessionAssumption DEF TypeOK, Sessions, CanGetSession, GotSession, St, Gens, NoKey

LEMMA PacketType ==
  ASSUME NEW kind \in Kinds, NEW p \in Peers, NEW s \in Sessions, NEW t \in 0..MaxTexts
  PROVE  Packet(kind, p, TranscriptOf(p, s), t) \in Packets
  BY DEF Packet, Packets, TranscriptOf, Sessions

\* The state a handler of p's own conversation changes has its types.
CoreType ==
  /\ gens \in [Peers -> Gens] /\ sess \in [Peers -> Sessions]
  /\ timer \in [Peers -> Gens] /\ pending \in [Peers -> Seq(Texts)]
  /\ net \subseteq Packets

LEMMA KeepSessionType ==
  ASSUME TypeOK, NEW p \in Peers, CanGetSession(p), NEW s \in Sessions, KeepSession(p, s)
  PROVE  gens' \in [Peers -> Gens] /\ sess' \in [Peers -> Sessions]
  BY GotSessionType DEF TypeOK, KeepSession

LEMMA StartHandshakeType ==
  ASSUME TypeOK, NEW p \in Peers, CanGetSession(p), NEW s \in Sessions, NEW rest \in SUBSET Packets,
         StartHandshake(p, s, rest)
  PROVE  /\ gens' \in [Peers -> Gens] /\ sess' \in [Peers -> Sessions]
         /\ timer' \in [Peers -> Gens] /\ net' \subseteq Packets
  <1> DEFINE started == [s EXCEPT !.st = "handshaking"]
  <1>1. started \in Sessions
    BY DEF Sessions
  <1>2. KeepSession(p, started) /\ ScheduleTimeout(p, started)
        /\ net' = rest \cup {Packet("msg1", p, TranscriptOf(p, started), 0)}
    BY DEF StartHandshake
  <1> HIDE DEF started
  <1>3. gens' \in [Peers -> Gens] /\ sess' \in [Peers -> Sessions]
    BY <1>1, <1>2, KeepSessionType
  <1>4. timer' \in [Peers -> Gens]
    BY <1>1, <1>2 DEF ScheduleTimeout, TypeOK, Sessions
  <1>5. 0 \in 0..MaxTexts
    BY SessionAssumption
  <1>6. net' \subseteq Packets
    BY <1>1, <1>2, <1>5, PacketType DEF Kinds
  <1> QED
    BY <1>3, <1>4, <1>6

LEMMA DiscardType ==
  ASSUME TypeOK, NEW p \in Peers, Discard(p)
  PROVE  /\ gens' \in [Peers -> Gens] /\ sess' \in [Peers -> Sessions]
         /\ timer' \in [Peers -> Gens] /\ pending' \in [Peers -> Seq(Texts)]
  <1>1. NoSession \in Sessions /\ 0 \in Gens
    BY SessionAssumption DEF NoSession, Sessions, Gens, NoKey
  <1> QED
    BY <1>1 DEF Discard, TypeOK

LEMMA DirectMessageType ==
  ASSUME TypeOK, NEW p \in Peers, NEW t \in Texts, DirectMessage(p, t)
  PROVE  CoreType'
  <1> DEFINE s == GotSession(p)
  <1>1. CanGetSession(p) /\ s \in Sessions /\ t \in 0..MaxTexts /\ NoKeys = [ea |-> 0, eb |-> 0]
    BY GotSessionType DEF DirectMessage, Texts, NoKeys, NoKey
  <1>2. CASE s.st = "established"
    <2>1. Packet("encrypted", p, TranscriptOf(p, s), t) \in Packets
      BY <1>1, PacketType DEF Kinds
    <2> QED
      BY <1>2, <2>1 DEF DirectMessage, TypeOK, CoreType
  <1>3. CASE s.st # "established"
    <2>1. pending' \in [Peers -> Seq(Texts)]
      <3>1. pending' = [pending EXCEPT ![p] = Append(@, t)]
        BY <1>3 DEF DirectMessage
      <3>2. pending \in [Peers -> Seq(Texts)] /\ Append(pending[p], t) \in Seq(Texts)
        BY DEF TypeOK
      <3> QED
        BY <3>1, <3>2
    <2>2. CASE Initiates(p) /\ StartHandshake(p, s, net)
      BY <2>1, <2>2, <1>1, StartHandshakeType DEF CoreType, TypeOK
    <2>3. CASE /\ KeepSession(p, s)
               /\ net' = net \cup {Packet("request", p, NoKeys, t)}
               /\ UNCHANGED timer
      <3>1. Packet("request", p, NoKeys, t) \in Packets
        BY <1>1, SessionAssumption DEF Packet, Packets, Kinds, Gens
      <3>2. gens' \in [Peers -> Gens] /\ sess' \in [Peers -> Sessions]
        BY <2>3, <1>1, KeepSessionType
      <3> QED
        BY <2>1, <2>3, <3>1, <3>2 DEF CoreType, TypeOK
    <2>4. CASE UNCHANGED <<sess, gens, timer, net>>
      BY <2>1, <2>4 DEF CoreType, TypeOK
    <2> QED
      BY <1>3, <2>2, <2>3, <2>4 DEF DirectMessage
  <1> QED
    BY <1>2, <1>3

LEMMA CompleteType ==
  ASSUME TypeOK, NEW p \in Peers, CanGetSession(p), NEW s \in Sessions, Complete(p, s)
  PROVE  /\ gens' \in [Peers -> Gens] /\ sess' \in [Peers -> Sessions]
         /\ timer' \in [Peers -> Gens] /\ pending' \in [Peers -> Seq(Texts)]
         /\ flush' \in [Peers -> Seq(Texts)]
  <1>1. CASE p \in Mistrusting
    BY <1>1, DiscardType DEF Complete, TypeOK
  <1>2. CASE p \notin Mistrusting
    <2>1. gens' \in [Peers -> Gens] /\ sess' \in [Peers -> Sessions]
      BY <1>2, KeepSessionType DEF Complete
    <2>2. timer' \in [Peers -> Gens]
      <3>1. 0 \in Gens
        BY SessionAssumption DEF Gens
      <3> QED
        BY <1>2, <3>1 DEF Complete, TypeOK
    <2>3. pending' \in [Peers -> Seq(Texts)]
      <3>1. pending' = [pending EXCEPT ![p] = <<>>]
        BY <1>2 DEF Complete
      <3> QED
        BY <3>1 DEF TypeOK
    <2>4. flush' \in [Peers -> Seq(Texts)]
      <3>1. flush \in [Peers -> Seq(Texts)] /\ (flush[p] \o pending[p]) \in Seq(Texts)
        BY DEF TypeOK
      <3>2. flush' = [flush EXCEPT ![p] = @ \o pending[p]]
        BY <1>2 DEF Complete
      <3> QED
        BY <3>1, <3>2
    <2> QED
      BY <2>1, <2>2, <2>3, <2>4
  <1> QED
    BY <1>1, <1>2

LEMMA HandleRequestType ==
  ASSUME TypeOK, NEW p \in Peers, NEW rest \in SUBSET Packets, HandleRequest(p, rest)
  PROVE  CoreType'
  <1> DEFINE s == GotSession(p)
  <1>1. CanGetSession(p) /\ s \in Sessions
    BY GotSessionType DEF HandleRequest
  <1>2. CASE StartHandshake(p, s, rest)
    BY <1>1, <1>2, StartHandshakeType DEF HandleRequest, CoreType, TypeOK
  <1>3. CASE KeepSession(p, s) /\ net' = rest /\ UNCHANGED timer
    BY <1>1, <1>3, KeepSessionType DEF HandleRequest, CoreType, TypeOK
  <1> QED
    BY <1>2, <1>3 DEF HandleRequest

LEMMA HandleHandshakeType ==
  ASSUME TypeOK, NEW p \in Peers, NEW pkt \in Packets, NEW rest \in SUBSET Packets,
         HandleHandshake(p, pkt, rest)
  PROVE  /\ CoreType' /\ flush' \in [Peers -> Seq(Texts)]
         /\ replying' \in [Peers -> SUBSET Gens]
  <1>1. CASE pkt.kind # "msg1" /\ St(p) = "none"
    BY <1>1 DEF HandleHandshake, CoreType, TypeOK
  <1>2. CASE ~(pkt.kind # "msg1" /\ St(p) = "none")
    <2> DEFINE s == GotSession(p)
    <2>1. CanGetSession(p) /\ s \in Sessions /\ 0 \in 0..MaxTexts /\ 0 \in Gens
      BY <1>2, GotSessionType, SessionAssumption DEF HandleHandshake, Gens
    <2> HIDE DEF s
    <2>2. CASE Answer(p, s, pkt, rest)
      <3> DEFINE heard == [gen |-> s.gen, st |-> "handshaking", re |-> KeyRead(pkt)]
      <3>1. heard \in Sessions
        BY <2>1 DEF Sessions, KeyRead, Packets, NoKey
      <3>2. /\ KeepSession(p, heard) /\ ScheduleTimeout(p, heard)
            /\ net' = rest \cup {Packet("msg2", p, TranscriptOf(p, heard), 0)}
            /\ UNCHANGED <<pending, flush, replying>>
        BY <2>2 DEF Answer
      <3> HIDE DEF heard
      <3>3. timer' \in [Peers -> Gens]
        BY <3>1, <3>2 DEF ScheduleTimeout, TypeOK, Sessions
      <3>4. net' \subseteq Packets
        BY <2>1, <3>1, <3>2, PacketType DEF Kinds
      <3> QED
        BY <2>1, <3>1, <3>2, <3>3, <3>4, KeepSessionType DEF CoreType, TypeOK
    <2>3. CASE Reply(p, s, pkt, rest)
      <3> DEFINE done == [gen |-> s.gen, st |-> "established", re |-> pkt.eb]
      <3>1. done \in Sessions /\ s.gen \in Gens
        BY <2>1 DEF Sessions, Packets
      <3>2. /\ KeepSession(p, done)
            /\ \/ /\ net' = rest \cup {Packet("msg3", p, TranscriptOf(p, done), 0)}
                  /\ replying' = [replying EXCEPT ![p] = @ \cup {s.gen}]
               \/ net' = rest /\ UNCHANGED replying
            /\ UNCHANGED <<timer, pending, flush>>
        BY <2>3 DEF Reply
      <3> HIDE DEF done
      <3>3. net' \subseteq Packets
        BY <2>1, <3>1, <3>2, PacketType DEF Kinds
      <3>4. replying' \in [Peers -> SUBSET Gens]
        <4>1. replying \in [Peers -> SUBSET Gens] /\ replying[p] \cup {s.gen} \in SUBSET Gens
          BY <3>1 DEF TypeOK
        <4> QED
          BY <3>2, <4>1
      <3>5. gens' \in [Peers -> Gens] /\ sess' \in [Peers -> Sessions]
        BY <2>1, <3>1, <3>2, KeepSessionType
      <3> QED
        BY <3>2, <3>3, <3>4, <3>5 DEF CoreType, TypeOK
    <2>4. CASE Accept(p, s, pkt, rest)
      <3>1. [s EXCEPT !.st = "established"] \in Sessions
        BY <2>1 DEF Sessions
      <3> QED
        BY <2>1, <2>4, <3>1, CompleteType DEF Accept, CoreType, TypeOK
    <2>5. CASE Fail(p, s, pkt, rest)
      BY <2>5, DiscardType DEF Fail, CoreType, TypeOK
    <2> QED
      BY <1>2, <2>2, <2>3, <2>4, <2>5 DEF HandleHandshake, s
  <1> QED
    BY <1>1, <1>2

LEMMA ShownType ==
  ASSUME TypeOK, NEW p \in Peers, NEW pkt \in Packets, ShowIfDecrypts(p, pkt)
  PROVE  got' \in [Peers -> Seq(0..MaxTexts)]
  <1>1. Append(got[p], pkt.text) \in Seq(0..MaxTexts) /\ got \in [Peers -> Seq(0..MaxTexts)]
    BY DEF TypeOK, Packets
  <1> QED
    BY <1>1 DEF ShowIfDecrypts

LEMMA DeliverType ==
  ASSUME TypeOK, NEW pkt \in net, Deliver(pkt)
  PROVE  TypeOK'
  <1> DEFINE p == Other(pkt.src)
             rest == net \ {pkt}
  <1>1. pkt \in Packets /\ p \in Peers /\ rest \in SUBSET Packets
    BY DEF TypeOK, Packets, Other, Peers
  <1> HIDE DEF p, rest
  <1>2. UNCHANGED <<resetting, said>>
    BY DEF Deliver
  <1>3. CASE HandleRequest(p, rest)
    BY <1>1, <1>2, <1>3, HandleRequestType DEF HandleRequest, TypeOK, CoreType
  <1>4. CASE HandleHandshake(p, pkt, rest)
    <2>1. UNCHANGED <<waiting, got>>
      BY <1>4 DEF HandleHandshake
    <2> QED
      BY <1>1, <1>2, <1>4, <2>1, HandleHandshakeType DEF TypeOK, CoreType
  <1>5. CASE HandleEncrypted(p, pkt, rest)
    <2>1. UNCHANGED <<gens, sess, timer, pending, flush, replying>> /\ net' = rest
      BY <1>5 DEF HandleEncrypted
    <2>2. waiting \in [Peers -> SUBSET [gen : Gens, pkt : Packets]] /\ sess[p].gen \in Gens
      BY <1>1 DEF TypeOK, Sessions
    <2>3. [gen |-> sess[p].gen, pkt |-> pkt] \in [gen : Gens, pkt : Packets]
      BY <1>1, <2>2
    <2>4. waiting' \in [Peers -> SUBSET [gen : Gens, pkt : Packets]]
      BY <1>1, <1>5, <2>2, <2>3 DEF HandleEncrypted
    <2>5. got' \in [Peers -> Seq(0..MaxTexts)]
      BY <1>1, <1>5, ShownType DEF HandleEncrypted, TypeOK
    <2> QED
      BY <1>1, <1>2, <2>1, <2>4, <2>5 DEF TypeOK
  <1> QED
    BY <1>3, <1>4, <1>5 DEF Deliver, p, rest

\* TypeCorrect: queues hold texts, sessions, timeouts and packets name sessions
\* that the bounds allow, whatever handlers, tasks and faults interleave.
THEOREM TypeCorrect == Spec => []TypeOK
  <1>1. Init => TypeOK
    <2>1. NoSession \in Sessions /\ 0 \in Gens /\ 0 \in 0..MaxTexts
      BY SessionAssumption DEF NoSession, Sessions, Gens, NoKey
    <2> QED
      BY <2>1 DEF Init, TypeOK
  <1>2. TypeOK /\ [Next]_vars => TypeOK'
    <2> SUFFICES ASSUME TypeOK, [Next]_vars PROVE TypeOK'
      OBVIOUS
    <2>1. ASSUME NEW p \in Peers, UserSends(p) PROVE TypeOK'
      <3>1. said[p] + 1 \in Texts /\ said' \in [Peers -> 0..MaxTexts]
        BY <2>1, SessionAssumption DEF UserSends, TypeOK, Texts
      <3>2. CoreType'
        BY <2>1, <3>1, DirectMessageType DEF UserSends
      <3> QED
        BY <2>1, <3>1, <3>2 DEF UserSends, TypeOK, CoreType
    <2>2. ASSUME NEW p \in Peers, RunFlush(p) PROVE TypeOK'
      <3>1. Head(flush[p]) \in Texts /\ Tail(flush[p]) \in Seq(Texts)
        BY <2>2 DEF RunFlush, TypeOK
      <3>2. CoreType'
        BY <2>2, <3>1, DirectMessageType DEF RunFlush
      <3>3. flush' \in [Peers -> Seq(Texts)]
        BY <2>2, <3>1 DEF RunFlush, TypeOK
      <3> QED
        BY <2>2, <3>2, <3>3 DEF RunFlush, TypeOK, CoreType
    <2>3. ASSUME NEW p \in Peers, SendDone(p) PROVE TypeOK'
      <3>1. PICK g \in replying[p] :
              /\ replying' = [replying EXCEPT ![p] = @ \ {g}]
              /\ IF sess[p].gen = g /\ St(p) = "established"
                 THEN Complete(p, sess[p])
                 ELSE UNCHANGED <<gens, sess, timer, pending, flush>>
              /\ UNCHANGED <<waiting, resetting, said, got, net>>
        BY <2>3 DEF SendDone
      <3>2. replying' \in [Peers -> SUBSET Gens]
        <4>1. replying \in [Peers -> SUBSET Gens] /\ replying[p] \ {g} \in SUBSET Gens
          BY DEF TypeOK
        <4> QED
          BY <3>1, <4>1
      <3>3. CASE sess[p].gen = g /\ St(p) = "established"
        <4>1. CanGetSession(p) /\ sess[p] \in Sessions
          BY <3>3 DEF CanGetSession, TypeOK
        <4> QED
          BY <3>1, <3>2, <3>3, <4>1, CompleteType DEF TypeOK
      <3>4. CASE ~(sess[p].gen = g /\ St(p) = "established")
        BY <3>1, <3>2, <3>4 DEF TypeOK
      <3> QED
        BY <3>3, <3>4
    <2>4. ASSUME NEW p \in Peers, PollSucceeds(p) PROVE TypeOK'
      <3>1. PICK w \in waiting[p] :
              /\ ShowIfDecrypts(p, w.pkt)
              /\ waiting' = [waiting EXCEPT ![p] = @ \ {w}]
        BY <2>4 DEF PollSucceeds
      <3>2. waiting' \in [Peers -> SUBSET [gen : Gens, pkt : Packets]] /\ w.pkt \in Packets
        BY <3>1 DEF TypeOK
      <3>3. got' \in [Peers -> Seq(0..MaxTexts)]
        BY <3>1, <3>2, ShownType
      <3> QED
        BY <2>4, <3>2, <3>3 DEF PollSucceeds, TypeOK
    <2>5. ASSUME NEW p \in Peers, PollGivesUp(p) PROVE TypeOK'
      <3>1. waiting' \in [Peers -> SUBSET [gen : Gens, pkt : Packets]]
        BY <2>5 DEF PollGivesUp, TypeOK
      <3> QED
        BY <2>5, <3>1 DEF PollGivesUp, TypeOK
    <2>6. ASSUME NEW p \in Peers, TimerFires(p) PROVE TypeOK'
      <3>1. CASE Discard(p)
        BY <2>6, <3>1, DiscardType DEF TimerFires, TypeOK
      <3>2. CASE timer' = [timer EXCEPT ![p] = 0] /\ UNCHANGED <<gens, sess, pending>>
        <4>1. 0 \in Gens
          BY SessionAssumption DEF Gens
        <4> QED
          BY <2>6, <3>2, <4>1 DEF TimerFires, TypeOK
      <3> QED
        BY <2>6, <3>1, <3>2 DEF TimerFires
    <2>7. ASSUME NEW p \in Peers, Disconnect(p) PROVE TypeOK'
      BY <2>7, DiscardType DEF Disconnect, TypeOK
    <2>8. ASSUME NEW p \in Peers, Restart(p) PROVE TypeOK'
      BY <2>8, DiscardType DEF Restart, TypeOK
    <2>9. ASSUME NEW p \in Peers, ResetBegins(p) PROVE TypeOK'
      <3>1. 0 \in Gens
        BY SessionAssumption DEF Gens
      <3> QED
        BY <2>9, <3>1 DEF ResetBegins, TypeOK
    <2>10. ASSUME NEW p \in Peers, ResetEnds(p) PROVE TypeOK'
      <3>1. NoSession \in Sessions
        BY SessionAssumption DEF NoSession, Sessions, Gens, NoKey
      <3> QED
        BY <2>10, <3>1 DEF ResetEnds, TypeOK
    <2>11. CASE Lose
      BY <2>11 DEF Lose, local, TypeOK
    <2>12. CASE UNCHANGED vars
      BY <2>12 DEF vars, local, TypeOK
    <2> QED
      BY <2>1, <2>2, <2>3, <2>4, <2>5, <2>6, <2>7, <2>8, <2>9, <2>10, <2>11, <2>12,
         DeliverType DEF Next
  <1> QED
    BY <1>1, <1>2, PTL DEF Spec

-----------------------------------------------------------------------------
(***************************************************************************)
(* The steps as they affect keys: what a step does to gens, sess and the   *)
(* handshake messages in net.                                              *)
(***************************************************************************)
KeyTypes == /\ gens \in [Peers -> Nat]
            /\ sess \in [Peers -> [gen : Nat, re : Nat,
                          st : {"none", "uninitialized", "handshaking", "established"}]]
            /\ net \subseteq [kind : Kinds, src : Peers, ea : Nat, eb : Nat, text : Nat]

LEMMA TypesOfKeys == TypeOK => KeyTypes
  BY SessionAssumption DEF TypeOK, KeyTypes, Sessions, Packets, Gens

\* No key is made and no session changes; texts and requests may appear.
Quiet ==
  /\ UNCHANGED <<gens, sess>>
  /\ \A x \in net' : x \in net \/ x.kind = "encrypted" \/ (x.kind = "request" /\ x.src = 2)

Closes(p) ==
  /\ UNCHANGED gens /\ sess' = [sess EXCEPT ![p] = NoSession] /\ net' \subseteq net

\* The responder makes a session for a text of its own user.
Opens ==
  /\ St(2) = "none"
  /\ gens' = [gens EXCEPT ![2] = @ + 1]
  /\ sess' = [sess EXCEPT ![2] = [gen |-> gens[2] + 1, st |-> "uninitialized", re |-> 0]]
  /\ \A x \in net' : x \in net \/ (x.kind = "request" /\ x.src = 2)

Starts ==
  /\ St(1) = "none"
  /\ gens' = [gens EXCEPT ![1] = @ + 1]
  /\ sess' = [sess EXCEPT ![1] = [gen |-> gens[1] + 1, st |-> "handshaking", re |-> 0]]
  /\ \A x \in net' : x \in net \/ (x.kind = "msg1" /\ x.src = 1 /\ x.ea = gens[1] + 1)

Answers ==
  \E s \in [gen : Nat, re : Nat, st : {"uninitialized"}], re \in 0..gens[1] :
    /\ \/ St(2) = "none" /\ s.gen = gens[2] + 1
       \/ St(2) = "uninitialized" /\ s = sess[2]
    /\ gens' = [gens EXCEPT ![2] = s.gen]
    /\ sess' = [sess EXCEPT ![2] = [gen |-> s.gen, st |-> "handshaking", re |-> re]]
    /\ \A x \in net' :
         \/ x \in net
         \/ x.kind = "msg2" /\ x.src = 2 /\ x.ea = re /\ x.eb = s.gen

Replies ==
  \E x \in Shape("msg2") :
    /\ St(1) = "handshaking" /\ x.ea = sess[1].gen
    /\ UNCHANGED gens
    /\ sess' = [sess EXCEPT ![1] = [gen |-> @.gen, st |-> "established", re |-> x.eb]]
    /\ \A m \in net' :
         \/ m \in net
         \/ m.kind = "msg3" /\ m.src = 1 /\ m.ea = sess[1].gen /\ m.eb = x.eb

Accepts ==
  \E m \in Shape("msg3") :
    /\ St(2) = "handshaking" /\ m.ea = sess[2].re /\ m.eb = sess[2].gen
    /\ UNCHANGED gens
    /\ sess' = [sess EXCEPT ![2] = [gen |-> @.gen, st |-> "established", re |-> @.re]]
    /\ net' \subseteq net

LEMMA QuietKeeps == KeyTypes /\ KeyInv /\ Quiet => KeyInv'
  BY DEF KeyTypes, KeyInv, Quiet, SessionsCurrent, KeysExist, AnsweredOnce, AnsweredInOrder,
         SameKeys, Shape, St, TranscriptOf, Initiates, Other, Peers

LEMMA ClosesKeeps == ASSUME NEW p \in Peers PROVE KeyTypes /\ KeyInv /\ Closes(p) => KeyInv'
  BY DEF KeyTypes, KeyInv, Closes, SessionsCurrent, KeysExist, AnsweredOnce, AnsweredInOrder,
         SameKeys, Shape, St, TranscriptOf, Initiates, Other, Peers, NoSession, NoKey

LEMMA OpensKeeps == KeyTypes /\ KeyInv /\ Opens => KeyInv'
  BY DEF KeyTypes, KeyInv, Opens, SessionsCurrent, KeysExist, AnsweredOnce, AnsweredInOrder,
         SameKeys, Shape, St, TranscriptOf, Initiates, Other, Peers, NoSession, NoKey

LEMMA StartsKeeps == KeyTypes /\ KeyInv /\ Starts => KeyInv'
  BY DEF KeyTypes, KeyInv, Starts, SessionsCurrent, KeysExist, AnsweredOnce, AnsweredInOrder,
         SameKeys, Shape, St, TranscriptOf, Initiates, Other, Peers, NoSession, NoKey

LEMMA AnswersKeeps == KeyTypes /\ KeyInv /\ Answers => KeyInv'
  BY DEF KeyTypes, KeyInv, Answers, SessionsCurrent, KeysExist, AnsweredOnce, AnsweredInOrder,
         SameKeys, Shape, St, TranscriptOf, Initiates, Other, Peers, NoSession, NoKey

LEMMA RepliesKeeps == KeyTypes /\ KeyInv /\ Replies => KeyInv'
  BY DEF KeyTypes, KeyInv, Replies, SessionsCurrent, KeysExist, AnsweredOnce, AnsweredInOrder,
         SameKeys, Shape, St, TranscriptOf, Initiates, Other, Peers, NoSession, NoKey

LEMMA AcceptsKeeps == KeyTypes /\ KeyInv /\ Accepts => KeyInv'
  BY DEF KeyTypes, KeyInv, Accepts, SessionsCurrent, KeysExist, AnsweredOnce, AnsweredInOrder,
         SameKeys, Shape, St, TranscriptOf, Initiates, Other, Peers, NoSession, NoKey

KeyMove == Quiet \/ (\E p \in Peers : Closes(p)) \/ Opens \/ Starts \/ Answers \/ Replies \/ Accepts

LEMMA MovesKeep == KeyTypes /\ KeyInv /\ KeyMove => KeyInv'
  BY QuietKeeps, ClosesKeeps, OpensKeeps, StartsKeeps, AnswersKeeps, RepliesKeeps, AcceptsKeeps
  DEF KeyMove

LEMMA Roles == \A p \in Peers : Initiates(p) <=> p = 1
  BY DEF Initiates, Peers, Other

LEMMA DiscardMoves ==
  ASSUME NEW p \in Peers, Discard(p), net' \subseteq net
  PROVE  KeyMove
  BY DEF Discard, Closes, KeyMove

LEMMA StartMoves ==
  ASSUME KeyTypes, KeyInv, NEW p \in Peers, Initiates(p), NEW rest \in SUBSET net,
         GotSession(p).st = "uninitialized", StartHandshake(p, GotSession(p), rest)
  PROVE  KeyMove
  <1>1. p = 1 /\ St(1) = "none"
    BY Roles DEF KeyInv, KeysExist, GotSession, St, KeyTypes
  <1>2. GotSession(1) = [gen |-> gens[1] + 1, st |-> "uninitialized", re |-> 0]
    BY <1>1 DEF GotSession, NoKey
  <1>3. [GotSession(1) EXCEPT !.st = "handshaking"]
          = [gen |-> gens[1] + 1, st |-> "handshaking", re |-> 0]
    BY <1>2
  <1>4. /\ sess' = [sess EXCEPT ![1] = [gen |-> gens[1] + 1, st |-> "handshaking", re |-> 0]]
        /\ gens' = [gens EXCEPT ![1] = @ + 1]
    BY <1>1, <1>3 DEF StartHandshake, KeepSession
  <1>5. \A x \in net' : x \in net \/ (x.kind = "msg1" /\ x.src = 1 /\ x.ea = gens[1] + 1)
    BY <1>1, <1>3, Roles DEF StartHandshake, Packet, TranscriptOf
  <1> QED
    BY <1>1, <1>4, <1>5 DEF Starts, KeyMove

LEMMA DirectMessageMoves ==
  ASSUME KeyTypes, KeyInv, NEW p \in Peers, NEW t, DirectMessage(p, t)
  PROVE  KeyMove
  <1> DEFINE s == GotSession(p)
  <1>1. CASE s.st = "established"
    BY <1>1 DEF DirectMessage, Packet, Quiet, KeyMove
  <1>2. CASE s.st = "uninitialized" /\ Initiates(p) /\ StartHandshake(p, s, net)
    BY <1>2, StartMoves
  <1>3. CASE /\ s.st = "uninitialized" /\ ~Initiates(p) /\ KeepSession(p, s)
             /\ net' = net \cup {Packet("request", p, NoKeys, t)}
    <2>1. p = 2
      BY <1>3, Roles DEF Peers
    <2>2. \A x \in net' : x \in net \/ (x.kind = "request" /\ x.src = 2)
      BY <1>3, <2>1 DEF Packet
    <2>3. CASE St(2) = "none"
      BY <1>3, <2>1, <2>2, <2>3 DEF KeepSession, GotSession, NoKey, Opens, KeyMove
    <2>4. CASE St(2) # "none"
      BY <1>3, <2>1, <2>2, <2>4 DEF KeepSession, GotSession, KeyTypes, Quiet, KeyMove
    <2> QED
      BY <2>3, <2>4
  <1>4. CASE UNCHANGED <<sess, gens, timer, net>>
    BY <1>4 DEF Quiet, KeyMove
  <1> QED
    BY <1>1, <1>2, <1>3, <1>4 DEF DirectMessage

LEMMA HandshakeMoves ==
  ASSUME KeyTypes, KeyInv, NEW pkt \in net, NEW p \in Peers, p = Other(pkt.src),
         NEW rest \in SUBSET net,
         pkt.kind \in {"msg1", "msg2", "msg3"}, HandleHandshake(p, pkt, rest)
  PROVE  KeyMove
  <1> DEFINE s == GotSession(p)
  <1>1. CASE pkt.kind # "msg1" /\ St(p) = "none"
    BY <1>1 DEF HandleHandshake, Quiet, KeyMove
  <1>2. CASE Answer(p, s, pkt, rest)
    <2> DEFINE re == KeyRead(pkt)
               heard == [gen |-> s.gen, st |-> "handshaking", re |-> re]
    <2>1. p = 2 /\ s.st = "uninitialized"
      BY <1>2, Roles DEF Answer, ReadsFirst, Peers
    <2>2. /\ s \in [gen : Nat, re : Nat, st : {"uninitialized"}]
          /\ \/ St(2) = "none" /\ s.gen = gens[2] + 1
             \/ St(2) = "uninitialized" /\ s = sess[2]
      BY <2>1 DEF GotSession, KeyTypes, St, NoKey, Peers
    <2>3. re \in 0..gens[1]
      <3>1. gens[1] \in Nat /\ pkt.ea \in Nat
        BY DEF KeyTypes, Peers
      <3>2. pkt.kind = "msg1" => pkt.ea <= gens[1]
        BY DEF KeyInv, KeysExist, Shape
      <3> QED
        BY <3>1, <3>2 DEF KeyRead, NoKey
    <2>4. heard = [gen |-> s.gen, st |-> "handshaking", re |-> re]
      BY <2>2
    <2>5. sess' = [sess EXCEPT ![2] = [gen |-> s.gen, st |-> "handshaking", re |-> re]]
      BY <1>2, <2>1, <2>4 DEF Answer, KeepSession
    <2>6. gens' = [gens EXCEPT ![2] = s.gen]
      BY <1>2, <2>1, <2>2 DEF Answer, KeepSession, KeyInv, SessionsCurrent, KeyTypes, Peers, St
    <2>7. \A x \in net' : x \in net \/ (x.kind = "msg2" /\ x.src = 2 /\ x.ea = re /\ x.eb = s.gen)
      <3>1. net' = rest \cup {Packet("msg2", 2, TranscriptOf(2, heard), 0)}
        BY <1>2, <2>1 DEF Answer
      <3>2. TranscriptOf(2, heard) = [ea |-> re, eb |-> s.gen]
        BY <2>4, Roles DEF TranscriptOf, Peers
      <3> QED
        BY <3>1, <3>2 DEF Packet
    <2> HIDE DEF s, re
    <2> QED
      BY <2>2, <2>3, <2>5, <2>6, <2>7 DEF Answers, KeyMove
  <1>3. CASE Reply(p, s, pkt, rest)
    <2> DEFINE done == [gen |-> s.gen, st |-> "established", re |-> pkt.eb]
    <2>1. p = 1 /\ s.st = "handshaking" /\ pkt.kind = "msg2" /\ pkt.ea = s.gen
      BY <1>3, Roles DEF Reply, ReadsSecond
    <2>2. s = sess[1] /\ St(1) = "handshaking"
      BY <2>1 DEF GotSession, St
    <2>3. done = [gen |-> sess[1].gen, st |-> "established", re |-> pkt.eb]
      BY <2>2
    <2>4. gens' = gens /\ sess' = [sess EXCEPT ![1] = done]
      BY <1>3, <2>1, <2>2 DEF Reply, KeepSession, KeyTypes
    <2>5. \A m \in net' : m \in net \/ (m.kind = "msg3" /\ m.src = 1 /\ m.ea = sess[1].gen /\ m.eb = pkt.eb)
      <3>1. net' \subseteq rest \cup {Packet("msg3", 1, TranscriptOf(1, done), 0)}
        BY <1>3, <2>1 DEF Reply
      <3>2. TranscriptOf(1, done) = [ea |-> sess[1].gen, eb |-> pkt.eb]
        BY <2>3, Roles DEF TranscriptOf, Peers
      <3> QED
        BY <3>1, <3>2 DEF Packet
    <2> QED
      BY <2>1, <2>2, <2>3, <2>4, <2>5 DEF Replies, Shape, KeyMove
  <1>4. CASE Accept(p, s, pkt, rest)
    <2>1. /\ p = 2 /\ s.st = "handshaking" /\ pkt.kind = "msg3"
          /\ pkt.ea = s.re /\ pkt.eb = s.gen
      BY <1>4, Roles DEF Accept, ReadsThird, Peers
    <2>2. s = sess[2] /\ St(2) = "handshaking"
      BY <2>1 DEF GotSession, St
    <2>3. net' \subseteq net
      BY <1>4 DEF Accept
    <2>4. CASE Discard(p)
      BY <2>3, <2>4, DiscardMoves
    <2>5. CASE KeepSession(p, [s EXCEPT !.st = "established"])
      <3>1. [s EXCEPT !.st = "established"]
              = [gen |-> sess[2].gen, st |-> "established", re |-> sess[2].re]
        BY <2>2 DEF KeyTypes, Peers
      <3>2. /\ gens' = gens
            /\ sess' = [sess EXCEPT ![2] =
                          [gen |-> sess[2].gen, st |-> "established", re |-> sess[2].re]]
        BY <2>1, <2>2, <2>5, <3>1 DEF KeepSession, KeyTypes
      <3> QED
        BY <2>1, <2>2, <2>3, <3>2 DEF Accepts, Shape, KeyMove
    <2> QED
      BY <1>4, <2>4, <2>5 DEF Accept, Complete
  <1>5. CASE Fail(p, s, pkt, rest)
    BY <1>5, DiscardMoves DEF Fail
  <1> QED
    BY <1>1, <1>2, <1>3, <1>4, <1>5 DEF HandleHandshake

LEMMA RequestMoves ==
  ASSUME KeyTypes, KeyInv, NEW pkt \in net, NEW p \in Peers, p = Other(pkt.src),
         pkt.kind = "request", NEW rest \in SUBSET net, HandleRequest(p, rest)
  PROVE  KeyMove
  <1>1. p = 1 /\ Initiates(p)
    BY Roles DEF KeyInv, KeysExist, Shape, Other, Peers
  <1>2. CASE GotSession(p).st = "uninitialized"
    BY <1>1, <1>2, StartMoves DEF HandleRequest
  <1>3. CASE GotSession(p).st # "uninitialized"
    <2>1. St(p) # "none"
      BY <1>3 DEF GotSession
    <2> QED
      BY <1>3, <2>1 DEF HandleRequest, KeepSession, GotSession, KeyTypes, Quiet, KeyMove
  <1> QED
    BY <1>2, <1>3

LEMMA CompleteMoves ==
  ASSUME KeyTypes, NEW p \in Peers, St(p) # "none", Complete(p, sess[p]), net' \subseteq net
  PROVE  KeyMove
  <1>1. CASE Discard(p)
    BY <1>1, DiscardMoves
  <1>2. CASE KeepSession(p, sess[p])
    BY <1>2 DEF KeepSession, KeyTypes, Quiet, KeyMove
  <1> QED
    BY <1>1, <1>2 DEF Complete

LEMMA StepsMove ==
  ASSUME KeyTypes, KeyInv, [Next]_vars
  PROVE  KeyMove
  <1>1. ASSUME NEW p \in Peers, UserSends(p) PROVE KeyMove
    BY <1>1, DirectMessageMoves DEF UserSends
  <1>2. ASSUME NEW p \in Peers, RunFlush(p) PROVE KeyMove
    BY <1>2, DirectMessageMoves DEF RunFlush
  <1>3. ASSUME NEW p \in Peers, SendDone(p) PROVE KeyMove
    <2>1. net' = net
      BY <1>3 DEF SendDone
    <2>2. CASE Complete(p, sess[p]) /\ St(p) = "established"
      BY <2>1, <2>2, CompleteMoves
    <2>3. CASE UNCHANGED <<gens, sess>>
      BY <2>1, <2>3 DEF Quiet, KeyMove
    <2> QED
      BY <1>3, <2>2, <2>3 DEF SendDone
  <1>4. ASSUME NEW p \in Peers, PollSucceeds(p) \/ PollGivesUp(p) \/ ResetBegins(p) PROVE KeyMove
    BY <1>4 DEF PollSucceeds, PollGivesUp, ResetBegins, Quiet, KeyMove
  <1>5. ASSUME NEW p \in Peers, TimerFires(p) PROVE KeyMove
    <2>1. CASE Discard(p)
      BY <1>5, <2>1, DiscardMoves DEF TimerFires
    <2>2. CASE UNCHANGED <<gens, sess>>
      BY <1>5, <2>2 DEF TimerFires, Quiet, KeyMove
    <2> QED
      BY <1>5, <2>1, <2>2 DEF TimerFires
  <1>6. ASSUME NEW p \in Peers, Disconnect(p) \/ Restart(p) PROVE KeyMove
    BY <1>6, DiscardMoves DEF Disconnect, Restart
  <1>7. ASSUME NEW p \in Peers, ResetEnds(p) PROVE KeyMove
    BY <1>7 DEF ResetEnds, Closes, KeyMove
  <1>8. ASSUME NEW pkt \in net, Deliver(pkt) PROVE KeyMove
    <2> DEFINE p == Other(pkt.src)
    <2>1. p \in Peers /\ pkt.kind \in Kinds
      BY DEF KeyTypes, Peers, Other
    <2>2. CASE pkt.kind = "request"
      BY <1>8, <2>1, <2>2, RequestMoves DEF Deliver
    <2>3. CASE pkt.kind = "encrypted"
      BY <1>8, <2>3 DEF Deliver, HandleEncrypted, Quiet, KeyMove
    <2>4. CASE pkt.kind \in {"msg1", "msg2", "msg3"}
      <3>1. HandleHandshake(p, pkt, net \ {pkt})
        BY <1>8, <2>4 DEF Deliver
      <3> QED
        BY <2>1, <2>4, <3>1, HandshakeMoves
    <2> QED
      BY <2>1, <2>2, <2>3, <2>4 DEF Kinds
  <1>9. CASE Lose
    BY <1>9 DEF Lose, local, Quiet, KeyMove
  <1>10. CASE UNCHANGED vars
    BY <1>10 DEF vars, local, Quiet, KeyMove
  <1> QED
    BY <1>1, <1>2, <1>3, <1>4, <1>5, <1>6, <1>7, <1>8, <1>9, <1>10 DEF Next

\* KeyAgreement: two established sessions always share one transcript, for any
\* number of sessions, restarts, losses, timeouts and late handshake messages.
THEOREM KeyAgreement == Spec => []SameKeys
  <1>1. Init => KeyInv
    BY DEF Init, KeyInv, SessionsCurrent, KeysExist, AnsweredOnce, AnsweredInOrder, SameKeys,
           Shape, St, NoSession, NoKey, Peers
  <1>2. TypeOK /\ KeyInv /\ [Next]_vars => KeyInv'
    BY TypesOfKeys, StepsMove, MovesKeep
  <1>3. KeyInv => SameKeys
    BY DEF KeyInv
  <1> QED
    BY <1>1, <1>2, <1>3, TypeCorrect, PTL DEF Spec

-----------------------------------------------------------------------------
\* Without a reset under way, an unstarted session has no timeout and a
\* handshaking one has its own: scheduling never meets a stale entry.
TimedAt(p) ==
  /\ ~resetting[p]
  /\ St(p) \in {"none", "uninitialized"} => timer[p] = 0
  /\ St(p) = "handshaking" => timer[p] = sess[p].gen
TimedInv == \A p \in Peers : TimedAt(p)

\* What a step may do to the timeout of p's session.
TimerMove(p) ==
  \/ sess'[p] = sess[p] /\ timer'[p] = timer[p]
  \/ sess'[p] = NoSession /\ timer'[p] = 0
  \/ sess'[p].st = "established"
  \/ sess'[p].st = "uninitialized" /\ St(p) \in {"none", "uninitialized"} /\ timer'[p] = timer[p]
  \/ /\ sess'[p].st = "handshaking" /\ St(p) \in {"none", "uninitialized"}
     /\ timer'[p] = IF timer[p] # 0 THEN timer[p] ELSE sess'[p].gen

LEMMA TimerMovesKeep ==
  ASSUME NEW p \in Peers, TimedAt(p), TimerMove(p), resetting'[p] = resetting[p]
  PROVE  TimedAt(p)'
  BY DEF TimedAt, TimerMove, St, NoSession

TableTypes == timer \in [Peers -> Gens] /\ sess \in [Peers -> Sessions]

LEMMA DiscardTimer ==
  ASSUME TableTypes, NEW p \in Peers, NEW q \in Peers, Discard(p)
  PROVE  TimerMove(q)
  BY DEF TableTypes, Discard, TimerMove

LEMMA StartTimer ==
  ASSUME TableTypes, NEW p \in Peers, NEW q \in Peers, NEW s, NEW rest,
         s \in Sessions, s.st = "uninitialized", St(p) \in {"none", "uninitialized"},
         StartHandshake(p, s, rest)
  PROVE  TimerMove(q)
  BY DEF TableTypes, StartHandshake, KeepSession, ScheduleTimeout, TimerMove, Sessions

LEMMA GotUnstarted ==
  ASSUME TableTypes, NEW p \in Peers, GotSession(p).st = "uninitialized"
  PROVE  St(p) \in {"none", "uninitialized"}
  BY DEF TableTypes, GotSession, St, Sessions

LEMMA DirectMessageTimer ==
  ASSUME TypeOK, NEW p \in Peers, NEW q \in Peers, NEW t, DirectMessage(p, t)
  PROVE  TimerMove(q)
  <1> DEFINE s == GotSession(p)
  <1>1. TableTypes /\ s \in Sessions
    BY GotSessionType DEF TypeOK, TableTypes, DirectMessage
  <1>2. CASE UNCHANGED <<sess, timer>>
    BY <1>2 DEF TimerMove
  <1>3. CASE s.st = "uninitialized" /\ StartHandshake(p, s, net)
    BY <1>1, <1>3, StartTimer, GotUnstarted
  <1>4. CASE s.st = "uninitialized" /\ KeepSession(p, s) /\ UNCHANGED timer
    BY <1>1, <1>4, GotUnstarted DEF KeepSession, TimerMove, TableTypes
  <1> QED
    BY <1>2, <1>3, <1>4 DEF DirectMessage

LEMMA CompleteTimer ==
  ASSUME TableTypes, NEW p \in Peers, NEW q \in Peers, NEW s, s.st = "established", Complete(p, s)
  PROVE  TimerMove(q)
  <1>1. CASE p \in Mistrusting
    BY <1>1, DiscardTimer DEF Complete
  <1>2. CASE p \notin Mistrusting
    BY <1>2 DEF Complete, KeepSession, TimerMove, TableTypes
  <1> QED
    BY <1>1, <1>2

LEMMA DeliverTimer ==
  ASSUME TypeOK, NEW pkt \in net, NEW q \in Peers, Deliver(pkt)
  PROVE  TimerMove(q)
  <1> DEFINE p == Other(pkt.src)
             s == GotSession(p)
             rest == net \ {pkt}
  <1>1. TableTypes /\ p \in Peers
    <2>1. TableTypes /\ pkt.src \in Peers
      BY DEF TypeOK, TableTypes, Packets
    <2> QED
      BY <2>1 DEF Other, Peers
  <1> HIDE DEF p, rest
  <1>2. CASE UNCHANGED <<sess, timer>>
    BY <1>2 DEF TimerMove
  <1>3. CASE HandleRequest(p, rest)
    <2>1. s \in Sessions
      BY <1>1, <1>3, GotSessionType DEF HandleRequest
    <2>2. CASE s.st = "uninitialized" /\ StartHandshake(p, s, rest)
      BY <1>1, <2>1, <2>2, StartTimer, GotUnstarted
    <2>3. CASE KeepSession(p, s) /\ UNCHANGED timer
      BY <1>1, <2>3 DEF KeepSession, GotSession, TimerMove, TableTypes, St
    <2> QED
      BY <1>3, <2>2, <2>3 DEF HandleRequest
  <1>4. CASE CanGetSession(p) /\ Answer(p, s, pkt, rest)
    <2>1. s \in Sessions /\ s.st = "uninitialized"
      BY <1>1, <1>4, GotSessionType DEF Answer, ReadsFirst
    <2>2. St(p) \in {"none", "uninitialized"}
      BY <1>1, <2>1, GotUnstarted
    <2> QED
      BY <1>1, <1>4, <2>2 DEF Answer, KeepSession, ScheduleTimeout, TimerMove, TableTypes
  <1>5. CASE Reply(p, s, pkt, rest)
    BY <1>1, <1>5 DEF Reply, KeepSession, TimerMove, TableTypes
  <1>6. CASE CanGetSession(p) /\ Accept(p, s, pkt, rest)
    <2>1. [s EXCEPT !.st = "established"].st = "established"
      BY <1>1, <1>6, GotSessionType DEF Sessions
    <2> QED
      BY <1>1, <1>6, <2>1, CompleteTimer DEF Accept
  <1>7. CASE Fail(p, s, pkt, rest)
    BY <1>1, <1>7, DiscardTimer DEF Fail
  <1> QED
    BY <1>2, <1>3, <1>4, <1>5, <1>6, <1>7
    DEF Deliver, HandleEncrypted, HandleHandshake, p, rest

\* EveryHandshakeTimed: unless session state is reset while handlers run, every
\* handshake has its own timeout from its first message to its last.
THEOREM EveryHandshakeTimed == "reset" \notin Faults => (Spec => []HandshakesTimed)
  <1> SUFFICES ASSUME "reset" \notin Faults PROVE Spec => []HandshakesTimed
    OBVIOUS
  <1>1. Init => TimedInv
    BY DEF Init, TimedInv, TimedAt, St, NoSession
  <1>2. TypeOK /\ TimedInv /\ [Next]_vars => TimedInv'
    <2> SUFFICES ASSUME TypeOK, TimedInv, [Next]_vars, NEW q \in Peers PROVE TimedAt(q)'
      BY DEF TimedInv
    <2>0. TimedAt(q) /\ TableTypes
      BY DEF TimedInv, TypeOK, TableTypes
    <2>1. ASSUME NEW p \in Peers, UserSends(p) \/ RunFlush(p) PROVE TimedAt(q)'
      BY <2>0, <2>1, DirectMessageTimer, TimerMovesKeep DEF UserSends, RunFlush
    <2>2. ASSUME NEW p \in Peers, SendDone(p) PROVE TimedAt(q)'
      <3>1. CASE Complete(p, sess[p]) /\ St(p) = "established"
        BY <2>0, <2>2, <3>1, CompleteTimer, TimerMovesKeep DEF SendDone, St
      <3>2. CASE UNCHANGED <<sess, timer>>
        BY <2>0, <2>2, <3>2 DEF SendDone, TimedAt, St
      <3> QED
        BY <2>2, <3>1, <3>2 DEF SendDone
    <2>3. ASSUME NEW p \in Peers, PollSucceeds(p) \/ PollGivesUp(p) PROVE TimedAt(q)'
      BY <2>0, <2>3 DEF PollSucceeds, PollGivesUp, TimedAt, St
    <2>4. ASSUME NEW p \in Peers, TimerFires(p) PROVE TimedAt(q)'
      <3>1. CASE Discard(p)
        BY <2>0, <2>4, <3>1, DiscardTimer, TimerMovesKeep DEF TimerFires
      <3>2. CASE /\ ~(sess[p].gen = timer[p] /\ St(p) = "handshaking")
                 /\ timer' = [timer EXCEPT ![p] = 0] /\ UNCHANGED <<gens, sess, pending>>
        <4>1. TimedAt(p) /\ UNCHANGED resetting
          BY <2>4 DEF TimedInv, TimerFires
        <4> QED
          BY <2>0, <3>2, <4>1 DEF TimedAt, St, TableTypes
      <3> QED
        BY <2>4, <3>1, <3>2 DEF TimerFires
    <2>5. ASSUME NEW p \in Peers, Disconnect(p) PROVE TimedAt(q)'
      BY <2>0, <2>5, DiscardTimer, TimerMovesKeep DEF Disconnect
    <2>6. ASSUME NEW p \in Peers, Restart(p) PROVE TimedAt(q)'
      <3>1. TimerMove(q)
        BY <2>0, <2>6, DiscardTimer DEF Restart
      <3>2. resetting'[q] = resetting[q]
        BY <2>0, <2>6 DEF Restart, TimedAt, TypeOK
      <3> QED
        BY <2>0, <3>1, <3>2, TimerMovesKeep
    <2>7. ASSUME NEW p \in Peers, ResetBegins(p) \/ ResetEnds(p) PROVE FALSE
      BY <2>7 DEF ResetBegins, ResetEnds, TimedInv, TimedAt
    <2>8. ASSUME NEW pkt \in net, Deliver(pkt) PROVE TimedAt(q)'
      BY <2>0, <2>8, DeliverTimer, TimerMovesKeep DEF Deliver
    <2>9. CASE Lose \/ UNCHANGED vars
      BY <2>0, <2>9 DEF Lose, vars, local, TimedAt, St
    <2> QED
      BY <2>1, <2>2, <2>3, <2>4, <2>5, <2>6, <2>7, <2>8, <2>9 DEF Next
  <1>3. TimedInv => HandshakesTimed
    BY DEF TimedInv, TimedAt, HandshakesTimed
  <1> QED
    BY <1>1, <1>2, <1>3, TypeCorrect, PTL DEF Spec
-----------------------------------------------------------------------------
\* What a step may do to the session of a peer that mistrusts the other: keep
\* it, leave none established, or establish it on the way to sending msg3.
TrustMove(p) ==
  \/ p \notin Mistrusting
  \/ sess'[p] = sess[p] /\ (sess[p].gen \in replying[p] => sess[p].gen \in replying'[p])
  \/ sess'[p].st # "established"
  \/ sess'[p].gen \in replying'[p]

LEMMA TrustMovesKeep ==
  ASSUME OnlyTrusted, \A p \in Peers : TrustMove(p)
  PROVE  OnlyTrusted'
  BY SessionAssumption DEF OnlyTrusted, TrustMove, St

LEMMA DiscardTrust ==
  ASSUME TableTypes, NEW p \in Peers, NEW q \in Peers, Discard(p),
         q # p => replying'[q] = replying[q]
  PROVE  TrustMove(q)
  BY DEF TableTypes, Discard, TrustMove, NoSession

\* Every way of keeping a session that is not established.
LEMMA KeepTrust ==
  ASSUME TableTypes, NEW p \in Peers, NEW q \in Peers, NEW s,
         s.st # "established" \/ s = sess[p], KeepSession(p, s), UNCHANGED replying
  PROVE  TrustMove(q)
  BY DEF TableTypes, KeepSession, TrustMove

LEMMA CompleteTrust ==
  ASSUME TableTypes, NEW p \in Peers, NEW q \in Peers, NEW s, Complete(p, s),
         q # p => replying'[q] = replying[q]
  PROVE  TrustMove(q)
  <1>1. CASE p \in Mistrusting
    BY <1>1, DiscardTrust DEF Complete
  <1>2. CASE p \notin Mistrusting
    BY <1>2 DEF Complete, KeepSession, TrustMove, TableTypes
  <1> QED
    BY <1>1, <1>2

LEMMA StartTrust ==
  ASSUME TableTypes, NEW p \in Peers, NEW q \in Peers, NEW s \in Sessions, NEW rest,
         StartHandshake(p, s, rest), UNCHANGED replying
  PROVE  TrustMove(q)
  <1> DEFINE started == [s EXCEPT !.st = "handshaking"]
  <1>1. started.st # "established" /\ KeepSession(p, started)
    BY DEF StartHandshake, Sessions
  <1> HIDE DEF started
  <1> QED
    BY <1>1, KeepTrust

LEMMA DirectMessageTrust ==
  ASSUME TypeOK, NEW p \in Peers, NEW q \in Peers, NEW t, DirectMessage(p, t), UNCHANGED replying
  PROVE  TrustMove(q)
  <1> DEFINE s == GotSession(p)
  <1>1. TableTypes /\ s \in Sessions
    BY GotSessionType DEF TypeOK, TableTypes, DirectMessage
  <1>2. CASE UNCHANGED sess
    BY <1>2 DEF TrustMove
  <1>3. CASE StartHandshake(p, s, net)
    BY <1>1, <1>3, StartTrust
  <1>4. CASE s.st = "uninitialized" /\ KeepSession(p, s)
    BY <1>1, <1>4, KeepTrust
  <1> QED
    BY <1>2, <1>3, <1>4 DEF DirectMessage

LEMMA DeliverTrust ==
  ASSUME "sendError" \notin Faults, TypeOK, NEW pkt \in net, NEW q \in Peers, Deliver(pkt)
  PROVE  TrustMove(q)
  <1> DEFINE p == Other(pkt.src)
             s == GotSession(p)
             rest == net \ {pkt}
  <1>1. TableTypes /\ p \in Peers
    <2>1. TableTypes /\ pkt.src \in Peers
      BY DEF TypeOK, TableTypes, Packets
    <2> QED
      BY <2>1 DEF Other, Peers
  <1> HIDE DEF p, rest
  <1>2. CASE UNCHANGED <<sess, replying>>
    BY <1>2 DEF TrustMove
  <1>3. CASE HandleRequest(p, rest)
    <2>1. s \in Sessions
      BY <1>1, <1>3, GotSessionType DEF HandleRequest
    <2>2. UNCHANGED replying
      BY <1>3 DEF HandleRequest
    <2>3. CASE StartHandshake(p, s, rest)
      BY <1>1, <2>1, <2>2, <2>3, StartTrust
    <2>4. CASE KeepSession(p, s)
      <3>1. s.st # "established" \/ s = sess[p]
        BY DEF GotSession
      <3> QED
        BY <1>1, <2>2, <2>4, <3>1, KeepTrust
    <2> QED
      BY <1>3, <2>3, <2>4 DEF HandleRequest
  <1>4. CASE Answer(p, s, pkt, rest)
    BY <1>1, <1>4, KeepTrust DEF Answer
  <1>5. CASE Reply(p, s, pkt, rest)
    <2> DEFINE done == [gen |-> s.gen, st |-> "established", re |-> pkt.eb]
    <2>1. KeepSession(p, done) /\ replying' = [replying EXCEPT ![p] = @ \cup {s.gen}]
      BY <1>5 DEF Reply
    <2>2. q # p => sess'[q] = sess[q] /\ replying'[q] = replying[q]
      BY <1>1, <2>1 DEF KeepSession, TableTypes, TypeOK
    <2>3. sess'[p].gen = s.gen /\ s.gen \in replying'[p]
      BY <1>1, <2>1 DEF KeepSession, TableTypes, TypeOK
    <2> QED
      BY <2>2, <2>3 DEF TrustMove
  <1>6. CASE Accept(p, s, pkt, rest)
    BY <1>1, <1>6, CompleteTrust DEF Accept
  <1>7. CASE Fail(p, s, pkt, rest)
    BY <1>1, <1>7, DiscardTrust DEF Fail
  <1> QED
    BY <1>2, <1>3, <1>4, <1>5, <1>6, <1>7
    DEF Deliver, HandleEncrypted, HandleHandshake, p, rest

\* MistrustEnds: as long as msg3 can be sent, a peer that stored another
\* fingerprint for the other keeps no established session: it has one only
\* between reading msg2 and the return of the send, and discards it then.
THEOREM MistrustEnds == "sendError" \notin Faults => (Spec => []OnlyTrusted)
  <1> SUFFICES ASSUME "sendError" \notin Faults PROVE Spec => []OnlyTrusted
    OBVIOUS
  <1>1. Init => OnlyTrusted
    BY SessionAssumption DEF Init, OnlyTrusted, St, NoSession
  <1>2. TypeOK /\ OnlyTrusted /\ [Next]_vars => OnlyTrusted'
    <2> SUFFICES ASSUME TypeOK, OnlyTrusted, [Next]_vars, NEW q \in Peers PROVE TrustMove(q)
      BY TrustMovesKeep
    <2>0. TableTypes
      BY DEF TypeOK, TableTypes
    <2>1. ASSUME NEW p \in Peers, UserSends(p) \/ RunFlush(p) PROVE TrustMove(q)
      BY <2>1, DirectMessageTrust DEF UserSends, RunFlush
    <2>2. ASSUME NEW p \in Peers, SendDone(p) PROVE TrustMove(q)
      <3>1. PICK g \in replying[p] :
              /\ replying' = [replying EXCEPT ![p] = @ \ {g}]
              /\ IF sess[p].gen = g /\ St(p) = "established"
                 THEN Complete(p, sess[p])
                 ELSE UNCHANGED <<gens, sess, timer, pending, flush>>
        BY <2>2 DEF SendDone
      <3>2. q # p => replying'[q] = replying[q]
        BY <3>1 DEF TypeOK
      <3>3. CASE Complete(p, sess[p])
        BY <2>0, <3>2, <3>3, CompleteTrust
      <3>4. CASE ~(sess[p].gen = g /\ St(p) = "established") /\ UNCHANGED sess
        <4>1. replying'[p] = replying[p] \ {g}
          BY <3>1 DEF TypeOK
        <4>2. CASE sess[p].gen = g
          BY <3>2, <3>4, <4>2 DEF TrustMove, St
        <4>3. CASE sess[p].gen # g
          BY <3>2, <3>4, <4>1, <4>3 DEF TrustMove
        <4> QED
          BY <4>2, <4>3
      <3> QED
        BY <3>1, <3>3, <3>4
    <2>3. ASSUME NEW p \in Peers, PollSucceeds(p) \/ PollGivesUp(p) \/ ResetBegins(p)
          PROVE  TrustMove(q)
      BY <2>3 DEF PollSucceeds, PollGivesUp, ResetBegins, TrustMove
    <2>4. ASSUME NEW p \in Peers, TimerFires(p) PROVE TrustMove(q)
      <3>1. CASE Discard(p)
        BY <2>0, <2>4, <3>1, DiscardTrust DEF TimerFires
      <3>2. CASE UNCHANGED sess
        BY <2>4, <3>2 DEF TimerFires, TrustMove
      <3> QED
        BY <2>4, <3>1, <3>2 DEF TimerFires
    <2>5. ASSUME NEW p \in Peers, Disconnect(p) PROVE TrustMove(q)
      BY <2>0, <2>5, DiscardTrust DEF Disconnect
    <2>6. ASSUME NEW p \in Peers, Restart(p) PROVE TrustMove(q)
      <3>1. q # p => replying'[q] = replying[q]
        BY <2>6 DEF Restart, TypeOK
      <3> QED
        BY <2>0, <2>6, <3>1, DiscardTrust DEF Restart
    <2>7. ASSUME NEW p \in Peers, ResetEnds(p) PROVE TrustMove(q)
      BY <2>0, <2>7 DEF ResetEnds, TrustMove, TableTypes, NoSession
    <2>8. ASSUME NEW pkt \in net, Deliver(pkt) PROVE TrustMove(q)
      BY <2>8, DeliverTrust
    <2>9. CASE Lose \/ UNCHANGED vars
      BY <2>9 DEF Lose, vars, local, TrustMove
    <2> QED
      BY <2>1, <2>2, <2>3, <2>4, <2>5, <2>6, <2>7, <2>8, <2>9 DEF Next
  <1> QED
    BY <1>1, <1>2, TypeCorrect, PTL DEF Spec
-----------------------------------------------------------------------------
(* The conversation implements SecureChannel.  What the texts of p can be    *)
(* found in: its queue, its tasks, encrypted packets, and polling handlers.  *)

Aired(p)  == {x \in net : x.kind = "encrypted" /\ x.src = p}
Polled(p) == waiting[Other(p)]

\* No text is in two of these places, or twice in one.
SentOnce(p) ==
  /\ IsInjective(pending[p]) /\ IsInjective(flush[p])
  /\ ToSet(pending[p]) \cap ToSet(flush[p]) = {}
  /\ \A x \in Aired(p) : x.text \notin ToSet(pending[p]) \cup ToSet(flush[p])
  /\ \A w \in Polled(p) : w.pkt.text \notin ToSet(pending[p]) \cup ToSet(flush[p])
  /\ \A x, y \in Aired(p) : x.text = y.text => x = y
  /\ \A v, w \in Polled(p) : v.pkt.text = w.pkt.text => v = w
  /\ \A x \in Aired(p), w \in Polled(p) : x.text # w.pkt.text
  /\ HeldBy(p) \subseteq 1..said[p]
OnceInv == \A p \in Peers : SentOnce(p)

LEMMA EmptyHolds == ToSet(<<>>) = {} /\ IsInjective(<<>>)
  BY DEF ToSet, IsInjective

LEMMA AppendHolds ==
  ASSUME NEW s \in Seq(Texts), NEW t \in Texts
  PROVE  /\ ToSet(Append(s, t)) = ToSet(s) \cup {t}
         /\ IsInjective(s) /\ t \notin ToSet(s) => IsInjective(Append(s, t))
  <1> DEFINE u == Append(s, t)
  <1>1. /\ DOMAIN s = 1..Len(s) /\ DOMAIN u = 1..(Len(s) + 1) /\ Len(s) \in Nat
        /\ \A i \in 1..Len(s) : u[i] = s[i]
        /\ u[Len(s) + 1] = t
    OBVIOUS
  <1> HIDE DEF u
  <1>2. ToSet(u) = ToSet(s) \cup {t}
    BY <1>1 DEF ToSet
  <1>3. IsInjective(s) /\ t \notin ToSet(s) => IsInjective(u)
    BY <1>1 DEF ToSet, IsInjective
  <1> QED
    BY <1>2, <1>3 DEF u

LEMMA TailHolds ==
  ASSUME NEW s \in Seq(Texts), s # <<>>, IsInjective(s)
  PROVE  /\ Head(s) \in ToSet(s) /\ ToSet(Tail(s)) = ToSet(s) \ {Head(s)}
         /\ IsInjective(Tail(s))
  <1> DEFINE u == Tail(s)
  <1>1. /\ DOMAIN s = 1..Len(s) /\ DOMAIN u = 1..(Len(s) - 1) /\ Len(s) \in Nat \ {0}
        /\ \A i \in 1..(Len(s) - 1) : u[i] = s[i + 1]
        /\ Head(s) = s[1]
    OBVIOUS
  <1> HIDE DEF u
  <1>2. Head(s) \in ToSet(s)
    BY <1>1 DEF ToSet
  <1>3. ASSUME NEW x \in ToSet(u) PROVE x \in ToSet(s) \ {Head(s)}
    BY <1>1, <1>3 DEF ToSet, IsInjective
  <1>4. ASSUME NEW x \in ToSet(s) \ {Head(s)} PROVE x \in ToSet(u)
    <2>1. PICK i \in 1..Len(s) : x = s[i]
      BY <1>1 DEF ToSet
    <2>2. i - 1 \in 1..(Len(s) - 1) /\ x = u[i - 1]
      BY <1>1, <2>1
    <2> QED
      BY <1>1, <2>2 DEF ToSet
  <1>5. IsInjective(u)
    BY <1>1 DEF IsInjective
  <1> QED
    BY <1>2, <1>3, <1>4, <1>5 DEF u

LEMMA ConcatHolds ==
  ASSUME NEW s \in Seq(Texts), NEW u \in Seq(Texts)
  PROVE  /\ ToSet(s \o u) = ToSet(s) \cup ToSet(u)
         /\ IsInjective(s) /\ IsInjective(u) /\ ToSet(s) \cap ToSet(u) = {} => IsInjective(s \o u)
  <1> DEFINE c == s \o u
             m == Len(s)
             n == Len(u)
  <1>1. /\ DOMAIN s = 1..m /\ DOMAIN u = 1..n /\ DOMAIN c = 1..(m + n) /\ m \in Nat /\ n \in Nat
        /\ \A i \in 1..m : c[i] = s[i]
        /\ \A i \in (m + 1)..(m + n) : c[i] = u[i - m]
    OBVIOUS
  <1> HIDE DEF c, m, n
  <1>2. \A i \in 1..n : c[m + i] = u[i] /\ m + i \in 1..(m + n)
    <2> TAKE i \in 1..n
    <2>1. m + i \in (m + 1)..(m + n) /\ (m + i) - m = i
      BY <1>1
    <2> QED
      BY <1>1, <2>1
  <1>3. ToSet(s) \cup ToSet(u) \subseteq ToSet(c)
    BY <1>1, <1>2 DEF ToSet
  <1>4. ASSUME NEW x \in ToSet(c) PROVE x \in ToSet(s) \cup ToSet(u)
    <2>1. PICK i \in 1..(m + n) : x = c[i]
      BY <1>1 DEF ToSet
    <2>2. CASE i <= m
      BY <1>1, <2>1, <2>2 DEF ToSet
    <2>3. CASE i > m
      <3>1. i - m \in 1..n /\ x = u[i - m]
        BY <1>1, <2>1, <2>3
      <3> QED
        BY <1>1, <3>1 DEF ToSet
    <2> QED
      BY <1>1, <2>2, <2>3
  <1>5. ASSUME IsInjective(s), IsInjective(u), ToSet(s) \cap ToSet(u) = {},
               NEW i \in 1..(m + n), NEW j \in 1..(m + n), c[i] = c[j]
        PROVE  i = j
    <2>1. \A k \in 1..m : c[k] \in ToSet(s)
      BY <1>1 DEF ToSet
    <2>2. \A k \in (m + 1)..(m + n) : c[k] \in ToSet(u) /\ k - m \in 1..n
      BY <1>1 DEF ToSet
    <2>3. CASE i <= m /\ j <= m
      BY <1>1, <1>5, <2>3 DEF IsInjective
    <2>4. CASE i > m /\ j > m
      <3>1. i - m \in 1..n /\ j - m \in 1..n /\ u[i - m] = u[j - m]
        BY <1>1, <1>5, <2>2, <2>4
      <3>2. i - m = j - m
        BY <1>1, <1>5, <3>1 DEF IsInjective
      <3> QED
        BY <1>1, <3>2
    <2>5. CASE i <= m /\ j > m
      BY <1>1, <1>5, <2>1, <2>2, <2>5
    <2>6. CASE i > m /\ j <= m
      BY <1>1, <1>5, <2>1, <2>2, <2>6
    <2> QED
      BY <1>1, <2>3, <2>4, <2>5, <2>6
  <1> QED
    BY <1>1, <1>3, <1>4, <1>5 DEF IsInjective, c

\* What a step may do to the texts of p without a user sending or being shown
\* one: lose some, spawn tasks for the queue, let a task queue its text again or
\* encrypt it, let a handler poll with a packet.
Losing(p) ==
  /\ pending'[p] \in {pending[p], <<>>} /\ flush'[p] \in {flush[p], <<>>}
  /\ Aired(p)' \subseteq Aired(p) /\ Polled(p)' \subseteq Polled(p)
Spawning(p) ==
  /\ pending'[p] = <<>> /\ flush'[p] = flush[p] \o pending[p]
  /\ Aired(p)' = Aired(p) /\ Polled(p)' = Polled(p)
\* send_direct_message with text t.
Queued(p, t) == pending'[p] = Append(pending[p], t) /\ Aired(p)' = Aired(p)
Encrypted(p, t) ==
  /\ pending'[p] = pending[p]
  /\ \E x : x.text = t /\ Aired(p)' = Aired(p) \cup {x}
Rerouting(p) ==
  /\ flush[p] # <<>> /\ flush'[p] = Tail(flush[p]) /\ Polled(p)' = Polled(p)
  /\ Queued(p, Head(flush[p])) \/ Encrypted(p, Head(flush[p]))
Polling(p) ==
  /\ pending'[p] = pending[p] /\ flush'[p] = flush[p]
  /\ \E x \in Aired(p) : \E w :
       w.pkt = x /\ Aired(p)' = Aired(p) \ {x} /\ Polled(p)' = Polled(p) \cup {w}
TextMove(p) == Losing(p) \/ Spawning(p) \/ Rerouting(p) \/ Polling(p)

\* A user sends the next text; a text of p is shown to the other user.
Sending(p) ==
  /\ flush'[p] = flush[p] /\ Polled(p)' = Polled(p)
  /\ Queued(p, said[p] + 1) \/ Encrypted(p, said[p] + 1)
Showing(p, t) ==
  /\ pending'[p] = pending[p] /\ flush'[p] = flush[p]
  /\ \/ /\ \E x \in Aired(p) : x.text = t /\ Aired(p)' = Aired(p) \ {x}
        /\ Polled(p)' = Polled(p)
     \/ /\ \E w \in Polled(p) : w.pkt.text = t /\ Polled(p)' = Polled(p) \ {w}
        /\ Aired(p)' = Aired(p)

SameTexts(p) ==
  /\ pending'[p] = pending[p] /\ flush'[p] = flush[p]
  /\ Aired(p)' = Aired(p) /\ Polled(p)' = Polled(p)

\* The texts held for p, place by place.
LEMMA HeldPlaces ==
  ASSUME NEW p
  PROVE  HeldBy(p) = ToSet(pending[p]) \cup ToSet(flush[p])
                     \cup {x.text : x \in Aired(p)} \cup {w.pkt.text : w \in Polled(p)}
  BY DEF HeldBy, Aired, Polled

LEMMA HeldPlacesAfter ==
  ASSUME NEW p \in Peers
  PROVE  HeldBy(p)' = ToSet(pending'[p]) \cup ToSet(flush'[p])
                      \cup {x.text : x \in Aired(p)'} \cup {w.pkt.text : w \in Polled(p)'}
  BY DEF HeldBy, Aired, Polled

QueueTypes == pending \in [Peers -> Seq(Texts)] /\ flush \in [Peers -> Seq(Texts)]

LEMMA LosingKeeps ==
  ASSUME QueueTypes, NEW p \in Peers, SentOnce(p), Losing(p), said'[p] = said[p]
  PROVE  SentOnce(p)' /\ HeldBy(p)' \subseteq HeldBy(p)
  <1>1. /\ ToSet(pending'[p]) \subseteq ToSet(pending[p]) /\ IsInjective(pending'[p])
        /\ ToSet(flush'[p]) \subseteq ToSet(flush[p]) /\ IsInjective(flush'[p])
    BY EmptyHolds DEF Losing, SentOnce
  <1>2. Aired(p)' \subseteq Aired(p) /\ Polled(p)' \subseteq Polled(p)
    BY DEF Losing
  <1>3. HeldBy(p)' \subseteq HeldBy(p)
    BY <1>1, <1>2, HeldPlaces, HeldPlacesAfter
  <1> QED
    BY <1>1, <1>2, <1>3 DEF SentOnce

LEMMA SpawningKeeps ==
  ASSUME QueueTypes, NEW p \in Peers, SentOnce(p), Spawning(p), said'[p] = said[p]
  PROVE  SentOnce(p)' /\ HeldBy(p)' \subseteq HeldBy(p)
  <1>1. /\ ToSet(pending'[p]) = {} /\ IsInjective(pending'[p])
        /\ ToSet(flush'[p]) = ToSet(flush[p]) \cup ToSet(pending[p]) /\ IsInjective(flush'[p])
    BY EmptyHolds, ConcatHolds DEF QueueTypes, Spawning, SentOnce
  <1>2. Aired(p)' = Aired(p) /\ Polled(p)' = Polled(p)
    BY DEF Spawning
  <1>3. HeldBy(p)' \subseteq HeldBy(p)
    BY <1>1, <1>2, HeldPlaces, HeldPlacesAfter
  <1> QED
    BY <1>1, <1>2, <1>3 DEF SentOnce

LEMMA ReroutingKeeps ==
  ASSUME QueueTypes, NEW p \in Peers, SentOnce(p), Rerouting(p), said'[p] = said[p]
  PROVE  SentOnce(p)' /\ HeldBy(p)' \subseteq HeldBy(p)
  <1> DEFINE t == Head(flush[p])
  <1>1. /\ t \in ToSet(flush[p]) /\ t \in Texts
        /\ ToSet(flush'[p]) = ToSet(flush[p]) \ {t} /\ IsInjective(flush'[p])
    BY TailHolds DEF QueueTypes, Rerouting, SentOnce
  <1>2. Polled(p)' = Polled(p)
    BY DEF Rerouting
  <1> HIDE DEF t
  <1>3. CASE Queued(p, t)
    <2>1. /\ ToSet(pending'[p]) = ToSet(pending[p]) \cup {t} /\ IsInjective(pending'[p])
          /\ Aired(p)' = Aired(p)
      BY <1>1, <1>3, AppendHolds DEF QueueTypes, Queued, SentOnce
    <2>2. HeldBy(p)' \subseteq HeldBy(p)
      BY <1>1, <1>2, <2>1, HeldPlaces, HeldPlacesAfter
    <2> QED
      BY <1>1, <1>2, <2>1, <2>2 DEF SentOnce
  <1>4. CASE Encrypted(p, t)
    <2>1. PICK x : x.text = t /\ Aired(p)' = Aired(p) \cup {x}
      BY <1>4 DEF Encrypted
    <2>2. ToSet(pending'[p]) = ToSet(pending[p]) /\ IsInjective(pending'[p])
      BY <1>4 DEF Encrypted, SentOnce
    <2>3. HeldBy(p)' \subseteq HeldBy(p)
      BY <1>1, <1>2, <2>1, <2>2, HeldPlaces, HeldPlacesAfter
    <2> QED
      BY <1>1, <1>2, <2>1, <2>2, <2>3 DEF SentOnce
  <1> QED
    BY <1>3, <1>4 DEF Rerouting, t

LEMMA PollingKeeps ==
  ASSUME NEW p \in Peers, SentOnce(p), Polling(p), said'[p] = said[p]
  PROVE  SentOnce(p)' /\ HeldBy(p)' \subseteq HeldBy(p)
  <1>0. PICK x \in Aired(p) :
          \E w : w.pkt = x /\ Aired(p)' = Aired(p) \ {x} /\ Polled(p)' = Polled(p) \cup {w}
    BY DEF Polling
  <1>1. PICK w : w.pkt = x /\ Aired(p)' = Aired(p) \ {x} /\ Polled(p)' = Polled(p) \cup {w}
    BY <1>0
  <1>2. pending'[p] = pending[p] /\ flush'[p] = flush[p]
    BY DEF Polling
  <1>3. HeldBy(p)' \subseteq HeldBy(p)
    BY <1>1, <1>2, HeldPlaces, HeldPlacesAfter
  <1> QED
    BY <1>1, <1>2, <1>3 DEF SentOnce

LEMMA SendingKeeps ==
  ASSUME QueueTypes, NEW p \in Peers, said[p] \in Nat, said[p] + 1 \in Texts,
         SentOnce(p), Sending(p), said'[p] = said[p] + 1
  PROVE  SentOnce(p)' /\ HeldBy(p)' = HeldBy(p) \cup {said[p] + 1}
  <1> DEFINE t == said[p] + 1
  <1>1. t \notin HeldBy(p) /\ HeldBy(p) \subseteq 1..t /\ t \in 1..t
    BY DEF SentOnce
  <1>2. /\ flush'[p] = flush[p] /\ Polled(p)' = Polled(p) /\ said'[p] = t
        /\ Queued(p, t) \/ Encrypted(p, t)
    BY DEF Sending
  <1>3. t \in Texts
    OBVIOUS
  <1> HIDE DEF t
  <1>4. CASE Queued(p, t)
    <2>1. /\ ToSet(pending'[p]) = ToSet(pending[p]) \cup {t} /\ IsInjective(pending'[p])
          /\ Aired(p)' = Aired(p)
      BY <1>1, <1>3, <1>4, AppendHolds, HeldPlaces DEF QueueTypes, Queued, SentOnce
    <2>2. HeldBy(p)' = HeldBy(p) \cup {t}
      BY <1>2, <2>1, HeldPlaces, HeldPlacesAfter
    <2> QED
      BY <1>1, <1>2, <2>1, <2>2, HeldPlaces DEF SentOnce, t
  <1>5. CASE Encrypted(p, t)
    <2>1. PICK x : x.text = t /\ Aired(p)' = Aired(p) \cup {x}
      BY <1>5 DEF Encrypted
    <2>2. pending'[p] = pending[p]
      BY <1>5 DEF Encrypted
    <2>3. HeldBy(p)' = HeldBy(p) \cup {t}
      BY <1>2, <2>1, <2>2, HeldPlaces, HeldPlacesAfter
    <2> QED
      BY <1>1, <1>2, <2>1, <2>2, <2>3, HeldPlaces DEF SentOnce, t
  <1> QED
    BY <1>2, <1>4, <1>5

LEMMA ShowingKeeps ==
  ASSUME NEW p \in Peers, NEW t, SentOnce(p), Showing(p, t), said'[p] = said[p]
  PROVE  SentOnce(p)' /\ t \in HeldBy(p) /\ HeldBy(p)' = HeldBy(p) \ {t}
  <1>1. pending'[p] = pending[p] /\ flush'[p] = flush[p]
    BY DEF Showing
  <1>2. ASSUME NEW x \in Aired(p), x.text = t, Aired(p)' = Aired(p) \ {x}, Polled(p)' = Polled(p)
        PROVE  SentOnce(p)' /\ t \in HeldBy(p) /\ HeldBy(p)' = HeldBy(p) \ {t}
    <2>1. t \in HeldBy(p) /\ HeldBy(p)' = HeldBy(p) \ {t}
      BY <1>1, <1>2, HeldPlaces, HeldPlacesAfter DEF SentOnce
    <2> QED
      BY <1>1, <1>2, <2>1 DEF SentOnce
  <1>3. ASSUME NEW w \in Polled(p), w.pkt.text = t, Polled(p)' = Polled(p) \ {w}, Aired(p)' = Aired(p)
        PROVE  SentOnce(p)' /\ t \in HeldBy(p) /\ HeldBy(p)' = HeldBy(p) \ {t}
    <2>1. t \in HeldBy(p) /\ HeldBy(p)' = HeldBy(p) \ {t}
      BY <1>1, <1>3, HeldPlaces, HeldPlacesAfter DEF SentOnce
    <2> QED
      BY <1>1, <1>3, <2>1 DEF SentOnce
  <1> QED
    BY <1>2, <1>3 DEF Showing

LEMMA TextMovesKeep ==
  ASSUME QueueTypes, NEW p \in Peers, SentOnce(p), TextMove(p), said'[p] = said[p]
  PROVE  SentOnce(p)' /\ HeldBy(p)' \subseteq HeldBy(p)
  BY LosingKeeps, SpawningKeeps, ReroutingKeeps, PollingKeeps DEF TextMove

LEMMA DirectMessageTexts ==
  ASSUME TypeOK, NEW p \in Peers, NEW q \in Peers, NEW t, DirectMessage(p, t)
  PROVE  /\ q = p => Queued(p, t) \/ Encrypted(p, t)
         /\ q # p => pending'[q] = pending[q] /\ Aired(q)' = Aired(q)
  <1> DEFINE s == GotSession(p)
             x == Packet("encrypted", p, TranscriptOf(p, s), t)
  <1>0. pending \in [Peers -> Seq(Texts)]
    BY DEF TypeOK
  <1>1. CASE s.st = "established"
    <2>1. net' = net \cup {x} /\ UNCHANGED pending
      BY <1>1 DEF DirectMessage
    <2>2. x.text = t /\ x.kind = "encrypted" /\ x.src = p
      BY DEF Packet
    <2> HIDE DEF x
    <2>3. q = p => Aired(p)' = Aired(p) \cup {x}
      BY <2>1, <2>2 DEF Aired
    <2>4. q # p => Aired(q)' = Aired(q)
      BY <2>1, <2>2 DEF Aired
    <2> QED
      BY <2>1, <2>2, <2>3, <2>4 DEF Encrypted
  <1>2. CASE s.st # "established"
    <2>1. pending' = [pending EXCEPT ![p] = Append(@, t)]
      BY <1>2 DEF DirectMessage
    <2>2. \E y : y.kind # "encrypted" /\ net' \in {net, net \cup {y}}
      <3>1. CASE StartHandshake(p, s, net)
        <4> DEFINE y == Packet("msg1", p, TranscriptOf(p, [s EXCEPT !.st = "handshaking"]), 0)
        <4>1. net' = net \cup {y} /\ y.kind # "encrypted"
          BY <3>1 DEF StartHandshake, Packet
        <4> QED
          BY <4>1
      <3>2. CASE net' = net \cup {Packet("request", p, NoKeys, t)}
        <4>1. Packet("request", p, NoKeys, t).kind # "encrypted"
          BY DEF Packet
        <4> QED
          BY <3>2, <4>1
      <3>3. CASE net' = net
        <4>1. Packet("request", p, NoKeys, t).kind # "encrypted"
          BY DEF Packet
        <4> QED
          BY <3>3, <4>1
      <3> QED
        BY <1>2, <3>1, <3>2, <3>3 DEF DirectMessage
    <2>3. Aired(q)' = Aired(q)
      BY <2>2 DEF Aired
    <2> QED
      BY <1>0, <2>1, <2>3 DEF Queued
  <1> QED
    BY <1>1, <1>2

LEMMA DiscardTexts ==
  ASSUME TypeOK, NEW p \in Peers, NEW q \in Peers, Discard(p)
  PROVE  pending'[q] \in {pending[q], <<>>}
  BY DEF TypeOK, Discard

\* A handshake that completes hands its queue to tasks, or drops it.
LEMMA CompleteTexts ==
  ASSUME TypeOK, NEW p \in Peers, NEW q \in Peers, NEW s, Complete(p, s),
         Aired(q)' = Aired(q), Polled(q)' = Polled(q)
  PROVE  TextMove(q)
  <1>1. CASE p \in Mistrusting
    BY <1>1, DiscardTexts DEF Complete, TextMove, Losing
  <1>2. CASE p \notin Mistrusting
    <2>1. CASE q = p
      <3>1. pending'[p] = <<>> /\ flush'[p] = flush[p] \o pending[p]
        BY <1>2 DEF Complete, TypeOK
      <3> QED
        BY <2>1, <3>1 DEF TextMove, Spawning
    <2>2. CASE q # p
      <3>1. pending'[q] = pending[q] /\ flush'[q] = flush[q]
        BY <1>2, <2>2 DEF Complete, TypeOK
      <3> QED
        BY <3>1 DEF TextMove, Losing
    <2> QED
      BY <2>1, <2>2
  <1> QED
    BY <1>1, <1>2

\* The handler of a packet, to which pkt.src sent what it carries.
LEMMA DeliverTexts ==
  ASSUME TypeOK, NEW pkt \in net, Deliver(pkt)
  PROVE  \/ UNCHANGED got /\ \A q \in Peers : TextMove(q)
         \/ /\ got' = [got EXCEPT ![Other(pkt.src)] = Append(@, pkt.text)]
            /\ Showing(pkt.src, pkt.text)
            /\ \A q \in Peers \ {pkt.src} : SameTexts(q)
  <1> DEFINE p == Other(pkt.src)
             s == GotSession(p)
             rest == net \ {pkt}
  <1>1. pkt.src \in Peers /\ p \in Peers /\ Other(p) = pkt.src /\ p # pkt.src
    <2>1. pkt.src \in Peers
      BY DEF TypeOK, Packets
    <2> QED
      BY <2>1 DEF Other, Peers
  <1> HIDE DEF p
  <1>2. CASE pkt.kind = "request" /\ HandleRequest(p, rest)
    <2>1. \A q \in Peers : Aired(q)' = Aired(q)
      <3>1. CASE net' = rest
        BY <1>2, <3>1 DEF Aired
      <3>2. CASE StartHandshake(p, s, rest)
        <4> DEFINE y == Packet("msg1", p, TranscriptOf(p, [s EXCEPT !.st = "handshaking"]), 0)
        <4>1. net' = rest \cup {y} /\ y.kind # "encrypted"
          BY <3>2 DEF StartHandshake, Packet
        <4> HIDE DEF y
        <4> QED
          BY <1>2, <4>1 DEF Aired
      <3> QED
        BY <1>2, <3>1, <3>2 DEF HandleRequest
    <2> QED
      BY <1>2, <2>1 DEF HandleRequest, TextMove, Losing, Polled
  <1>3. CASE pkt.kind = "encrypted" /\ HandleEncrypted(p, pkt, rest)
    <2>1. /\ Aired(pkt.src)' = Aired(pkt.src) \ {pkt} /\ pkt \in Aired(pkt.src)
          /\ \A q \in Peers \ {pkt.src} : Aired(q)' = Aired(q)
          /\ UNCHANGED <<pending, flush>>
      BY <1>3 DEF HandleEncrypted, Aired
    <2>2. CASE UNCHANGED <<waiting, got>>
      BY <2>1, <2>2 DEF TextMove, Losing, Polled
    <2>3. CASE UNCHANGED waiting /\ got' = [got EXCEPT ![p] = Append(@, pkt.text)]
      <3>1. Showing(pkt.src, pkt.text)
        BY <2>1, <2>3 DEF Showing, Polled
      <3>2. \A q \in Peers \ {pkt.src} : SameTexts(q)
        BY <2>1, <2>3 DEF SameTexts, Polled
      <3> QED
        BY <2>3, <3>1, <3>2 DEF p
    <2>4. CASE /\ waiting' = [waiting EXCEPT ![p] = @ \cup {[gen |-> sess[p].gen, pkt |-> pkt]}]
               /\ UNCHANGED got
      <3> DEFINE w == [gen |-> sess[p].gen, pkt |-> pkt]
      <3>1. Polled(pkt.src)' = Polled(pkt.src) \cup {w} /\ w.pkt = pkt
        BY <1>1, <2>4 DEF Polled, TypeOK, p
      <3>2. \A q \in Peers \ {pkt.src} : Polled(q)' = Polled(q)
        BY <1>1, <2>4 DEF Polled, TypeOK, Other, Peers
      <3>3. Polling(pkt.src)
        BY <2>1, <3>1 DEF Polling
      <3> QED
        BY <2>1, <2>4, <3>2, <3>3 DEF TextMove, Losing
    <2> QED
      BY <1>3, <2>2, <2>3, <2>4 DEF HandleEncrypted, ShowIfDecrypts
  <1>4. CASE pkt.kind \notin {"request", "encrypted"} /\ HandleHandshake(p, pkt, rest)
    <2>0. UNCHANGED <<got, waiting>> /\ \A q \in Peers : Polled(q)' = Polled(q)
      BY <1>4 DEF HandleHandshake, Polled
    <2>1. \A q \in Peers : Aired(q)' = Aired(q)
      <3>1. CASE net' = rest
        BY <1>4, <3>1 DEF Aired
      <3>2. CASE \E y : y.kind # "encrypted" /\ net' = rest \cup {y}
        BY <1>4, <3>2 DEF Aired
      <3>3. CASE Answer(p, s, pkt, rest)
        <4> DEFINE y == Packet("msg2", p, TranscriptOf(p, [gen |-> s.gen, st |-> "handshaking", re |-> KeyRead(pkt)]), 0)
        <4>1. net' = rest \cup {y} /\ y.kind # "encrypted"
          BY <3>3 DEF Answer, Packet
        <4> QED
          BY <3>2, <4>1
      <3>4. CASE Reply(p, s, pkt, rest)
        <4> DEFINE y == Packet("msg3", p, TranscriptOf(p, [gen |-> s.gen, st |-> "established", re |-> pkt.eb]), 0)
        <4>1. net' = rest \/ (net' = rest \cup {y} /\ y.kind # "encrypted")
          BY <3>4 DEF Reply, Packet
        <4> QED
          BY <3>1, <3>2, <4>1
      <3> QED
        BY <1>4, <3>1, <3>3, <3>4 DEF HandleHandshake, Accept, Fail
    <2>2. CASE UNCHANGED <<pending, flush>>
      BY <2>0, <2>1, <2>2 DEF TextMove, Losing
    <2>3. CASE Accept(p, s, pkt, rest)
      BY <1>1, <2>0, <2>1, <2>3, CompleteTexts DEF Accept
    <2>4. CASE Fail(p, s, pkt, rest)
      BY <1>1, <2>0, <2>1, <2>4, DiscardTexts DEF Fail, TextMove, Losing
    <2> QED
      BY <1>4, <2>2, <2>3, <2>4 DEF HandleHandshake, Answer, Reply
  <1> QED
    BY <1>2, <1>3, <1>4 DEF Deliver, p

\* Every step is one of the channel, and keeps each text in one place.
LEMMA ChannelStep ==
  ASSUME TypeOK, OnceInv, [Next]_vars
  PROVE  /\ OnceInv'
         /\ [Channel!Next]_<<said, [p \in Peers |-> HeldBy(p)], got>>
  <1>0. QueueTypes /\ \A p \in Peers : SentOnce(p) /\ Other(p) \in Peers /\ Other(Other(p)) = p /\ Other(p) # p
    BY DEF TypeOK, QueueTypes, OnceInv, Other, Peers
  <1> DEFINE H == [p \in Peers |-> HeldBy(p)]
             Done == OnceInv' /\ Channel!Next
  <1>1. ASSUME UNCHANGED <<said, got>>, \A p \in Peers : TextMove(p)
        PROVE  Done
    <2>1. \A p \in Peers : SentOnce(p)' /\ HeldBy(p)' \subseteq HeldBy(p)
      BY <1>0, <1>1, TextMovesKeep
    <2>2. Channel!Lose
      BY <1>1, <2>1 DEF Channel!Lose, Channel!Ends, Peers
    <2> QED
      BY <2>1, <2>2 DEF OnceInv, Channel!Next
  <1>2. ASSUME NEW p \in Peers, NEW t, UNCHANGED said, Showing(p, t), TextMove(Other(p)),
               got' = [got EXCEPT ![Other(p)] = Append(@, t)],
               HeldBy(Other(p))' = HeldBy(Other(p))
        PROVE  Done
    <2>1. SentOnce(p)' /\ t \in HeldBy(p) /\ HeldBy(p)' = HeldBy(p) \ {t}
      BY <1>0, <1>2, ShowingKeeps
    <2>2. SentOnce(Other(p))'
      BY <1>0, <1>2, TextMovesKeep
    <2>3. OnceInv'
      BY <1>0, <2>1, <2>2 DEF OnceInv, Other, Peers
    <2>4. H' = [H EXCEPT ![p] = @ \ {t}]
      <3>1. \A q \in Peers : q # p => q = Other(p)
        BY DEF Other, Peers
      <3>2. \A q \in Peers : q # p => HeldBy(q)' = HeldBy(q)
        BY <1>2, <3>1
      <3> QED
        BY <2>1, <3>2
    <2>5. Channel!Peer(Other(p)) = p /\ Other(p) \in Channel!Ends
      BY <1>0 DEF Channel!Peer, Channel!Ends, Other, Peers
    <2>6. Channel!Deliver(Other(p), t)
      BY <1>2, <2>1, <2>4, <2>5 DEF Channel!Deliver
    <2>7. t \in H[Channel!Peer(Other(p))]
      BY <2>1, <2>5
    <2> QED
      BY <2>3, <2>5, <2>6, <2>7 DEF Channel!Next
  <1>3. ASSUME NEW p \in Peers, UserSends(p) PROVE Done
    <2>1. \A q \in Peers : /\ q = p => Sending(p)
                           /\ q # p => Losing(q) /\ pending'[q] = pending[q] /\ flush'[q] = flush[q]
                                       /\ Aired(q)' = Aired(q) /\ Polled(q)' = Polled(q)
      BY <1>3, DirectMessageTexts DEF UserSends, Sending, Losing, Polled
    <2>2. /\ said \in [Peers -> 0..MaxTexts] /\ said' = [said EXCEPT ![p] = @ + 1]
          /\ said[p] < MaxTexts /\ UNCHANGED got
      BY <1>3 DEF TypeOK, UserSends
    <2>3. said[p] \in Nat /\ said[p] + 1 \in Texts /\ said'[p] = said[p] + 1
      BY <2>2, SessionAssumption DEF Texts
    <2>4. SentOnce(p)' /\ HeldBy(p)' = HeldBy(p) \cup {said[p] + 1}
      BY <1>0, <2>1, <2>3, SendingKeeps
    <2>5. \A q \in Peers : q # p => said'[q] = said[q] /\ HeldBy(q)' = HeldBy(q)
      BY <2>1, <2>2, HeldPlaces, HeldPlacesAfter
    <2>6. \A q \in Peers : SentOnce(q)'
      BY <1>0, <2>1, <2>4, <2>5, LosingKeeps
    <2>7. H' = [H EXCEPT ![p] = @ \cup {said[p] + 1}]
      BY <2>4, <2>5
    <2>8. Channel!Send(p) /\ p \in Channel!Ends
      BY <2>2, <2>7 DEF Channel!Send, Channel!Ends, Peers
    <2> QED
      BY <2>6, <2>8 DEF OnceInv, Channel!Next
  <1>4. ASSUME NEW p \in Peers, RunFlush(p) PROVE Done
    <2>1. \A q \in Peers : TextMove(q)
      <3> TAKE q \in Peers
      <3>1. /\ flush[p] # <<>> /\ flush' = [flush EXCEPT ![p] = Tail(@)] /\ Polled(q)' = Polled(q)
            /\ DirectMessage(p, Head(flush[p]))
        BY <1>4 DEF RunFlush, Polled
      <3>2. CASE q = p
        BY <3>1, <3>2, DirectMessageTexts DEF TextMove, Rerouting, TypeOK
      <3>3. CASE q # p
        <4>1. pending'[q] = pending[q] /\ Aired(q)' = Aired(q) /\ flush'[q] = flush[q]
          BY <3>1, <3>3, DirectMessageTexts DEF TypeOK
        <4> QED
          BY <3>1, <4>1 DEF TextMove, Losing
      <3> QED
        BY <3>2, <3>3
    <2> QED
      BY <1>1, <1>4, <2>1 DEF RunFlush
  <1>5. ASSUME NEW p \in Peers, SendDone(p) PROVE Done
    <2>1. \A q \in Peers : Aired(q)' = Aired(q) /\ Polled(q)' = Polled(q)
      BY <1>5 DEF SendDone, Aired, Polled
    <2>2. CASE Complete(p, sess[p])
      BY <1>1, <1>5, <2>1, <2>2, CompleteTexts DEF SendDone
    <2>3. CASE UNCHANGED <<pending, flush>>
      BY <1>1, <1>5, <2>1, <2>3 DEF SendDone, TextMove, Losing
    <2> QED
      BY <1>5, <2>2, <2>3 DEF SendDone
  <1>6. ASSUME NEW p \in Peers, PollSucceeds(p) \/ PollGivesUp(p) PROVE Done
    <2>1. PICK w \in waiting[p] :
            /\ waiting' = [waiting EXCEPT ![p] = @ \ {w}]
            /\ UNCHANGED got \/ got' = [got EXCEPT ![p] = Append(@, w.pkt.text)]
      BY <1>6 DEF PollSucceeds, PollGivesUp, ShowIfDecrypts
    <2>2. UNCHANGED <<pending, flush, net, said>> /\ \A q \in Peers : Aired(q)' = Aired(q)
      BY <1>6 DEF PollSucceeds, PollGivesUp, Aired
    <2>3. /\ w \in Polled(Other(p)) /\ Polled(Other(p))' = Polled(Other(p)) \ {w}
          /\ Polled(p)' = Polled(p)
      BY <1>0, <2>1 DEF TypeOK, Polled
    <2>4. TextMove(p) /\ TextMove(Other(p))
      BY <1>0, <2>2, <2>3 DEF TextMove, Losing
    <2>5. CASE UNCHANGED got
      <3>1. \A q \in Peers : TextMove(q)
        BY <2>4 DEF Other, Peers
      <3> QED
        BY <1>1, <2>2, <2>5, <3>1
    <2>6. CASE got' = [got EXCEPT ![p] = Append(@, w.pkt.text)]
      <3>1. Showing(Other(p), w.pkt.text)
        BY <1>0, <2>2, <2>3 DEF Showing
      <3>2. HeldBy(p)' = HeldBy(p)
        BY <2>2, <2>3, HeldPlaces, HeldPlacesAfter
      <3> QED
        BY <1>0, <1>2, <2>2, <2>4, <2>6, <3>1, <3>2
    <2> QED
      BY <2>1, <2>5, <2>6
  <1>7. ASSUME NEW p \in Peers, TimerFires(p) \/ Disconnect(p) \/ Restart(p)
                                \/ ResetBegins(p) \/ ResetEnds(p)
        PROVE  Done
    <2>1. /\ UNCHANGED <<net, said, got>>
          /\ \A q \in Peers : pending'[q] \in {pending[q], <<>>}
      BY <1>7, DiscardTexts DEF TimerFires, Disconnect, Restart, ResetBegins, ResetEnds, TypeOK
    <2>2. \A q \in Peers : flush'[q] \in {flush[q], <<>>} /\ waiting'[q] \subseteq waiting[q]
      BY <1>7 DEF TimerFires, Disconnect, Restart, ResetBegins, ResetEnds, TypeOK
    <2>3. \A q \in Peers : TextMove(q)
      BY <1>0, <2>1, <2>2 DEF TextMove, Losing, Aired, Polled
    <2> QED
      BY <1>1, <2>1, <2>3
  <1>8. ASSUME NEW pkt \in net, Deliver(pkt) PROVE Done
    <2>1. UNCHANGED said /\ pkt.src \in Peers
      BY <1>8 DEF Deliver, TypeOK, Packets
    <2>2. CASE UNCHANGED got /\ \A q \in Peers : TextMove(q)
      BY <1>1, <2>1, <2>2
    <2>3. CASE /\ got' = [got EXCEPT ![Other(pkt.src)] = Append(@, pkt.text)]
               /\ Showing(pkt.src, pkt.text)
               /\ \A q \in Peers \ {pkt.src} : SameTexts(q)
      <3>1. SameTexts(Other(pkt.src))
        BY <1>0, <2>1, <2>3
      <3>2. HeldBy(Other(pkt.src))' = HeldBy(Other(pkt.src)) /\ TextMove(Other(pkt.src))
        BY <1>0, <2>1, <3>1, HeldPlaces, HeldPlacesAfter DEF SameTexts, TextMove, Losing
      <3> QED
        BY <1>2, <2>1, <2>3, <3>2
    <2> QED
      BY <1>8, <2>2, <2>3, DeliverTexts
  <1>9. CASE Lose
    <2>1. \A q \in Peers : TextMove(q)
      BY <1>9 DEF Lose, local, TextMove, Losing, Aired, Polled
    <2> QED
      BY <1>1, <1>9, <2>1 DEF Lose
  <1>10. CASE UNCHANGED vars
    <2>1. UNCHANGED <<said, got>> /\ \A q \in Peers : TextMove(q)
      BY <1>10 DEF vars, local, TextMove, Losing, Aired, Polled
    <2> QED
      BY <1>1, <2>1
  <1> QED
    BY <1>3, <1>4, <1>5, <1>6, <1>7, <1>8, <1>9, <1>10 DEF Next

\* ImplementsChannel: two coordinators and the network between them implement the
\* channel that shows each text at most once and nothing that was not sent, for
\* any loss, reordering, timeout, restart and reset.
THEOREM ImplementsChannel == Spec => ChannelSpec
  <1>1. Init => OnceInv /\ Channel!Init
    <2> SUFFICES ASSUME Init PROVE OnceInv /\ Channel!Init
      OBVIOUS
    <2>1. \A p \in Peers : Aired(p) = {} /\ Polled(p) = {} /\ pending[p] = <<>> /\ flush[p] = <<>>
      BY DEF Init, Aired, Polled, Other, Peers
    <2>2. \A p \in Peers : HeldBy(p) = {}
      BY <2>1, EmptyHolds, HeldPlaces
    <2>3. OnceInv
      BY <2>1, <2>2, EmptyHolds DEF OnceInv, SentOnce
    <2>4. Channel!Init
      BY <2>2 DEF Init, Channel!Init, Channel!Ends, Peers
    <2> QED
      BY <2>3, <2>4
  <1>2. TypeOK /\ OnceInv /\ [Next]_vars
          => OnceInv' /\ [Channel!Next]_<<said, [p \in Peers |-> HeldBy(p)], got>>
    BY ChannelStep
  <1> QED
    BY <1>1, <1>2, TypeCorrect, PTL DEF Spec, ChannelSpec, Channel!Spec
=============================================================================
