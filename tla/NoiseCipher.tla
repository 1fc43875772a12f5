----------------------------- MODULE NoiseCipher -----------------------------
(***************************************************************************)
(* One direction of a Noise channel: the NoiseCipherState that encrypts at *)
(* one peer and the one that decrypts at the other (crypto/noise.py), with *)
(* a mesh between them that loses, repeats, delays, reorders and damages   *)
(* frames.  A relayed mesh floods copies along several paths, so all of    *)
(* these happen without anybody's help.                                    *)
(*                                                                         *)
(* A ciphertext is its key and the 64-bit counter it was sealed with; the  *)
(* wire carries the counter's low bytes in front of it.  ChaCha20-Poly1305 *)
(* is external: it opens a ciphertext under its own key and counter only.  *)
(* Keys are numbered in the order the handshakes produce them, and the two *)
(* peers finish a handshake at different moments.                          *)
(***************************************************************************)
EXTENDS Naturals, FiniteSets

CONSTANTS
  Window,             \* NOISE_REPLAY_WINDOW_SIZE, 1024
  WireSize,           \* values of the 4-byte wire prefix, 2^32
  MaxCounter,         \* bound: frames sealed under one key
  MaxKey              \* bound: keys the handshakes produce

ASSUME CipherAssumption ==
  /\ Window \in Nat \ {0}
  /\ WireSize \in Nat \ {0}
  /\ MaxCounter \in Nat
  /\ MaxKey \in Nat

VARIABLES
  useExtractedNonce,   \* the mode of both: TRUE transport, FALSE handshake
  sendKey, sendNonce,                          \* sender's _key, _nonce
  recvKey, recvNonce, replayWindow, highest,   \* receiver's _key, _nonce, ...
  network,     \* every frame ever sent: any of them may arrive, at any time
  timesRead,   \* how often decrypt returned each frame's plaintext
  outcome      \* how the last decrypt ended

sender   == <<useExtractedNonce, sendKey, sendNonce>>
receiver == <<recvKey, recvNonce, replayWindow, highest>>
vars     == <<sender, receiver, network, timesRead, outcome>>

NoKey  == 0
Frames == [key : 1..MaxKey, counter : 0..(MaxCounter - 1)]
Outcomes == {"none", "discard", "replay", "auth", "delivered"}

\* A prefix as it arrives: any value, or Short when fewer than 4 bytes do.
Short    == WireSize
NoncePrefixes == 0..WireSize

TypeOK ==
  /\ useExtractedNonce \in BOOLEAN
  /\ sendKey \in 0..MaxKey /\ sendNonce \in 0..MaxCounter
  /\ recvKey \in 0..MaxKey /\ recvNonce \in 0..MaxCounter
  /\ replayWindow \subseteq 0..(WireSize - 1) /\ highest \in 0..(WireSize - 1)
  /\ network \subseteq Frames
  /\ timesRead \in [Frames -> Nat]
  /\ outcome \in Outcomes

Init ==
  /\ useExtractedNonce \in BOOLEAN
  /\ sendKey = NoKey /\ sendNonce = 0
  /\ recvKey = NoKey /\ recvNonce = 0 /\ replayWindow = {} /\ highest = 0
  /\ network = {}
  /\ timesRead = [f \in Frames |-> 0]
  /\ outcome = "none"

-----------------------------------------------------------------------------
\* The counter's low 4 bytes (_counter_to_wire_bytes).
WireNonce(counter) == counter % WireSize

\* Is the counter neither too old nor already seen?  (_is_valid_nonce)
IsValidNonceAnyGap(n) == n > highest \/ n \notin replayWindow
IsValidNonceOffByOne(n) ==
  /\ n + Window >= highest
  /\ n > highest \/ n \notin replayWindow
IsValidNonce(n) ==
  /\ n + Window > highest
  /\ n > highest \/ n \notin replayWindow

\* Slide the window up to a newer counter, then remember it (_mark_nonce_seen).
MarkWithoutPruning(n) ==
  /\ highest' = IF n > highest THEN n ELSE highest
  /\ replayWindow' = replayWindow \cup {n}
MarkNonceSeen(n) ==
  /\ highest' = IF n > highest THEN n ELSE highest
  /\ replayWindow' =
       {n} \cup (IF n > highest
                 THEN IF n - highest >= Window
                      THEN {}
                      ELSE {m \in replayWindow : m + Window > n}
                 ELSE replayWindow)

\* AEAD: the right key, the nonce it was sealed with, and no damaged byte.
Opens(f, counter, intact) == intact /\ f.key = recvKey /\ f.counter = counter

-----------------------------------------------------------------------------
\* A finished handshake gives the sender a new cipher state (split).
RekeySender ==
  /\ sendKey < MaxKey
  /\ sendKey' = sendKey + 1
  /\ sendNonce' = 0
  /\ UNCHANGED <<useExtractedNonce, receiver, network, timesRead, outcome>>

\* The same at the receiver, earlier or later.
RekeyReceiver ==
  /\ recvKey < MaxKey
  /\ recvKey' = recvKey + 1
  /\ recvNonce' = 0
  /\ replayWindow' = {}
  /\ highest' = 0
  /\ outcome' = "none"
  /\ UNCHANGED <<sender, network, timesRead>>

\* encrypt: seal under the current counter, then advance it.
Encrypt ==
  /\ sendKey # NoKey
  /\ sendNonce < MaxCounter
  /\ network' = network \cup {[key |-> sendKey, counter |-> sendNonce]}
  /\ sendNonce' = sendNonce + 1
  /\ UNCHANGED <<useExtractedNonce, sendKey, receiver, timesRead, outcome>>

-----------------------------------------------------------------------------
\* The nonce decrypt opens the frame with: the wire's, or its own counter.
OpeningNonce(prefix) == IF useExtractedNonce THEN prefix ELSE recvNonce

\* decrypt's early exits leave the cipher state alone.
Refuse(why) ==
  /\ outcome' = why
  /\ UNCHANGED <<sender, receiver, network, timesRead>>

UnreadableNoKey(prefix) == recvKey = NoKey
Unreadable(prefix) == recvKey = NoKey \/ (useExtractedNonce /\ prefix = Short)
Replayed(prefix)   == useExtractedNonce /\ ~IsValidNonce(prefix)

\* NoiseStateError without a key, InvalidNonceError without a whole prefix.
DecryptDiscard(prefix) == Unreadable(prefix) /\ Refuse("discard")

\* ReplayError, before any cryptography.
DecryptReplay(prefix) ==
  ~Unreadable(prefix) /\ Replayed(prefix) /\ Refuse("replay")

\* DecryptionError: the frame does not open; its counter is not remembered.
DecryptForgedMarks(f, prefix, intact) ==
  /\ ~Unreadable(prefix) /\ ~Replayed(prefix)
  /\ ~Opens(f, OpeningNonce(prefix), intact)
  /\ outcome' = "auth"
  /\ IF useExtractedNonce THEN MarkNonceSeen(prefix) ELSE UNCHANGED <<replayWindow, highest>>
  /\ UNCHANGED <<sender, recvKey, recvNonce, network, timesRead>>
DecryptForged(f, prefix, intact) ==
  /\ ~Unreadable(prefix) /\ ~Replayed(prefix)
  /\ ~Opens(f, OpeningNonce(prefix), intact)
  /\ Refuse("auth")

\* Success: remember the wire counter, or advance the internal one.
DecryptStuckCounter(f, prefix, intact) ==
  /\ ~Unreadable(prefix) /\ ~Replayed(prefix)
  /\ Opens(f, OpeningNonce(prefix), intact)
  /\ IF useExtractedNonce THEN MarkNonceSeen(prefix) ELSE UNCHANGED <<replayWindow, highest>>
  /\ timesRead' = [timesRead EXCEPT ![f] = @ + 1]
  /\ outcome' = "delivered"
  /\ UNCHANGED <<sender, recvKey, recvNonce, network>>
DecryptDeliver(f, prefix, intact) ==
  /\ ~Unreadable(prefix) /\ ~Replayed(prefix)
  /\ Opens(f, OpeningNonce(prefix), intact)
  /\ IF useExtractedNonce
     THEN MarkNonceSeen(prefix) /\ UNCHANGED recvNonce
     ELSE recvNonce' = recvNonce + 1 /\ UNCHANGED <<replayWindow, highest>>
  /\ timesRead' = [timesRead EXCEPT ![f] = @ + 1]
  /\ outcome' = "delivered"
  /\ UNCHANGED <<sender, recvKey, network>>

\* What the mesh may hand over of a sent frame: its own prefix and bytes, or
\* a copy with the prefix, the ciphertext or both damaged.
Decrypt(f) ==
  \E prefix \in NoncePrefixes, intact \in BOOLEAN :
    \/ DecryptDiscard(prefix)
    \/ DecryptReplay(prefix)
    \/ DecryptForged(f, prefix, intact)
    \/ DecryptDeliver(f, prefix, intact)

Next ==
  \/ RekeySender
  \/ RekeyReceiver
  \/ Encrypt
  \/ \E f \in network : Decrypt(f)

Spec == Init /\ [][Next]_vars

-----------------------------------------------------------------------------
\* The counters of the current key whose frames were read.
ReadNow == {f.counter : f \in {g \in Frames : g.key = recvKey /\ timesRead[g] > 0}}

\* NoReplay: decrypt returns the plaintext of a frame at most once, however
\* often, late or out of order the mesh repeats it, across rekeys, and even
\* when the sender's counter has outgrown the wire prefix.
NoReplay == \A f \in Frames : timesRead[f] <= 1

\* WindowBounded: the replay window never holds more than Window counters
\* (docs/security/NOISE.md:161), whatever the gaps between arrivals.
WindowBounded == Cardinality(replayWindow) <= Window

\* FreshAccepted: no history of damaged, repeated or overtaking frames makes
\* decrypt refuse an undamaged frame of the current key that it has not read
\* and that no read frame is Window ahead of, while counters fit the prefix.
FreshAccepted ==
  useExtractedNonce =>
    \A f \in network :
      (/\ f.key = recvKey /\ f.counter < WireSize /\ timesRead[f] = 0
       /\ \A m \in ReadNow : m < f.counter + Window)
      => LET prefix == WireNonce(f.counter)
         IN  IsValidNonce(prefix) /\ Opens(f, OpeningNonce(prefix), TRUE)

\* InOrder: in handshake mode the frames read under a key are exactly its
\* first recvNonce ones, so losing one refuses all later ones.
InOrder == ~useExtractedNonce => ReadNow = 0..(recvNonce - 1)

\* FilterSpec: in transport mode the bounded window and the high-water mark
\* answer every frame exactly as a filter that remembers all accepted counters
\* would (in handshake mode no filter is in use).
Filter == INSTANCE ReplayFilter
            WITH Counters <- 0..(WireSize - 1),
                 accepted <- IF useExtractedNonce THEN ReadNow ELSE {},
                 verdict  <- IF useExtractedNonce THEN outcome ELSE "none"
FilterSpec == Filter!Spec

=============================================================================
