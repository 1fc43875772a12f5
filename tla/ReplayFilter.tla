---------------------------- MODULE ReplayFilter ----------------------------
(***************************************************************************)
(* What the receiving side of a Noise transport cipher promises about      *)
(* replays, with unbounded memory: it remembers every counter it ever      *)
(* accepted under the current key, and calls a counter fresh exactly when  *)
(* it was not accepted before and no accepted counter is Window or more    *)
(* ahead of it.  NoiseCipher implements this with a bounded set and a      *)
(* high-water mark.                                                        *)
(***************************************************************************)
EXTENDS Naturals

CONSTANTS Window,      \* NOISE_REPLAY_WINDOW_SIZE
          Counters     \* the counters the wire can carry

VARIABLES accepted,    \* every counter accepted under the current key
          verdict      \* the answer given to the last counter offered

vars == <<accepted, verdict>>

\* A counter the filter must let through to authentication.
Fresh(n) == n \notin accepted /\ \A m \in accepted : m < n + Window

Init == accepted = {} /\ verdict = "none"

\* A new key forgets the old counters.
Rekey == accepted' = {} /\ verdict' = "none"

\* A frame without a readable counter, or offered before there is a key.
Discard == verdict' = "discard" /\ UNCHANGED accepted

\* A stale or repeated counter is refused, and remembered by nobody.
Refuse(n) == ~Fresh(n) /\ verdict' = "replay" /\ UNCHANGED accepted

\* A fresh counter on a frame that does not authenticate leaves no trace.
Forged(n) == Fresh(n) /\ verdict' = "auth" /\ UNCHANGED accepted

\* A fresh counter on an authentic frame is accepted, once and for all.
Accept(n) == Fresh(n) /\ verdict' = "delivered" /\ accepted' = accepted \cup {n}

Next == Rekey \/ Discard \/ \E n \in Counters : Refuse(n) \/ Forged(n) \/ Accept(n)

Spec == Init /\ [][Next]_vars
=============================================================================
