---------------------------- MODULE SecureChannel ---------------------------
(***************************************************************************)
(* What two ends of a private conversation promise each other: a text that *)
(* one user sends is held somewhere, may be lost, and reaches the other    *)
(* user at most once.  Nothing else is ever delivered.                     *)
(***************************************************************************)
EXTENDS Integers, Sequences

VARIABLES
  said,       \* said[p]: number of texts user p has sent; they are numbered
  held,       \* held[p]: the texts of p that can still arrive
  got         \* got[p]: the texts shown to user p, in order of arrival

Ends == {1, 2}
Peer(p) == 3 - p

Init ==
  /\ said = [p \in Ends |-> 0]
  /\ held = [p \in Ends |-> {}]
  /\ got = [p \in Ends |-> <<>>]

Send(p) ==
  /\ said' = [said EXCEPT ![p] = @ + 1]
  /\ held' = [held EXCEPT ![p] = @ \cup {said[p] + 1}]
  /\ UNCHANGED got

Lose ==
  /\ \A p \in Ends : held'[p] \subseteq held[p]
  /\ UNCHANGED <<said, got>>

Deliver(p, t) ==
  /\ t \in held[Peer(p)]
  /\ held' = [held EXCEPT ![Peer(p)] = @ \ {t}]
  /\ got' = [got EXCEPT ![p] = Append(@, t)]
  /\ UNCHANGED said

Next ==
  \/ Lose
  \/ \E p \in Ends : Send(p) \/ \E t \in held[Peer(p)] : Deliver(p, t)

Spec == Init /\ [][Next]_<<said, held, got>>
=============================================================================
