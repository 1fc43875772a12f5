------------------------------ MODULE MeshRules ------------------------------
(***************************************************************************)
(* The rules by which evaluate_incoming (mesh/router.py) decides what a    *)
(* node does with a packet that it accepts, shared by the model of one     *)
(* router and the model of a mesh of them.                                 *)
(***************************************************************************)
EXTENDS Integers, FiniteSetsExt

CONSTANTS
  Broadcast,      \* the recipient of a packet for everyone
  MaxRelayTtl     \* max_relay_ttl

ForUs(self, pkt) == pkt.recipient \in {Broadcast, self}

\* The ttl of the copy relayed: clamped and decremented; 0 for no copy.
RelayTtlKept(ttl) == IF ttl > 1 THEN Min({ttl, MaxRelayTtl}) ELSE 0
RelayTtl(ttl) == IF ttl > 1 THEN Min({ttl, MaxRelayTtl}) - 1 ELSE 0

\* Process, relay, or store when a packet for somebody else goes no further.
AcceptedEndsHere(self, pkt, ttl) ==
  LET relay == IF ForUs(self, pkt) THEN 0 ELSE RelayTtl(ttl)
  IN  [process  |-> ForUs(self, pkt),
       relayTtl |-> relay,
       store    |-> ~ForUs(self, pkt) /\ relay = 0]
Accepted(self, pkt, ttl) ==
  LET relay == IF pkt.recipient = self THEN 0 ELSE RelayTtl(ttl)
  IN  [process  |-> ForUs(self, pkt),
       relayTtl |-> relay,
       store    |-> ~ForUs(self, pkt) /\ relay = 0]
=============================================================================
