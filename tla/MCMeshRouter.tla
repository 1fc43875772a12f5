---------------------------- MODULE MCMeshRouter ----------------------------
(***************************************************************************)
(* MeshRouter for TLC: two originators heard over one neighbour, packets   *)
(* for everyone, for this node and for the other originator, and one of    *)
(* ours that loops back.                                                   *)
(***************************************************************************)
EXTENDS MeshRouter

MCPeerAt == [a \in Addresses |-> IF a = "addrA" THEN "alice" ELSE "bob"]

MCIds == {[sender |-> "alice", recipient |-> "everyone"],
          [sender |-> "alice", recipient |-> "bob"],
          [sender |-> "bob",   recipient |-> "me"],
          [sender |-> "me",    recipient |-> "everyone"]}
=============================================================================
