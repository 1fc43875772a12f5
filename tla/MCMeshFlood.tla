----------------------------- MODULE MCMeshFlood -----------------------------
(***************************************************************************)
(* MeshFlood for TLC, on a triangle with a tail: n1, n2 and n3 hear one    *)
(* another, and n4 hears n3 only.  n4 floods a packet, which can go round  *)
(* the triangle, and n1 answers it.                                        *)
(***************************************************************************)
EXTENDS MeshFlood

MCLinks == {{"n1", "n2"}, {"n1", "n3"}, {"n2", "n3"}, {"n3", "n4"}}

MCPackets == {[sender |-> "n4", recipient |-> "all"],
              [sender |-> "n1", recipient |-> "n4"]}

=============================================================================
