------------------------------ MODULE MCLinks ------------------------------
(***************************************************************************)
(* How peers find and reach each other and what travels between them, for  *)
(* TLC: LAN discovery, the LAN connections of two nodes, the Bluetooth     *)
(* peripheral, the wire format and the reassembly of fragments, each       *)
(* explored on its own. "part" says which of them a behaviour is about;    *)
(* the variables of the others keep their initial values.                  *)
(***************************************************************************)
EXTENDS LanDiscovery, LanLinks, Peripheral, Wire, Reassembly

VARIABLE part
mcVars == <<part, discVars, linkVars, srvVars, wireVars, reVars>>

\* One initial state for each of the parts that do not move.
MCInit ==
  /\ part \in {"discovery", "connections", "peripheral", "wire", "reassembly"}
  /\ DiscInit /\ LinksInit /\ ReInit
  /\ SrvInit /\ (part # "peripheral" => srvPlatform = "linux" /\ srvFit = [a \in SrvAdapters |-> {}])
  /\ WireInit /\ (part # "wire" => wireMedium = "tcp")
MCNext ==
  \/ part = "discovery" /\ DiscNext /\ UNCHANGED <<part, linkVars, srvVars, wireVars, reVars>>
  \/ part = "connections" /\ LinksNext /\ UNCHANGED <<part, discVars, srvVars, wireVars, reVars>>
  \/ part = "peripheral" /\ SrvNext /\ UNCHANGED <<part, discVars, linkVars, wireVars, reVars>>
  \/ part = "wire" /\ WireNext /\ UNCHANGED <<part, discVars, linkVars, srvVars, reVars>>
  \/ part = "reassembly" /\ ReNext /\ UNCHANGED <<part, discVars, linkVars, srvVars, wireVars>>
MCSpec == MCInit /\ [][MCNext]_mcVars

-----------------------------------------------------------------------------
\* Wire: payloads, of which two hold the byte a frame begins with; what another
\* program may write; two padding blocks.
MCWirePayloads == {<<>>, <<9, 0>>, <<1, 9, 2>>}
MCWireForeign == {<<9, 3, 1, 1, 0>>, <<7, 7>>, <<9, 9>>, <<9, 7, 1, 1, 0, 0, 3, 0, 2>>, <<9, 7, 1, 1, 0, 0, 3, 0, 1>>}
MCWireBlocks == <<8, 14>>

\* Reassembly: two senders that chose the same fragment identifier and a third
\* packet, among strays that disagree on the total, the type, the data and the
\* kind of a fragment.
ShortMessage(s, f, a, b) == [sender |-> s, fid |-> f, type |-> "msg", chunks |-> <<a, b>>]
MCThree == {[sender |-> "s1", fid |-> 1, type |-> "msg", chunks |-> <<"a", "b", "c">>],
            ShortMessage("s2", 1, "d", "e"), ShortMessage("s1", 2, "f", "g")}

Stray(total, index, type, kind, data) ==
  [sender |-> "s2", fid |-> 1, total |-> total, index |-> index, type |-> type,
   kind |-> kind, data |-> data]
MCStrays == {Stray(3, 1, "msg", "continue", "x"),  \* wrong total
             Stray(4, 1, "msg", "continue", "x"),  \* too many fragments
             Stray(2, 1, "noise", "end", "x"),     \* wrong type
             Stray(2, 0, "msg", "start", "y"),     \* other data
             Stray(2, 0, "msg", "end", "z"),       \* wrong kind
             Stray(1, 0, "msg", "start", "z"),     \* a packet of one fragment
             Stray(3, 2, "msg", "end", "huge")}    \* more than fits beside another

MCLength == [d \in {"a", "b", "c", "d", "e", "f", "g", "x", "y", "z", "huge"} |->
               IF d = "huge" THEN 3 ELSE 1]
=============================================================================
