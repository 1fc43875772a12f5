---------------------------- MODULE MCTransports ----------------------------
(***************************************************************************)
(* The life of the transports, for TLC: the LAN transport, the Bluetooth   *)
(* transport, the links of the Bluetooth central and the coordinator that  *)
(* starts and stops the transports, each explored on its own.  "part" says *)
(* which of the four a behaviour is about; the variables of the others     *)
(* keep their initial values.                                              *)
(***************************************************************************)
EXTENDS LanTransport, BtTransport, BleLinks, Lifecycle

VARIABLE part
mcVars == <<part, lanVars, btVars, bleVars, lcVars>>

\* One initial state for each of the parts that do not move.
MCInit ==
  /\ part \in {"lan", "bluetooth", "links", "coordinator"}
  /\ LanInit /\ (part # "lan" => netUp)
  /\ BtInit /\ (part # "bluetooth" => radio = "on")
  /\ BleInit
  /\ LcInit /\ (part # "coordinator" => lcActive = "lan")
MCNext ==
  \/ part = "lan" /\ LanNext /\ UNCHANGED <<part, btVars, bleVars, lcVars>>
  \/ part = "bluetooth" /\ BtNext /\ UNCHANGED <<part, lanVars, bleVars, lcVars>>
  \/ part = "links" /\ BleNext /\ UNCHANGED <<part, lanVars, btVars, lcVars>>
  \/ part = "coordinator" /\ LcNext /\ UNCHANGED <<part, lanVars, btVars, bleVars>>
\* The fairness of each part, while it is the one that moves.
MCFairness == LanFairness /\ BtFairness /\ BleFairness /\ LcFairness
MCSpec == MCInit /\ [][MCNext]_mcVars /\ MCFairness
=============================================================================
