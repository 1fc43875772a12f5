------------------------------- MODULE MCHost -------------------------------
(***************************************************************************)
(* What a node keeps and shows, for TLC: the store-and-forward queue, the  *)
(* identity file, the configuration, the tables of peers and names, the    *)
(* cipher states of a session, the line-mode program and the terminal      *)
(* interface, each explored on its own. "part" says which of them a        *)
(* behaviour is about; the variables of the others keep their initial      *)
(* values.                                                                 *)
(***************************************************************************)
EXTENDS StoreForward, IdentityStore, Settings, Directory, Console, Shell, NoiseCipher

VARIABLE part
mcVars == <<part, sfVars, idVars, cfgVars, dirVars, cnVars, shVars, vars>>

\* One initial state for each of the parts that do not move.
MCInit ==
  /\ part \in {"queue", "identity", "settings", "directory", "console", "shell", "cipher"}
  /\ IdInit /\ (part # "identity" => ~idWindows /\ idFile = 1)
  /\ SfInit /\ CfgInit /\ CnInitial
  /\ DirInit /\ (part # "directory" => dirAt = [a \in DirAddrs |-> CHOOSE q \in DirPeers : TRUE]
                                       /\ dirMine = CHOOSE n \in DirNames : TRUE)
  /\ ShInit /\ (part # "shell" => shActive = "lan")
  /\ Init /\ (part # "cipher" => useExtractedNonce)
MCNext ==
  \/ part = "queue" /\ SfNext /\ UNCHANGED <<part, idVars, cfgVars, dirVars, cnVars, shVars, vars>>
  \/ part = "identity" /\ IdNext /\ UNCHANGED <<part, sfVars, cfgVars, dirVars, cnVars, shVars, vars>>
  \/ part = "settings" /\ CfgNext /\ UNCHANGED <<part, sfVars, idVars, dirVars, cnVars, shVars, vars>>
  \/ part = "directory" /\ DirNext /\ UNCHANGED <<part, sfVars, idVars, cfgVars, cnVars, shVars, vars>>
  \/ part = "console" /\ CnNext /\ UNCHANGED <<part, sfVars, idVars, cfgVars, dirVars, shVars, vars>>
  \/ part = "shell" /\ ShNext /\ UNCHANGED <<part, sfVars, idVars, cfgVars, dirVars, cnVars, vars>>
  \/ part = "cipher" /\ Next /\ UNCHANGED <<part, sfVars, idVars, cfgVars, dirVars, cnVars, shVars>>
MCSpec == MCInit /\ [][MCNext]_mcVars

-----------------------------------------------------------------------------
\* Two actions of the keyboard and the keys they have by default.
MCDefaultKeys == <<"f1", "f2">>
\* A name that is also the beginning of a peer's identifier.
MCPrefixOf == [n \in DirNames |-> IF n = "ab" THEN {"abc"} ELSE {}]
=============================================================================
