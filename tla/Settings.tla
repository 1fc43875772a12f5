------------------------------ MODULE Settings ------------------------------
(***************************************************************************)
(* config.json (storage/config.py, AppConfig) and its writers.  The front  *)
(* end of a process (tui/app.py, app/application.py) loads it once, keeps  *)
(* the object and saves all of it on every change of a setting; the        *)
(* coordinator of the same process (_on_handshake_established) loads it    *)
(* again for each handshake, records the contact's fingerprint and saves.  *)
(* Writes replace the file atomically; nothing locks it.                   *)
(***************************************************************************)
EXTENDS Naturals, Sequences

CONSTANTS
  CfgProcs,                        \* processes of one user
  CfgPeers, CfgPrints,             \* peers, and fingerprints (positive) under one peer ID
  CfgPrefs, CfgLong,               \* nickname and look, as typed; those the loader shortens
  CfgDefaultKeys, CfgKeys,         \* the default key of each action, in order; keys users give
  CfgMaxOps                        \* bound: operations

ASSUME CfgAssumption ==
  /\ CfgPrints \subseteq Nat \ {0} /\ CfgLong \subseteq CfgPrefs /\ CfgMaxOps \in Nat
  /\ "default" \in CfgPrefs \ CfgLong /\ "shortened" \in CfgPrefs \ CfgLong
  /\ CfgDefaultKeys \in Seq(CfgKeys \ {""}) /\ "" \in CfgKeys
Actions == DOMAIN CfgDefaultKeys
KeyMaps == [Actions -> CfgKeys]
UsableMaps == [Actions -> CfgKeys \ {""}]

\* _validate_and_normalize_keybindings, action by action: an empty key and one an
\* earlier action uses give way to the default.
Unusable(given, used) == given = "" \/ given \in used
Resolved(kb, done, i) ==
  LET used == {done[j] : j \in 1..(i - 1)}
  IN  IF Unusable(kb[i], used) THEN CfgDefaultKeys[i] ELSE kb[i]
Normalized(kb) == CHOOSE done \in KeyMaps : \A i \in Actions : done[i] = Resolved(kb, done, i)

NoContacts == [q \in CfgPeers |-> 0]
AppConfig == [prefs |-> "default", keys |-> CfgDefaultKeys, contacts |-> NoContacts]
Configs == [prefs : CfgPrefs, keys : KeyMaps, contacts : [CfgPeers -> CfgPrints \cup {0}]]

VARIABLES
  cfgState, cfgFile,     \* "absent", "good" or "damaged", and the content
  cfgUp, cfgMem,         \* is the process up, and its config
  cfgRead, cfgTrusting,  \* the coordinator's copy between load and save, and for whom
  cfgOps,
  cfgFirst,              \* history: the fingerprint first accepted for each peer
  cfgMistaken,           \* history: has another one been accepted?
  cfgLatest,             \* history: prefs and keys last saved by a user
  cfgShared, cfgStale, cfgFailed, cfgEdited
  \* history: two processes at once; a front end's save dropped contacts; a load or save failed; the file was edited by hand
cfgHistory == <<cfgFirst, cfgMistaken, cfgLatest, cfgShared, cfgStale, cfgFailed, cfgEdited>>
cfgVars == <<cfgState, cfgFile, cfgUp, cfgMem, cfgRead, cfgTrusting, cfgOps, cfgHistory>>

NoTrust == [peer |-> "none", print |-> 0]
CfgTypeOK ==
  /\ cfgState \in {"absent", "good", "damaged"} /\ cfgFile \in Configs
  /\ cfgUp \in [CfgProcs -> BOOLEAN] /\ cfgMem \in [CfgProcs -> Configs]
  /\ \A p \in CfgProcs : cfgMem[p].keys \in UsableMaps
  /\ cfgRead \in [CfgProcs -> Configs]
  /\ cfgTrusting \in [CfgProcs -> {NoTrust} \cup [peer : CfgPeers, print : CfgPrints]]
  /\ cfgOps \in 0..CfgMaxOps
  /\ cfgFirst \in [CfgPeers -> CfgPrints \cup {0}]
  /\ cfgLatest \in [prefs : CfgPrefs, keys : KeyMaps]
  /\ {cfgMistaken, cfgShared, cfgStale, cfgFailed, cfgEdited} \subseteq BOOLEAN

CfgInit ==
  /\ cfgState = "absent" /\ cfgFile = AppConfig /\ cfgUp = [p \in CfgProcs |-> FALSE]
  /\ cfgMem = [p \in CfgProcs |-> AppConfig] /\ cfgRead = cfgMem
  /\ cfgTrusting = [p \in CfgProcs |-> NoTrust] /\ cfgOps = 0
  /\ cfgFirst = NoContacts /\ cfgMistaken = FALSE
  /\ cfgLatest = [prefs |-> "default", keys |-> CfgDefaultKeys]
  /\ cfgShared = FALSE /\ cfgStale = FALSE /\ cfgFailed = FALSE /\ cfgEdited = FALSE

-----------------------------------------------------------------------------
\* load_config and from_dict.
Shortened(v) == IF v \in CfgLong THEN "shortened" ELSE v
Loaded ==
  IF cfgState = "absent" THEN AppConfig
  ELSE [prefs |-> Shortened(cfgFile.prefs), keys |-> Normalized(cfgFile.keys), contacts |-> cfgFile.contacts]

Operation == cfgOps < CfgMaxOps /\ cfgOps' = cfgOps + 1
Idle(p) == cfgUp[p] /\ cfgTrusting[p] = NoTrust
NotTrusting(p) ==
  /\ cfgTrusting' = [cfgTrusting EXCEPT ![p] = NoTrust]
  /\ cfgRead' = [cfgRead EXCEPT ![p] = AppConfig]

\* save_config replaces the file, or fails and leaves it.
Drops(c) == cfgState # "absent" /\ \E q \in CfgPeers : cfgFile.contacts[q] # 0 /\ c.contacts[q] # cfgFile.contacts[q]
Saved(c) == cfgState' = "good" /\ cfgFile' = c /\ UNCHANGED cfgFailed
NotSaved == UNCHANGED <<cfgState, cfgFile>> /\ cfgFailed' = TRUE

\* The front end starts: main ends on a damaged file, Application falls back on
\* the defaults.
CfgStart(p) ==
  /\ ~cfgUp[p] /\ Operation
  /\ cfgUp' = [cfgUp EXCEPT ![p] = TRUE] /\ cfgShared' = (cfgShared \/ \E q \in CfgProcs : cfgUp[q])
  /\ cfgMem' = [cfgMem EXCEPT ![p] = IF cfgState = "damaged" THEN AppConfig ELSE Loaded]
  /\ cfgFailed' = (cfgFailed \/ cfgState = "damaged")
  /\ UNCHANGED <<cfgState, cfgFile, cfgRead, cfgTrusting, cfgFirst, cfgMistaken, cfgLatest, cfgStale, cfgEdited>>
CfgEnd(p) ==
  /\ cfgUp[p] /\ cfgUp' = [cfgUp EXCEPT ![p] = FALSE] /\ NotTrusting(p)
  /\ cfgMem' = [cfgMem EXCEPT ![p] = AppConfig]
  /\ UNCHANGED <<cfgState, cfgFile, cfgOps, cfgHistory>>

\* A change of a setting: /name, the theme, a transport switch, or the settings
\* dialog, which refuses keys that are empty or used twice.
Acceptable(kb) == \A i, j \in Actions : kb[i] # "" /\ (kb[i] = kb[j] => i = j)
CfgSet(p, v, kb) ==
  /\ Idle(p) /\ Operation /\ (kb # cfgMem[p].keys => Acceptable(kb))
  /\ cfgMem' = [cfgMem EXCEPT ![p].prefs = v, ![p].keys = kb]
  /\ \/ Saved(cfgMem'[p]) /\ cfgStale' = (cfgStale \/ Drops(cfgMem'[p])) /\ cfgLatest' = [prefs |-> v, keys |-> kb]
     \/ NotSaved /\ UNCHANGED <<cfgStale, cfgLatest>>
  /\ UNCHANGED <<cfgUp, cfgRead, cfgTrusting, cfgFirst, cfgMistaken, cfgShared, cfgEdited>>

\* _on_handshake_established: load, verify_contact, save; any error but a
\* mismatch is logged and the session kept.
Mismatch(c, q, fp) == c.contacts[q] \notin {0, fp}
RecordFresh(c, q, fp) == [AppConfig EXCEPT !.contacts = [c.contacts EXCEPT ![q] = fp]]
Recorded(c, q, fp) == [c EXCEPT !.contacts[q] = fp]
Accept(q, fp) ==
  /\ cfgFirst' = IF cfgFirst[q] = 0 THEN [cfgFirst EXCEPT ![q] = fp] ELSE cfgFirst
  /\ cfgMistaken' = (cfgMistaken \/ cfgFirst[q] \notin {0, fp})
CfgTrust(p, q, fp) ==
  /\ Idle(p) /\ Operation
  /\ IF cfgState = "damaged"
     THEN Accept(q, fp) /\ cfgFailed' = TRUE /\ UNCHANGED <<cfgRead, cfgTrusting>>
     ELSE /\ IF Mismatch(Loaded, q, fp) THEN UNCHANGED <<cfgRead, cfgTrusting>>
             ELSE /\ cfgRead' = [cfgRead EXCEPT ![p] = Recorded(Loaded, q, fp)]
                  /\ cfgTrusting' = [cfgTrusting EXCEPT ![p] = [peer |-> q, print |-> fp]]
          /\ UNCHANGED <<cfgFirst, cfgMistaken, cfgFailed>>
  /\ UNCHANGED <<cfgState, cfgFile, cfgUp, cfgMem, cfgLatest, cfgShared, cfgStale, cfgEdited>>
CfgTrusted(p) ==
  /\ cfgTrusting[p] # NoTrust /\ Accept(cfgTrusting[p].peer, cfgTrusting[p].print)
  /\ (Saved(cfgRead[p]) \/ NotSaved)
  /\ NotTrusting(p)
  /\ UNCHANGED <<cfgUp, cfgMem, cfgOps, cfgLatest, cfgShared, cfgStale, cfgEdited>>

\* The user edits the file: any keys, or nonsense.
CfgEdit(kb) ==
  /\ cfgState = "good" /\ ~cfgEdited /\ cfgEdited' = TRUE
  /\ \/ cfgFile' = [cfgFile EXCEPT !.keys = kb] /\ UNCHANGED cfgState
     \/ cfgState' = "damaged" /\ UNCHANGED cfgFile
  /\ UNCHANGED <<cfgUp, cfgMem, cfgRead, cfgTrusting, cfgOps, cfgFirst, cfgMistaken, cfgLatest, cfgShared, cfgStale, cfgFailed>>

CfgNext ==
  \/ \E p \in CfgProcs :
       \/ CfgStart(p) \/ CfgEnd(p) \/ CfgTrusted(p)
       \/ \E v \in CfgPrefs, kb \in KeyMaps : CfgSet(p, v, kb)
       \/ \E q \in CfgPeers, fp \in CfgPrints : CfgTrust(p, q, fp)
  \/ \E kb \in KeyMaps : CfgEdit(kb)
CfgSpec == CfgInit /\ [][CfgNext]_cfgVars

-----------------------------------------------------------------------------
\* FirstUseKept: once a fingerprint has been accepted for a peer no other one is,
\* while every access to the file succeeds and one process runs (verify_contact:
\* "trust on first use and record fingerprint").  It does not hold: a save of the
\* front end drops the contacts recorded after it loaded.
FirstUseKept == cfgMistaken => cfgFailed \/ cfgShared

\* FirstUseUnlessDropped: it holds until a front end's save has dropped a contact.
FirstUseUnlessDropped == cfgStale \/ FirstUseKept

\* PrefsSurvive: what a user set last is what the next launch loads, shortened as
\* the loader does, whatever handshakes the coordinator recorded in between.
PrefsSurvive ==
  cfgShared \/ cfgFailed \/ cfgEdited
    \/ (Loaded.prefs = Shortened(cfgLatest.prefs) /\ Loaded.keys = cfgLatest.keys)

\* KeysDistinct: two actions share a key after loading only if it is the default
\* of one of them, taken by the other before its turn; any other conflict is
\* resolved and each action can be triggered ("resolve keybindings against
\* defaults and conflicts").
KeysDistinct ==
  \A p \in CfgProcs : \A i, j \in Actions :
    i # j /\ cfgMem[p].keys[i] = cfgMem[p].keys[j]
      => cfgMem[p].keys[i] \in {CfgDefaultKeys[i], CfgDefaultKeys[j]}

\* CfgSafe: a contact stays trusted until a save drops it, settings survive the
\* coordinator's saves, and every action keeps a key.
CfgSafe == CfgTypeOK /\ FirstUseUnlessDropped /\ PrefsSurvive /\ KeysDistinct
=============================================================================
