--------------------------- MODULE IdentityStore ---------------------------
(***************************************************************************)
(* The identity file (storage/config.py, FileConfigStorage) shared by the  *)
(* processes of one user: load_or_create_identity under an interprocess    *)
(* lock, the atomic write behind it, the backup of a damaged file, and the *)
(* single-instance guard of a launch at sign-in (platform/startup.py,      *)
(* __main__.py).  A process may crash between any two steps and the host   *)
(* may lose power: what was not synced is then damaged and a rename may be *)
(* undone.                                                                 *)
(***************************************************************************)
EXTENDS Naturals, FiniteSets

CONSTANTS
  IdProcs,               \* processes; 0 is none of them
  IdMaxKeys,             \* bound: key pairs ever generated
  IdMaxLaunches,         \* bound: launches
  IdMaxFaults            \* bound: crashes, power losses and damages

ASSUME IdAssumption ==
  /\ IdProcs \subseteq Nat \ {0} /\ IsFiniteSet(IdProcs)
  /\ IdMaxKeys \in Nat \ {0} /\ {IdMaxLaunches, IdMaxFaults} \subseteq Nat

NoKeys == 0
Damaged == IdMaxKeys + 1
NoTemp == [content |-> NoKeys, private |-> FALSE, synced |-> FALSE, exists |-> FALSE]
InSection == {"loading", "reading", "saving", "restricting", "writing", "syncing", "replacing"}

VARIABLES
  idFile,                \* identity.json: NoKeys, keys or Damaged
  idPrivate,             \* may only the user read it?
  idSynced, idDurable,   \* is its content on the disk? the file a power loss may bring back
  idTemp,                \* the temporary file of each process
  idLeft,                \* temporary files of crashed processes
  idBackups,             \* contents kept in identity.json.corrupt.*
  idLock,                \* who holds identity.json.lock
  idPc, idNew, idMine,   \* where each process is, the keys it generated, the identity it goes by
  idHandle, idAtSignIn,  \* does it hold the mutex; was it launched at sign-in?
  idWindows,             \* the platform
  idKeys, idLaunches, idFaults,
  idFirst, idLost, idHurt, idUnguarded \* history: first identity handed out, power lost, file damaged by others, mutex failed
idDisk == <<idFile, idPrivate, idSynced, idDurable>>
idProcess == <<idPc, idNew, idMine, idHandle, idAtSignIn>>
idHistory == <<idFirst, idLost, idHurt, idUnguarded>>
idVars == <<idDisk, idTemp, idLeft, idBackups, idLock, idProcess, idWindows, idKeys, idLaunches, idFaults, idHistory>>

Contents == 0..(IdMaxKeys + 1)
Temps == [content : Contents, private : BOOLEAN, synced : BOOLEAN, exists : BOOLEAN]
IdTypeOK ==
  /\ idFile \in Contents /\ idDurable \in Contents /\ {idPrivate, idSynced, idWindows} \subseteq BOOLEAN
  /\ idTemp \in [IdProcs -> Temps] /\ idLeft \subseteq Temps /\ idBackups \subseteq Contents
  /\ idPc \in [IdProcs -> InSection \cup {"off", "waiting", "running"}]
  /\ idNew \in [IdProcs -> 0..IdMaxKeys] /\ idMine \in [IdProcs -> 0..IdMaxKeys]
  /\ idHandle \in [IdProcs -> BOOLEAN] /\ idAtSignIn \in [IdProcs -> BOOLEAN]
  /\ idKeys \in 0..IdMaxKeys /\ idLaunches \in 0..IdMaxLaunches /\ idFaults \in 0..IdMaxFaults
  /\ idFirst \in 0..IdMaxKeys /\ {idLost, idHurt, idUnguarded} \subseteq BOOLEAN
  /\ idLock \in {0} \cup {p \in IdProcs : idPc[p] \in InSection}

\* A fresh installation, or one with an identity an older release wrote.
IdInit ==
  /\ idWindows \in BOOLEAN /\ idFile \in {NoKeys, 1} /\ idKeys = idFile /\ idFirst = idFile
  /\ idPrivate = FALSE /\ idSynced = TRUE /\ idDurable = idFile
  /\ idTemp = [p \in IdProcs |-> NoTemp] /\ idLeft = {} /\ idBackups = {} /\ idLock = 0
  /\ idPc = [p \in IdProcs |-> "off"]
  /\ idNew = [p \in IdProcs |-> NoKeys] /\ idMine = idNew
  /\ idHandle = [p \in IdProcs |-> FALSE] /\ idAtSignIn = idHandle
  /\ idLaunches = 0 /\ idFaults = 0 /\ idLost = FALSE /\ idHurt = FALSE /\ idUnguarded = FALSE

-----------------------------------------------------------------------------
At(p, from) == idPc[p] = from
Goes(p, to) == idPc' = [idPc EXCEPT ![p] = to]

\* main and SingleInstanceGuard.acquire: a launch at sign-in ends at once if
\* another process holds the mutex; CreateMutexW may fail, which is ignored.
AlreadyRunning(p) == idWindows /\ \E q \in IdProcs \ {p} : idHandle[q]
IdLaunch(p, signIn, mutex) ==
  /\ At(p, "off") /\ idLaunches < IdMaxLaunches /\ idLaunches' = idLaunches + 1
  /\ ~idWindows => ~mutex /\ ~signIn
  /\ idUnguarded' = (idUnguarded \/ (idWindows /\ ~mutex))
  /\ IF signIn /\ mutex /\ AlreadyRunning(p) THEN UNCHANGED idProcess
     ELSE /\ Goes(p, "waiting") /\ idHandle' = [idHandle EXCEPT ![p] = mutex]
          /\ idAtSignIn' = [idAtSignIn EXCEPT ![p] = signIn] /\ UNCHANGED <<idNew, idMine>>
  /\ UNCHANGED <<idDisk, idTemp, idLeft, idBackups, idLock, idWindows, idKeys, idFaults, idFirst, idLost, idHurt>>

\* The process ends, by an exception, an exit or a crash; the lock and the mutex
\* are the operating system's to release, the temporary file is not.
FreeOf(p) == IF idLock = p THEN 0 ELSE idLock
Gone(p) ==
  /\ Goes(p, "off") /\ idLock' = FreeOf(p) /\ idTemp' = [idTemp EXCEPT ![p] = NoTemp]
  /\ idNew' = [idNew EXCEPT ![p] = NoKeys] /\ idMine' = [idMine EXCEPT ![p] = NoKeys]
  /\ idHandle' = [idHandle EXCEPT ![p] = FALSE] /\ idAtSignIn' = [idAtSignIn EXCEPT ![p] = FALSE]
  /\ UNCHANGED <<idWindows, idKeys, idLaunches>>

\* _interprocess_lock: taken when free, given up after ten seconds.
LockFreeAlways(p) == TRUE
LockFreeFor(p) == idLock = 0
IdAcquire(p) ==
  /\ At(p, "waiting") /\ LockFreeFor(p) /\ idLock' = p /\ Goes(p, "loading")
  /\ UNCHANGED <<idDisk, idTemp, idLeft, idBackups, idNew, idMine, idHandle, idAtSignIn, idWindows, idKeys, idLaunches, idFaults, idHistory>>
IdTimesOut(p) ==
  At(p, "waiting") /\ idLock # 0 /\ Gone(p) /\ UNCHANGED <<idDisk, idLeft, idBackups, idFaults, idHistory>>

\* _load_identity_unlocked: restrict access, then read; an unreadable file is
\* backed up as far as that works, and the error ends the process.
IdRestrict(p) ==
  /\ At(p, "loading") /\ idFile # NoKeys /\ Goes(p, "reading") /\ idPrivate' = TRUE
  /\ UNCHANGED <<idFile, idSynced, idDurable, idTemp, idLeft, idBackups, idLock, idNew, idMine, idHandle, idAtSignIn, idWindows,
                 idKeys, idLaunches, idFaults, idHistory>>
Handed(p, k) ==
  /\ idMine' = [idMine EXCEPT ![p] = k] /\ idFirst' = (IF idFirst = NoKeys THEN k ELSE idFirst)
  /\ Goes(p, "running") /\ idLock' = FreeOf(p)
  /\ UNCHANGED <<idLeft, idBackups, idHandle, idAtSignIn, idWindows, idKeys, idLaunches, idFaults, idLost, idHurt, idUnguarded>>
IdRead(p) ==
  At(p, "reading") /\ idFile # Damaged /\ Handed(p, idFile) /\ UNCHANGED <<idDisk, idTemp, idNew>>
IdReadDamaged(p) ==
  /\ At(p, "reading") /\ idFile = Damaged /\ Gone(p)
  /\ idBackups' \in {idBackups, idBackups \cup {idFile}}
  /\ UNCHANGED <<idDisk, idLeft, idFaults, idHistory>>

\* Without a file an identity is generated; a damaged one is not replaced.
Creates(p) == idFile = NoKeys
IdGenerate(p) ==
  /\ At(p, "loading") /\ Creates(p) /\ idKeys < IdMaxKeys
  /\ idKeys' = idKeys + 1 /\ idNew' = [idNew EXCEPT ![p] = idKeys + 1] /\ Goes(p, "saving")
  /\ UNCHANGED <<idDisk, idTemp, idLeft, idBackups, idLock, idMine, idHandle, idAtSignIn, idWindows, idLaunches, idFaults, idHistory>>

\* _atomic_write_json: a temporary file, private before it is written, synced
\* before it replaces identity.json.
TempStep(p, from, to, temp) ==
  /\ At(p, from) /\ Goes(p, to) /\ idTemp' = [idTemp EXCEPT ![p] = temp]
  /\ UNCHANGED <<idDisk, idLeft, idBackups, idLock, idNew, idMine, idHandle, idAtSignIn, idWindows, idKeys, idLaunches, idFaults, idHistory>>
IdTemp(p) == TempStep(p, "saving", "restricting", [NoTemp EXCEPT !.exists = TRUE, !.private = ~idWindows])
IdRestrictTemp(p) == TempStep(p, "restricting", "writing", [idTemp[p] EXCEPT !.private = TRUE])
IdWrite(p) == TempStep(p, "writing", "syncing", [idTemp[p] EXCEPT !.content = idNew[p]])
IdSync(p) == TempStep(p, "syncing", "replacing", [idTemp[p] EXCEPT !.synced = TRUE])
IdReplace(p) ==
  /\ At(p, "replacing")
  /\ idFile' = idTemp[p].content /\ idPrivate' = idTemp[p].private
  /\ idSynced' = idTemp[p].synced /\ UNCHANGED idDurable
  /\ idTemp' = [idTemp EXCEPT ![p] = NoTemp] /\ idNew' = [idNew EXCEPT ![p] = NoKeys]
  /\ Handed(p, idNew[p])

\* An operation on a file fails: the temporary file is removed, the process ends.
IdFails(p) ==
  idPc[p] \in InSection /\ Gone(p) /\ UNCHANGED <<idDisk, idLeft, idBackups, idFaults, idHistory>>
IdExit(p) ==
  At(p, "running") /\ Gone(p) /\ UNCHANGED <<idDisk, idLeft, idBackups, idFaults, idHistory>>

-----------------------------------------------------------------------------
Fault == idFaults < IdMaxFaults /\ idFaults' = idFaults + 1
IdCrash(p) ==
  /\ ~At(p, "off") /\ Fault /\ Gone(p)
  /\ idLeft' = IF idTemp[p].exists THEN idLeft \cup {idTemp[p]} ELSE idLeft
  /\ UNCHANGED <<idDisk, idBackups, idHistory>>
\* The disk catches up.
IdFlush ==
  /\ (idDurable # idFile \/ ~idSynced) /\ idDurable' = idFile /\ idSynced' = TRUE
  /\ UNCHANGED <<idFile, idPrivate, idTemp, idLeft, idBackups, idLock, idProcess, idWindows, idKeys, idLaunches, idFaults, idHistory>>
IdPowerLoss ==
  /\ Fault /\ idLost' = TRUE
  /\ idFile' \in {idDurable, IF idSynced THEN idFile ELSE Damaged}
  /\ idDurable' = idFile' /\ idSynced' = TRUE
  /\ idLock' = 0 /\ idTemp' = [p \in IdProcs |-> NoTemp]
  /\ idLeft' = idLeft \cup {t \in {idTemp[p] : p \in IdProcs} : t.exists}
  /\ idPc' = [p \in IdProcs |-> "off"]
  /\ idNew' = [p \in IdProcs |-> NoKeys] /\ idMine' = idNew'
  /\ idHandle' = [p \in IdProcs |-> FALSE] /\ idAtSignIn' = idHandle'
  /\ UNCHANGED <<idPrivate, idBackups, idWindows, idKeys, idLaunches, idFirst, idHurt, idUnguarded>>
\* Something else damages the file.
IdDamage ==
  /\ idFile \notin {NoKeys, Damaged} /\ Fault /\ idHurt' = TRUE
  /\ idFile' = Damaged /\ idDurable' = Damaged
  /\ UNCHANGED <<idPrivate, idSynced, idTemp, idLeft, idBackups, idLock, idProcess, idWindows, idKeys, idLaunches, idFirst, idLost, idUnguarded>>

IdSteps(p) ==
  \/ IdAcquire(p) \/ IdTimesOut(p) \/ IdRestrict(p) \/ IdRead(p) \/ IdReadDamaged(p) \/ IdGenerate(p)
  \/ IdTemp(p) \/ IdRestrictTemp(p) \/ IdWrite(p) \/ IdSync(p) \/ IdReplace(p) \/ IdFails(p)
IdNext ==
  \/ \E p \in IdProcs :
       \/ \E signIn, mutex \in BOOLEAN : IdLaunch(p, signIn, mutex)
       \/ IdSteps(p) \/ IdExit(p) \/ IdCrash(p)
  \/ IdFlush \/ IdPowerLoss \/ IdDamage
IdSpec == IdInit /\ [][IdNext]_idVars

-----------------------------------------------------------------------------
\* OneIdentity: the processes of a user that run side by side go by the same
\* identity (load_or_create_identity: "prevent split-brain identity generation
\* when multiple instances launch concurrently on a fresh installation").
OneIdentity ==
  \A p, q \in IdProcs : idMine[p] # NoKeys /\ idMine[q] # NoKeys => idMine[p] = idMine[q]

\* IdentityStays: whatever processes crash, fail or find the file damaged, every
\* later launch that gets an identity gets the one handed out first; only a power
\* loss, which may undo the rename, can make a new one.
IdentityStays == idLost \/ \A p \in IdProcs : idMine[p] \in {NoKeys, idFirst}

\* NeverTorn: a crash or a power loss at any step of the atomic write leaves the
\* old file or the new one, never a damaged one.
NeverTorn == idFile = Damaged => idHurt

\* KeysPrivate: private keys are only ever in files the user alone can read: the
\* temporary files, those a crash left behind, and identity.json once a process
\* has taken its identity from it ("applying requested permissions before
\* writing", "Tighten access to legacy identity files before reading").
KeysPrivate ==
  /\ \A t \in idLeft \cup {idTemp[p] : p \in IdProcs} : t.content # NoKeys => t.private
  /\ (\E p \in IdProcs : idMine[p] # NoKeys) => idPrivate

\* OneAtSignIn: while the mutex works, no two processes launched at sign-in run
\* side by side, although one may end in any of its steps.
OneAtSignIn ==
  idUnguarded \/ \A p, q \in IdProcs : idAtSignIn[p] /\ idAtSignIn[q] => p = q

\* IdSafe: the processes of a user share one identity, which stays, in a file that
\* is never torn nor readable by others, and one of them runs at sign-in.
IdSafe == IdTypeOK /\ OneIdentity /\ IdentityStays /\ NeverTorn /\ KeysPrivate /\ OneAtSignIn
=============================================================================
