----------------------------- MODULE VaultSession -----------------------------
(***************************************************************************)
(* The credential vault as a session: master password, the one key of the  *)
(* data (DEK), the idle lock of `serve`, and the material by which this    *)
(* machine's Windows account opens the vault without a password.           *)
(*                                                                         *)
(* A process is synchronous, so a call of it is one step unless another    *)
(* process or a crash can come between two of its writes: creating the     *)
(* vault, changing the password, sealing material.  An epoch is one salt   *)
(* of the password; wrapped key and material belong to an epoch.           *)
(*                                                                         *)
(* Left out: wrong passwords (they change nothing), the manuallyLocked     *)
(* flag (the one automatic unlock precedes every lock), and the idle timer *)
(* of commands, which end before it could fire.                            *)
(***************************************************************************)
EXTENDS Integers

CONSTANTS
    Process,    \* engines at work on one database
    Serve,      \* the one that stays, and has the timer
    Passwords,
    NoVault, NoKey, NoFile, Garbled, Off,
    Default,    \* the idle limit of a setting nobody made
    MaxEpoch, MaxIdle, MaxKills

ASSUME ProcessAssumption == Serve \in Process /\ NoKey \notin Process
ASSUME PasswordsAssumption == Passwords # {}
ASSUME BoundsAssumption ==
    MaxEpoch \in Nat \ {0} /\ MaxIdle \in Nat /\ MaxKills \in Nat /\ Default \in Nat \ {0}
ASSUME ValuesAssumption ==
    /\ Off \notin Int
    /\ NoVault \notin [epoch : 1 .. MaxEpoch, password : Passwords, dek : Process]
    /\ {NoFile, Garbled} \cap [epoch : 1 .. MaxEpoch, own : BOOLEAN] = {}

VARIABLES
    meta,      \* the row of vault_meta
    material,  \* the auto-unlock file
    secrets,   \* the keys under which stored secrets are encrypted
    setting,   \* vaultAutoLockMinutes
    session,   \* per process: its key, a process that made it, and the call in progress
    limit,     \* autoLockMs of serve
    timer,     \* what is left of it
    dirty,     \* Pocket has something to publish
    known,     \* history: the passwords of which the user knows that one opens the vault
    idle,      \* history: time since the user last did something with the vault
    swept,     \* history: a sweep has used the key since
    excused,   \* history: auto-unlock was on when the timer was last looked after
    kills

serveVars == <<setting, limit, dirty>>
idleVars == <<timer, idle, swept, excused>>
vars == <<meta, material, secrets, setting, session, limit, timer, dirty, known, idle,
          swept, excused, kills>>

Meta == [epoch : 1 .. MaxEpoch, password : Passwords, dek : Process]
Material == [epoch : 1 .. MaxEpoch, own : BOOLEAN]
Limits == 0 .. Default
NoCall == [op |-> "none", epoch |-> 0, password |-> CHOOSE w \in Passwords : TRUE]

TypeOK ==
    /\ meta \in Meta \cup {NoVault}
    /\ material \in Material \cup {NoFile, Garbled}
    /\ secrets \subseteq Process
    /\ setting \in Limits /\ limit \in Limits /\ timer \in Limits \cup {Off}
    /\ session \in [Process -> [dek : Process \cup {NoKey},
          call : [op : {"none", "startup", "init", "write", "reseal", "open", "enable"},
                  epoch : 0 .. MaxEpoch, password : Passwords]]]
    /\ known \subseteq Passwords
    /\ idle \in 0 .. MaxIdle /\ kills \in 0 .. MaxKills
    /\ dirty \in BOOLEAN /\ swept \in BOOLEAN /\ excused \in BOOLEAN

Init ==
    /\ meta = NoVault /\ material = NoFile /\ secrets = {} /\ known = {}
    /\ setting = Default /\ limit = Default /\ timer = Off /\ dirty = FALSE
    /\ session = [p \in Process |-> [dek |-> NoKey, call |-> NoCall]]
    /\ idle = 0 /\ swept = FALSE /\ excused = FALSE /\ kills = 0

Ready(p) == session[p].call.op = "none"
Unlocked(p) == session[p].dek # NoKey
Begin(p, op, epoch, password) ==
    session' = [session EXCEPT ![p].call = [op |-> op, epoch |-> epoch, password |-> password]]

\* isEnabled: a well-formed file, of whatever epoch and account.
Enabled(file) == file \in Material
Stale(file) == Enabled(file) /\ meta # NoVault /\ file.epoch # meta.epoch
Opens(file) == Enabled(file) /\ meta # NoVault /\ file.own /\ file.epoch = meta.epoch

\* The timer of p with key dek after armTimer, in the presence of this file.
Armed(p, dek, file, ms) ==
    IF p # Serve THEN UNCHANGED <<timer, excused>>
    ELSE /\ excused' = Enabled(file)
         /\ timer' = IF Enabled(file) \/ dek = NoKey \/ ms = 0 THEN Off ELSE ms

\* The user acts on p.
Attended(p) == IF p = Serve THEN idle' = 0 /\ swept' = FALSE ELSE UNCHANGED <<idle, swept>>

\* applyDek
ApplyDek(p, dek, file) ==
    /\ session' = [session EXCEPT ![p] = [dek |-> dek, call |-> NoCall]]
    /\ Armed(p, dek, file, limit)
    /\ Attended(p)

-----------------------------------------------------------------------------
(* init, unlock, lock                                                      *)

BeginInit(p) ==
    /\ Ready(p) /\ meta = NoVault
    /\ \E w \in Passwords : Begin(p, "init", 0, w) /\ known' = known \cup {w}
    /\ UNCHANGED <<meta, material, secrets, kills, serveVars, idleVars>>

\* Deviation: the second of two processes replaces the row.
ReplaceMeta(p) ==
    /\ session[p].call.op = "init"
    /\ meta' = [epoch |-> 1, password |-> session[p].call.password, dek |-> p]
    /\ known' = {session[p].call.password}
    /\ ApplyDek(p, p, material)
    /\ UNCHANGED <<material, secrets, kills, serveVars>>

\* A row that another process has created meanwhile makes the insert fail.
CreateMeta(p) ==
    /\ session[p].call.op = "init"
    /\ IF meta = NoVault
       THEN /\ meta' = [epoch |-> 1, password |-> session[p].call.password, dek |-> p]
            /\ known' = {session[p].call.password}
            /\ ApplyDek(p, p, material)
       ELSE /\ session' = [session EXCEPT ![p].call = NoCall]
            /\ UNCHANGED <<meta, known, idleVars>>
    /\ UNCHANGED <<material, secrets, kills, serveVars>>

Unlock(p) ==
    /\ Ready(p) /\ meta # NoVault
    /\ ApplyDek(p, meta.dek, material)
    /\ UNCHANGED <<meta, material, secrets, known, kills, serveVars>>

\* With the box "unlock by itself on this machine" ticked.
UnlockEnabling ==
    /\ Ready(Serve) /\ meta # NoVault
    /\ Begin(Serve, "open", meta.epoch, meta.password)
    /\ UNCHANGED <<meta, material, secrets, known, kills, serveVars, idleVars>>

\* By the user, or the end of a command.
Lock(p) ==
    /\ Ready(p)
    /\ session' = [session EXCEPT ![p].dek = NoKey]
    /\ IF p = Serve THEN timer' = Off ELSE UNCHANGED timer
    /\ UNCHANGED <<meta, material, secrets, known, kills, idle, swept, excused, serveVars>>

-----------------------------------------------------------------------------
(* changePassword                                                          *)

\* The user changes it in one place at a time.
BeginChange(p) ==
    /\ Ready(p) /\ meta # NoVault /\ meta.epoch < MaxEpoch
    /\ \A q \in Process : session[q].call.op # "write"
    /\ \E w \in Passwords :
          /\ Begin(p, "write", 0, w)
          /\ known' = known \cup {w}
    /\ UNCHANGED <<meta, material, secrets, kills, serveVars, idleVars>>

\* Deviation: the key is wrapped under the old password again.
WrapUnderOld(p) ==
    /\ session[p].call.op = "write"
    /\ meta' = [meta EXCEPT !.epoch = @ + 1]
    /\ known' = {session[p].call.password}
    /\ Begin(p, "reseal", meta.epoch + 1, session[p].call.password)
    /\ UNCHANGED <<material, secrets, kills, serveVars, idleVars>>

\* The same DEK, wrapped under the new password with a fresh salt.
UpdateCrypto(p) ==
    /\ session[p].call.op = "write"
    /\ meta' = [meta EXCEPT !.epoch = @ + 1, !.password = session[p].call.password]
    /\ known' = {session[p].call.password}
    /\ Begin(p, "reseal", meta.epoch + 1, session[p].call.password)
    /\ UNCHANGED <<material, secrets, kills, serveVars, idleVars>>

\* Material that is there is sealed again for the new epoch; a failure is ignored.
Reseal(p) ==
    /\ session[p].call.op = "reseal"
    /\ material' \in {material} \cup
          (IF Enabled(material) THEN {[epoch |-> session[p].call.epoch, own |-> TRUE]} ELSE {})
    /\ ApplyDek(p, meta.dek, material')
    /\ UNCHANGED <<meta, secrets, known, kills, serveVars>>

-----------------------------------------------------------------------------
(* The auto-unlock material, which only serve makes and uses               *)

\* The end of UnlockEnabling: a failure to seal does not fail the unlock.
SealAndOpen ==
    /\ session[Serve].call.op = "open"
    /\ material' \in {material, [epoch |-> session[Serve].call.epoch, own |-> TRUE]}
    /\ ApplyDek(Serve, meta.dek, material')
    /\ UNCHANGED <<meta, secrets, known, kills, serveVars>>

EnableAutoUnlock ==
    /\ Ready(Serve) /\ meta # NoVault
    /\ Begin(Serve, "enable", meta.epoch, meta.password)
    /\ UNCHANGED <<meta, material, secrets, known, kills, serveVars, idleVars>>

SealAndSuppress ==
    /\ session[Serve].call.op = "enable"
    /\ session' = [session EXCEPT ![Serve].call = NoCall]
    /\ \/ /\ material' = [epoch |-> session[Serve].call.epoch, own |-> TRUE]
          /\ timer' = Off /\ excused' = TRUE
       \/ UNCHANGED <<material, timer, excused>>
    /\ Attended(Serve)
    /\ UNCHANGED <<meta, secrets, known, kills, serveVars>>

\* Deviation: the file goes, and the timer does not come back.
RemoveOnly ==
    /\ Ready(Serve)
    /\ material' = NoFile
    /\ excused' = FALSE
    /\ Attended(Serve)
    /\ UNCHANGED <<meta, secrets, session, known, kills, timer, serveVars>>

DisableAutoUnlock ==
    /\ Ready(Serve)
    /\ material' = NoFile
    /\ IF Unlocked(Serve) THEN Armed(Serve, session[Serve].dek, NoFile, limit) ELSE UNCHANGED <<timer, excused>>
    /\ Attended(Serve)
    /\ UNCHANGED <<meta, secrets, session, known, kills, serveVars>>

\* loadKek, then the unwrapping: material that does not open the vault is deleted.
UnlockViaWindows(p) ==
    /\ meta # NoVault
    /\ IF Opens(material)
       THEN ApplyDek(p, meta.dek, material) /\ UNCHANGED material
       ELSE /\ material' = NoFile
            /\ session' = [session EXCEPT ![p].call = NoCall]
            /\ UNCHANGED idleVars
    /\ UNCHANGED <<meta, secrets, known, kills, serveVars>>

UnlockWithWindows == Ready(Serve) /\ UnlockViaWindows(Serve)

\* Once, when serve starts.
AttemptStartupAutoUnlock ==
    /\ session[Serve].call.op = "startup"
    /\ IF Enabled(material) /\ meta # NoVault
       THEN UnlockViaWindows(Serve)
       ELSE /\ session' = [session EXCEPT ![Serve].call = NoCall]
            /\ UNCHANGED <<meta, material, secrets, known, kills, serveVars, idleVars>>

\* Deviation: the status does not compare the epoch.
StatusLooks(p) ==
    /\ Ready(p) /\ meta # NoVault /\ ~Enabled(material) /\ material # NoFile
    /\ material' = NoFile
    /\ UNCHANGED <<meta, secrets, session, known, kills, serveVars, idleVars>>

\* status deletes material that is malformed or of another epoch.
AutoUnlockStatus(p) ==
    /\ Ready(p) /\ meta # NoVault
    /\ material = Garbled \/ Stale(material)
    /\ material' = NoFile
    /\ UNCHANGED <<meta, secrets, session, known, kills, serveVars, idleVars>>

\* The administrator resets the Windows account: what it sealed is lost.
ProfileReset ==
    /\ Enabled(material) /\ material.own
    /\ material' = [material EXCEPT !.own = FALSE]
    /\ UNCHANGED <<meta, secrets, session, known, kills, serveVars, idleVars>>

-----------------------------------------------------------------------------
(* Use of the key, the idle lock, settings                                 *)

\* withDek: a secret is shown, or stored.
WithDek(p) ==
    /\ Ready(p) /\ Unlocked(p)
    /\ \/ UNCHANGED <<secrets, dirty>>
       \/ secrets' = secrets \cup {session[p].dek} /\ dirty' = TRUE
    /\ Armed(p, session[p].dek, material, limit)
    /\ Attended(p)
    /\ UNCHANGED <<meta, material, session, known, kills, setting, limit>>

\* A due backup of the vault, a publish of Pocket that has waited its three minutes:
\* they use the key as a user does, and may fail.
Sweep ==
    /\ Ready(Serve) /\ Unlocked(Serve) /\ dirty
    /\ dirty' \in BOOLEAN
    /\ Armed(Serve, session[Serve].dek, material, limit)
    /\ swept' = TRUE
    /\ UNCHANGED <<meta, material, secrets, session, known, kills, setting, limit, idle>>

Tick ==
    /\ timer # 0
    /\ timer' = IF timer = Off THEN Off ELSE timer - 1
    /\ idle' = IF idle < MaxIdle THEN idle + 1 ELSE idle
    /\ UNCHANGED <<meta, material, secrets, session, known, kills, swept, excused, serveVars>>

IdleLock == timer = 0 /\ Lock(Serve)

SetAutoLock ==
    /\ Ready(Serve)
    /\ \E minutes \in Limits :
          /\ setting' = minutes /\ limit' = minutes
          /\ IF Unlocked(Serve) THEN Armed(Serve, session[Serve].dek, material, minutes)
             ELSE UNCHANGED <<timer, excused>>
    /\ Attended(Serve)
    /\ UNCHANGED <<meta, material, secrets, session, known, kills, dirty>>

\* A process ends, in the middle of a call perhaps, and starts again.  The file is
\* overwritten before it is deleted: an end in between leaves it garbled.
Kill(p) ==
    /\ kills < MaxKills /\ kills' = kills + 1
    /\ session' = [session EXCEPT ![p] =
          [dek |-> NoKey, call |-> IF p = Serve THEN [NoCall EXCEPT !.op = "startup"] ELSE NoCall]]
    /\ material' \in {material} \cup
          (IF Stale(material) \/ (p = Serve /\ Enabled(material)) THEN {Garbled} ELSE {})
    /\ IF p = Serve
       THEN /\ limit' = IF setting > 0 THEN setting ELSE Default
            /\ timer' = Off /\ idle' = 0 /\ swept' = FALSE /\ excused' = FALSE
       ELSE UNCHANGED <<limit, idleVars>>
    /\ UNCHANGED <<meta, secrets, known, setting, dirty>>

Next ==
    \/ UnlockEnabling \/ SealAndOpen \/ EnableAutoUnlock \/ SealAndSuppress
    \/ DisableAutoUnlock \/ UnlockWithWindows \/ AttemptStartupAutoUnlock \/ ProfileReset
    \/ Sweep \/ Tick \/ IdleLock \/ SetAutoLock
    \/ \E p \in Process :
          \/ BeginInit(p) \/ CreateMeta(p) \/ Unlock(p) \/ Lock(p) \/ WithDek(p)
          \/ BeginChange(p) \/ UpdateCrypto(p) \/ Reseal(p)
          \/ AutoUnlockStatus(p) \/ Kill(p)

\* Calls end, and the requests for the status, every few seconds, get their turn among the
\* others.
Fairness ==
    /\ \A p \in Process : WF_vars(CreateMeta(p) \/ UpdateCrypto(p) \/ Reseal(p))
    /\ WF_vars(SealAndOpen \/ SealAndSuppress \/ AttemptStartupAutoUnlock)
    /\ SF_vars(AutoUnlockStatus(Serve))

Spec == Init /\ [][Next]_vars
FairSpec == Spec /\ Fairness

-----------------------------------------------------------------------------
(* Properties.                                                             *)

\* There is one key: whatever process holds a key or has stored a secret under one, it is
\* the key that the master password opens, also when two processes create the vault at
\* once and however often the password is changed.
OneKey ==
    /\ secrets # {} => meta # NoVault
    /\ meta # NoVault => secrets \subseteq {meta.dek}
    /\ \A p \in Process : Unlocked(p) => meta # NoVault /\ session[p].dek = meta.dek

\* After any crash in a change of the password, one of the passwords that the user
\* knows opens the vault; after a change that was carried out, the new one does.
PasswordKnown == meta # NoVault => meta.password \in known

\* A vault that nobody has used for the limit is locked, unless auto-unlock was on when
\* the timer was last looked after, or a sweep has used the key since.
IdleLocks ==
    Unlocked(Serve) /\ Ready(Serve) /\ limit > 0 /\ idle > limit => excused \/ swept

\* Material that no longer fits the vault, or is half deleted, goes away or is replaced:
\* a crash between the two writes of a password change heals.
StaleHeals ==
    material = Garbled \/ Stale(material)
    ~> material = NoFile \/ (Enabled(material) /\ material.epoch = meta.epoch)

\* "0 = never."
NeverMeansNever == setting = 0 => limit = 0

\* "The next auto-lock, or null (locked / disabled / auto-unlock on)."
UntimedHasReason ==
    Unlocked(Serve) /\ Ready(Serve) /\ limit > 0 /\ timer = Off => Enabled(material)

\* "Idle auto-lock after this many ms" of nothing that the user did.
IdleMeansUser ==
    Unlocked(Serve) /\ Ready(Serve) /\ limit > 0 /\ idle > limit => excused

=============================================================================
