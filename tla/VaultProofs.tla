-------------------------- MODULE VaultProofs --------------------------
(***************************************************************************)
(* Proofs about the vault.                                                 *)
(*                                                                         *)
(* VaultSession: there is one key whatever the processes do, after any     *)
(* crash the user knows a password that opens the vault, and an open vault *)
(* that nobody uses is locked in time. Neither OneKey nor the type of the  *)
(* epoch is inductive alone: a call in progress will use the row that its  *)
(* first half read, so CallsFit says what a call still knows about the row *)
(* when its second half comes.                                             *)
(*                                                                         *)
(* VaultTransfer, further down: a restore is whole, and what was there all *)
(* through the export is in it.                                            *)
(***************************************************************************)
EXTENDS VaultSession, VaultTransfer, FiniteSetTheorems, TLAPS

\* A call that has read the row still finds one; the one password change that is
\* waiting to be written has room for a new epoch.
CallsFit ==
    /\ \A p \in Process :
          /\ session[p].call.op \in {"write", "reseal", "open", "enable"} => meta # NoVault
          /\ session[p].call.op = "write" => meta.epoch < MaxEpoch
          /\ session[p].call.op \in {"reseal", "open", "enable"} => session[p].call.epoch # 0
    /\ \A p, q \in Process :
          session[p].call.op = "write" /\ session[q].call.op = "write" => p = q

IInv == TypeOK /\ CallsFit /\ OneKey /\ PasswordKnown

\* What armTimer leaves is a time within the limit, or no timer.
LEMMA ArmedType ==
    ASSUME NEW p, NEW dek, NEW seal, NEW ms \in Limits, TypeOK, Armed(p, dek, seal, ms)
    PROVE  timer' \in Limits \cup {Off} /\ excused' \in BOOLEAN
<1>1. CASE p # Serve
    BY <1>1 DEF Armed, TypeOK
<1>2. CASE p = Serve
  <2>1. excused' = Enabled(seal) /\ Enabled(seal) \in BOOLEAN
      BY <1>2 DEF Armed, Enabled
  <2>2. timer' \in {Off, ms}
      BY <1>2 DEF Armed
  <2> QED
      BY <2>1, <2>2
<1> QED
    BY <1>1, <1>2

LEMMA AttendedType ==
    ASSUME NEW p, TypeOK, Attended(p)
    PROVE  idle' \in 0 .. MaxIdle /\ swept' \in BOOLEAN
<1>1. CASE p # Serve
    BY <1>1 DEF Attended, TypeOK
<1>2. CASE p = Serve
  <2>1. idle' = 0 /\ swept' = FALSE
      BY <1>2 DEF Attended
  <2>2. idle' \in 0 .. MaxIdle
      BY <2>1, BoundsAssumption
  <2>3. swept' \in BOOLEAN
      BY <2>1, Zenon
  <2> QED
      BY <2>2, <2>3
<1> QED
    BY <1>1, <1>2

LEMMA InitIInv == Init => IInv
<1> SUFFICES ASSUME Init PROVE IInv
    OBVIOUS
<1>1. NoCall.password \in Passwords
  <2>1. (CHOOSE w \in Passwords : TRUE) \in Passwords
      BY PasswordsAssumption, Zenon
  <2>2. NoCall.password = CHOOSE w \in Passwords : TRUE
      BY DEF NoCall
  <2> QED
      BY <2>1, <2>2
<1>2. TypeOK
  <2>1. session \in [Process -> [dek : Process \cup {NoKey},
          call : [op : {"none", "startup", "init", "write", "reseal", "open", "enable"},
                  epoch : 0 .. MaxEpoch, password : Passwords]]]
      BY <1>1, BoundsAssumption DEF Init, NoCall
  <2>2. setting \in Limits /\ limit \in Limits /\ idle \in 0 .. MaxIdle /\ kills \in 0 .. MaxKills
      BY BoundsAssumption DEF Init, Limits
  <2>3. dirty \in BOOLEAN /\ swept \in BOOLEAN /\ excused \in BOOLEAN
      BY Zenon DEF Init
  <2>4. /\ meta \in Meta \cup {NoVault}
        /\ material \in Material \cup {NoFile, Garbled}
        /\ secrets \subseteq Process /\ known \subseteq Passwords
        /\ timer \in Limits \cup {Off}
      BY DEF Init
  <2> QED
      BY <2>1, <2>2, <2>3, <2>4 DEF TypeOK
<1>3. CallsFit /\ OneKey /\ PasswordKnown
    BY DEF Init, CallsFit, OneKey, PasswordKnown, NoCall, Unlocked
<1> QED
    BY <1>2, <1>3 DEF IInv
-----------------------------------------------------------------------------
(* The parts of the type that an action disturbs.                          *)

Calls == [op : {"none", "startup", "init", "write", "reseal", "open", "enable"},
          epoch : 0 .. MaxEpoch, password : Passwords]
Sessions == [Process -> [dek : Process \cup {NoKey}, call : Calls]]
DataType ==
    /\ meta \in Meta \cup {NoVault} /\ material \in Material \cup {NoFile, Garbled}
    /\ secrets \subseteq Process /\ known \subseteq Passwords
    /\ setting \in Limits /\ limit \in Limits /\ kills \in 0 .. MaxKills /\ dirty \in BOOLEAN
TimeType ==
    /\ timer \in Limits \cup {Off} /\ excused \in BOOLEAN
    /\ idle \in 0 .. MaxIdle /\ swept \in BOOLEAN

LEMMA TypeParts == TypeOK <=> DataType /\ session \in Sessions /\ TimeType
BY DEF TypeOK, DataType, Sessions, Calls, TimeType

LEMMA TypePartsNext == TypeOK' <=> DataType' /\ (session \in Sessions)' /\ TimeType'
BY DEF TypeOK, DataType, Sessions, Calls, TimeType

\* The empty call, and calls in general, are calls.
LEMMA NoCallType == NoCall \in Calls
<1>1. (CHOOSE w \in Passwords : TRUE) \in Passwords
    BY PasswordsAssumption, Zenon
<1> QED
    BY <1>1, BoundsAssumption DEF NoCall, Calls

LEMMA ApplyDekType ==
    ASSUME TypeOK, NEW p \in Process, NEW dek \in Process, NEW seal, ApplyDek(p, dek, seal)
    PROVE  session' = [session EXCEPT ![p] = [dek |-> dek, call |-> NoCall]]
           /\ (session \in Sessions)' /\ TimeType'
<1>1. session' = [session EXCEPT ![p] = [dek |-> dek, call |-> NoCall]]
    BY DEF ApplyDek
<1>2. session' \in Sessions
    BY <1>1, NoCallType, TypeParts DEF Sessions
<1>3. limit \in Limits /\ Armed(p, dek, seal, limit) /\ Attended(p)
    BY DEF ApplyDek, TypeOK
<1>4. timer' \in Limits \cup {Off} /\ excused' \in BOOLEAN
    BY <1>3, ArmedType
<1>5. idle' \in 0 .. MaxIdle /\ swept' \in BOOLEAN
    BY <1>3, AttendedType
<1> QED
    BY <1>1, <1>2, <1>4, <1>5 DEF TimeType

\* A session that only ends its call, or only loses its key, has the type still.
LEMMA EndCallType ==
    ASSUME TypeOK, NEW p \in Process
    PROVE  /\ [session EXCEPT ![p].call = NoCall] \in Sessions
           /\ [session EXCEPT ![p].dek = NoKey] \in Sessions
BY NoCallType, TypeParts DEF Sessions

LEMMA BeginType ==
    ASSUME TypeOK, NEW p \in Process, NEW epoch \in 0 .. MaxEpoch, NEW w \in Passwords,
           NEW op \in {"init", "write", "reseal", "open", "enable"}, Begin(p, op, epoch, w)
    PROVE  session' \in Sessions
<1>1. [op |-> op, epoch |-> epoch, password |-> w] \in Calls
    BY DEF Calls
<1> QED
    BY <1>1, TypeParts DEF Begin, Sessions

-----------------------------------------------------------------------------
(* What the safety part of the invariant needs of a step.                  *)

Safe == CallsFit /\ OneKey /\ PasswordKnown

\* Sessions may lose their key, take the one key, and end their calls.
LEMMA SessionStep ==
    ASSUME IInv, UNCHANGED <<meta, secrets, known>>,
           \A p \in Process :
              /\ session'[p].dek \in {session[p].dek, NoKey}
                 \/ (meta # NoVault /\ session'[p].dek = meta.dek)
              /\ session'[p].call = session[p].call \/ session'[p].call.op \in {"none", "startup"}
    PROVE  Safe'
<1>1. CallsFit'
  <2>1. \A p \in Process :
           session'[p].call.op \in {"write", "reseal", "open", "enable"}
              => session'[p].call = session[p].call
      OBVIOUS
  <2> QED
      BY <2>1 DEF IInv, CallsFit
<1>2. OneKey'
  <2>1. \A p \in Process : session'[p].dek # NoKey
           => meta # NoVault /\ session'[p].dek = meta.dek
      BY DEF IInv, OneKey, Unlocked
  <2> QED
      BY <2>1 DEF IInv, OneKey, Unlocked
<1>3. PasswordKnown'
    BY DEF IInv, PasswordKnown
<1> QED
    BY <1>1, <1>2, <1>3 DEF Safe

\* Nothing that Safe speaks of changes.
LEMMA QuietStep == IInv /\ UNCHANGED <<meta, secrets, known, session>> => Safe'
BY DEF IInv, Safe, CallsFit, OneKey, PasswordKnown, Unlocked

\* The vault opens for p.
LEMMA OpenStep ==
    ASSUME IInv, NEW p \in Process, NEW seal, meta # NoVault, ApplyDek(p, meta.dek, seal),
           UNCHANGED <<meta, secrets, known>>
    PROVE  (session \in Sessions)' /\ TimeType' /\ Safe'
<1>1. TypeOK /\ meta.dek \in Process
    BY DEF IInv, TypeOK, Meta
<1>2. /\ session' = [session EXCEPT ![p] = [dek |-> meta.dek, call |-> NoCall]]
      /\ (session \in Sessions)' /\ TimeType'
    BY <1>1, ApplyDekType
<1>3. session \in Sessions
    BY <1>1, TypeParts
<1>4. \A q \in Process : q # p => session'[q] = session[q]
    BY <1>2, <1>3 DEF Sessions
<1>5. session'[p].dek = meta.dek /\ session'[p].call.op = "none"
    BY <1>2, <1>3 DEF Sessions, NoCall
<1>6. Safe'
    BY <1>4, <1>5, SessionStep
<1> QED
    BY <1>2, <1>6

\* A call begins that needs no row, or finds one.
LEMMA BeginStep ==
    ASSUME IInv, NEW p \in Process, NEW epoch \in 0 .. MaxEpoch, NEW w \in Passwords,
           NEW op \in {"init", "reseal", "open", "enable"}, Begin(p, op, epoch, w),
           op # "init" => meta # NoVault /\ epoch # 0,
           UNCHANGED <<meta, secrets>>, known \subseteq known'
    PROVE  (session \in Sessions)' /\ Safe'
<1>1. session \in Sessions /\ (session \in Sessions)'
    BY BeginType, TypeParts DEF IInv
<1>2. /\ \A q \in Process : q # p => session'[q] = session[q]
      /\ session'[p].dek = session[p].dek
      /\ session'[p].call.op = op /\ session'[p].call.epoch = epoch
    BY <1>1 DEF Begin, Sessions
<1>3. CallsFit'
    BY <1>2 DEF IInv, CallsFit
<1>4. OneKey'
  <2>1. \A q \in Process : session'[q].dek = session[q].dek
      BY <1>2
  <2> QED
      BY <2>1 DEF IInv, OneKey, Unlocked
<1>5. PasswordKnown'
    BY DEF IInv, PasswordKnown
<1> QED
    BY <1>1, <1>3, <1>4, <1>5 DEF Safe

-----------------------------------------------------------------------------
(* The steps that write the row.                                           *)

LEMMA CreateMetaStep ==
    ASSUME IInv, NEW p \in Process, CreateMeta(p)
    PROVE  IInv'
<1>1. TypeOK /\ session \in Sessions /\ DataType /\ TimeType
    BY TypeParts DEF IInv
<1>2. CASE meta = NoVault
  <2> DEFINE w == session[p].call.password
  <2>1. /\ meta' = [epoch |-> 1, password |-> w, dek |-> p] /\ known' = {w}
        /\ ApplyDek(p, p, material) /\ UNCHANGED <<material, secrets, kills, serveVars>>
      BY <1>2 DEF CreateMeta
  <2>2. w \in Passwords
      BY <1>1 DEF Sessions, Calls
  <2>3. meta' \in Meta /\ meta' # NoVault
      BY <2>1, <2>2, BoundsAssumption, ValuesAssumption DEF Meta
  <2>4. /\ session' = [session EXCEPT ![p] = [dek |-> p, call |-> NoCall]]
        /\ (session \in Sessions)' /\ TimeType'
      BY <1>1, <2>1, ApplyDekType
  <2>5. DataType'
      BY <1>1, <2>1, <2>2, <2>3 DEF DataType, serveVars
  <2>6. /\ \A q \in Process : q # p => session'[q] = session[q]
        /\ session'[p].dek = p /\ session'[p].call.op = "none"
      BY <1>1, <2>4 DEF Sessions, NoCall
  <2>7. \A q \in Process : session[q].dek = NoKey
                         /\ session[q].call.op \notin {"write", "reseal", "open", "enable"}
      BY <1>2 DEF IInv, CallsFit, OneKey, Unlocked
  <2>8. CallsFit'
      BY <2>6, <2>7 DEF CallsFit
  <2>9. OneKey'
    <3>1. secrets' = {}
        BY <1>2, <2>1 DEF IInv, OneKey
    <3>2. meta'.dek = p
        BY <2>1
    <3> QED
        BY <2>3, <2>6, <2>7, <3>1, <3>2 DEF OneKey, Unlocked
  <2>10. PasswordKnown'
      BY <2>1 DEF PasswordKnown
  <2> QED
      BY <2>4, <2>5, <2>8, <2>9, <2>10, TypePartsNext DEF IInv
<1>3. CASE meta # NoVault
  <2>1. /\ session' = [session EXCEPT ![p].call = NoCall]
        /\ UNCHANGED <<meta, known, material, secrets, kills, serveVars, idleVars>>
      BY <1>3 DEF CreateMeta
  <2>2. session' \in Sessions
      BY <1>1, <2>1, EndCallType
  <2>3. DataType' /\ TimeType'
      BY <1>1, <2>1 DEF DataType, TimeType, serveVars, idleVars
  <2>4. \A q \in Process : session'[q].dek = session[q].dek
           /\ (session'[q].call = session[q].call \/ session'[q].call.op = "none")
      BY <1>1, <2>1 DEF Sessions, NoCall
  <2>5. Safe'
      BY <2>1, <2>4, SessionStep
  <2> QED
      BY <2>2, <2>3, <2>5, TypePartsNext DEF IInv, Safe
<1> QED
    BY <1>2, <1>3

LEMMA UpdateCryptoStep ==
    ASSUME IInv, NEW p \in Process, UpdateCrypto(p)
    PROVE  IInv'
<1> DEFINE w == session[p].call.password
<1>1. TypeOK /\ session \in Sessions /\ DataType /\ TimeType
    BY TypeParts DEF IInv
<1>2. /\ session[p].call.op = "write" /\ known' = {w}
      /\ meta' = [meta EXCEPT !.epoch = @ + 1, !.password = w]
      /\ Begin(p, "reseal", meta.epoch + 1, w)
      /\ UNCHANGED <<material, secrets, kills, serveVars, idleVars>>
    BY DEF UpdateCrypto
<1>3. w \in Passwords
    BY <1>1 DEF Sessions, Calls
<1>4. meta # NoVault /\ meta.epoch < MaxEpoch /\ meta \in Meta
    BY <1>1, <1>2 DEF IInv, CallsFit, DataType
<1>5. meta.epoch + 1 \in 1 .. MaxEpoch
    BY <1>4, BoundsAssumption DEF Meta
<1>6. meta' \in Meta /\ meta' # NoVault /\ meta'.dek = meta.dek /\ meta'.password = w
    BY <1>2, <1>3, <1>4, <1>5, ValuesAssumption DEF Meta
<1>7. session' \in Sessions
    BY <1>1, <1>2, <1>3, <1>5, BoundsAssumption, BeginType
<1>8. DataType' /\ TimeType'
    BY <1>1, <1>2, <1>3, <1>6 DEF DataType, TimeType, serveVars, idleVars
<1>9. /\ \A q \in Process : q # p => session'[q] = session[q]
      /\ session'[p].dek = session[p].dek /\ session'[p].call.op = "reseal"
      /\ session'[p].call.epoch = meta.epoch + 1
    BY <1>1, <1>2 DEF Begin, Sessions
<1>10. \A q \in Process : q # p => session[q].call.op # "write"
    BY <1>2 DEF IInv, CallsFit
<1>11. CallsFit'
  <2>1. session'[p].call.epoch # 0
      BY <1>5, <1>9
  <2> QED
      BY <2>1, <1>6, <1>9, <1>10 DEF IInv, CallsFit
<1>12. OneKey'
  <2>1. \A q \in Process : session'[q].dek = session[q].dek
      BY <1>9
  <2> QED
      BY <2>1, <1>2, <1>4, <1>6 DEF IInv, OneKey, Unlocked
<1>13. PasswordKnown'
    BY <1>2, <1>6 DEF PasswordKnown
<1> QED
    BY <1>7, <1>8, <1>11, <1>12, <1>13, TypePartsNext DEF IInv

\* One change at a time waits to be written.
LEMMA BeginChangeStep ==
    ASSUME IInv, NEW p \in Process, BeginChange(p)
    PROVE  IInv'
<1>1. TypeOK /\ session \in Sessions /\ DataType /\ TimeType
    BY TypeParts DEF IInv
<1>2. /\ meta # NoVault /\ meta.epoch < MaxEpoch
      /\ \A q \in Process : session[q].call.op # "write"
      /\ UNCHANGED <<meta, material, secrets, kills, serveVars, idleVars>>
    BY DEF BeginChange
<1>3. PICK w \in Passwords : Begin(p, "write", 0, w) /\ known' = known \cup {w}
    BY DEF BeginChange
<1>4. session' \in Sessions
    BY <1>1, <1>3, BoundsAssumption, BeginType
<1>5. /\ \A q \in Process : q # p => session'[q] = session[q]
      /\ session'[p].dek = session[p].dek /\ session'[p].call.op = "write"
    BY <1>1, <1>3 DEF Begin, Sessions
<1>6. DataType' /\ TimeType'
    BY <1>1, <1>2, <1>3 DEF DataType, TimeType, serveVars, idleVars
<1>7. CallsFit'
    BY <1>2, <1>5 DEF IInv, CallsFit
<1>8. OneKey'
  <2>1. \A q \in Process : session'[q].dek = session[q].dek
      BY <1>5
  <2> QED
      BY <2>1, <1>2 DEF IInv, OneKey, Unlocked
<1>9. PasswordKnown'
    BY <1>2, <1>3 DEF IInv, PasswordKnown
<1> QED
    BY <1>4, <1>6, <1>7, <1>8, <1>9, TypePartsNext DEF IInv

-----------------------------------------------------------------------------
(* The other steps: none of them writes the row.                           *)

\* Material that was just sealed is material.
LEMMA SealedType ==
    ASSUME NEW epoch \in 1 .. MaxEpoch
    PROVE  [epoch |-> epoch, own |-> TRUE] \in Material
<1>1. TRUE \in BOOLEAN
    BY Zenon
<1> QED
    BY <1>1, Zenon DEF Material

\* The steps by which a session opens.
LEMMA OpeningSteps ==
    ASSUME IInv, NEW p \in Process,
           Unlock(p) \/ Reseal(p) \/ (SealAndOpen /\ p = Serve)
             \/ (UnlockViaWindows(p) /\ p = Serve)
    PROVE  IInv'
<1>1. TypeOK /\ session \in Sessions /\ DataType /\ TimeType
    BY TypeParts DEF IInv
<1>2. CASE Unlock(p)
  <2>1. meta # NoVault /\ ApplyDek(p, meta.dek, material)
        /\ UNCHANGED <<meta, material, secrets, known, kills, serveVars>>
      BY <1>2 DEF Unlock
  <2>2. DataType'
      BY <1>1, <2>1 DEF DataType, serveVars
  <2> QED
      BY <2>1, <2>2, OpenStep, TypePartsNext DEF IInv, Safe
<1>3. CASE Reseal(p)
  <2>1. /\ session[p].call.op = "reseal" /\ ApplyDek(p, meta.dek, material')
        /\ UNCHANGED <<meta, secrets, known, kills, serveVars>>
        /\ material' \in {material, [epoch |-> session[p].call.epoch, own |-> TRUE]}
      BY <1>3 DEF Reseal
  <2>2. meta # NoVault /\ session[p].call.epoch \in 1 .. MaxEpoch
      BY <1>1, <2>1, BoundsAssumption DEF IInv, CallsFit, Sessions, Calls
  <2>3. material' \in Material \cup {NoFile, Garbled}
      BY <1>1, <2>1, <2>2, SealedType DEF DataType
  <2>4. DataType'
      BY <1>1, <2>1, <2>3 DEF DataType, serveVars
  <2> QED
      BY <2>1, <2>2, <2>4, OpenStep, TypePartsNext DEF IInv, Safe
<1>4. CASE SealAndOpen /\ p = Serve
  <2>1. /\ session[p].call.op = "open" /\ ApplyDek(p, meta.dek, material')
        /\ UNCHANGED <<meta, secrets, known, kills, serveVars>>
        /\ material' \in {material, [epoch |-> session[p].call.epoch, own |-> TRUE]}
      BY <1>4 DEF SealAndOpen
  <2>2. meta # NoVault /\ session[p].call.epoch \in 1 .. MaxEpoch
      BY <1>1, <2>1, BoundsAssumption DEF IInv, CallsFit, Sessions, Calls
  <2>3. material' \in Material \cup {NoFile, Garbled}
      BY <1>1, <2>1, <2>2, SealedType DEF DataType
  <2>4. DataType'
      BY <1>1, <2>1, <2>3 DEF DataType, serveVars
  <2> QED
      BY <2>1, <2>2, <2>4, OpenStep, TypePartsNext DEF IInv, Safe
<1>5. CASE UnlockViaWindows(p) /\ p = Serve
  <2>1. meta # NoVault /\ UNCHANGED <<meta, secrets, known, kills, serveVars>>
      BY <1>5 DEF UnlockViaWindows
  <2>2. CASE Opens(material)
    <3>1. ApplyDek(p, meta.dek, material) /\ UNCHANGED material
        BY <1>5, <2>2 DEF UnlockViaWindows
    <3>2. DataType'
        BY <1>1, <2>1, <3>1 DEF DataType, serveVars
    <3> QED
        BY <2>1, <3>1, <3>2, OpenStep, TypePartsNext DEF IInv, Safe
  <2>3. CASE ~Opens(material)
    <3>1. /\ material' = NoFile /\ UNCHANGED idleVars
          /\ session' = [session EXCEPT ![p].call = NoCall]
        BY <1>5, <2>3 DEF UnlockViaWindows
    <3>2. session' \in Sessions
        BY <1>1, <3>1, EndCallType
    <3>3. DataType' /\ TimeType'
        BY <1>1, <2>1, <3>1 DEF DataType, TimeType, serveVars, idleVars
    <3>4. \A q \in Process : session'[q].dek = session[q].dek
             /\ (session'[q].call = session[q].call \/ session'[q].call.op = "none")
        BY <1>1, <3>1 DEF Sessions, NoCall
    <3>5. Safe'
        BY <2>1, <3>4, SessionStep
    <3> QED
        BY <3>2, <3>3, <3>5, TypePartsNext DEF IInv, Safe
  <2> QED
      BY <2>2, <2>3
<1> QED
    BY <1>2, <1>3, <1>4, <1>5

\* The calls that begin with a read of the row, or without one.
LEMMA BeginningSteps ==
    ASSUME IInv, UnlockEnabling \/ EnableAutoUnlock \/ \E p \in Process : BeginInit(p)
    PROVE  IInv'
<1>1. TypeOK /\ session \in Sessions /\ DataType /\ TimeType /\ Serve \in Process
    BY TypeParts, ProcessAssumption DEF IInv
<1>2. CASE UnlockEnabling \/ EnableAutoUnlock
  <2>1. /\ meta # NoVault
        /\ UNCHANGED <<meta, material, secrets, known, kills, serveVars, idleVars>>
        /\ \/ Begin(Serve, "open", meta.epoch, meta.password)
           \/ Begin(Serve, "enable", meta.epoch, meta.password)
      BY <1>2 DEF UnlockEnabling, EnableAutoUnlock
  <2>2. /\ meta.epoch \in 0 .. MaxEpoch /\ meta.epoch # 0 /\ meta.password \in Passwords
      BY <1>1, <2>1, BoundsAssumption DEF DataType, Meta
  <2>3. DataType' /\ TimeType'
      BY <1>1, <2>1 DEF DataType, TimeType, serveVars, idleVars
  <2>4. (session \in Sessions)' /\ Safe'
      BY <1>1, <2>1, <2>2, BeginStep
  <2> QED
      BY <2>3, <2>4, TypePartsNext DEF IInv, Safe
<1>3. ASSUME NEW p \in Process, BeginInit(p) PROVE IInv'
  <2>1. UNCHANGED <<meta, material, secrets, kills, serveVars, idleVars>>
      BY <1>3 DEF BeginInit
  <2>2. PICK w \in Passwords : Begin(p, "init", 0, w) /\ known' = known \cup {w}
      BY <1>3 DEF BeginInit
  <2>3. DataType' /\ TimeType'
      BY <1>1, <2>1, <2>2 DEF DataType, TimeType, serveVars, idleVars
  <2>4. (session \in Sessions)' /\ Safe'
    <3>1. 0 \in 0 .. MaxEpoch /\ "init" \in {"init", "reseal", "open", "enable"}
        BY BoundsAssumption
    <3>2. known \subseteq known' /\ UNCHANGED <<meta, secrets>>
        BY <2>1, <2>2
    <3> QED
        BY <2>2, <3>1, <3>2, BeginStep
  <2> QED
      BY <2>3, <2>4, TypePartsNext DEF IInv, Safe
<1> QED
    BY <1>2, <1>3

\* Steps that touch the material, the timer or the settings.
LEMMA MaterialSteps ==
    ASSUME IInv, SealAndSuppress \/ DisableAutoUnlock \/ ProfileReset
                   \/ (\E p \in Process : AutoUnlockStatus(p))
    PROVE  IInv'
<1>1. TypeOK /\ session \in Sessions /\ DataType /\ TimeType /\ Serve \in Process
    BY TypeParts, ProcessAssumption DEF IInv
<1>2. CASE SealAndSuppress
  <2>1. /\ session[Serve].call.op = "enable"
        /\ session' = [session EXCEPT ![Serve].call = NoCall] /\ Attended(Serve)
        /\ UNCHANGED <<meta, secrets, known, kills, serveVars>>
        /\ material' \in {material, [epoch |-> session[Serve].call.epoch, own |-> TRUE]}
      BY <1>2 DEF SealAndSuppress
  <2>2. timer' \in {timer, Off}
      BY <1>2 DEF SealAndSuppress
  <2>3. excused' \in BOOLEAN
    <3>1. excused' = TRUE \/ excused' = excused
        BY <1>2 DEF SealAndSuppress
    <3>2. excused \in BOOLEAN
        BY <1>1 DEF TimeType
    <3> QED
        BY <3>1, <3>2, Zenon
  <2>4. session[Serve].call.epoch \in 1 .. MaxEpoch
      BY <1>1, <2>1, BoundsAssumption DEF IInv, CallsFit, Sessions, Calls
  <2>5. DataType'
      BY <1>1, <2>1, <2>4, SealedType DEF DataType, serveVars
  <2>6. TimeType'
      BY <1>1, <2>1, <2>2, <2>3, AttendedType DEF TimeType
  <2>7. session' \in Sessions
      BY <1>1, <2>1, EndCallType
  <2>8. \A q \in Process : session'[q].dek = session[q].dek
           /\ (session'[q].call = session[q].call \/ session'[q].call.op = "none")
      BY <1>1, <2>1 DEF Sessions, NoCall
  <2>9. Safe'
      BY <2>1, <2>8, SessionStep
  <2> QED
      BY <2>5, <2>6, <2>7, <2>9, TypePartsNext DEF IInv, Safe
<1>3. CASE DisableAutoUnlock
  <2>1. /\ material' = NoFile /\ Attended(Serve)
        /\ UNCHANGED <<meta, secrets, session, known, kills, serveVars>>
        /\ Armed(Serve, session[Serve].dek, NoFile, limit) \/ UNCHANGED <<timer, excused>>
      BY <1>3 DEF DisableAutoUnlock
  <2>2. limit \in Limits
      BY <1>1 DEF DataType
  <2>3. timer' \in Limits \cup {Off} /\ excused' \in BOOLEAN
      BY <1>1, <2>1, <2>2, ArmedType DEF TimeType
  <2>4. TimeType' /\ DataType'
      BY <1>1, <2>1, <2>3, AttendedType DEF TimeType, DataType, serveVars
  <2> QED
      BY <1>1, <2>1, <2>4, QuietStep, TypePartsNext DEF IInv, Safe
<1>4. CASE ProfileReset
  <2>1. /\ material \in Material /\ material' = [material EXCEPT !.own = FALSE]
        /\ UNCHANGED <<meta, secrets, session, known, kills, serveVars, idleVars>>
      BY <1>4 DEF ProfileReset, Enabled
  <2>2. material' \in Material
    <3>1. FALSE \in BOOLEAN
        BY Zenon
    <3> QED
        BY <2>1, <3>1, Zenon DEF Material
  <2>3. TimeType' /\ DataType'
      BY <1>1, <2>1, <2>2 DEF TimeType, DataType, serveVars, idleVars
  <2> QED
      BY <1>1, <2>1, <2>3, QuietStep, TypePartsNext DEF IInv, Safe
<1>5. ASSUME NEW p \in Process, AutoUnlockStatus(p) PROVE IInv'
  <2>1. /\ material' = NoFile
        /\ UNCHANGED <<meta, secrets, session, known, kills, serveVars, idleVars>>
      BY <1>5 DEF AutoUnlockStatus
  <2>2. TimeType' /\ DataType'
      BY <1>1, <2>1 DEF TimeType, DataType, serveVars, idleVars
  <2> QED
      BY <1>1, <2>1, <2>2, QuietStep, TypePartsNext DEF IInv, Safe
<1> QED
    BY <1>2, <1>3, <1>4, <1>5

\* Secrets are stored under the key of an open session, which is the one key.
LEMMA WithDekStep ==
    ASSUME IInv, NEW p \in Process, WithDek(p)
    PROVE  IInv'
<1>1. TypeOK /\ session \in Sessions /\ DataType /\ TimeType
    BY TypeParts DEF IInv
<1>2. /\ session[p].dek # NoKey /\ Armed(p, session[p].dek, material, limit) /\ Attended(p)
      /\ UNCHANGED <<meta, material, session, known, kills, setting, limit>>
      /\ secrets' \in {secrets, secrets \cup {session[p].dek}}
    BY DEF WithDek, Unlocked
<1>3. meta # NoVault /\ session[p].dek = meta.dek /\ session[p].dek \in Process
    BY <1>1, <1>2 DEF IInv, OneKey, Unlocked, Sessions
<1>4. dirty' \in BOOLEAN
  <2>1. dirty' = dirty \/ dirty' = TRUE
      BY DEF WithDek
  <2>2. dirty \in BOOLEAN
      BY <1>1 DEF DataType
  <2> QED
      BY <2>1, <2>2, Zenon
<1>5. limit \in Limits
    BY <1>1 DEF DataType
<1>6. TimeType'
    BY <1>1, <1>2, <1>5, ArmedType, AttendedType DEF TimeType
<1>7. DataType'
    BY <1>1, <1>2, <1>3, <1>4 DEF DataType
<1>8. CallsFit' /\ PasswordKnown'
    BY <1>2 DEF IInv, CallsFit, PasswordKnown
<1>9. OneKey'
    BY <1>2, <1>3 DEF IInv, OneKey, Unlocked
<1> QED
    BY <1>1, <1>2, <1>6, <1>7, <1>8, <1>9, TypePartsNext DEF IInv

\* Sweeps, the passing of time and the settings leave sessions alone.
LEMMA TimeSteps ==
    ASSUME IInv, Sweep \/ Tick \/ SetAutoLock
    PROVE  IInv'
<1>1. TypeOK /\ session \in Sessions /\ DataType /\ TimeType /\ limit \in Limits
    BY TypeParts DEF IInv, DataType
<1>2. CASE Sweep
  <2>1. /\ Armed(Serve, session[Serve].dek, material, limit) /\ swept' = TRUE
        /\ dirty' \in BOOLEAN
        /\ UNCHANGED <<meta, material, secrets, session, known, kills, setting, limit, idle>>
      BY <1>2 DEF Sweep
  <2>2. swept' \in BOOLEAN
      BY <2>1, Zenon
  <2>3. TimeType' /\ DataType'
      BY <1>1, <2>1, <2>2, ArmedType DEF TimeType, DataType
  <2> QED
      BY <1>1, <2>1, <2>3, QuietStep, TypePartsNext DEF IInv, Safe
<1>3. CASE Tick
  <2>1. /\ timer # 0 /\ timer' = IF timer = Off THEN Off ELSE timer - 1
        /\ idle' = IF idle < MaxIdle THEN idle + 1 ELSE idle
        /\ UNCHANGED <<meta, material, secrets, session, known, kills, swept, excused, serveVars>>
      BY <1>3 DEF Tick
  <2>2. timer' \in Limits \cup {Off}
      BY <1>1, <2>1, BoundsAssumption DEF TimeType, Limits
  <2>3. idle' \in 0 .. MaxIdle
      BY <1>1, <2>1, BoundsAssumption DEF TimeType
  <2>4. TimeType' /\ DataType'
      BY <1>1, <2>1, <2>2, <2>3 DEF TimeType, DataType, serveVars
  <2> QED
      BY <1>1, <2>1, <2>4, QuietStep, TypePartsNext DEF IInv, Safe
<1>4. CASE SetAutoLock
  <2>1. PICK minutes \in Limits :
           /\ setting' = minutes /\ limit' = minutes
           /\ Armed(Serve, session[Serve].dek, material, minutes) \/ UNCHANGED <<timer, excused>>
      BY <1>4 DEF SetAutoLock
  <2>2. Attended(Serve) /\ UNCHANGED <<meta, material, secrets, session, known, kills, dirty>>
      BY <1>4 DEF SetAutoLock
  <2>3. timer' \in Limits \cup {Off} /\ excused' \in BOOLEAN
      BY <1>1, <2>1, ArmedType DEF TimeType
  <2>4. TimeType' /\ DataType'
      BY <1>1, <2>1, <2>2, <2>3, AttendedType DEF TimeType, DataType
  <2> QED
      BY <1>1, <2>2, <2>4, QuietStep, TypePartsNext DEF IInv, Safe
<1> QED
    BY <1>2, <1>3, <1>4

\* A session that is locked, or starts again, keeps nothing that could be wrong.
LEMMA ClosingSteps ==
    ASSUME IInv, NEW p \in Process,
           Lock(p) \/ Kill(p) \/ (AttemptStartupAutoUnlock /\ ~UnlockViaWindows(Serve) /\ p = Serve)
    PROVE  IInv'
<1>1. TypeOK /\ session \in Sessions /\ DataType /\ TimeType
    BY TypeParts DEF IInv
<1>2. CASE Lock(p)
  <2>1. /\ session' = [session EXCEPT ![p].dek = NoKey] /\ timer' \in {timer, Off}
        /\ UNCHANGED <<meta, material, secrets, known, kills, idle, swept, excused, serveVars>>
      BY <1>2 DEF Lock
  <2>2. session' \in Sessions /\ DataType' /\ TimeType'
      BY <1>1, <2>1, EndCallType DEF DataType, TimeType, serveVars
  <2>3. \A q \in Process : session'[q].dek \in {session[q].dek, NoKey}
                         /\ session'[q].call = session[q].call
      BY <1>1, <2>1 DEF Sessions
  <2>4. Safe'
      BY <2>1, <2>3, SessionStep
  <2> QED
      BY <2>2, <2>4, TypePartsNext DEF IInv, Safe
<1>3. CASE Kill(p)
  <2> DEFINE call == IF p = Serve THEN [NoCall EXCEPT !.op = "startup"] ELSE NoCall
  <2>1. /\ session' = [session EXCEPT ![p] = [dek |-> NoKey, call |-> call]]
        /\ kills < MaxKills /\ kills' = kills + 1
        /\ material' \in {material, Garbled}
        /\ UNCHANGED <<meta, secrets, known, setting, dirty>>
      BY <1>3 DEF Kill
  <2>2. call \in Calls /\ call.op \in {"none", "startup"}
      BY NoCallType DEF Calls, NoCall
  <2>3. session' \in Sessions
      BY <1>1, <2>1, <2>2 DEF Sessions
  <2>4. limit' \in Limits /\ TimeType'
    <3>1. CASE p = Serve
      <4>1. /\ limit' = IF setting > 0 THEN setting ELSE Default
            /\ timer' = Off /\ idle' = 0 /\ swept' = FALSE /\ excused' = FALSE
          BY <1>3, <3>1 DEF Kill
      <4>2. swept' \in BOOLEAN /\ excused' \in BOOLEAN
          BY <4>1, Zenon
      <4> QED
          BY <1>1, <4>1, <4>2, BoundsAssumption DEF DataType, TimeType, Limits
    <3>2. CASE p # Serve
      <4>1. UNCHANGED <<limit, idleVars>>
          BY <1>3, <3>2 DEF Kill
      <4> QED
          BY <1>1, <4>1 DEF DataType, TimeType, idleVars
    <3> QED
        BY <3>1, <3>2
  <2>5. kills' \in 0 .. MaxKills
      BY <1>1, <2>1, BoundsAssumption DEF DataType
  <2>6. DataType'
      BY <1>1, <2>1, <2>4, <2>5 DEF DataType
  <2>7. \A q \in Process : session'[q].dek \in {session[q].dek, NoKey}
           /\ (session'[q].call = session[q].call \/ session'[q].call.op \in {"none", "startup"})
      BY <1>1, <2>1, <2>2 DEF Sessions
  <2>8. Safe'
      BY <2>1, <2>7, SessionStep
  <2> QED
      BY <2>3, <2>4, <2>6, <2>8, TypePartsNext DEF IInv, Safe
<1>4. CASE AttemptStartupAutoUnlock /\ ~UnlockViaWindows(Serve) /\ p = Serve
  <2>1. /\ session' = [session EXCEPT ![Serve].call = NoCall]
        /\ UNCHANGED <<meta, material, secrets, known, kills, serveVars, idleVars>>
      BY <1>4 DEF AttemptStartupAutoUnlock
  <2>2. session' \in Sessions /\ DataType' /\ TimeType'
      BY <1>1, <1>4, <2>1, EndCallType DEF DataType, TimeType, serveVars, idleVars
  <2>3. \A q \in Process : session'[q].dek = session[q].dek
           /\ (session'[q].call = session[q].call \/ session'[q].call.op = "none")
      BY <1>1, <2>1 DEF Sessions, NoCall
  <2>4. Safe'
      BY <2>1, <2>3, SessionStep
  <2> QED
      BY <2>2, <2>4, TypePartsNext DEF IInv, Safe
<1> QED
    BY <1>2, <1>3, <1>4

-----------------------------------------------------------------------------

LEMMA StepIInv == IInv /\ [Next]_vars => IInv'
<1> SUFFICES ASSUME IInv, [Next]_vars PROVE IInv'
    OBVIOUS
<1>0. Serve \in Process
    BY ProcessAssumption
<1>1. CASE UnlockEnabling \/ EnableAutoUnlock
    BY <1>1, BeginningSteps
<1>2. CASE SealAndOpen
    BY <1>0, <1>2, OpeningSteps
<1>3. CASE SealAndSuppress \/ DisableAutoUnlock \/ ProfileReset
    BY <1>3, MaterialSteps
<1>4. CASE UnlockWithWindows
    BY <1>0, <1>4, OpeningSteps DEF UnlockWithWindows
<1>5. CASE AttemptStartupAutoUnlock
    BY <1>0, <1>5, OpeningSteps, ClosingSteps
<1>6. CASE Sweep \/ Tick \/ SetAutoLock
    BY <1>6, TimeSteps
<1>7. CASE IdleLock
    BY <1>0, <1>7, ClosingSteps DEF IdleLock
<1>8. ASSUME NEW p \in Process, BeginInit(p) PROVE IInv'
    BY <1>8, BeginningSteps
<1>9. ASSUME NEW p \in Process, CreateMeta(p) PROVE IInv'
    BY <1>9, CreateMetaStep
<1>10. ASSUME NEW p \in Process, Unlock(p) \/ Reseal(p) PROVE IInv'
    BY <1>10, OpeningSteps
<1>11. ASSUME NEW p \in Process, Lock(p) \/ Kill(p) PROVE IInv'
    BY <1>11, ClosingSteps
<1>12. ASSUME NEW p \in Process, WithDek(p) PROVE IInv'
    BY <1>12, WithDekStep
<1>13. ASSUME NEW p \in Process, BeginChange(p) PROVE IInv'
    BY <1>13, BeginChangeStep
<1>14. ASSUME NEW p \in Process, UpdateCrypto(p) PROVE IInv'
    BY <1>14, UpdateCryptoStep
<1>15. ASSUME NEW p \in Process, AutoUnlockStatus(p) PROVE IInv'
    BY <1>15, MaterialSteps
<1>16. CASE UNCHANGED vars
  <2>1. TypeOK'
      BY <1>16 DEF IInv, TypeOK, vars
  <2> QED
      BY <1>16, <2>1, QuietStep DEF IInv, Safe, vars
<1> QED
    BY <1>1, <1>2, <1>3, <1>4, <1>5, <1>6, <1>7, <1>8, <1>9, <1>10, <1>11, <1>12, <1>13,
       <1>14, <1>15, <1>16 DEF Next

\* The invariant holds of every behaviour.
THEOREM VaultInvariant == Spec => []IInv
BY InitIInv, StepIInv, PTL DEF Spec

\* Every value stays what the code can hold: epochs, calls, the timer of the idle lock.
THEOREM VaultTypeCorrect == Spec => []TypeOK
<1>1. IInv => TypeOK
    BY DEF IInv
<1> QED
    BY <1>1, VaultInvariant, PTL

\* Any number of processes that create the vault, change its password and store secrets,
\* with crashes anywhere, never leave a secret or a session under another key than the
\* one that the master password opens.
THEOREM VaultOneKey == Spec => []OneKey
<1>1. IInv => OneKey
    BY DEF IInv
<1> QED
    BY <1>1, VaultInvariant, PTL

\* A crash in a change of the password never locks the user out.
THEOREM VaultPasswordKnown == Spec => []PasswordKnown
<1>1. IInv => PasswordKnown
    BY DEF IInv
<1> QED
    BY <1>1, VaultInvariant, PTL

-----------------------------------------------------------------------------
(* The idle lock.                                                          *)

\* IdleLocks is not inductive: that the vault is locked in time rests on the timer that
\* runs until then.  What is left of it, and if no sweep has come between, the time gone by
\* as well, fit the limit, also while a call is in progress.
InTime(dek) ==
    dek # NoKey /\ limit > 0 =>
       excused \/ (timer # Off /\ timer <= limit /\ (swept \/ timer + idle <= limit))
IdleBound == InTime(session[Serve].dek)

\* A step that leaves serve's timer and key alone.
LEMMA UntimedStep ==
    ASSUME IdleBound, UNCHANGED <<limit, idleVars>>, session'[Serve].dek = session[Serve].dek
    PROVE  IdleBound'
BY DEF IdleBound, InTime, idleVars

\* The user has just done something with serve, and its timer is armed for what it has now.
LEMMA ArmedInTime ==
    ASSUME IInv, NEW dek, NEW seal, NEW ms \in Limits, limit' = ms, Armed(Serve, dek, seal, ms),
           Attended(Serve), session'[Serve].dek = dek
    PROVE  IdleBound'
<1>1. idle' = 0 /\ excused' = Enabled(seal) /\ ms \in Int /\ ms # Off
    BY BoundsAssumption, ValuesAssumption DEF Attended, Armed, Limits
<1>2. timer' = IF Enabled(seal) \/ dek = NoKey \/ ms = 0 THEN Off ELSE ms
    BY DEF Armed
<1>3. CASE Enabled(seal)
    BY <1>1, <1>3, Zenon DEF IdleBound, InTime
<1>4. CASE ~Enabled(seal)
  <2>1. dek # NoKey /\ ms > 0 => timer' = ms
      BY <1>1, <1>2, <1>4
  <2> QED
      BY <1>1, <2>1 DEF IdleBound, InTime
<1> QED
    BY <1>3, <1>4

LEMMA ApplyDekInTime ==
    ASSUME IInv, IdleBound, NEW p \in Process, NEW dek, NEW seal, ApplyDek(p, dek, seal),
           UNCHANGED limit
    PROVE  IdleBound'
<1>1. session' = [session EXCEPT ![p] = [dek |-> dek, call |-> NoCall]]
      /\ limit \in Limits /\ Armed(p, dek, seal, limit) /\ Attended(p)
    BY DEF ApplyDek, IInv, TypeOK
<1>2. Serve \in Process /\ DOMAIN session = Process
    BY ProcessAssumption DEF IInv, TypeOK
<1>3. CASE p = Serve
  <2>1. session'[Serve].dek = dek
      BY <1>1, <1>2, <1>3
  <2> QED
      BY <1>1, <1>3, <2>1, ArmedInTime
<1>4. CASE p # Serve
  <2>1. session'[Serve] = session[Serve]
      BY <1>1, <1>2, <1>4
  <2> QED
      BY <1>1, <1>4, <2>1, UntimedStep DEF Armed, Attended, idleVars
<1> QED
    BY <1>3, <1>4

LEMMA InitIdleBound == Init => IdleBound
<1>1. Init => session[Serve].dek = NoKey
    BY ProcessAssumption DEF Init
<1> QED
    BY <1>1 DEF IdleBound, InTime

LEMMA StepIdleBound == IInv /\ IdleBound /\ [Next]_vars => IdleBound'
<1> SUFFICES ASSUME IInv, IdleBound, [Next]_vars PROVE IdleBound'
    OBVIOUS
<1>1. /\ Serve \in Process /\ DOMAIN session = Process
      /\ \A p \in Process : DOMAIN session[p] = {"dek", "call"}
      /\ limit \in Limits
    BY ProcessAssumption DEF IInv, TypeOK
<1>2. ASSUME NEW p \in Process, NEW op, NEW epoch, NEW password, Begin(p, op, epoch, password)
      PROVE  session'[Serve].dek = session[Serve].dek
    BY <1>1, <1>2 DEF Begin
<1>3. ASSUME NEW p \in Process, session' = [session EXCEPT ![p].call = NoCall]
      PROVE  session'[Serve].dek = session[Serve].dek
    BY <1>1, <1>3
<1>4. CASE UnlockEnabling \/ EnableAutoUnlock
  <2>1. PICK op : Begin(Serve, op, meta.epoch, meta.password)
      BY <1>4 DEF UnlockEnabling, EnableAutoUnlock
  <2>2. UNCHANGED <<limit, idleVars>>
      BY <1>4 DEF UnlockEnabling, EnableAutoUnlock, serveVars
  <2> QED
      BY <1>1, <1>2, <2>1, <2>2, UntimedStep
<1>5. ASSUME NEW p \in Process, BeginInit(p) \/ BeginChange(p) \/ UpdateCrypto(p)
      PROVE  IdleBound'
  <2>1. PICK op, epoch, password : Begin(p, op, epoch, password)
      BY <1>5 DEF BeginInit, BeginChange, UpdateCrypto
  <2>2. UNCHANGED <<limit, idleVars>>
      BY <1>5 DEF BeginInit, BeginChange, UpdateCrypto, serveVars
  <2> QED
      BY <1>2, <2>1, <2>2, UntimedStep
<1>6. ASSUME NEW p \in Process, UnlockViaWindows(p) PROVE IdleBound'
  <2>1. UNCHANGED limit
      BY <1>6 DEF UnlockViaWindows, serveVars
  <2>2. CASE ApplyDek(p, meta.dek, material)
      BY <2>1, <2>2, ApplyDekInTime
  <2>3. CASE session' = [session EXCEPT ![p].call = NoCall] /\ UNCHANGED idleVars
      BY <1>3, <2>1, <2>3, UntimedStep
  <2> QED
      BY <1>6, <2>2, <2>3 DEF UnlockViaWindows
<1>7. CASE UnlockWithWindows \/ AttemptStartupAutoUnlock
  <2>1. CASE UnlockViaWindows(Serve)
      BY <1>1, <1>6, <2>1
  <2>2. CASE session' = [session EXCEPT ![Serve].call = NoCall] /\ UNCHANGED <<limit, idleVars>>
      BY <1>1, <1>3, <2>2, UntimedStep
  <2> QED
      BY <1>7, <2>1, <2>2 DEF UnlockWithWindows, AttemptStartupAutoUnlock, serveVars
<1>8. ASSUME NEW p \in Process, CreateMeta(p) PROVE IdleBound'
  <2>1. UNCHANGED limit
      BY <1>8 DEF CreateMeta, serveVars
  <2>2. CASE ApplyDek(p, p, material)
      BY <2>1, <2>2, ApplyDekInTime
  <2>3. CASE session' = [session EXCEPT ![p].call = NoCall] /\ UNCHANGED idleVars
      BY <1>3, <2>1, <2>3, UntimedStep
  <2> QED
      BY <1>8, <2>2, <2>3 DEF CreateMeta
<1>9. ASSUME NEW p \in Process, Unlock(p) \/ Reseal(p) PROVE IdleBound'
  <2>1. UNCHANGED limit /\ \E seal : ApplyDek(p, meta.dek, seal)
      BY <1>9 DEF Unlock, Reseal, serveVars
  <2> QED
      BY <2>1, ApplyDekInTime
<1>10. CASE SealAndOpen
  <2>1. UNCHANGED limit /\ \E seal : ApplyDek(Serve, meta.dek, seal)
      BY <1>10 DEF SealAndOpen, serveVars
  <2> QED
      BY <1>1, <2>1, ApplyDekInTime
<1>11. CASE SealAndSuppress
  <2>1. session' = [session EXCEPT ![Serve].call = NoCall] /\ UNCHANGED limit /\ idle' = 0
      BY <1>11 DEF SealAndSuppress, Attended, serveVars
  <2>2. session'[Serve].dek = session[Serve].dek
      BY <1>1, <1>3, <2>1
  <2>3. CASE timer' = Off /\ excused' = TRUE
      BY <2>3 DEF IdleBound, InTime
  <2>4. CASE UNCHANGED <<timer, excused>>
    <3>1. timer # Off => timer \in Int
        BY BoundsAssumption DEF IInv, TypeOK, Limits
    <3> QED
        BY <2>1, <2>2, <2>4, <3>1 DEF IdleBound, InTime
  <2> QED
      BY <1>11, <2>3, <2>4 DEF SealAndSuppress
<1>12. CASE DisableAutoUnlock
  <2>1. UNCHANGED <<session, limit>> /\ Attended(Serve)
      BY <1>12 DEF DisableAutoUnlock, serveVars
  <2>2. CASE Armed(Serve, session[Serve].dek, NoFile, limit)
      BY <1>1, <2>1, <2>2, ArmedInTime
  <2>3. CASE ~Unlocked(Serve)
      BY <2>1, <2>3 DEF IdleBound, InTime, Unlocked
  <2> QED
      BY <1>12, <2>2, <2>3 DEF DisableAutoUnlock
<1>13. ASSUME NEW p \in Process, AutoUnlockStatus(p) PROVE IdleBound'
    BY <1>13, UntimedStep DEF AutoUnlockStatus, serveVars
<1>14. CASE Sweep
  <2>1. UNCHANGED <<session, limit>> /\ swept' = TRUE
        /\ Armed(Serve, session[Serve].dek, material, limit)
      BY <1>14 DEF Sweep
  <2>2. excused' = Enabled(material)
        /\ timer' = IF Enabled(material) \/ session[Serve].dek = NoKey \/ limit = 0 THEN Off
                    ELSE limit
      BY <2>1 DEF Armed
  <2>3. limit \in Int /\ limit # Off
      BY <1>1, BoundsAssumption, ValuesAssumption DEF Limits
  <2>4. CASE Enabled(material)
      BY <2>2, <2>4, Zenon DEF IdleBound, InTime
  <2>5. CASE session[Serve].dek # NoKey /\ limit > 0 /\ ~Enabled(material)
    <3>1. timer' = limit
        BY <2>2, <2>3, <2>5
    <3> QED
        BY <2>1, <2>3, <3>1 DEF IdleBound, InTime
  <2> QED
      BY <2>1, <2>4, <2>5 DEF IdleBound, InTime
<1>15. CASE Tick
  <2>1. UNCHANGED <<session, limit, swept, excused>> /\ timer # 0
        /\ timer' = (IF timer = Off THEN Off ELSE timer - 1) /\ idle' \in {idle, idle + 1}
      BY <1>15 DEF Tick, serveVars
  <2>2. timer \in Limits \cup {Off} /\ idle \in Int /\ limit \in Int
      BY <1>1, BoundsAssumption DEF IInv, TypeOK, Limits
  <2>3. timer # Off => timer \in Int /\ timer - 1 # Off
      BY <2>2, ValuesAssumption, BoundsAssumption DEF Limits
  <2> QED
      BY <2>1, <2>2, <2>3 DEF IdleBound, InTime
<1>16. CASE SetAutoLock
  <2>1. PICK minutes \in Limits :
            /\ limit' = minutes
            /\ IF Unlocked(Serve) THEN Armed(Serve, session[Serve].dek, material, minutes)
               ELSE UNCHANGED <<timer, excused>>
      BY <1>16 DEF SetAutoLock
  <2>2. UNCHANGED session /\ Attended(Serve)
      BY <1>16 DEF SetAutoLock
  <2>3. CASE Armed(Serve, session[Serve].dek, material, minutes)
      BY <2>1, <2>2, <2>3, ArmedInTime
  <2>4. CASE ~Unlocked(Serve)
      BY <2>2, <2>4 DEF IdleBound, InTime, Unlocked
  <2> QED
      BY <2>1, <2>3, <2>4
<1>17. ASSUME NEW p \in Process, Lock(p) \/ Kill(p) PROVE IdleBound'
  <2>1. CASE p = Serve
    <3>1. session'[Serve].dek = NoKey
        BY <1>1, <1>17, <2>1 DEF Lock, Kill
    <3> QED
        BY <3>1 DEF IdleBound, InTime
  <2>2. CASE p # Serve
      BY <1>1, <1>17, <2>2, UntimedStep DEF Lock, Kill, serveVars, idleVars
  <2> QED
      BY <2>1, <2>2
<1>18. CASE IdleLock
    BY <1>1, <1>17, <1>18 DEF IdleLock
<1>19. ASSUME NEW p \in Process, WithDek(p) PROVE IdleBound'
  <2>1. UNCHANGED <<session, limit>> /\ Armed(p, session[p].dek, material, limit) /\ Attended(p)
      BY <1>19 DEF WithDek
  <2>2. CASE p = Serve
      BY <1>1, <2>1, <2>2, ArmedInTime
  <2>3. CASE p # Serve
      BY <2>1, <2>3, UntimedStep DEF Armed, Attended, idleVars
  <2> QED
      BY <2>2, <2>3
<1>20. CASE ProfileReset
    BY <1>20, UntimedStep DEF ProfileReset, serveVars
<1>21. CASE UNCHANGED vars
    BY <1>21, UntimedStep DEF vars, idleVars
<1> QED
    BY <1>4, <1>5, <1>7, <1>8, <1>9, <1>10, <1>11, <1>12, <1>13, <1>14, <1>15, <1>16,
       <1>17, <1>18, <1>19, <1>20, <1>21 DEF Next

\* A vault that nobody has used for the limit is locked, unless auto-unlock was on when the
\* timer was last looked after, or a sweep has used the key: no call of serve, and no other
\* process, leaves an open vault without the timer that armTimer gave it.
THEOREM VaultIdleLocks == Spec => []IdleLocks
<1>1. IInv /\ IdleBound => IdleLocks
  <2>1. SUFFICES ASSUME IInv, IdleBound, Unlocked(Serve), limit > 0, idle > limit,
                        ~(excused \/ swept)
                 PROVE  FALSE
      BY DEF IdleLocks
  <2>2. timer # Off /\ timer + idle <= limit
      BY <2>1 DEF IdleBound, InTime, Unlocked
  <2>3. timer \in Nat /\ idle \in Int /\ limit \in Int
      BY <2>1, <2>2, BoundsAssumption DEF IInv, TypeOK, Limits
  <2> QED
      BY <2>1, <2>2, <2>3
<1>2. Spec => []IdleBound
    BY InitIdleBound, StepIdleBound, VaultInvariant, PTL DEF Spec
<1> QED
    BY <1>1, <1>2, VaultInvariant, PTL

-----------------------------------------------------------------------------
(***************************************************************************)
(* The export and the restore.                                             *)
(*                                                                         *)
(* ExportInv follows a row from the old machine into the file: once the    *)
(* export is past its table, a row that was there all the time is in the   *)
(* file, with its key and its link. NewInv follows it from there: what a   *)
(* restore committed is what the file holds, as long as no other vault was *)
(* there first.                                                            *)
(***************************************************************************)
FileType == [rows : SUBSET Row, keys : [Transport -> KeyNo], passphrases : [Transport -> KeyNo],
             link : [Credential -> Linkable \cup {None}]]
StableType == [rows : SUBSET Row, keys : SUBSET Transport, links : SUBSET Credential]

ExportTypes ==
    /\ src \subseteq Row
    /\ link \in [Credential -> Linkable \cup {None}]
    /\ key \in [Transport -> KeyNo] /\ disk \subseteq Transport \X KeyNo
    /\ at \in 1 .. 6 /\ todo \subseteq Client /\ client \in Client \cup {None}
    /\ pending \subseteq Transport \X KeyNo /\ half \subseteq Transport
    /\ file \in FileType /\ stable \in StableType
    /\ edits \in 0 .. MaxEdits
    /\ unreadable \subseteq Repository \cup Target

\* Keys are numbered, and a transport that has one has had one ever since.
FewKeys == \A t \in Transport : key[t] <= edits + 1 /\ (t \in Keyed => key[t] >= 1)

\* Clients are listed at once; key files are read within the turn of their client.
Phases ==
    /\ todo \subseteq Client \ Later /\ Client \ Later \subseteq file.rows
    /\ client # None => client \in todo
    /\ client = None => pending = {} /\ half = {}
    /\ client = None /\ todo = {} => at \in 1 .. 5

\* In the file a transport comes with its client, a task of files with its repository.
FileIsClosed ==
    /\ \A t \in file.rows \cap Transport : Owner[t] \in file.rows
    /\ \A k \in file.rows \cap FileTask : Uses[k] \cap Repository \subseteq file.rows

\* What is stable was not added later, and a stable key is the one its path still names.
StableIsThere ==
    /\ stable.rows \subseteq src \ Later
    /\ \A t \in stable.keys : t \in Keyed /\ <<t, key[t]>> \in disk
    /\ \A p \in pending : p[1] \in stable.keys => p[2] = key[p[1]]

\* A row and all it cannot do without were there all the time.
Kept(r) == {r} \cup Needed(r) \subseteq stable.rows

\* The export is past the row's table, in the turn of its client if it has one.
HasBeenRead(r) ==
    \/ \E i \in 1 .. 6 : r \in OfClient[i] /\ (Owner[r] \in todo => Owner[r] = client /\ i < at)
    \/ \E i \in 1 .. 4 : r \in OfAll[i] /\ client = None /\ todo = {} /\ i < at

\* Rows, keys and links that were there all the time get into the file.
RowsAreSaved == \A r \in Row : Kept(r) /\ HasBeenRead(r) => r \in file.rows
KeysAreSaved ==
    \A t \in stable.keys \cap file.rows : file.keys[t] # 0 \/ \E p \in pending : p[1] = t
LinksAreSaved ==
    client = None /\ todo = {} /\ at > 2 => \A c \in stable.links : file.link[c] = link[c]

\* What an export in progress has, and what it has still to read.
ExportInv ==
    /\ ExportTypes /\ FewKeys /\ Phases /\ FileIsClosed /\ StableIsThere
    /\ RowsAreSaved /\ KeysAreSaved /\ LinksAreSaved

RestoreTypes ==
    /\ vault \in {"none", "own", "restored"}
    /\ new \in [Row -> 0 .. 1]
    /\ wired \subseteq Row \X Row
    /\ keyOf \in [Transport -> Restores \cup {None}]
    /\ keys \subseteq Restores \X Transport
    /\ taken \subseteq Client
    /\ calls \in [Restores -> Step]
    /\ told \subseteq Row
    /\ crashes \in 0 .. MaxCrashes

\* Nothing begins on the new machine before the file is complete.
AfterExport ==
    /\ \A p \in Restores : calls[p] # "idle" => Complete
    /\ keys # {} => Complete
    /\ vault # "none" => Complete

\* Key files come from the file; a call that is to commit has written all of them.
KeysAreOfFile ==
    /\ \A q \in keys : q[2] \in file.rows /\ file.keys[q[2]] # 0
    /\ \A p \in Restores : calls[p] = "commit" => ToWrite(p) = {}

\* A restore that committed put in its place what the file holds, the key files included.
AllIsThere ==
    vault = "restored" =>
        /\ Restores # {}
        /\ new = [r \in Row |-> IF r \in Restored(file) THEN 1 ELSE 0]
        /\ wired = Relinked(file) /\ told = Warned(file)
        /\ \A t \in RestoreTransports(file) \cap Keyed :
            /\ keyOf[t] \in Restores /\ <<keyOf[t], t>> \in keys
            /\ calls[keyOf[t]] = "idle"

\* And otherwise there is nothing.
NothingIsThere == vault # "restored" => new = [r \in Row |-> 0] /\ wired = {}

\* Without a crash, a key file is that of a call at work, of a restored transport or of a
\* transport whose client was there before.
KeysHaveOwners ==
    crashes = 0 =>
        \A q \in keys :
            \/ calls[q[1]] # "idle"
            \/ vault = "restored" /\ (keyOf[q[2]] = q[1] \/ Owner[q[2]] \in taken)

\* What the calls of a restore do to the new machine.
NewInv ==
    /\ RestoreTypes /\ AfterExport /\ KeysAreOfFile /\ AllIsThere /\ NothingIsThere
    /\ KeysHaveOwners

\* The three kinds of steps: edits and reads on the old machine, restores on the new one.
OldUnchanged ==
    UNCHANGED <<src, link, key, disk, unreadable, edits, stable, at, todo, client, pending,
                half, file>>
NewUnchanged == UNCHANGED <<vault, new, wired, keyOf, taken, told, keys, calls, crashes>>

EditStep ==
    \/ \E r \in Row : Add(r) \/ Remove(r)
    \/ \E t \in Transport : ReplaceKey(t)
    \/ \E c \in Credential, r \in Linkable \cup {None} : SetLink(c, r)
ReadStep == NextClient \/ ReadTable \/ ReadKey \/ ReadPassphrase \/ ReadGlobal
RestoreStep ==
    \/ \E p \in Restores :
        \/ BeginRestore(p) \/ WriteKey(p) \/ KeysWritten(p)
        \/ Commit(p) \/ RollBack(p) \/ Crash(p)
    \/ InitVault

-----------------------------------------------------------------------------
LEMMA TablesApart ==
    ASSUME KindsAssumption
    PROVE  /\ Client \cap (Owned \cup Destination) = {}
           /\ Destination \cap Owned = {}
           /\ BackupSet \cap (Transport \cup Connection \cup Task \cup Repository \cup FileTask
                              \cup Target \cup Credential \cup Item \cup Url) = {}
           /\ Transport \cap (Connection \cup Task \cup Repository \cup FileTask
                              \cup Target \cup Credential \cup Item \cup Url) = {}
           /\ Connection \cap (Task \cup Repository \cup FileTask
                              \cup Target \cup Credential \cup Item \cup Url) = {}
           /\ Task \cap (Repository \cup FileTask
                              \cup Target \cup Credential \cup Item \cup Url) = {}
           /\ Repository \cap (FileTask \cup Target \cup Credential \cup Item \cup Url) = {}
           /\ FileTask \cap (Target \cup Credential \cup Item \cup Url) = {}
           /\ Target \cap (Credential \cup Item \cup Url) = {}
           /\ Credential \cap (Item \cup Url) = {}
           /\ Item \cap Url = {}
<1>1. /\ DOMAIN Kinds = 1 .. 12
      /\ Kinds[1] = Client /\ Kinds[2] = BackupSet /\ Kinds[3] = Transport
      /\ Kinds[4] = Connection /\ Kinds[5] = Task /\ Kinds[6] = Repository
      /\ Kinds[7] = FileTask /\ Kinds[8] = Target /\ Kinds[9] = Destination
      /\ Kinds[10] = Credential /\ Kinds[11] = Item /\ Kinds[12] = Url
  BY DEF Kinds
<1>2. \A i, j \in 1 .. 12 : i # j => Kinds[i] \cap Kinds[j] = {}
  BY <1>1 DEF KindsAssumption
<1>3. ASSUME NEW i \in 1 .. 12, NEW j \in 1 .. 12, i # j
      PROVE  \A r : ~(r \in Kinds[i] /\ r \in Kinds[j])
  BY <1>2, <1>3
<1>a. \A j \in 2 .. 12 : \A r \in Client : r \notin Kinds[j]
  BY <1>1, <1>3
<1>b. \A j \in (1 .. 12) \ {9} : \A r \in Destination : r \notin Kinds[j]
  BY <1>1, <1>3
<1>c. \A j \in (1 .. 12) \ {2} : \A r \in BackupSet : r \notin Kinds[j]
  BY <1>1, <1>3
<1>d. \A j \in (1 .. 12) \ {3} : \A r \in Transport : r \notin Kinds[j]
  BY <1>1, <1>3
<1>e. \A j \in (1 .. 12) \ {4} : \A r \in Connection : r \notin Kinds[j]
  BY <1>1, <1>3
<1>f. \A j \in (1 .. 12) \ {5} : \A r \in Task : r \notin Kinds[j]
  BY <1>1, <1>3
<1>g. \A j \in (1 .. 12) \ {6} : \A r \in Repository : r \notin Kinds[j]
  BY <1>1, <1>3
<1>h. \A j \in (1 .. 12) \ {7} : \A r \in FileTask : r \notin Kinds[j]
  BY <1>1, <1>3
<1>i. \A j \in (1 .. 12) \ {8} : \A r \in Target : r \notin Kinds[j]
  BY <1>1, <1>3
<1>j. \A j \in (1 .. 12) \ {10} : \A r \in Credential : r \notin Kinds[j]
  BY <1>1, <1>3
<1>k. \A j \in (1 .. 12) \ {11} : \A r \in Item : r \notin Kinds[j]
  BY <1>1, <1>3
<1>4. Client \cap (Owned \cup Destination) = {}
  BY <1>a, <1>1 DEF Owned
<1>5. Destination \cap Owned = {}
  BY <1>b, <1>1 DEF Owned
<1>6. BackupSet \cap (Transport \cup Connection \cup Task \cup Repository \cup FileTask
                      \cup Target \cup Credential \cup Item \cup Url) = {}
  BY <1>c, <1>1
<1>7. Transport \cap (Connection \cup Task \cup Repository \cup FileTask
                      \cup Target \cup Credential \cup Item \cup Url) = {}
  BY <1>d, <1>1
<1>8. Connection \cap (Task \cup Repository \cup FileTask
                       \cup Target \cup Credential \cup Item \cup Url) = {}
  BY <1>e, <1>1
<1>9. Task \cap (Repository \cup FileTask \cup Target \cup Credential \cup Item \cup Url) = {}
  BY <1>f, <1>1
<1>10. Repository \cap (FileTask \cup Target \cup Credential \cup Item \cup Url) = {}
  BY <1>g, <1>1
<1>11. FileTask \cap (Target \cup Credential \cup Item \cup Url) = {}
  BY <1>h, <1>1
<1>12. Target \cap (Credential \cup Item \cup Url) = {}
  BY <1>i, <1>1
<1>13. Credential \cap (Item \cup Url) = {} /\ Item \cap Url = {}
  BY <1>j, <1>k, <1>1
<1> QED
  BY <1>4, <1>5, <1>6, <1>7, <1>8, <1>9, <1>10, <1>11, <1>12, <1>13

LEMMA Tables ==
    /\ Len(OfClient) = 6 /\ Len(OfAll) = 4
    /\ OfClient[1] = BackupSet \cup Transport /\ OfClient[2] = Connection
    /\ OfClient[3] = Task /\ OfClient[4] = Repository
    /\ OfClient[5] = FileTask /\ OfClient[6] = Target
    /\ OfAll[1] = Destination /\ OfAll[2] = Credential /\ OfAll[3] = Item /\ OfAll[4] = Url
BY DEF OfClient, OfAll

LEMMA TableRows ==
    /\ \A i \in 1 .. 6 : OfClient[i] \subseteq Owned /\ OfClient[i] \subseteq Row
    /\ \A i \in 1 .. 4 : OfAll[i] \subseteq Row
    /\ Owned \subseteq Row /\ Client \subseteq Row /\ Transport \subseteq Owned
<1>1. \A i \in 1 .. 6 : i \in {1, 2, 3, 4, 5, 6}
  OBVIOUS
<1>2. \A i \in 1 .. 4 : i \in {1, 2, 3, 4}
  OBVIOUS
<1> QED
  BY <1>1, <1>2, Tables DEF Row, Owned

\* What is done to the new machine begins when the export is complete.
LEMMA StepsApart ==
    /\ EditStep => NewUnchanged /\ ~Complete
    /\ ReadStep /\ Phases => NewUnchanged /\ ~Complete
    /\ RestoreStep => OldUnchanged
    /\ RestoreStep /\ AfterExport /\ RestoreTypes => Complete
    /\ TransferNext <=> EditStep \/ ReadStep \/ RestoreStep
<1>1. ASSUME EditStep PROVE NewUnchanged /\ ~Complete
  BY <1>1 DEF EditStep, Add, Remove, ReplaceKey, SetLink, Edit, NewUnchanged, machine
<1>2. ASSUME ReadStep, Phases PROVE NewUnchanged /\ ~Complete
  BY <1>2, Tables
     DEF Phases, ReadStep, NextClient, ReadTable, ReadKey, ReadPassphrase, ReadGlobal, Complete,
              NewUnchanged, machine
<1>3. RestoreStep => OldUnchanged
  BY DEF RestoreStep, BeginRestore, WriteKey, KeysWritten, Commit, RollBack, Crash, InitVault,
         OldUnchanged, old, export
<1>4. RestoreStep /\ AfterExport /\ RestoreTypes => Complete
  BY DEF RestoreStep, BeginRestore, WriteKey, KeysWritten, Commit, RollBack, Crash, InitVault,
         AfterExport
<1>5. TransferNext <=> EditStep \/ ReadStep \/ RestoreStep
  BY DEF TransferNext, EditStep, ReadStep, RestoreStep
<1> QED
  BY <1>1, <1>2, <1>3, <1>4, <1>5

-----------------------------------------------------------------------------
LEMMA ExportTypesInit ==
    ASSUME KindsAssumption, KeyedAssumption, LaterAssumption, TransferBoundsAssumption, TransferInit
    PROVE  ExportTypes
<1>1. /\ src \subseteq Row /\ link \in [Credential -> Linkable \cup {None}]
      /\ key \in [Transport -> KeyNo] /\ disk \subseteq Transport \X KeyNo
      /\ at \in 1 .. 6 /\ todo \subseteq Client /\ client \in Client \cup {None}
      /\ pending \subseteq Transport \X KeyNo /\ half \subseteq Transport
      /\ edits \in 0 .. MaxEdits
      /\ unreadable \subseteq Repository \cup Target
  <2>1. 0 \in KeyNo /\ 1 \in KeyNo
    BY TransferBoundsAssumption DEF KeyNo
  <2>2. disk \subseteq Transport \X KeyNo
    BY <2>1, KeyedAssumption DEF TransferInit
  <2> QED
    BY <2>1, <2>2, TransferBoundsAssumption DEF TransferInit
<1>2. file \in FileType
  BY TransferBoundsAssumption DEF TransferInit, FileType, KeyNo, Row
<1>3. stable \in StableType
  BY KeyedAssumption DEF TransferInit, StableType
<1> QED
  BY <1>1, <1>2, <1>3 DEF ExportTypes

LEMMA ExportTypesEdit ==
    ASSUME KeyedAssumption, LaterAssumption, TransferBoundsAssumption, ExportTypes, FewKeys,
           EditStep
    PROVE  ExportTypes' /\ FewKeys'
<1>1. ASSUME NEW r \in Row, Add(r) PROVE ExportTypes' /\ FewKeys'
  <2>1. disk' \subseteq Transport \X KeyNo
    BY <1>1, KeyedAssumption DEF Add, ExportTypes
  <2>2. edits' \in 0 .. MaxEdits /\ edits' = edits + 1
    BY <1>1, TransferBoundsAssumption DEF Add, Edit, ExportTypes
  <2>3. FewKeys'
    BY <1>1, <2>2 DEF Add, FewKeys, ExportTypes, KeyNo
  <2> QED
    BY <1>1, <2>1, <2>2, <2>3 DEF Add, ExportTypes, export
<1>2. ASSUME NEW r \in Row, Remove(r) PROVE ExportTypes' /\ FewKeys'
  <2>1. link' \in [Credential -> Linkable \cup {None}]
    BY <1>2 DEF Remove, ExportTypes
  <2>2. edits' \in 0 .. MaxEdits /\ edits' = edits + 1
    BY <1>2, TransferBoundsAssumption DEF Remove, Edit, ExportTypes
  <2>3. FewKeys'
    BY <1>2, <2>2 DEF Remove, FewKeys, ExportTypes, KeyNo
  <2>4. stable' \in StableType
    BY <1>2 DEF Remove, ExportTypes, StableType
  <2> QED
    BY <1>2, <2>1, <2>2, <2>3, <2>4 DEF Remove, ExportTypes, export
<1>3. ASSUME NEW t \in Transport, ReplaceKey(t) PROVE ExportTypes' /\ FewKeys'
  <2>2. edits' \in 0 .. MaxEdits /\ edits' = edits + 1 /\ edits < MaxEdits
    BY <1>3, TransferBoundsAssumption DEF ReplaceKey, Edit, ExportTypes
  <2>1. key[t] + 1 \in KeyNo
    BY <2>2, TransferBoundsAssumption DEF ExportTypes, FewKeys, KeyNo
  <2>3. key' \in [Transport -> KeyNo]
    BY <1>3, <2>1 DEF ReplaceKey, ExportTypes
  <2>4. FewKeys'
    BY <1>3, <2>2 DEF ReplaceKey, FewKeys, ExportTypes, KeyNo
  <2>5. stable' \in StableType
    BY <1>3 DEF ReplaceKey, ExportTypes, StableType
  <2>6. disk' \subseteq Transport \X KeyNo
    BY <1>3, <2>1 DEF ReplaceKey, ExportTypes
  <2> QED
    BY <1>3, <2>2, <2>3, <2>4, <2>5, <2>6 DEF ReplaceKey, ExportTypes, export
<1>4. ASSUME NEW c \in Credential, NEW r \in Linkable \cup {None}, SetLink(c, r)
      PROVE  ExportTypes' /\ FewKeys'
  <2>1. link' \in [Credential -> Linkable \cup {None}]
    BY <1>4 DEF SetLink, ExportTypes
  <2>2. edits' \in 0 .. MaxEdits /\ edits' = edits + 1
    BY <1>4, TransferBoundsAssumption DEF SetLink, Edit, ExportTypes
  <2>3. FewKeys'
    BY <1>4, <2>2 DEF SetLink, FewKeys, ExportTypes, KeyNo
  <2>4. stable' \in StableType
    BY <1>4 DEF SetLink, ExportTypes, StableType
  <2> QED
    BY <1>4, <2>1, <2>2, <2>3, <2>4 DEF SetLink, ExportTypes, export
<1> QED
  BY <1>1, <1>2, <1>3, <1>4 DEF EditStep

LEMMA ExportTypesRead ==
    ASSUME KeyedAssumption, TransferBoundsAssumption, ExportTypes, FewKeys, ReadStep
    PROVE  ExportTypes' /\ FewKeys'
<1>0. UNCHANGED old => FewKeys'
  BY DEF old, FewKeys
<1>1. CASE NextClient
  BY <1>0, <1>1 DEF NextClient, ExportTypes, old
<1>2. CASE ReadTable
  <2>1. file' \in FileType
    BY <1>2 DEF ReadTable, Listed, ExportTypes, FileType
  <2>2. pending' \subseteq Transport \X KeyNo
    BY <1>2, KeyedAssumption DEF ReadTable, ExportTypes
  <2>3. at' \in 1 .. 6
    BY <1>2, Tables DEF ReadTable, ExportTypes
  <2>4. todo' \subseteq Client /\ client' \in Client \cup {None}
    BY <1>2 DEF ReadTable, ExportTypes
  <2>5. half' \subseteq Transport /\ UNCHANGED <<old, stable>>
    BY <1>2 DEF ReadTable, ExportTypes
  <2> QED
    BY <1>0, <2>1, <2>2, <2>3, <2>4, <2>5 DEF ExportTypes, old
<1>3. CASE ReadKey
  <2>1. PICK p \in pending :
          /\ file' = [file EXCEPT !.keys[p[1]] = IF p \in disk THEN p[2] ELSE 0]
          /\ pending' = pending \ {p} /\ half' = {p[1]}
    BY <1>3 DEF ReadKey
  <2>2. p[1] \in Transport /\ p[2] \in KeyNo /\ 0 \in KeyNo
    BY <2>1, TransferBoundsAssumption DEF ExportTypes, KeyNo
  <2>3. file' \in FileType
    BY <2>1, <2>2 DEF ExportTypes, FileType
  <2> QED
    BY <1>0, <1>3, <2>1, <2>2, <2>3 DEF ReadKey, ExportTypes, old
<1>4. CASE ReadPassphrase
  <2>1. PICK t \in half : file' = [file EXCEPT !.passphrases[t] = key[t]]
    BY <1>4 DEF ReadPassphrase
  <2>2. file' \in FileType
    BY <2>1 DEF ExportTypes, FileType
  <2> QED
    BY <1>0, <1>4, <2>2 DEF ReadPassphrase, ExportTypes, old
<1>5. CASE ReadGlobal
  <2>1. at' \in 1 .. 6
    BY <1>5, Tables DEF ReadGlobal, ExportTypes
  <2>2. file' \in FileType
    BY <1>5 DEF ReadGlobal, ExportTypes, FileType
  <2> QED
    BY <1>0, <1>5, <2>1, <2>2 DEF ReadGlobal, ExportTypes, old
<1> QED
  BY <1>1, <1>2, <1>3, <1>4, <1>5 DEF ReadStep

-----------------------------------------------------------------------------
\* What the steps of the export do to the rows of the file.
LEMMA RowsStep ==
    ASSUME ExportTypes, EditStep \/ ReadStep
    PROVE  \/ /\ ReadTable
              /\ file'.rows = file.rows \cup Listed(client, OfClient[at])
              /\ file'.keys = file.keys /\ file'.link = file.link
           \/ /\ ReadGlobal
              /\ file'.rows = file.rows \cup (src \cap OfAll[at])
              /\ file'.keys = file.keys
              /\ file'.link = IF OfAll[at] = Credential THEN link ELSE file.link
           \/ /\ EditStep \/ NextClient \/ ReadKey \/ ReadPassphrase
              /\ file'.rows = file.rows /\ file'.link = file.link
<1>1. CASE EditStep
  BY <1>1 DEF EditStep, Add, Remove, ReplaceKey, SetLink, export
<1>2. CASE NextClient
  BY <1>2 DEF NextClient
<1>3. CASE ReadTable
  BY <1>3 DEF ReadTable, ExportTypes, FileType
<1>4. CASE ReadKey
  BY <1>4 DEF ReadKey, ExportTypes, FileType
<1>5. CASE ReadPassphrase
  BY <1>5 DEF ReadPassphrase, ExportTypes, FileType
<1>6. CASE ReadGlobal
  BY <1>6 DEF ReadGlobal, ExportTypes, FileType
<1> QED
  BY <1>1, <1>2, <1>3, <1>4, <1>5, <1>6 DEF ReadStep

LEMMA PhasesStep ==
    ASSUME KindsAssumption, KeyedAssumption, ExportTypes, Phases, EditStep \/ ReadStep
    PROVE  Phases'
<1>0. file.rows \subseteq file'.rows
  BY RowsStep
<1>1. CASE EditStep
  BY <1>1 DEF EditStep, Add, Remove, ReplaceKey, SetLink, export, Phases
<1>2. CASE NextClient
  BY <1>0, <1>2, KindsAssumption DEF NextClient, Phases, ExportTypes
<1>3. CASE ReadTable
  <2>1. at = 6 => pending' = {}
    BY <1>3, Tables, TablesApart, KeyedAssumption DEF ReadTable, Listed
  <2> QED
    BY <1>0, <1>3, <2>1, Tables DEF ReadTable, Phases
<1>4. CASE ReadKey
  BY <1>0, <1>4 DEF ReadKey, Phases
<1>5. CASE ReadPassphrase
  BY <1>0, <1>5 DEF ReadPassphrase, Phases
<1>6. CASE ReadGlobal
  BY <1>0, <1>6, Tables DEF ReadGlobal, Phases, ExportTypes
<1> QED
  BY <1>1, <1>2, <1>3, <1>4, <1>5, <1>6 DEF ReadStep

LEMMA FileIsClosedStep ==
    ASSUME KindsAssumption, UsesAssumption, ExportTypes, Phases, FileIsClosed,
           EditStep \/ ReadStep
    PROVE  FileIsClosed'
<1>1. CASE ReadTable
  <2> DEFINE rows == Listed(client, OfClient[at])
  <2>1. file'.rows = file.rows \cup rows
    BY <1>1, RowsStep DEF ReadTable, ReadGlobal
  <2>2. client \in file.rows
    BY <1>1 DEF ReadTable, Phases
  <2>3. \A r \in rows : Owner[r] = client
    BY DEF Listed
  <2>4. ASSUME NEW k \in rows \cap FileTask, NEW q \in Uses[k] \cap Repository
        PROVE  q \in file.rows
    <3>1. PICK q2 \in file.rows \cap Repository : Owner[q2] = client
      BY <2>4 DEF Listed
    <3>2. Owner[q] = Owner[k] /\ Owner[k] = client
      BY <2>3, <2>4, UsesAssumption
    <3> QED
      BY <3>1, <3>2, UsesAssumption
  <2> HIDE DEF rows
  <2>5. \A t \in file'.rows \cap Transport : Owner[t] \in file'.rows
    BY <2>1, <2>2, <2>3 DEF FileIsClosed
  <2>6. \A k \in file'.rows \cap FileTask : Uses[k] \cap Repository \subseteq file'.rows
    BY <2>1, <2>4 DEF FileIsClosed
  <2> QED
    BY <2>5, <2>6 DEF FileIsClosed
<1>2. CASE ReadGlobal
  <2>1. file'.rows = file.rows \cup (src \cap OfAll[at])
    BY <1>2, RowsStep DEF ReadTable, ReadGlobal
  <2>2. at \in {1, 2, 3, 4}
    BY <1>2, Tables DEF ReadGlobal, ExportTypes
  <2>3. OfAll[at] \cap (Transport \cup FileTask) = {}
    BY <2>2, Tables, TablesApart DEF Owned
  <2> QED
    BY <2>1, <2>3 DEF FileIsClosed
<1> QED
  BY <1>1, <1>2, RowsStep DEF FileIsClosed

LEMMA StableIsThereStep ==
    ASSUME KindsAssumption, KeyedAssumption, LaterAssumption, ExportTypes, Phases,
           StableIsThere, EditStep \/ ReadStep
    PROVE  StableIsThere'
<1>1. ASSUME NEW r \in Row, Add(r) PROVE StableIsThere'
  BY <1>1 DEF Add, StableIsThere, export
<1>2. ASSUME NEW r \in Row, Remove(r) PROVE StableIsThere'
  BY <1>2 DEF Remove, StableIsThere, export, ExportTypes, StableType
<1>3. ASSUME NEW t \in Transport, ReplaceKey(t) PROVE StableIsThere'
  <2>1. /\ stable'.rows = stable.rows /\ stable'.keys = stable.keys \ {t}
        /\ \A t2 \in Transport : t2 # t => key'[t2] = key[t2]
        /\ \A t2 \in Transport : t2 # t /\ <<t2, key[t2]>> \in disk => <<t2, key[t2]>> \in disk'
        /\ UNCHANGED <<src, pending>>
    BY <1>3 DEF ReplaceKey, ExportTypes, StableType, export
  <2> QED
    BY <2>1, KeyedAssumption DEF StableIsThere
<1>4. ASSUME NEW c \in Credential, NEW r \in Linkable \cup {None}, SetLink(c, r)
      PROVE  StableIsThere'
  BY <1>4 DEF SetLink, StableIsThere, export, ExportTypes, StableType
<1>5. CASE NextClient
  BY <1>5 DEF NextClient, StableIsThere, old
<1>6. CASE ReadTable
  BY <1>6 DEF ReadTable, StableIsThere, old
<1>7. CASE ReadKey
  BY <1>7 DEF ReadKey, StableIsThere, old
<1>8. CASE ReadPassphrase
  BY <1>8 DEF ReadPassphrase, StableIsThere, old
<1>9. CASE ReadGlobal
  BY <1>9 DEF ReadGlobal, StableIsThere, old
<1> QED
  BY <1>1, <1>2, <1>3, <1>4, <1>5, <1>6, <1>7, <1>8, <1>9 DEF EditStep, ReadStep

LEMMA StableShrinks ==
    ASSUME ExportTypes, EditStep \/ ReadStep
    PROVE  /\ stable'.rows \subseteq stable.rows /\ stable'.keys \subseteq stable.keys
           /\ stable'.links \subseteq stable.links
           /\ \A c \in stable'.links : link'[c] = link[c]
           /\ ReadStep => UNCHANGED <<src, link, key, disk, stable>>
<1>1. ReadStep => UNCHANGED <<src, link, key, disk, stable>>
  BY DEF ReadStep, NextClient, ReadTable, ReadKey, ReadPassphrase, ReadGlobal, old
<1>2. ASSUME NEW r \in Row, Add(r)
      PROVE  UNCHANGED <<stable, link>>
  BY <1>2 DEF Add
<1>3. ASSUME NEW r \in Row, Remove(r)
      PROVE  /\ stable'.rows \subseteq stable.rows /\ stable'.keys \subseteq stable.keys
             /\ stable'.links \subseteq stable.links
             /\ \A c \in stable'.links : link'[c] = link[c]
  BY <1>3 DEF Remove, ExportTypes, StableType
<1>4. ASSUME NEW t \in Transport, ReplaceKey(t)
      PROVE  /\ stable'.rows \subseteq stable.rows /\ stable'.keys \subseteq stable.keys
             /\ stable'.links \subseteq stable.links /\ link' = link
  BY <1>4 DEF ReplaceKey, ExportTypes, StableType
<1>5. ASSUME NEW c \in Credential, NEW r \in Linkable \cup {None}, SetLink(c, r)
      PROVE  /\ stable'.rows \subseteq stable.rows /\ stable'.keys \subseteq stable.keys
             /\ stable'.links \subseteq stable.links
             /\ \A c2 \in stable'.links : link'[c2] = link[c2]
  BY <1>5 DEF SetLink, ExportTypes, StableType
<1> QED
  BY <1>1, <1>2, <1>3, <1>4, <1>5 DEF EditStep

\* What a row of one table needs.
LEMMA NeededOf ==
    ASSUME KindsAssumption, OwnerAssumption, UsesAssumption
    PROVE  /\ \A r \in Client \cup Destination : Needed(r) = {}
           /\ \A r \in Repository \cup Linkable \cup BackupSet \cup Credential \cup Item \cup Url :
                Needed(r) = {Owner[r]}
           /\ \A r \in Task \cup FileTask \cup Target : Needed(r) = {Owner[r]} \cup Uses[r]
           /\ \A r \in Owned : Owner[r] \in Client /\ Owner[r] \in Needed(r)
           /\ \A r \in Task \cup FileTask \cup Target : \A q \in Uses[r] :
                q \in Linkable \cup Repository /\ Owner[q] = Owner[r]
<1>1. DOMAIN Uses = Task \cup FileTask \cup Target
  BY UsesAssumption
<1>2. \A r \in Client \cup Destination : r \notin Owned
  BY TablesApart
<1>3. \A r \in Client \cup Destination : r \notin DOMAIN Uses
  BY <1>1, TablesApart DEF Owned
<1>4. \A r \in Repository \cup Linkable \cup BackupSet \cup Credential \cup Item \cup Url :
        r \in Owned /\ r \notin DOMAIN Uses
  BY <1>1, TablesApart DEF Owned, Linkable
<1>5. \A r \in Task \cup FileTask \cup Target : r \in Owned
  BY DEF Owned
<1> QED
  BY <1>1, <1>2, <1>3, <1>4, <1>5, OwnerAssumption, UsesAssumption DEF Needed

\* What a row needs is kept if the row is, the needs of the needed included.
LEMMA NeededIsKept ==
    ASSUME KindsAssumption, OwnerAssumption, UsesAssumption, NEW r \in Row, Kept(r),
           NEW q \in Needed(r)
    PROVE  Kept(q) /\ q \in Row
<1>1. r \in Owned
  BY NeededOf DEF Row
<1>2. CASE q = Owner[r]
  BY <1>1, <1>2, NeededOf, TableRows DEF Kept
<1>3. CASE q # Owner[r]
  <2>1. r \in Task \cup FileTask \cup Target /\ q \in Uses[r]
    BY <1>1, <1>3, NeededOf DEF Owned, Linkable
  <2>2. q \in Linkable \cup Repository /\ Owner[q] = Owner[r]
    BY <2>1, NeededOf
  <2>3. Needed(q) = {Owner[r]}
    BY <2>2, NeededOf
  <2> QED
    BY <1>1, <2>2, <2>3, NeededOf DEF Kept, Row, Owned, Linkable
<1> QED
  BY <1>2, <1>3

LEMMA RowsAreSavedStep ==
    ASSUME KindsAssumption, OwnerAssumption, UsesAssumption, ExportTypes, Phases, StableIsThere,
           RowsAreSaved, EditStep \/ ReadStep
    PROVE  RowsAreSaved'
<1>1. \A r : Kept(r)' => Kept(r)
  BY StableShrinks DEF Kept, Needed
<1>2. file.rows \subseteq file'.rows
  BY RowsStep
<1>3. ASSUME UNCHANGED <<at, todo, client>> PROVE RowsAreSaved'
  BY <1>1, <1>2, <1>3 DEF RowsAreSaved, HasBeenRead
<1>4. CASE NextClient
  <2>1. /\ client = None /\ client' \in todo /\ at' = 1 /\ UNCHANGED todo
    BY <1>4 DEF NextClient
  <2>2. ASSUME NEW r, HasBeenRead(r)' PROVE HasBeenRead(r)
    <3>1. PICK i \in 1 .. 6 : r \in OfClient[i]
             /\ (Owner[r] \in todo' => Owner[r] = client' /\ i < at')
      BY <2>1, <2>2 DEF HasBeenRead
    <3> QED
      BY <2>1, <3>1 DEF HasBeenRead
  <2> QED
    BY <1>1, <1>2, <2>2 DEF RowsAreSaved
<1>5. CASE ReadTable
  <2> DEFINE rows == Listed(client, OfClient[at])
  <2>1. file'.rows = file.rows \cup rows
    BY <1>5, RowsStep DEF ReadTable, ReadGlobal
  <2>2. /\ client # None /\ client \in todo /\ at \in 1 .. 6
        /\ at = 6 => at' = 1 /\ client' = None /\ todo' = todo \ {client}
        /\ at # 6 => at' = at + 1 /\ client' = client /\ todo' = todo
    BY <1>5, Tables DEF ReadTable, Phases, ExportTypes
  <2>3. SUFFICES ASSUME NEW r \in Row, Kept(r), HasBeenRead(r)', ~HasBeenRead(r)
                 PROVE  r \in rows
    BY <1>1, <2>1 DEF RowsAreSaved
  <2>4. PICK i \in 1 .. 6 :
          r \in OfClient[i] /\ (Owner[r] \in todo' => Owner[r] = client' /\ i < at')
    BY <2>2, <2>3 DEF HasBeenRead
  <2>5. Owner[r] = client /\ i = at
    <3>1. Owner[r] \in todo /\ (Owner[r] = client => ~(i < at))
      BY <2>3, <2>4 DEF HasBeenRead
    <3>2. CASE at = 6
      BY <2>2, <2>4, <3>1, <3>2
    <3>3. CASE at # 6
      BY <2>2, <2>4, <3>1, <3>3
    <3> QED
      BY <3>2, <3>3
  <2>6. r \in src
    BY <2>3 DEF Kept, StableIsThere
  <2>7. ASSUME r \in FileTask PROVE \E q \in file.rows \cap Repository : Owner[q] = client
    <3>1. at = 5
      <4>1. i \in {1, 2, 3, 4, 5, 6}
        OBVIOUS
      <4> QED
        BY <2>4, <2>5, <2>7, <4>1, Tables, TablesApart
    <3>2. PICK q \in Repository : q \in Uses[r]
      BY <2>7, UsesAssumption
    <3>3. q \in Needed(r) /\ Owner[q] = client
      BY <2>5, <2>7, <3>2, NeededOf
    <3>4. Kept(q) /\ q \in Row
      BY <2>3, <3>3, NeededIsKept
    <3>5. HasBeenRead(q)
      <4>1. q \in OfClient[4] /\ 4 \in 1 .. 6 /\ 4 < at
        BY <3>1, <3>2, Tables
      <4> QED
        BY <3>3, <4>1 DEF HasBeenRead
    <3> QED
      BY <3>2, <3>3, <3>4, <3>5 DEF RowsAreSaved
  <2> QED
    BY <2>4, <2>5, <2>6, <2>7 DEF Listed
<1>6. CASE ReadGlobal
  <2>1. file'.rows = file.rows \cup (src \cap OfAll[at])
    BY <1>6, RowsStep DEF ReadTable, ReadGlobal
  <2>2. client = None /\ todo = {} /\ at \in 1 .. 4 /\ at' = at + 1 /\ UNCHANGED <<client, todo>>
    BY <1>6, Tables DEF ReadGlobal, ExportTypes
  <2>3. SUFFICES ASSUME NEW r \in Row, Kept(r), HasBeenRead(r)', ~HasBeenRead(r)
                 PROVE  r \in src \cap OfAll[at]
    BY <1>1, <2>1 DEF RowsAreSaved
  <2>4. \A i \in 1 .. 6 : r \notin OfClient[i]
    BY <2>2, <2>3 DEF HasBeenRead
  <2>5. PICK i \in 1 .. 4 : r \in OfAll[i] /\ i < at'
    BY <2>3, <2>4 DEF HasBeenRead
  <2>6. ~(i < at)
    BY <2>2, <2>3, <2>5 DEF HasBeenRead
  <2>7. i = at
    BY <2>2, <2>5, <2>6
  <2>8. r \in src
    BY <2>3 DEF Kept, StableIsThere
  <2> QED
    BY <2>5, <2>7, <2>8
<1>7. EditStep \/ ReadKey \/ ReadPassphrase => UNCHANGED <<at, todo, client>>
  BY DEF EditStep, Add, Remove, ReplaceKey, SetLink, export, ReadKey, ReadPassphrase
<1> QED
  BY <1>3, <1>4, <1>5, <1>6, <1>7 DEF ReadStep

LEMMA KeysAreSavedStep ==
    ASSUME KindsAssumption, KeyedAssumption, ExportTypes, FewKeys, Phases, StableIsThere,
           KeysAreSaved, EditStep \/ ReadStep
    PROVE  KeysAreSaved'
<1>1. CASE EditStep
  <2>1. UNCHANGED <<file, pending>>
    BY <1>1 DEF EditStep, Add, Remove, ReplaceKey, SetLink, export
  <2> QED
    BY <2>1, StableShrinks DEF KeysAreSaved
<1>2. CASE NextClient
  BY <1>2 DEF NextClient, KeysAreSaved
<1>3. CASE ReadTable
  <2> DEFINE rows == Listed(client, OfClient[at])
  <2>1. file'.rows = file.rows \cup rows /\ file'.keys = file.keys
    BY <1>3, RowsStep DEF ReadTable, ReadGlobal
  <2>2. pending = {} /\ pending' = {<<t, key[t]>> : t \in rows \cap Keyed} /\ stable' = stable
    BY <1>3 DEF ReadTable
  <2>3. ASSUME NEW t \in stable.keys, t \in rows PROVE \E p \in pending' : p[1] = t
    <3>1. <<t, key[t]>> \in pending'
      BY <2>2, <2>3 DEF StableIsThere
    <3> QED
      BY <3>1
  <2> HIDE DEF rows
  <2> QED
    BY <2>1, <2>2, <2>3 DEF KeysAreSaved
<1>4. CASE ReadKey
  <2>1. PICK p \in pending :
          /\ file' = [file EXCEPT !.keys[p[1]] = IF p \in disk THEN p[2] ELSE 0]
          /\ pending' = pending \ {p}
    BY <1>4 DEF ReadKey
  <2>2. p[1] \in Transport /\ p = <<p[1], p[2]>>
    BY DEF ExportTypes
  <2>3. file'.rows = file.rows /\ stable' = stable
    BY <1>4, <2>1 DEF ReadKey, ExportTypes, FileType
  <2>4. /\ file'.keys[p[1]] = IF p \in disk THEN p[2] ELSE 0
        /\ \A t \in Transport : t # p[1] => file'.keys[t] = file.keys[t]
    BY <2>1, <2>2 DEF ExportTypes, FileType
  <2>5. ASSUME NEW t \in stable.keys \cap file.rows, t = p[1] PROVE file'.keys[t] # 0
    <3>1. p[2] = key[t] /\ p \in disk
      BY <2>2, <2>5 DEF StableIsThere
    <3>2. key[t] >= 1 /\ key[t] \in Nat
      BY <2>2, <2>5, KeyedAssumption DEF FewKeys, StableIsThere, ExportTypes, KeyNo
    <3> QED
      BY <2>4, <2>5, <3>1, <3>2
  <2>6. ASSUME NEW t \in stable.keys \cap file.rows, t # p[1]
        PROVE  file'.keys[t] # 0 \/ \E q \in pending' : q[1] = t
    <3>1. t \in Transport
      BY DEF ExportTypes, StableType
    <3> QED
      BY <2>1, <2>4, <2>6, <3>1 DEF KeysAreSaved
  <2> QED
    BY <2>3, <2>5, <2>6 DEF KeysAreSaved
<1>5. CASE ReadPassphrase
  BY <1>5 DEF ReadPassphrase, KeysAreSaved, ExportTypes, FileType
<1>6. CASE ReadGlobal
  <2>1. file'.rows = file.rows \cup (src \cap OfAll[at]) /\ file'.keys = file.keys
    BY <1>6, RowsStep DEF ReadTable, ReadGlobal
  <2>2. at \in {1, 2, 3, 4}
    BY <1>6, Tables DEF ReadGlobal, ExportTypes
  <2>3. OfAll[at] \cap Transport = {}
    BY <2>2, Tables, TablesApart DEF Owned
  <2>4. UNCHANGED <<stable, pending>> /\ stable.keys \subseteq Transport
    BY <1>6 DEF ReadGlobal, ExportTypes, StableType
  <2> QED
    BY <2>1, <2>3, <2>4 DEF KeysAreSaved
<1> QED
  BY <1>1, <1>2, <1>3, <1>4, <1>5, <1>6 DEF ReadStep

LEMMA LinksAreSavedStep ==
    ASSUME ExportTypes, LinksAreSaved, EditStep \/ ReadStep
    PROVE  LinksAreSaved'
<1>1. ASSUME UNCHANGED <<at, todo, client>>, file'.link = file.link PROVE LinksAreSaved'
  BY <1>1, StableShrinks DEF LinksAreSaved
<1>2. EditStep \/ ReadKey \/ ReadPassphrase => UNCHANGED <<at, todo, client>>
  BY DEF EditStep, Add, Remove, ReplaceKey, SetLink, export, ReadKey, ReadPassphrase
<1>3. CASE EditStep
  BY <1>1, <1>2, <1>3, RowsStep DEF EditStep, Add, Remove, ReplaceKey, SetLink, export
<1>4. CASE ReadKey
  BY <1>1, <1>2, <1>4 DEF ReadKey, ExportTypes, FileType
<1>5. CASE ReadPassphrase
  BY <1>1, <1>2, <1>5 DEF ReadPassphrase, ExportTypes, FileType
<1>6. CASE NextClient
  BY <1>6 DEF NextClient, LinksAreSaved
<1>7. CASE ReadTable
  <2>1. client' = None => at' = 1
    BY <1>7 DEF ReadTable
  <2> QED
    BY <2>1 DEF LinksAreSaved
<1>8. CASE ReadGlobal
  <2>1. /\ file'.link = IF OfAll[at] = Credential THEN link ELSE file.link
        /\ at' = at + 1 /\ client = None /\ todo = {} /\ at \in 1 .. 4
        /\ UNCHANGED <<todo, client, stable, link>>
    BY <1>8, Tables DEF ReadGlobal, ExportTypes, FileType, old
  <2>2. CASE at = 2
    BY <2>1, <2>2, Tables DEF LinksAreSaved
  <2>3. CASE at > 2
    BY <2>1, <2>3 DEF LinksAreSaved
  <2>4. CASE at < 2
    BY <2>1, <2>4 DEF LinksAreSaved
  <2> QED
    BY <2>1, <2>2, <2>3, <2>4
<1> QED
  BY <1>3, <1>4, <1>5, <1>6, <1>7, <1>8 DEF ReadStep

\* What VaultTransfer assumes of its constants.
Assumed ==
    /\ KindsAssumption /\ KeyedAssumption /\ OwnerAssumption /\ UsesAssumption
    /\ LaterAssumption /\ TransferBoundsAssumption

LEMMA ConstantsFit == Assumed
BY KindsAssumption, KeyedAssumption, OwnerAssumption, UsesAssumption, LaterAssumption,
   TransferBoundsAssumption DEF Assumed

LEMMA ExportInvInit ==
    ASSUME Assumed, TransferInit
    PROVE  ExportInv
<1> USE DEF Assumed
<1>1. ExportTypes
  BY ExportTypesInit
<1>2. FewKeys
  BY KeyedAssumption DEF TransferInit, FewKeys
<1>3. Phases
  BY DEF TransferInit, Phases
<1>4. FileIsClosed
  BY TablesApart DEF TransferInit, FileIsClosed, Owned
<1>5. StableIsThere
  BY KeyedAssumption DEF TransferInit, StableIsThere
<1>6. RowsAreSaved
  <2>1. ASSUME NEW r \in Row, Kept(r), HasBeenRead(r) PROVE FALSE
    <3>1. r \in Row \ Later /\ todo = Client \ Later /\ client = None /\ at = 1
      BY <2>1 DEF TransferInit, Kept
    <3>2. PICK i \in 1 .. 6 : r \in OfClient[i] /\ (Owner[r] \in todo => Owner[r] = client)
      BY <2>1, <3>1 DEF HasBeenRead
    <3>3. r \in Owned
      BY <3>2, TableRows
    <3>4. Owner[r] \in Client \ Later
      BY <2>1, <3>3, NeededOf DEF TransferInit, Kept
    <3> QED
      BY <3>1, <3>2, <3>4, KindsAssumption, TransferBoundsAssumption DEF Row
  <2> QED
    BY <2>1 DEF RowsAreSaved
<1>7. KeysAreSaved
  BY TablesApart, KeyedAssumption DEF TransferInit, KeysAreSaved, Owned
<1>8. LinksAreSaved
  BY DEF TransferInit, LinksAreSaved
<1> QED
  BY <1>1, <1>2, <1>3, <1>4, <1>5, <1>6, <1>7, <1>8 DEF ExportInv

LEMMA ExportInvStep ==
    ASSUME Assumed, ExportInv, [TransferNext]_transferVars
    PROVE  ExportInv'
<1>1. CASE EditStep \/ ReadStep
  <2> USE <1>1 DEF Assumed, ExportInv
  <2>1. ExportTypes' /\ FewKeys'
    BY ExportTypesEdit, ExportTypesRead
  <2>2. Phases' /\ FileIsClosed'
    BY PhasesStep, FileIsClosedStep
  <2>3. StableIsThere' /\ RowsAreSaved'
    BY StableIsThereStep, RowsAreSavedStep
  <2>4. KeysAreSaved' /\ LinksAreSaved'
    BY KeysAreSavedStep, LinksAreSavedStep
  <2> QED
    BY <2>1, <2>2, <2>3, <2>4
<1>2. ASSUME OldUnchanged PROVE ExportInv'
  BY <1>2 DEF OldUnchanged, ExportInv, ExportTypes, FewKeys, Phases, FileIsClosed, StableIsThere,
     RowsAreSaved, Kept, HasBeenRead, Needed, KeysAreSaved, LinksAreSaved
<1>3. UNCHANGED transferVars => OldUnchanged
  BY DEF transferVars, old, export, OldUnchanged
<1> QED
  BY <1>1, <1>2, <1>3, StepsApart

-----------------------------------------------------------------------------
\* What a restore makes of a file.
LEMMA RestoredOf ==
    ASSUME KindsAssumption, KeyedAssumption
    PROVE  /\ Restored(file) \subseteq file.rows
           /\ Restored(file) \cap Transport = RestoreTransports(file)
           /\ Restored(file) \cap Connection = RestoreConnections(file)
           /\ Restored(file) \cap Repository = RestoreRepositories(file)
           /\ RestoreClients(file) \subseteq Restored(file)
           /\ RestoreTransports(file) \subseteq Transport
<1> USE DEF RestoreSets, RestoreTransports, RestoreConnections, RestoreTasks,
            RestoreRepositories, RestoreFileTasks, RestoreTargets, RestoreDestinations,
            RestoreCredentials, RestoreUrls, RestoreItems, Of
<1>1. Restored(file) \subseteq file.rows
  BY DEF Restored, RestoreClients
<1>2. Restored(file) \cap Transport = RestoreTransports(file)
  BY TablesApart DEF Restored, Owned, RestoreClients
<1>3. Restored(file) \cap Connection = RestoreConnections(file)
  BY TablesApart DEF Restored, Owned, RestoreClients
<1>4. Restored(file) \cap Repository = RestoreRepositories(file)
  BY TablesApart DEF Restored, Owned, RestoreClients
<1> QED
  BY <1>1, <1>2, <1>3, <1>4 DEF Restored

LEMMA RestoredNeeds ==
    ASSUME KindsAssumption, KeyedAssumption, OwnerAssumption, UsesAssumption
    PROVE  \A r \in Restored(file) : Needed(r) \subseteq Restored(file)
<1> DEFINE Some == RestoreSets(file) \cup RestoreTransports(file) \cup RestoreConnections(file)
                   \cup RestoreRepositories(file) \cup RestoreCredentials(file)
                   \cup RestoreUrls(file) \cup RestoreItems(file)
           Users == RestoreTasks(file) \cup RestoreFileTasks(file) \cup RestoreTargets(file)
<1>1. Restored(file) = RestoreClients(file) \cup RestoreDestinations(file) \cup Some \cup Users
  BY DEF Restored
<1>2. ASSUME NEW r \in RestoreClients(file) \cup RestoreDestinations(file)
      PROVE  Needed(r) = {}
  BY NeededOf DEF RestoreClients, RestoreDestinations
<1>3. ASSUME NEW r \in Some \cup Users
      PROVE  Owner[r] \in RestoreClients(file)
  BY DEF RestoreSets, RestoreTransports, RestoreConnections, RestoreTasks,
         RestoreRepositories, RestoreFileTasks, RestoreTargets, RestoreCredentials, RestoreUrls,
         RestoreItems, Of
<1>4. ASSUME NEW r \in Some
      PROVE  Needed(r) = {Owner[r]}
  BY NeededOf DEF RestoreSets, RestoreTransports, RestoreConnections, RestoreRepositories,
         RestoreCredentials, RestoreUrls, RestoreItems, Of, Linkable
<1>5. ASSUME NEW r \in Users
      PROVE  /\ Needed(r) = {Owner[r]} \cup Uses[r]
             /\ Uses[r] \subseteq RestoreTransports(file) \cup RestoreConnections(file)
                                  \cup RestoreRepositories(file)
  BY NeededOf DEF RestoreTasks, RestoreFileTasks, RestoreTargets, Of
<1> HIDE DEF Some, Users
<1>6. RestoreTransports(file) \cup RestoreConnections(file) \cup RestoreRepositories(file)
        \subseteq Restored(file)
  BY DEF Restored
<1> QED
  BY <1>1, <1>2, <1>3, <1>4, <1>5, <1>6, RestoredOf

\* A link that is restored leads from a row that is restored to another.
LEMMA RelinkedOf ==
    /\ \A e \in Relinked(file) : {e[1], e[2]} \subseteq Restored(file)
    /\ Relinked(file) \subseteq Restored(file) \X Restored(file)
<1>1. ASSUME NEW e \in Relinked(file)
      PROVE  /\ {e[1], e[2]} \subseteq Restored(file)
             /\ e = <<e[1], e[2]>>
  <2>1. CASE \E c \in RestoreCredentials(file) :
               /\ e = <<c, file.link[c]>>
               /\ file.link[c] \in RestoreTransports(file) \cup RestoreConnections(file)
    BY <2>1 DEF Restored
  <2>2. CASE \E u \in RestoreUrls(file) :
               e = <<u, Names[u]>> /\ Names[u] \in RestoreCredentials(file)
    BY <2>2 DEF Restored
  <2> QED
    BY <2>1, <2>2 DEF Relinked
<1> QED
  BY <1>1

-----------------------------------------------------------------------------
LEMMA NewInvInit ==
    ASSUME Assumed, TransferInit
    PROVE  NewInv
<1>1. MaxCrashes \in Nat
  BY DEF Assumed, TransferBoundsAssumption
<1>2. RestoreTypes
  BY <1>1 DEF TransferInit, RestoreTypes, Step
<1> QED
  BY <1>2 DEF TransferInit, NewInv, AfterExport, KeysAreOfFile, AllIsThere, NothingIsThere,
      KeysHaveOwners

\* While the export goes on there is nothing on the new machine.
LEMMA NewInvExport ==
    ASSUME Assumed, ExportInv, NewInv, EditStep \/ ReadStep
    PROVE  NewInv'
<1>1. NewUnchanged /\ ~Complete
  BY StepsApart DEF ExportInv
<1>2. /\ \A p \in Restores : calls[p] = "idle"
      /\ keys = {} /\ vault = "none"
  BY <1>1 DEF NewInv, AfterExport
<1> QED
  BY <1>1, <1>2 DEF NewUnchanged, NewInv, RestoreTypes, AfterExport, KeysAreOfFile,
     AllIsThere, NothingIsThere, KeysHaveOwners

\* The definitions that only read the file are not changed by a restore.
LEMMA SameFile ==
    ASSUME OldUnchanged, UNCHANGED taken
    PROVE  /\ Complete' = Complete
           /\ Restored(file)' = Restored(file) /\ Relinked(file)' = Relinked(file)
           /\ Warned(file)' = Warned(file)
           /\ RestoreTransports(file)' = RestoreTransports(file)
BY DEF OldUnchanged, Complete, Restored, Relinked, Warned, RestoreClients, RestoreSets,
       RestoreTransports, RestoreConnections, RestoreTasks, RestoreRepositories, RestoreFileTasks,
       RestoreTargets, RestoreDestinations, RestoreCredentials, RestoreUrls, RestoreItems, Of

\* What holds when a call ends without having restored anything.
LEMMA NewInvBegin ==
    ASSUME Assumed, NewInv, NEW p \in Restores, BeginRestore(p)
    PROVE  NewInv'
<1>0. OldUnchanged /\ UNCHANGED taken
  BY StepsApart DEF RestoreStep, BeginRestore, machine
<1>1. /\ Complete /\ calls[p] = "idle" /\ vault = "none"
      /\ calls' = [calls EXCEPT ![p] = "keys"]
      /\ UNCHANGED <<vault, new, wired, keyOf, taken, told, keys, crashes>>
  BY DEF BeginRestore, machine
<1>2. RestoreTypes'
  BY <1>1 DEF NewInv, RestoreTypes, Step
<1>3. AfterExport'
  BY <1>0, <1>1, SameFile DEF AfterExport
<1>4. \A p2 \in Restores : calls'[p2] = "commit" => calls[p2] = "commit"
  BY <1>1 DEF NewInv, RestoreTypes
<1>5. KeysAreOfFile'
  BY <1>0, <1>1, <1>4 DEF NewInv, KeysAreOfFile, ToWrite, OldUnchanged
<1>6. AllIsThere' /\ NothingIsThere'
  BY <1>1 DEF NewInv, AllIsThere, NothingIsThere
<1>7. KeysHaveOwners'
  BY <1>1 DEF NewInv, RestoreTypes, KeysHaveOwners
<1> QED
  BY <1>2, <1>3, <1>5, <1>6, <1>7 DEF NewInv

LEMMA NewInvWriteKey ==
    ASSUME Assumed, NewInv, NEW p \in Restores, WriteKey(p)
    PROVE  NewInv'
<1>0. OldUnchanged /\ UNCHANGED taken
  BY StepsApart DEF RestoreStep, WriteKey, machine
<1>1. PICK t \in ToWrite(p) : keys' = keys \cup {<<p, t>>}
  BY DEF WriteKey
<1>2. /\ calls[p] = "keys"
      /\ UNCHANGED <<vault, new, wired, keyOf, taken, told, calls, crashes>>
  BY DEF WriteKey, machine
<1>3. t \in file.rows \cap Transport /\ file.keys[t] # 0
  BY DEF ToWrite
<1>4. RestoreTypes'
  BY <1>1, <1>2, <1>3 DEF NewInv, RestoreTypes
<1>5. AfterExport'
  BY <1>0, <1>2, SameFile DEF NewInv, AfterExport
<1>6. KeysAreOfFile'
  <2>1. \A q \in keys' : q[2] \in file'.rows /\ file'.keys[q[2]] # 0
    BY <1>0, <1>1, <1>3 DEF NewInv, KeysAreOfFile, OldUnchanged
  <2>2. \A p2 \in Restores : ToWrite(p2)' \subseteq ToWrite(p2)
    BY <1>0, <1>1 DEF ToWrite, OldUnchanged
  <2> QED
    BY <1>2, <2>1, <2>2 DEF NewInv, KeysAreOfFile
<1>7. AllIsThere' /\ NothingIsThere'
  <2>1. keys \subseteq keys'
    BY <1>1
  <2> QED
    BY <1>0, <1>2, <2>1, SameFile DEF NewInv, AllIsThere, NothingIsThere
<1>8. KeysHaveOwners'
  BY <1>1, <1>2 DEF NewInv, KeysHaveOwners
<1> QED
  BY <1>4, <1>5, <1>6, <1>7, <1>8 DEF NewInv

LEMMA NewInvKeysWritten ==
    ASSUME Assumed, NewInv, NEW p \in Restores, KeysWritten(p)
    PROVE  NewInv'
<1>0. OldUnchanged /\ UNCHANGED taken
  BY StepsApart DEF RestoreStep, KeysWritten, machine
<1>1. /\ calls[p] = "keys" /\ ToWrite(p) = {}
      /\ calls' = [calls EXCEPT ![p] = "commit"]
      /\ UNCHANGED <<vault, new, wired, keyOf, taken, told, keys, crashes>>
  BY DEF KeysWritten, machine
<1>2. \A p2 \in Restores :
        /\ p2 # p => calls'[p2] = calls[p2]
        /\ calls'[p] = "commit"
  BY <1>1 DEF NewInv, RestoreTypes
<1>3. RestoreTypes'
  BY <1>1 DEF NewInv, RestoreTypes, Step
<1>4. AfterExport'
  BY <1>0, <1>1, <1>2, SameFile DEF NewInv, AfterExport
<1>5. KeysAreOfFile'
  <2>1. \A p2 \in Restores : ToWrite(p2)' = ToWrite(p2)
    BY <1>0, <1>1 DEF ToWrite, OldUnchanged
  <2> QED
    BY <1>0, <1>1, <1>2, <2>1 DEF NewInv, KeysAreOfFile, OldUnchanged
<1>6. AllIsThere' /\ NothingIsThere'
  BY <1>0, <1>1, <1>2, SameFile DEF NewInv, AllIsThere, NothingIsThere
<1>7. KeysHaveOwners'
  BY <1>1, <1>2 DEF NewInv, RestoreTypes, KeysHaveOwners
<1> QED
  BY <1>3, <1>4, <1>5, <1>6, <1>7 DEF NewInv

\* A call that ends, its keys deleted or not: the keys of the others stay.
LEMMA NewInvEnd ==
    ASSUME Assumed, NewInv, NEW p \in Restores, calls[p] # "idle",
           calls' = [calls EXCEPT ![p] = "idle"],
           OldUnchanged, UNCHANGED <<vault, new, wired, keyOf, taken, told>>,
           keys' \subseteq keys, \A q \in keys : q[1] # p => q \in keys',
           crashes' \in 0 .. MaxCrashes,
           crashes' = 0 => crashes = 0 /\ \A q \in keys' : q[1] # p
    PROVE  NewInv'
<1>1. \A p2 \in Restores :
        /\ p2 # p => calls'[p2] = calls[p2]
        /\ calls'[p] = "idle"
  BY DEF NewInv, RestoreTypes
<1>2. RestoreTypes'
  BY DEF NewInv, RestoreTypes, Step
<1>3. AfterExport'
  BY <1>1, SameFile DEF NewInv, AfterExport
<1>4. KeysAreOfFile'
  <2>1. \A p2 \in Restores : p2 # p => ToWrite(p2)' \subseteq ToWrite(p2)
    BY DEF ToWrite, OldUnchanged
  <2> QED
    BY <1>1, <2>1 DEF NewInv, KeysAreOfFile, OldUnchanged
<1>5. AllIsThere' /\ NothingIsThere'
  <2>1. \A t \in RestoreTransports(file) \cap Keyed :
          vault = "restored" =>
            keyOf[t] # p /\ <<keyOf[t], t>> \in keys' /\ calls'[keyOf[t]] = "idle"
    BY <1>1 DEF NewInv, AllIsThere
  <2> QED
    BY <2>1, SameFile DEF NewInv, AllIsThere, NothingIsThere
<1>6. KeysHaveOwners'
  <2>1. \A q \in keys' : q[1] \in Restores
    BY DEF NewInv, RestoreTypes
  <2> QED
    BY <1>1, <2>1 DEF NewInv, KeysHaveOwners
<1> QED
  BY <1>2, <1>3, <1>4, <1>5, <1>6 DEF NewInv

LEMMA NewInvCommit ==
    ASSUME Assumed, ExportInv, NewInv, NEW p \in Restores, Commit(p)
    PROVE  NewInv'
<1>0. OldUnchanged /\ UNCHANGED taken
  BY StepsApart DEF RestoreStep, Commit
<1>1. /\ calls[p] = "commit" /\ vault = "none" /\ vault' = "restored"
      /\ new' = [r \in Row |-> IF r \in Restored(file) THEN new[r] + 1 ELSE new[r]]
      /\ wired' = Relinked(file) /\ told' = Warned(file)
      /\ keyOf' = [t \in Transport |-> IF t \in RestoreTransports(file) THEN p ELSE keyOf[t]]
      /\ calls' = [calls EXCEPT ![p] = "idle"]
      /\ UNCHANGED <<keys, taken, crashes>>
  BY DEF Commit
<1>2. \A p2 \in Restores :
        /\ p2 # p => calls'[p2] = calls[p2]
        /\ calls'[p] = "idle"
  BY <1>1 DEF NewInv, RestoreTypes
<1>3. new = [r \in Row |-> 0]
  BY <1>1 DEF NewInv, NothingIsThere
<1>4. new' = [r \in Row |-> IF r \in Restored(file) THEN 1 ELSE 0]
  BY <1>1, <1>3
<1>5. file.rows \subseteq Row
  BY DEF ExportInv, ExportTypes, FileType
<1>6. RestoreTypes'
  <2>1. wired' \subseteq Row \X Row
    BY <1>1, <1>5, RelinkedOf, RestoredOf DEF Assumed
  <2>2. told' \subseteq Row
    BY <1>1, <1>5 DEF Warned, Of
  <2>3. new' \in [Row -> 0 .. 1]
    BY <1>4
  <2>4. keyOf' \in [Transport -> Restores \cup {None}] /\ calls' \in [Restores -> Step]
    BY <1>1 DEF NewInv, RestoreTypes, Step
  <2> QED
    BY <1>1, <2>1, <2>2, <2>3, <2>4 DEF NewInv, RestoreTypes
<1>7. AfterExport'
  BY <1>0, <1>1, <1>2, SameFile DEF NewInv, AfterExport
<1>8. KeysAreOfFile'
  <2>1. \A p2 \in Restores : ToWrite(p2)' = ToWrite(p2)
    BY <1>0, <1>1 DEF ToWrite, OldUnchanged
  <2> QED
    BY <1>0, <1>1, <1>2, <2>1 DEF NewInv, KeysAreOfFile, OldUnchanged
<1>9. AllIsThere'
  <2>1. ASSUME NEW t \in RestoreTransports(file) \cap Keyed
        PROVE  keyOf'[t] = p /\ <<p, t>> \in keys
    <3>1. t \in file.rows \cap Transport /\ file.keys[t] # 0
      BY DEF RestoreTransports, Of
    <3>2. ToWrite(p) = {}
      BY <1>1 DEF NewInv, KeysAreOfFile
    <3> QED
      BY <1>1, <3>1, <3>2 DEF ToWrite
  <2>2. /\ Restored(file)' = Restored(file) /\ Relinked(file)' = Relinked(file)
        /\ Warned(file)' = Warned(file)
        /\ RestoreTransports(file)' = RestoreTransports(file)
    BY <1>0, SameFile
  <2>3. new' = [r \in Row |-> IF r \in Restored(file)' THEN 1 ELSE 0]
    BY <1>4, <2>2
  <2>4. ASSUME NEW t \in RestoreTransports(file) \cap Keyed
        PROVE  /\ keyOf'[t] \in Restores /\ <<keyOf'[t], t>> \in keys'
               /\ calls'[keyOf'[t]] = "idle"
    <3>1. keyOf'[t] = p /\ <<p, t>> \in keys
      BY <2>1
    <3>2. keys' = keys /\ calls'[p] = "idle"
      BY <1>1, <1>2
    <3> QED
      BY <3>1, <3>2
  <2> QED
    BY <1>1, <2>2, <2>3, <2>4 DEF AllIsThere
<1>10. NothingIsThere'
  BY <1>1 DEF NothingIsThere
<1>11. KeysHaveOwners'
  <2>1. ASSUME crashes = 0, NEW q \in keys, q[1] = p
        PROVE  keyOf'[q[2]] = p \/ Owner[q[2]] \in taken
    <3>1. q[2] \in Transport /\ q[2] \in file.rows /\ file.keys[q[2]] # 0
      BY DEF NewInv, RestoreTypes, KeysAreOfFile
    <3>2. Owner[q[2]] \in file.rows /\ Owner[q[2]] \in Client
      BY <3>1 DEF ExportInv, FileIsClosed, Assumed, OwnerAssumption, Owned
    <3> QED
      BY <1>1, <3>1, <3>2 DEF RestoreTransports, Of, RestoreClients
  <2>2. ASSUME crashes = 0, NEW q \in keys, q[1] # p
        PROVE  calls'[q[1]] # "idle"
    <3>1. q[1] \in Restores
      BY DEF NewInv, RestoreTypes
    <3> QED
      BY <1>1, <1>2, <2>2, <3>1 DEF NewInv, KeysHaveOwners
  <2> QED
    BY <1>1, <2>1, <2>2 DEF KeysHaveOwners
<1> QED
  BY <1>6, <1>7, <1>8, <1>9, <1>10, <1>11 DEF NewInv

LEMMA NewInvVault ==
    ASSUME Assumed, NewInv, InitVault
    PROVE  NewInv'
<1>0. OldUnchanged /\ UNCHANGED taken
  BY StepsApart DEF RestoreStep, InitVault
<1>1. /\ Complete /\ vault = "none" /\ vault' = "own"
      /\ UNCHANGED <<new, wired, keyOf, taken, told, keys, calls, crashes>>
  BY DEF InitVault
<1>2. RestoreTypes'
  BY <1>1 DEF NewInv, RestoreTypes
<1>3. AfterExport' /\ KeysAreOfFile'
  BY <1>0, <1>1, SameFile DEF NewInv, AfterExport, KeysAreOfFile, ToWrite, OldUnchanged
<1>4. AllIsThere' /\ NothingIsThere' /\ KeysHaveOwners'
  BY <1>1 DEF NewInv, AllIsThere, NothingIsThere, KeysHaveOwners
<1> QED
  BY <1>2, <1>3, <1>4 DEF NewInv

LEMMA NewInvStep ==
    ASSUME Assumed, ExportInv, NewInv, [TransferNext]_transferVars
    PROVE  NewInv'
<1>1. ASSUME NEW p \in Restores, RollBack(p) PROVE NewInv'
  <2>1. OldUnchanged
    BY <1>1, StepsApart DEF RestoreStep
  <2>2. /\ calls[p] # "idle" /\ keys' = keys \ KeysOf(p)
        /\ calls' = [calls EXCEPT ![p] = "idle"]
        /\ UNCHANGED <<vault, new, wired, keyOf, taken, told, crashes>>
    BY <1>1 DEF RollBack, machine
  <2>3. /\ keys' \subseteq keys /\ \A q \in keys : q[1] # p => q \in keys'
        /\ \A q \in keys' : q[1] # p
    BY <2>2 DEF KeysOf
  <2> QED
    BY <2>1, <2>2, <2>3, NewInvEnd DEF NewInv, RestoreTypes
<1>2. ASSUME NEW p \in Restores, Crash(p) PROVE NewInv'
  <2>1. OldUnchanged
    BY <1>2, StepsApart DEF RestoreStep
  <2>2. /\ calls[p] # "idle" /\ crashes < MaxCrashes /\ crashes' = crashes + 1
        /\ calls' = [calls EXCEPT ![p] = "idle"]
        /\ UNCHANGED <<vault, new, wired, keyOf, taken, told, keys>>
    BY <1>2 DEF Crash, machine
  <2>3. crashes' \in 0 .. MaxCrashes /\ crashes' # 0
    BY <2>2 DEF NewInv, RestoreTypes, Assumed, TransferBoundsAssumption
  <2> QED
    BY <2>1, <2>2, <2>3, NewInvEnd
<1>3. CASE RestoreStep
  BY <1>1, <1>2, <1>3, NewInvBegin, NewInvWriteKey, NewInvKeysWritten, NewInvCommit, NewInvVault
     DEF RestoreStep
<1>4. CASE UNCHANGED transferVars
  <2>1. OldUnchanged /\ NewUnchanged
    BY <1>4 DEF transferVars, old, export, machine, OldUnchanged, NewUnchanged
  <2>2. UNCHANGED <<file, at, todo, client, vault, new, wired, keyOf, taken, told, keys, calls,
                    crashes>>
    BY <2>1 DEF OldUnchanged, NewUnchanged
  <2>3. RestoreTypes' /\ AfterExport' /\ KeysAreOfFile' /\ NothingIsThere' /\ KeysHaveOwners'
    BY <2>2 DEF NewInv, RestoreTypes, AfterExport, Complete, KeysAreOfFile, ToWrite,
       NothingIsThere, KeysHaveOwners
  <2>4. AllIsThere'
    BY <2>1, <2>2, SameFile DEF NewInv, AllIsThere
  <2> QED
    BY <2>3, <2>4 DEF NewInv
<1> QED
  BY <1>3, <1>4, NewInvExport, StepsApart

-----------------------------------------------------------------------------
\* Every reachable state of an export and its restores satisfies the inductive invariant.
THEOREM TransferInvariance == TransferSpec => [](ExportInv /\ NewInv)
<1>1. TransferInit => ExportInv /\ NewInv
  BY ConstantsFit, ExportInvInit, NewInvInit
<1>2. ExportInv /\ NewInv /\ [TransferNext]_transferVars => (ExportInv /\ NewInv)'
  BY ConstantsFit, ExportInvStep, NewInvStep
<1> QED
  BY <1>1, <1>2, PTL DEF TransferSpec

LEMMA ThereIs ==
    ASSUME NewInv, vault = "restored"
    PROVE  There = Restored(file) \cap Row
<1>1. new = [r \in Row |-> IF r \in Restored(file) THEN 1 ELSE 0]
  BY DEF NewInv, AllIsThere
<1> QED
  BY <1>1 DEF There

LEMMA InvRestore ==
    ASSUME Assumed, ExportInv, NewInv
    PROVE  RestoreInv
<1> USE DEF Assumed
<1>1. TransferTypeOK
  <2>1. /\ Cardinality(Restores) \in Nat
        /\ Restores # {} => Cardinality(Restores) >= 1
    BY FS_CardinalityType, FS_EmptySet, TransferBoundsAssumption
  <2>2. \A r \in Row : new[r] \in 0 .. Cardinality(Restores)
    <3>1. CASE vault = "restored"
      BY <2>1, <3>1 DEF NewInv, AllIsThere
    <3>2. CASE vault # "restored"
      BY <2>1, <3>2 DEF NewInv, NothingIsThere
    <3> QED
      BY <3>1, <3>2
  <2>3. new \in [Row -> 0 .. Cardinality(Restores)]
    BY <2>2 DEF NewInv, RestoreTypes
  <2>4. /\ src \subseteq Row
        /\ link \in [Credential -> Linkable \cup {None}]
        /\ key \in [Transport -> KeyNo] /\ disk \subseteq Transport \X KeyNo
        /\ at \in 1 .. 6 /\ todo \subseteq Client /\ client \in Client \cup {None}
        /\ pending \subseteq Transport \X KeyNo /\ half \subseteq Transport
        /\ edits \in 0 .. MaxEdits
        /\ unreadable \subseteq Repository \cup Target
    BY DEF ExportInv, ExportTypes
  <2>5. /\ file.rows \subseteq Row /\ file.keys \in [Transport -> KeyNo]
        /\ file.passphrases \in [Transport -> KeyNo]
        /\ file.link \in [Credential -> Linkable \cup {None}]
        /\ stable.rows \subseteq Row /\ stable.keys \subseteq Transport
        /\ stable.links \subseteq Credential
    BY DEF ExportInv, ExportTypes, FileType, StableType
  <2>6. /\ vault \in {"none", "own", "restored"} /\ wired \subseteq Row \X Row
        /\ keyOf \in [Transport -> Restores \cup {None}] /\ keys \subseteq Restores \X Transport
        /\ taken \subseteq Client /\ calls \in [Restores -> Step] /\ told \subseteq Row
        /\ crashes \in 0 .. MaxCrashes
    BY DEF NewInv, RestoreTypes
  <2> QED
    BY <2>3, <2>4, <2>5, <2>6 DEF TransferTypeOK
<1>2. AllOrNothing
  <2>1. \A r \in Row : new[r] <= 1
    BY DEF NewInv, RestoreTypes
  <2>2. vault # "restored" => There = {} /\ wired = {}
    BY DEF NewInv, NothingIsThere, There
  <2> QED
    BY <2>1, <2>2 DEF AllOrNothing
<1>3. RestoredIsClosed
  <2>1. CASE vault # "restored"
    BY <1>2, <2>1 DEF AllOrNothing, RestoredIsClosed
  <2>2. CASE vault = "restored"
    <3>1. Restored(file) \subseteq Row
      BY RestoredOf DEF ExportInv, ExportTypes, FileType
    <3>2. There = Restored(file)
      BY <2>2, <3>1, ThereIs
    <3>3. \A r \in There : Needed(r) \subseteq There
      BY <3>2, RestoredNeeds
    <3>4. \A e \in wired : {e[1], e[2]} \subseteq There
      BY <2>2, <3>2, RelinkedOf DEF NewInv, AllIsThere
    <3>5. \A t \in There \cap Keyed : <<keyOf[t], t>> \in keys
      <4>1. There \cap Keyed \subseteq RestoreTransports(file) \cap Keyed
        BY <3>2, RestoredOf, KeyedAssumption
      <4> QED
        BY <2>2, <4>1 DEF NewInv, AllIsThere
    <3> QED
      BY <3>3, <3>4, <3>5 DEF RestoredIsClosed
  <2> QED
    BY <2>1, <2>2
<1>4. FailureLeavesNothing
  BY DEF NewInv, KeysHaveOwners, FailureLeavesNothing, RestoreTypes
<1> QED
  BY <1>1, <1>2, <1>3, <1>4 DEF RestoreInv

LEMMA InvStable ==
    ASSUME Assumed, ExportInv, NewInv
    PROVE  StableIsRestored
<1> USE DEF Assumed
<1> SUFFICES ASSUME vault = "restored"
             PROVE  /\ \A r \in Row : Untouched(r) => r \in There
                    /\ \A c \in stable.links :
                         Untouched(c) /\ link[c] # None /\ Untouched(link[c]) =>
                            <<c, link[c]>> \in wired
  BY DEF StableIsRestored
<1>1. /\ client = None /\ todo = {} /\ at = 5 /\ pending = {}
  BY Tables DEF NewInv, AfterExport, Complete, ExportInv, ExportTypes, Phases
<1>2. There = Restored(file) \cap Row
  BY ThereIs
<1>3. ASSUME NEW r \in Row, Kept(r)
      PROVE  r \in file.rows
  <2>1. CASE r \in Client
    BY <1>3, <2>1 DEF ExportInv, Phases, StableIsThere, Kept
  <2>2. CASE \E i \in 1 .. 6 : r \in OfClient[i]
    <3>1. HasBeenRead(r)
      BY <1>1, <2>2 DEF HasBeenRead
    <3> QED
      BY <1>3, <3>1 DEF ExportInv, RowsAreSaved
  <2>3. CASE \E i \in 1 .. 4 : r \in OfAll[i]
    <3>1. HasBeenRead(r)
      BY <1>1, <2>3 DEF HasBeenRead
    <3> QED
      BY <1>3, <3>1 DEF ExportInv, RowsAreSaved
  <2>4. r \in Client \/ (\E i \in 1 .. 6 : r \in OfClient[i]) \/ \E i \in 1 .. 4 : r \in OfAll[i]
    <3>1. /\ 1 \in 1 .. 6 /\ 2 \in 1 .. 6 /\ 3 \in 1 .. 6 /\ 4 \in 1 .. 6
          /\ 5 \in 1 .. 6 /\ 6 \in 1 .. 6
          /\ 1 \in 1 .. 4 /\ 2 \in 1 .. 4 /\ 3 \in 1 .. 4 /\ 4 \in 1 .. 4
      OBVIOUS
    <3>2. CASE r \in Client \cup Destination \cup Credential \cup Item \cup Url
      BY <3>1, <3>2, Tables
    <3>3. CASE r \in BackupSet \cup Transport \cup Connection \cup Task \cup Repository
                     \cup FileTask \cup Target
      BY <3>1, <3>3, Tables
    <3> QED
      BY <3>2, <3>3 DEF Row, Owned
  <2> QED
    BY <2>1, <2>2, <2>3, <2>4
<1>4. ASSUME NEW r \in Row, Untouched(r), NEW q \in {r} \cup Needed(r)
      PROVE  /\ q \in file.rows /\ q \notin taken \cup unreadable
             /\ q \in Keyed => file.keys[q] # 0
  <2>1. Kept(r)
    BY <1>4 DEF Untouched, Kept
  <2>2. Kept(q) /\ q \in Row
    BY <2>1, NeededIsKept
  <2>3. q \in file.rows
    BY <1>3, <2>2
  <2>4. q \in Keyed => q \in stable.keys
    BY <1>4 DEF Untouched
  <2> QED
    BY <1>1, <1>4, <2>3, <2>4 DEF Untouched, ExportInv, KeysAreSaved
<1>5. ASSUME NEW r \in Row, Untouched(r)
      PROVE  /\ r \in Restored(file)
             /\ r \in Credential => r \in RestoreCredentials(file)
  <2>1. r \in file.rows /\ r \notin taken \cup unreadable /\ (r \in Keyed => file.keys[r] # 0)
    BY <1>4, <1>5
  <2>2. CASE r \in Client \cup Destination
    BY <2>1, <2>2, TablesApart DEF Restored, RestoreClients, RestoreDestinations, Owned
  <2>3. CASE r \in Owned
    <3>1. Owner[r] \in RestoreClients(file)
      <4>1. Owner[r] \in Needed(r) /\ Owner[r] \in Client
        BY <2>3, NeededOf
      <4> QED
        BY <1>4, <1>5, <4>1 DEF RestoreClients
    <3>2. r \in BackupSet \cup Transport \cup Connection \cup Repository => r \in Restored(file)
      BY <2>1, <3>1 DEF Restored, RestoreSets, RestoreTransports, RestoreConnections,
         RestoreRepositories, Of
    <3>3. r \in Credential \cup Item \cup Url => r \in Restored(file)
      BY <2>1, <3>1 DEF Restored, RestoreCredentials, RestoreItems, RestoreUrls, Of
    <3>4. ASSUME r \in Task \cup FileTask \cup Target PROVE r \in Restored(file)
      <4>1. ASSUME NEW q \in Uses[r]
            PROVE  /\ q \in Transport => q \in RestoreTransports(file)
                   /\ q \in Connection => q \in RestoreConnections(file)
                   /\ q \in Repository => q \in RestoreRepositories(file)
        <5>1. q \in Needed(r) /\ Owner[q] = Owner[r]
          BY <3>4, NeededOf
        <5>2. q \in file.rows /\ q \notin unreadable /\ (q \in Keyed => file.keys[q] # 0)
          BY <1>4, <1>5, <5>1
        <5> QED
          BY <3>1, <5>1, <5>2 DEF RestoreTransports, RestoreConnections, RestoreRepositories, Of
      <4>2. r \in Task => Uses[r] \subseteq RestoreTransports(file) \cup RestoreConnections(file)
        BY <4>1, UsesAssumption DEF Linkable
      <4>3. r \in FileTask =>
              Uses[r] \subseteq RestoreTransports(file) \cup RestoreRepositories(file)
        <5>1. r \in FileTask => Uses[r] \subseteq (Linkable \cup Repository) \ Connection
          BY UsesAssumption
        <5> QED
          BY <4>1, <5>1 DEF Linkable
      <4>4. r \in Target => Uses[r] \subseteq RestoreTransports(file)
        BY <4>1, UsesAssumption
      <4> QED
        BY <2>1, <3>1, <3>4, <4>2, <4>3, <4>4
           DEF Restored, RestoreTasks, RestoreFileTasks, RestoreTargets, Of
    <3>5. r \in Credential => r \in RestoreCredentials(file)
      BY <2>1, <3>1 DEF RestoreCredentials, Of
    <3> QED
      BY <2>3, <3>2, <3>3, <3>4, <3>5 DEF Owned
  <2>4. r \in Credential => r \in Owned
    BY DEF Owned
  <2> QED
    BY <2>2, <2>3, <2>4 DEF Row
<1>6. ASSUME NEW c \in stable.links, Untouched(c), link[c] # None, Untouched(link[c])
      PROVE  <<c, link[c]>> \in Relinked(file)
  <2>1. c \in Credential /\ c \in Row
    BY <1>6 DEF ExportInv, ExportTypes, StableType, Row, Owned
  <2>2. link[c] \in Linkable /\ link[c] \in Row
    BY <1>6, <2>1 DEF ExportInv, ExportTypes, Row, Owned, Linkable
  <2>3. file.link[c] = link[c]
    BY <1>1, <1>6 DEF ExportInv, LinksAreSaved
  <2>4. c \in RestoreCredentials(file)
    BY <1>5, <1>6, <2>1
  <2>5. link[c] \in RestoreTransports(file) \cup RestoreConnections(file)
    BY <1>5, <1>6, <2>2, RestoredOf DEF Linkable
  <2> QED
    BY <2>3, <2>4, <2>5 DEF Relinked
<1> QED
  BY <1>2, <1>5, <1>6 DEF NewInv, AllIsThere

\* No client is added while the export goes on: it lists the clients first and the items
\* of the vault last, and would take an item of a client that it has not listed.
NoNewClients == Later \cap Client = {}

LEMMA InvTold ==
    ASSUME Assumed, NoNewClients, ExportInv, NewInv
    PROVE  NothingLostSilently
<1> USE DEF Assumed
<1> SUFFICES ASSUME vault = "restored", NEW r \in file.rows \ There
             PROVE  ({r} \cup Needed(r)) \cap told # {}
  BY DEF NothingLostSilently
<1>1. told = Warned(file)
  BY DEF NewInv, AllIsThere
<1>2. r \in file.rows /\ r \in Row /\ r \notin Restored(file)
  BY ThereIs DEF ExportInv, ExportTypes, FileType
<1>3. Client \subseteq file.rows
  BY DEF NoNewClients, ExportInv, Phases
<1>4. CASE r \in Client \cup Destination
  <2>1. r \in taken /\ r \in Client
    BY <1>2, <1>4 DEF Restored, RestoreClients, RestoreDestinations
  <2> QED
    BY <1>1, <1>2, <2>1 DEF Warned
<1>5. CASE r \in Owned /\ Owner[r] \in taken
  <2>1. Owner[r] \in Needed(r) /\ Owner[r] \in Client
    BY <1>5, NeededOf
  <2> QED
    BY <1>1, <1>3, <1>5, <2>1 DEF Warned
<1>6. CASE r \in Owned /\ Owner[r] \notin taken
  <2>1. Owner[r] \in RestoreClients(file) /\ Owner[r] \in Client
    BY <1>3, <1>6, NeededOf DEF RestoreClients
  <2>2. r \notin BackupSet \cup Connection \cup Credential \cup Item \cup Url
    BY <1>2, <2>1 DEF Restored, RestoreSets, RestoreConnections, RestoreCredentials,
       RestoreItems, RestoreUrls, Of
  <2>3. CASE r \in Transport \cup Task \cup Repository \cup Target
    BY <1>1, <1>2, <2>1, <2>3 DEF Restored, Warned, Of
  <2>4. CASE r \in FileTask
    <3>1. CASE Uses[r] \cap Repository \subseteq RestoreRepositories(file)
      BY <1>1, <1>2, <2>1, <2>4, <3>1 DEF Restored, Warned, Of
    <3>2. ASSUME NEW q \in Uses[r] \cap Repository, q \notin RestoreRepositories(file)
          PROVE  ({r} \cup Needed(r)) \cap told # {}
      <4>1. q \in file.rows
        BY <1>2, <2>4 DEF ExportInv, FileIsClosed
      <4>2. Owner[q] = Owner[r] /\ q \in Needed(r)
        BY <2>4, NeededOf
      <4>3. q \in Of(file, Repository) \ RestoreRepositories(file)
        BY <2>1, <3>2, <4>1, <4>2 DEF Of
      <4> QED
        BY <1>1, <4>2, <4>3 DEF Warned
    <3> QED
      BY <3>1, <3>2
  <2> QED
    BY <1>6, <2>2, <2>3, <2>4 DEF Owned
<1> QED
  BY <1>2, <1>4, <1>5, <1>6 DEF Row

-----------------------------------------------------------------------------
\* A restore leaves all that the file gives or nothing, what it leaves can be used, and no key
\* file stays behind unless a process died, for any number of calls, rows and edits
\* (importVaultBuffer, exportVault.ts:429-512, 993-1009).
THEOREM RestoreIsWhole == TransferSpec => []RestoreInv
<1>1. ExportInv /\ NewInv => RestoreInv
  BY ConstantsFit, InvRestore
<1> QED
  BY <1>1, TransferInvariance, PTL

\* What was there all through the export, with what it needs, is restored, with its key file
\* and its link, whatever other processes edit between the reads
\* (exportVaultBuffer, exportVault.ts:203-293).
THEOREM WhatStaysIsRestored == TransferSpec => []StableIsRestored
<1>1. ExportInv /\ NewInv => StableIsRestored
  BY ConstantsFit, InvStable
<1> QED
  BY <1>1, TransferInvariance, PTL

\* A row of the file that a restore leaves out is named in its warnings, or one that it needs
\* is, if no client was added during the export (the `continue`s of importVaultBuffer,
\* exportVault.ts:537-954).
THEOREM WhatIsLostIsTold ==
    ASSUME NoNewClients
    PROVE  TransferSpec => []NothingLostSilently
<1>1. ExportInv /\ NewInv => NothingLostSilently
  BY ConstantsFit, InvTold
<1> QED
  BY <1>1, TransferInvariance, PTL

-----------------------------------------------------------------------------
(* What the documents promise, as far as it is so (section 4 of the README).  *)

\* A key and its passphrase are read in two steps, of one transport after the other.
OneHalf == \A s, t \in half : s = t
KeyFits(t) ==
    /\ \A p \in pending : p[1] = t => p[2] = key[t]
    /\ file.keys[t] # 0 =>
          file.keys[t] = key[t] /\ (t \in half \/ file.passphrases[t] = key[t])

StableKeysFit == OneHalf /\ \A t \in stable.keys : KeyFits(t)

LEMMA OneHalfStep == ASSUME OneHalf, EditStep \/ ReadStep PROVE OneHalf'
<1>1. EditStep \/ NextClient \/ ReadTable \/ ReadGlobal => half' = half
  BY DEF EditStep, Add, Remove, ReplaceKey, SetLink, NextClient, ReadTable, ReadGlobal, export
<1>2. ReadKey \/ ReadPassphrase => half' = {} \/ \E t : half' = {t}
  BY DEF ReadKey, ReadPassphrase
<1> QED
  BY <1>1, <1>2 DEF ReadStep, OneHalf

LEMMA KeyFitsStep ==
    ASSUME ExportTypes, OneHalf, EditStep \/ ReadStep, NEW t \in Transport, KeyFits(t),
           key'[t] = key[t]
    PROVE  KeyFits(t)'
<1>1. CASE EditStep \/ NextClient
  BY <1>1
     DEF EditStep, Add, Remove, ReplaceKey, SetLink, NextClient, export, KeyFits
<1>2. CASE ReadTable
  <2>1. /\ pending' = {<<s, key[s]>> : s \in Listed(client, OfClient[at]) \cap Keyed}
        /\ half' = half /\ file' = [file EXCEPT !.rows = @ \cup Listed(client, OfClient[at])]
    BY <1>2 DEF ReadTable
  <2>2. file'.keys = file.keys /\ file'.passphrases = file.passphrases
    BY <2>1 DEF ExportTypes, FileType
  <2>3. ASSUME NEW p \in pending', p[1] = t PROVE p[2] = key'[t]
    <3>1. PICK s \in Listed(client, OfClient[at]) \cap Keyed : p = <<s, key[s]>>
      BY <2>1
    <3> QED
      BY <2>3, <3>1
  <2> QED
    BY <2>1, <2>2, <2>3 DEF KeyFits
<1>3. CASE ReadKey
  <2>1. PICK p \in pending :
          /\ file' = [file EXCEPT !.keys[p[1]] = IF p \in disk THEN p[2] ELSE 0]
          /\ pending' = pending \ {p} /\ half' = {p[1]}
    BY <1>3 DEF ReadKey
  <2>2. half = {} /\ p[1] \in Transport
    BY <1>3 DEF ReadKey, ExportTypes
  <2>3. /\ file'.keys[p[1]] = IF p \in disk THEN p[2] ELSE 0
        /\ p[1] # t => file'.keys[t] = file.keys[t]
        /\ file'.passphrases = file.passphrases
    BY <2>1, <2>2 DEF ExportTypes, FileType
  <2> QED
    BY <2>1, <2>2, <2>3 DEF KeyFits
<1>4. CASE ReadPassphrase
  <2>1. PICK s \in half : file' = [file EXCEPT !.passphrases[s] = key[s]]
    BY <1>4 DEF ReadPassphrase
  <2>2. half' = {} /\ pending' = pending
    BY <1>4 DEF ReadPassphrase
  <2>3. /\ file'.keys = file.keys /\ file'.passphrases[s] = key[s]
        /\ s # t => file'.passphrases[t] = file.passphrases[t]
    BY <2>1 DEF ExportTypes, FileType
  <2> QED
    BY <2>1, <2>2, <2>3 DEF KeyFits, OneHalf
<1>5. CASE ReadGlobal
  <2>1. /\ UNCHANGED <<pending, half>>
        /\ file'.keys = file.keys /\ file'.passphrases = file.passphrases
    BY <1>5 DEF ReadGlobal, ExportTypes, FileType
  <2> QED
    BY <2>1 DEF KeyFits
<1> QED
  BY <1>1, <1>2, <1>3, <1>4, <1>5 DEF ReadStep

LEMMA InitKeysFit ==
    ASSUME TransferInit PROVE OneHalf /\ \A t \in Transport : KeyFits(t)
BY DEF TransferInit, OneHalf, KeyFits

LEMMA StableKeysFitStep ==
    ASSUME Assumed, ExportInv, NewInv, StableKeysFit, [TransferNext]_transferVars
    PROVE  StableKeysFit'
<1>1. CASE EditStep \/ ReadStep
  <2>1. ASSUME NEW t \in stable'.keys
        PROVE  t \in stable.keys /\ t \in Transport /\ key'[t] = key[t]
    <3>1. t \in stable.keys /\ t \in Transport
      BY <1>1, StableShrinks DEF ExportInv, ExportTypes, StableType
    <3>2. ASSUME NEW s \in Transport, ReplaceKey(s) PROVE s # t /\ key'[t] = key[t]
      BY <3>1, <3>2 DEF ReplaceKey, ExportInv, ExportTypes, StableType
    <3>3. (\A s \in Transport : ~ReplaceKey(s)) => key' = key
      BY <1>1, StableShrinks DEF EditStep, Add, Remove, SetLink, ExportInv
    <3> QED
      BY <3>1, <3>2, <3>3
  <2> QED
    BY <1>1, <2>1, OneHalfStep, KeyFitsStep DEF StableKeysFit, ExportInv
<1>2. ASSUME OldUnchanged PROVE StableKeysFit'
  BY <1>2 DEF OldUnchanged, StableKeysFit, OneHalf, KeyFits
<1>3. UNCHANGED transferVars => OldUnchanged
  BY DEF transferVars, old, export, OldUnchanged
<1> QED
  BY <1>1, <1>2, <1>3, StepsApart

\* The key and the passphrase of a transport that was restored fit, if its key was not
\* replaced while the export went on.
StableKeyFitsPassphrase ==
    vault = "restored" =>
        \A t \in There \cap Keyed \cap stable.keys : file.keys[t] = file.passphrases[t]

LEMMA FitsWhenRestored ==
    ASSUME Assumed, ExportInv, NewInv, vault = "restored", NEW t \in There \cap Keyed, KeyFits(t)
    PROVE  file.keys[t] = file.passphrases[t]
<1>1. half = {}
  BY DEF NewInv, AfterExport, Complete, ExportInv, Phases
<1>2. t \in RestoreTransports(file)
  BY ThereIs, RestoredOf DEF Assumed, KeyedAssumption
<1>3. file.keys[t] # 0
  BY <1>2 DEF RestoreTransports
<1> QED
  BY <1>1, <1>3 DEF KeyFits

\* Other processes may replace keys between the two reads: a key that they leave alone comes
\* with the passphrase that opens it (exportVaultBuffer, exportVault.ts:222-236).
THEOREM StableKeysOpen == TransferSpec => []StableKeyFitsPassphrase
<1>1. TransferInit => StableKeysFit
  BY ConstantsFit, ExportInvInit, InitKeysFit
     DEF StableKeysFit, ExportInv, ExportTypes, StableType
<1>2. ExportInv /\ NewInv /\ StableKeysFit /\ [TransferNext]_transferVars => StableKeysFit'
  BY ConstantsFit, StableKeysFitStep
<1>3. ExportInv /\ NewInv /\ StableKeysFit => StableKeyFitsPassphrase
  BY ConstantsFit, FitsWhenRestored DEF StableKeysFit, StableKeyFitsPassphrase
<1> QED
  BY <1>1, <1>2, <1>3, TransferInvariance, PTL DEF TransferSpec

-----------------------------------------------------------------------------
\* Nobody syncs a credential with a transport while the export goes on.
NoKeyReplaced == [][\A t \in Transport : ~ReplaceKey(t)]_transferVars

\* Then every key is that of its transport, and every key file was there from the beginning
\* or is that of a row added since.
AllKeysFit == OneHalf /\ \A t \in Transport : KeyFits(t)
DiskIsStable ==
    \A t \in stable.rows \cap Keyed : (\E n \in KeyNo : <<t, n>> \in disk) => t \in stable.keys

LEMMA UnreplacedStep ==
    ASSUME Assumed, ExportInv, NewInv, AllKeysFit, DiskIsStable,
           [TransferNext]_transferVars, [\A t \in Transport : ~ReplaceKey(t)]_transferVars
    PROVE  AllKeysFit' /\ DiskIsStable'
<1>1. ASSUME OldUnchanged PROVE AllKeysFit' /\ DiskIsStable'
  BY <1>1 DEF OldUnchanged, AllKeysFit, OneHalf, KeyFits, DiskIsStable
<1>2. UNCHANGED transferVars => OldUnchanged
  BY DEF transferVars, old, export, OldUnchanged
<1>3. CASE (EditStep \/ ReadStep) /\ \A t \in Transport : ~ReplaceKey(t)
  <2>1. key' = key
    BY <1>3, StableShrinks DEF EditStep, Add, Remove, SetLink, ExportInv
  <2>2. AllKeysFit'
    BY <1>3, <2>1, OneHalfStep, KeyFitsStep DEF AllKeysFit, ExportInv
  <2>3. ASSUME NEW r \in Row, Add(r) PROVE DiskIsStable'
    <3>1. /\ stable' = stable /\ r \notin stable.rows
          /\ disk' = disk \/ disk' = disk \cup {<<r, key[r]>>}
      BY <2>3 DEF Add, ExportInv, StableIsThere
    <3> QED
      BY <3>1 DEF DiskIsStable
  <2>4. ASSUME NEW r \in Row, Remove(r) PROVE DiskIsStable'
    <3>1. stable'.rows \subseteq stable.rows /\ stable'.keys = stable.keys /\ disk' = disk
      BY <2>4 DEF Remove, ExportInv, ExportTypes, StableType
    <3> QED
      BY <3>1 DEF DiskIsStable
  <2>5. ASSUME NEW c \in Credential, NEW r \in Linkable \cup {None}, SetLink(c, r)
        PROVE  DiskIsStable'
    <3>1. stable'.rows = stable.rows /\ stable'.keys = stable.keys /\ disk' = disk
      BY <2>5 DEF SetLink, ExportInv, ExportTypes, StableType
    <3> QED
      BY <3>1 DEF DiskIsStable
  <2>6. ReadStep => DiskIsStable'
    BY StableShrinks DEF ExportInv, DiskIsStable
  <2> QED
    BY <1>3, <2>2, <2>3, <2>4, <2>5, <2>6 DEF EditStep
<1> QED
  BY <1>1, <1>2, <1>3, StepsApart

LEMMA InitUnreplaced == ASSUME Assumed, TransferInit PROVE AllKeysFit /\ DiskIsStable
<1>1. AllKeysFit
  BY InitKeysFit DEF AllKeysFit
<1>2. DiskIsStable
  BY DEF TransferInit, DiskIsStable
<1> QED
  BY <1>1, <1>2

LEMMA InvRows ==
    ASSUME Assumed, ExportInv, NewInv, DiskIsStable PROVE RowsAreRestored
<1>1. StableIsRestored
  BY InvStable
<1> SUFFICES ASSUME vault = "restored", NEW r \in Row,
                    \A q \in {r} \cup Needed(r) :
                        /\ q \in stable.rows \ (taken \cup unreadable)
                        /\ q \in Keyed => \E n \in KeyNo : <<q, n>> \in disk
             PROVE  r \in There
  BY DEF RowsAreRestored
<1>2. Untouched(r)
  BY DEF DiskIsStable, Untouched
<1> QED
  BY <1>1, <1>2 DEF StableIsRestored

\* Without a sync meanwhile, the export is what it is called, "the ENTIRE operational state":
\* whatever stays is there after the restore, and the key of every transport comes with its
\* passphrase (exportVaultBuffer, exportVault.ts:197).
THEOREM ExportIsEntire ==
    TransferSpec /\ NoKeyReplaced => [](RowsAreRestored /\ KeyFitsPassphrase)
<1>1. TransferInit => AllKeysFit /\ DiskIsStable
  BY ConstantsFit, InitUnreplaced
<1>2. /\ ExportInv /\ NewInv /\ AllKeysFit /\ DiskIsStable
      /\ [TransferNext]_transferVars /\ [\A t \in Transport : ~ReplaceKey(t)]_transferVars
      => AllKeysFit' /\ DiskIsStable'
  BY ConstantsFit, UnreplacedStep
<1>3. ExportInv /\ NewInv /\ AllKeysFit /\ DiskIsStable => RowsAreRestored
  BY ConstantsFit, InvRows
<1>4. ExportInv /\ NewInv /\ AllKeysFit /\ DiskIsStable => KeyFitsPassphrase
  <2>1. KeyedAssumption
    BY ConstantsFit DEF Assumed
  <2> QED
    BY <2>1, ConstantsFit, FitsWhenRestored DEF AllKeysFit, KeyFitsPassphrase, KeyedAssumption
<1> QED
  BY <1>1, <1>2, <1>3, <1>4, TransferInvariance, PTL DEF TransferSpec, NoKeyReplaced

=============================================================================
