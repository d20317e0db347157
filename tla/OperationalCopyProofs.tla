-------------------------- MODULE OperationalCopyProofs --------------------------
(***************************************************************************)
(* Proofs about OperationalCopy: a connection never names a key file that  *)
(* is gone, and its passphrase fits its key, whatever other processes and  *)
(* crashes do between the writes of a sync.                                *)
(*                                                                         *)
(* The reason is that the key file of a sync is its own until the commit:  *)
(* no row names it, no other call has written it, and none will retire it. *)
(***************************************************************************)
EXTENDS OperationalCopy, FiniteSetTheorems, TLAPS

\* TypeOK, and what TLC need not be told: rows and files are sequences, and each call
\* is idle or has the fields of an active one.
Typed ==
    /\ TypeOK
    /\ rows \in Seq(RowOf) /\ files \in Seq(Keys \cup {None})
    /\ calls \in [Calls -> {Idle} \cup Active]

\* A row names a key file that has been made; one for ssh always does.
RowsFit ==
    \A i \in DOMAIN rows :
       rows[i].key <= Len(files) /\ (rows[i].kind = "ssh" => rows[i].key # 0)

\* A link leads to a row that was made of the credential.
Leads(link, x) == link <= Len(rows) /\ (link # 0 => rows[link].owner = x)
LinksFit == \A x \in Cred : Leads(creds[x].link, x)

\* There is no passphrase without a key.
Proper(secret) == secret \in Secret /\ (secret.passphrase => secret.key # None)
SecretsFit == \A r \in DOMAIN blobs : Proper(blobs[r])

\* What a call knows, has written and will retire.
Fits(call) ==
    call # Idle =>
       /\ call.file <= Len(files) /\ call.old <= Len(files)
       /\ Leads(call.seen.link, call.cred)
       /\ call.step \notin {"commit", "retire"} => call.file = 0
       /\ call.step = "key" => call.read.key # None
       /\ call.step = "commit" /\ call.file = 0 =>
             ~(call.seen.kind = "ssh" /\ call.read.passphrase)
       /\ call.step = "commit" /\ call.file # 0 =>
             files[call.file] = call.read.key /\ call.read.key # None

\* The file of a call that has not committed is the call's alone.
Writing(call) == call # Idle /\ call.step = "commit" /\ call.file # 0
OwnFile(c) ==
    Writing(calls[c]) =>
       /\ \A i \in DOMAIN rows : rows[i].key # calls[c].file
       /\ \A d \in Calls :
             /\ calls[d] # Idle => calls[d].old # calls[c].file
             /\ Writing(calls[d]) /\ d # c => calls[d].file # calls[c].file

CallsFit == \A c \in Calls : Fits(calls[c]) /\ OwnFile(c)

\* PassphraseFits, of any connection that was ever made, linked or not.
SecretFitsKey ==
    \A i \in DOMAIN rows :
       rows[i].kind = "ssh" /\ rows[i].secret /\ Sole(rows[i].owner) =>
          tier1[<<rows[i].owner, "ssh">>] = files[rows[i].key]

IInv == Typed /\ RowsFit /\ LinksFit /\ SecretsFit /\ CallsFit /\ KeysExist /\ SecretFitsKey

-----------------------------------------------------------------------------
(* Types.                                                                  *)

LEMMA Bounds ==
    /\ MaxRefs \in Nat /\ MaxRows \in Nat /\ MaxFiles \in Nat /\ MaxCalls \in Nat
    /\ MaxFaults \in Nat
BY BoundsAssumption

LEMMA Before ==
    ASSUME IInv
    PROVE  /\ creds \in [Cred -> Credential] /\ saved \in [Cred -> Secret]
           /\ rows \in Seq(RowOf) /\ Len(rows) \in 0 .. MaxRows /\ DOMAIN rows = 1 .. Len(rows)
           /\ \A i \in DOMAIN rows : rows[i] \in RowOf /\ rows[i].key \in 0 .. MaxFiles
           /\ files \in Seq(Keys \cup {None}) /\ Len(files) \in 0 .. MaxFiles
           /\ DOMAIN files = 1 .. Len(files)
           /\ tier1 \in [Cred \X Kind -> Keys \cup {None}]
           /\ calls \in [Calls -> {Idle} \cup Active]
           /\ \A r \in DOMAIN blobs : r \in 1 .. MaxRefs /\ Proper(blobs[r])
           /\ unlocked \in BOOLEAN /\ begun \in 0 .. MaxCalls /\ faults \in 0 .. MaxFaults
<1>1. /\ Len(rows) \in Nat /\ DOMAIN rows = 1 .. Len(rows)
      /\ Len(files) \in Nat /\ DOMAIN files = 1 .. Len(files)
    BY DEF IInv, Typed
<1>2. \A i \in DOMAIN rows : rows[i] \in RowOf /\ rows[i].key \in 0 .. MaxFiles
    BY DEF IInv, Typed, TypeOK, RowOf
<1> QED
    BY <1>1, <1>2, Bounds DEF IInv, Typed, TypeOK, SecretsFit

\* A call that is at work has all fields.
LEMMA AtWork ==
    ASSUME IInv, NEW c \in Calls, calls[c] # Idle
    PROVE  /\ calls[c] \in Active /\ calls[c].cred \in Cred /\ calls[c].secret \in Given
           /\ calls[c].seen \in Credential /\ calls[c].read \in Secret
           /\ calls[c].ref \in 0 .. MaxRefs
           /\ calls[c].file \in 0 .. MaxFiles /\ calls[c].old \in 0 .. MaxFiles
           /\ calls[c].seen.link \in 0 .. MaxRows /\ calls[c].seen.kind \in Kind
           /\ calls[c].seen.blob \in 0 .. MaxRefs
           /\ Fits(calls[c]) /\ OwnFile(c)
<1>1. calls[c] \in Active
    BY Before
<1>2. Fits(calls[c]) /\ OwnFile(c)
    BY DEF IInv, CallsFit
<1> QED
    BY <1>1, <1>2 DEF Active, Credential

LEMMA IdleIsNoCall == Idle \notin Active
BY DEF Idle, Active

LEMMA SecretTypes ==
    /\ Proper(Empty) /\ Empty \in Given /\ Keep \in Given /\ Keep \in Secret
    /\ \A s \in Given : s \in Secret
    /\ \A s \in Given \ {Keep} : Proper(s)
<1>1. Empty \in Secret /\ Keep \in Secret /\ ~Empty.passphrase
    BY DEF Empty, Keep, Secret
<1>2. \A s \in Given : s \in Secret
    BY <1>1 DEF Given
<1>3. ASSUME NEW s \in Given \ {Keep} PROVE Proper(s)
    BY <1>1, <1>3 DEF Given, Proper
<1> QED
    BY <1>1, <1>2, <1>3 DEF Proper, Given

LEMMA NoCredentialType == NoCredential \in Credential /\ NoCredential.link = 0
BY Bounds DEF NoCredential, Credential, Kind

\* References are given out in order.
LEMMA NextRefIsNew == ASSUME IInv PROVE NextRef \in Nat \ {0}
<1>1. IsFiniteSet(1 .. MaxRefs)
    BY Bounds, FS_Interval
<1>2. DOMAIN blobs \subseteq 1 .. MaxRefs
    BY Before
<1>3. IsFiniteSet(DOMAIN blobs)
    BY <1>1, <1>2, FS_Subset
<1>4. Cardinality(DOMAIN blobs) \in Nat
    BY <1>3, FS_CardinalityType
<1> QED
    BY <1>4 DEF NextRef

GoodBlobs(b) == \A r \in DOMAIN b : r \in 1 .. MaxRefs /\ Proper(b[r])

LEMMA StoreIsGood ==
    ASSUME IInv, NEW ref \in 1 .. MaxRefs, NEW secret, Proper(secret)
    PROVE  GoodBlobs(Store(ref, secret))
BY Before DEF GoodBlobs, Store

LEMMA RevealIsProper == ASSUME IInv, NEW x \in Cred PROVE Proper(Reveal(x))
BY Before, SecretTypes DEF Reveal

-----------------------------------------------------------------------------
(* Steps that leave connections, their secrets and the key files alone.    *)

\* A call that has written nothing yet, and will retire no file that is being written.
Harmless(call) ==
    /\ call \in {Idle} \cup Active /\ Fits(call) /\ ~Writing(call)
    /\ call # Idle => \A d \in Calls : Writing(calls[d]) => call.old # calls[d].file

LEMMA OneCallChanges ==
    ASSUME IInv, UNCHANGED <<rows, files>>, NEW c \in Calls, NEW call, Harmless(call),
           calls' = [calls EXCEPT ![c] = call]
    PROVE  calls' \in [Calls -> {Idle} \cup Active] /\ CallsFit'
<1>1. calls' \in [Calls -> {Idle} \cup Active]
    BY Before DEF Harmless
<1>2. calls'[c] = call /\ \A d \in Calls : d # c => calls'[d] = calls[d]
    BY Before
<1>3. ASSUME NEW d \in Calls PROVE Fits(calls[d])' /\ OwnFile(d)'
  <2>1. Fits(calls[d]) /\ OwnFile(d) /\ Fits(call)
      BY DEF IInv, CallsFit, Harmless
  <2>2. Fits(calls[d])'
      BY <1>2, <2>1 DEF Fits, Leads
  <2>3. OwnFile(d)'
    <3>1. CASE d = c
        BY <1>2, <3>1 DEF OwnFile, Writing, Harmless
    <3>2. CASE d # c
        BY <1>2, <2>1, <3>2 DEF OwnFile, Writing, Harmless
    <3> QED
        BY <3>1, <3>2
  <2> QED
      BY <2>2, <2>3
<1> QED
    BY <1>1, <1>3 DEF CallsFit

LEMMA QuietStep ==
    ASSUME IInv, UNCHANGED <<rows, files, tier1>>,
           creds' \in [Cred -> Credential],
           \A x \in Cred : creds'[x].link \in {0, creds[x].link},
           GoodBlobs(blobs'), calls' \in [Calls -> {Idle} \cup Active], CallsFit',
           unlocked' \in BOOLEAN, saved' \in [Cred -> Secret],
           begun' \in 0 .. MaxCalls, faults' \in 0 .. MaxFaults
    PROVE  IInv'
<1>1. TypeOK'
    BY Before DEF IInv, Typed, TypeOK, GoodBlobs, Proper
<1>2. Typed' /\ RowsFit' /\ KeysExist'
    BY <1>1 DEF IInv, Typed, RowsFit, KeysExist
<1>3. SecretFitsKey'
    BY DEF IInv, SecretFitsKey, Sole
<1>4. LinksFit'
    BY Before DEF IInv, LinksFit, Leads
<1>5. SecretsFit'
    BY DEF SecretsFit, GoodBlobs
<1> QED
    BY <1>2, <1>3, <1>4, <1>5 DEF IInv

\* The same for the blobs that the step does not touch.
LEMMA BlobsAreGood == ASSUME IInv PROVE GoodBlobs(blobs)
BY Before DEF GoodBlobs

LEMMA IdleIsHarmless == Harmless(Idle)
BY DEF Harmless, Fits, Writing

LEMMA NewCallIsHarmless ==
    ASSUME IInv, NEW x \in Cred, NEW op \in {"patch", "edit", "create", "sync"},
           NEW secret \in Given, NEW kind \in Kind, NEW use \in {"yes", "no", "leave"},
           NEW step \in {"row", "blob", "sync"}
    PROVE  Harmless(Call(op, x, secret, kind, use, step))
<1> DEFINE call == Call(op, x, secret, kind, use, step)
<1>1. /\ call.op = op /\ call.cred = x /\ call.step = step /\ call.seen = creds[x]
      /\ call.file = 0 /\ call.old = 0
    BY DEF Call
<1>2. call \in Active
    BY Before, Bounds, SecretTypes DEF Call, Active, Proper, Credential
<1>3. Leads(creds[x].link, x)
    BY DEF IInv, LinksFit
<1>4. Fits(call)
    BY <1>1, <1>3, Before DEF Fits
<1>5. ~Writing(call)
    BY <1>1 DEF Writing
<1>6. \A d \in Calls : Writing(calls[d]) => call.old # calls[d].file
    BY <1>1 DEF Writing
<1> QED
    BY <1>2, <1>4, <1>5, <1>6 DEF Harmless

LEMMA BeginType ==
    ASSUME IInv, NEW c \in Calls, NEW record, Begin(c, record)
    PROVE  calls' = [calls EXCEPT ![c] = record] /\ begun' \in 0 .. MaxCalls
BY Before, Bounds DEF Begin

-----------------------------------------------------------------------------
LEMMA InitIInv == Init => IInv
<1> SUFFICES ASSUME Init PROVE IInv
    OBVIOUS
<1>1. creds \in [Cred -> Credential] /\ \A x \in Cred : creds[x].link = 0
    BY NoCredentialType DEF Init
<1>2. calls = [c \in Calls |-> Idle] /\ rows = <<>> /\ files = <<>> /\ blobs = <<>>
      /\ DOMAIN rows = {} /\ DOMAIN files = {} /\ DOMAIN blobs = {} /\ Len(rows) = 0 /\ Len(files) = 0
    BY DEF Init
<1>3. /\ tier1 \in [Cred \X Kind -> Keys \cup {None}] /\ saved \in [Cred -> Secret]
      /\ unlocked \in BOOLEAN /\ begun \in 0 .. MaxCalls /\ faults \in 0 .. MaxFaults
    BY Bounds, SecretTypes DEF Init, Proper
<1>4. Typed
    BY <1>1, <1>2, <1>3, Bounds DEF Typed, TypeOK
<1>5. RowsFit /\ SecretsFit /\ KeysExist /\ SecretFitsKey
    BY <1>2 DEF RowsFit, SecretsFit, KeysExist, SecretFitsKey
<1>6. LinksFit
    BY <1>1, <1>2 DEF LinksFit, Leads
<1>7. CallsFit
    BY <1>2 DEF CallsFit, Fits, OwnFile, Writing
<1> QED
    BY <1>4, <1>5, <1>6, <1>7 DEF IInv

-----------------------------------------------------------------------------
(* Calls begin.                                                            *)

LEMMA BeginsKeepIInv ==
    ASSUME IInv, NEW c \in Calls, NEW x \in Cred, BeginPatch(c, x) \/ BeginSync(c, x)
    PROVE  IInv'
<1>1. UNCHANGED <<creds, blobs, rows, tier1, files, unlocked, saved, faults>>
    BY DEF BeginPatch, BeginSync
<1>2. PICK op \in {"patch", "sync"}, s \in Given, k \in Kind, use \in {"yes", "no", "leave"},
           step \in {"row", "sync"} : Begin(c, Call(op, x, s, k, use, step))
  <2>1. creds[x].kind \in Kind
      BY Before DEF Credential
  <2> QED
      BY <2>1, SecretTypes DEF BeginPatch, BeginSync
<1>3. Harmless(Call(op, x, s, k, use, step))
    BY NewCallIsHarmless
<1>4. calls' = [calls EXCEPT ![c] = Call(op, x, s, k, use, step)] /\ begun' \in 0 .. MaxCalls
    BY <1>2, BeginType
<1>5. calls' \in [Calls -> {Idle} \cup Active] /\ CallsFit'
    BY <1>1, <1>3, <1>4, OneCallChanges
<1> QED
    BY <1>1, <1>4, <1>5, Before, BlobsAreGood, QuietStep

LEMMA BeginEditKeepsIInv ==
    ASSUME IInv, NEW c \in Calls, NEW x \in Cred, BeginEdit(c, x) PROVE IInv'
<1>1. UNCHANGED <<blobs, rows, tier1, files, unlocked, saved, faults>>
    BY DEF BeginEdit
<1>2. PICK s \in Given, k \in Kind :
          /\ Begin(c, Call("edit", x, s, k, "leave", "blob"))
          /\ creds' = [creds EXCEPT ![x].kind = k]
    BY DEF BeginEdit
<1>3. Harmless(Call("edit", x, s, k, "leave", "blob"))
    BY NewCallIsHarmless
<1>4. calls' = [calls EXCEPT ![c] = Call("edit", x, s, k, "leave", "blob")]
      /\ begun' \in 0 .. MaxCalls
    BY <1>2, BeginType
<1>5. calls' \in [Calls -> {Idle} \cup Active] /\ CallsFit'
    BY <1>1, <1>3, <1>4, OneCallChanges
<1>6. creds' \in [Cred -> Credential] /\ \A y \in Cred : creds'[y].link = creds[y].link
    BY <1>2, Before DEF Credential
<1> QED
    BY <1>1, <1>4, <1>5, <1>6, Before, BlobsAreGood, QuietStep

LEMMA CreateKeepsIInv ==
    ASSUME IInv, NEW c \in Calls, NEW x \in Cred, Create(c, x) PROVE IInv'
<1>1. UNCHANGED <<rows, tier1, files, unlocked, faults>>
    BY DEF Create
<1>2. PICK s \in Given \ {Keep}, k \in Kind, use \in {"yes", "leave"} :
          LET ref == IF s = Empty THEN 0 ELSE NextRef IN
          /\ s # Empty => ref <= MaxRefs
          /\ Begin(c, IF use = "yes" THEN Call("create", x, s, k, use, "sync") ELSE Idle)
          /\ creds' = [creds EXCEPT ![x] = [NoCredential EXCEPT !.life = "live", !.kind = k,
                                                       !.blob = ref]]
          /\ blobs' = IF ref = 0 THEN blobs ELSE Store(ref, s)
          /\ saved' = [saved EXCEPT ![x] = s]
    BY DEF Create
<1> DEFINE ref == IF s = Empty THEN 0 ELSE NextRef
           call == IF use = "yes" THEN Call("create", x, s, k, use, "sync") ELSE Idle
<1>3. ref \in 0 .. MaxRefs
    BY <1>2, NextRefIsNew, Bounds
<1>4. Harmless(call)
    BY NewCallIsHarmless, IdleIsHarmless
<1>5. calls' = [calls EXCEPT ![c] = call] /\ begun' \in 0 .. MaxCalls
  <2>1. Begin(c, call)
      BY <1>2
  <2> QED
      BY <2>1, BeginType
<1>6. GoodBlobs(blobs')
  <2>1. blobs' = IF ref = 0 THEN blobs ELSE Store(ref, s)
      BY <1>2
  <2> QED
      BY <1>3, <2>1, BlobsAreGood, StoreIsGood, SecretTypes
<1>7. creds' \in [Cred -> Credential] /\ \A y \in Cred : creds'[y].link \in {0, creds[y].link}
  <2>1. creds' = [creds EXCEPT ![x] = [NoCredential EXCEPT !.life = "live", !.kind = k, !.blob = ref]]
      BY <1>2
  <2> HIDE DEF ref
  <2>2. [NoCredential EXCEPT !.life = "live", !.kind = k, !.blob = ref] \in Credential
        /\ [NoCredential EXCEPT !.life = "live", !.kind = k, !.blob = ref].link = 0
      BY <1>3, NoCredentialType DEF Credential
  <2> QED
      BY <2>1, <2>2, Before
<1>8. saved' \in [Cred -> Secret]
    BY <1>2, Before, SecretTypes
<1> HIDE DEF call
<1>9. calls' \in [Calls -> {Idle} \cup Active] /\ CallsFit'
    BY <1>1, <1>4, <1>5, OneCallChanges
<1> QED
    BY <1>1, <1>5, <1>6, <1>7, <1>8, <1>9, Before, QuietStep

-----------------------------------------------------------------------------
(* The credential itself.                                                  *)

\* A call that ends, or goes on to a step before the key file, is harmless.
LEMMA GoingOnIsHarmless ==
    ASSUME IInv, NEW c \in Calls, calls[c] # Idle, calls[c].step \in {"row", "blob", "sync"},
           NEW step \in {"blob", "sync"}
    PROVE  Harmless([calls[c] EXCEPT !.step = step])
<1> DEFINE call == [calls[c] EXCEPT !.step = step]
<1>1. /\ call \in Active /\ call.step = step /\ call.file = calls[c].file
      /\ call.old = calls[c].old /\ call.seen = calls[c].seen /\ call.cred = calls[c].cred
    BY AtWork DEF Active
<1>2. Fits(calls[c]) /\ calls[c].file = 0
    BY AtWork DEF Fits
<1> HIDE DEF call
<1>3. Fits(call) /\ ~Writing(call)
    BY <1>1, <1>2 DEF Fits, Writing
<1>4. \A d \in Calls : Writing(calls[d]) => call.old # calls[d].file
  <2>1. ASSUME NEW d \in Calls, Writing(calls[d]) PROVE calls[c].old # calls[d].file
      BY <2>1 DEF IInv, CallsFit, OwnFile
  <2> QED
      BY <1>1, <2>1
<1>5. Harmless(call)
    BY <1>1, <1>3, <1>4 DEF Harmless
<1> QED
    BY <1>5 DEF call

LEMMA PatchRowKeepsIInv == ASSUME IInv, NEW c \in Calls, PatchRow(c) PROVE IInv'
<1>1. /\ calls[c] # Idle /\ calls[c].step = "row"
      /\ UNCHANGED <<blobs, rows, tier1, files, unlocked, saved, begun, faults>>
    BY DEF PatchRow, At, bounds
<1>2. PICK call : Harmless(call) /\ calls' = [calls EXCEPT ![c] = call]
  <2>1. CASE End(c)
      BY <2>1, IdleIsHarmless DEF End
  <2>2. ASSUME NEW step \in {"blob", "sync"}, GoTo(c, step)
        PROVE  calls' = [calls EXCEPT ![c] = [calls[c] EXCEPT !.step = step]]
      BY <2>2 DEF GoTo
  <2>3. End(c) \/ GoTo(c, "blob") \/ GoTo(c, "sync")
      BY DEF PatchRow
  <2> QED
      BY <1>1, <2>1, <2>2, <2>3, GoingOnIsHarmless
<1>3. calls' \in [Calls -> {Idle} \cup Active] /\ CallsFit'
    BY <1>1, <1>2, OneCallChanges
<1>4. creds' \in [Cred -> Credential] /\ \A y \in Cred : creds'[y].link = creds[y].link
  <2>1. calls[c].kind \in Kind
      BY <1>1, AtWork DEF Active
  <2>2. creds' = creds \/ creds' = [creds EXCEPT ![calls[c].cred].kind = calls[c].kind]
      BY DEF PatchRow
  <2>3. ASSUME NEW y \in Cred
        PROVE  [creds[y] EXCEPT !.kind = calls[c].kind] \in Credential
               /\ [creds[y] EXCEPT !.kind = calls[c].kind].link = creds[y].link
    <3>1. creds[y] \in Credential
        BY Before
    <3> QED
        BY <2>1, <3>1 DEF Credential
  <2> DEFINE x == calls[c].cred
  <2>4. x \in Cred
      BY <1>1, AtWork
  <2>5. creds' = creds \/ creds' = [creds EXCEPT ![x] = [creds[x] EXCEPT !.kind = calls[c].kind]]
      BY <2>2, <2>4, Before
  <2> HIDE DEF x
  <2> QED
      BY <2>3, <2>4, <2>5, Before
<1> QED
    BY <1>1, <1>3, <1>4, Before, BlobsAreGood, QuietStep

LEMMA PatchBlobKeepsIInv == ASSUME IInv, NEW c \in Calls, PatchBlob(c) PROVE IInv'
<1> DEFINE x == calls[c].cred
           secret == calls[c].secret
           had == calls[c].ref # 0
           ref == IF had THEN calls[c].ref ELSE NextRef
           changed == secret # Keep /\ (secret # Empty \/ had)
           unlink == calls[c].use = "no"
<1>1. /\ calls[c] # Idle /\ calls' = [calls EXCEPT ![c] = Idle]
      /\ UNCHANGED <<rows, tier1, files, unlocked, begun, faults>>
    BY DEF PatchBlob, At, End, bounds
<1>2. /\ changed => ref <= MaxRefs
      /\ blobs' = IF changed THEN Store(ref, secret) ELSE blobs
      /\ saved' = IF secret # Keep THEN [saved EXCEPT ![x] = secret] ELSE saved
      /\ creds' = IF Live(x)
                THEN [creds EXCEPT ![x].blob = IF changed /\ secret = Empty THEN 0
                                               ELSE IF changed /\ ~had THEN ref ELSE @,
                                   ![x].link = IF unlink THEN 0 ELSE @,
                                   ![x].sync = IF unlink THEN "none" ELSE @]
                ELSE creds
    BY DEF PatchBlob
<1>3. secret \in Given /\ x \in Cred /\ calls[c].ref \in 0 .. MaxRefs
    BY <1>1, AtWork
<1>4. changed => ref \in 1 .. MaxRefs
    BY <1>2, <1>3, NextRefIsNew, Bounds
<1> HIDE DEF x, secret, had, ref, unlink
<1>5. GoodBlobs(blobs')
    BY <1>2, <1>3, <1>4, BlobsAreGood, StoreIsGood, SecretTypes
<1>6. saved' \in [Cred -> Secret]
    BY <1>2, <1>3, Before, SecretTypes
<1>7. creds' \in [Cred -> Credential] /\ \A y \in Cred : creds'[y].link \in {0, creds[y].link}
  <2>1. CASE ~Live(x)
      BY <1>2, <2>1, Before
  <2>2. CASE Live(x)
    <3> DEFINE blob == IF changed /\ secret = Empty THEN 0
                       ELSE IF changed /\ ~had THEN ref ELSE creds[x].blob
               link == IF unlink THEN 0 ELSE creds[x].link
               sync == IF unlink THEN "none" ELSE creds[x].sync
    <3>1. creds[x] \in Credential
        BY <1>3, Before
    <3>2. blob \in 0 .. MaxRefs /\ link \in 0 .. MaxRows /\ sync \in {"none", "ok", "error"}
          /\ link \in {0, creds[x].link}
        BY <1>4, <3>1, Bounds DEF Credential
    <3>3. creds' = [creds EXCEPT ![x] = [creds[x] EXCEPT !.blob = blob, !.link = link, !.sync = sync]]
        BY <1>2, <2>2, <1>3, Before
    <3> HIDE DEF blob, link, sync
    <3>4. [creds[x] EXCEPT !.blob = blob, !.link = link, !.sync = sync] \in Credential
          /\ [creds[x] EXCEPT !.blob = blob, !.link = link, !.sync = sync].link = link
        BY <3>1, <3>2 DEF Credential
    <3> QED
        BY <1>3, <3>2, <3>3, <3>4, Before
  <2> QED
      BY <2>1, <2>2
<1>8. calls' \in [Calls -> {Idle} \cup Active] /\ CallsFit'
    BY <1>1, IdleIsHarmless, OneCallChanges
<1> QED
    BY <1>1, <1>5, <1>6, <1>7, <1>8, Before, QuietStep

LEMMA CallsStayFit ==
    ASSUME IInv, UNCHANGED <<rows, files, calls>>
    PROVE  calls' \in [Calls -> {Idle} \cup Active] /\ CallsFit'
BY Before DEF IInv, CallsFit, Fits, OwnFile, Writing, Leads

LEMMA CredentialStepsKeepIInv ==
    ASSUME IInv, NEW x \in Cred, unlinkOperationalCopy(x) \/ Delete(x) PROVE IInv'
<1>1. UNCHANGED <<rows, tier1, files, calls, unlocked, begun, faults>>
    BY DEF unlinkOperationalCopy, Delete, bounds
<1>2. calls' \in [Calls -> {Idle} \cup Active] /\ CallsFit'
    BY <1>1, CallsStayFit
<1>3. CASE unlinkOperationalCopy(x)
  <2>1. creds' \in [Cred -> Credential] /\ \A y \in Cred : creds'[y].link \in {0, creds[y].link}
    <3>1. creds[x] \in Credential
        BY Before
    <3>2. [creds[x] EXCEPT !.link = 0, !.sync = "none"] \in Credential
          /\ [creds[x] EXCEPT !.link = 0, !.sync = "none"].link = 0
      <4>1. 0 \in 0 .. MaxRows
          BY Bounds
      <4> QED
          BY <3>1, <4>1 DEF Credential
    <3>3. creds' = [creds EXCEPT ![x] = [creds[x] EXCEPT !.link = 0, !.sync = "none"]]
        BY <1>3, <3>1, Before DEF unlinkOperationalCopy
    <3> QED
        BY <3>2, <3>3, Before
  <2> QED
      BY <1>1, <1>2, <1>3, <2>1, Before, BlobsAreGood, QuietStep DEF unlinkOperationalCopy
<1>4. CASE Delete(x)
  <2>1. [NoCredential EXCEPT !.life = "deleted"] \in Credential
        /\ [NoCredential EXCEPT !.life = "deleted"].link = 0
      BY NoCredentialType DEF Credential
  <2>2. creds' \in [Cred -> Credential] /\ \A y \in Cred : creds'[y].link \in {0, creds[y].link}
      BY <1>4, <2>1, Before DEF Delete
  <2>3. creds[x].blob \in 0 .. MaxRefs
      BY Before DEF Credential
  <2>4. GoodBlobs(blobs')
      BY <1>4, <2>3, BlobsAreGood, StoreIsGood, SecretTypes DEF Delete
  <2>5. saved' \in [Cred -> Secret]
      BY <1>4, Before, SecretTypes DEF Delete, Proper
  <2> QED
      BY <1>1, <1>2, <2>2, <2>4, <2>5, Before, QuietStep
<1> QED
    BY <1>3, <1>4

LEMMA CrashKeepsIInv == ASSUME IInv, NEW p, Crash(p) PROVE IInv'
<1>1. /\ calls' = [c \in Calls |-> IF c \in p THEN Idle ELSE calls[c]]
      /\ UNCHANGED <<creds, blobs, rows, tier1, files, saved, begun>>
      /\ unlocked' \in BOOLEAN /\ faults' \in 0 .. MaxFaults
    BY Before, Bounds DEF Crash
<1>2. calls' \in [Calls -> {Idle} \cup Active] /\ \A c \in Calls : calls'[c] \in {Idle, calls[c]}
    BY <1>1, Before
<1>3. CallsFit'
  <2>1. ASSUME NEW c \in Calls PROVE Fits(calls[c])' /\ OwnFile(c)'
    <3>1. Fits(calls[c]) /\ OwnFile(c)
        BY DEF IInv, CallsFit
    <3>2. Fits(calls[c])'
        BY <1>1, <1>2, <3>1 DEF Fits, Leads
    <3>3. OwnFile(c)'
        BY <1>1, <1>2, <3>1 DEF OwnFile, Writing
    <3> QED
        BY <3>2, <3>3
  <2> QED
      BY <2>1 DEF CallsFit
<1> QED
    BY <1>1, <1>2, <1>3, Before, BlobsAreGood, QuietStep

LEMMA LockKeepsIInv == ASSUME IInv, LockOrUnlock PROVE IInv'
<1>1. UNCHANGED <<creds, blobs, rows, tier1, files, calls, saved, begun, faults>>
    BY DEF LockOrUnlock, bounds
<1>2. unlocked' \in BOOLEAN
    BY Zenon DEF LockOrUnlock
<1> QED
    BY <1>1, <1>2, Before, CallsStayFit, BlobsAreGood, QuietStep

-----------------------------------------------------------------------------
(* The sync.                                                               *)

\* What is read decides the way: with a key to write for ssh, without one otherwise.
LEMMA ReadSecretKeepsIInv == ASSUME IInv, NEW c \in Calls, ReadSecret(c) PROVE IInv'
<1> DEFINE x == calls[c].cred
           own == calls[c].secret # Keep /\ (calls[c].secret # Empty \/ calls[c].op = "create")
           new == calls[c].op = "patch" /\ creds[x].blob = 0
           seen == [creds[x] EXCEPT !.blob = IF new THEN NextRef ELSE @]
           secret == IF own THEN calls[c].secret ELSE Reveal(x)
           old == IF seen.link # 0 THEN rows[seen.link].key ELSE 0
           given == IF own THEN calls[c].secret ELSE Keep
           step == IF seen.kind = "ssh" /\ secret.key # None THEN "key" ELSE "commit"
           call == [calls[c] EXCEPT !.seen = seen, !.read = secret, !.old = old,
                                    !.secret = given, !.step = step]
<1>1. /\ calls[c] # Idle /\ calls[c].step = "sync"
      /\ UNCHANGED <<rows, tier1, files, unlocked, saved, begun, faults>>
    BY DEF ReadSecret, At, bounds
<1>2. CASE End(c) /\ UNCHANGED <<creds, blobs>>
  <2>1. calls' \in [Calls -> {Idle} \cup Active] /\ CallsFit'
      BY <1>1, <1>2, IdleIsHarmless, OneCallChanges DEF End
  <2> QED
      BY <1>1, <1>2, <2>1, Before, BlobsAreGood, QuietStep
<1>3. CASE ~(End(c) /\ UNCHANGED <<creds, blobs>>)
  <2>1. /\ seen.blob <= MaxRefs
        /\ creds' = [creds EXCEPT ![x] = seen]
        /\ blobs' = IF new THEN Store(seen.blob, Empty) ELSE blobs
        /\ calls' = [calls EXCEPT
                   ![c].seen = seen,
                   ![c].read = secret,
                   ![c].old = old,
                   ![c].secret = IF own THEN @ ELSE Keep,
                   ![c].step = step]
      BY <1>3 DEF ReadSecret
  <2>2. x \in Cred /\ creds[x] \in Credential /\ calls[c] \in Active
        /\ calls[c].secret \in Given /\ Fits(calls[c]) /\ calls[c].file = 0
      BY <1>1, AtWork, Before DEF Fits
  <2>3. /\ seen \in Credential /\ seen.link = creds[x].link /\ seen.kind = creds[x].kind
        /\ seen.link \in 0 .. MaxRows
        /\ new => seen.blob \in 1 .. MaxRefs
    <3>1. NextRef \in Nat \ {0}
        BY NextRefIsNew
    <3>2. new => NextRef \in 1 .. MaxRefs /\ NextRef \in 0 .. MaxRefs
      <4>1. new => seen.blob = NextRef
          BY <2>2 DEF Credential
      <4> QED
          BY <2>1, <3>1, <4>1, Bounds
    <3> HIDE DEF new
    <3> QED
        BY <2>2, <3>2 DEF Credential
  <2>4. /\ Proper(secret) /\ given \in Given
        /\ given = IF own THEN calls[c].secret ELSE Keep
        /\ step = IF seen.kind = "ssh" /\ secret.key # None THEN "key" ELSE "commit"
        /\ old = IF seen.link # 0 THEN rows[seen.link].key ELSE 0
      BY <2>2, RevealIsProper, SecretTypes
  <2> HIDE DEF x, own, new, seen, secret, given, old, step
  <2>5. Leads(seen.link, x)
      BY <2>2, <2>3 DEF IInv, LinksFit
  <2>6. old \in 0 .. MaxFiles /\ old <= Len(files)
        /\ \A d \in Calls : Writing(calls[d]) => old # calls[d].file
    <3>1. CASE seen.link = 0
      <4>1. \A d \in Calls : Writing(calls[d]) => calls[d].file # 0
          BY DEF Writing
      <4> QED
          BY <2>4, <3>1, <4>1, Before, Bounds
    <3>2. CASE seen.link # 0
      <4>1. seen.link \in DOMAIN rows
          BY <2>3, <2>5, <3>2, Before DEF Leads
      <4>2. rows[seen.link].key \in 0 .. MaxFiles /\ rows[seen.link].key <= Len(files)
          BY <4>1, Before DEF IInv, RowsFit
      <4>3. \A d \in Calls : Writing(calls[d]) => rows[seen.link].key # calls[d].file
          BY <4>1 DEF IInv, CallsFit, OwnFile
      <4> QED
          BY <2>4, <3>2, <4>2, <4>3
    <3> QED
        BY <3>1, <3>2
  <2>7. calls' = [calls EXCEPT ![c] = call]
      BY <2>1, <2>2, <2>4, Before
  <2>8. /\ call \in Active /\ call.step = step /\ call.seen = seen /\ call.read = secret
        /\ call.old = old /\ call.cred = x /\ call.file = 0
    <3>1. secret \in Secret /\ step \in {"key", "commit"}
        BY <2>4 DEF Proper
    <3>2. calls[c].cred = x
        BY DEF x
    <3>3. /\ calls[c] \in Active /\ seen \in Credential /\ secret \in Secret
          /\ old \in 0 .. MaxFiles /\ given \in Given /\ step \in {"key", "commit"}
        BY <2>2, <2>3, <2>4, <2>6, <3>1
    <3>4. call = [calls[c] EXCEPT !.seen = seen, !.read = secret, !.old = old,
                                  !.secret = given, !.step = step]
        OBVIOUS
    <3> HIDE DEF call
    <3>5. call \in Active
        BY <3>3, <3>4 DEF Active
    <3>6. call.step = step /\ call.seen = seen
        BY <3>3, <3>4 DEF Active
    <3>7. call.old = old /\ call.read = secret
        BY <3>3, <3>4 DEF Active
    <3>8. call.cred = calls[c].cred /\ call.file = calls[c].file
        BY <3>3, <3>4 DEF Active
    <3> QED
        BY <2>2, <3>2, <3>5, <3>6, <3>7, <3>8
  <2> HIDE DEF call
  <2>9. Fits(call)
      BY <2>4, <2>5, <2>6, <2>8, Before DEF Fits, Proper
  <2>10. Harmless(call)
      BY <2>6, <2>8, <2>9 DEF Harmless, Writing
  <2>11. calls' \in [Calls -> {Idle} \cup Active] /\ CallsFit'
      BY <1>1, <2>7, <2>10, OneCallChanges
  <2>12. GoodBlobs(blobs')
    <3>1. CASE new
        BY <2>1, <2>3, <3>1, StoreIsGood, SecretTypes
    <3>2. CASE ~new
        BY <2>1, <3>2, BlobsAreGood
    <3> QED
        BY <3>1, <3>2
  <2>13. creds' \in [Cred -> Credential] /\ \A y \in Cred : creds'[y].link = creds[y].link
      BY <2>1, <2>2, <2>3, Before
  <2> QED
      BY <1>1, <2>11, <2>12, <2>13, Before, QuietStep
<1> QED
    BY <1>2, <1>3

\* The new key file is no row's and no other call's.
LEMMA MaterializeKeepsIInv == ASSUME IInv, NEW c \in Calls, materializeKeyFile(c) PROVE IInv'
<1> DEFINE new == Len(files) + 1
           call == [calls[c] EXCEPT !.file = new, !.step = "commit"]
<1>1. /\ calls[c] # Idle /\ calls[c].step = "key" /\ Len(files) < MaxFiles
      /\ files' = Append(files, calls[c].read.key)
      /\ UNCHANGED <<creds, blobs, rows, tier1, unlocked, saved, begun, faults>>
    BY DEF materializeKeyFile, At, bounds
<1>2. /\ calls[c] \in Active /\ calls[c].read.key \in Keys /\ calls[c].read.key # None
      /\ Fits(calls[c]) /\ calls[c].file = 0
    BY <1>1, AtWork DEF Fits, Secret
<1>3. /\ files' \in Seq(Keys \cup {None}) /\ Len(files') = Len(files) + 1
      /\ files'[new] = calls[c].read.key
      /\ \A i \in 1 .. Len(files) : files'[i] = files[i]
      /\ Len(files') \in 0 .. MaxFiles /\ Len(files) \in Nat
      /\ DOMAIN files' = 1 .. Len(files')
    BY <1>1, <1>2, Before, Bounds
<1>4. /\ calls' = [calls EXCEPT ![c] = call]
      /\ call \in Active /\ call.file = new /\ call.step = "commit" /\ call.old = calls[c].old
      /\ call.seen = calls[c].seen /\ call.cred = calls[c].cred /\ call.read = calls[c].read
    <2>1. new \in 0 .. MaxFiles
        BY <1>1, <1>3, Bounds
    <2> HIDE DEF new
    <2>2. call \in Active /\ call.file = new /\ call.step = "commit" /\ call.old = calls[c].old
          /\ call.seen = calls[c].seen /\ call.cred = calls[c].cred /\ call.read = calls[c].read
        BY <1>2, <2>1 DEF Active
    <2>3. calls' = [calls EXCEPT ![c] = call]
        BY <1>2, Before DEF materializeKeyFile, new
    <2> QED
        BY <2>2, <2>3
<1> HIDE DEF call
<1>5. calls' \in [Calls -> {Idle} \cup Active] /\ calls'[c] = call
      /\ \A d \in Calls : d # c => calls'[d] = calls[d]
    BY <1>4, Before
<1>6. TypeOK'
    BY <1>1, <1>3, <1>5, Before DEF IInv, Typed, TypeOK
<1>7. Typed'
    BY <1>1, <1>3, <1>5, <1>6 DEF IInv, Typed
<1>8. \A i \in DOMAIN rows : rows[i].key \in 0 .. Len(files)
    BY Before DEF IInv, RowsFit
<1>9. RowsFit' /\ LinksFit' /\ SecretsFit'
    BY <1>1, <1>3, <1>8 DEF IInv, RowsFit, LinksFit, Leads, SecretsFit
<1>10. KeysExist'
    BY <1>1, <1>3, <1>8 DEF IInv, KeysExist
<1>11. SecretFitsKey'
  <2>1. ASSUME NEW i \in DOMAIN rows, rows[i].kind = "ssh" PROVE files'[rows[i].key] = files[rows[i].key]
      BY <1>3, <1>8, <2>1 DEF IInv, RowsFit
  <2>2. \A x : Sole(x)' <=> Sole(x)
      BY <1>1 DEF Sole
  <2> QED
      BY <1>1, <2>1, <2>2 DEF IInv, SecretFitsKey
<1>12. CallsFit'
  <2>1. ASSUME NEW d \in Calls, calls[d] # Idle
        PROVE  calls[d].file \in 0 .. Len(files) /\ calls[d].old \in 0 .. Len(files)
      BY <2>1, <1>3, AtWork DEF Fits
  <2>2. Fits(calls[c])'
      BY <1>1, <1>2, <1>3, <1>4, <1>5, <2>1 DEF Fits, Leads
  <2>3. ASSUME NEW d \in Calls, d # c PROVE Fits(calls[d])'
    <3>1. Fits(calls[d])
        BY DEF IInv, CallsFit
    <3> QED
        BY <1>1, <1>3, <1>5, <2>1, <2>3, <3>1 DEF Fits, Leads
  <2>4. OwnFile(c)'
      BY <1>1, <1>3, <1>4, <1>5, <1>8, <2>1 DEF OwnFile, Writing
  <2>5. ASSUME NEW d \in Calls, d # c PROVE OwnFile(d)'
    <3>1. OwnFile(d)
        BY DEF IInv, CallsFit
    <3> QED
        BY <1>1, <1>3, <1>4, <1>5, <2>1, <2>5, <3>1 DEF OwnFile, Writing
  <2> QED
      BY <2>2, <2>3, <2>4, <2>5 DEF CallsFit
<1> QED
    BY <1>7, <1>9, <1>10, <1>11, <1>12 DEF IInv

-----------------------------------------------------------------------------
(* The commit.                                                             *)

\* What a commit makes of a row, in numbers.
LEMMA CommitFacts ==
    ASSUME IInv, NEW c \in Calls, CommitSync(c)
    PROVE  LET link == calls[c].seen.link
               at == IF link = 0 THEN Len(rows) + 1 ELSE link
               row == [kind |-> calls[c].seen.kind, key |-> KeyFor(c),
                       secret |-> Tier1(c).refers, owner |-> calls[c].cred]
           IN  /\ calls[c] # Idle /\ calls[c].step = "commit"
               /\ UNCHANGED files
               /\ rows' \in Seq(RowOf) /\ Len(rows') \in 0 .. MaxRows /\ at \in 1 .. Len(rows')
               /\ DOMAIN rows' = 1 .. Len(rows') /\ Len(rows) <= Len(rows')
               /\ Len(rows') <= at \/ Len(rows') = Len(rows)
               /\ rows'[at] = row /\ row \in RowOf
               /\ \A i \in DOMAIN rows' : i # at => i \in DOMAIN rows /\ rows'[i] = rows[i]
               /\ link # 0 => link \in DOMAIN rows /\ rows[link].owner = calls[c].cred
               /\ KeyFor(c) <= Len(files) /\ (calls[c].seen.kind = "ssh" => KeyFor(c) # 0)
               /\ KeyFor(c) # 0 => files[KeyFor(c)] # None
               /\ calls[c].file # 0 => KeyFor(c) = calls[c].file
               /\ calls[c].file = 0 =>
                     KeyFor(c) = 0 \/ \E i \in DOMAIN rows : rows[i].key = KeyFor(c)
<1> DEFINE link == calls[c].seen.link
           at == IF link = 0 THEN Len(rows) + 1 ELSE link
           row == [kind |-> calls[c].seen.kind, key |-> KeyFor(c),
                   secret |-> Tier1(c).refers, owner |-> calls[c].cred]
<1>1. calls[c] # Idle /\ calls[c].step = "commit" /\ UNCHANGED files /\ CanApply(c)
    BY DEF CommitSync, At
<1>2. Fits(calls[c]) /\ link \in 0 .. MaxRows /\ calls[c].cred \in Cred
      /\ calls[c].seen.kind \in Kind /\ calls[c].read \in Secret
      /\ calls[c].file \in 0 .. MaxFiles
    BY <1>1, AtWork
<1>3. link # 0 => link \in DOMAIN rows /\ rows[link].owner = calls[c].cred
    BY <1>1, <1>2, Before DEF Fits, Leads
<1>4. KeyFor(c) \in 0 .. MaxFiles /\ KeyFor(c) <= Len(files)
    BY <1>1, <1>2, <1>3, Before, Bounds DEF KeyFor, Fits, IInv, RowsFit
<1>5. KeyFor(c) # 0 => files[KeyFor(c)] # None
    BY <1>1, <1>2, <1>3 DEF KeyFor, Fits, IInv, KeysExist
<1>6. calls[c].seen.kind = "ssh" => KeyFor(c) # 0
    BY <1>1 DEF CanApply
<1>7. Tier1(c).refers \in BOOLEAN
  <2>1. link # 0 => rows[link].secret \in BOOLEAN
      BY <1>3, Before DEF RowOf
  <2> QED
      BY <1>2, <2>1 DEF Tier1, Secret
<1>8. row \in RowOf
    BY <1>2, <1>4, <1>7 DEF RowOf
<1>9. rows' = IF link = 0 THEN Append(rows, row) ELSE [rows EXCEPT ![link] = row]
    BY DEF CommitSync, applyOperationalCopy
<1>10. link = 0 => Len(rows) < MaxRows
    BY <1>1 DEF CanApply
<1> HIDE DEF row
<1>11. /\ rows' \in Seq(RowOf) /\ Len(rows') \in 0 .. MaxRows /\ at \in 1 .. Len(rows')
       /\ DOMAIN rows' = 1 .. Len(rows') /\ Len(rows) <= Len(rows')
       /\ Len(rows') <= at \/ Len(rows') = Len(rows)
       /\ rows'[at] = row
       /\ \A i \in DOMAIN rows' : i # at => i \in DOMAIN rows /\ rows'[i] = rows[i]
  <2>1. CASE link = 0
      BY <1>8, <1>9, <1>10, <2>1, Before, Bounds
  <2>2. CASE link # 0
      BY <1>3, <1>8, <1>9, <2>2, Before, Bounds
  <2> QED
      BY <2>1, <2>2
<1>12. /\ calls[c].file # 0 => KeyFor(c) = calls[c].file
       /\ calls[c].file = 0 => KeyFor(c) = 0 \/ \E i \in DOMAIN rows : rows[i].key = KeyFor(c)
    BY <1>3 DEF KeyFor
<1> QED
    BY <1>1, <1>3, <1>4, <1>5, <1>6, <1>8, <1>11, <1>12 DEF row

LEMMA CommitKeepsIInv == ASSUME IInv, NEW c \in Calls, CommitSync(c) PROVE IInv'
<1> DEFINE x == calls[c].cred
           link == calls[c].seen.link
           at == IF link = 0 THEN Len(rows) + 1 ELSE link
           key == KeyFor(c)
           own == calls[c].secret # Keep /\ calls[c].seen.blob # 0
<1>1. /\ calls[c] # Idle /\ calls[c].step = "commit"
      /\ UNCHANGED <<files, unlocked, begun, faults>>
    BY DEF CommitSync, At, bounds
<1>2. /\ rows' \in Seq(RowOf) /\ Len(rows') \in 0 .. MaxRows /\ at \in 1 .. Len(rows')
      /\ DOMAIN rows' = 1 .. Len(rows') /\ Len(rows) <= Len(rows')
      /\ Len(rows') <= at \/ Len(rows') = Len(rows)
      /\ rows'[at].kind = calls[c].seen.kind /\ rows'[at].key = key
      /\ rows'[at].secret = Tier1(c).refers /\ rows'[at].owner = x
      /\ \A i \in DOMAIN rows' : rows'[i] \in RowOf
      /\ \A i \in DOMAIN rows' : i # at => i \in DOMAIN rows /\ rows'[i] = rows[i]
  <2> DEFINE row == [kind |-> calls[c].seen.kind, key |-> KeyFor(c),
                     secret |-> Tier1(c).refers, owner |-> calls[c].cred]
  <2>1. /\ rows' \in Seq(RowOf) /\ Len(rows') \in 0 .. MaxRows /\ at \in 1 .. Len(rows')
        /\ DOMAIN rows' = 1 .. Len(rows') /\ Len(rows) <= Len(rows')
        /\ Len(rows') <= at \/ Len(rows') = Len(rows)
        /\ rows'[at] = row
        /\ \A i \in DOMAIN rows' : i # at => i \in DOMAIN rows /\ rows'[i] = rows[i]
      BY CommitFacts
  <2>2. row.kind = calls[c].seen.kind /\ row.key = key /\ row.secret = Tier1(c).refers
        /\ row.owner = x
      OBVIOUS
  <2> HIDE DEF at, row, key, x
  <2>3. \A i \in DOMAIN rows' : rows'[i] \in RowOf
      BY <2>1
  <2> QED
      BY <2>1, <2>2, <2>3
<1>3. /\ link # 0 => link \in DOMAIN rows /\ rows[link].owner = x
      /\ key <= Len(files) /\ (calls[c].seen.kind = "ssh" => key # 0)
      /\ key # 0 => files[key] # None
      /\ calls[c].file # 0 => key = calls[c].file
      /\ calls[c].file = 0 => key = 0 \/ \E i \in DOMAIN rows : rows[i].key = key
    BY CommitFacts
<1>4. /\ x \in Cred /\ calls[c].seen.kind \in Kind /\ calls[c].read \in Secret
      /\ calls[c].secret \in Given /\ calls[c].seen.blob \in 0 .. MaxRefs
      /\ calls[c] \in Active /\ Fits(calls[c]) /\ OwnFile(c)
    BY <1>1, AtWork
<1>5. tier1' = [tier1 EXCEPT ![Owned(c)] = Tier1(c).value] /\ Owned(c) = <<x, calls[c].seen.kind>>
    BY DEF CommitSync, applyOperationalCopy, Owned
<1>6. /\ blobs' = IF own THEN Store(calls[c].seen.blob, calls[c].secret) ELSE blobs
      /\ saved' = IF own THEN [saved EXCEPT ![x] = calls[c].secret] ELSE saved
    BY DEF CommitSync
<1>7. creds' = [creds EXCEPT ![x].link = IF link = 0 THEN at ELSE @,
                             ![x].sync = IF Live(x) THEN "ok" ELSE @]
    BY DEF CommitSync, applyOperationalCopy
<1>8. calls' \in {[calls EXCEPT ![c] = Idle], [calls EXCEPT ![c].step = "retire"]}
    BY DEF CommitSync, GoTo, End
<1> HIDE DEF x, link, at, key
<1>9. /\ tier1' \in [Cred \X Kind -> Keys \cup {None}]
      /\ \A y \in Cred : y # x => tier1'[<<y, "ssh">>] = tier1[<<y, "ssh">>]
      /\ calls[c].seen.kind = "ssh" => tier1'[<<x, "ssh">>] = Tier1(c).value
  <2>1. Owned(c) \in Cred \X Kind
      BY <1>4, <1>5
  <2>2. Tier1(c).value \in Keys \cup {None}
      BY <1>4, <2>1, Before DEF Tier1, Secret
  <2>3. tier1 \in [Cred \X Kind -> Keys \cup {None}] /\ "ssh" \in Kind
      BY Before DEF Kind
  <2> QED
      BY <1>4, <1>5, <2>1, <2>2, <2>3
<1>10. creds' \in [Cred -> Credential]
       /\ \A y \in Cred : creds'[y].link = creds[y].link
                          \/ (y = x /\ link = 0 /\ creds'[y].link = at)
  <2> DEFINE newlink == IF link = 0 THEN at ELSE creds[x].link
             sync == IF Live(x) THEN "ok" ELSE creds[x].sync
  <2>1. creds[x] \in Credential
      BY <1>4, Before
  <2>2. newlink \in 0 .. MaxRows /\ sync \in {"none", "ok", "error"}
      BY <1>2, <2>1, Bounds DEF Credential
  <2>3. creds' = [creds EXCEPT ![x] = [creds[x] EXCEPT !.link = newlink, !.sync = sync]]
      BY <1>4, <1>7, Before
  <2>4. newlink = creds[x].link \/ (link = 0 /\ newlink = at)
      OBVIOUS
  <2> HIDE DEF newlink, sync
  <2>5. [creds[x] EXCEPT !.link = newlink, !.sync = sync] \in Credential
        /\ [creds[x] EXCEPT !.link = newlink, !.sync = sync].link = newlink
      BY <2>1, <2>2 DEF Credential
  <2> QED
      BY <1>4, <2>3, <2>4, <2>5, Before
<1>11. GoodBlobs(blobs') /\ saved' \in [Cred -> Secret]
  <2>1. own => calls[c].seen.blob \in 1 .. MaxRefs /\ Proper(calls[c].secret)
               /\ calls[c].secret \in Secret
      BY <1>4, SecretTypes, Bounds
  <2> HIDE DEF own
  <2> QED
      BY <1>4, <1>6, <2>1, BlobsAreGood, StoreIsGood, Before
<1>12. /\ calls' \in [Calls -> {Idle} \cup Active] /\ ~Writing(calls'[c])
       /\ calls'[c] # Idle => Fits(calls'[c]) /\ calls'[c].old = calls[c].old
                              /\ calls'[c].file = calls[c].file
                              /\ calls'[c].seen = calls[c].seen /\ calls'[c].cred = x
                              /\ calls'[c].step = "retire"
       /\ \A d \in Calls : d # c => calls'[d] = calls[d]
  <2>1. CASE calls' = [calls EXCEPT ![c] = Idle]
      BY <2>1, Before DEF Writing
  <2>2. CASE calls' = [calls EXCEPT ![c].step = "retire"]
    <3> DEFINE call == [calls[c] EXCEPT !.step = "retire"]
    <3>1. calls' = [calls EXCEPT ![c] = call]
        BY <1>4, <2>2, Before
    <3>2. call \in Active /\ call.step = "retire" /\ call.old = calls[c].old
          /\ call.seen = calls[c].seen /\ call.file = calls[c].file
          /\ call.cred = calls[c].cred
        BY <1>4 DEF Active
    <3> HIDE DEF call
    <3>3. Fits(call)
        BY <1>1, <1>4, <3>2 DEF Fits
    <3> QED
        BY <3>1, <3>2, <3>3, Before DEF Writing, x
  <2> QED
      BY <1>8, <2>1, <2>2
<1>13. TypeOK'
    BY <1>1, <1>2, <1>9, <1>10, <1>11, <1>12, Before DEF IInv, Typed, TypeOK, GoodBlobs, Proper
<1>14. Typed'
    BY <1>1, <1>2, <1>12, <1>13 DEF IInv, Typed
<1>15. RowsFit' /\ KeysExist'
    BY <1>1, <1>2, <1>3 DEF IInv, RowsFit, KeysExist
<1>16. ASSUME NEW l \in 0 .. MaxRows, NEW y, Leads(l, y)
       PROVE  l <= Len(rows') /\ (l # 0 => rows'[l].owner = y)
  <2>1. l <= Len(rows) /\ Len(rows) \in Nat /\ (l # 0 => rows[l].owner = y)
      BY <1>16, Before DEF Leads
  <2>2. CASE l = at
      BY <1>2, <1>3, <2>1, <2>2, Bounds DEF at
  <2>3. CASE l # at
      BY <1>2, <2>1, <2>3, Bounds
  <2> QED
      BY <2>2, <2>3
<1>17. LinksFit'
  <2>1. \A y \in Cred : creds[y].link \in 0 .. MaxRows /\ Leads(creds[y].link, y)
      BY Before DEF Credential, IInv, LinksFit
  <2>2. ASSUME NEW y \in Cred PROVE Leads(creds[y].link, y)'
    <3>1. CASE creds'[y].link = creds[y].link
        BY <1>16, <2>1, <3>1 DEF Leads
    <3>2. CASE y = x /\ creds'[y].link = at
        BY <1>2, <3>2 DEF Leads
    <3> QED
        BY <1>10, <3>1, <3>2
  <2> QED
      BY <2>2 DEF LinksFit
<1>18. SecretsFit'
    BY <1>11 DEF SecretsFit, GoodBlobs
<1>19. DOMAIN rows \subseteq DOMAIN rows'
  <2>1. /\ rows' \in Seq(RowOf) /\ rows \in Seq(RowOf) /\ DOMAIN rows = 1 .. Len(rows)
        /\ DOMAIN rows' = 1 .. Len(rows') /\ Len(rows) <= Len(rows')
      BY <1>2, Before
  <2>2. Len(rows) \in Nat /\ Len(rows') \in Nat
      BY <2>1
  <2> QED
      BY <2>1, <2>2
<1>20. SecretFitsKey'
  <2>1. ASSUME NEW i \in DOMAIN rows', rows'[i].kind = "ssh", rows'[i].secret,
               Cardinality({k \in DOMAIN rows' : rows'[k].owner = rows'[i].owner}) = 1
        PROVE  tier1'[<<rows'[i].owner, "ssh">>] = files'[rows'[i].key]
    <3>1. CASE i = at
      <4>1. calls[c].seen.kind = "ssh" /\ Tier1(c).refers
          BY <1>2, <2>1, <3>1
      <4>2. calls[c].read.passphrase /\ Tier1(c).value = calls[c].read.key
          BY <4>1 DEF Tier1
      <4>3. calls[c].file # 0 /\ files[calls[c].file] = calls[c].read.key
          BY <1>1, <1>4, <4>1, <4>2 DEF Fits
      <4> QED
          BY <1>1, <1>2, <1>3, <1>9, <3>1, <4>1, <4>2, <4>3
    <3>2. CASE i # at
      <4>1. i \in DOMAIN rows /\ rows'[i] = rows[i] /\ rows[i].owner \in Cred
          BY <1>2, <2>1, <3>2, Before DEF RowOf
      <4>2. rows[i].owner # x
        <5>1. SUFFICES ASSUME rows[i].owner = x PROVE FALSE
            OBVIOUS
        <5>2. Cardinality({k \in DOMAIN rows' : rows'[k].owner = x}) = 1
            BY <2>1, <4>1, <5>1
        <5>3. Len(rows') \in Nat /\ i \in 1 .. Len(rows') /\ at \in 1 .. Len(rows')
              /\ rows'[i].owner = x /\ rows'[at].owner = x
            BY <1>2, <2>1, <4>1, <5>1
        <5> DEFINE S == {k \in DOMAIN rows' : rows'[k].owner = x}
        <5>4. S \subseteq 1 .. Len(rows') /\ IsFiniteSet(1 .. Len(rows'))
            BY <1>2, <5>3, FS_Interval
        <5>5. IsFiniteSet(S) /\ Cardinality(S) = 1
            BY <5>2, <5>4, FS_Subset
        <5>6. PICK k : S = {k}
            BY <5>5, FS_Singleton
        <5>7. i \in S /\ at \in S
            BY <1>2, <5>3
        <5>8. i = at
            BY <5>6, <5>7
        <5> QED
            BY <3>2, <5>8
      <4>3. {k \in DOMAIN rows' : rows'[k].owner = rows[i].owner}
            = {k \in DOMAIN rows : rows[k].owner = rows[i].owner}
        <5>1. ASSUME NEW k
              PROVE  k \in DOMAIN rows' /\ rows'[k].owner = rows[i].owner
                     <=> k \in DOMAIN rows /\ rows[k].owner = rows[i].owner
          <6>1. CASE k = at
            <7>1. rows'[at].owner # rows[i].owner
                BY <1>2, <4>2
            <7>2. at \in DOMAIN rows => at = link /\ link # 0
                BY Before, Bounds DEF at
            <7>3. at \in DOMAIN rows => rows[at].owner # rows[i].owner
                BY <1>3, <4>2, <7>2
            <7> QED
                BY <6>1, <7>1, <7>3
          <6>2. CASE k # at
            <7>1. k \in DOMAIN rows => k \in DOMAIN rows'
                BY <1>19, Zenon
            <7>2. k \in DOMAIN rows' => k \in DOMAIN rows /\ rows'[k] = rows[k]
                BY <1>2, <6>2
            <7> QED
                BY <7>1, <7>2
          <6> QED
              BY <6>1, <6>2
        <5> QED
            BY <5>1
      <4>4. Sole(rows[i].owner)
          BY <2>1, <4>1, <4>3 DEF Sole
      <4>5. tier1[<<rows[i].owner, "ssh">>] = files[rows[i].key]
          BY <2>1, <4>1, <4>4 DEF IInv, SecretFitsKey
      <4> QED
          BY <1>1, <1>9, <4>1, <4>2, <4>5
    <3> QED
        BY <3>1, <3>2
  <2> QED
      BY <2>1 DEF SecretFitsKey, Sole
<1>21. CallsFit'
  <2>1. ASSUME NEW d \in Calls PROVE Fits(calls[d])'
    <3>1. CASE calls'[d] = Idle
        BY <3>1 DEF Fits
    <3>2. CASE calls'[d] # Idle
      <4>1. /\ Fits(calls'[d]) /\ calls'[d].cred = calls[d].cred /\ calls'[d].seen = calls[d].seen
            /\ calls[d] # Idle
          BY <1>1, <1>12, <3>2 DEF IInv, CallsFit, x
      <4>2. Leads(calls[d].seen.link, calls[d].cred) /\ calls[d].seen.link \in 0 .. MaxRows
          BY <4>1, AtWork DEF Fits
      <4>3. calls[d].seen.link <= Len(rows')
            /\ (calls[d].seen.link # 0 => rows'[calls[d].seen.link].owner = calls[d].cred)
          BY <1>16, <4>2
      <4> QED
          BY <1>1, <4>1, <4>3 DEF Fits, Leads
    <3> QED
        BY <3>1, <3>2
  <2>2. ASSUME NEW d \in Calls PROVE OwnFile(d)'
    <3>1. SUFFICES ASSUME Writing(calls'[d]) PROVE OwnFile(d)'
        BY DEF OwnFile
    <3>2. d # c /\ calls'[d] = calls[d] /\ Writing(calls[d])
        BY <1>12, <3>1
    <3>3. OwnFile(d)
        BY DEF IInv, CallsFit
    <3>4. key # calls[d].file
      <4>1. CASE calls[c].file = 0
          BY <1>3, <3>2, <3>3, <4>1 DEF OwnFile, Writing
      <4>2. CASE calls[c].file # 0
          BY <1>1, <1>3, <3>2, <3>3, <4>2 DEF OwnFile, Writing
      <4> QED
          BY <4>1, <4>2
    <3>5. \A i \in DOMAIN rows' : rows'[i].key # calls'[d].file
        BY <1>2, <3>2, <3>3, <3>4 DEF OwnFile
    <3>6. ASSUME NEW e \in Calls
          PROVE  /\ calls'[e] # Idle => calls'[e].old # calls'[d].file
                 /\ Writing(calls'[e]) /\ e # d => calls'[e].file # calls'[d].file
        BY <1>1, <1>12, <3>2, <3>3 DEF OwnFile
    <3> QED
        BY <3>5, <3>6 DEF OwnFile, Writing
  <2> QED
      BY <2>1, <2>2 DEF CallsFit
<1> QED
    BY <1>14, <1>15, <1>17, <1>18, <1>20, <1>21 DEF IInv

-----------------------------------------------------------------------------
(* A key file that goes.                                                   *)

\* It is named by no row and is not being written by a call that goes on.
LEMMA FileGoes ==
    ASSUME IInv, NEW c \in Calls, NEW f \in 0 .. MaxFiles,
           f # 0 => \A i \in DOMAIN rows : rows[i].key # f,
           \A d \in Calls : d # c /\ Writing(calls[d]) => calls[d].file # f,
           files' = [i \in DOMAIN files |-> IF i = f THEN None ELSE files[i]],
           End(c), UNCHANGED <<blobs, rows, tier1, unlocked, begun, faults>>,
           creds' \in [Cred -> Credential], saved' \in [Cred -> Secret],
           \A x \in Cred : creds'[x].link = creds[x].link
    PROVE  IInv'
<1>1. /\ files' \in Seq(Keys \cup {None}) /\ Len(files') = Len(files)
      /\ DOMAIN files' = DOMAIN files
      /\ \A i \in DOMAIN files : i # f => files'[i] = files[i]
    BY Before
<1>2. calls' \in [Calls -> {Idle} \cup Active] /\ calls'[c] = Idle
      /\ \A d \in Calls : d # c => calls'[d] = calls[d]
    BY Before DEF End
<1>3. TypeOK'
    BY <1>1, <1>2, Before DEF IInv, Typed, TypeOK
<1>4. Typed'
    BY <1>1, <1>2, <1>3 DEF IInv, Typed
<1>5. RowsFit' /\ SecretsFit'
    BY <1>1 DEF IInv, RowsFit, SecretsFit
<1>6. LinksFit'
    BY <1>1 DEF IInv, LinksFit, Leads
<1>7. \A i \in DOMAIN rows : rows[i].key # 0 => files'[rows[i].key] = files[rows[i].key]
  <2>1. ASSUME NEW i \in DOMAIN rows, rows[i].key # 0
        PROVE  rows[i].key \in DOMAIN files /\ rows[i].key # f
    <3>1. rows[i].key \in 0 .. MaxFiles /\ rows[i].key <= Len(files) /\ Len(files) \in Nat
          /\ DOMAIN files = 1 .. Len(files)
        BY Before, Bounds DEF IInv, RowsFit
    <3>2. rows[i].key \in DOMAIN files
        BY <2>1, <3>1, Bounds
    <3> QED
        BY <2>1, <3>2
  <2> QED
      BY <1>1, <2>1
<1>8. KeysExist'
    BY <1>7 DEF IInv, KeysExist
<1>9. SecretFitsKey'
  <2>1. \A x : Sole(x)' <=> Sole(x)
      BY DEF Sole
  <2> QED
      BY <1>7, <2>1 DEF IInv, SecretFitsKey, RowsFit
<1>10. CallsFit'
  <2>1. ASSUME NEW d \in Calls PROVE Fits(calls[d])' /\ OwnFile(d)'
    <3>1. CASE d = c
        BY <1>2, <3>1 DEF Fits, OwnFile, Writing
    <3>2. CASE d # c
      <4>1. Fits(calls[d]) /\ OwnFile(d) /\ calls'[d] = calls[d]
          BY <1>2, <3>2 DEF IInv, CallsFit
      <4>2. calls[d] # Idle => calls[d].file \in 0 .. MaxFiles /\ calls[d].file <= Len(files)
          BY <4>1, AtWork DEF Fits
      <4>3. Writing(calls[d]) => files'[calls[d].file] = files[calls[d].file]
        <5>1. Writing(calls[d]) => calls[d].file \in DOMAIN files
            BY <4>2, Before, Bounds DEF Writing
        <5> QED
            BY <1>1, <3>2, <5>1
      <4>4. Fits(calls[d])'
          BY <1>1, <4>1, <4>3 DEF Fits, Leads, Writing
      <4>5. OwnFile(d)'
          BY <1>2, <4>1 DEF OwnFile, Writing
      <4> QED
          BY <4>4, <4>5
    <3> QED
        BY <3>1, <3>2
  <2> QED
      BY <2>1 DEF CallsFit
<1> QED
    BY <1>4, <1>5, <1>6, <1>8, <1>9, <1>10 DEF IInv

LEMMA FailSyncKeepsIInv == ASSUME IInv, NEW c \in Calls, FailSync(c) PROVE IInv'
<1> DEFINE x == calls[c].cred
           f == calls[c].file
<1>1. /\ calls[c] # Idle /\ calls[c].step \in {"key", "commit"}
      /\ files' = [i \in DOMAIN files |-> IF i = f THEN None ELSE files[i]]
      /\ End(c) /\ UNCHANGED <<blobs, rows, tier1, unlocked, begun, faults>>
    BY DEF FailSync, At, bounds
<1>2. /\ x \in Cred /\ f \in 0 .. MaxFiles /\ calls[c].secret \in Given
      /\ Fits(calls[c]) /\ OwnFile(c)
    BY <1>1, AtWork
<1>3. f # 0 => Writing(calls[c])
    BY <1>1, <1>2 DEF Fits, Writing
<1>4. f # 0 => \A i \in DOMAIN rows : rows[i].key # f
    BY <1>2, <1>3 DEF OwnFile
<1>5. \A d \in Calls : d # c /\ Writing(calls[d]) => calls[d].file # f
    BY <1>2, <1>3 DEF OwnFile, Writing
<1>6. creds' \in [Cred -> Credential] /\ \A y \in Cred : creds'[y].link = creds[y].link
  <2> DEFINE sync == IF Live(x) THEN "error" ELSE creds[x].sync
  <2>1. creds[x] \in Credential
      BY <1>2, Before
  <2>2. sync \in {"none", "ok", "error"}
      BY <2>1 DEF Credential
  <2>3. creds' = [creds EXCEPT ![x] = [creds[x] EXCEPT !.sync = sync]]
      BY <1>2, Before DEF FailSync
  <2> HIDE DEF sync, x
  <2>4. [creds[x] EXCEPT !.sync = sync] \in Credential
        /\ [creds[x] EXCEPT !.sync = sync].link = creds[x].link
      BY <2>1, <2>2 DEF Credential
  <2> QED
      BY <1>2, <2>3, <2>4, Before
<1>7. saved' \in [Cred -> Secret]
    BY <1>2, Before, SecretTypes DEF FailSync
<1> HIDE DEF x, f
<1> QED
    BY <1>1, <1>2, <1>4, <1>5, <1>6, <1>7, FileGoes

LEMMA RetireKeepsIInv ==
    ASSUME IInv, NEW c \in Calls, deleteKeyFileIfUnreferenced(c) PROVE IInv'
<1> DEFINE old == calls[c].old
<1>1. /\ calls[c] # Idle /\ calls[c].step = "retire" /\ End(c)
      /\ UNCHANGED <<creds, blobs, rows, tier1, unlocked, saved, begun, faults>>
      /\ files' = IF \E i \in DOMAIN rows : rows[i].key = old THEN files
                  ELSE [files EXCEPT ![old] = None]
    BY DEF deleteKeyFileIfUnreferenced, At, bounds
<1>2. old \in 0 .. MaxFiles
    BY <1>1, AtWork
<1>3. \A d \in Calls : Writing(calls[d]) => calls[d].file # old
    BY <1>1 DEF IInv, CallsFit, OwnFile
<1>4. CASE \E i \in DOMAIN rows : rows[i].key = old
  <2>1. calls' \in [Calls -> {Idle} \cup Active] /\ CallsFit'
      BY <1>1, <1>4, IdleIsHarmless, OneCallChanges DEF End
  <2> QED
      BY <1>1, <1>4, <2>1, Before, BlobsAreGood, QuietStep
<1>5. CASE \A i \in DOMAIN rows : rows[i].key # old
  <2>1. files' = [i \in DOMAIN files |-> IF i = old THEN None ELSE files[i]]
      BY <1>1, <1>5, Before
  <2> HIDE DEF old
  <2> QED
      BY <1>1, <1>2, <1>3, <1>5, <2>1, Before, FileGoes
<1> QED
    BY <1>4, <1>5

-----------------------------------------------------------------------------
(* The steps of a credential's own row and blob never touch a connection.  *)

LEMMA StepKeepsIInv == ASSUME IInv, [Next]_vars PROVE IInv'
<1>1. CASE UNCHANGED vars
  <2>1. UNCHANGED <<creds, blobs, rows, tier1, files, calls, unlocked, saved, begun, faults>>
      BY <1>1 DEF vars
  <2> QED
      BY <2>1, Before, CallsStayFit, BlobsAreGood, QuietStep
<1>2. ASSUME NEW c \in Calls, NEW x \in Cred,
             BeginPatch(c, x) \/ BeginEdit(c, x) \/ Create(c, x) \/ BeginSync(c, x)
      PROVE  IInv'
    BY <1>2, BeginsKeepIInv, BeginEditKeepsIInv, CreateKeepsIInv
<1>3. ASSUME NEW c \in Calls, PatchRow(c) \/ PatchBlob(c) PROVE IInv'
    BY <1>3, PatchRowKeepsIInv, PatchBlobKeepsIInv
<1>4. ASSUME NEW c \in Calls, ReadSecret(c) \/ materializeKeyFile(c) PROVE IInv'
    BY <1>4, ReadSecretKeepsIInv, MaterializeKeepsIInv
<1>5. ASSUME NEW c \in Calls, CommitSync(c) \/ FailSync(c) \/ deleteKeyFileIfUnreferenced(c)
      PROVE  IInv'
    BY <1>5, CommitKeepsIInv, FailSyncKeepsIInv, RetireKeepsIInv
<1>6. ASSUME NEW x \in Cred, unlinkOperationalCopy(x) \/ Delete(x) PROVE IInv'
    BY <1>6, CredentialStepsKeepIInv
<1>7. ASSUME NEW c \in Calls, Crash(Process(c)) PROVE IInv'
    BY <1>7, CrashKeepsIInv
<1>8. CASE LockOrUnlock
    BY <1>8, LockKeepsIInv
<1> QED
    BY <1>1, <1>2, <1>3, <1>4, <1>5, <1>6, <1>7, <1>8 DEF Next

\* The operational copies at any time: rows, key files, links and the secrets of the machine
\* fit each other, and the key file of a sync is its own until the commit
\* (syncOperationalCopy and what it calls).
THEOREM CopyInvariance == Spec => []IInv
<1>1. Init => IInv
    BY InitIInv
<1>2. IInv /\ [Next]_vars => IInv'
    BY StepKeepsIInv
<1> QED
    BY <1>1, <1>2, PTL DEF Spec

\* A connection never names a key file that is gone: syncOperationalCopy removes the key it
\* replaced after the commit, and only if deleteKeyFileIfUnreferenced finds no row with it;
\* a sync that fails removes only the key it wrote itself.
THEOREM KeysStay == Spec => []CopyInv
<1>1. IInv => CopyInv
    BY DEF IInv, Typed, CopyInv
<1> QED
    BY <1>1, CopyInvariance, PTL

\* The passphrase in the machine's store is the one that was saved with the key that the
\* linked connection names: applyOperationalCopy writes both in one transaction.
THEOREM PassphraseStays == Spec => []PassphraseFits
<1>1. ASSUME IInv PROVE PassphraseFits
  <2>1. SUFFICES ASSUME NEW x \in Cred, creds[x].link # 0, Sole(x),
                        rows[creds[x].link].kind = "ssh", rows[creds[x].link].secret
                 PROVE  tier1[<<x, "ssh">>] = files[rows[creds[x].link].key]
      BY DEF PassphraseFits
  <2>2. creds[x].link \in 0 .. MaxRows /\ Leads(creds[x].link, x)
      BY <1>1, Before DEF Credential, IInv, LinksFit
  <2>3. creds[x].link \in DOMAIN rows /\ rows[creds[x].link].owner = x
      BY <1>1, <2>1, <2>2, Before, Bounds DEF Leads
  <2> QED
      BY <1>1, <2>1, <2>3 DEF IInv, SecretFitsKey
<1>2. IInv => PassphraseFits
    BY <1>1
<1> QED
    BY <1>2, CopyInvariance, PTL
=============================================================================
