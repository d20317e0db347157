---------------------------- MODULE OperationalCopy ----------------------------
(***************************************************************************)
(* "Use this credential for backups": from a credential of the vault the   *)
(* program makes what a backup job can use while the vault is locked, a    *)
(* transport or database connection with a secret of the machine (Tier 1)  *)
(* and, for ssh, a private key in a file.  The database half of a sync is  *)
(* one transaction; the key file is written before it and the one it       *)
(* replaces is deleted after it.                                           *)
(*                                                                         *)
(* A call first reads the credential, then awaits (the body of a request,  *)
(* a prompt of a command), then works.  A process does that work without   *)
(* an await; other processes, and a crash, may come between its writes.    *)
(*                                                                         *)
(* A secret is known by the key (or password) in it and by whether there   *)
(* is a passphrase; of a credential's other data, a sync may find that it  *)
(* is not complete.  A row is read and written in one step, and so are a   *)
(* blob and the reference to it.  Left out: credentials that cannot be     *)
(* linked, and edits of the connection itself.                             *)
(***************************************************************************)
EXTENDS Integers, Sequences, FiniteSets, TLC

CONSTANTS
    Cred,
    Calls, Commands,            \* calls in progress; those of processes of their own
    Keys,                       \* keys and passwords the user has
    None,
    MaxRefs, MaxRows, MaxFiles, \* blobs, connections and key files ever made
    MaxCalls, MaxFaults

ASSUME CallsAssumption == Commands \subseteq Calls
ASSUME NoneAssumption == None \notin Keys
ASSUME BoundsAssumption == {MaxRefs, MaxRows, MaxFiles, MaxCalls, MaxFaults} \subseteq Nat

VARIABLES
    creds,    \* vault_credentials
    blobs,    \* vault_secrets of credentials, by reference
    rows,     \* transports and database_connections, in the order of their creation
    tier1,    \* secrets of the machine, by credential and kind
    files,    \* key files: the key in each, None once deleted
    calls,
    unlocked,
    saved,    \* history: the secret the user was last told is stored
    begun, faults

bounds == <<begun, faults>>
vars == <<creds, blobs, rows, tier1, files, calls, unlocked, saved, begun, faults>>

Serve == Calls \ Commands
Kind == {"ssh", "database"}
Secret == [key : Keys \cup {None}, passphrase : BOOLEAN]
Empty == [key |-> None, passphrase |-> FALSE]
Credential == [life : {"unborn", "live", "deleted"}, kind : Kind, blob : 0 .. MaxRefs,
               link : 0 .. MaxRows, sync : {"none", "ok", "error"}]
RowOf == [kind : Kind, key : 0 .. MaxFiles, secret : BOOLEAN, owner : Cred]

\* What a call asks for: the secret it gives (Keep: the field is absent), the kind and data,
\* and useForBackups.
Keep == [key |-> None, passphrase |-> TRUE]
Idle == [op |-> "none"]
Given == {s \in Secret : s.key # None} \cup {Empty, Keep}
Active == [op : {"patch", "edit", "create", "sync"}, cred : Cred, ref : 0 .. MaxRefs,
           secret : Given, kind : Kind, use : {"yes", "no", "leave"},
           step : {"row", "blob", "sync", "key", "commit", "retire"},
           seen : Credential, read : Secret, file : 0 .. MaxFiles, old : 0 .. MaxFiles]

TypeOK ==
    /\ creds \in [Cred -> Credential]
    /\ \A r \in DOMAIN blobs : r \in 1 .. MaxRefs /\ blobs[r] \in Secret
    /\ Len(rows) <= MaxRows /\ \A i \in DOMAIN rows : rows[i] \in RowOf
    /\ tier1 \in [Cred \X Kind -> Keys \cup {None}]
    /\ Len(files) <= MaxFiles /\ \A i \in DOMAIN files : files[i] \in Keys \cup {None}
    /\ \A c \in Calls : calls[c] = Idle \/ calls[c] \in Active
    /\ unlocked \in BOOLEAN
    /\ saved \in [Cred -> Secret]
    /\ begun \in 0 .. MaxCalls /\ faults \in 0 .. MaxFaults

NoCredential == [life |-> "unborn", kind |-> "ssh", blob |-> 0, link |-> 0,
                 sync |-> "none"]

Init ==
    /\ creds = [c \in Cred |-> NoCredential]
    /\ blobs = <<>> /\ rows = <<>> /\ files = <<>>
    /\ tier1 = [r \in Cred \X Kind |-> None]
    /\ calls = [c \in Calls |-> Idle]
    /\ unlocked \in BOOLEAN
    /\ saved = [c \in Cred |-> Empty]
    /\ begun = 0 /\ faults = 0

Process(c) == IF c \in Serve THEN Serve ELSE {c}
\* At work, with no await before the end of the call.
Busy(c) == calls[c] # Idle /\ ~(calls[c].step = "row")
        /\ ~(calls[c].op = "edit" /\ calls[c].step = "blob")
        /\ ~(calls[c].op = "sync" /\ calls[c].step = "sync")
Free(c) == \A d \in Process(c) \ {c} : ~Busy(d)
At(c, step) == calls[c] # Idle /\ calls[c].step = step /\ Free(c)
Live(x) == creds[x].life = "live"
Vault(c) == c \in Serve => unlocked   \* a command has asked for the password
End(c) == calls' = [calls EXCEPT ![c] = Idle]
GoTo(c, step) == calls' = [calls EXCEPT ![c].step = step]

Reveal(x) == IF creds[x].blob \in DOMAIN blobs THEN blobs[creds[x].blob] ELSE Empty
Store(ref, secret) == [q \in DOMAIN blobs \cup {ref} |-> IF q = ref THEN secret ELSE blobs[q]]
NextRef == Cardinality(DOMAIN blobs) + 1

(***************************************************************************)
(* Calls begin.                                                            *)
(***************************************************************************)
Begin(c, record) ==
    /\ calls[c] = Idle /\ Free(c)
    /\ begun < MaxCalls /\ begun' = begun + 1
    /\ calls' = [calls EXCEPT ![c] = record]

Call(op, x, secret, kind, use, step) ==
    [op |-> op, cred |-> x, ref |-> creds[x].blob, secret |-> secret, kind |-> kind,
     use |-> use, step |-> step, seen |-> creds[x], read |-> Empty,
     file |-> 0, old |-> 0]

BeginPatch(c, x) ==
    /\ c \in Serve /\ Live(x)
    /\ \E s \in Given, k \in Kind, use \in {"yes", "no", "leave"} :
        Begin(c, Call("patch", x, s, k, use, "row"))
    /\ UNCHANGED <<creds, blobs, rows, tier1, files, unlocked, saved, faults>>

\* update() refuses a change of kind while the credential is linked.
Updatable(x, kind) == Live(x) /\ (kind = creds[x].kind \/ creds[x].link = 0)

\* The command updates the row first and then asks for the secret.
BeginEdit(c, x) ==
    /\ c \in Commands /\ Live(x)
    /\ \E s \in Given \ {Keep}, k \in Kind :
        /\ Updatable(x, k)
        /\ Begin(c, Call("edit", x, s, k, "leave", "blob"))
        /\ creds' = [creds EXCEPT ![x].kind = k]
    /\ UNCHANGED <<blobs, rows, tier1, files, unlocked, saved, faults>>

\* A secret that arrives with the new credential is stored before the row is.
Create(c, x) ==
    /\ creds[x].life = "unborn"
    /\ \E s \in Given \ {Keep}, k \in Kind, use \in {"yes", "leave"} :
        LET ref == IF s = Empty THEN 0 ELSE NextRef IN
        /\ s # Empty => Vault(c) /\ ref <= MaxRefs
        /\ c \in Commands => use = "leave"
        /\ Begin(c, IF use = "yes" THEN Call("create", x, s, k, use, "sync") ELSE Idle)
        /\ creds' = [creds EXCEPT ![x] = [NoCredential EXCEPT !.life = "live", !.kind = k,
                                                     !.blob = ref]]
        /\ blobs' = IF ref = 0 THEN blobs ELSE Store(ref, s)
        /\ saved' = [saved EXCEPT ![x] = s]
    /\ UNCHANGED <<rows, tier1, files, unlocked, faults>>

\* "Repair" of one credential or of all, and the command that links one.
BeginSync(c, x) ==
    /\ Live(x)
    /\ c \in Serve => unlocked
    /\ Begin(c, Call("sync", x, Keep, creds[x].kind, "yes", "sync"))
    /\ UNCHANGED <<creds, blobs, rows, tier1, files, unlocked, saved, faults>>

(***************************************************************************)
(* The credential itself.                                                  *)
(***************************************************************************)
\* A secret needs an open vault; a refused request changes nothing.
Refused(c) == (calls[c].secret # Keep /\ ~Vault(c)) \/ ~Updatable(calls[c].cred, calls[c].kind)

PatchRow(c) ==
    /\ At(c, "row")
    /\ IF Refused(c) THEN End(c) /\ UNCHANGED creds
       ELSE /\ creds' = [creds EXCEPT ![calls[c].cred].kind = calls[c].kind]
            /\ GoTo(c, IF calls[c].use = "yes" THEN "sync" ELSE "blob")
    /\ UNCHANGED <<blobs, rows, tier1, files, unlocked, saved, bounds>>

\* The reference is the one seen when the call began, and becomes the credential's only if
\* there was none then.
PatchBlob(c) ==
    LET x == calls[c].cred
        secret == calls[c].secret
        had == calls[c].ref # 0
        ref == IF had THEN calls[c].ref ELSE NextRef
        changed == secret # Keep /\ (secret # Empty \/ had)
        unlink == calls[c].use = "no"
    IN
    /\ At(c, "blob")
    /\ changed => ref <= MaxRefs
    /\ blobs' = IF changed THEN Store(ref, secret) ELSE blobs
    /\ saved' = IF secret # Keep THEN [saved EXCEPT ![x] = secret] ELSE saved
    /\ creds' = IF Live(x)
                THEN [creds EXCEPT ![x].blob = IF changed /\ secret = Empty THEN 0
                                               ELSE IF changed /\ ~had THEN ref ELSE @,
                                   ![x].link = IF unlink THEN 0 ELSE @,
                                   ![x].sync = IF unlink THEN "none" ELSE @]
                ELSE creds
    /\ End(c)
    /\ UNCHANGED <<rows, tier1, files, unlocked, bounds>>

\* The connection stays; so do its secret and its key.
unlinkOperationalCopy(x) ==
    /\ creds[x].link # 0
    /\ creds' = [creds EXCEPT ![x].link = 0, ![x].sync = "none"]
    /\ UNCHANGED <<blobs, rows, tier1, files, calls, unlocked, saved, bounds>>

Delete(x) ==
    /\ Live(x)
    /\ creds' = [creds EXCEPT ![x] = [NoCredential EXCEPT !.life = "deleted"]]
    /\ blobs' = IF creds[x].blob = 0 THEN blobs ELSE Store(creds[x].blob, Empty)
    /\ saved' = [saved EXCEPT ![x] = Empty]
    /\ UNCHANGED <<rows, tier1, files, calls, unlocked, bounds>>

(***************************************************************************)
(* The sync.                                                               *)
(***************************************************************************)
\* With its own secret, or with what the vault has; a locked vault throws, and the call is
\* over.  The handler gives a credential without a reference a new one, for the transaction
\* to fill.
ReadSecret(c) ==
    LET x == calls[c].cred
        own == calls[c].secret # Keep /\ (calls[c].secret # Empty \/ calls[c].op = "create")
        new == calls[c].op = "patch" /\ creds[x].blob = 0
        seen == [creds[x] EXCEPT !.blob = IF new THEN NextRef ELSE @]
        secret == IF own THEN calls[c].secret ELSE Reveal(x)
    IN
    /\ At(c, "sync")
    /\ IF ~Live(x) \/ (~own /\ Reveal(x) # Empty /\ ~Vault(c))
       THEN End(c) /\ UNCHANGED <<creds, blobs>>
       ELSE /\ seen.blob <= MaxRefs
            /\ creds' = [creds EXCEPT ![x] = seen]
            /\ blobs' = IF new THEN Store(seen.blob, Empty) ELSE blobs
            /\ calls' = [calls EXCEPT
                   ![c].seen = seen,
                   ![c].read = secret,
                   ![c].old = IF seen.link # 0 THEN rows[seen.link].key ELSE 0,
                   ![c].secret = IF own THEN @ ELSE Keep,
                   ![c].step = IF seen.kind = "ssh" /\ secret.key # None
                               THEN "key" ELSE "commit"]
    /\ UNCHANGED <<rows, tier1, files, unlocked, saved, bounds>>

\* Deviation: the key that is replaced is removed together with writing the new one.
replaceKeyFile(c) ==
    /\ At(c, "key")
    /\ Len(files) < MaxFiles
    /\ files' = Append([i \in DOMAIN files |-> IF i = calls[c].old THEN None ELSE files[i]],
                       calls[c].read.key)
    /\ calls' = [calls EXCEPT ![c].file = Len(files) + 1, ![c].step = "commit"]
    /\ UNCHANGED <<creds, blobs, rows, tier1, unlocked, saved, bounds>>

\* The key file is on disk before the transaction begins.
materializeKeyFile(c) ==
    /\ At(c, "key")
    /\ Len(files) < MaxFiles
    /\ files' = Append(files, calls[c].read.key)
    /\ calls' = [calls EXCEPT ![c].file = Len(files) + 1, ![c].step = "commit"]
    /\ UNCHANGED <<creds, blobs, rows, tier1, unlocked, saved, bounds>>

\* applyOperationalCopy goes by the credential as it was read, setLink by the row it finds.
KeyFor(c) ==
    IF calls[c].file # 0 THEN calls[c].file
    ELSE IF calls[c].seen.link # 0 THEN rows[calls[c].seen.link].key ELSE 0

linkTargetFits(c) == Live(calls[c].cred) /\ creds[calls[c].cred].kind = calls[c].seen.kind

CanApply(c) ==
    /\ calls[c].seen.kind = "ssh" => KeyFor(c) # 0
    /\ calls[c].seen.link = 0 =>
        linkTargetFits(c) /\ Len(rows) < MaxRows

Owned(c) == <<calls[c].cred, calls[c].seen.kind>>

\* The secret of the machine: the passphrase is replaced or deleted, a database password
\* only replaced; the row refers to it or not.
Tier1(c) ==
    LET s == calls[c].read
        had == calls[c].seen.link # 0 /\ rows[calls[c].seen.link].secret
    IN
    IF calls[c].seen.kind = "ssh"
    THEN [value |-> IF s.passphrase THEN s.key ELSE IF had THEN None ELSE tier1[Owned(c)],
          refers |-> s.passphrase]
    ELSE [value |-> IF s.key # None THEN s.key ELSE tier1[Owned(c)],
          refers |-> s.key # None \/ had]

applyOperationalCopy(c) ==
    LET x == calls[c].cred
        link == calls[c].seen.link
        row == [kind |-> calls[c].seen.kind, key |-> KeyFor(c), secret |-> Tier1(c).refers,
                owner |-> x]
    IN
    /\ rows' = IF link = 0 THEN Append(rows, row) ELSE [rows EXCEPT ![link] = row]
    /\ tier1' = [tier1 EXCEPT ![Owned(c)] = Tier1(c).value]
    /\ creds' = [creds EXCEPT ![x].link = IF link = 0 THEN Len(rows) + 1 ELSE @,
                              ![x].sync = IF Live(x) THEN "ok" ELSE @]

CommitSync(c) ==
    LET own == calls[c].secret # Keep /\ calls[c].seen.blob # 0 IN
    /\ At(c, "commit")
    /\ CanApply(c)
    /\ applyOperationalCopy(c)
    /\ blobs' = IF own THEN Store(calls[c].seen.blob, calls[c].secret) ELSE blobs
    /\ saved' = IF own THEN [saved EXCEPT ![calls[c].cred] = calls[c].secret] ELSE saved
    /\ IF calls[c].file # 0 /\ calls[c].old # 0 THEN GoTo(c, "retire") ELSE End(c)
    /\ UNCHANGED <<files, unlocked, bounds>>

\* Deviation: the secret of the machine is not part of the transaction.
FailSyncLate(c) ==
    LET x == calls[c].cred IN
    /\ At(c, "commit")
    /\ tier1' = IF CanApply(c) THEN [tier1 EXCEPT ![Owned(c)] = Tier1(c).value] ELSE tier1
    /\ files' = [i \in DOMAIN files |-> IF i = calls[c].file THEN None ELSE files[i]]
    /\ creds' = [creds EXCEPT ![x].sync = IF Live(x) THEN "error" ELSE @]
    /\ End(c)
    /\ UNCHANGED <<blobs, rows, saved, unlocked, bounds>>

\* Incomplete data, no key, a statement that throws: everything is rolled back, the new key
\* is removed, and the user is told that the credential was saved and its copy failed.
FailSync(c) ==
    LET x == calls[c].cred IN
    /\ At(c, "key") \/ At(c, "commit")
    /\ files' = [i \in DOMAIN files |-> IF i = calls[c].file THEN None ELSE files[i]]
    /\ creds' = [creds EXCEPT ![x].sync = IF Live(x) THEN "error" ELSE @]
    /\ saved' = IF calls[c].secret # Keep THEN [saved EXCEPT ![x] = calls[c].secret] ELSE saved
    /\ End(c)
    /\ UNCHANGED <<blobs, rows, tier1, unlocked, bounds>>

deleteKeyFileIfUnreferenced(c) ==
    LET old == calls[c].old IN
    /\ At(c, "retire")
    /\ files' = IF \E i \in DOMAIN rows : rows[i].key = old THEN files
                ELSE [files EXCEPT ![old] = None]
    /\ End(c)
    /\ UNCHANGED <<creds, blobs, rows, tier1, unlocked, saved, bounds>>

Crash(p) ==
    /\ faults < MaxFaults /\ faults' = faults + 1
    /\ \E c \in p : calls[c] # Idle
    /\ calls' = [c \in Calls |-> IF c \in p THEN Idle ELSE calls[c]]
    /\ unlocked' \in IF p = Serve THEN BOOLEAN ELSE {unlocked}   \* auto-unlock, or not
    /\ UNCHANGED <<creds, blobs, rows, tier1, files, saved, begun>>

LockOrUnlock ==
    /\ \A c \in Serve : ~Busy(c)
    /\ unlocked' = ~unlocked
    /\ UNCHANGED <<creds, blobs, rows, tier1, files, calls, saved, bounds>>

Next ==
    \/ \E c \in Calls, x \in Cred :
        BeginPatch(c, x) \/ BeginEdit(c, x) \/ Create(c, x) \/ BeginSync(c, x)
    \/ \E c \in Calls :
        \/ PatchRow(c) \/ PatchBlob(c)
        \/ ReadSecret(c) \/ materializeKeyFile(c) \/ CommitSync(c) \/ FailSync(c)
        \/ deleteKeyFileIfUnreferenced(c)
    \/ \E x \in Cred : unlinkOperationalCopy(x) \/ Delete(x)
    \/ \E c \in Calls : Crash(Process(c))
    \/ LockOrUnlock

Spec == Init /\ [][Next]_vars

KeySymmetry == Permutations(Keys)   \* for the runs of safety properties

(***************************************************************************)
(* Properties.                                                             *)
(***************************************************************************)
\* Whatever fails, crashes or runs in another process, a connection never names a key file
\* that is gone: a replaced key goes after the commit that replaced it, and a failure takes
\* away only the key it wrote itself.
KeysExist == \A i \in DOMAIN rows : rows[i].key # 0 => files[rows[i].key] # None

\* The rows and secrets have their types, and the key files named by rows are there.
CopyInv == TypeOK /\ KeysExist

\* The key in the file and the passphrase in the machine's store change together: a linked
\* connection that refers to a passphrase has the one that was saved with its key, as long as
\* it is the only connection that was ever made of its credential.
Sole(x) == Cardinality({i \in DOMAIN rows : rows[i].owner = x}) = 1
PassphraseFits ==
    \A x \in Cred :
        LET row == rows[creds[x].link] IN
        Live(x) /\ creds[x].link # 0 /\ Sole(x) /\ row.kind = "ssh" /\ row.secret =>
            tier1[<<x, "ssh">>] = files[row.key]

(***************************************************************************)
(* Properties that the code does not have.                                 *)
(***************************************************************************)
\* CredencialesTab.tsx:439 says of a sync that failed that the credential was saved and only
\* its copy was not: revealing it shows the secret that the user was told is saved.
SavedIsRevealed ==
    \A x \in Cred :
        Live(x) /\ (\A c \in Calls : calls[c] # Idle => calls[c].cred # x) => Reveal(x) = saved[x]

\* "The existing backup job keeps its last-synced secret" (the command vault:credential:unlink):
\* a later sync of the credential leaves the secret of the job it was unlinked from alone.
KeptCopyIntact ==
    [][\A i \in DOMAIN rows :
        LET x == rows[i].owner
            r == <<x, rows[i].kind>>
        IN Live(x) /\ rows[i].secret /\ creds[x].link # i /\ creds'[x].link # i
            => tier1'[r] = tier1[r]]_vars

\* A copy that the list shows as synced has the key that the vault has.
OkIsSynced ==
    \A x \in Cred :
        LET row == rows[creds[x].link] IN
        Live(x) /\ creds[x].link # 0 /\ creds[x].sync = "ok" /\ row.kind = "ssh" /\ Reveal(x) # Empty
            /\ (\A c \in Calls : calls[c] # Idle => calls[c].cred # x)
            => files[row.key] = Reveal(x).key
=============================================================================
