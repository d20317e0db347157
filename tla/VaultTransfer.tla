----------------------------- MODULE VaultTransfer -----------------------------
(***************************************************************************)
(* An export of the whole program into one file, and its restore into a    *)
(* machine without a vault (exportVault.ts).                               *)
(*                                                                         *)
(* The export reads table after table, project after project, and the key  *)
(* files between the rows, without a transaction: commands of other        *)
(* processes add, remove and re-sync in between.  The restore writes the   *)
(* key files first and then, in one transaction, re-creates in a fixed     *)
(* order whatever has all that it needs; the rest is skipped with a        *)
(* warning.  A failure rolls back; a crash may come at any point, and two  *)
(* restores (window and command) may overlap.                              *)
(*                                                                         *)
(* A row is a model value; what it refers to is constant, except for the   *)
(* link of a credential.  Left out: the columns, the cryptography (see     *)
(* VaultBackups for which password opens a file), version 1 of the format  *)
(* and Arkode Pocket, which has a module of its own.                       *)
(***************************************************************************)
EXTENDS Naturals, Sequences, FiniteSets

CONSTANTS
    Client, BackupSet, Transport, Connection, Task, Repository, FileTask, Target,
    Destination, Credential, Item, Url,
    Keyed,       \* the transports with a private key: sftp and ssh
    Owner,       \* the client of each row, but for clients and destinations
    Uses,        \* the rows that a row of Task, FileTask or Target cannot do without
    Names,       \* the credential that a url names, if any
    Later,       \* the rows that may be added while the export goes on
    None,
    Restores,    \* calls of importVaultBuffer on the new machine
    MaxEdits, MaxCrashes

Owned == BackupSet \cup Transport \cup Connection \cup Task \cup Repository \cup FileTask
            \cup Target \cup Credential \cup Item \cup Url
Row == Client \cup Destination \cup Owned
Linkable == Transport \cup Connection

Kinds == <<Client, BackupSet, Transport, Connection, Task, Repository, FileTask, Target,
           Destination, Credential, Item, Url>>

ASSUME KindsAssumption == \A i, j \in DOMAIN Kinds : i # j => Kinds[i] \cap Kinds[j] = {}
ASSUME KeyedAssumption == Keyed \subseteq Transport
ASSUME OwnerAssumption == Owner \in [Owned -> Client]
\* A task of files has a repository, and a client has at most one (db/migrations/0005, 0007).
ASSUME UsesAssumption ==
    /\ Uses \in [Task \cup FileTask \cup Target -> SUBSET (Linkable \cup Repository)]
    /\ \A k \in Task : Uses[k] \subseteq Linkable
    /\ \A k \in FileTask : Uses[k] \cap Repository # {} /\ Uses[k] \cap Connection = {}
    /\ \A g \in Target : Uses[g] \subseteq Transport
    /\ \A q, r \in Repository : Owner[q] = Owner[r] => q = r
    /\ Names \in [Url -> Credential \cup {None}]
    /\ \A r \in DOMAIN Uses : \A q \in Uses[r] : Owner[q] = Owner[r]
ASSUME LaterAssumption == Later \subseteq Row
ASSUME TransferBoundsAssumption ==
    /\ {MaxEdits, MaxCrashes} \subseteq Nat
    /\ None \notin Row \cup Restores /\ IsFiniteSet(Restores)

VARIABLES
    src,       \* the rows of the old machine
    link,      \* credential -> the transport or connection it is linked to
    key,       \* transport -> its current key file (its passphrase changes with it)
    disk,      \* key files of the old machine
    unreadable,\* repositories and targets whose secret it can no longer decrypt
    at,        \* the table that the export reads next
    todo,      \* clients whose tables are not read yet, the current one included
    client,    \* the current one
    pending,   \* transports whose key file is not read yet, with its path in the row
    half,      \* transports whose key file is read and whose passphrase is not
    file,      \* the export
    stable,    \* history: rows and links there since the export began, keys not replaced
    edits,
    vault,     \* of the new machine: none, of its own, or restored
    new,       \* how often each row was restored
    wired,     \* the references that were restored: <<row, row>>
    keyOf,     \* the key file of each restored transport: the call that wrote it
    keys,      \* key files of the new machine: <<call, transport>>
    taken,     \* clients whose name the new machine already has
    calls, told, crashes

old == <<src, link, key, disk, unreadable, edits>>
export == <<at, todo, client, pending, half, file>>
machine == <<vault, new, wired, keyOf, taken, told>>
transferVars == <<old, stable, export, machine, keys, calls, crashes>>

\* The reads in the order of the code; sets and transports, which do not refer to each other,
\* are read in one step.
OfClient == <<BackupSet \cup Transport, Connection, Task, Repository, FileTask, Target>>
OfAll == <<Destination, Credential, Item, Url>>
KeyNo == 0 .. MaxEdits + 1
Step == {"idle", "keys", "commit"}

TransferTypeOK ==
    /\ src \subseteq Row
    /\ link \in [Credential -> Linkable \cup {None}]
    /\ key \in [Transport -> KeyNo] /\ disk \subseteq Transport \X KeyNo
    /\ at \in 1 .. 6 /\ todo \subseteq Client /\ client \in Client \cup {None}
    /\ pending \subseteq Transport \X KeyNo /\ half \subseteq Transport
    /\ file.rows \subseteq Row /\ file.keys \in [Transport -> KeyNo]
    /\ file.passphrases \in [Transport -> KeyNo]
    /\ file.link \in [Credential -> Linkable \cup {None}]
    /\ stable.rows \subseteq Row /\ stable.keys \subseteq Transport
    /\ stable.links \subseteq Credential
    /\ edits \in 0 .. MaxEdits /\ crashes \in 0 .. MaxCrashes
    /\ unreadable \subseteq Repository \cup Target
    /\ vault \in {"none", "own", "restored"}
    /\ new \in [Row -> 0 .. Cardinality(Restores)]
    /\ wired \subseteq Row \X Row
    /\ keyOf \in [Transport -> Restores \cup {None}]
    /\ keys \subseteq Restores \X Transport
    /\ taken \subseteq Client
    /\ calls \in [Restores -> Step]
    /\ told \subseteq Row

Fits(c, r) == Owner[c] = Owner[r]

TransferInit ==
    /\ src = Row \ Later
    /\ link \in [Credential -> Linkable \cup {None}]
    /\ \A c \in Credential : link[c] # None => Fits(c, link[c]) /\ {c, link[c]} \subseteq src
    /\ key = [t \in Transport |-> IF t \in Keyed THEN 1 ELSE 0]
    /\ disk \in SUBSET {<<t, 1>> : t \in Keyed \ Later}
    /\ unreadable \in SUBSET (Repository \cup Target)
    /\ at = 1 /\ todo = Client \ Later /\ client = None
    /\ pending = {} /\ half = {}
    /\ file = [rows |-> Client \ Later, keys |-> [t \in Transport |-> 0],
               passphrases |-> [t \in Transport |-> 0],
               link |-> [c \in Credential |-> None]]
    /\ stable = [rows |-> Row \ Later, keys |-> {t \in Keyed : <<t, 1>> \in disk},
                 links |-> Credential]
    /\ edits = 0 /\ crashes = 0
    /\ vault = "none"
    /\ new = [r \in Row |-> 0] /\ wired = {}
    /\ keyOf = [t \in Transport |-> None]
    /\ keys = {} /\ told = {}
    /\ taken \in SUBSET Client
    /\ calls = [p \in Restores |-> "idle"]

(***************************************************************************)
(* Other processes of the old machine, during the export.                  *)
(***************************************************************************)
Complete == client = None /\ todo = {} /\ at > Len(OfAll)
Edit == ~Complete /\ edits < MaxEdits /\ edits' = edits + 1

Needed(r) ==
    (IF r \in Owned THEN {Owner[r]} ELSE {}) \cup (IF r \in DOMAIN Uses THEN Uses[r] ELSE {})

Add(r) ==
    /\ Edit /\ r \in Later \ src /\ Needed(r) \subseteq src
    /\ src' = src \cup {r}
    /\ disk' = IF r \in Keyed THEN disk \cup {<<r, key[r]>>} ELSE disk
    /\ UNCHANGED <<link, key, unreadable, stable, export, machine, keys, calls, crashes>>

\* The rows that a command can delete; the others are only deactivated.
Remove(r) ==
    /\ Edit /\ r \in src \cap (Target \cup Destination \cup Credential \cup Item \cup Url)
    /\ src' = src \ {r}
    /\ link' = IF r \in Credential THEN [link EXCEPT ![r] = None] ELSE link
    /\ stable' = [stable EXCEPT !.rows = @ \ {r}, !.links = @ \ {r}]
    /\ UNCHANGED <<key, disk, unreadable, export, machine, keys, calls, crashes>>

\* A sync of a linked credential: a new key and passphrase, and the old key file is deleted.
ReplaceKey(t) ==
    /\ Edit /\ t \in Keyed \cap src
    /\ key' = [key EXCEPT ![t] = @ + 1]
    /\ disk' = (disk \ {<<t, key[t]>>}) \cup {<<t, key[t] + 1>>}
    /\ stable' = [stable EXCEPT !.keys = @ \ {t}]
    /\ UNCHANGED <<src, link, unreadable, export, machine, keys, calls, crashes>>

SetLink(c, r) ==
    /\ Edit /\ c \in src /\ link[c] # r
    /\ r # None => r \in src /\ Fits(c, r)
    /\ link' = [link EXCEPT ![c] = r]
    /\ stable' = [stable EXCEPT !.links = @ \ {c}]
    /\ UNCHANGED <<src, key, disk, unreadable, export, machine, keys, calls, crashes>>

(***************************************************************************)
(* The export.                                                             *)
(***************************************************************************)
NextClient ==
    /\ client = None /\ todo # {}
    /\ client' \in todo /\ at' = 1
    /\ UNCHANGED <<old, stable, todo, pending, half, file, machine, keys, calls, crashes>>

\* Tasks of files are listed only for a client with a repository.
Listed(c, table) ==
    {r \in src \cap table : Owner[r] = c
        /\ (r \in FileTask => \E q \in file.rows \cap Repository : Owner[q] = c)}

ReadTable ==
    LET rows == Listed(client, OfClient[at])
        last == at = Len(OfClient)
    IN
    /\ client # None /\ pending = {} /\ half = {}
    /\ file' = [file EXCEPT !.rows = @ \cup rows]
    /\ pending' = {<<t, key[t]>> : t \in rows \cap Keyed}
    /\ at' = IF last THEN 1 ELSE at + 1
    /\ client' = IF last THEN None ELSE client
    /\ todo' = IF last THEN todo \ {client} ELSE todo
    /\ UNCHANGED <<old, stable, half, machine, keys, calls, crashes>>

\* A file that is gone by now leaves no key, and no error.
ReadKey ==
    /\ half = {}
    /\ \E p \in pending :
        /\ file' = [file EXCEPT !.keys[p[1]] = IF p \in disk THEN p[2] ELSE 0]
        /\ pending' = pending \ {p} /\ half' = {p[1]}
    /\ UNCHANGED <<old, stable, at, todo, client, machine, keys, calls, crashes>>

ReadPassphrase ==
    /\ \E t \in half : file' = [file EXCEPT !.passphrases[t] = key[t]]
    /\ half' = {}
    /\ UNCHANGED <<old, stable, at, todo, client, pending, machine, keys, calls, crashes>>

ReadGlobal ==
    /\ client = None /\ todo = {} /\ at <= Len(OfAll)
    /\ at' = at + 1
    /\ file' = [file EXCEPT !.rows = @ \cup (src \cap OfAll[at]),
                            !.link = IF OfAll[at] = Credential THEN link ELSE @]
    /\ UNCHANGED <<old, stable, todo, client, pending, half, machine, keys, calls, crashes>>

(***************************************************************************)
(* What a restore makes of a file.                                         *)
(***************************************************************************)
\* A client whose name is taken fails alone, and takes all that it owns with it.
RestoreClients(f) == (f.rows \cap Client) \ taken
Of(f, table) == {r \in f.rows \cap table : Owner[r] \in RestoreClients(f)}
RestoreSets(f) == Of(f, BackupSet)
RestoreTransports(f) == {t \in Of(f, Transport) : t \in Keyed => f.keys[t] # 0}
RestoreConnections(f) == Of(f, Connection)

RestoreTasks(f) ==
    {k \in Of(f, Task) : Uses[k] \subseteq RestoreTransports(f) \cup RestoreConnections(f)}
RestoreRepositories(f) == Of(f, Repository) \ unreadable
\* Deviation: every task of files is taken for one of a remote folder.
RestoreRemoteTasks(f) ==
    {k \in Of(f, FileTask) : Uses[k] \cap RestoreTransports(f) # {}
        /\ Uses[k] \subseteq RestoreTransports(f) \cup RestoreRepositories(f)}

RestoreFileTasks(f) ==
    {k \in Of(f, FileTask) : Uses[k] \subseteq RestoreTransports(f) \cup RestoreRepositories(f)}
RestoreTargets(f) == {g \in Of(f, Target) \ unreadable : Uses[g] \subseteq RestoreTransports(f)}
RestoreDestinations(f) == f.rows \cap Destination
RestoreCredentials(f) == Of(f, Credential)
RestoreUrls(f) == Of(f, Url)
RestoreItems(f) == Of(f, Item)

Restored(f) ==
    RestoreClients(f) \cup RestoreSets(f) \cup RestoreTransports(f) \cup RestoreConnections(f)
    \cup RestoreTasks(f) \cup RestoreRepositories(f) \cup RestoreFileTasks(f)
    \cup RestoreTargets(f) \cup RestoreDestinations(f) \cup RestoreCredentials(f)
    \cup RestoreUrls(f) \cup RestoreItems(f)

\* The optional references: a link or a url's credential that was not restored is dropped.
Relinked(f) ==
    {<<c, f.link[c]>> : c \in {d \in RestoreCredentials(f) :
                                f.link[d] \in RestoreTransports(f) \cup RestoreConnections(f)}}
    \cup {<<u, Names[u]>> : u \in {v \in RestoreUrls(f) : Names[v] \in RestoreCredentials(f)}}

\* Deviation: targets are skipped without a word.
WarnedOfSome(f) ==
    (f.rows \cap Client \cap taken)
    \cup (Of(f, Transport) \ RestoreTransports(f)) \cup (Of(f, Task) \ RestoreTasks(f))
    \cup (Of(f, Repository) \ RestoreRepositories(f))

\* The rows that the result names: failed clients, and what was skipped with a warning.
\* A task of files whose repository was skipped is skipped without one.
Warned(f) ==
    (f.rows \cap Client \cap taken)
    \cup (Of(f, Transport) \ RestoreTransports(f))
    \cup (Of(f, Task) \ RestoreTasks(f))
    \cup (Of(f, Repository) \ RestoreRepositories(f))
    \cup {k \in Of(f, FileTask) \ RestoreFileTasks(f) :
            Uses[k] \cap Repository \subseteq RestoreRepositories(f)}
    \cup (Of(f, Target) \ RestoreTargets(f))

(***************************************************************************)
(* The restore.                                                            *)
(***************************************************************************)
\* The vault is looked for, and the password checked, before anything is written.
BeginRestore(p) ==
    /\ Complete /\ calls[p] = "idle" /\ vault = "none"
    /\ calls' = [calls EXCEPT ![p] = "keys"]
    /\ UNCHANGED <<old, stable, export, machine, keys, crashes>>

KeysOf(p) == {q \in keys : q[1] = p}
ToWrite(p) == {t \in file.rows \cap Transport : file.keys[t] # 0 /\ <<p, t>> \notin keys}

\* Also the keys of transports that will not be restored are written.
WriteKey(p) ==
    /\ calls[p] = "keys"
    /\ \E t \in ToWrite(p) : keys' = keys \cup {<<p, t>>}
    /\ UNCHANGED <<old, stable, export, machine, calls, crashes>>

KeysWritten(p) ==
    /\ calls[p] = "keys" /\ ToWrite(p) = {}
    /\ calls' = [calls EXCEPT ![p] = "commit"]
    /\ UNCHANGED <<old, stable, export, machine, keys, crashes>>

\* One transaction, that begins with the row of the vault: there can be only one.
Commit(p) ==
    /\ calls[p] = "commit" /\ vault = "none"
    /\ vault' = "restored"
    /\ new' = [r \in Row |-> IF r \in Restored(file) THEN new[r] + 1 ELSE new[r]]
    /\ wired' = Relinked(file)
    /\ keyOf' = [t \in Transport |-> IF t \in RestoreTransports(file) THEN p ELSE keyOf[t]]
    /\ told' = Warned(file)
    /\ calls' = [calls EXCEPT ![p] = "idle"]
    /\ UNCHANGED <<old, stable, export, keys, taken, crashes>>

\* Deviation: a failed restore leaves its key files.
RollBackRows(p) ==
    /\ calls[p] # "idle"
    /\ calls' = [calls EXCEPT ![p] = "idle"]
    /\ UNCHANGED <<old, stable, export, machine, keys, crashes>>

\* A key that cannot be written, a vault that is there by now, a statement that throws.
RollBack(p) ==
    /\ calls[p] # "idle"
    /\ keys' = keys \ KeysOf(p)
    /\ calls' = [calls EXCEPT ![p] = "idle"]
    /\ UNCHANGED <<old, stable, export, machine, crashes>>

\* The keys of a crash stay: the names are random, nobody looks for them.
Crash(p) ==
    /\ calls[p] # "idle" /\ crashes < MaxCrashes /\ crashes' = crashes + 1
    /\ calls' = [calls EXCEPT ![p] = "idle"]
    /\ UNCHANGED <<old, stable, export, machine, keys>>

\* Somebody sets up a vault on the new machine.
InitVault ==
    /\ Complete /\ vault = "none" /\ vault' = "own"
    /\ UNCHANGED <<old, stable, export, new, wired, keyOf, taken, told, keys, calls, crashes>>

TransferNext ==
    \/ \E r \in Row : Add(r) \/ Remove(r)
    \/ \E t \in Transport : ReplaceKey(t)
    \/ \E c \in Credential, r \in Linkable \cup {None} : SetLink(c, r)
    \/ NextClient \/ ReadTable \/ ReadKey \/ ReadPassphrase \/ ReadGlobal
    \/ \E p \in Restores :
        \/ BeginRestore(p) \/ WriteKey(p) \/ KeysWritten(p)
        \/ Commit(p) \/ RollBack(p) \/ Crash(p)
    \/ InitVault

TransferSpec == TransferInit /\ [][TransferNext]_transferVars

(***************************************************************************)
(* Properties.                                                             *)
(***************************************************************************)
There == {r \in Row : new[r] > 0}

\* Two restores that overlap, failures and crashes: all of a file is there once, or nothing.
AllOrNothing ==
    /\ \A r \in Row : new[r] <= 1
    /\ vault # "restored" => There = {} /\ wired = {}

\* What is restored can be used: the rows it needs are there, and the key file of a transport.
RestoredIsClosed ==
    /\ \A r \in There : Needed(r) \subseteq There
    /\ \A e \in wired : {e[1], e[2]} \subseteq There
    /\ \A t \in There \cap Keyed : <<keyOf[t], t>> \in keys

\* A restore that fails takes its key files with it: without a crash, what key files there are
\* belong to what was restored, or to a client that was refused.
FailureLeavesNothing ==
    crashes = 0 /\ (\A p \in Restores : calls[p] = "idle") =>
        \A q \in keys : keyOf[q[2]] = q[1] \/ (Owner[q[2]] \in taken /\ vault = "restored")

\* What a restore leaves, on every path out of it: rows of their types, all of them or none,
\* that can be used, and no key files that nothing belongs to.
RestoreInv == TransferTypeOK /\ AllOrNothing /\ RestoredIsClosed /\ FailureLeavesNothing

\* Whatever is done to the old machine during the export: a row that stays, as does all that
\* it needs, is there after the restore, and so is a link that stays.
Untouched(r) ==
    \A q \in {r} \cup Needed(r) :
        q \in stable.rows \ (taken \cup unreadable) /\ (q \in Keyed => q \in stable.keys)
StableIsRestored ==
    vault = "restored" =>
        /\ \A r \in Row : Untouched(r) => r \in There
        /\ \A c \in stable.links :
            Untouched(c) /\ link[c] # None /\ Untouched(link[c]) => <<c, link[c]>> \in wired

\* What is in a file and does not come back is named in the result, or something that it
\* needs is.
NothingLostSilently ==
    vault = "restored" =>
        \A r \in file.rows \ There : ({r} \cup Needed(r)) \cap told # {}

(***************************************************************************)
(* Properties that the code does not have.                                 *)
(***************************************************************************)
\* exportVault.ts:197 "Serializes the ENTIRE operational state": whatever stays during the
\* export, its key replaced or not, is there after the restore.
RowsAreRestored ==
    vault = "restored" =>
        \A r \in Row :
            (\A q \in {r} \cup Needed(r) : q \in stable.rows \ (taken \cup unreadable)
                /\ (q \in Keyed => \E n \in KeyNo : <<q, n>> \in disk))
            => r \in There

\* A key and its passphrase are those of one sync.
KeyFitsPassphrase ==
    vault = "restored" => \A t \in There \cap Keyed : file.keys[t] = file.passphrases[t]
=============================================================================
