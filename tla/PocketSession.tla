---------------------------- MODULE PocketSession ----------------------------
(***************************************************************************)
(* The session of Arkode Pocket on the phone: pairing, the biometric gate, *)
(* the refreshes from Drive and the cache of the last good snapshot.       *)
(*                                                                         *)
(* A call is one run of an async function of PocketSessionProvider; its    *)
(* steps are what happens between two awaits, so calls interleave, and     *)
(* the user, the desktop and the operating system act in between.  File    *)
(* operations are single steps of their own, except that a kill can        *)
(* interrupt the write of the temporary file.                              *)
(*                                                                         *)
(* Published snapshots are told apart by revision and key.  Left out: the  *)
(* classification of prompt errors and the silent retry of a cold start,   *)
(* files of another format, the clipboard and the screens' navigation.     *)
(***************************************************************************)
EXTENDS Integers

CONSTANTS
    Calls,        \* slots for the calls in progress
    NoFile, Torn, \* a missing file; one that was written in part
    MaxRevision, MaxKeys,
    MaxSpare      \* bound on failures, kills and losses of the cache

ASSUME BoundsAssumption ==
    /\ MaxRevision \in Nat \ {0} /\ MaxKeys \in Nat \ {0} /\ MaxSpare \in Nat

Keys == 1 .. MaxKeys
Snapshot == [key : Keys, revision : 1 .. MaxRevision]
Blank == [key |-> 0, revision |-> 0]

ASSUME FilesAssumption == NoFile # Torn /\ {NoFile, Torn} \cap Snapshot = {}

VARIABLES
    drive,     \* the file on Drive
    keychain,  \* the key of the stored pairing, 0 is none
    ref,       \* pairingRef
    phase,
    calls,
    cache, tmp,
    away,      \* how long the app has been in the background
    prompted,  \* history: the gate was passed, or a code scanned, since the app was started
    lost,      \* history: a file was gone when a call came to use it
    spare

vars == <<drive, keychain, ref, phase, calls, cache, tmp, away, prompted, lost, spare>>

Done == [at |-> "done", why |-> "refresh", key |-> 0, have |-> Blank, began |-> 0, got |-> Blank]
Showing(kind) == [kind |-> kind, file |-> Blank, outcome |-> "none", refreshing |-> FALSE, asOf |-> 0]

TypeOK ==
    /\ drive \in Snapshot
    /\ keychain \in 0 .. MaxKeys /\ ref \in 0 .. MaxKeys
    /\ phase \in [kind : {"loading", "needs_pairing", "locked", "unlocking", "unlocked", "auth_failed"},
                  file : Snapshot \cup {Blank}, outcome : {"none", "checked", "failed"},
                  refreshing : BOOLEAN, asOf : 0 .. MaxRevision]
    /\ calls \in [Calls ->
          [at : {"done", "prompt", "look", "read", "fetch", "got", "write", "delete", "move",
                 "unpair", "uncache", "untmp"},
           why : {"unlock", "pair", "refresh", "forget"}, key : 0 .. MaxKeys,
           have : Snapshot \cup {Blank}, began : 0 .. MaxRevision, got : Snapshot \cup {Blank}]]
    /\ cache \in Snapshot \cup {NoFile, Torn} /\ tmp \in Snapshot \cup {NoFile, Torn}
    /\ away \in {"no", "short", "long"}
    /\ prompted \in BOOLEAN /\ lost \in BOOLEAN /\ spare \in 0 .. MaxSpare

Init ==
    /\ drive = [key |-> 1, revision |-> 1]
    /\ keychain = 0 /\ ref = 0
    /\ phase = Showing("loading")
    /\ calls = [c \in Calls |-> Done]
    /\ cache = NoFile /\ tmp = NoFile
    /\ away = "no" /\ prompted = FALSE /\ lost = FALSE /\ spare = 0

Set(c, call) == calls' = [calls EXCEPT ![c] = call]
End(c) == Set(c, Done)
Failure == spare < MaxSpare /\ spare' = spare + 1

\* The download begins: what is on Drive now, or comes later, is what it gets.
Fetching(c, why, key, have) ==
    [calls[c] EXCEPT !.at = "fetch", !.why = why, !.key = key, !.have = have,
                     !.began = drive.revision]

-----------------------------------------------------------------------------
(* The desktop, and the app's own start and end.                           *)

\* A new snapshot, under a new key after a revocation.
Publish ==
    /\ drive.revision < MaxRevision
    /\ \E key \in {drive.key, drive.key + 1} \cap Keys :
          drive' = [key |-> key, revision |-> drive.revision + 1]
    /\ UNCHANGED <<keychain, ref, phase, calls, cache, tmp, away, prompted, lost, spare>>

Launch ==
    /\ phase.kind = "loading"
    /\ phase' = Showing(IF keychain # 0 THEN "locked" ELSE "needs_pairing")
    /\ UNCHANGED <<drive, keychain, ref, calls, cache, tmp, away, prompted, lost, spare>>

\* The app is killed, in the middle of a write perhaps, and started again.
Kill ==
    /\ Failure
    /\ tmp' \in {tmp} \cup (IF \E c \in Calls : calls[c].at = "write" THEN {Torn} ELSE {})
    /\ calls' = [c \in Calls |-> Done]
    /\ phase' = Showing("loading") /\ ref' = 0 /\ away' = "no" /\ prompted' = FALSE
    /\ UNCHANGED <<drive, keychain, cache, lost>>

\* The system clears the app's cache directory.
ClearCacheDirectory ==
    /\ Failure /\ cache # NoFile
    /\ cache' = NoFile /\ tmp' = NoFile
    /\ UNCHANGED <<drive, keychain, ref, phase, calls, away, prompted, lost>>

Background ==
    /\ away = "no" /\ phase.kind # "loading" /\ away' = "short"
    /\ UNCHANGED <<drive, keychain, ref, phase, calls, cache, tmp, prompted, lost, spare>>

GracePeriodEnds ==
    /\ away = "short" /\ away' = "long"
    /\ UNCHANGED <<drive, keychain, ref, phase, calls, cache, tmp, prompted, lost, spare>>

Foreground ==
    /\ away # "no" /\ away' = "no"
    /\ IF away = "long"
       THEN /\ ref' = 0
            /\ phase' = IF phase.kind = "unlocked" THEN Showing("locked") ELSE phase
       ELSE UNCHANGED <<ref, phase>>
    /\ UNCHANGED <<drive, keychain, calls, cache, tmp, prompted, lost, spare>>

-----------------------------------------------------------------------------
(* The calls of the user: unlock, completePairing, refreshNow,             *)
(* forgetDevice.                                                           *)

\* By itself when the gate is shown locked, by its button after a failure.
Unlock(c) ==
    /\ away = "no" /\ phase.kind \in {"locked", "auth_failed"} /\ calls[c].at = "done"
    /\ phase' = Showing("unlocking")
    /\ Set(c, [Done EXCEPT !.at = "prompt", !.why = "unlock"])
    /\ UNCHANGED <<drive, keychain, ref, cache, tmp, away, prompted, lost, spare>>

\* The code is that of the desktop's current key.
CompletePairing(c) ==
    /\ away = "no" /\ phase.kind = "needs_pairing" /\ calls[c].at = "done"
    /\ keychain' = drive.key /\ ref' = drive.key /\ prompted' = TRUE
    /\ phase' = Showing("unlocking")
    /\ Set(c, Fetching(c, "pair", drive.key, Blank))
    /\ UNCHANGED <<drive, cache, tmp, away, lost, spare>>

\* Without a pairing in memory the phase says refreshing and nothing follows.
RefreshNow(c) ==
    /\ away = "no" /\ phase.kind = "unlocked" /\ calls[c].at = "done"
    /\ phase' = [phase EXCEPT !.refreshing = TRUE]
    /\ IF ref = 0 THEN UNCHANGED calls ELSE Set(c, Fetching(c, "refresh", ref, phase.file))
    /\ UNCHANGED <<drive, keychain, ref, cache, tmp, away, prompted, lost, spare>>

ForgetDevice(c) ==
    /\ away = "no" /\ phase.kind = "unlocked" /\ calls[c].at = "done"
    /\ ref' = 0
    /\ Set(c, [Done EXCEPT !.at = "unpair", !.why = "forget"])
    /\ UNCHANGED <<drive, keychain, phase, cache, tmp, away, prompted, lost, spare>>

-----------------------------------------------------------------------------
(* unlock, after its begin.                                                *)

PromptPassed(c) ==
    /\ calls[c].at = "prompt"
    /\ IF keychain = 0
       THEN phase' = Showing("needs_pairing") /\ End(c) /\ UNCHANGED <<ref, prompted>>
       ELSE /\ ref' = keychain /\ prompted' = TRUE
            /\ Set(c, [calls[c] EXCEPT !.at = "look", !.key = keychain])
            /\ UNCHANGED phase
    /\ UNCHANGED <<drive, keychain, cache, tmp, away, lost, spare>>

PromptFails(c) ==
    /\ calls[c].at = "prompt"
    /\ phase' = Showing("auth_failed")
    /\ End(c)
    /\ UNCHANGED <<drive, keychain, ref, cache, tmp, away, prompted, lost, spare>>

LookForCache(c) ==
    /\ calls[c].at = "look"
    /\ Set(c, IF cache = NoFile THEN Fetching(c, "unlock", calls[c].key, Blank)
              ELSE [calls[c] EXCEPT !.at = "read"])
    /\ UNCHANGED <<drive, keychain, ref, phase, cache, tmp, away, prompted, lost, spare>>

FromCache(file) == [Showing("unlocked") EXCEPT !.file = file, !.refreshing = TRUE]

\* The cache is shown and a refresh follows; one that cannot be read or opened counts
\* as none.  A file that has gone since is an exception that nobody catches.
ReadCache(c) ==
    /\ calls[c].at = "read"
    /\ \/ /\ cache = NoFile
          /\ lost' = TRUE /\ End(c) /\ UNCHANGED phase
       \/ /\ cache \in Snapshot /\ cache.key = calls[c].key
          /\ phase' = FromCache(cache)
          /\ Set(c, Fetching(c, "refresh", calls[c].key, cache))
          /\ UNCHANGED lost
       \/ /\ cache # NoFile /\ (cache \in Snapshot => cache.key # calls[c].key)
          /\ Set(c, Fetching(c, "unlock", calls[c].key, Blank))
          /\ UNCHANGED <<phase, lost>>
    /\ UNCHANGED <<drive, keychain, ref, cache, tmp, away, prompted, spare>>

-----------------------------------------------------------------------------
(* refreshSnapshot and what is done with its result.                       *)

Download(c) ==
    /\ calls[c].at = "fetch"
    /\ Set(c, [calls[c] EXCEPT !.at = "got", !.got = drive])
    /\ UNCHANGED <<drive, keychain, ref, phase, cache, tmp, away, prompted, lost, spare>>

\* No network, no token, a truncated file.
DownloadFails(c) ==
    /\ calls[c].at = "fetch" /\ Failure
    /\ Set(c, [calls[c] EXCEPT !.at = "got", !.got = Blank])
    /\ UNCHANGED <<drive, keychain, ref, phase, cache, tmp, away, prompted, lost>>

\* decideSnapshotUpdate.
Adopts(call) == call.got.revision > call.have.revision /\ call.got.key = call.key
NoChange(call) == call.got # Blank /\ call.got.revision <= call.have.revision

Unlocked(file, outcome, began) ==
    [kind |-> "unlocked", file |-> file, outcome |-> outcome, refreshing |-> FALSE, asOf |-> began]

\* Deviation: a refresh that failed is shown as a check.
AppliedOrChecked(call) ==
    IF Adopts(call) THEN Unlocked(call.got, "checked", call.began)
    ELSE Unlocked(call.have, "checked", call.began)

\* The phase that a refresh leaves: the new snapshot, or the one it began with.
AppliedRefresh(call) ==
    IF Adopts(call) THEN Unlocked(call.got, "checked", call.began)
    ELSE Unlocked(call.have, IF NoChange(call) THEN "checked" ELSE "failed", call.began)

\* applyRefreshResult: the phase first, then the cache, which nobody waits for.
ApplyRefreshResult(c) ==
    /\ calls[c].at = "got" /\ calls[c].why = "refresh"
    /\ phase' = AppliedRefresh(calls[c])
    /\ IF Adopts(calls[c]) THEN Set(c, [calls[c] EXCEPT !.at = "write"]) ELSE End(c)
    /\ UNCHANGED <<drive, keychain, ref, cache, tmp, away, prompted, lost, spare>>

\* Deviation: a first download that fails is left to the next try.
NoResult(c) ==
    /\ calls[c].at = "got" /\ calls[c].why \in {"unlock", "pair"}
    /\ IF Adopts(calls[c]) THEN Set(c, [calls[c] EXCEPT !.at = "write"]) ELSE End(c)
    /\ UNCHANGED <<drive, keychain, ref, phase, cache, tmp, away, prompted, lost, spare>>

\* The first snapshot, of a pairing or without a cache: the cache first, then the phase.
FirstResult(c) ==
    /\ calls[c].at = "got" /\ calls[c].why \in {"unlock", "pair"}
    /\ IF Adopts(calls[c])
       THEN Set(c, [calls[c] EXCEPT !.at = "write"]) /\ UNCHANGED phase
       ELSE End(c) /\ phase' = Showing("auth_failed")
    /\ UNCHANGED <<drive, keychain, ref, cache, tmp, away, prompted, lost, spare>>

-----------------------------------------------------------------------------
(* saveCachedSnapshotFileAtomically.                                       *)

\* Deviation: straight into the file.
WriteInPlace(c) ==
    /\ calls[c].at = "write"
    /\ cache' \in {calls[c].got, Torn} /\ tmp' = calls[c].got
    /\ Set(c, [calls[c] EXCEPT !.at = "delete"])
    /\ UNCHANGED <<drive, keychain, ref, phase, away, prompted, lost, spare>>

WriteTmp(c) ==
    /\ calls[c].at = "write"
    /\ tmp' = calls[c].got
    /\ Set(c, [calls[c] EXCEPT !.at = "delete"])
    /\ UNCHANGED <<drive, keychain, ref, phase, cache, away, prompted, lost, spare>>

DeleteOld(c) ==
    /\ calls[c].at = "delete"
    /\ cache' = NoFile
    /\ Set(c, [calls[c] EXCEPT !.at = "move"])
    /\ UNCHANGED <<drive, keychain, ref, phase, tmp, away, prompted, lost, spare>>

\* Another call may have moved the temporary file already: an exception again.
MoveIntoPlace(c) ==
    /\ calls[c].at = "move"
    /\ End(c)
    /\ IF tmp = NoFile
       THEN lost' = TRUE /\ UNCHANGED <<phase, cache, tmp>>
       ELSE /\ cache' = tmp /\ tmp' = NoFile
            /\ phase' = IF calls[c].why = "refresh" THEN phase
                        ELSE Unlocked(calls[c].got, "checked", calls[c].began)
            /\ UNCHANGED lost
    /\ UNCHANGED <<drive, keychain, ref, away, prompted, spare>>

-----------------------------------------------------------------------------
(* forgetDevice, after its begin.                                          *)

ClearPairing(c) ==
    /\ calls[c].at = "unpair"
    /\ keychain' = 0
    /\ Set(c, [calls[c] EXCEPT !.at = "uncache"])
    /\ UNCHANGED <<drive, ref, phase, cache, tmp, away, prompted, lost, spare>>

ClearCachedFile(c) ==
    /\ calls[c].at = "uncache"
    /\ cache' = NoFile
    /\ Set(c, [calls[c] EXCEPT !.at = "untmp"])
    /\ UNCHANGED <<drive, keychain, ref, phase, tmp, away, prompted, lost, spare>>

ClearTmpFile(c) ==
    /\ calls[c].at = "untmp"
    /\ tmp' = NoFile
    /\ phase' = Showing("needs_pairing")
    /\ End(c)
    /\ UNCHANGED <<drive, keychain, ref, cache, away, prompted, lost, spare>>

CallStep(c) ==
    \/ PromptPassed(c) \/ PromptFails(c) \/ LookForCache(c) \/ ReadCache(c)
    \/ Download(c) \/ DownloadFails(c) \/ ApplyRefreshResult(c) \/ FirstResult(c)
    \/ WriteTmp(c) \/ DeleteOld(c) \/ MoveIntoPlace(c)
    \/ ClearPairing(c) \/ ClearCachedFile(c) \/ ClearTmpFile(c)

Next ==
    \/ Publish \/ Launch \/ Kill \/ ClearCacheDirectory
    \/ Background \/ GracePeriodEnds \/ Foreground
    \/ \E c \in Calls :
          \/ Unlock(c) \/ CompletePairing(c) \/ RefreshNow(c) \/ ForgetDevice(c)
          \/ CallStep(c)

\* Prompts are answered, requests end, and the app gets to run.
Fairness == \A c \in Calls : WF_vars(CallStep(c))

Spec == Init /\ [][Next]_vars
FairSpec == Spec /\ Fairness

-----------------------------------------------------------------------------
(* Properties.                                                             *)

\* A kill in the middle of a save never leaves a half-written file as the cache.
CacheIsWhole == cache # Torn

\* refreshSnapshot.ts:8, never say "sincronizado" of anything unconfirmed: a phone that shows a
\* snapshot as checked shows what was on Drive when that check began, or newer,
\* however refreshes overlap.
FreshIsCurrent ==
    phase.kind = "unlocked" /\ phase.outcome = "checked" => phase.file.revision >= phase.asOf

\* A snapshot that no check has confirmed is shown as being refreshed.
UncheckedIsRefreshing ==
    phase.kind = "unlocked" /\ phase.outcome = "none" => phase.refreshing

\* Whatever was in flight, a started app shows nothing before the gate was passed.
NothingShownBeforePrompt == phase.kind = "unlocked" => prompted

\* What the phone has and shows is whole and was asked for: the phases have their types,
\* the cache is never half a file, and the gate comes first.
PhoneInv == TypeOK /\ CacheIsWhole /\ NothingShownBeforePrompt

\* What the banner says of a snapshot is so: checked is current, unchecked is being checked.
BannerIsTrue == FreshIsCurrent /\ UncheckedIsRefreshing

\* The gate's spinner ends, and so does the one of a refresh with a pairing in memory,
\* unless a file was taken away under a call.
SpinnersEnd ==
    /\ phase.kind = "unlocking" ~> phase.kind # "unlocking" \/ lost
    /\ phase.kind = "unlocked" /\ phase.refreshing ~> ~phase.refreshing \/ ref = 0 \/ lost

\* "Foreground: drop back to the biometric gate": what is not unlocked gets unlocked by
\* a call that has passed the prompt, or scanned a code.
LockedNeedsPrompt ==
    [][phase.kind \notin {"unlocking", "unlocked"} => phase'.kind # "unlocked"]_vars

\* What "a failed update never replaces the last good cached snapshot" (pocket.md:180) says
\* of the cache, said of the screen: a refresh that fails brings back nothing older.
FailureKeepsSnapshot ==
    [][phase.kind = "unlocked" /\ phase'.kind = "unlocked" /\ phase'.outcome = "failed"
       => phase'.file.revision >= phase.file.revision]_vars

\* SettingsScreen.tsx:45, the key and the local copy are erased: nothing is left once the device is
\* forgotten, until it is paired again.
ForgottenIsGone ==
    phase.kind = "needs_pairing" /\ keychain = 0 /\ (\A c \in Calls : calls[c].at = "done")
       => cache = NoFile

\* The button to retry is never missing for ever.
GateSpinnerEnds == phase.kind = "unlocking" ~> phase.kind # "unlocking"

=============================================================================
