--------------------------- MODULE PocketSessionProofs ---------------------------
(***************************************************************************)
(* Proofs about PocketSession: what the phone shows was asked for, what it *)
(* says of it is true, and its cache is never half a file, for any number  *)
(* of overlapping calls.                                                   *)
(*                                                                         *)
(* A call shows what it has found long after it began, so the invariant    *)
(* keeps what a call in progress knows: CallsFit.                          *)
(***************************************************************************)
EXTENDS PocketSession, TLAPS

\* A call that is past the prompt has passed it; what it began with is not newer than
\* Drive, and what it got is not older; it saves what it got, and no half file is moved.
CallFits(c) ==
    /\ calls[c].at \notin {"done", "prompt"} => prompted
    /\ calls[c].at = "fetch" => calls[c].began <= drive.revision
    /\ calls[c].at \in {"got", "write", "delete", "move"} /\ calls[c].got # Blank =>
          calls[c].began <= calls[c].got.revision
    /\ calls[c].at \in {"write", "delete", "move"} => calls[c].got \in Snapshot
    /\ calls[c].at \in {"delete", "move"} => tmp # Torn

CallsFit == \A c \in Calls : CallFits(c)

IInv == TypeOK /\ CallsFit /\ CacheIsWhole /\ NothingShownBeforePrompt /\ BannerIsTrue

-----------------------------------------------------------------------------
(* Types.                                                                  *)

Call == [at : {"done", "prompt", "look", "read", "fetch", "got", "write", "delete", "move",
               "unpair", "uncache", "untmp"},
         why : {"unlock", "pair", "refresh", "forget"}, key : 0 .. MaxKeys,
         have : Snapshot \cup {Blank}, began : 0 .. MaxRevision, got : Snapshot \cup {Blank}]
Kinds == {"loading", "needs_pairing", "locked", "unlocking", "unlocked", "auth_failed"}
Phase == [kind : Kinds, file : Snapshot \cup {Blank}, outcome : {"none", "checked", "failed"},
          refreshing : BOOLEAN, asOf : 0 .. MaxRevision]
Files == Snapshot \cup {NoFile, Torn}

LEMMA TypeIs ==
    TypeOK <=> /\ drive \in Snapshot /\ keychain \in 0 .. MaxKeys /\ ref \in 0 .. MaxKeys
               /\ phase \in Phase /\ calls \in [Calls -> Call]
               /\ cache \in Files /\ tmp \in Files /\ away \in {"no", "short", "long"}
               /\ prompted \in BOOLEAN /\ lost \in BOOLEAN /\ spare \in 0 .. MaxSpare
BY DEF TypeOK, Phase, Kinds, Call, Files

LEMMA TypeIsNext ==
    TypeOK' <=> /\ drive' \in Snapshot /\ keychain' \in 0 .. MaxKeys /\ ref' \in 0 .. MaxKeys
                /\ phase' \in Phase /\ calls' \in [Calls -> Call]
                /\ cache' \in Files /\ tmp' \in Files /\ away' \in {"no", "short", "long"}
                /\ prompted' \in BOOLEAN /\ lost' \in BOOLEAN /\ spare' \in 0 .. MaxSpare
BY DEF TypeOK, Phase, Kinds, Call, Files

LEMMA SnapshotFacts ==
    /\ \A s \in Snapshot : s.key \in Keys /\ s.key \in 0 .. MaxKeys
                           /\ s.revision \in 1 .. MaxRevision /\ s # Blank
    /\ \A s \in Snapshot \cup {Blank} : s.revision \in 0 .. MaxRevision
    /\ Blank.revision = 0
BY BoundsAssumption DEF Snapshot, Keys, Blank

LEMMA DoneType == Done \in Call /\ Done.at = "done"
BY BoundsAssumption DEF Done, Call, Blank

LEMMA ShowingType ==
    ASSUME NEW kind \in Kinds
    PROVE  Showing(kind) \in Phase /\ Showing(kind).kind = kind /\ Showing(kind).outcome = "none"
<1>1. FALSE \in BOOLEAN /\ 0 \in 0 .. MaxRevision
    BY BoundsAssumption
<1> QED
    BY <1>1 DEF Showing, Phase

LEMMA UnlockedType ==
    ASSUME NEW file \in Snapshot \cup {Blank}, NEW outcome \in {"checked", "failed"},
           NEW began \in 0 .. MaxRevision
    PROVE  LET shown == Unlocked(file, outcome, began)
           IN  /\ shown \in Phase /\ shown.kind = "unlocked" /\ shown.file = file
               /\ shown.outcome = outcome /\ shown.asOf = began
<1>1. FALSE \in BOOLEAN
    OBVIOUS
<1> QED
    BY <1>1 DEF Unlocked, Phase, Kinds

LEMMA FetchingType ==
    ASSUME TypeOK, NEW c \in Calls, NEW why \in {"unlock", "pair", "refresh"},
           NEW key \in 0 .. MaxKeys, NEW have \in Snapshot \cup {Blank}
    PROVE  LET call == Fetching(c, why, key, have)
           IN  call \in Call /\ call.at = "fetch" /\ call.began = drive.revision
<1>1. calls[c] \in Call /\ drive.revision \in 0 .. MaxRevision
    BY TypeIs, SnapshotFacts
<1> QED
    BY <1>1 DEF Fetching, Call

-----------------------------------------------------------------------------
(* What a step has to show.                                                *)

\* Nothing that calls depend on is taken back: Drive moves forward, a gate that was
\* passed stays passed, and the temporary file does not become half a file.
Onward ==
    /\ drive' \in Snapshot /\ drive.revision <= drive'.revision
    /\ prompted' \in BOOLEAN /\ (prompted => prompted')
    /\ tmp' \in Files /\ (tmp # Torn => tmp' # Torn)

\* What is shown after the step is right.
ShownWell ==
    /\ phase' \in Phase
    /\ phase'.kind = "unlocked" =>
          /\ prompted'
          /\ phase'.outcome = "checked" => phase'.file.revision >= phase'.asOf
          /\ phase'.outcome = "none" => phase'.refreshing

\* The call after the step fits what is there after it.
FitsNext(call) ==
    /\ call.at \notin {"done", "prompt"} => prompted'
    /\ call.at = "fetch" => call.began <= drive'.revision
    /\ call.at \in {"got", "write", "delete", "move"} /\ call.got # Blank =>
          call.began <= call.got.revision
    /\ call.at \in {"write", "delete", "move"} => call.got \in Snapshot
    /\ call.at \in {"delete", "move"} => tmp' # Torn

LEMMA CallsStayFit ==
    ASSUME IInv, Onward, UNCHANGED calls
    PROVE  CallsFit' /\ calls' \in [Calls -> Call]
<1>1. drive.revision \in 1 .. MaxRevision /\ drive'.revision \in 1 .. MaxRevision
      /\ calls \in [Calls -> Call]
    BY TypeIs, SnapshotFacts DEF IInv, Onward
<1>2. \A c \in Calls : calls[c].began \in 0 .. MaxRevision
    BY <1>1 DEF Call
<1> QED
    BY <1>1, <1>2 DEF IInv, Onward, CallsFit, CallFits

LEMMA CallSteps ==
    ASSUME IInv, Onward, NEW c \in Calls, NEW call \in Call, Set(c, call), FitsNext(call)
    PROVE  CallsFit' /\ calls' \in [Calls -> Call]
<1>1. calls \in [Calls -> Call] /\ calls' = [calls EXCEPT ![c] = call]
    BY TypeIs DEF IInv, Set
<1>2. calls'[c] = call /\ \A d \in Calls : d # c => calls'[d] = calls[d]
    BY <1>1
<1>3. drive.revision \in 1 .. MaxRevision /\ drive'.revision \in 1 .. MaxRevision
    BY TypeIs, SnapshotFacts DEF IInv, Onward
<1>4. \A d \in Calls : calls[d].began \in 0 .. MaxRevision
    BY <1>1 DEF Call
<1>5. CallFits(c)'
    BY <1>2 DEF CallFits, FitsNext
<1>6. ASSUME NEW d \in Calls, d # c PROVE CallFits(d)'
    BY <1>2, <1>3, <1>4, <1>6 DEF IInv, Onward, CallsFit, CallFits
<1> QED
    BY <1>1, <1>5, <1>6 DEF CallsFit

\* With that, the invariant is kept.
LEMMA StepIsGood ==
    ASSUME Onward, ShownWell, CallsFit', calls' \in [Calls -> Call],
           keychain' \in 0 .. MaxKeys, ref' \in 0 .. MaxKeys,
           cache' \in Files, cache' # Torn, away' \in {"no", "short", "long"},
           lost' \in BOOLEAN, spare' \in 0 .. MaxSpare
    PROVE  IInv'
<1>1. TypeOK'
    BY TypeIsNext DEF Onward, ShownWell
<1> QED
    BY <1>1 DEF IInv, ShownWell, CacheIsWhole, NothingShownBeforePrompt, BannerIsTrue,
        FreshIsCurrent, UncheckedIsRefreshing

\* What holds before a step, for the parts that it leaves alone.
LEMMA Before ==
    ASSUME IInv
    PROVE  /\ drive \in Snapshot /\ drive.revision \in 1 .. MaxRevision
           /\ keychain \in 0 .. MaxKeys /\ ref \in 0 .. MaxKeys /\ phase \in Phase
           /\ calls \in [Calls -> Call] /\ \A c \in Calls : calls[c] \in Call
           /\ cache \in Files /\ cache # Torn /\ tmp \in Files
           /\ away \in {"no", "short", "long"}
           /\ prompted \in BOOLEAN /\ lost \in BOOLEAN /\ spare \in 0 .. MaxSpare
BY TypeIs, SnapshotFacts DEF IInv, CacheIsWhole

LEMMA StillOnward ==
    ASSUME IInv, UNCHANGED <<drive, prompted, tmp>> PROVE Onward
BY Before DEF Onward

LEMMA StillShown ==
    ASSUME IInv, UNCHANGED phase, prompted => prompted' PROVE ShownWell
BY Before DEF IInv, ShownWell, NothingShownBeforePrompt, BannerIsTrue, FreshIsCurrent,
    UncheckedIsRefreshing

LEMMA NotUnlocked ==
    ASSUME NEW kind \in Kinds \ {"unlocked"}, phase' = Showing(kind) PROVE ShownWell
BY ShowingType DEF ShownWell

LEMMA DoneFits == FitsNext(Done)
BY DoneType DEF FitsNext

-----------------------------------------------------------------------------
LEMMA InitIInv == Init => IInv
<1> SUFFICES ASSUME Init PROVE IInv
    OBVIOUS
<1>1. TypeOK
  <2>1. drive \in Snapshot
      BY BoundsAssumption DEF Init, Snapshot, Keys
  <2>2. keychain \in 0 .. MaxKeys /\ ref \in 0 .. MaxKeys /\ spare \in 0 .. MaxSpare
      BY BoundsAssumption DEF Init
  <2>3. phase \in Phase /\ calls \in [Calls -> Call]
      BY ShowingType, DoneType DEF Init, Kinds
  <2>4. prompted \in BOOLEAN /\ lost \in BOOLEAN
      BY Zenon DEF Init
  <2>5. cache \in Files /\ tmp \in Files /\ away \in {"no", "short", "long"}
      BY DEF Init, Files
  <2> QED
      BY <2>1, <2>2, <2>3, <2>4, <2>5, TypeIs
<1>2. CallsFit
    BY DoneType DEF Init, CallsFit, CallFits
<1>3. CacheIsWhole
    BY FilesAssumption DEF Init, CacheIsWhole
<1>4. NothingShownBeforePrompt /\ BannerIsTrue
    BY ShowingType DEF Init, Kinds, NothingShownBeforePrompt, BannerIsTrue, FreshIsCurrent,
        UncheckedIsRefreshing
<1> QED
    BY <1>1, <1>2, <1>3, <1>4 DEF IInv

-----------------------------------------------------------------------------
(* The desktop, and the app's own start and end.                           *)

\* Steps that leave calls, files and what is shown alone.
LEMMA QuietStep ==
    ASSUME IInv, Onward, ShownWell, UNCHANGED <<calls, cache>>,
           keychain' \in 0 .. MaxKeys, ref' \in 0 .. MaxKeys, away' \in {"no", "short", "long"},
           lost' \in BOOLEAN, spare' \in 0 .. MaxSpare
    PROVE  IInv'
BY Before, CallsStayFit, StepIsGood

LEMMA PublishKeepsIInv == ASSUME IInv, Publish PROVE IInv'
<1>1. /\ drive' \in Snapshot /\ drive'.revision = drive.revision + 1
      /\ UNCHANGED <<keychain, ref, phase, calls, cache, tmp, away, prompted, lost, spare>>
    BY Before, BoundsAssumption DEF Publish, Snapshot
<1>2. Onward
    BY <1>1, Before DEF Onward
<1>3. ShownWell
    BY <1>1, StillShown
<1> QED
    BY <1>1, <1>2, <1>3, Before, QuietStep

LEMMA LaunchKeepsIInv == ASSUME IInv, Launch PROVE IInv'
<1>1. ShownWell
    BY NotUnlocked DEF Launch, Kinds
<1> QED
    BY <1>1, Before, StillOnward, QuietStep DEF Launch

LEMMA KillKeepsIInv == ASSUME IInv, Kill PROVE IInv'
<1>1. calls' \in [Calls -> Call] /\ CallsFit'
    BY DoneType DEF Kill, CallsFit, CallFits
<1>2. ShownWell
    BY NotUnlocked DEF Kill, Kinds
<1>3. /\ drive' \in Snapshot /\ keychain' \in 0 .. MaxKeys /\ ref' \in 0 .. MaxKeys
      /\ cache' \in Files /\ cache' # Torn /\ tmp' \in Files
      /\ away' \in {"no", "short", "long"} /\ lost' \in BOOLEAN
    BY Before, BoundsAssumption DEF Kill, Files
<1>4. spare' \in 0 .. MaxSpare
    BY Before, BoundsAssumption DEF Kill, Failure
<1>5. prompted' \in BOOLEAN
    BY Zenon DEF Kill
<1>6. TypeOK'
    BY <1>1, <1>2, <1>3, <1>4, <1>5, TypeIsNext DEF ShownWell
<1> QED
    BY <1>1, <1>2, <1>3, <1>6 DEF IInv, ShownWell, CacheIsWhole, NothingShownBeforePrompt,
        BannerIsTrue, FreshIsCurrent, UncheckedIsRefreshing

LEMMA ClearCacheKeepsIInv == ASSUME IInv, ClearCacheDirectory PROVE IInv'
<1>1. /\ cache' \in Files /\ cache' # Torn /\ tmp' \in Files /\ tmp' # Torn
      /\ UNCHANGED <<drive, keychain, ref, phase, calls, away, prompted, lost>>
    BY FilesAssumption DEF ClearCacheDirectory, Files
<1>2. Onward /\ ShownWell
    BY <1>1, Before, StillShown DEF Onward
<1>3. spare' \in 0 .. MaxSpare
    BY Before, BoundsAssumption DEF ClearCacheDirectory, Failure
<1> QED
    BY <1>1, <1>2, <1>3, Before, CallsStayFit, StepIsGood

LEMMA AwayKeepsIInv ==
    ASSUME IInv, Background \/ GracePeriodEnds \/ Foreground PROVE IInv'
<1>1. /\ UNCHANGED <<drive, keychain, calls, cache, tmp, prompted, lost, spare>>
      /\ away' \in {"no", "short", "long"}
    BY DEF Background, GracePeriodEnds, Foreground
<1>2. ref' \in {0, ref} /\ (phase' = phase \/ phase' = Showing("locked"))
    BY DEF Background, GracePeriodEnds, Foreground
<1>3. ShownWell
    BY <1>1, <1>2, NotUnlocked, StillShown DEF Kinds
<1> QED
    BY <1>1, <1>2, <1>3, Before, BoundsAssumption, StillOnward, QuietStep

-----------------------------------------------------------------------------
(* The calls.                                                              *)

\* A step of one call that touches neither Drive nor the files.
LEMMA OneCallStep ==
    ASSUME IInv, NEW c \in Calls, NEW call \in Call, Set(c, call), FitsNext(call), ShownWell,
           UNCHANGED <<drive, cache, tmp>>,
           prompted' \in BOOLEAN, prompted => prompted',
           keychain' \in 0 .. MaxKeys, ref' \in 0 .. MaxKeys,
           UNCHANGED away, lost' \in BOOLEAN, spare' \in 0 .. MaxSpare
    PROVE  IInv'
<1>1. Onward
    BY Before DEF Onward
<1> QED
    BY <1>1, Before, CallSteps, StepIsGood

\* The call that a download begins for fits, if it has passed the gate.
LEMMA FetchingFits ==
    ASSUME IInv, NEW c \in Calls, NEW why \in {"unlock", "pair", "refresh"},
           NEW key \in 0 .. MaxKeys, NEW have \in Snapshot \cup {Blank},
           prompted', drive' = drive
    PROVE  Fetching(c, why, key, have) \in Call /\ FitsNext(Fetching(c, why, key, have))
<1>1. TypeOK /\ drive.revision <= drive'.revision
    BY Before DEF IInv
<1> QED
    BY <1>1, FetchingType DEF FitsNext

LEMMA UnlockKeepsIInv == ASSUME IInv, NEW c \in Calls, Unlock(c) PROVE IInv'
<1> DEFINE call == [Done EXCEPT !.at = "prompt", !.why = "unlock"]
<1>1. call \in Call /\ call.at = "prompt"
    BY DoneType DEF Call
<1>2. Set(c, call) /\ phase' = Showing("unlocking")
      /\ UNCHANGED <<drive, keychain, ref, cache, tmp, away, prompted, lost, spare>>
    BY DEF Unlock
<1> HIDE DEF call
<1>3. FitsNext(call)
    BY <1>1 DEF FitsNext
<1>4. ShownWell
    BY <1>2, NotUnlocked DEF Kinds
<1> QED
    BY <1>1, <1>2, <1>3, <1>4, Before, OneCallStep

LEMMA CompletePairingKeepsIInv ==
    ASSUME IInv, NEW c \in Calls, CompletePairing(c) PROVE IInv'
<1>1. drive.key \in 0 .. MaxKeys /\ prompted' = TRUE
    BY Before, SnapshotFacts DEF CompletePairing
<1>2. /\ Set(c, Fetching(c, "pair", drive.key, Blank)) /\ phase' = Showing("unlocking")
      /\ keychain' = drive.key /\ ref' = drive.key
      /\ UNCHANGED <<drive, cache, tmp, away, lost, spare>>
    BY DEF CompletePairing
<1>3. Fetching(c, "pair", drive.key, Blank) \in Call
      /\ FitsNext(Fetching(c, "pair", drive.key, Blank))
    BY <1>1, <1>2, FetchingFits
<1>4. ShownWell
    BY <1>2, NotUnlocked DEF Kinds
<1>5. prompted' \in BOOLEAN
    BY <1>1, Zenon
<1> QED
    BY <1>1, <1>2, <1>3, <1>4, <1>5, Before, OneCallStep

LEMMA RefreshNowKeepsIInv == ASSUME IInv, NEW c \in Calls, RefreshNow(c) PROVE IInv'
<1>1. /\ phase' = [phase EXCEPT !.refreshing = TRUE] /\ phase.kind = "unlocked"
      /\ UNCHANGED <<drive, keychain, ref, cache, tmp, away, prompted, lost, spare>>
    BY DEF RefreshNow
<1>2. prompted
    BY <1>1 DEF IInv, NothingShownBeforePrompt
<1>3. ShownWell
  <2>1. TRUE \in BOOLEAN
      OBVIOUS
  <2>2. /\ phase' \in Phase /\ phase'.outcome = phase.outcome /\ phase'.file = phase.file
        /\ phase'.asOf = phase.asOf /\ phase'.refreshing
      BY <1>1, <2>1, Before DEF Phase
  <2> QED
      BY <1>1, <1>2, <2>2 DEF IInv, BannerIsTrue, FreshIsCurrent, ShownWell
<1>4. CASE ref = 0
    BY <1>1, <1>3, <1>4, Before, StillOnward, QuietStep DEF RefreshNow
<1>5. CASE ref # 0
  <2>1. Set(c, Fetching(c, "refresh", ref, phase.file)) /\ phase.file \in Snapshot \cup {Blank}
      BY <1>5, Before DEF RefreshNow, Phase
  <2>2. Fetching(c, "refresh", ref, phase.file) \in Call
        /\ FitsNext(Fetching(c, "refresh", ref, phase.file))
      BY <1>1, <1>2, <2>1, Before, FetchingFits
  <2> QED
      BY <1>1, <1>3, <2>1, <2>2, Before, OneCallStep
<1> QED
    BY <1>4, <1>5

LEMMA ForgetDeviceKeepsIInv == ASSUME IInv, NEW c \in Calls, ForgetDevice(c) PROVE IInv'
<1> DEFINE call == [Done EXCEPT !.at = "unpair", !.why = "forget"]
<1>1. call \in Call /\ call.at = "unpair"
    BY DoneType DEF Call
<1>2. Set(c, call) /\ ref' = 0 /\ phase.kind = "unlocked"
      /\ UNCHANGED <<drive, keychain, phase, cache, tmp, away, prompted, lost, spare>>
    BY DEF ForgetDevice
<1> HIDE DEF call
<1>3. FitsNext(call)
    BY <1>1, <1>2 DEF IInv, NothingShownBeforePrompt, FitsNext
<1> QED
    BY <1>1, <1>2, <1>3, Before, BoundsAssumption, StillShown, OneCallStep

-----------------------------------------------------------------------------
(* unlock, after its begin.                                                *)

LEMMA PromptPassedKeepsIInv == ASSUME IInv, NEW c \in Calls, PromptPassed(c) PROVE IInv'
<1>1. UNCHANGED <<drive, keychain, cache, tmp, away, lost, spare>>
    BY DEF PromptPassed
<1>2. CASE keychain = 0
  <2>1. phase' = Showing("needs_pairing") /\ Set(c, Done) /\ UNCHANGED <<ref, prompted>>
      BY <1>2 DEF PromptPassed, End
  <2>2. ShownWell
      BY <2>1, NotUnlocked DEF Kinds
  <2> QED
      BY <1>1, <2>1, <2>2, Before, DoneType, DoneFits, OneCallStep
<1>3. CASE keychain # 0
  <2> DEFINE call == [calls[c] EXCEPT !.at = "look", !.key = keychain]
  <2>1. call \in Call /\ call.at = "look"
      BY Before DEF Call
  <2>2. Set(c, call) /\ ref' = keychain /\ prompted' = TRUE /\ UNCHANGED phase
      BY <1>3 DEF PromptPassed
  <2> HIDE DEF call
  <2>3. FitsNext(call)
      BY <2>1, <2>2 DEF FitsNext
  <2>4. prompted' \in BOOLEAN
      BY <2>2, Zenon
  <2> QED
      BY <1>1, <2>1, <2>2, <2>3, <2>4, Before, StillShown, OneCallStep
<1> QED
    BY <1>2, <1>3

LEMMA PromptFailsKeepsIInv == ASSUME IInv, NEW c \in Calls, PromptFails(c) PROVE IInv'
<1>1. ShownWell
    BY NotUnlocked DEF PromptFails, Kinds
<1> QED
    BY <1>1, Before, DoneType, DoneFits, OneCallStep DEF PromptFails, End

LEMMA LookForCacheKeepsIInv == ASSUME IInv, NEW c \in Calls, LookForCache(c) PROVE IInv'
<1>1. /\ calls[c].at = "look" /\ prompted /\ calls[c].key \in 0 .. MaxKeys
      /\ UNCHANGED <<drive, keychain, ref, phase, cache, tmp, away, prompted, lost, spare>>
    BY Before DEF LookForCache, IInv, CallsFit, CallFits, Call
<1>2. CASE cache = NoFile
  <2>1. Set(c, Fetching(c, "unlock", calls[c].key, Blank))
      BY <1>2 DEF LookForCache
  <2>2. Fetching(c, "unlock", calls[c].key, Blank) \in Call
        /\ FitsNext(Fetching(c, "unlock", calls[c].key, Blank))
      BY <1>1, FetchingFits
  <2> QED
      BY <1>1, <2>1, <2>2, Before, StillShown, OneCallStep
<1>3. CASE cache # NoFile
  <2> DEFINE call == [calls[c] EXCEPT !.at = "read"]
  <2>1. call \in Call /\ call.at = "read" /\ Set(c, call)
      BY <1>3, Before DEF Call, LookForCache
  <2> HIDE DEF call
  <2>2. FitsNext(call)
      BY <1>1, <2>1 DEF FitsNext
  <2> QED
      BY <1>1, <2>1, <2>2, Before, StillShown, OneCallStep
<1> QED
    BY <1>2, <1>3

LEMMA ReadCacheKeepsIInv == ASSUME IInv, NEW c \in Calls, ReadCache(c) PROVE IInv'
<1>1. /\ calls[c].at = "read" /\ prompted /\ calls[c].key \in 0 .. MaxKeys
      /\ UNCHANGED <<drive, keychain, ref, cache, tmp, away, prompted, spare>>
    BY Before DEF ReadCache, IInv, CallsFit, CallFits, Call
<1>2. CASE lost' = TRUE /\ End(c) /\ UNCHANGED phase
  <2>1. lost' \in BOOLEAN
      BY <1>2, Zenon
  <2> QED
      BY <1>1, <1>2, <2>1, Before, DoneType, DoneFits, StillShown, OneCallStep DEF End
<1>3. CASE /\ cache \in Snapshot /\ phase' = FromCache(cache) /\ UNCHANGED lost
           /\ Set(c, Fetching(c, "refresh", calls[c].key, cache))
  <2>1. Fetching(c, "refresh", calls[c].key, cache) \in Call
        /\ FitsNext(Fetching(c, "refresh", calls[c].key, cache))
      BY <1>1, <1>3, FetchingFits
  <2>2. Showing("unlocked") \in Phase /\ Showing("unlocked").outcome = "none" /\ TRUE \in BOOLEAN
      BY ShowingType DEF Kinds
  <2>3. phase' \in Phase /\ phase'.outcome = "none" /\ phase'.refreshing
      BY <1>3, <2>2 DEF FromCache, Phase
  <2>4. ShownWell
      BY <1>1, <2>3 DEF ShownWell
  <2> QED
      BY <1>1, <1>3, <2>1, <2>4, Before, OneCallStep
<1>4. CASE Set(c, Fetching(c, "unlock", calls[c].key, Blank)) /\ UNCHANGED <<phase, lost>>
  <2>1. Fetching(c, "unlock", calls[c].key, Blank) \in Call
        /\ FitsNext(Fetching(c, "unlock", calls[c].key, Blank))
      BY <1>1, FetchingFits
  <2> QED
      BY <1>1, <1>4, <2>1, Before, StillShown, OneCallStep
<1> QED
    BY <1>2, <1>3, <1>4 DEF ReadCache

-----------------------------------------------------------------------------
(* refreshSnapshot, what is done with its result, and the cache.           *)

\* What is on Drive when a download ends is what it began with, or newer.
LEMMA DownloadKeepsIInv ==
    ASSUME IInv, NEW c \in Calls, Download(c) \/ DownloadFails(c) PROVE IInv'
<1>1. /\ calls[c].at = "fetch" /\ calls[c].began <= drive.revision /\ prompted
      /\ UNCHANGED <<drive, keychain, ref, phase, cache, tmp, away, prompted, lost>>
    BY DEF Download, DownloadFails, IInv, CallsFit, CallFits
<1>2. spare' \in 0 .. MaxSpare
    BY Before, BoundsAssumption DEF Download, DownloadFails, Failure
<1>3. PICK got \in {drive, Blank} : Set(c, [calls[c] EXCEPT !.at = "got", !.got = got])
    BY DEF Download, DownloadFails
<1> DEFINE call == [calls[c] EXCEPT !.at = "got", !.got = got]
<1>4. call \in Call /\ call.at = "got" /\ call.got = got /\ call.began = calls[c].began
    BY Before DEF Call
<1>5. Set(c, call)
    BY <1>3
<1> HIDE DEF call
<1>6. FitsNext(call)
    BY <1>1, <1>4 DEF FitsNext
<1> QED
    BY <1>1, <1>2, <1>4, <1>5, <1>6, Before, StillShown, OneCallStep

\* What is adopted is a snapshot, and what is shown as checked is as new as the check.
LEMMA AppliedIsGood ==
    ASSUME IInv, NEW c \in Calls, calls[c].at = "got"
    PROVE  /\ Adopts(calls[c]) => calls[c].got \in Snapshot
           /\ (phase' = AppliedRefresh(calls[c]) /\ UNCHANGED prompted) => ShownWell
<1>1. /\ calls[c].got \in Snapshot \cup {Blank} /\ calls[c].have \in Snapshot \cup {Blank}
      /\ calls[c].began \in 0 .. MaxRevision /\ prompted
      /\ calls[c].got # Blank => calls[c].began <= calls[c].got.revision
    BY Before DEF IInv, CallsFit, CallFits, Call
<1>2. calls[c].got.revision \in 0 .. MaxRevision /\ calls[c].have.revision \in 0 .. MaxRevision
      /\ Blank.revision = 0
    BY <1>1, SnapshotFacts
<1>3. Adopts(calls[c]) => calls[c].got \in Snapshot /\ calls[c].got # Blank
    BY <1>1, <1>2, BoundsAssumption DEF Adopts
<1>4. ASSUME phase' = AppliedRefresh(calls[c]), UNCHANGED prompted PROVE ShownWell
  <2>1. CASE Adopts(calls[c])
    <3>1. phase' = Unlocked(calls[c].got, "checked", calls[c].began)
        BY <1>4, <2>1 DEF AppliedRefresh
    <3> QED
        BY <1>1, <1>2, <1>3, <1>4, <2>1, <3>1, UnlockedType DEF ShownWell
  <2>2. CASE ~Adopts(calls[c]) /\ NoChange(calls[c])
    <3>1. phase' = Unlocked(calls[c].have, "checked", calls[c].began)
        BY <1>4, <2>2 DEF AppliedRefresh
    <3>2. calls[c].began <= calls[c].have.revision
        BY <1>1, <1>2, <2>2, BoundsAssumption DEF NoChange
    <3> QED
        BY <1>1, <1>2, <1>4, <3>1, <3>2, UnlockedType DEF ShownWell
  <2>3. CASE ~Adopts(calls[c]) /\ ~NoChange(calls[c])
    <3>1. phase' = Unlocked(calls[c].have, "failed", calls[c].began)
        BY <1>4, <2>3 DEF AppliedRefresh
    <3> QED
        BY <1>1, <1>4, <3>1, UnlockedType DEF ShownWell
  <2> QED
      BY <2>1, <2>2, <2>3
<1> QED
    BY <1>3, <1>4

LEMMA ResultKeepsIInv ==
    ASSUME IInv, NEW c \in Calls, ApplyRefreshResult(c) \/ FirstResult(c) PROVE IInv'
<1>1. /\ calls[c].at = "got" /\ prompted
      /\ calls[c].got # Blank => calls[c].began <= calls[c].got.revision
      /\ UNCHANGED <<drive, keychain, ref, cache, tmp, away, prompted, lost, spare>>
    BY DEF ApplyRefreshResult, FirstResult, IInv, CallsFit, CallFits
<1>2. ShownWell
  <2>1. phase' = AppliedRefresh(calls[c]) \/ phase' = phase \/ phase' = Showing("auth_failed")
      BY DEF ApplyRefreshResult, FirstResult
  <2> QED
      BY <1>1, <2>1, AppliedIsGood, NotUnlocked, StillShown DEF Kinds
<1>3. CASE Adopts(calls[c])
  <2> DEFINE call == [calls[c] EXCEPT !.at = "write"]
  <2>1. call \in Call /\ call.at = "write" /\ call.got = calls[c].got /\ call.began = calls[c].began
      BY Before DEF Call
  <2>2. Set(c, call)
      BY <1>3 DEF ApplyRefreshResult, FirstResult
  <2> HIDE DEF call
  <2>3. FitsNext(call)
      BY <1>1, <1>3, <2>1, AppliedIsGood DEF FitsNext
  <2> QED
      BY <1>1, <1>2, <2>1, <2>2, <2>3, Before, OneCallStep
<1>4. CASE ~Adopts(calls[c])
    BY <1>1, <1>2, <1>4, Before, DoneType, DoneFits, OneCallStep
       DEF ApplyRefreshResult, FirstResult, End
<1> QED
    BY <1>3, <1>4

\* The temporary file is written whole before the call goes on to move it.
LEMMA WriteTmpKeepsIInv == ASSUME IInv, NEW c \in Calls, WriteTmp(c) PROVE IInv'
<1> DEFINE call == [calls[c] EXCEPT !.at = "delete"]
<1>1. /\ calls[c].at = "write" /\ prompted /\ calls[c].got \in Snapshot /\ tmp' = calls[c].got
      /\ calls[c].got # Blank => calls[c].began <= calls[c].got.revision
      /\ UNCHANGED <<drive, keychain, ref, phase, cache, away, prompted, lost, spare>>
    BY DEF WriteTmp, IInv, CallsFit, CallFits
<1>2. call \in Call /\ call.at = "delete" /\ call.got = calls[c].got /\ call.began = calls[c].began
    BY Before DEF Call
<1>3. Set(c, call)
    BY DEF WriteTmp
<1> HIDE DEF call
<1>4. tmp' \in Files /\ tmp' # Torn
    BY <1>1, FilesAssumption DEF Files
<1>5. FitsNext(call)
    BY <1>1, <1>2, <1>4 DEF FitsNext
<1>6. Onward
    BY <1>1, <1>4, Before DEF Onward
<1> QED
    BY <1>1, <1>2, <1>3, <1>5, <1>6, Before, StillShown, CallSteps, StepIsGood

LEMMA DeleteOldKeepsIInv == ASSUME IInv, NEW c \in Calls, DeleteOld(c) PROVE IInv'
<1> DEFINE call == [calls[c] EXCEPT !.at = "move"]
<1>1. /\ calls[c].at = "delete" /\ prompted /\ calls[c].got \in Snapshot /\ tmp # Torn
      /\ calls[c].got # Blank => calls[c].began <= calls[c].got.revision
      /\ UNCHANGED <<drive, keychain, ref, phase, tmp, away, prompted, lost, spare>>
    BY DEF DeleteOld, IInv, CallsFit, CallFits
<1>2. call \in Call /\ call.at = "move" /\ call.got = calls[c].got /\ call.began = calls[c].began
    BY Before DEF Call
<1>3. Set(c, call)
    BY DEF DeleteOld
<1> HIDE DEF call
<1>4. FitsNext(call)
    BY <1>1, <1>2 DEF FitsNext
<1>5. cache' \in Files /\ cache' # Torn
    BY FilesAssumption DEF DeleteOld, Files
<1> QED
    BY <1>1, <1>2, <1>3, <1>4, <1>5, Before, StillOnward, StillShown, CallSteps, StepIsGood

LEMMA MoveIntoPlaceKeepsIInv == ASSUME IInv, NEW c \in Calls, MoveIntoPlace(c) PROVE IInv'
<1>1. /\ calls[c].at = "move" /\ prompted /\ calls[c].got \in Snapshot /\ tmp # Torn
      /\ calls[c].got # Blank => calls[c].began <= calls[c].got.revision
      /\ calls[c].began \in 0 .. MaxRevision
      /\ Set(c, Done)
      /\ UNCHANGED <<drive, keychain, ref, away, prompted, spare>>
    BY Before DEF MoveIntoPlace, End, IInv, CallsFit, CallFits, Call
<1>2. CASE tmp = NoFile
  <2>1. lost' \in BOOLEAN
      BY <1>2, Zenon DEF MoveIntoPlace
  <2>2. UNCHANGED <<phase, cache, tmp>>
      BY <1>2 DEF MoveIntoPlace
  <2> QED
      BY <1>1, <2>1, <2>2, Before, DoneType, DoneFits, StillShown, OneCallStep
<1>3. CASE tmp # NoFile
  <2>1. /\ cache' = tmp /\ tmp' = NoFile /\ UNCHANGED lost
        /\ phase' = phase \/ phase' = Unlocked(calls[c].got, "checked", calls[c].began)
      BY <1>3 DEF MoveIntoPlace
  <2>2. Onward
      BY <1>1, <2>1, Before, FilesAssumption DEF Onward, Files
  <2>3. ShownWell
    <3>1. CASE phase' = phase
        BY <1>1, <3>1, StillShown
    <3>2. CASE phase' = Unlocked(calls[c].got, "checked", calls[c].began)
        BY <1>1, <3>2, UnlockedType, SnapshotFacts DEF ShownWell
    <3> QED
        BY <2>1, <3>1, <3>2
  <2> QED
      BY <1>1, <2>1, <2>2, <2>3, Before, DoneType, DoneFits, CallSteps, StepIsGood
<1> QED
    BY <1>2, <1>3

-----------------------------------------------------------------------------
(* forgetDevice, after its begin.                                          *)

LEMMA ForgetStepsKeepIInv ==
    ASSUME IInv, NEW c \in Calls, ClearPairing(c) \/ ClearCachedFile(c) \/ ClearTmpFile(c)
    PROVE  IInv'
<1>1. prompted /\ calls[c] \in Call
    BY Before DEF ClearPairing, ClearCachedFile, ClearTmpFile, IInv, CallsFit, CallFits
<1>2. CASE ClearPairing(c)
  <2> DEFINE call == [calls[c] EXCEPT !.at = "uncache"]
  <2>1. call \in Call /\ call.at = "uncache" /\ Set(c, call) /\ keychain' \in 0 .. MaxKeys
      BY <1>1, <1>2, BoundsAssumption DEF Call, ClearPairing
  <2> HIDE DEF call
  <2>2. UNCHANGED <<drive, ref, phase, cache, tmp, away, prompted, lost, spare>>
      BY <1>2 DEF ClearPairing
  <2>3. FitsNext(call)
      BY <1>1, <2>1, <2>2 DEF FitsNext
  <2> QED
      BY <2>1, <2>2, <2>3, Before, StillShown, OneCallStep
<1>3. CASE ClearCachedFile(c)
  <2> DEFINE call == [calls[c] EXCEPT !.at = "untmp"]
  <2>1. call \in Call /\ call.at = "untmp" /\ Set(c, call)
      BY <1>1, <1>3 DEF Call, ClearCachedFile
  <2> HIDE DEF call
  <2>2. /\ UNCHANGED <<drive, keychain, ref, phase, tmp, away, prompted, lost, spare>>
        /\ cache' \in Files /\ cache' # Torn
      BY <1>3, FilesAssumption DEF ClearCachedFile, Files
  <2>3. FitsNext(call)
      BY <1>1, <2>1, <2>2 DEF FitsNext
  <2> QED
      BY <2>1, <2>2, <2>3, Before, StillOnward, StillShown, CallSteps, StepIsGood
<1>4. CASE ClearTmpFile(c)
  <2>1. /\ UNCHANGED <<drive, keychain, ref, cache, away, prompted, lost, spare>>
        /\ tmp' \in Files /\ tmp' # Torn /\ phase' = Showing("needs_pairing") /\ Set(c, Done)
      BY <1>4, FilesAssumption DEF ClearTmpFile, End, Files
  <2>2. Onward
      BY <2>1, Before DEF Onward
  <2>3. ShownWell
      BY <2>1, NotUnlocked DEF Kinds
  <2> QED
      BY <2>1, <2>2, <2>3, Before, DoneType, DoneFits, CallSteps, StepIsGood
<1> QED
    BY <1>2, <1>3, <1>4

-----------------------------------------------------------------------------
(* The theorems.                                                           *)

LEMMA CallStepKeepsIInv == ASSUME IInv, NEW c \in Calls, CallStep(c) PROVE IInv'
BY PromptPassedKeepsIInv, PromptFailsKeepsIInv, LookForCacheKeepsIInv, ReadCacheKeepsIInv,
   DownloadKeepsIInv, ResultKeepsIInv, WriteTmpKeepsIInv, DeleteOldKeepsIInv,
   MoveIntoPlaceKeepsIInv, ForgetStepsKeepIInv
   DEF CallStep

LEMMA StepKeepsIInv == IInv /\ [Next]_vars => IInv'
<1> SUFFICES ASSUME IInv, [Next]_vars PROVE IInv'
    OBVIOUS
<1>1. CASE UNCHANGED vars
  <2>1. Onward /\ ShownWell
      BY <1>1, StillOnward, StillShown DEF vars
  <2> QED
      BY <1>1, <2>1, Before, QuietStep DEF vars
<1>2. ASSUME NEW c \in Calls,
             Unlock(c) \/ CompletePairing(c) \/ RefreshNow(c) \/ ForgetDevice(c) \/ CallStep(c)
      PROVE  IInv'
    BY <1>2, UnlockKeepsIInv, CompletePairingKeepsIInv, RefreshNowKeepsIInv,
       ForgetDeviceKeepsIInv, CallStepKeepsIInv
<1> QED
    BY <1>1, <1>2, PublishKeepsIInv, LaunchKeepsIInv, KillKeepsIInv, ClearCacheKeepsIInv,
       AwayKeepsIInv DEF Next

\* In every reachable state of the phone app the invariant holds, for any number of
\* overlapping calls, kills and failures (PocketSessionProvider.tsx).
THEOREM PhoneInvariance == Spec => []IInv
BY InitIInv, StepKeepsIInv, PTL DEF Spec

\* A kill in the middle of saveCachedSnapshotFileAtomically never leaves half a file as
\* the cache, and nothing is shown before the biometric gate was passed.
THEOREM PhoneShowsWhatWasAskedFor == Spec => []PhoneInv
<1>1. IInv => PhoneInv
    BY DEF IInv, PhoneInv
<1> QED
    BY PhoneInvariance, <1>1, PTL

\* The banner is true: a snapshot that is shown as checked is as new as Drive was when
\* that check began, and one that is not checked is being refreshed.
THEOREM PhoneBannerIsTrue == Spec => []BannerIsTrue
<1>1. IInv => BannerIsTrue
    BY DEF IInv
<1> QED
    BY PhoneInvariance, <1>1, PTL

=============================================================================
