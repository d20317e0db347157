---------------------------- MODULE PocketSyncProofs ----------------------------
(***************************************************************************)
(* Proofs about PocketSync when every call belongs to one process.  With   *)
(* two processes the properties are false, so the theorems have that as a  *)
(* hypothesis.                                                             *)
(***************************************************************************)
EXTENDS PocketSync, TLAPS

\* All calls are of one process, which lets them take turns.
SingleProcess == \A r, s \in Requests : Proc[r] = Proc[s]

-----------------------------------------------------------------------------
(* The inductive invariant.                                                *)

\* The process lock admits one call at a time.
OneCall ==
    \A r, s \in Requests : pub[r].at # "idle" /\ pub[s].at # "idle" => r = s

\* Nothing exists before Pocket is configured.
NothingYet ==
    ~pocket.configured =>
       /\ pocket.changeSeq = 0 /\ pocket.publishedSeq = 0 /\ pocket.confirmed = 0
       /\ ~pocket.dirtySince /\ ~torn
       /\ dek = 0 /\ qr = 0 /\ drive = Nothing
       /\ \A r \in Requests : pub[r].at = "idle"

\* A change is an edit or a revocation, and each publish but the spare ones has a
\* change of its own: this bounds sequences and revisions.
Sequences ==
    /\ pocket.publishedSeq <= pocket.changeSeq
    /\ pocket.confirmed <= pocket.publishedSeq + 1 + spare
    /\ pocket.configured => dek >= 1 /\ pocket.changeSeq + 2 <= content + dek

\* No copy is newer than the vault.
NoFutureVersions ==
    /\ counted <= content
    /\ drive.version <= content /\ phone.version <= content

\* What a call in progress still knows about the state it has read.
CallFits(r) ==
    /\ pub[r].at \in {"started", "attempted", "uploading", "moved"} => pub[r].file.key = dek
    /\ pub[r].at = "started" => Dirty \/ pocket.confirmed <= pocket.publishedSeq + spare
    /\ pub[r].at \in {"attempted", "uploading", "moved"} =>
          /\ pocket.publishedSeq <= pub[r].seq /\ pub[r].seq <= pocket.changeSeq
          /\ pub[r].file.revision <= pub[r].seq + 1 + spare
    /\ pub[r].at \in {"uploading", "moved"} =>
          /\ drive.version <= pub[r].file.version /\ pub[r].file.version <= content
          /\ pub[r].seq = pocket.changeSeq => pub[r].file.version >= counted
    /\ pub[r].at = "moved" => drive = pub[r].file
    /\ pub[r].at = "rotated" => torn /\ pocket.changeSeq + 3 <= content + dek

CallsFit == \A r \in Requests : CallFits(r)

Book == NothingYet /\ Sequences /\ NoFutureVersions
Calls == OneCall /\ CallsFit
Promise == SweepSeesDirty /\ CleanIsPublished /\ RevokedSeesNothingNew

IInv == TypeOK /\ Book /\ Calls /\ Promise

-----------------------------------------------------------------------------
(* Calls.                                                                  *)

Call == [at : {"idle", "started", "attempted", "uploading", "moved", "rotated"},
         why : {"publish", "pair"}, seq : 0 .. MaxSeq, file : File]

LEMMA Bounds ==
    /\ MaxVersion \in Nat \ {0} /\ MaxKeys \in Nat \ {0} /\ MaxSpare \in Nat
    /\ MaxSeq \in Nat /\ MaxRevision \in Nat
    /\ MaxSeq = MaxVersion + MaxKeys /\ MaxRevision = MaxSeq + MaxSpare + 1
BY BoundsAssumption DEF MaxSeq, MaxRevision

LEMMA EmptyTypes == Nothing \in File /\ Idle \in Call /\ Idle.at = "idle"
<1>1. Nothing \in File
    BY Bounds DEF Nothing, File
<1> QED
    BY <1>1, Bounds DEF Idle, Call

Row == [configured : BOOLEAN, enabled : BOOLEAN, changeSeq : 0 .. MaxSeq,
        publishedSeq : -1 .. MaxSeq, dirtySince : BOOLEAN, confirmed : 0 .. MaxRevision]

\* A step of one call while the others are idle: the others need no look.
LEMMA OneCallSteps ==
    ASSUME TypeOK, NEW r \in Requests, \A s \in Requests : s # r => pub[s].at = "idle",
           NEW c \in Call, pub' = [pub EXCEPT ![r] = c],
           c.at # "idle" => CallFits(r)'
    PROVE  /\ pub' \in [Requests -> Call] /\ Calls'
           /\ c.at = "idle" => \A s \in Requests : pub'[s].at = "idle"
<1>1. pub \in [Requests -> Call]
    BY DEF TypeOK, Call
<1>2. pub' \in [Requests -> Call] /\ pub'[r] = c /\ \A s \in Requests : s # r => pub'[s] = pub[s]
    BY <1>1
<1>3. OneCall'
    BY <1>2 DEF OneCall
<1>4. ASSUME NEW s \in Requests, pub'[s].at = "idle" PROVE CallFits(s)'
    BY <1>4 DEF CallFits
<1>5. CallsFit'
    BY <1>2, <1>4 DEF CallsFit
<1> QED
    BY <1>2, <1>3, <1>5 DEF Calls

\* A call that waits for its turn finds every call idle.
LEMMA TurnMeansAllIdle ==
    ASSUME SingleProcess, NEW r \in Requests, MyTurn(r)
    PROVE  \A s \in Requests : pub[s].at = "idle"
BY DEF SingleProcess, MyTurn

\* If no call has begun, calls fit whatever else changes.
LEMMA IdleCallsFit ==
    ASSUME \A s \in Requests : pub'[s].at = "idle"
    PROVE  Calls'
BY DEF Calls, OneCall, CallsFit, CallFits

-----------------------------------------------------------------------------
LEMMA InitIInv == Init => IInv
<1> SUFFICES ASSUME Init PROVE IInv
    OBVIOUS
<1>1. TypeOK
  <2>1. pub \in [Requests -> Call]
      BY EmptyTypes DEF Init
  <2>2. pocket \in Row
      BY Bounds DEF Init, Row
  <2>3. content \in Versions /\ counted \in Versions /\ spare \in 0 .. MaxSpare
      BY Bounds DEF Init, Versions
  <2>4. dek \in 0 .. MaxKeys /\ qr \in 0 .. MaxKeys /\ drive \in File /\ phone \in File
      BY Bounds, EmptyTypes DEF Init
  <2>5. sealed \in [Keys -> 0 .. MaxVersion]
      BY Bounds DEF Init
  <2>6. torn \in BOOLEAN
      BY Zenon DEF Init
  <2> QED
      BY <2>1, <2>2, <2>3, <2>4, <2>5, <2>6 DEF TypeOK, Call, Row
<1>2. Calls
    BY EmptyTypes DEF Init, Calls, OneCall, CallsFit, CallFits
<1>3. Book
    BY EmptyTypes, Bounds DEF Init, Book, NothingYet, Sequences, NoFutureVersions, Nothing
<1>4. Promise
    BY DEF Init, Promise, SweepSeesDirty, CleanIsPublished, RevokedSeesNothingNew, Dirty, Nothing
<1> QED
    BY <1>1, <1>2, <1>3, <1>4 DEF IInv

-----------------------------------------------------------------------------
(* The vault and the settings.                                             *)

LEMMA EditKeepsIInv == ASSUME IInv, Edit PROVE IInv'
<1>1. TypeOK'
  <2>1. pocket \in Row /\ content \in Versions /\ dek \in 0 .. MaxKeys
      BY DEF IInv, TypeOK, Row
  <2>2. pocket.configured => pocket.changeSeq + 1 \in 0 .. MaxSeq
      BY <2>1, Bounds DEF Edit, IInv, Book, Sequences, Versions, Row
  <2>3. (pocket.dirtySince \/ pocket.changeSeq = pocket.publishedSeq) \in BOOLEAN
      BY <2>1 DEF Row
  <2>4. pocket' \in Row
      BY <2>1, <2>2, <2>3 DEF Edit, Row
  <2>5. content' \in Versions /\ counted' \in Versions
      BY <2>1, Bounds DEF Edit, Versions
  <2> QED
      BY <2>4, <2>5 DEF Edit, IInv, TypeOK, Row
<1>2. Book'
    BY Bounds DEF Edit, IInv, TypeOK, Book, NothingYet, Sequences, NoFutureVersions, Versions, File
<1>3. Calls'
    BY Bounds DEF Edit, IInv, TypeOK, Book, Sequences, NothingYet, NoFutureVersions, Calls,
        OneCall, CallsFit, CallFits, Dirty, Versions, File
<1>4. Promise'
    BY Bounds DEF Edit, IInv, TypeOK, Book, Sequences, NothingYet, Promise, Dirty,
        SweepSeesDirty, CleanIsPublished, RevokedSeesNothingNew, Versions
<1> QED
    BY <1>1, <1>2, <1>3, <1>4 DEF IInv

LEMMA ClearSecretKeepsIInv == ASSUME IInv, ClearSecret PROVE IInv'
<1>1. TypeOK'
    BY Bounds DEF ClearSecret, IInv, TypeOK, Versions
<1>2. Book'
    BY Bounds DEF ClearSecret, IInv, TypeOK, Book, NothingYet, Sequences, NoFutureVersions, Versions, File
<1>3. Calls'
    BY Bounds DEF ClearSecret, IInv, TypeOK, Calls, OneCall, CallsFit, CallFits, Dirty, Versions, File
<1>4. Promise'
    BY DEF ClearSecret, IInv, Promise, Dirty, SweepSeesDirty, CleanIsPublished, RevokedSeesNothingNew
<1> QED
    BY <1>1, <1>2, <1>3, <1>4 DEF IInv

LEMMA ConfigureKeepsIInv == ASSUME IInv, Configure PROVE IInv'
<1>1. TypeOK'
  <2>1. pocket \in Row
      BY DEF IInv, TypeOK, Row
  <2>2. pocket' \in Row
    <3>1. -1 \in -1 .. MaxSeq /\ TRUE \in BOOLEAN
        BY Bounds
    <3> QED
        BY <2>1, <3>1 DEF Configure, Row
  <2>3. dek' \in 0 .. MaxKeys
      BY Bounds DEF Configure
  <2> QED
      BY <2>2, <2>3 DEF Configure, IInv, TypeOK, Row
<1>2. Book'
    BY Bounds DEF Configure, IInv, TypeOK, Book, NothingYet, Sequences, NoFutureVersions, Versions
<1>3. Calls'
    BY IdleCallsFit DEF Configure, IInv, Book, NothingYet
<1>4. Promise'
    BY DEF Configure, IInv, TypeOK, Book, NothingYet, Promise, Dirty, SweepSeesDirty,
        CleanIsPublished, RevokedSeesNothingNew
<1> QED
    BY <1>1, <1>2, <1>3, <1>4 DEF IInv

LEMMA SetEnabledKeepsIInv == ASSUME IInv, SetEnabled PROVE IInv'
<1>1. TypeOK'
    BY DEF SetEnabled, IInv, TypeOK
<1>2. Book'
    BY DEF SetEnabled, IInv, TypeOK, Book, NothingYet, Sequences, NoFutureVersions
<1>3. Calls'
    BY DEF SetEnabled, IInv, TypeOK, Calls, OneCall, CallsFit, CallFits, Dirty
<1>4. Promise'
    BY DEF SetEnabled, IInv, TypeOK, Promise, Dirty, SweepSeesDirty, CleanIsPublished,
        RevokedSeesNothingNew
<1> QED
    BY <1>1, <1>2, <1>3, <1>4 DEF IInv

-----------------------------------------------------------------------------
(* Publishing.                                                             *)

\* The parts that a step of a call leaves alone when it changes only the call itself.
Shared == <<content, counted, pocket, dek, drive, qr, phone, sealed, torn>>

LEMMA CallStepKeepsRest ==
    ASSUME IInv, UNCHANGED Shared, spare' \in 0 .. MaxSpare, spare' >= spare,
           pub' \in [Requests -> Call],
           ~pocket.configured => \A r \in Requests : pub'[r].at = "idle"
    PROVE  TypeOK' /\ Book' /\ Promise'
<1>1. TypeOK'
    BY DEF Shared, IInv, TypeOK, Call
<1>2. Book'
    BY Bounds DEF Shared, IInv, TypeOK, Book, NothingYet, Sequences, NoFutureVersions
<1>3. Promise'
    BY DEF Shared, IInv, Promise, Dirty, SweepSeesDirty, CleanIsPublished, RevokedSeesNothingNew
<1> QED
    BY <1>1, <1>2, <1>3

LEMMA StartKeepsIInv ==
    ASSUME SingleProcess, IInv, NEW r \in Requests, NEW why \in {"publish", "pair"},
           Start(r, why),
           spare' \in 0 .. MaxSpare, spare' >= spare, Dirty \/ spare' = spare + 1
    PROVE  IInv'
<1> DEFINE c == [Idle EXCEPT !.at = "started", !.why = why, !.file.key = dek]
<1>1. c \in Call /\ c.at = "started" /\ c.file.key = dek
  <2>1. Idle \in Call /\ Idle.file \in File
      BY EmptyTypes DEF Call
  <2>2. [Idle.file EXCEPT !.key = dek] \in File /\ [Idle.file EXCEPT !.key = dek].key = dek
      BY <2>1 DEF IInv, TypeOK, File
  <2>3. c = [Idle EXCEPT !.at = "started", !.why = why, !.file = [Idle.file EXCEPT !.key = dek]]
      BY DEF Idle
  <2> QED
      BY <2>1, <2>2, <2>3 DEF Call
<1>2. pub' = [pub EXCEPT ![r] = c] /\ pocket.configured /\ UNCHANGED Shared
    BY DEF Start, Shared
<1>3. \A s \in Requests : pub[s].at = "idle"
    BY TurnMeansAllIdle DEF Start
<1> HIDE DEF c
<1>4. pub'[r] = c
    BY <1>2 DEF IInv, TypeOK
<1>5. CallFits(r)'
    BY <1>1, <1>2, <1>4, Bounds DEF IInv, Book, Sequences, TypeOK, CallFits, Shared, Dirty
<1>6. pub' \in [Requests -> Call] /\ Calls'
    BY <1>1, <1>2, <1>3, <1>5, OneCallSteps DEF IInv
<1> QED
    BY <1>2, <1>6, CallStepKeepsRest DEF IInv

LEMMA BeginKeepsIInv ==
    ASSUME IInv, NEW r \in Requests, BeginPublishAttempt(r) PROVE IInv'
<1> DEFINE c == [pub[r] EXCEPT !.at = "attempted", !.seq = pocket.changeSeq,
                               !.file.revision = pocket.confirmed + 1]
<1>1. pub[r] \in Call /\ pub \in [Requests -> Call] /\ pub[r].at = "started"
    BY DEF BeginPublishAttempt, IInv, TypeOK, Call
<1>2. pocket.confirmed + 1 <= pocket.changeSeq + 1 + spare /\ pocket.confirmed + 1 \in 0 .. MaxRevision
    BY <1>1, Bounds DEF IInv, TypeOK, Calls, CallsFit, CallFits, Book, Sequences, Dirty
<1>3. /\ c \in Call /\ c.at = "attempted" /\ c.file.key = pub[r].file.key
      /\ c.seq = pocket.changeSeq /\ c.file.revision = pocket.confirmed + 1
    BY <1>1, <1>2 DEF IInv, TypeOK, Call, File
<1>4. pub' = [pub EXCEPT ![r] = c] /\ UNCHANGED Shared /\ spare' = spare
    BY <1>1 DEF BeginPublishAttempt, Shared, Call, File
<1>5. \A s \in Requests : s # r => pub[s].at = "idle"
    BY <1>1 DEF IInv, Calls, OneCall
<1> HIDE DEF c
<1>6. pub'[r] = c /\ pocket.configured
    BY <1>1, <1>4 DEF IInv, Book, NothingYet
<1>7. CallFits(r)'
    BY <1>1, <1>2, <1>3, <1>4, <1>6, Bounds
       DEF IInv, Book, Sequences, TypeOK, Calls, CallsFit, CallFits, Shared
<1>8. pub' \in [Requests -> Call] /\ Calls'
    BY <1>3, <1>4, <1>5, <1>7, OneCallSteps DEF IInv
<1>9. spare' \in 0 .. MaxSpare /\ spare' >= spare
    BY <1>4 DEF IInv, TypeOK
<1> QED
    BY <1>4, <1>6, <1>8, <1>9, CallStepKeepsRest DEF IInv

LEMMA BuildKeepsIInv ==
    ASSUME IInv, NEW r \in Requests, BuildSnapshot(r) PROVE IInv'
<1> DEFINE c == [pub[r] EXCEPT !.at = "uploading", !.file.version = content]
<1>1. /\ pub[r] \in Call /\ pub \in [Requests -> Call] /\ pub[r].at = "attempted"
      /\ content \in 0 .. MaxVersion
    BY Bounds DEF BuildSnapshot, IInv, TypeOK, Call, Versions
<1>2. /\ c \in Call /\ c.at = "uploading" /\ c.seq = pub[r].seq /\ c.file.key = pub[r].file.key
      /\ c.file.revision = pub[r].file.revision /\ c.file.version = content
    BY <1>1 DEF Call, File
<1>3. pub' = [pub EXCEPT ![r] = c] /\ UNCHANGED Shared /\ spare' = spare
    BY <1>1 DEF BuildSnapshot, Shared, Call, File
<1>4. \A s \in Requests : s # r => pub[s].at = "idle"
    BY <1>1 DEF IInv, Calls, OneCall
<1> HIDE DEF c
<1>5. pub'[r] = c /\ pocket.configured
    BY <1>1, <1>3 DEF IInv, Book, NothingYet
<1>6. CallFits(r)'
    BY <1>1, <1>2, <1>3, <1>5, Bounds
       DEF IInv, Book, NoFutureVersions, TypeOK, Versions, File, Calls, CallsFit, CallFits, Shared
<1>7. pub' \in [Requests -> Call] /\ Calls'
    BY <1>2, <1>3, <1>4, <1>6, OneCallSteps DEF IInv
<1>8. spare' \in 0 .. MaxSpare /\ spare' >= spare
    BY <1>3 DEF IInv, TypeOK
<1> QED
    BY <1>3, <1>5, <1>7, <1>8, CallStepKeepsRest DEF IInv

LEMMA MoveKeepsIInv ==
    ASSUME IInv, NEW r \in Requests, MoveTo(r) PROVE IInv'
<1> DEFINE c == [pub[r] EXCEPT !.at = "moved"]
<1>1. pub[r] \in Call /\ pub \in [Requests -> Call] /\ pub[r].at = "uploading"
    BY DEF MoveTo, IInv, TypeOK, Call
<1>2. c \in Call /\ c.at = "moved" /\ c.seq = pub[r].seq /\ c.file = pub[r].file
    BY <1>1 DEF Call
<1>3. pub' = [pub EXCEPT ![r] = c] /\ drive' = pub[r].file
    BY <1>1 DEF MoveTo, Call
<1>4. UNCHANGED <<content, counted, pocket, dek, qr, phone, sealed, torn, spare>>
    BY DEF MoveTo
<1>5. \A s \in Requests : s # r => pub[s].at = "idle"
    BY <1>1 DEF IInv, Calls, OneCall
<1> HIDE DEF c
<1>6. pub'[r] = c /\ pocket.configured
    BY <1>1, <1>3 DEF IInv, Book, NothingYet
<1>7. /\ pub[r].file \in File /\ pub[r].file.key = dek /\ pub[r].file.version <= content
      /\ drive.version <= pub[r].file.version
      /\ pub[r].seq = pocket.changeSeq => pub[r].file.version >= counted
      /\ pocket.publishedSeq <= pub[r].seq /\ pub[r].seq <= pocket.changeSeq
    BY <1>1 DEF IInv, Calls, CallsFit, CallFits, Call
<1>8. CallFits(r)'
    BY <1>1, <1>2, <1>3, <1>4, <1>6, Bounds
       DEF IInv, TypeOK, File, Call, Versions, Calls, CallsFit, CallFits
<1>9. pub' \in [Requests -> Call] /\ Calls'
    BY <1>2, <1>3, <1>5, <1>8, OneCallSteps DEF IInv
<1>10. TypeOK'
    BY <1>3, <1>4, <1>7, <1>9 DEF IInv, TypeOK, Call
<1>11. Book'
    BY <1>3, <1>4, <1>6, <1>7 DEF IInv, Book, NothingYet, Sequences, NoFutureVersions
<1>12. Promise'
  <2>1. SweepSeesDirty'
      BY <1>4 DEF IInv, Promise, SweepSeesDirty, Dirty
  <2>2. CleanIsPublished'
      BY <1>1, <1>3, <1>4, <1>7 DEF IInv, Promise, CleanIsPublished, Dirty, TypeOK, Call
  <2>3. RevokedSeesNothingNew'
      BY <1>3, <1>4, <1>7, Bounds DEF IInv, Promise, RevokedSeesNothingNew, TypeOK
  <2> QED
      BY <2>1, <2>2, <2>3 DEF Promise
<1> QED
    BY <1>9, <1>10, <1>11, <1>12 DEF IInv

\* A publish that is confirmed counts what had changed when it began.
LEMMA ConfirmKeepsIInv ==
    ASSUME IInv, NEW r \in Requests, ConfirmPublish(r) PROVE IInv'
<1>1. /\ pub[r] \in Call /\ pub \in [Requests -> Call] /\ pub[r].at = "moved"
      /\ pocket \in Row /\ pocket.configured
    BY DEF ConfirmPublish, IInv, TypeOK, Call, Row, Book, NothingYet
<1>2. /\ pub[r].seq \in 0 .. MaxSeq /\ pub[r].file \in File /\ drive = pub[r].file
      /\ pub[r].file.revision \in 0 .. MaxRevision
      /\ pub[r].file.key = dek
      /\ pub[r].file.revision <= pub[r].seq + 1 + spare
      /\ pub[r].seq = pocket.changeSeq => drive.version >= counted
      /\ pocket.publishedSeq <= pub[r].seq /\ pub[r].seq <= pocket.changeSeq
    BY <1>1 DEF IInv, Calls, CallsFit, CallFits, Call, File
<1>3. /\ pocket' \in Row /\ pocket'.configured
      /\ pocket'.changeSeq = pocket.changeSeq /\ pocket'.publishedSeq = pub[r].seq
      /\ pocket'.confirmed = pub[r].file.revision
      /\ pocket'.dirtySince = (pocket.dirtySince /\ pocket.changeSeq > pub[r].seq)
  <2>1. (pocket.dirtySince /\ pocket.changeSeq > pub[r].seq) \in BOOLEAN
      BY <1>1 DEF Row
  <2>2. pub[r].seq \in -1 .. MaxSeq
      BY <1>2, Bounds
  <2> QED
      BY <1>1, <1>2, <2>1, <2>2 DEF ConfirmPublish, Published, Row
<1>4. pub' = [pub EXCEPT ![r] = Idle] /\ qr' \in {qr, dek}
      /\ UNCHANGED <<content, counted, dek, drive, phone, sealed, torn, spare>>
    BY DEF ConfirmPublish
<1>5. \A s \in Requests : s # r => pub[s].at = "idle"
    BY <1>1 DEF IInv, Calls, OneCall
<1>6. pub' \in [Requests -> Call] /\ Calls'
    BY <1>4, <1>5, EmptyTypes, OneCallSteps DEF IInv
<1>7. TypeOK'
    BY <1>3, <1>4, <1>6 DEF IInv, TypeOK, Call, Row
<1>8. Book'
    BY <1>1, <1>2, <1>3, <1>4 DEF IInv, TypeOK, Book, NothingYet, Sequences, NoFutureVersions
<1>9. Promise'
  <2>1. SweepSeesDirty'
      BY <1>1, <1>2, <1>3 DEF IInv, Promise, SweepSeesDirty, Dirty, Row
  <2>2. CleanIsPublished'
      BY <1>1, <1>2, <1>3, <1>4 DEF CleanIsPublished, Dirty, Row
  <2>3. RevokedSeesNothingNew'
      BY <1>4 DEF IInv, Promise, RevokedSeesNothingNew
  <2> QED
      BY <2>1, <2>2, <2>3 DEF Promise
<1> QED
    BY <1>6, <1>7, <1>8, <1>9 DEF IInv

\* A call that fails, or dies, changes nothing but itself.
LEMMA EndKeepsIInv ==
    ASSUME IInv, UNCHANGED Shared, spare' = spare + 1, spare < MaxSpare,
           NEW r \in Requests, pub[r].at # "idle",
           pub' \in [Requests -> Call], \A s \in Requests : pub'[s] \in {pub[s], Idle},
           pub'[r] = Idle
    PROVE  IInv'
<1>1. \A s \in Requests : pub'[s].at = "idle"
    BY EmptyTypes DEF IInv, Calls, OneCall
<1>2. Calls'
    BY <1>1, IdleCallsFit
<1>3. spare' \in 0 .. MaxSpare /\ spare' >= spare
    BY Bounds DEF IInv, TypeOK
<1> QED
    BY <1>1, <1>2, <1>3, CallStepKeepsRest DEF IInv

LEMMA PublishFailsKeepsIInv ==
    ASSUME IInv, NEW r \in Requests, PublishFails(r) PROVE IInv'
<1>1. pub \in [Requests -> Call] /\ pub[r].at # "idle"
    BY DEF PublishFails, IInv, TypeOK, Call
<1>2. /\ pub' \in [Requests -> Call] /\ \A s \in Requests : pub'[s] \in {pub[s], Idle}
      /\ pub'[r] = Idle
    BY <1>1, EmptyTypes DEF PublishFails
<1>3. UNCHANGED Shared /\ spare' = spare + 1 /\ spare < MaxSpare
    BY DEF PublishFails, Shared
<1> QED
    BY <1>1, <1>2, <1>3, EndKeepsIInv

LEMMA CrashKeepsIInv ==
    ASSUME IInv, NEW r \in Requests, Crash(r) PROVE IInv'
<1>1. pub \in [Requests -> Call] /\ pub[r].at # "idle"
    BY DEF Crash, IInv, TypeOK, Call
<1>2. /\ pub' \in [Requests -> Call] /\ \A s \in Requests : pub'[s] \in {pub[s], Idle}
      /\ pub'[r] = Idle
    BY <1>1, EmptyTypes DEF Crash
<1>3. UNCHANGED Shared /\ spare' = spare + 1 /\ spare < MaxSpare
    BY DEF Crash, Shared
<1> QED
    BY <1>1, <1>2, <1>3, EndKeepsIInv

-----------------------------------------------------------------------------
(* Pairing and revoking.                                                   *)

LEMMA RotateKeepsIInv ==
    ASSUME SingleProcess, IInv, NEW r \in Requests, RotateKey(r) PROVE IInv'
<1> DEFINE c == [pub[r] EXCEPT !.at = "rotated"]
<1>1. /\ pub \in [Requests -> Call] /\ pub[r] \in Call /\ pocket.configured
      /\ dek \in Keys /\ dek' = dek + 1 /\ dek' \in 0 .. MaxKeys /\ content \in 0 .. MaxVersion
  <2>1. pub \in [Requests -> Call] /\ pocket.configured /\ dek < MaxKeys /\ dek' = dek + 1
      BY DEF RotateKey, IInv, TypeOK, Call
  <2>2. dek \in 0 .. MaxKeys /\ dek >= 1 /\ content \in Versions
      BY <2>1 DEF IInv, TypeOK, Book, Sequences
  <2> QED
      BY <2>1, <2>2, Bounds DEF Keys, Versions
<1>2. c \in Call /\ c.at = "rotated"
    BY <1>1 DEF Call
<1>3. pub' = [pub EXCEPT ![r] = c]
    BY <1>1 DEF RotateKey, Call
<1>4. /\ UNCHANGED <<content, counted, pocket, drive, qr, phone, spare>>
      /\ torn' = TRUE /\ sealed' = [sealed EXCEPT ![dek] = content]
    BY DEF RotateKey
<1>5. \A s \in Requests : s # r => pub[s].at = "idle"
    BY TurnMeansAllIdle DEF RotateKey
<1> HIDE DEF c
<1>6. pub'[r] = c
    BY <1>1, <1>3
<1>7. CallFits(r)'
    BY <1>1, <1>2, <1>4, <1>6 DEF IInv, TypeOK, Versions, Book, Sequences, CallFits
<1>8. pub' \in [Requests -> Call] /\ Calls'
    BY <1>2, <1>3, <1>5, <1>7, OneCallSteps DEF IInv
<1>9. TypeOK'
    BY <1>1, <1>4, <1>8 DEF IInv, TypeOK, Call
<1>10. Book'
    BY <1>1, <1>4 DEF IInv, TypeOK, Versions, Book, NothingYet, Sequences, NoFutureVersions
<1>11. Promise'
  <2>1. SweepSeesDirty' /\ CleanIsPublished'
      BY <1>4 DEF IInv, Promise, SweepSeesDirty, CleanIsPublished, Dirty
  <2>2. RevokedSeesNothingNew'
    <3>1. ASSUME NEW file \in {drive, phone}, file.key \in 1 .. dek' - 1
          PROVE  file.version <= sealed'[file.key]
      <4>1. CASE file.key = dek
          BY <1>1, <1>4, <4>1 DEF IInv, TypeOK, Book, NoFutureVersions
      <4>2. CASE file.key # dek
        <5>1. file.key \in 1 .. dek - 1 /\ sealed'[file.key] = sealed[file.key]
            BY <1>1, <1>4, <3>1, <4>2, Bounds DEF IInv, TypeOK, Keys
        <5> QED
            BY <5>1 DEF IInv, Promise, RevokedSeesNothingNew
      <4> QED
          BY <4>1, <4>2
    <3> QED
        BY <1>4, <3>1 DEF RevokedSeesNothingNew
  <2> QED
      BY <2>1, <2>2 DEF Promise
<1> QED
    BY <1>8, <1>9, <1>10, <1>11 DEF IInv

LEMMA RecordKeepsIInv ==
    ASSUME IInv, NEW r \in Requests, RecordRevocation(r) PROVE IInv'
<1>1. /\ pub \in [Requests -> Call] /\ pub[r].at = "rotated" /\ pocket \in Row
      /\ pocket.configured
    BY DEF RecordRevocation, IInv, TypeOK, Call, Row, Book, NothingYet
<1>2. pocket.changeSeq + 3 <= content + dek
    BY <1>1 DEF IInv, Calls, CallsFit, CallFits
<1>3. /\ pocket' \in Row /\ pocket'.configured
      /\ pocket'.changeSeq = pocket.changeSeq + 1 /\ pocket'.publishedSeq = pocket.publishedSeq
      /\ pocket'.confirmed = pocket.confirmed /\ pocket'.dirtySince
  <2>1. pocket.changeSeq + 1 \in 0 .. MaxSeq /\ TRUE \in BOOLEAN
      BY <1>1, <1>2, Bounds DEF IInv, TypeOK, Versions, Row
  <2> QED
      BY <1>1, <2>1 DEF RecordRevocation, Row
<1>4. /\ pub' = [pub EXCEPT ![r] = Idle] /\ torn' = FALSE
      /\ UNCHANGED <<content, counted, dek, drive, qr, phone, sealed, spare>>
    BY DEF RecordRevocation
<1>5. \A s \in Requests : s # r => pub[s].at = "idle"
    BY <1>1 DEF IInv, Calls, OneCall
<1>6. pub' \in [Requests -> Call] /\ Calls'
    BY <1>4, <1>5, EmptyTypes, OneCallSteps DEF IInv
<1>7. torn' \in BOOLEAN
    BY <1>4, Zenon
<1>8. TypeOK'
    BY <1>3, <1>4, <1>6, <1>7 DEF IInv, TypeOK, Call, Row
<1>9. Book'
    BY <1>1, <1>2, <1>3, <1>4
       DEF IInv, TypeOK, Versions, Row, Book, NothingYet, Sequences, NoFutureVersions
<1>10. Promise'
    BY <1>1, <1>3, <1>4 DEF IInv, Book, Sequences, Promise, SweepSeesDirty, CleanIsPublished,
        RevokedSeesNothingNew, Dirty, Row
<1> QED
    BY <1>6, <1>8, <1>9, <1>10 DEF IInv

\* What only makes a code, or only the phone does, leaves the rest as it is.
LEMMA OutsideKeepsIInv ==
    ASSUME IInv, UNCHANGED <<content, counted, pocket, dek, drive, pub, sealed, torn, spare>>,
           qr' \in 0 .. MaxKeys, ~pocket.configured => qr' = 0,
           phone' \in File, phone'.version <= content,
           phone'.key \in 1 .. dek - 1 => phone'.version <= sealed[phone'.key]
    PROVE  IInv'
<1>1. TypeOK'
    BY DEF IInv, TypeOK
<1>2. Book'
    BY DEF IInv, Book, NothingYet, Sequences, NoFutureVersions
<1>3. Calls'
    BY DEF IInv, Calls, OneCall, CallsFit, CallFits, Dirty
<1>4. Promise'
    BY DEF IInv, Promise, SweepSeesDirty, CleanIsPublished, RevokedSeesNothingNew, Dirty
<1> QED
    BY <1>1, <1>2, <1>3, <1>4 DEF IInv

LEMMA PairKeepsIInv == ASSUME IInv, Pair PROVE IInv'
BY OutsideKeepsIInv DEF Pair, IInv, TypeOK, Book, NoFutureVersions, Promise, RevokedSeesNothingNew

LEMMA EmptyPhone ==
    ASSUME IInv, NEW k \in 0 .. MaxKeys
    PROVE  LET empty == [Nothing EXCEPT !.key = k]
           IN  /\ empty \in File /\ empty.version = 0 /\ 0 <= content
               /\ empty.key \in 1 .. dek - 1 => 0 <= sealed[empty.key]
<1>1. [Nothing EXCEPT !.key = k] \in File /\ [Nothing EXCEPT !.key = k].version = 0
    BY Bounds DEF Nothing, File
<1>2. 0 <= content
    BY DEF IInv, TypeOK, Versions
<1>3. \A j \in 1 .. dek - 1 : 0 <= sealed[j]
    BY Bounds DEF IInv, TypeOK, Keys
<1> QED
    BY <1>1, <1>2, <1>3

LEMMA ScanKeepsIInv == ASSUME IInv, Scan PROVE IInv'
<1>1. qr \in 0 .. MaxKeys /\ (~pocket.configured => qr' = 0)
    BY DEF Scan, IInv, TypeOK, Book, NothingYet
<1>2. phone' = [Nothing EXCEPT !.key = qr] /\ qr' = qr
      /\ UNCHANGED <<content, counted, pocket, dek, drive, pub, sealed, torn, spare>>
    BY DEF Scan
<1> QED
    BY <1>1, <1>2, EmptyPhone, OutsideKeepsIInv

LEMMA ForgetKeepsIInv == ASSUME IInv, Forget PROVE IInv'
<1>1. qr \in 0 .. MaxKeys /\ (~pocket.configured => qr' = 0)
    BY DEF Forget, IInv, TypeOK, Book, NothingYet
<1>2. phone' = [Nothing EXCEPT !.key = 0] /\ qr' = qr
      /\ UNCHANGED <<content, counted, pocket, dek, drive, pub, sealed, torn, spare>>
    BY DEF Forget, Nothing
<1>3. 0 \in 0 .. MaxKeys
    BY Bounds
<1> QED
    BY <1>1, <1>2, <1>3, EmptyPhone, OutsideKeepsIInv

LEMMA RefreshKeepsIInv == ASSUME IInv, Refresh PROVE IInv'
<1>1. /\ phone' = drive /\ drive \in File /\ drive.version <= content
      /\ drive.key \in 1 .. dek - 1 => drive.version <= sealed[drive.key]
    BY DEF Refresh, IInv, TypeOK, Book, NoFutureVersions, Promise, RevokedSeesNothingNew
<1>2. qr' = qr /\ qr \in 0 .. MaxKeys /\ (~pocket.configured => qr' = 0)
      /\ UNCHANGED <<content, counted, pocket, dek, drive, pub, sealed, torn, spare>>
    BY DEF Refresh, IInv, TypeOK, Book, NothingYet
<1> QED
    BY <1>1, <1>2, OutsideKeepsIInv

-----------------------------------------------------------------------------
(* All steps.                                                              *)

LEMMA RequestsKeepIInv ==
    ASSUME SingleProcess, IInv, NEW r \in Requests, Request(r) \/ ForcePublish(r) \/ Sweep(r)
    PROVE  IInv'
<1>1. spare \in 0 .. MaxSpare
    BY DEF IInv, TypeOK
<1>2. CASE Request(r)
  <2>1. PICK why \in {"publish", "pair"} : Start(r, why)
      BY <1>2 DEF Request
  <2> QED
      BY <1>1, <1>2, <2>1, StartKeepsIInv DEF Request
<1>3. CASE ForcePublish(r)
    BY <1>1, <1>3, Bounds, StartKeepsIInv DEF ForcePublish
<1>4. CASE Sweep(r)
    BY <1>1, <1>4, StartKeepsIInv DEF Sweep
<1> QED
    BY <1>2, <1>3, <1>4

LEMMA StepKeepsIInv == ASSUME SingleProcess, IInv, [Next]_vars PROVE IInv'
<1>1. CASE UNCHANGED vars
    BY <1>1 DEF vars, IInv, TypeOK, Book, NothingYet, Sequences, NoFutureVersions, Calls, OneCall,
        CallsFit, CallFits, Promise, SweepSeesDirty, CleanIsPublished, RevokedSeesNothingNew, Dirty
<1>2. CASE Edit \/ ClearSecret \/ Configure \/ SetEnabled \/ Pair \/ Scan \/ Forget \/ Refresh
    BY <1>2, EditKeepsIInv, ClearSecretKeepsIInv, ConfigureKeepsIInv, SetEnabledKeepsIInv,
       PairKeepsIInv, ScanKeepsIInv, ForgetKeepsIInv, RefreshKeepsIInv
<1>3. ASSUME NEW r \in Requests, Request(r) \/ ForcePublish(r) \/ Sweep(r) PROVE IInv'
    BY <1>3, RequestsKeepIInv
<1>4. ASSUME NEW r \in Requests, PublishStep(r) PROVE IInv'
    BY <1>4, BeginKeepsIInv, BuildKeepsIInv, MoveKeepsIInv, ConfirmKeepsIInv,
       PublishFailsKeepsIInv, RecordKeepsIInv DEF PublishStep
<1>5. ASSUME NEW r \in Requests, RotateKey(r) \/ Crash(r) PROVE IInv'
    BY <1>5, RotateKeepsIInv, CrashKeepsIInv
<1> QED
    BY <1>1, <1>2, <1>3, <1>4, <1>5 DEF Next

-----------------------------------------------------------------------------
(* The theorems.                                                           *)

\* Whatever fails or crashes between the two halves of a publish or a revocation, the
\* pocket_state row, the calls in progress and the file on Drive stay consistent
\* (runPocketPublish.ts).
THEOREM PocketInvariance == ASSUME SingleProcess PROVE Spec => []IInv
<1>1. IInv /\ [Next]_vars => IInv'
    BY StepKeepsIInv
<1> QED
    BY InitIInv, <1>1, PTL DEF Spec

\* Sequences and revisions keep their types, and the debounce sweep, which looks at
\* dirty_since, sees whatever waits.
THEOREM SweepSeesWhatWaits == ASSUME SingleProcess PROVE Spec => []PocketInv
<1>1. IInv => PocketInv
    BY DEF IInv, Promise, PocketInv
<1> QED
    BY PocketInvariance, <1>1, PTL

\* While the row says that all is published, every counted change is in the file on
\* Drive, under the current key unless a revocation was cut short.
THEOREM CleanMeansPublished == ASSUME SingleProcess PROVE Spec => []CleanIsPublished
<1>1. IInv => CleanIsPublished
    BY DEF IInv, Promise
<1> QED
    BY PocketInvariance, <1>1, PTL

\* A phone that was revoked never sees a version that is newer than its revocation,
\* not even from a publish that a revocation interrupts.
THEOREM RevocationHolds == ASSUME SingleProcess PROVE Spec => []RevokedSeesNothingNew
<1>1. IInv => RevokedSeesNothingNew
    BY DEF IInv, Promise
<1> QED
    BY PocketInvariance, <1>1, PTL

\* A new pairing code carries the key of the file that is on Drive, because the
\* publish that precedes it has just been moved there (POST /pocket/pairing, pocket:pair).
THEOREM CodesOpenTheFile == ASSUME SingleProcess PROVE Spec => CodeOpensFile
<1> DEFINE Opens == qr' # qr /\ pocket.enabled /\ ~torn => drive.key = qr'
<1>1. ASSUME IInv, Next PROVE Opens
  <2>1. ASSUME NEW r \in Requests, ConfirmPublish(r) PROVE Opens
    <3>1. pub[r].at = "moved" /\ qr' \in {qr, dek}
        BY <2>1 DEF ConfirmPublish
    <3>2. drive.key = dek
        BY <1>1, <3>1 DEF IInv, Calls, CallsFit, CallFits
    <3> QED
        BY <3>1, <3>2
  <2>2. CASE Pair
    <3>1. pocket.configured /\ qr' = dek /\ (pocket.enabled => ~Dirty)
        BY <2>2 DEF Pair
    <3> QED
        BY <1>1, <3>1 DEF IInv, Promise, CleanIsPublished
  <2>3. ASSUME NEW r \in Requests, PublishStep(r), ~ConfirmPublish(r) PROVE qr' = qr
      BY <2>3 DEF PublishStep, BeginPublishAttempt, BuildSnapshot, MoveTo, PublishFails,
          RecordRevocation
  <2>4. ASSUME NEW r \in Requests,
               \/ Request(r) \/ ForcePublish(r) \/ Sweep(r) \/ RotateKey(r) \/ Crash(r)
        PROVE  qr' = qr
      BY <2>4 DEF Request, ForcePublish, Sweep, Start, RotateKey, Crash
  <2>5. Edit \/ ClearSecret \/ Configure \/ SetEnabled \/ Scan \/ Forget \/ Refresh => qr' = qr
      BY DEF Edit, ClearSecret, Configure, SetEnabled, Scan, Forget, Refresh
  <2> QED
      BY <1>1, <2>1, <2>2, <2>3, <2>4, <2>5 DEF Next
<1>2. IInv /\ [Next]_vars => [Opens]_vars
    BY <1>1
<1> QED
    BY PocketInvariance, <1>2, PTL DEF Spec, CodeOpensFile

-----------------------------------------------------------------------------
(* PocketSync implements Mirror: a step of the desktop, of Drive or of the *)
(* phone is an edit, a publication, a view, or nothing at all.             *)

LEMMA MirrorInit == Init => M!Init
BY DEF Init, M!Init, Nothing

LEMMA MirrorStep ==
    ASSUME IInv, Next
    PROVE  M!Edit \/ M!Publish \/ M!View \/ UNCHANGED <<content, drive.version, phone.version>>
<1>1. ASSUME Edit \/ ClearSecret PROVE M!Edit
    BY <1>1 DEF Edit, ClearSecret, M!Edit
<1>2. ASSUME NEW r \in Requests, MoveTo(r) PROVE M!Publish
  <2>1. /\ drive' = pub[r].file /\ content' = content /\ phone' = phone
        /\ drive.version <= pub[r].file.version /\ pub[r].file.version <= content
      BY <1>2 DEF MoveTo, IInv, Calls, CallsFit, CallFits
  <2>2. pub[r].file.version \in Int /\ drive.version \in Int /\ content \in Int
      BY Bounds DEF IInv, TypeOK, File, Versions
  <2> QED
      BY <2>1, <2>2 DEF M!Publish
<1>3. ASSUME Refresh PROVE M!View
    BY <1>3 DEF Refresh, M!View
<1>4. ASSUME Scan \/ Forget PROVE M!View
    BY <1>4 DEF Scan, Forget, M!View, Nothing
<1>5. ASSUME NEW r \in Requests, PublishStep(r), ~MoveTo(r)
      PROVE  UNCHANGED <<content, drive, phone>>
    BY <1>5 DEF PublishStep, BeginPublishAttempt, BuildSnapshot, ConfirmPublish, PublishFails,
        RecordRevocation
<1>6. ASSUME NEW r \in Requests,
             \/ Request(r) \/ ForcePublish(r) \/ Sweep(r) \/ RotateKey(r) \/ Crash(r)
      PROVE  UNCHANGED <<content, drive, phone>>
    BY <1>6 DEF Request, ForcePublish, Sweep, Start, RotateKey, Crash
<1>7. Configure \/ SetEnabled \/ Pair => UNCHANGED <<content, drive, phone>>
    BY DEF Configure, SetEnabled, Pair
<1> QED
    BY <1>1, <1>2, <1>3, <1>4, <1>5, <1>6, <1>7 DEF Next

\* However publishes, failures and revocations meet, the file on Drive only moves
\* forward and the phone shows a version that was published.
THEOREM PocketImplementsMirror == ASSUME SingleProcess PROVE Spec => FollowsForward
<1>1. IInv /\ [Next]_vars
      => [M!Edit \/ M!Publish \/ M!View]_<<content, drive.version, phone.version>>
    BY MirrorStep DEF vars
<1> QED
    BY PocketInvariance, MirrorInit, <1>1, PTL DEF Spec, FollowsForward, M!Spec

=============================================================================
