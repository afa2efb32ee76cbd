------------------------- MODULE ConfigReloadProofs -------------------------
(***************************************************************************)
(* Proofs about ConfigReload for any number of saves and any notice queue. *)
(*                                                                         *)
(* A label is a version that was published, and what is published has been *)
(* installed: so a reader that takes the version first can be behind the   *)
(* store but never ahead of it, and a new version is larger than every     *)
(* label.  That versions stay in their range rests on counting: a reload   *)
(* takes an event, and an event takes a save.                              *)
(***************************************************************************)
EXTENDS ConfigReload, TLAPS

LabelsBehind ==
    /\ published <= config.version
    /\ patterns.version # NoVersion => patterns.version <= published
    /\ patterns.at = "fetch" => patterns.read <= published

\* The reload that is under way and has not been installed.
underway == IF thread \in {"debounce", "load", "install"} THEN 1 ELSE 0

ReloadsCounted == config.version + events + underway <= file.edit

IInv == ReloadTypeOK /\ LabelsBehind /\ ReloadsCounted /\ PatternsAreCurrent

-----------------------------------------------------------------------------
LEMMA StartsCurrent == ReloadInit => IInv
<1> SUFFICES ASSUME ReloadInit PROVE IInv
    OBVIOUS
<1> USE EditsAssumption, NoticeAssumption
<1>1. notices \in Seq(Files) /\ Len(notices) <= NoticeCap
    BY DEF ReloadInit
<1>2. ReloadTypeOK
    BY <1>1 DEF ReloadInit, ReloadTypeOK, Files, Contents, Versions, NoVersion
<1>3. LabelsBehind /\ ReloadsCounted /\ PatternsAreCurrent
    BY DEF ReloadInit, LabelsBehind, ReloadsCounted, underway, PatternsAreCurrent, NoVersion
<1> QED
    BY <1>2, <1>3 DEF IInv

\* queue_reload_notice keeps the queue within its limit.
LEMMA QueuedFits ==
    ASSUME NEW n \in Files, notices \in Seq(Files), Len(notices) <= NoticeCap
    PROVE  Queued(n) \in Seq(Files) /\ Len(Queued(n)) <= NoticeCap
<1>1. NoticeCap \in Nat \ {0}
    BY NoticeAssumption
<1>2. CASE Len(notices) >= NoticeCap
    <2>1. notices # <<>> /\ Tail(notices) \in Seq(Files) /\ Len(Tail(notices)) = Len(notices) - 1
        BY <1>1, <1>2
    <2> QED
        BY <1>1, <1>2, <2>1 DEF Queued
<1>3. CASE ~(Len(notices) >= NoticeCap)
    BY <1>1, <1>3 DEF Queued
<1> QED
    BY <1>2, <1>3

LEMMA LastIsElement == ASSUME NEW S, NEW s \in Seq(S), s # <<>> PROVE Last(s) \in S
<1>1. Len(s) \in 1 .. Len(s)
    OBVIOUS
<1> QED
    BY <1>1 DEF Last

LEMMA TypeStep == ReloadTypeOK /\ ReloadsCounted /\ [ReloadNext]_reloadVars => ReloadTypeOK'
<1> SUFFICES ASSUME ReloadTypeOK, ReloadsCounted, [ReloadNext]_reloadVars PROVE ReloadTypeOK'
    OBVIOUS
<1> USE EditsAssumption
    DEF ReloadTypeOK, Files, Contents, Versions, watchVars, storeVars
<1>1. CASE UNCHANGED reloadVars
    BY <1>1 DEF reloadVars
<1>2. ASSUME NEW ok \in BOOLEAN, Save(ok) PROVE ReloadTypeOK'
    BY <1>2, SMTT(20) DEF Save, ReloadsCounted, underway
<1>3. CASE StartWatch
    BY <1>3 DEF StartWatch
<1>4. CASE Receive
    BY <1>4 DEF Receive
<1>5. CASE Settle \/ Load
    BY <1>5 DEF Settle, Load
<1>6. CASE Install
    <2>1. config.version + 1 <= file.edit
        BY <1>6 DEF Install, ReloadsCounted, underway
    <2> QED
        BY <1>6, <2>1 DEF Install
<1>7. CASE Publish
    BY <1>7 DEF Publish
<1>8. CASE Tell
    <2>1. [edit |-> loaded.edit, ok |-> loaded.ok] \in Files
        OBVIOUS
    <2>2. notices' \in Seq(Files) /\ Len(notices') <= NoticeCap
        BY <1>8, <2>1, QueuedFits DEF Tell
    <2> QED
        BY <1>8, <2>2 DEF Tell
<1>9. CASE TakeNotices
    <2>1. notices # <<>> /\ notices \in Seq(Files)
        BY <1>9 DEF TakeNotices
    <2>2. Last(notices) \in Files
        BY <2>1, LastIsElement
    <2>3. <<>> \in Seq(Files) /\ Len(<<>>) <= NoticeCap
        BY NoticeAssumption
    <2> QED
        BY <1>9, <2>2, <2>3 DEF TakeNotices
<1>10. CASE Overlay
    BY <1>10, ZenonT(30) DEF Overlay, ReadRules, LabelRules
<1>11. CASE LogWorker
    BY <1>11, ZenonT(30) DEF LogWorker, ReadVersion, FetchPatterns
<1> QED
    BY <1>1, <1>2, <1>3, <1>4, <1>5, <1>6, <1>7, <1>8, <1>9, <1>10, <1>11 DEF ReloadNext, WatcherThread

LEMMA CountStep == ReloadTypeOK /\ ReloadsCounted /\ [ReloadNext]_reloadVars => ReloadsCounted'
<1> SUFFICES ASSUME ReloadTypeOK, ReloadsCounted, [ReloadNext]_reloadVars PROVE ReloadsCounted'
    OBVIOUS
<1> USE EditsAssumption
    DEF ReloadTypeOK, Files, Contents, Versions, ReloadsCounted, underway, watchVars, storeVars
<1>1. ASSUME NEW ok \in BOOLEAN, Save(ok) PROVE ReloadsCounted'
    BY <1>1, SMTT(20) DEF Save
<1>2. CASE Receive
    BY <1>2 DEF Receive
<1>3. CASE Settle \/ Load
    BY <1>3, SMTT(20) DEF Settle, Load
<1>4. CASE Install
    BY <1>4 DEF Install
<1>5. CASE Publish \/ Tell
    BY <1>5 DEF Publish, Tell
<1>6. CASE StartWatch \/ TakeNotices \/ Overlay \/ LogWorker \/ UNCHANGED reloadVars
    BY <1>6 DEF StartWatch, TakeNotices, Overlay, ReadRules, LabelRules, LogWorker,
                ReadVersion, FetchPatterns, reloadVars
<1> QED
    BY <1>1, <1>2, <1>3, <1>4, <1>5, <1>6 DEF ReloadNext, WatcherThread

LEMMA LabelStep == ReloadTypeOK /\ LabelsBehind /\ [ReloadNext]_reloadVars => LabelsBehind'
<1> SUFFICES ASSUME ReloadTypeOK, LabelsBehind, [ReloadNext]_reloadVars PROVE LabelsBehind'
    OBVIOUS
<1> USE EditsAssumption
    DEF ReloadTypeOK, Contents, Versions, NoVersion, LabelsBehind, watchVars, storeVars
<1>1. CASE Install
    BY <1>1 DEF Install
<1>2. CASE Publish
    BY <1>2 DEF Publish
<1>3. CASE ReadVersion
    BY <1>3 DEF ReadVersion
<1>4. CASE FetchPatterns
    BY <1>4 DEF FetchPatterns
<1>5. CASE ~(Install \/ Publish \/ LogWorker)
    BY <1>5 DEF ReloadNext, Save, StartWatch, WatcherThread, Receive, Settle, Load, Tell, TakeNotices,
                Overlay, ReadRules, LabelRules, reloadVars
<1> QED
    BY <1>1, <1>2, <1>3, <1>4, <1>5 DEF LogWorker

LEMMA CurrentStep ==
    ReloadTypeOK /\ ReloadTypeOK' /\ LabelsBehind /\ PatternsAreCurrent /\ [ReloadNext]_reloadVars => PatternsAreCurrent'
<1> SUFFICES ASSUME ReloadTypeOK, ReloadTypeOK', LabelsBehind, PatternsAreCurrent, [ReloadNext]_reloadVars
             PROVE  PatternsAreCurrent'
    OBVIOUS
<1> USE EditsAssumption
    DEF ReloadTypeOK, Contents, Versions, NoVersion, PatternsAreCurrent, LabelsBehind, watchVars,
        storeVars
<1>1. CASE Install
    BY <1>1 DEF Install
<1>2. CASE LogWorker
    BY <1>2, ZenonT(30) DEF LogWorker, ReadVersion, FetchPatterns
<1>3. CASE ~(Install \/ LogWorker)
    BY <1>3 DEF ReloadNext, Save, StartWatch, WatcherThread, Receive, Settle, Load, Publish, Tell,
                TakeNotices, Overlay, ReadRules, LabelRules, reloadVars
<1> QED
    BY <1>1, <1>2, <1>3

LEMMA AlwaysCurrent == ReloadSpec => []IInv
<1>1. IInv /\ [ReloadNext]_reloadVars => IInv'
    BY TypeStep, CountStep, LabelStep, CurrentStep DEF IInv
<1> QED
    BY <1>1, StartsCurrent, PTL DEF ReloadSpec

-----------------------------------------------------------------------------
\* The store, the queue and the readers stay within their types: there are
\* never more versions than saves, nor more notices than the queue holds.
THEOREM ReloadTypeCorrect == ReloadSpec => []ReloadTypeOK
<1>1. IInv => ReloadTypeOK
    BY DEF IInv
<1> QED
    BY <1>1, AlwaysCurrent, PTL

\* ensure_secret_patterns_loaded: secret patterns that carry the version of
\* the configuration are the patterns of that configuration.
THEOREM RedactionIsCurrent == ReloadSpec => []PatternsAreCurrent
<1>1. IInv => PatternsAreCurrent
    BY DEF IInv
<1> QED
    BY <1>1, AlwaysCurrent, PTL
=============================================================================
