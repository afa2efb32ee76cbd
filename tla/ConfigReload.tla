---------------------------- MODULE ConfigReload ----------------------------
(***************************************************************************)
(* Hot reload of the active configuration in a direct SSH session: the     *)
(* watcher of config/watcher.rs, the store and its version counter         *)
(* (config/loader.rs, config/mod.rs), and the three readers that share     *)
(* them without a common lock:                                             *)
(*                                                                         *)
(*   overlay   HighlightOverlayEngine::reload_rules                        *)
(*             (terminal/highlight_overlay.rs), on the main thread         *)
(*   patterns  ensure_secret_patterns_loaded (log/ssh.rs), on the log      *)
(*             worker's thread                                             *)
(*   told      take_latest_reload_notice_toast (process/pty_runtime.rs)    *)
(*                                                                         *)
(* The content of the configuration is the number of the edit that wrote   *)
(* it.                                                                     *)
(***************************************************************************)
EXTENDS Naturals, Sequences, SequencesExt

CONSTANTS
    NoticeCap,  \* MAX_PENDING_RELOAD_NOTICES
    MaxEdits    \* bound: saves of the configuration file

ASSUME NoticeAssumption == NoticeCap \in Nat \ {0}
ASSUME EditsAssumption == MaxEdits \in Nat

VARIABLES
    file,       \* the configuration file: the number of its edit, and whether it parses
    since,      \* the edit that was current when the watch began; none is larger before
    events,     \* ActiveConfig events on their way to the watcher thread
    thread,     \* where the watcher thread is
    loaded,     \* the file as ConfigLoader::load_config read it
    config,     \* the shared Config: its content and metadata.version
    published,  \* CONFIG_VERSION
    notices,    \* RELOAD_NOTICE_QUEUE: whether each reload succeeded
    told,       \* the reload notice on the screen
    overlay,    \* the overlay's rules, the version they are labelled with, and its step
    patterns    \* the worker's patterns, their label, its step and the version it read

watchVars == <<since, events, thread, loaded>>
storeVars == <<config, published>>
reloadVars == <<file, watchVars, storeVars, notices, told, overlay, patterns>>

NoVersion == MaxEdits + 1
Watching == since <= MaxEdits

-----------------------------------------------------------------------------
(* The user saves the file, whole or in part; the watch begins some time   *)
(* after the configuration was first loaded.                               *)

Save(ok) ==
    /\ file.edit < MaxEdits
    /\ file' = [edit |-> file.edit + 1, ok |-> ok]
    /\ events' = IF Watching THEN events + 1 ELSE events
    /\ UNCHANGED <<since, thread, loaded, storeVars, notices, told, overlay, patterns>>

\* config_watcher_with_scope
StartWatch ==
    /\ ~Watching
    /\ since' = file.edit
    /\ UNCHANGED <<file, events, thread, loaded, storeVars, notices, told, overlay, patterns>>

-----------------------------------------------------------------------------
(* The watcher thread *)

\* rx.recv(), and then rx.recv_timeout() until nothing has come for a while.
Receive ==
    /\ thread \in {"idle", "debounce"} /\ events > 0
    /\ events' = events - 1
    /\ thread' = "debounce"
    /\ UNCHANGED <<file, since, loaded, storeVars, notices, told, overlay, patterns>>

\* The burst is over: reload_config, as far as load_config.
Settle ==
    /\ thread = "debounce" /\ events = 0
    /\ thread' = "load"
    /\ UNCHANGED <<file, since, events, loaded, storeVars, notices, told, overlay, patterns>>

Load ==
    /\ thread = "load"
    /\ loaded' = file
    /\ thread' = IF file.ok THEN "install" ELSE "tell"
    /\ UNCHANGED <<file, since, events, storeVars, notices, told, overlay, patterns>>

\* Faulty variant: the version is not bumped.
Install_SameVersion ==
    /\ thread = "install"
    /\ config' = [edit |-> loaded.edit, version |-> config.version]
    /\ thread' = "publish"
    /\ UNCHANGED <<file, since, events, loaded, published, notices, told, overlay, patterns>>

\* reload_config under the write lock.
Install ==
    /\ thread = "install"
    /\ config' = [edit |-> loaded.edit, version |-> config.version + 1]
    /\ thread' = "publish"
    /\ UNCHANGED <<file, since, events, loaded, published, notices, told, overlay, patterns>>

\* Faulty variant: the version stays in the store.
Publish_Skipped ==
    /\ thread = "publish"
    /\ thread' = "tell"
    /\ UNCHANGED <<file, since, events, loaded, storeVars, notices, told, overlay, patterns>>

\* set_config_version
Publish ==
    /\ thread = "publish"
    /\ published' = config.version
    /\ thread' = "tell"
    /\ UNCHANGED <<file, since, events, loaded, config, notices, told, overlay, patterns>>

\* Faulty variant: a full queue keeps its oldest notices.
Queued_OldestKept(n) == IF Len(notices) >= NoticeCap THEN notices ELSE Append(notices, n)

\* queue_reload_notice: a full queue gives up its oldest.
Queued(n) == Append(IF Len(notices) >= NoticeCap THEN Tail(notices) ELSE notices, n)

\* Faulty variant: events that came during the reload are taken to be its own.
Tell_Drains ==
    /\ thread = "tell"
    /\ notices' = Queued([edit |-> loaded.edit, ok |-> loaded.ok])
    /\ thread' = "idle"
    /\ events' = 0
    /\ UNCHANGED <<file, since, loaded, storeVars, told, overlay, patterns>>

\* emit_reload_notice
Tell ==
    /\ thread = "tell"
    /\ notices' = Queued([edit |-> loaded.edit, ok |-> loaded.ok])
    /\ thread' = "idle"
    /\ UNCHANGED <<file, since, events, loaded, storeVars, told, overlay, patterns>>

WatcherThread == Receive \/ Settle \/ Load \/ Install \/ Publish \/ Tell

-----------------------------------------------------------------------------
(* The readers *)

\* take_latest_reload_notice_toast
TakeNotices ==
    /\ notices # <<>>
    /\ told' = Last(notices)
    /\ notices' = <<>>
    /\ UNCHANGED <<file, watchVars, storeVars, overlay, patterns>>

\* refresh_rules_if_needed, then the rules, under the read lock ...
ReadRules ==
    /\ overlay.at = "new" \/ (overlay.at = "idle" /\ overlay.version # published)
    /\ overlay' = [overlay EXCEPT !.edit = config.edit, !.at = "label"]
    /\ UNCHANGED <<file, watchVars, storeVars, notices, told, patterns>>

\* ... and the version that is current by now.
LabelRules ==
    /\ overlay.at = "label"
    /\ overlay' = [overlay EXCEPT !.version = published, !.at = "idle"]
    /\ UNCHANGED <<file, watchVars, storeVars, notices, told, patterns>>

Overlay == ReadRules \/ LabelRules

\* ensure_secret_patterns_loaded: the version first ...
ReadVersion ==
    /\ patterns.at = "idle" /\ patterns.version # published
    /\ patterns' = [patterns EXCEPT !.read = published, !.at = "fetch"]
    /\ UNCHANGED <<file, watchVars, storeVars, notices, told, overlay>>

\* ... then the patterns, labelled with it.
FetchPatterns ==
    /\ patterns.at = "fetch"
    /\ patterns' = [patterns EXCEPT !.edit = config.edit, !.version = patterns.read, !.at = "idle"]
    /\ UNCHANGED <<file, watchVars, storeVars, notices, told, overlay>>

LogWorker == ReadVersion \/ FetchPatterns

-----------------------------------------------------------------------------
ReloadInit ==
    /\ file = [edit |-> 0, ok |-> TRUE]
    /\ since = MaxEdits + 1
    /\ events = 0
    /\ thread = "idle"
    /\ loaded = file
    /\ config = [edit |-> 0, version |-> 0]
    /\ published = 0
    /\ notices = <<>>
    /\ told = file
    /\ overlay = [edit |-> 0, version |-> 0, at |-> "new"]
    /\ patterns = [edit |-> 0, version |-> NoVersion, at |-> "idle", read |-> 0]

ReloadNext ==
    \/ \E ok \in BOOLEAN : Save(ok)
    \/ StartWatch \/ WatcherThread \/ TakeNotices \/ Overlay \/ LogWorker

ReloadSpec == ReloadInit /\ [][ReloadNext]_reloadVars

\* The watcher thread runs, the session draws and logs; the user saves or not.
ReloadFairSpec ==
    /\ ReloadSpec
    /\ WF_reloadVars(WatcherThread) /\ WF_reloadVars(TakeNotices)
    /\ WF_reloadVars(Overlay) /\ WF_reloadVars(LogWorker)

-----------------------------------------------------------------------------
(* Properties *)

Contents == 0 .. MaxEdits
Files == [edit : Contents, ok : BOOLEAN]
Versions == 0 .. MaxEdits

ReloadTypeOK ==
    /\ file \in Files /\ loaded \in Files /\ told \in Files
    /\ since \in Contents \cup {MaxEdits + 1}
    /\ events \in 0 .. MaxEdits
    /\ thread \in {"idle", "debounce", "load", "install", "publish", "tell"}
    /\ config \in [edit : Contents, version : Versions]
    /\ published \in Versions
    /\ notices \in Seq(Files) /\ Len(notices) <= NoticeCap
    /\ overlay \in [edit : Contents, version : Versions, at : {"new", "idle", "label"}]
    /\ patterns \in [edit : Contents, version : Versions \cup {NoVersion},
                      at : {"idle", "fetch"}, read : Versions]

\* Patterns that carry the version of the configuration are its patterns: the
\* log worker never takes secrets for redacted by a list that has been replaced.
PatternsAreCurrent ==
    patterns.version = config.version => patterns.edit = config.edit

\* "Bump config version so active workers can detect reload": rules that carry
\* the version of the configuration are its rules.
RulesAreCurrent ==
    overlay.at = "idle" /\ overlay.version = config.version => overlay.edit = config.edit

\* A save made under the watch is loaded, when it parses, however it falls
\* between the events of a burst and a reload that is under way.
SavesAreLoaded ==
    \A n \in 1 .. MaxEdits :
        file = [edit |-> n, ok |-> TRUE] /\ since < n ~> file.edit # n \/ config.edit = n

\* The user is told about the last save, whether it parsed or not, even when
\* the notices overflow.
OutcomeIsTold ==
    \A n \in 1 .. MaxEdits :
        file.edit = n /\ since < n ~> file.edit # n \/ told = file

\* A reload reaches the log worker: it redacts with the new patterns.
ReloadsReachWorker ==
    \A n \in Contents : config.edit = n ~> config.edit # n \/ patterns.edit = n
=============================================================================
