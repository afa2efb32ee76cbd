# color-ssh, specified

TLA+ modules, TLC runs and TLAPS proofs about `cossh`, the SSH and RDP wrapper of
this repository. Paths below are relative to the repository root. `PROJECT.json`
lists components, runs, mutants, findings, hazards, theorems, and for each
definition the lines it models.

## The system

| component | state it keeps | operations | hard because |
|---|---|---|---|
| Unlock agent (`src/auth/agent`) | the data key, two timestamps, the timeout policy, askpass leases | status, unlock, lock, entry status, authorize, get secret | expiry, several clients, clients that die or stall, one thread with a blocking read |
| Agent endpoint (`src/auth/ipc.rs`) | the socket file and who listens on it; the last status event | bind, test a conflict, remove a stale file, clean up, send, answer, broadcast | several processes start, exit and are killed; each step is a system call |
| Vault store (`src/auth/vault.rs`) | `vault.json` with the wrapped key, one file per entry | initialize, unlock, rotate, store, read, remove, list | several commands at once, crashes between write and rename |
| Vault commands (`src/auth/cli.rs`, `transport.rs`, `prompt.rs`, `secret.rs`) | none | `cossh vault ...`, the internal askpass | rotation has to end sessions it cannot see |
| Direct PTY runtime (`src/process/pty_runtime.rs`, `pty_output.rs`, `src/terminal/session.rs`) | child, bounded event queue, exit status, grace period | read output, wait for the exit, drain, draw, write input, terminate | three threads, a bounded queue, a mutex held during `wait` |
| Configuration (`src/config`) | the shared `Config` and its version, notices, profile events | load, watch, reload, notify | readers combine two pieces of state without one lock |
| Highlight overlay (`src/terminal/highlight_overlay.rs`) | rules, row cache, suppression | refresh rules, analyse rows | caches keyed by version, epoch and row |
| Session log (`src/log`) | queue to a worker, line buffer, writer, last error | log, flush | bounded queue, acknowledgement, errors told later |
| Terminal engine and views (`src/terminal`) | emulator, scrollback, render epoch | process output, resize, select, encode input | mostly an external crate |
| Tabs and captured sessions (`src/tui/features/terminal_session`, `terminal_tabs`, `src/tui/state/tabs.rs`) | tabs, selected tab, sessions, snapshots | launch, reconnect, close, move | threads of a closed session; indices kept across a modal |
| Unlock and credential prompts (`src/tui/state/vault.rs`, `rdp_prompt.rs`) | the open modal and the action it will resume | open, submit, cancel | the world changes while a modal is open |
| Inventory (`src/inventory`) | a tree of YAML files with includes | load, watch, edit, move, migrate | include cycles, plans that go stale, edits that race |
| TUI state and loop (`src/tui/app`, `src/tui/state/app`) | host tree, watchers | reload, rebuild, event loop | a reload while a modal or a drag is active |
| Host browser, folder picker, host editor, quick connect, text fields, terminal search | selection, expansion, cursor | keys and mouse | indices into lists that change |
| Command builders (`src/process/ssh_builder.rs`, `rdp_builder.rs`, `vault.rs`, `src/args/ssh.rs`) | none of their own | extend ssh's command line, fetch a password | options in many forms; several calls to an agent that others use |
| SSH configuration reader, start-up, platform, rendering | none of their own | pure functions and I/O | parsing |

Who talks to whom: commands and the TUI call the agent over a local socket (one
connection per call) and start it when nobody answers; the agent and the commands
share the vault's files; OpenSSH calls back into `cossh` for an askpass, which
redeems a token at the agent. A direct session starts a reader and an exit
watcher that send to one bounded queue, and the reader hands chunks to the log
worker's queue. The configuration watcher replaces the shared `Config`; the
overlay on the main thread and the log worker see it by its version number. In the
session manager the browser starts sessions in tabs, which may first ask for the
vault or for credentials; menu, dialogs and editor write the inventory's files, and
the inventory's watcher brings back what they and other programs have written.

## The modules

### AgentSession, VaultSession (`src/auth/agent`, parts of `ipc.rs`, `vault.rs`, `cli.rs`)

`AgentSession` is the agent, its clients and the part of the vault's files it
reads. `pc` is the place in `run_server`: at the top of the loop, in the blocking
`read_request`, or deriving the key of an unlock request. `session`, `sessGen`,
`policy`, `sinceUnlock`, `sinceActivity`, `leases` are `AgentRuntime`;
the `Instant`s are kept as the ages the code compares, a lease as the time it has
left. `client` is one call of each client: connected (`queued`), request written
(`sent`), dead with an empty connection (`gone`) or with a whole request in it
(`orphan`), spawning a server (`starting`), polling it (`probing`), or a rotation
between its metadata and its lock (`rotated`).

A handler and the expiry check before it are one step: no code between them waits.
An unlock is two, because key derivation takes long and reads the metadata first.
`ServerDies` stands for a failing `accept` and for a kill; both lose the session
without an event. They end with `pc` at `dead`, while a loop that returns after a lock ends
at `down`: `EventFollowsSession` exempts the first and no other end. A failing event write is left out. `sessions`, `issued`, `used`
and `confirmed` are history variables; the code keeps none of them.
An agent issues any number of tokens: past `MaxTokens`, `AuthorizeUntracked`
grants one that nobody redeems.

`VaultSession` is the promise alone: sessions open and close, tokens are granted,
redeemed once or lapse. `AgentSession!KeepsPromise` is its specification under the
refinement mapping that calls a token live while it has an unexpired lease.

### AgentEndpoint (`src/auth/ipc.rs`, `run_server`)

How agent processes get the socket and give it up, a system call per step:
`bind(2)`, the test connection, the look at the file, its removal, the second
bind, `listen(2)`, the permissions, and on exit the guard's removal and the drop
of the listener. `path` is the process whose socket is at the path. `Overlap`
says whether processes start and exit at the same time, `MayCrash` whether they
are killed, `ReclaimName` whether dropping a listener unlinks its path (the
`interprocess` crate's default). With two agents at once, which the race below
allows, a rotation could lock one and miss the other: `RotationEndsOldSessions`
is about one agent.

### VaultStore (`src/auth/vault.rs`, `src/auth/cli.rs`)

The vault's files under several commands at once. `job` is the command of each
process: where it is, the data key it holds, the file it is about to rename into
place. A vault without metadata leads to a first run; `initialize_vault` looks
again, derives a key for a long time, and renames. Every other command unlocks:
it reads the metadata once and keeps the data key. Agents are processes with an
`unlock` command that keep their handle until `Close`. Nothing locks the files, so
two first runs can overlap and the later rename replaces the data key: `raced`
records it, and the properties exempt what follows. A rotation that reads before
another one renames undoes it the same way, but keeps the data key. Listing and
fetching entries change nothing and are left out; `AgentSession` has the fetch.
Temporary files are named by the nanosecond and taken to differ.

### PtyRuntime (`src/process/pty_runtime.rs`, `pty_output.rs`, `src/terminal/session.rs`)

The direct interactive session. The environment is the child (`Output`,
`TakeInput`, `HangUp`, `Exit`): it may exit and leave a background process with the
terminal. `reader`, `watcher` and `main` are the places of the three threads;
`queue` is the `sync_channel`. A chunk is its number, so `shown` and `logged` are
the last numbers drawn and logged. `grace` counts the three seconds after an exit.
The exit watcher holds the child's mutex from `LockChild` to `Reap`. Input may be
waiting before the first turn of the loop: the payload of an RDP start. The
`exited` flag, geometry and UTF-8 decoding are left out. That a `kill` ends the
child (portable_pty: SIGHUP, then SIGKILL) is taken from the library.

### ConfigReload (`src/config`, `highlight_overlay.rs`, `log/ssh.rs`, `pty_runtime.rs`)

Saves of the file, the watcher thread (debounce, load, install under the write
lock, publish the version, notice) and three readers. A configuration is the
number of the save that wrote it. The overlay reads the rules and then the version
(`ReadRules`, `LabelRules`); the log worker reads the version and then the
patterns (`ReadVersion`, `FetchPatterns`). `since` is the save that was current
when the watch began: before it nothing is noticed. A save is one event; an editor
that causes several adds only turns of the debounce. The version is `wrapping_add`
on 64 bits and cannot wrap within the bound.

### SshLog (`src/log/ssh.rs`)

The session log: the threads that hold the logger, the bounded queue, and
`run_worker` with its line buffer, its buffered writer and `last_error`. Text is a
stream of numbered pieces; `start` to `got` is the line buffer, a line of `written`
is a range of pieces, and the first `synced` lines are in the file. `extract_complete_lines`
takes the lines off the buffer before any is written, so a failing write loses
the lines after it too (`WriteFails`). An error of a chunk or of a timed flush
is kept for the next flush, by whomever (`FlushReports`). A flush waits for its
answer; the worker ends when the last clone of the logger is dropped. Lines that
redaction empties, which are skipped, and flushes of the writer because its own buffer is
full are left out; the second only brings lines to the file earlier.
`mine`, `cuts`, `lost` and `told` are history variables.

### TabSessions (`src/tui/features/terminal_session/launch.rs`, `pass_prompt`, `rdp_prompt`, `terminal_tabs`)

The tabs, what runs in them, and the modals that hold a launch back. `tabs`,
`selected`, `onManager`, `unlock`, `rdp`, `status`, `quick` are the fields of
`AppState`; `dialogs` stands for the browser's menu and dialogs. `KeyTo` and
`MouseTo` are the two orders in which `handle_key` and `handle_mouse` look for the
modal an input is for. `Resolve` asks for the vault's entry, which the agent
answers in any way; `Proceed` opens the credentials modal or launches; an unlock
prompt keeps the `Action` it resumes, with the index of the tab to reconnect. A
session has one stream or two, and each reader that ends counts it down; the
writer may fail. `asker`, `granted` and `lost` are not in the code: the tab that
asked, whether the agent was open, what was dropped without being terminated.

### TabStrip (`src/tui/features/terminal_tabs/scroll.rs`, `input.rs`, `mouse.rs`)

The tab bar: tabs are their widths, `offset` is the columns scrolled away, and
`Metrics` the arithmetic of the viewport with its two markers. Closing, moving,
dragging, clicking a marker and drawing at another width are actions; `Hits` is
what the columns of the bar hold. `editing` are the tabs whose title follows the Name field
of an editor (`HostTab::title`): `RetitleTab` is a key or a paste in it. `drift` is not in
the code: what has changed since `ensure_tab_visible` last scrolled the strip, of the four
things after which nobody calls it: a tab opened by `push_host_tab`, a title, a marker, a width.

### TextEdit (`src/tui/text_edit.rs`, the forms' mouse code, `src/auth/secret.rs`)

A line of text with cursor and selection, a held mouse button, and the buffer of a
password. Positions count characters. `EditsLikeReference` compares every edit
with one on a text split before, in and behind the selection.

### HostForm (`src/tui/state/host_editor.rs`, `quick_connect.rs`, `rdp_prompt.rs`)

The host editor, quick connect and the credentials modal as forms: which items a
protocol and the folded sections leave visible, how the focus moves among them,
choices, switching the protocol with its default port, validation and what is
saved. Values are `""`, an option or a text that is left alone; the syntax of
list fields is that a changed text may be wrong. `Texts` are all texts an entry may
hold: the code's own among them and any others. They are the texts of a load, which expands
`~` and normalizes forwards; doing so again changes nothing. The way through the file is
`Written` and `Read`: the protocol, the fields, and the values of an option the program does
not know, under a key of its own (`own`) or under `ssh_options` (`under`).

### Inventory, HostDialogs (`src/inventory`, `src/tui/state/app.rs`, `src/tui/features/host_editor`, `folder_picker`)

`Inventory` has the files, the edits of a document as functions on its list of
nodes, the tree that `load_document_recursive` merges from a file and its includes
(cycles, missing and broken files, duplicate hosts), the watch plan, events, the reload
and the watcher made anew after it. The recursion is a walk (`Merged`) with a list of what
is left to do: each file, when it is opened, puts its includes and then its nodes before
what waits. No file is opened twice, so with `MaxIncludes` to a file it ends after
`MaxParts`. `exact` is not in the code: the watcher is of
the last reload and nothing was saved between the two. `HostDialogs` extends it by
the context menu, the dialogs and saving in the editor, with the folder numbers
and counts they keep across a reload. Other programs save whole documents of `Versions`.
A node is `refused` when the loader takes no document that has it: a folder with a name of
`NameKeys`, which `parse_inventory_node` reads as a host's `name`, and an entry with a value of
a shape that the editor takes and the loader does not. A path through such a folder is
`Hidden` from the edits too. `Commit` is an edit from its reading of the file to the load
after it; what others save to the file before the rename is lost, so that only `outside` counts it.

### Lists

`Filtered`: what `retain` and `filter` leave of a list, in a form a proof can take apart.

### HostRows (`src/tui/features/host_browser`)

The browser's rows: folding, search with strict and fuzzy matches, selection,
scrolling, a click, and what `restore_collapsed_folders` and
`repair_selection_after_rebuild` keep when a reload brings another tree.

### SshArgs (`src/process/ssh_builder.rs`, `src/args/ssh.rs`)

A command line of tokens (letters after a dash, the text that follows, the option it names,
before `=` or, which ssh takes too, before a blank), the
overrides found in it, the destination, the entry of the inventory and the options
added for it. Both walks over the line are folds of a step on what is known so far:
`Inspects` is the walk of `inspect_ssh_args`, which stops at the destination, and `Reads`
that of ssh, which goes on to the command and is external. `UserOptionsWin` compares what
ssh reads in the result with what it reads in the user's own line. It speaks of lines whose
options stand before the destination (`InOrder`), of forms `inspect_ssh_args` knows
(`Recognised`): a flag with a value stands alone or with its value, not behind other
letters, and one that sets no option (`-F`, `-W`) stands alone; an option that adds up is written with
`=`, since `record_ssh_option` finds no key before a blank. A `-v` is found in a cluster only,
as in the code. `LateOptionsWin` is the same of options behind the destination. The arguments
`-` and `--` are left out.

### DirectLaunch (`ssh_builder.rs`, `rdp_builder.rs`, `src/process/vault.rs`)

How a launch from the command line comes by a password: the status query, three
prompts, the second query, the token, and RDP's redemption of it, while others
lock, unlock and edit the vault. `due` is the call or prompt that is next.

### MCFiles, MCDirect, MCClient

`MCFiles` runs AgentEndpoint and VaultStore, `MCDirect` PtyRuntime and ConfigReload: `part`
is the one a behaviour exercises, the other stays as it starts. They share no variable.

`MCClient` has the modules from TabSessions to DirectLaunch in the same way. Where they meet
each leaves the other's side free: TabSessions any answer of the agent (AgentSession,
AgentEndpoint), HostDialogs any selected row (HostRows) and any submitted name
(HostForm), HostForm any edit of a field (TextEdit).

## The runs

| run | what it shows |
|---|---|
| `AgentSession` | with a trusted and an untrusted client, one entry, two unlocks, two passwords: leases belong to the session, a secret leaves inside the session and once, rotation ends older sessions, the deadline is fixed, events follow the session, the promise is kept |
| `AgentSessionLiveness` | sessions end and calls return |
| `AgentStall` (violation) | a client that connects and stalls keeps a session open for ever |
| `Files` | the files processes share, a part in each behaviour: four agents, killed anywhere, without overlapping starts: one agent, reachable, stale files replaced; vault commands that overlap or die leave whole files, entries the vault's key decrypts, and valid handles |
| `AgentEndpointRace` (violation) | two overlapping starts: a live socket is removed |
| `Direct` | a direct session and the configuration under it, a part in each behaviour: output complete, ordered and logged; the loop ends after the child; the child is gone on return; the last save is loaded and told, redaction follows the configuration |
| `PtyTerminate` (violation) | termination waits for the child instead of killing it |
| `SshLog` | a flush that succeeds is durable, losses are told, the log is the session's own lines, whole, in order and once; quiet text reaches the file, flushes return |
| `ConfigOverlay` (violation) | the overlay keeps old rules under a new version |
| `EntryUnknowns` (violation) | an entry of an unknown protocol is saved as an ssh entry, and its option under a key of its own has its values twice after the save |
| `SshOrder` (violation) | the inventory's port wins over the user's behind the destination |
| `Client` | the session manager and the launchers, a part in each behaviour: the selected tab is shown whole; one modal is open, and a prompt's tab stays the one that asked; no running session is dropped and no vault used without consent; text edits agree with a reference; an entry that is only looked at is saved as it was; a quiet browser shows what is on disk; an edit loses only what was named, however old its dialog, and breaks the next load only by a folder called `name` or an option the loader refuses; a reload keeps folds and selection; ssh takes the user's options before the inventory's; no launch falls back silently |

Type invariants are proved and not run again, and so are `ReclaimsOnlyStale` without
overlapping starts, `LogInOrder`, `LinesAreWhole`, `SelectedRowDrawn` and `SelectionIsShown`.

Bounds. Agent: a token, a second session and a second password are what the
properties compare (a token of the session before, an unlock with the password
before); with both timeouts and the token's lifetime at 2, activity at age 1 lets the
absolute timeout expire alone and a token outlive its session, and `MaxAge` is the
larger timeout, past which ages cannot be told apart. Endpoint: two
processes start, a third holds the file of a crash, a fourth serves. PTY: queue
and pipe of 2 fill with 4 chunks, an input buffer of 1 fills with 2 pieces, and a
grace of 2 can run out or not. Vault: two
processes race over the files while a third holds a handle; two data keys are two
first runs, and two passwords a rotation. Log: a queue of 1 makes the second thread wait, a line needs two pieces and a third
follows it, and two failures hit a line and the flush that would tell of it.
Configuration: with a notice queue of 1 the second
notice overflows it, and 3 saves leave one before, one during and one after a load.
Client: three tabs of widths 4 and 7 in bars of 5 and 11 columns need no marker, one or
two, a tab fits or does not, and a title that is typed changes its width; two tabs let one be closed, moved and selected under the
prompt of the other, and two attempts end in a refusal; texts of 3 characters have a
selection with text on both sides; one edit and two turns of a section or the protocol
are a switch there and back, and the entries are an ssh one, an RDP one and one of an unknown
protocol with an option of its own; a root that does or does not include a team's file, with two saves by others and
one edit, has an include that appears, goes, breaks and overtakes an edit, and the folder
name 5 is `name`;
two trees number the same folders differently, and a list of one row must scroll; four
arguments hold an option with its value, another option and a destination, the port and a
forward also with a blank; two changes
by others fall between any two calls of a launch.
Deadlock is checked except in `ConfigOverlay`, which settles when the user stops saving,
and in the runs of `MCClient`, where a launch ends and a bound may leave nothing to do. In
`Direct` the configuration may rest (`AtRest`), so there the check is the session's.

Fairness. `FairSpec` of the agent asks that the server thread and the clock go
on, that a connected client writes or dies, and that a client that started a
server reaches it or gives up (its poll loop has a deadline). `StallSpec` drops
what the clients owe, which the code does not enforce: no read timeout is set. The
PTY, log and configuration specifications ask that the program's own threads run and that time
passes; the child and the user owe nothing. `DirectSpec` asks this of the part that a
behaviour exercises. `ExitEndsLoop` therefore exempts the
case that the main thread is stuck in a write to a terminal nobody reads. In the log
failures are bounded, and so is the text: `LinesReachFile` is about a session that
has gone quiet.

## Disagreements found

* `src/auth/agent/server.rs:60`: the blocking read makes the "Absolute unlock
  lifetime cap" of `ipc.rs:61` depend on every client (`AgentStall`).
* `src/auth/ipc.rs:311`: a socket between `bind` and `listen` refuses connections
  like a stale one (`AgentEndpointRace`).
* `src/process/pty_runtime.rs:393`: `wait` under the mutex that `terminate` needs
  (`PtyTerminate`). Sessions in TUI tabs have no such watcher; there it works.
* `src/terminal/highlight_overlay.rs:808`: the version is read after the rules
  (`ConfigOverlay`); `log/ssh.rs:357` does it in the right order.
* `src/tui/features/terminal_session/launch.rs:353`: a new tab is selected and not scrolled
  to, against "Keep selected tab visible after focus/selection moves." of
  `terminal_tabs/input.rs:436` (no run of its own: `SelectedTabShown`
  exempts it through `drift`).
* `src/tui/state/host_editor.rs:448`: the editor takes the protocol that `inventory/model.rs:23`
  calls "Preserved unknown protocol string." for ssh (`EntryUnknowns`).
* `src/inventory/edit.rs:527`: the unknown keys that `inventory/parse.rs:137` preserves stay
  and are written under `ssh_options` as well, so that a load has their values twice (`EntryUnknowns`).
* `src/process/ssh_builder.rs:342`: the inspection ends at the destination, while `README.md:88`
  shows `cossh -l ssh user@host -p 2222`; the inventory's port wins (`SshOrder`).

## Proofs

For all values of the constants that satisfy the named assumptions.

* `AgentSessionProofs`: types, leases, secrets, rotation, deadline, events, and
  the refinement of `VaultSession`. The properties are not inductive. `Serving`
  ties the accepted connection to the place in the loop; `LeaseInv` adds that only
  issued tokens were used; `Numbered` that the open session is one the counter has
  reached, so that a new one differs from it; `RotationInv` that no unlock still
  deriving its key has read metadata older than a finished rotation, and that an
  unfinished one is between its rename and the answer to its lock. The refinement is proved action
  by action: each maps to a step of `VaultSession` or to a stutter.
* `AgentEndpointProofs`: every endpoint property under `~Overlap`, for any number
  of processes and crashes. Under `Overlap` they are false (`AgentEndpointRace`).
* `PtyRuntimeProofs`: safety. `Accounted` says that a chunk is in the pipe or has been
  logged, `QueueInOrder` that the queue continues what is shown and ends with what
  the reader sent last, `ClosedIsLast` that nothing follows the end of the output,
  `ExitIsReal` that an exit event means the child is gone, `EndsForAReason` that the
  loop ended because the reader closed or had its time.
* `VaultStoreProofs`: `JobsSound` says that what a command writes with a handle has the
  handle's key, `EntriesOfKey` and `HandlesStayValid` that files and handles have the
  metadata's. So before there is metadata there is no handle and no entry, and the
  one first run that finds none breaks nothing; a rotation keeps the key.
* `SshLogProofs`: safety. `MineAhead` says that what a thread logged has been received
  or is queued ahead of its flush, `Accounted` that a piece that left the line buffer
  was written or lost, `BufferInLine` that the buffer begins a line and holds a
  break only while it is processed; with the order of the queue they carry
  `FlushIsDurable`, `LogInOrder` and `LinesAreWhole`, the last two together `LogIsTheSession`.
* `ConfigReloadProofs`: types, and that patterns under the current label are the
  current patterns. `LabelsBehind` says that no label is ahead of the
  published version, nor that ahead of the store's: an `Install` makes every label
  an old one. `ReloadsCounted` bounds the version by the saves.
* `ClientProofs`, about the session manager but for its hosts, and the launchers. Its
  parts, each with its own inductive invariant:
  * TabStrip (`StripInv`): types and `SelectedTabShown`, for any widths and titles. The offset of a strip
    that has followed its selection is the start of a tab, and not past the first start from
    which the rest fits (`Snapped`, `Final`); `StartsOf` grows from tab to tab, so the smallest
    offset that shows the tab's end is found among them.
  * TextEdit (`TextInv`): types and `EditsLikeReference`, for texts of any length. A line is seen
    as the text before, in and behind its selection (`Viewed`), which every key takes to
    another such view; words are the runs that the recursive searches find.
  * TabSessions (`SessionsInv`): types and all four properties, for any hosts, tabs and
    attempts. With one modal open the two orders of routing find the same one, so while a
    prompt is open only streams end and nothing else of the manager moves. `ActionSound` says
    that what a prompt will resume is there, in front and over, so a stream that ends is of
    another tab and Control-q is out of reach. `SoundSession` says that a session is over when
    its streams are, or its input failed, and `Consents` that credentials on the way to a
    launch use the vault with leave only.
  * DirectLaunch (`LaunchInv`): types and `NoSilentFallback`, for any number of changes by
    others. `CallsForTheVault` says that the agent is asked only for a launch that is to use
    the vault, `PromptsAtTerminal` that what follows a prompt has a terminal, so every error
    `Failure` makes of a call comes out soundly.
  * SshArgs: `UserOptionsWin`, for any inventory and lines of any length of any tokens. The
    property is about one line, so no invariant but the line's type is needed: the two walks
    keep step argument by argument. `Ahead` says that before the destination both expect a
    value or neither does, and that the keys one has recorded are those the other has read;
    `Beyond` that after it the walk stands at the destination of both. So the options go in
    just before what ssh takes for its destination (`AtDestination`), where it reads them one
    after the other (`OptionsRead`, `BuiltReads`), and an option of the entry is among them
    exactly when the user's keys miss it.
* `HostProofs`, about the hosts of the session manager:
  * HostForm (`FormInv`): types, `SelectionIsShown` and `UnchangedEntrySurvives`, for any entries,
    options and texts, and any number of turns. `AsLoaded` ties an untouched form to its
    entry field by field; `PortKept` says what the port can have become after so many
    switches of the protocol: itself, or the default that took the place of an empty or a
    default one. That is what the property exempts of a port. Besides it exempts entries of an
    unknown protocol and with an unknown key, which are not kept (`EntryUnknowns`).
  * HostRows (`RowsInv`): `SelectedRowDrawn` and `ReloadKeepsPlace`, for any trees in which a
    number is one folder's.
  * Inventory, HostDialogs (`BrowserInv`): types, `QuietMeansCurrent`, `SyncedEditsLoad` and
    `EditsKeepTheRest`, for any files that include each other in any way. `Covered` says
    that until the watcher is there the tree is the files', and from then on, while nothing is on its way, that the
    plan also tracks what the files lead to now; a save that is not noticed is then of a file the
    walk never opens, and leaves the tree and the plan as they would be made (`TreeStays`).
    For the edits, `Walk` counts the parts of the walk, so that it ends in time, and
    `Kept` that a file which was opened has its nodes in the tree or still ahead, so that
    every host of a file the walk knows has exactly one row. A load succeeds when names differ
    within and between these files (`Apart`); of each edit it is shown which names it adds to
    its file (`Adds`): none, or one that `host_name_exists` did not find in the whole tree. An
    edit that adds a refused node is exempted (`Spoils`); one that adds none adds no refusal.
    `EditsKeepTheRest` needs the types only, and what each edit keeps (`Loses`): folders made
    on the way and nodes put in lose none, an entry or a folder that is taken out is put in
    again under its name, and a host in a folder is never taken for the folder itself.

There is no induction over data in these proofs. Where a function is recursive on the
naturals, `LeastNat` takes its place: a non-empty set of naturals has a least element, so
an argument for which the function does not exist, or has not the property, would have
to be preceded by one for which it has neither.

The assumptions are what the code gives: widths that leave room for a name
(`TabWidthsAssumption`), rows to draw on (`HeightsAssumption`), the first profile is the
default one (`OptionsAssumption`), the texts of the code are texts (`TextsAssumption`), an
entry has an entry's fields (`EntriesAssumption`), a number is one folder's
(`TreesAssumption`), there are finitely many files and one is the root (`FilesAssumption`),
what others save has the form of a document (`VersionsAssumption`), names are numbers, those
that read as `name` any of them (`NamesAssumption`), an argument and an entry of
the inventory are what their parsers make, with finitely many options (`ArgsAssumption`), and every bound is a
natural number of any size.

Only model-checked: `OnlyWhatWasShownGoes`, which is false of files that share a name and a place (below), and whose
theorem would have to keep them apart (that nothing goes but what the dialog names is proved,
`EditsKeepTheRest`; that the dialog's count stands for it is not); and every liveness
property (`SessionsEnd`, `CallsReturn`, `ExitEndsLoop`, `LinesReachFile`, `FlushReturns`, `SavesAreLoaded`, `OutcomeIsTold`, `ReloadsReachWorker`), since
the prover has no rules for fairness and ENABLED.

## Known weaknesses

Behaviour of the code that contradicts no document, and that the properties exempt or
the instances leave out, each by name:

* `src/tui/features/host_editor/input.rs:368`: a context menu keeps a folder's number;
  after a reload the number may be another folder's, and deleting takes that one.
* `src/tui/features/folder_picker/input.rs:667`: included files of one name in one place are
  merged into one folder, which counts as the first file's. For the second file the prefix
  taken off a path is then too long, and with folders of one name inside each other the
  outer one is deleted or renamed in place of the inner.
* `src/tui/features/terminal_tabs/mouse.rs:138`: a double click is told by its place on the
  screen; a reload or scroll between the clicks connects to another host.
* `src/tui/state/app.rs:310`: what happens between a reload and its new watcher goes
  unnoticed; at 317 a reload that fails keeps the old watch plan.
* `src/process/ssh_builder.rs:97`: a cluster like `-vp 2222` shifts the destination; the path
  attached to `-F` is read as flags; beside `-o 'LocalForward 8080 h:80'` the inventory's
  forwards are added too (`Recognised` exempts all three).
* `src/tui/state/tabs.rs:93`: typing a name widens the editor's tab, and nothing scrolls the
  strip after it (`drift`).
* `src/tui/features/folder_picker/input.rs:547`: a folder may be called `name`, here and in a
  rename (`inventory/edit.rs:69` and `:134`), and the next load reads it as a host and fails;
  so it does after an option of the editor (`host_editor.rs:1299`) that `inventory/parse.rs:164`
  refuses, as `IdentitiesOnly: maybe` (`Spoils`).
* `src/inventory/edit.rs:262`: what another program saves before the rename at 301 is lost.
* `src/tui/state/host_editor.rs:792`: a port equal to the other protocol's default changes
  when the protocol is switched there and back; at 1246 an entry without a vault entry
  gets the first one.
* `src/auth/vault.rs:314`: of two first runs the later replaces the data key.
* `src/auth/ipc.rs:284`: the event file is written in place.
* `src/process/pty_runtime.rs:584`: a paste that nobody reads stops the main thread.

## Plan

1. `OverlayCache`: the row cache and the suppression streak of the overlay against
   analysis from nothing.
2. `TerminalSearch`: matches and the current one while output moves the buffer.
3. Profile reload events: from the configuration's watcher to the tabs of a profile.
4. `OnlyWhatWasShownGoes` as a theorem about files whose folders are their own: beyond
   `EditsKeepTheRest` it needs `PathIn` to be the inverse of the place a file is included at.

## Not modelled

* Rendering, wording, panel sizes: layout only.
* YAML, the patterns of includes and the SSH configuration's grammar: parsers; the
  one-time migration uses the last and writes a file once.
* The terminal engine and its views: a wrapper of an external emulator, with tables for
  keys and mouse.
* Cryptography: assumed to do what it promises.
* FreeRDP's arguments, spawning, platform permissions, start-up: sequential I/O.
* Redaction and formatting of a log line, UTF-8 decoding, viewport geometry: functions
  of data that no property tells apart.
