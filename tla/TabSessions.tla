---------------------------- MODULE TabSessions ----------------------------
(***************************************************************************)
(* The tabs of the session manager and what runs in them: sessions         *)
(* launched, reconnected and closed, the vault and credential prompts that *)
(* hold a launch back, and the routing of keys, mouse and pastes among the *)
(* modals (tui/features/terminal_session/launch.rs, pass_prompt/input.rs,  *)
(* rdp_prompt/input.rs, terminal_tabs/input.rs, terminal_tabs/mouse.rs).   *)
(*                                                                         *)
(* A host is what its launch depends on: its protocol, whether it has a    *)
(* vault entry, and whether it has a user. The width of tabs and the tab   *)
(* the mouse holds are TabStrip's. What the agent answers is free here.    *)
(***************************************************************************)
EXTENDS Integers, Sequences, SequencesExt

CONSTANTS
    Hosts,        \* the inventory's hosts
    MaxTabs,      \* bound: tabs open at once
    MaxAttempts   \* VAULT_UNLOCK_MAX_ATTEMPTS

HostType == [rdp : BOOLEAN, entry : BOOLEAN, user : BOOLEAN]

ASSUME HostsAssumption == Hosts \subseteq HostType
ASSUME TabBoundsAssumption == MaxTabs \in Nat /\ MaxAttempts \in Nat \ {0}

VARIABLES
    tabs,        \* the tabs, from left to right
    selected,    \* selected_tab, counted from 1
    onManager,   \* focus_on_manager
    unlock,      \* vault_unlock: at most one prompt
    rdp,         \* rdp_credentials: at most one modal
    status,      \* vault_status_modal is open
    quick,       \* quick_connect is open
    dialogs,     \* which of the browser's are open: its menu, one of its dialogs
    lost,        \* for each session dropped without terminating it: was it over?
    ended        \* the manager has returned

tabVars == <<tabs, selected, onManager, lost>>
modalVars == <<unlock, rdp, status, quick, dialogs>>
sessionsVars == <<tabs, selected, onManager, unlock, rdp, status, quick, dialogs, lost, ended>>

\* streams counts the readers at work; the last one that ends sets exited, and so does a write
\* that failed. The last two say whether the launch was to take a password from the vault, and
\* whether the agent was open.
Session == [exited : BOOLEAN, streams : 0..2, failed : BOOLEAN, vault : BOOLEAN,
            granted : BOOLEAN]
\* A tab of a terminal, with a session or none, or of an editor.
Tab == [terminal : BOOLEAN, host : HostType, session : SUBSET Session]
\* VaultUnlockAction and RdpCredentialsAction; asker, the tab that asked, is not in the code.
Action == [do : {"unlock", "open", "reconnect"}, host : HostType, index : 0..MaxTabs,
           asker : SUBSET Tab]
\* HostPassResolution; granted is not in the code.
Resolution == [entry : BOOLEAN, disabled : BOOLEAN, granted : BOOLEAN]

AnyHost == [rdp |-> FALSE, entry |-> FALSE, user |-> FALSE]
Editor == [terminal |-> FALSE, host |-> AnyHost, session |-> {}]
Manual == [do |-> "unlock", host |-> AnyHost, index |-> 0, asker |-> {}]
Opening(host) == [do |-> "open", host |-> host, index |-> 0, asker |-> {}]
Reconnecting(i) ==
    [do |-> "reconnect", host |-> AnyHost, index |-> i, asker |-> {tabs[i]}]

-----------------------------------------------------------------------------
(* Who gets the input *)

FirstOf(order, open, otherwise) ==
    IF \E k \in DOMAIN order : order[k] \in open
    THEN order[CHOOSE k \in DOMAIN order :
                   order[k] \in open /\ \A j \in 1..(k - 1) : order[j] \notin open]
    ELSE otherwise

OpenModals == dialogs \cup {m \in {"unlock", "rdp", "status", "quick"} :
                               \/ m = "unlock" /\ unlock # {}
                               \/ m = "rdp" /\ rdp # {}
                               \/ m = "status" /\ status
                               \/ m = "quick" /\ quick}

InTab == ~onManager /\ tabs # <<>>

\* handle_key
KeyTo == FirstOf(<<"menu", "dialog", "unlock", "rdp", "status", "quick">>, OpenModals,
                 IF InTab THEN "tab" ELSE "manager")

\* handle_mouse
MouseTo_UnderPrompts == FirstOf(<<"rdp", "menu", "dialog">>, OpenModals, "view")
MouseTo == FirstOf(<<"rdp", "unlock", "status", "quick", "menu", "dialog">>, OpenModals, "view")

\* A button of a modal does what its key does.
Input(modal) == ~ended /\ (KeyTo = modal \/ MouseTo = modal)
Keyboard(place) == ~ended /\ KeyTo = place
Mouse == ~ended /\ MouseTo = "view"

-----------------------------------------------------------------------------
(* Tabs and sessions *)

\* push_host_tab
PushHostTab(host, session) ==
    /\ Len(tabs) < MaxTabs
    /\ tabs' = Append(tabs, [terminal |-> TRUE, host |-> host, session |-> session])
    /\ selected' = Len(tabs) + 1
    /\ onManager' = FALSE /\ quick' = FALSE
    /\ UNCHANGED lost

\* What the tab shows after its launch, or after the launch failed.
SetSession(i, host, session) ==
    /\ tabs' = [tabs EXCEPT ![i].session = session,
                            ![i].host = IF session = {} THEN @ ELSE host]
    /\ lost' = lost \cup {s.failed \/ s.streams = 0 : s \in tabs[i].session}
    /\ UNCHANGED <<selected, onManager, quick>>

\* spawn_session: no session, or one that may take its password from the vault. Output has
\* two streams when xfreerdp gets a password on its standard input, else one terminal.
Spawned(host, res, manual) ==
    LET vault == ~manual /\ (res.entry \/ (host.entry /\ ~res.disabled))
        streams == CASE host.rdp /\ manual -> {2}
                     [] host.rdp /\ vault -> {1, 2}
                     [] OTHER -> {1}
    IN  {{}} \cup {{[exited |-> FALSE, streams |-> n, failed |-> FALSE, vault |-> vault,
                     granted |-> vault /\ res.granted]} : n \in streams}

\* terminal_tab
IsTerminal(i) == i \in DOMAIN tabs /\ tabs[i].terminal

\* Where a launch ends: open_host_tab_with_auth or reconnect_session_with_auth.
Show(action, host, session) ==
    IF action.do = "open" THEN PushHostTab(host, session)
    ELSE SetSession(action.index, host, session)

\* open_host_tab_error, and the same for a reconnect: the profile cannot be read.
ProfileFails(action, host) == Show(action, host, {})

Launch(action, host, res, manual) ==
    \E session \in Spawned(host, res, manual) : Show(action, host, session)

NeedsCredentials(host, res) == host.rdp /\ (~host.user \/ ~res.entry)

\* should_open_rdp_credentials_modal and what follows; pending is the unlock prompt left open.
Proceed(action, host, res, pending) ==
    IF NeedsCredentials(host, res)
    THEN /\ rdp' = {[action |-> action, res |-> res]}
         /\ unlock' = {} /\ status' = FALSE /\ quick' = FALSE
         /\ UNCHANGED tabVars
    ELSE /\ Launch(action, host, res, FALSE)
         /\ unlock' = pending
         /\ UNCHANGED <<rdp, status>>

\* resolve_host_pass_password: auto-login is off, the host has no entry, the entry cannot be
\* used, or the agent is open or locked.
Answers(host) ==
    {"off"} \cup IF host.entry THEN {"unusable", "open", "locked"} ELSE {"noEntry"}

\* open_host_tab and reconnect_session, for the host they are about.
Resolve(action, host) ==
    \/ /\ ProfileFails(action, host)
       /\ UNCHANGED <<unlock, rdp, status>>
    \/ \E answer \in Answers(host) \ {"locked"} :
          Proceed(action, host,
                  [entry |-> answer = "open", disabled |-> answer \in {"off", "unusable"},
                   granted |-> answer = "open"], unlock)
    \/ /\ "locked" \in Answers(host)
       /\ unlock' = {[action |-> action, attempts |-> 0, back |-> FALSE]}
       /\ status' = FALSE /\ quick' = FALSE
       /\ UNCHANGED <<tabVars, rdp>>

\* select_host_to_connect: Enter or a double click in the browser.
Connect(host) ==
    /\ Keyboard("manager") \/ Mouse
    /\ Resolve(Opening(host), host)
    /\ UNCHANGED <<dialogs, ended>>

\* The menu's Connect closes the menu.
ConnectFromMenu(host) ==
    /\ Input("menu")
    /\ dialogs' = dialogs \ {"menu"}
    /\ Resolve(Opening(host), host)
    /\ UNCHANGED ended

\* open_quick_connect_host: RDP takes the form's password, SSH has no entry.
SubmitQuick(isRdp) ==
    /\ Input("quick")
    /\ LET host == [rdp |-> isRdp, entry |-> FALSE, user |-> isRdp]
       IN  IF isRdp
           THEN /\ \E manual \in BOOLEAN :
                     Launch(Opening(host), host,
                            [entry |-> FALSE, disabled |-> TRUE, granted |-> FALSE], manual)
                /\ UNCHANGED <<unlock, rdp, status>>
           ELSE Resolve(Opening(host), host)
    /\ UNCHANGED <<dialogs, ended>>

\* reconnect_session: Enter on a tab whose session is gone or has exited.
CanReconnect_Always(i) == TRUE
CanReconnect(i) == \A s \in tabs[i].session : s.exited

Reconnect ==
    /\ Keyboard("tab") /\ IsTerminal(selected) /\ CanReconnect(selected)
    /\ Resolve(Reconnecting(selected), tabs[selected].host)
    /\ UNCHANGED <<dialogs, ended>>

\* write_bytes_to_active_pty: a session without an input of its own ignores the bytes.
WriteFails ==
    /\ Keyboard("tab") /\ IsTerminal(selected)
    /\ \E s \in tabs[selected].session :
          /\ ~s.exited /\ s.streams = 1
          /\ tabs' = [tabs EXCEPT ![selected].session =
                        {[s EXCEPT !.exited = TRUE, !.failed = TRUE]}]
    /\ UNCHANGED <<selected, onManager, lost, modalVars, ended>>

\* close_current_tab, of the tab that has just become the selected one.
CloseTab(i) ==
    /\ tabs' = RemoveAt(tabs, i)
    /\ selected' = IF i = Len(tabs) /\ i > 1 THEN i - 1 ELSE i
    /\ dialogs' = IF tabs[i].terminal THEN dialogs ELSE dialogs \ {"dialog"}
    /\ onManager' = (onManager \/ Len(tabs) = 1)
    /\ UNCHANGED <<lost, unlock, rdp, status, quick, ended>>

CloseSelected == Keyboard("tab") /\ CloseTab(selected)
ClickClose(i) == Mouse /\ CloseTab(i)

\* move_tab, by a key or by dragging.
MoveTab(from, to) ==
    /\ from # to
    /\ Mouse \/ (Keyboard("tab") /\ from = selected /\ to \in {from - 1, from + 1})
    /\ tabs' = InsertAt(RemoveAt(tabs, from), to, tabs[from])
    /\ selected' = CASE selected = from -> to
                     [] from < selected /\ to >= selected -> selected - 1
                     [] from > selected /\ to <= selected -> selected + 1
                     [] OTHER -> selected
    /\ onManager' \in {onManager} \cup (IF Mouse THEN {FALSE} ELSE {})
    /\ UNCHANGED <<lost, modalVars, ended>>

\* A click on a title, the wheel over the bar, or Alt and an arrow.
SelectTab(i) ==
    /\ Mouse \/ (Keyboard("tab") /\ i \in {selected - 1, selected + 1})
    /\ selected' = i /\ onManager' = FALSE
    /\ UNCHANGED <<tabs, lost, modalVars, ended>>

\* open_or_focus_host_editor_tab: an editor that is open is selected, another one is added.
OpenEditor ==
    /\ Keyboard("manager") \/ Input("menu")
    /\ dialogs' = {} /\ quick' = FALSE
    /\ onManager' = FALSE
    /\ \/ /\ Len(tabs) < MaxTabs
          /\ tabs' = Append(tabs, Editor)
          /\ selected' = Len(tabs) + 1
       \/ /\ \E i \in DOMAIN tabs : ~tabs[i].terminal /\ selected' = i
          /\ UNCHANGED tabs
    /\ UNCHANGED <<lost, unlock, rdp, status, ended>>

-----------------------------------------------------------------------------
(* The unlock prompt *)

\* complete_vault_unlock_action
Complete(action, entry, cancelled, granted) ==
    CASE action.do = "unlock" -> unlock' = {} /\ UNCHANGED <<tabVars, rdp, status, quick>>
      [] action.do = "reconnect" /\ ~IsTerminal(action.index) ->
            unlock' = {} /\ UNCHANGED <<tabVars, rdp, status, quick>>
      [] OTHER ->
            LET host == IF action.do = "open" THEN action.host ELSE tabs[action.index].host
            IN  \/ /\ ProfileFails(action, host)
                   /\ unlock' = {}
                   /\ UNCHANGED <<rdp, status>>
                \/ Proceed(action, host,
                           [entry |-> entry, disabled |-> cancelled, granted |-> granted], {})

\* open_vault_status_modal
ShowStatus_KeepsPrompt ==
    /\ status' = TRUE /\ quick' = FALSE
    /\ UNCHANGED <<tabVars, rdp, unlock>>

ShowStatus ==
    /\ status' = TRUE /\ unlock' = {} /\ quick' = FALSE
    /\ UNCHANGED <<tabVars, rdp>>

Refused_Consulting(prompt) == Complete(prompt.action, FALSE, FALSE, FALSE)
\* The launch goes on without the vault; a manual unlock ends, where it came from.
Refused(prompt) == IF prompt.back THEN ShowStatus ELSE Complete(prompt.action, FALSE, TRUE, FALSE)

CancelUnlock ==
    /\ Input("unlock")
    /\ \E prompt \in unlock : Refused(prompt)
    /\ UNCHANGED <<dialogs, ended>>

UnlockSucceeds ==
    /\ Input("unlock")
    /\ \E prompt \in unlock :
          IF prompt.back THEN ShowStatus ELSE Complete(prompt.action, TRUE, FALSE, TRUE)
    /\ UNCHANGED <<dialogs, ended>>

\* The third wrong password is final.
WrongPassword ==
    /\ Input("unlock")
    /\ \E prompt \in unlock :
          IF prompt.attempts + 1 < MaxAttempts
          THEN /\ unlock' = {[prompt EXCEPT !.attempts = @ + 1]}
               /\ UNCHANGED <<tabVars, rdp, status, quick>>
          ELSE Refused(prompt)
    /\ UNCHANGED <<dialogs, ended>>

\* The agent cannot be asked: a manual prompt stays, a launch goes on without the vault.
UnlockFails ==
    /\ Input("unlock")
    /\ \E prompt \in unlock : prompt.action.do # "unlock" /\ Refused(prompt)
    /\ UNCHANGED <<dialogs, ended>>

-----------------------------------------------------------------------------
(* The credentials modal, and the ones without a launch behind them *)

CancelRdp ==
    /\ Input("rdp")
    /\ rdp' = {}
    /\ UNCHANGED <<tabVars, unlock, status, quick, dialogs, ended>>

\* submit_rdp_credentials with a form that is valid. A password of its own takes the place
\* of what the vault was to give.
SubmitRdp(manual) ==
    /\ Input("rdp")
    /\ rdp' = {}
    /\ \E modal \in rdp :
          LET action == modal.action
              res == IF manual THEN [entry |-> FALSE, disabled |-> TRUE, granted |-> FALSE]
                     ELSE modal.res
          IN  IF action.do = "reconnect" /\ ~IsTerminal(action.index)
              THEN UNCHANGED <<tabVars, quick>>
              ELSE LET base == IF action.do = "open" THEN action.host
                               ELSE tabs[action.index].host
                       host == [base EXCEPT !.user = TRUE]
                   IN  ProfileFails(action, host) \/ Launch(action, host, res, manual)
    /\ UNCHANGED <<unlock, status, dialogs, ended>>

\* v in the browser, or in the status modal.
AskVault ==
    /\ Keyboard("manager")
    /\ \/ ShowStatus
       \/ /\ unlock' = {[action |-> Manual, attempts |-> 0, back |-> FALSE]}
          /\ status' = FALSE /\ quick' = FALSE
          /\ UNCHANGED <<tabVars, rdp>>
    /\ UNCHANGED <<dialogs, ended>>

UnlockFromStatus ==
    /\ Input("status")
    /\ unlock' = {[action |-> Manual, attempts |-> 0, back |-> TRUE]}
    /\ status' = FALSE /\ quick' = FALSE
    /\ UNCHANGED <<tabVars, rdp, dialogs, ended>>

CloseStatus ==
    /\ Input("status")
    /\ status' = FALSE
    /\ UNCHANGED <<tabVars, unlock, rdp, quick, dialogs, ended>>

OpenQuick == Keyboard("manager") /\ quick' = TRUE
             /\ UNCHANGED <<tabVars, unlock, rdp, status, dialogs, ended>>
CloseQuick == Input("quick") /\ quick' = FALSE
              /\ UNCHANGED <<tabVars, unlock, rdp, status, dialogs, ended>>

\* The right button opens the menu over the browser, and takes the focus there.
OpenMenu ==
    /\ Mouse
    /\ dialogs' = dialogs \cup {"menu"}
    /\ onManager' = TRUE
    /\ UNCHANGED <<tabs, selected, lost, unlock, rdp, status, quick, ended>>

\* A delete confirmation, the folder picker and the folder forms: from the browser, from the
\* menu, or from an editor.
OpenDialog ==
    /\ \/ Keyboard("manager") \/ Input("menu")
       \/ Keyboard("tab") /\ ~tabs[selected].terminal
    /\ dialogs' = (dialogs \ {"menu"}) \cup {"dialog"}
    /\ UNCHANGED <<tabVars, unlock, rdp, status, quick, ended>>

CloseDialog ==
    /\ \E d \in dialogs : Input(d) /\ dialogs' = dialogs \ {d}
    /\ UNCHANGED <<tabVars, unlock, rdp, status, quick, ended>>

\* Back-tab, and clicks outside of the bar.
Focus(manager) ==
    /\ Mouse \/ Keyboard("tab") \/ Keyboard("manager")
    /\ tabs # <<>> /\ onManager' = manager
    /\ UNCHANGED <<tabs, selected, lost, modalVars, ended>>

-----------------------------------------------------------------------------
(* Processes, and the end *)

\* A reader thread meets the end of its stream, of which the child need not die.
StreamCloses_AtFirst(i) ==
    \E s \in tabs[i].session :
        /\ ~ended /\ ~s.exited
        /\ tabs' = [tabs EXCEPT ![i].session = {[s EXCEPT !.streams = @ - 1, !.exited = TRUE]}]
        /\ UNCHANGED <<selected, onManager, lost, modalVars, ended>>

StreamCloses(i) ==
    \E s \in tabs[i].session :
        /\ ~ended /\ ~s.exited
        /\ tabs' = [tabs EXCEPT ![i].session =
                      {[s EXCEPT !.streams = @ - 1, !.exited = (s.streams = 1)]}]
        /\ UNCHANGED <<selected, onManager, lost, modalVars, ended>>

\* terminate_all_sessions, when run_app is left: Control-q, not from a terminal.
Quit ==
    /\ ~ended /\ ~InTab
    /\ ended' = TRUE
    /\ lost' = lost \cup UNION {{s.failed \/ s.streams = 0 : s \in {x \in tabs[i].session : x.exited}} :
                            i \in DOMAIN tabs}
    /\ tabs' = [i \in DOMAIN tabs |-> [tabs[i] EXCEPT !.session = {}]]
    /\ UNCHANGED <<selected, onManager, modalVars>>

-----------------------------------------------------------------------------

SessionsInit ==
    /\ tabs = <<>> /\ selected = 1 /\ onManager = TRUE
    /\ unlock = {} /\ rdp = {} /\ status = FALSE /\ quick = FALSE /\ dialogs = {}
    /\ lost = {} /\ ended = FALSE

SessionsNext ==
    \/ \E host \in Hosts : Connect(host) \/ ConnectFromMenu(host)
    \/ \E isRdp \in BOOLEAN : SubmitQuick(isRdp)
    \/ Reconnect \/ WriteFails \/ CloseSelected \/ OpenEditor
    \/ \E i \in DOMAIN tabs : ClickClose(i) \/ SelectTab(i) \/ StreamCloses(i)
    \/ \E i, j \in DOMAIN tabs : MoveTab(i, j)
    \/ CancelUnlock \/ UnlockSucceeds \/ WrongPassword \/ UnlockFails
    \/ CancelRdp \/ \E manual \in BOOLEAN : SubmitRdp(manual)
    \/ AskVault \/ UnlockFromStatus \/ CloseStatus \/ OpenQuick \/ CloseQuick
    \/ OpenMenu \/ OpenDialog \/ CloseDialog
    \/ \E manager \in BOOLEAN : Focus(manager)
    \/ Quit

SessionsSpec == SessionsInit /\ [][SessionsNext]_sessionsVars

SessionsTypeOK ==
    /\ tabs \in Seq(Tab) /\ Len(tabs) <= MaxTabs
    /\ selected \in Nat \ {0} /\ (tabs # <<>> => selected <= Len(tabs))
    /\ onManager \in BOOLEAN
    /\ unlock \subseteq [action : Action, attempts : 0..(MaxAttempts - 1), back : BOOLEAN]
    /\ rdp \subseteq [action : Action, res : Resolution]
    /\ status \in BOOLEAN /\ quick \in BOOLEAN /\ dialogs \subseteq {"menu", "dialog"}
    /\ lost \subseteq BOOLEAN /\ ended \in BOOLEAN

\* Keys and mouse look for the open modal in different orders (input.rs:114, mouse.rs:26), and
\* neither finds two of them open: they talk to the same one.
OneModal == \A m, n \in OpenModals : m = n

\* A prompt keeps the index of the tab to reconnect (state/vault.rs:37, state/rdp_prompt.rs):
\* that tab stays there and is the one that asked, and what it showed is over.
PromptsKeepTheirTab ==
    \A p \in unlock \cup rdp : p.action.do = "reconnect" =>
        /\ IsTerminal(p.action.index)
        /\ p.action.asker = {tabs[p.action.index]}
        /\ CanReconnect(p.action.index)

\* session.rs:136 "Closing a tab should always terminate the underlying managed process
\* tree": a session is dropped without it only when both its streams had ended or its input
\* had failed. (The child may be alive then.)
NoLiveSessionDropped == FALSE \notin lost

\* A launch uses the vault only after the agent was found open for it: never after the user
\* refused to unlock, after the attempts were used up, or with auto-login turned off.
VaultUsedByConsent ==
    \A i \in DOMAIN tabs : \A s \in tabs[i].session : s.vault => s.granted
=============================================================================
