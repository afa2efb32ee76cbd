------------------------------ MODULE HostForm ------------------------------
(***************************************************************************)
(* The forms about a host: the editor of an inventory entry, the quick     *)
(* connect form and the RDP credentials prompt (tui/state/host_editor.rs,  *)
(* quick_connect.rs, rdp_prompt.rs, and the input of their features):      *)
(* which fields are shown, where the selection goes, what is submitted.    *)
(*                                                                         *)
(* The text of a field is "" or a word for what it holds; how a text is    *)
(* edited is TextEdit's. An entry of the inventory, as its file has it, is *)
(* its protocol, the text each of its fields would have and the values of  *)
(* an option the program does not know, under a key of its own or under    *)
(* ssh_options behind it. The texts are those of a load, which expands "~" *)
(* and normalizes forwards; doing so once more changes nothing. Folders    *)
(* are chosen in a picker.                                                 *)
(***************************************************************************)
EXTENDS Integers, Sequences, FiniteSets, SequencesExt, Lists

CONSTANTS
    Texts,           \* what a field may hold
    Entries,         \* entries of the inventory that may be opened
    ProfileOptions,  \* the profiles to choose from, "default" first
    VaultOptions,    \* the vault entries to choose from
    MaxEdits,        \* bound: changes of a form's texts
    MaxTurns         \* bound: sections folded and protocols switched in a form

SshFields == <<"Profile", "IdentityFile", "IdentitiesOnly", "ProxyJump", "ProxyCommand",
               "ForwardAgent", "LocalForward", "RemoteForward", "SshOptions">>
RdpFields == <<"RdpDomain", "RdpArgs">>
YamlFields == <<"IdentityFile", "LocalForward", "RemoteForward", "SshOptions", "RdpArgs">>

\* HostEditorSection::ORDERED with the fields of each.
Sections == <<"Basic", "Authentication", "ProxyForwarding", "AdvancedSsh", "Rdp", "Placement">>
SectionFields ==
    [Basic |-> <<"Name", "Description", "Protocol", "Host", "User", "Port">>,
     Authentication |-> <<"Profile", "VaultPass", "IdentityFile", "IdentitiesOnly">>,
     ProxyForwarding |-> <<"ProxyJump", "ProxyCommand", "ForwardAgent", "LocalForward",
                           "RemoteForward">>,
     AdvancedSsh |-> <<"SshOptions">>, Rdp |-> RdpFields, Placement |-> <<"FolderPath">>]
QuickOrder == <<"Protocol", "User", "Host", "Port", "Domain", "Password", "Profile", "Logging",
                "Connect", "Cancel">>
PromptOrder == <<"User", "Domain", "Port", "Password">>

EditorFields == (UNION {ToSet(SectionFields[s]) : s \in ToSet(Sections)}) \ {"Protocol"}
QuickFields == ToSet(QuickOrder) \ {"Protocol", "Connect", "Cancel"}
Entry == [protocol : {"ssh", "rdp", "other"}, val : [EditorFields -> Texts], own : Nat, under : Nat]

\* The texts that the forms put into fields themselves, and those that the user may leave there.
ASSUME TextsAssumption ==
    {"", "22", "3389", "default", "/", "off", "on", "yes", "no", "copy", "kept", "new", "bad"}
        \subseteq Texts
ASSUME EntriesAssumption == Entries \subseteq Entry
ASSUME OptionsAssumption ==
    /\ ProfileOptions \in Seq(Texts) /\ ProfileOptions # <<>> /\ ProfileOptions[1] = "default"
    /\ VaultOptions \in Seq(Texts)
ASSUME FormBoundsAssumption == MaxEdits \in Nat /\ MaxTurns \in Nat

VARIABLES
    form,   \* the form that is open, or none: its kind, selected item, protocol and texts
    opened, \* the entry the editor was opened with
    edits,  \* how often its texts were changed by the user
    turns   \* how often a section was folded or the protocol switched

formVars == <<form, opened, edits, turns>>

Closed == [kind |-> "none"]
Blank == [f \in EditorFields |-> ""]
NoEntry == [protocol |-> "ssh", val |-> Blank, own |-> 0, under |-> 0]

-----------------------------------------------------------------------------
(* What a form shows *)

\* field_matches_context and field_visible
InContext(fm, f) ==
    IF fm.kind = "editor"
    THEN /\ f \in ToSet(SshFields) => ~fm.rdp
         /\ f \in ToSet(RdpFields) => fm.rdp
         /\ f = "FolderPath" => fm.mode = "Create"
    ELSE /\ f \in {"Port", "Domain", "Password"} => fm.rdp
         /\ f \in {"Profile", "Logging"} => ~fm.rdp

Visible(fm, fields) == Filtered(fields, {f \in ToSet(fields) : InContext(fm, f)})

\* visible_items: headers are named by their sections.
Part(fm, s) ==
    LET fields == Visible(fm, SectionFields[s])
    IN  IF fields = <<>> THEN <<>> ELSE <<s>> \o IF s \in fm.collapsed THEN <<>> ELSE fields

Items(fm) ==
    CASE fm.kind = "editor" ->
            FlattenSeq([k \in 1..6 |-> Part(fm, Sections[k])]) \o <<"Save">> \o (IF fm.mode = "Edit" THEN <<"Delete">> ELSE <<>>)
            \o <<"Cancel">>
      [] fm.kind = "quick" -> Visible(fm, QuickOrder)
      [] OTHER -> PromptOrder

IsItem(fm, i) == i \in ToSet(Items(fm))

\* ensure_selected_item_visible and ensure_selected_field_visible
Ensured(fm) ==
    IF IsItem(fm, fm.item) THEN fm
    ELSE LET home == IF fm.kind = "quick" THEN {}
                     ELSE {s \in ToSet(Sections) : fm.item \in ToSet(SectionFields[s])
                                                   /\ IsItem(fm, s)}
         IN  [fm EXCEPT !.item = IF home = {} THEN "Protocol" ELSE CHOOSE s \in home : TRUE]

Position(s, v) == IF v \in ToSet(s) THEN CHOOSE k \in DOMAIN s : s[k] = v ELSE 0
CycleOn(s, v) == s[(Position(s, v) % Len(s)) + 1]
CycleBack(s, v) == s[IF Position(s, v) <= 1 THEN Len(s) ELSE Position(s, v) - 1]

-----------------------------------------------------------------------------
(* Opening *)

OrFirst(value, options) == IF value = "" /\ options # <<>> THEN options[1] ELSE value

\* new_edit
Loaded(e) ==
    [kind |-> "editor", mode |-> "Edit", item |-> "Name", rdp |-> (e.protocol = "rdp"),
     collapsed |-> ToSet(Sections) \ {"Basic", "Authentication"},
     val |-> [e.val EXCEPT !["Profile"] = OrFirst(@, ProfileOptions),
                           !["VaultPass"] = OrFirst(@, VaultOptions), !["FolderPath"] = "/"]]

\* new_create and new_duplicate
Created == [Loaded(NoEntry) EXCEPT !.mode = "Create", !.val["Port"] = "22"]
Duplicated(e) == [Loaded(e) EXCEPT !.mode = "Create", !.val["Name"] = "copy",
                                   !.val["FolderPath"] = "kept"]

QuickForm == [kind |-> "quick", item |-> "Protocol", rdp |-> FALSE,
              val |-> [f \in QuickFields |->
                          CASE f = "Profile" -> "default" [] f = "Logging" -> "off"
                            [] OTHER -> ""]]
Prompt(e) == [kind |-> "prompt", item |-> IF e.val["User"] = "" THEN "User" ELSE "Password",
              rdp |-> TRUE,
              val |-> [f \in ToSet(PromptOrder) |->
                          CASE f = "Password" -> "" [] f = "Domain" -> e.val["RdpDomain"]
                            [] OTHER -> e.val[f]]]

OpenForm ==
    /\ form = Closed
    /\ edits' = 0 /\ turns' = 0
    /\ \/ \E e \in Entries : /\ opened' = e
                             /\ \/ form' \in {Loaded(e), Duplicated(e)}
                                \/ e.protocol = "rdp" /\ form' = Prompt(e)
       \/ opened' = NoEntry /\ form' \in {Created, QuickForm}

-----------------------------------------------------------------------------
(* Keys and mouse *)

IsOpen == form # Closed

SelectNext == IsOpen /\ form' = [form EXCEPT !.item = CycleOn(Items(form), @)]
              /\ UNCHANGED <<opened, edits, turns>>
SelectPrev == IsOpen /\ form' = [form EXCEPT !.item = CycleBack(Items(form), @)]
              /\ UNCHANGED <<opened, edits, turns>>

\* A click selects an item that is shown, the scroll bar of the editor as well.
ClickItem(i) == IsOpen /\ form' = [form EXCEPT !.item = i] /\ UNCHANGED <<opened, edits, turns>>

Turned == turns < MaxTurns /\ turns' = turns + 1 /\ UNCHANGED <<opened, edits>>
Edited == edits < MaxEdits /\ edits' = edits + 1 /\ UNCHANGED <<opened, turns>>

\* toggle_section, of the header that is selected.
ToggleSection ==
    /\ IsOpen /\ Turned
    /\ form.kind = "editor" /\ form.item \in ToSet(Sections) \ {"Basic"}
    /\ LET s == form.item
           folded == form.collapsed
       IN  form' = Ensured([form EXCEPT !.collapsed = (folded \ {s}) \cup ({s} \ folded)])

\* apply_default_port_for_protocol_switch
SwitchedPort_Always(fm) == IF fm.rdp THEN "3389" ELSE "22"
SwitchedPort(fm) ==
    IF fm.val["Port"] \in {"", IF fm.rdp THEN "22" ELSE "3389"}
    THEN IF fm.rdp THEN "3389" ELSE "22"
    ELSE fm.val["Port"]

\* toggle_protocol_forward
ToggleProtocol ==
    /\ IsOpen /\ Turned
    /\ form.item = "Protocol"
    /\ LET fm == Ensured([form EXCEPT !.rdp = ~@])
       IN  form' = IF form.kind = "quick" THEN fm
                   ELSE [fm EXCEPT !.val["Port"] = SwitchedPort(fm)]

\* Profile and vault entry are chosen from a list, logging and IdentitiesOnly cycle.
OptionsOf(fm) ==
    CASE fm.item = "Profile" -> ProfileOptions
      [] fm.item = "VaultPass" -> VaultOptions
      [] fm.item = "Logging" -> <<"off", "on">>
      [] fm.item = "IdentitiesOnly" -> <<"", "yes", "no">>
      [] OTHER -> <<>>

\* sync_profile_index_from_value: a text that is no option counts as the first.
Synced(options, value) == IF value \in ToSet(options) THEN value ELSE options[1]

Choose(value) ==
    /\ IsOpen /\ Edited
    /\ OptionsOf(form) # <<>>
    /\ form' = [form EXCEPT !.val[form.item] = value]
Chosen == Synced(OptionsOf(form), form.val[form.item])
CycleNext == Choose(CycleOn(OptionsOf(form), Chosen))
CyclePrev == Choose(CycleBack(OptionsOf(form), Chosen))

\* What typing, deleting and pasting can make of the selected text.
Typed(fm) ==
    IF fm.item \notin DOMAIN fm.val \ {"IdentitiesOnly", "Logging", "FolderPath"}
       \/ (fm.kind = "quick" /\ fm.item = "Profile")
    THEN {}
    ELSE {"", "new"} \cup IF fm.item \in {"Port", "VaultPass"} \cup ToSet(YamlFields)
                          THEN {"bad"} ELSE {}
Type(text) == IsOpen /\ Edited /\ form' = [form EXCEPT !.val[form.item] = text]

PickFolder == IsOpen /\ Edited /\ form.item = "FolderPath"
              /\ form' = [form EXCEPT !.val["FolderPath"] = "new"]

-----------------------------------------------------------------------------
(* Submitting *)

\* build_submission: the first field that is wrong.
Required(fm) ==
    CASE fm.kind = "editor" -> <<"Name", "Host">>
      [] fm.kind = "quick" -> IF fm.rdp THEN <<"Host", "User">> ELSE <<"Host">>
      [] OTHER -> <<"User">>

\* Faulty variant: fields of the other protocol are checked as well.
Checked(fm) ==
    CASE fm.kind = "editor" -> <<"Port", "VaultPass">> \o Visible(fm, YamlFields)
      [] fm.kind = "quick" -> IF fm.rdp THEN <<"Port">> ELSE <<>>
      [] OTHER -> <<"Port">>
Wrong(fm) ==
    Filtered(Required(fm), {f \in ToSet(Required(fm)) : fm.val[f] = ""})
    \o Filtered(Checked(fm), {f \in ToSet(Checked(fm)) : fm.val[f] = "bad"})

\* What is saved of an entry: nothing of the other protocol's, no default profile.
Saved(fm) ==
    [f \in EditorFields |->
        IF ~InContext(fm, f) \/ (f = "Profile" /\ fm.val[f] = "default") THEN "" ELSE fm.val[f]]

\* apply_editable_host_to_mapping, of a form whose texts are as loaded: keys the program does not
\* know stay, and what was read of them is written under ssh_options.
Written(fm, e) ==
    [protocol |-> IF fm.rdp THEN "rdp" ELSE "ssh", val |-> Saved(fm), own |-> e.own,
     under |-> IF fm.rdp THEN 0 ELSE e.own + e.under]

\* parse_host and merge_ssh_options: what the next load makes of it.
Read(e) == [protocol |-> e.protocol, val |-> e.val, values |-> e.own + e.under]

\* The editor shows its error and stays where it is; the other forms select the field.
Submit ==
    /\ IsOpen
    /\ form.item \in {"Save", "Connect"} \/ form.kind = "prompt"
    /\ form' = IF Wrong(form) = <<>> THEN Closed
               ELSE IF form.kind = "editor" THEN form
               ELSE [form EXCEPT !.item = Wrong(form)[1]]
    /\ UNCHANGED <<opened, edits, turns>>

CloseForm == IsOpen /\ form' = Closed /\ UNCHANGED <<opened, edits, turns>>

-----------------------------------------------------------------------------

FormInit == form = Closed /\ opened = NoEntry /\ edits = 0 /\ turns = 0

FormNext ==
    \/ OpenForm \/ SelectNext \/ SelectPrev
    \/ IsOpen /\ \E i \in ToSet(Items(form)) : ClickItem(i)
    \/ ToggleSection \/ ToggleProtocol \/ CycleNext \/ CyclePrev \/ PickFolder
    \/ IsOpen /\ \E text \in Typed(form) : Type(text)
    \/ Submit \/ CloseForm

FormSpec == FormInit /\ [][FormNext]_formVars

EditorItems == ToSet(Sections) \cup EditorFields \cup {"Protocol", "Save", "Delete", "Cancel"}
EditorForms ==
    [kind : {"editor"}, mode : {"Edit", "Create"}, item : EditorItems, rdp : BOOLEAN,
     collapsed : SUBSET (ToSet(Sections) \ {"Basic"}), val : [EditorFields -> Texts]]
QuickForms ==
    [kind : {"quick"}, item : ToSet(QuickOrder), rdp : BOOLEAN, val : [QuickFields -> Texts]]
Prompts ==
    [kind : {"prompt"}, item : ToSet(PromptOrder), rdp : {TRUE},
     val : [ToSet(PromptOrder) -> Texts]]

FormTypeOK ==
    /\ form \in {Closed} \cup EditorForms \cup QuickForms \cup Prompts
    /\ opened \in Entries \cup {NoEntry}
    /\ edits \in 0..MaxEdits /\ turns \in 0..MaxTurns

\* However sections are folded, protocols switched and submissions refused, the selected item
\* is one the form shows: keys go where the user sees them go, and a field that is named as
\* wrong can be mended.
SelectionIsShown ==
    IsOpen => IsItem(form, form.item) /\ (Wrong(form) # <<>> => InContext(form, Wrong(form)[1]))

\* An entry that is opened, looked through and saved is what it was when it is loaded again,
\* protocol switches that come back included. Left out are two that do change, an entry of a
\* protocol the program does not know and one with an option under a key of its own
\* (UnknownsSurvive); not kept are keys of the other protocol, and not left
\* alone are an entry without a vault entry, which gets the first there is
\* (state/host_editor.rs:1246), and a port that is blank or the other protocol's default, which
\* a switch takes for a default.
UnchangedEntrySurvives ==
    (/\ form.kind = "editor" /\ form.mode = "Edit" /\ edits = 0
     /\ form.rdp = (opened.protocol = "rdp") /\ opened.protocol # "other" /\ opened.own = 0) =>
        LET again == Read(Written(form, opened))
        IN  /\ again.protocol = opened.protocol
            /\ form.rdp \/ again.values = Read(opened).values
            /\ \A f \in EditorFields \ {"FolderPath"} :
                  \/ again.val[f] = opened.val[f]
                  \/ ~InContext(form, f)
                  \/ f = "VaultPass" /\ opened.val[f] = ""
                  \/ f = "Port" /\ turns > 1
                     /\ opened.val[f] \in {"", IF form.rdp THEN "22" ELSE "3389"}
                  \/ f = "Profile" /\ opened.val[f] = "default"

\* An entry's editor that is saved as it was opened, nothing edited or switched.
SavedAsOpened == form.kind = "editor" /\ form.mode = "Edit" /\ edits = 0 /\ turns = 0

\* What the program does not know is preserved. inventory/model.rs:23 on a protocol that is neither
\* ssh nor rdp: "Preserved unknown protocol string", which the editor takes for ssh. And
\* inventory/parse.rs:137: "Preserve unknown host keys as custom SSH options": saving keeps the key
\* and writes its values under ssh_options too, so that the next load has them twice.
UnknownsSurvive ==
    LET again == Read(Written(form, opened))
    IN  SavedAsOpened /\ opened.protocol # "rdp" =>
            again.protocol = opened.protocol /\ again.values = Read(opened).values
=============================================================================
