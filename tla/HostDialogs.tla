---------------------------- MODULE HostDialogs ----------------------------
(***************************************************************************)
(* The host browser's menu, the dialogs that move, rename, create and      *)
(* delete entries and folders, and saving in the host editor               *)
(* (tui/features/folder_picker/, tui/features/host_editor/input.rs).       *)
(*                                                                         *)
(* Which row is selected is HostRows', what a form's fields hold is        *)
(* HostForm's: here any row of the tree can be selected, and a form is the *)
(* entry it is about, the folder it names and the name it is saved under.  *)
(***************************************************************************)
EXTENDS Inventory

CONSTANT MaxCommits   \* bound: edits by the manager

ASSUME CommitsAssumption == MaxCommits \in Nat

VARIABLES
    menu,      \* host_context_menu: at most one target
    dialog,    \* the dialog of the browser: at most one
    editor,    \* the open host editor: at most one
    commits    \* edits that reached the disk

dialogsVars == <<menu, dialog, editor, commits>>
browserVars == <<inventoryVars, menu, dialog, editor, commits>>

Paths == DOMAIN tree.folders
FileOf(path) == tree.folders[path].file
IsPlain(path) == path # <<>>   \* the root has no row

-----------------------------------------------------------------------------
(* Folders and their ids *)

\* Folders are numbered in the order they were met, each before what it holds.
NumberedBefore(p, q) ==
    \/ IsStrictPrefix(p, q)
    \/ \E k \in 1..Len(p) :
          /\ k <= Len(q) /\ SubSeq(p, 1, k - 1) = SubSeq(q, 1, k - 1)
          /\ tree.folders[SubSeq(p, 1, k)].met < tree.folders[SubSeq(q, 1, k)].met

\* finalize_folder
IdOf(path) == Cardinality({p \in Paths : NumberedBefore(p, path)})

\* They are searched as they are shown: by name.
ShownBefore(p, q) ==
    \/ IsStrictPrefix(p, q)
    \/ \E k \in 1..Len(p) : k <= Len(q) /\ SubSeq(p, 1, k - 1) = SubSeq(q, 1, k - 1) /\ p[k] < q[k]

\* find_source_root_folder_recursive: the first folder of the file in a folder of another.
SourceRoots(file) ==
    LET roots == {p \in Paths : FileOf(p) = file /\ (p = <<>> \/ FileOf(Front(p)) # file)}
    IN  {p \in roots : \A q \in roots : p = q \/ ShownBefore(p, q)}

\* strip_source_file_folder_prefix
PathIn(file, path) ==
    LET prefix == IF SourceRoots(file) = {} THEN <<>> ELSE CHOOSE p \in SourceRoots(file) : TRUE
    IN  IF IsPrefix(prefix, path) THEN SubSeq(path, Len(prefix) + 1, Len(path)) ELSE path

\* folder_path_segments_by_id_in_source: the path of the folder that has the number now.
PathById(file, id) ==
    LET found == {p \in Paths : p # <<>> /\ IdOf(p) = id}
    IN  IF found = {} THEN <<>> ELSE PathIn(file, CHOOSE p \in found : TRUE)

\* folder_descendant_host_count, of whom
HostsUnder_Directly(path) == {h.name : h \in {h \in Range(tree.hosts) : h.at = path}}
HostsUnder(path) == {h.name : h \in {h \in Range(tree.hosts) : IsPrefix(path, h.at)}}
HostsById(id) == UNION {HostsUnder(p) : p \in {p \in Paths : IdOf(p) = id}}

\* folder_picker_rows_for_source_file: the folders reached through folders of the same file.
PickerRows(file) ==
    {<<>>} \cup UNION {{SubSeq(p, Len(root) + 1, Len(p)) : p \in
        {p \in Paths : /\ IsStrictPrefix(root, p)
                       /\ \A k \in (Len(root) + 1)..Len(p) : FileOf(SubSeq(p, 1, k)) = file}}
            : root \in SourceRoots(file)}

-----------------------------------------------------------------------------
(* What is open *)

Idle == ~rearming   \* the main thread is not in a reload
Browsing == Idle /\ menu = {} /\ dialog = {} /\ commits < MaxCommits

\* Not in the code: the saves by others so far, when the manager shows the files as they are,
\* and -1 when it does not.
Seen == IF InSync THEN outside ELSE -1

Dialog(kind, file) ==
    [kind |-> kind, file |-> file, path |-> <<>>, parent |-> <<>>, rows |-> {}, name |-> 0,
     shown |-> {}, fromEditor |-> FALSE, seen |-> IF \A m \in menu : m.seen = outside THEN Seen ELSE -1]

Form(mode, file, name, path) == [mode |-> mode, file |-> file, name |-> name, folder |-> path]

Opens(what) == dialog' = {what} /\ UNCHANGED <<editor, commits, inventoryVars>>
Nothing == UNCHANGED <<dialog, editor, commits, inventoryVars>>

\* open_or_focus_host_editor_tab: one that is open for the same entry keeps what it holds.
OpensEditor(form) ==
    /\ \A e \in editor : [e EXCEPT !.folder = <<>>] = [form EXCEPT !.folder = <<>>]
    /\ editor' = IF editor = {} THEN {form} ELSE editor
    /\ dialog' = {}
    /\ UNCHANGED <<commits, inventoryVars>>

\* What can be done to an entry.
HostDo(h) ==
    LET path == PathIn(h.file, h.at)
    IN  \/ OpensEditor(Form("edit", h.file, h.name, <<>>))
        \/ OpensEditor(Form("duplicate", h.file, h.name, path))
        \/ Opens([Dialog("move", h.file) EXCEPT !.name = h.name, !.rows = PickerRows(h.file)])
        \/ Opens([Dialog("deleteHost", h.file) EXCEPT !.name = h.name])
        \/ Opens([Dialog("create", h.file) EXCEPT !.parent = path])

\* What can be done to a folder: the file and the number it was chosen by. The root is refused.
FolderDo(file, id) ==
    LET path == PathById(file, id)
    IN  \/ OpensEditor(Form("new", file, 0, path))
        \/ Opens([Dialog("create", file) EXCEPT !.parent = path])
        \/ IF path = <<>> THEN Nothing
           ELSE \/ Opens([Dialog("rename", file) EXCEPT !.path = path, !.parent = Front(path)])
                \/ Opens([Dialog("deleteFolder", file) EXCEPT !.path = path,
                                                              !.shown = HostsById(id)])

\* Keys of the browser, about the selected row, or about none.
KeyOnHost == Browsing /\ \E h \in Range(tree.hosts) : HostDo(h) /\ UNCHANGED menu
KeyOnFolder ==
    Browsing /\ \E p \in Paths : IsPlain(p) /\ FolderDo(FileOf(p), IdOf(p)) /\ UNCHANGED menu
KeyOnNone ==
    /\ Browsing
    /\ Opens(Dialog("create", Root)) \/ OpensEditor(Form("new", Root, 0, <<>>))
    /\ UNCHANGED menu

\* A right click: the menu keeps the index of the host, or the folder's number and its file.
OpenHostMenu ==
    /\ Browsing
    /\ \E k \in DOMAIN tree.hosts : menu' = {[host |-> TRUE, index |-> k, file |-> Root, seen |-> Seen]}
    /\ Nothing

OpenFolderMenu ==
    /\ Browsing
    /\ \E p \in Paths : IsPlain(p) /\
          menu' = {[host |-> FALSE, index |-> IdOf(p), file |-> FileOf(p), seen |-> Seen]}
    /\ Nothing

CloseMenu == Idle /\ menu # {} /\ menu' = {} /\ Nothing

\* execute_host_context_menu_action. The tree may be another one by now.
MenuAction ==
    /\ Idle /\ menu' = {}
    /\ \E target \in menu :
          IF target.host
          THEN IF target.index \in DOMAIN tree.hosts THEN HostDo(tree.hosts[target.index])
               ELSE Nothing
          ELSE FolderDo(target.file, target.index)

-----------------------------------------------------------------------------
(* Dialogs *)

Leaves(d, next) ==
    /\ Idle /\ dialog = {d} /\ dialog' = next
    /\ UNCHANGED <<menu, editor, commits, inventoryVars>>

\* Esc: a picker opened from another dialog leads back to it.
CancelDialog ==
    \E d \in dialog :
        Leaves(d, CASE d.kind = "createIn" -> {[d EXCEPT !.kind = "create", !.rows = {}]}
                    [] d.kind = "renameIn" -> {[d EXCEPT !.kind = "rename", !.rows = {}]}
                    [] OTHER -> {})

\* Tab in a dialog that has a parent folder. A folder cannot be put into itself.
PickParent ==
    \E d \in dialog :
        \/ d.kind = "create" /\ Leaves(d, {[d EXCEPT !.kind = "createIn",
                                                     !.rows = PickerRows(d.file)]})
        \/ d.kind = "rename" /\ Leaves(d, {[d EXCEPT !.kind = "renameIn",
               !.rows = {p \in PickerRows(d.file) : ~IsPrefix(d.path, p)}]})

\* submit_folder_picker, of a parent
ParentPicked ==
    \E d \in dialog : \E p \in d.rows :
        \/ d.kind = "createIn" /\ Leaves(d, {[d EXCEPT !.kind = "create", !.rows = {},
                                                       !.parent = p]})
        \/ d.kind = "renameIn" /\ Leaves(d, {[d EXCEPT !.kind = "rename", !.rows = {},
                                                       !.parent = p]})

\* An edit either fails, or is on disk and followed by a reload; then says what becomes of the
\* dialog and the editor.
Edits(d, results, wrote, failed, loaded, unloaded) ==
    /\ Idle /\ dialog = {d} /\ commits < MaxCommits
    /\ IF Readable(d.file) /\ results # {}
       THEN /\ commits' = commits + 1
            /\ \E nodes \in results : Commit(d.file, nodes, wrote, loaded, unloaded)
       ELSE failed /\ UNCHANGED <<commits, inventoryVars>>
    /\ UNCHANGED menu

\* submit_folder_picker, of the folder to move an entry to
SubmitMove ==
    \E d \in dialog : \E p \in d.rows :
        LET gone == dialog' = {} /\ UNCHANGED editor
            nodes == files[d.file].nodes
        IN  /\ d.kind = "move"
            /\ Edits(d, MoveHost(nodes, d.name, p), MoveHost(nodes, d.name, p) # {nodes},
                     gone, gone, gone)

\* submit_folder_rename and submit_folder_create: a failure is shown in the dialog.
SubmitRename ==
    \E d \in dialog : \E name \in FolderNames :
        LET gone == dialog' = {} /\ UNCHANGED editor
        IN  /\ d.kind = "rename"
            /\ Edits(d, RelocateFolder(files[d.file].nodes, d.path, d.parent, name),
                     d.path # Append(d.parent, name), UNCHANGED <<dialog, editor>>, gone, gone)

SubmitCreate ==
    \E d \in dialog : \E name \in FolderNames :
        LET gone == dialog' = {} /\ UNCHANGED editor
        IN  /\ d.kind = "create"
            /\ Edits(d, CreateFolder(files[d.file].nodes, d.parent, name), TRUE,
                     UNCHANGED <<dialog, editor>>, gone, gone)

\* confirm_folder_delete
ConfirmFolder ==
    \E d \in dialog :
        LET gone == dialog' = {} /\ UNCHANGED editor
        IN  /\ d.kind = "deleteFolder"
            /\ Edits(d, DeleteFolder(files[d.file].nodes, d.path), TRUE, gone, gone, gone)

\* confirm_host_delete: the editor it was asked from is closed, unless the reload failed.
ConfirmHost ==
    \E d \in dialog :
        LET gone == dialog' = {} /\ UNCHANGED editor
        IN  /\ d.kind = "deleteHost"
            /\ Edits(d, DeleteHost(files[d.file].nodes, d.name), TRUE, gone,
                     dialog' = {} /\ editor' = (IF d.fromEditor THEN {} ELSE editor), gone)

-----------------------------------------------------------------------------
(* The editor *)

\* Delete in the editor of an entry; Enter on the folder of a new one; leaving it.
AskDelete ==
    /\ Browsing
    /\ \E e \in editor :
          /\ e.mode = "edit"
          /\ Opens([Dialog("deleteHost", e.file) EXCEPT !.name = e.name, !.fromEditor = TRUE])
    /\ UNCHANGED menu

AskFolder ==
    /\ Browsing
    /\ \E e \in editor :
          e.mode # "edit" /\ Opens([Dialog("place", e.file) EXCEPT !.rows = PickerRows(e.file)])
    /\ UNCHANGED menu

FolderPicked ==
    \E d \in dialog : \E p \in d.rows :
        /\ Idle /\ d.kind = "place" /\ dialog' = {}
        /\ editor' = {[e EXCEPT !.folder = p] : e \in editor}
        /\ UNCHANGED <<menu, commits, inventoryVars>>

CloseEditor ==
    /\ Browsing /\ editor # {} /\ editor' = {}
    /\ UNCHANGED <<menu, dialog, commits, inventoryVars>>

\* host_name_exists
NameExists_InFile(e, name) ==
    \E h \in Range(tree.hosts) :
        h.name = name /\ h.file = e.file /\ ~(e.mode = "edit" /\ name = e.name)
NameExists(e, name) ==
    \E h \in Range(tree.hosts) : h.name = name /\ ~(e.mode = "edit" /\ name = e.name)

\* submit_host_editor. The form's checks let options pass that the next load may refuse, and keys
\* it does not know stay in the mapping.
SaveEntry(name, refused) ==
    /\ Browsing /\ commits < MaxCommits
    /\ \E e \in editor :
          LET nodes == files[e.file].nodes
              results == IF e.mode = "edit" THEN UpdateHost(nodes, e.name, name, refused)
                         ELSE CreateHost(nodes, e.folder, name, refused)
          IN  IF ~NameExists(e, name) /\ Readable(e.file) /\ results # {}
              THEN /\ commits' = commits + 1
                   /\ \E saved \in results :
                         Commit(e.file, saved, TRUE, editor' = {}, UNCHANGED editor)
              ELSE UNCHANGED <<editor, commits, inventoryVars>>
    /\ UNCHANGED <<menu, dialog>>

-----------------------------------------------------------------------------
BrowserInit == InventoryInit /\ menu = {} /\ dialog = {} /\ editor = {} /\ commits = 0

BrowserNext ==
    \/ \E v \in Versions : OutsideSave(v) /\ UNCHANGED dialogsVars
    \/ InventoryReload /\ UNCHANGED dialogsVars
    \/ Rearm /\ UNCHANGED dialogsVars
    \/ RearmFails /\ UNCHANGED dialogsVars
    \/ KeyOnHost \/ KeyOnFolder \/ KeyOnNone
    \/ OpenHostMenu \/ OpenFolderMenu \/ CloseMenu \/ MenuAction
    \/ CancelDialog \/ PickParent \/ ParentPicked
    \/ SubmitMove \/ SubmitRename \/ SubmitCreate \/ ConfirmFolder \/ ConfirmHost
    \/ AskDelete \/ AskFolder \/ FolderPicked \/ CloseEditor
    \/ \E name \in HostNames, refused \in BOOLEAN : SaveEntry(name, refused)

BrowserSpec == BrowserInit /\ [][BrowserNext]_browserVars

-----------------------------------------------------------------------------
(* Properties *)

BrowserTypeOK ==
    /\ InventoryTypeOK
    /\ menu \subseteq [host : BOOLEAN, index : Nat, file : Files, seen : Int]
    /\ dialog \subseteq [kind : {"move", "place", "create", "createIn", "rename", "renameIn",
                                 "deleteHost", "deleteFolder"},
                         file : Files, path : Seq(Nat), parent : Seq(Nat), rows : SUBSET Seq(Nat),
                         name : Nat, shown : SUBSET Nat, fromEditor : BOOLEAN, seen : Int]
    /\ editor \subseteq [mode : {"edit", "duplicate", "new"}, file : Files, name : Nat,
                         folder : Seq(Nat)]
    /\ commits \in 0..MaxCommits
    /\ \A open \in {menu, dialog, editor} : \A x, y \in open : x = y

\* An edit by the manager. files is what it reads: a save by another program that the edit
\* overwrites is in neither state.
ByManager == commits' # commits

\* The edit puts into a document what no document may have: a folder called "name", or an option
\* of a shape that the editor takes and the loader does not. Neither is checked
\* (folder_picker/input.rs, inventory/edit.rs, host_editor.rs), and the next load fails.
Spoils == \E f \in Files : Refuses(files'[f]) /\ ~Refuses(files[f])

\* While the manager shows the inventory as it is on disk, no edit of its own but one that spoils a
\* document makes the next load fail: host_name_exists looks at the hosts in memory, and the edits
\* it lets through go to a document read anew (host_editor/input.rs, inventory/edit.rs, tree.rs).
SyncedEditsLoad == [][(ByManager /\ InSync) => (Tree(files') # {} \/ Spoils)]_browserVars

Held(disk) ==
    UNION {{<<f, disk[f].nodes[k].name>> : k \in {k \in DOMAIN disk[f].nodes :
                                                      disk[f].nodes[k].host}} : f \in Files}

\* The entry that saving a form gives another name.
Renamed == {<<e.file, e.name>> : e \in {e \in editor : dialog = {} /\ e.mode = "edit"}}

\* What the user agreed to lose.
Agreed ==
    Renamed \cup
    UNION {CASE d.kind = "deleteHost" -> {<<d.file, d.name>>}
             [] d.kind = "deleteFolder" -> {<<d.file, name>> : name \in d.shown}
             [] OTHER -> {} : d \in dialog}

\* What the dialog names, in the file as it is when the edit reads it.
HostsWithin(nodes, path) == {node \in Range(nodes) : node.host /\ IsPrefix(path, node.at)}
Meant ==
    Renamed \cup
    UNION {CASE d.kind = "deleteHost" -> {<<d.file, d.name>>}
             [] d.kind = "deleteFolder" ->
                  {<<d.file, node.name>> : node \in HostsWithin(files[d.file].nodes, d.path)}
             [] OTHER -> {} : d \in dialog}

\* An edit loses no entry but the one a dialog named, the ones its count of a folder stands for,
\* or the one renamed; so it is when nobody has saved since the menu or the key that led to the
\* dialog, with the files shown as they were. A menu that outlives a reload keeps a number that
\* means another folder, and a dialog the count of a folder that has changed.
\* Included files of one name and place share a folder, which is the first file's: PathIn then strips
\* too much of a path in the second, and the folder that goes is larger than the one shown.
OnlyWhatWasShownGoes ==
    [][(ByManager /\ \A d \in dialog : d.seen = outside)
          => Held(files) \ Held(files') \subseteq Agreed]_browserVars

\* However old the dialog or the form is, and whatever others saved before the edit read the file,
\* it loses no entry of what it read but the one it names or the ones in the folder it names: taking
\* an entry or a folder out and putting it in elsewhere, with the folders made for it, keeps all
\* else (inventory/edit.rs). What others save between the reading and the renaming is lost.
EditsKeepTheRest == [][ByManager => Held(files) \ Held(files') \subseteq Meant]_browserVars
=============================================================================
