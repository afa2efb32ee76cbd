----------------------------- MODULE Inventory -----------------------------
(***************************************************************************)
(* The host inventory on disk and in memory: the edits of a document       *)
(* (inventory/edit.rs), the tree merged from a file and its includes       *)
(* (inventory/tree.rs), the plan of what is watched (inventory/watcher.rs) *)
(* and the reload that a notification causes (tui/state/app.rs).           *)
(*                                                                         *)
(* A document lists its nodes depth first, each with the path of the       *)
(* folder it lies in, so that the first match of the code's recursion is   *)
(* the first in the list. Names are numbers in alphabetical order; sibling *)
(* folders of one document have different names, every file is a YAML file *)
(* and its directory exists. A pattern stands for the files it matches.    *)
(***************************************************************************)
EXTENDS Integers, Sequences, FiniteSets, TLC, SequencesExt, Lists

CONSTANTS
    Files, Root,    \* the inventory files, and the one given
    Stem, Dir,      \* the name a file's folder gets, and its directory
    HostNames, FolderNames,
    NameKeys,       \* of the folders' names, those that compact_key makes "name"
    Versions,       \* what other programs save: a file and a document
    MaxIncludes,    \* bound: files a document includes
    MaxNodes,       \* bound: nodes of a document
    MaxOutside      \* bound: such saves

\* A node is refused when the loader takes no document that has it, though it can be edited.
Node == [at : Seq(Nat), name : Nat, host : BOOLEAN, refused : BOOLEAN]
Include == [file : Files, under : Seq(Nat)]
Doc == [state : {"missing", "broken", "read"}, include : Seq(Include), nodes : Seq(Node)]

ASSUME FilesAssumption == Root \in Files /\ IsFiniteSet(Files)
ASSUME NamesAssumption ==
    HostNames \subseteq Nat /\ FolderNames \subseteq Nat /\ NameKeys \subseteq Nat /\ Stem \in [Files -> Nat]
ASSUME VersionsAssumption ==
    \A v \in Versions : /\ v \in [file : Files, doc : Doc] /\ v.doc.state # "missing"
                        /\ Len(v.doc.include) <= MaxIncludes
ASSUME InventoryBoundsAssumption ==
    MaxIncludes \in Nat /\ MaxNodes \in Nat /\ MaxOutside \in Nat

VARIABLES
    files,      \* what is on disk
    tree,       \* hosts and host_tree_root
    plan,       \* the InventoryWatchPlan of the watcher
    pending,    \* a notification is on its way or waits to be taken
    rearming,   \* between a reload and the watcher that follows it
    exact,      \* the watcher is of the last reload, and nothing changed between the two
    outside     \* saves by others so far

diskVars == <<files, outside>>
watchVars == <<plan, pending, rearming, exact>>
inventoryVars == <<files, tree, plan, pending, rearming, exact, outside>>

Missing == [state |-> "missing", include |-> <<>>, nodes |-> <<>>]
Broken == [state |-> "broken", include |-> <<>>, nodes |-> <<>>]

\* An entry is refused for a value, as one of its options may have that the editor lets pass
\* (parse_bool, optional_scalar_to_string), a folder for a name that makes its mapping a host's.
HostNode(path, name, refused) == [at |-> path, name |-> name, host |-> TRUE, refused |-> refused]
FolderNode(path, name) == [at |-> path, name |-> name, host |-> FALSE, refused |-> name \in NameKeys]

-----------------------------------------------------------------------------
(* Edits of a document's nodes: the set of the result, empty for an error *)

PathOf(node) == Append(node.at, node.name)

IsFolder(nodes, path) ==
    path = <<>> \/ \E k \in DOMAIN nodes : ~nodes[k].host /\ PathOf(nodes[k]) = path

\* A folder called "name" is no folder for the edits either, and hides what it holds.
Hidden(path) == \E k \in DOMAIN path : path[k] \in NameKeys
FindsFolder(nodes, path) == IsFolder(nodes, path) /\ ~Hidden(path)

\* The node is the folder, or lies in it.
Within(node, path) == IsPrefix(path, node.at) \/ (~node.host /\ PathOf(node) = path)

\* The nodes of a folder, and the others.
Inside_Directly(nodes, path) ==
    Filtered(nodes, {node \in Range(nodes) :
                        node.at = path \/ (~node.host /\ PathOf(node) = path)})
Inside(nodes, path) == Filtered(nodes, {node \in Range(nodes) : Within(node, path)})
Without(nodes, path) == Filtered(nodes, {node \in Range(nodes) : ~Within(node, path)})

\* Vec::push into the folder's items: after everything the folder holds.
Pushed(nodes, path, more) ==
    LET inside == {k \in DOMAIN nodes : Within(nodes[k], path)}
        last == IF path = <<>> THEN Len(nodes) ELSE CHOOSE k \in inside : \A j \in inside : j <= k
    IN  SubSeq(nodes, 1, last) \o more \o SubSeq(nodes, last + 1, Len(nodes))

\* ensure_folder_nodes, of a path that is not hidden: of one that is it makes an error.
WithFolder(nodes, path) ==
    LET grown[k \in 0..Len(path)] ==
            IF k = 0 THEN nodes
            ELSE LET before == grown[k - 1]
                     parent == SubSeq(path, 1, k - 1)
                 IN  IF IsFolder(before, SubSeq(path, 1, k)) THEN before
                     ELSE Pushed(before, parent, <<FolderNode(parent, path[k])>>)
    IN  grown[Len(path)]

\* The first host of that name, depth first.
Named(nodes, name) ==
    LET matches == {k \in DOMAIN nodes :
                       nodes[k].host /\ nodes[k].name = name /\ ~Hidden(nodes[k].at)}
    IN  {k \in matches : \A j \in matches : k <= j}

\* update_inventory_host_entry
UpdateHost(nodes, name, new, refused) ==
    {[nodes EXCEPT ![k].name = new, ![k].refused = refused] : k \in Named(nodes, name)}

\* delete_inventory_host_entry
DeleteHost(nodes, name) == {RemoveAt(nodes, k) : k \in Named(nodes, name)}

\* create_inventory_host_entry
CreateHost(nodes, path, name, refused) ==
    IF Hidden(path) THEN {}
    ELSE {Pushed(WithFolder(nodes, path), path, <<HostNode(path, name, refused)>>)}

\* create_inventory_folder
CreateFolder(nodes, path, name) ==
    LET grown == WithFolder(nodes, path)
    IN  IF Hidden(path) \/ FindsFolder(grown, Append(path, name)) THEN {}
        ELSE {Pushed(grown, path, <<FolderNode(path, name)>>)}

\* move_inventory_host_entry
MoveHost(nodes, name, path) ==
    {IF nodes[k].at = path THEN nodes
     ELSE Pushed(WithFolder(RemoveAt(nodes, k), path), path, <<[nodes[k] EXCEPT !.at = path]>>)
        : k \in {k \in Named(nodes, name) : ~Hidden(path)}}

\* relocate_inventory_folder; what the folder holds keeps its place below it.
RelocateFolder(nodes, path, parent, name) ==
    LET new == Append(parent, name)
        Relocated(node) == IF PathOf(node) = path THEN FolderNode(parent, name)
                           ELSE [node EXCEPT !.at = new \o SubSeq(@, Len(path) + 1, Len(@))]
        moved == Inside(nodes, path)
        grown == WithFolder(Without(nodes, path), parent)
        Refused == \/ IsPrefix(path, parent) \/ Hidden(parent)
                   \/ ~FindsFolder(nodes, path) \/ FindsFolder(grown, new)
    IN  CASE path = new -> {nodes}
          [] path # new /\ Refused -> {}
          [] OTHER -> {Pushed(grown, parent, [k \in DOMAIN moved |-> Relocated(moved[k])])}

\* delete_inventory_folder
DeleteFolder(nodes, path) ==
    IF FindsFolder(nodes, path) THEN {Without(nodes, path)} ELSE {}

-----------------------------------------------------------------------------
(* The tree *)

\* parse_inventory_raw takes the document.
Refuses(doc) == \E node \in Range(doc.nodes) : node.refused
Loads(doc) == doc.state = "read" /\ ~Refuses(doc)

\* The folders of an include's folder_path.
Chain(place, under, file) ==
    [k \in DOMAIN under |->
        [at |-> place \o SubSeq(under, 1, k - 1), name |-> under[k], host |-> FALSE, file |-> file]]

\* What load_document_recursive does for a file it has just opened: an include at a time, then
\* its nodes. The calls that wait for the ones they have made are what is left to do.
Parts(disk, file, place) ==
    [k \in 1..(Len(disk[file].include) + 1) |-> [file |-> file, place |-> place, part |-> k]]

Opened(disk, load, file, place) ==
    [visited |-> load.visited \cup {file}, rows |-> load.rows,
     todo |-> Parts(disk, file, place) \o load.todo]

\* load_include_document
Included(disk, load, file, under) ==
    LET mount == [at |-> under, name |-> Stem[file], host |-> FALSE, file |-> file]
    IN  IF disk[file].state = "missing" \/ file \in load.visited THEN load
        ELSE Opened(disk, [load EXCEPT !.rows = Append(@, mount)], file, PathOf(mount))

NodeRows(disk, file, place) ==
    LET nodes == disk[file].nodes
    IN  [k \in DOMAIN nodes |->
            [at |-> place \o nodes[k].at, name |-> nodes[k].name, host |-> nodes[k].host,
             file |-> file]]

\* load_document_recursive, a part at a time
LoadPart(disk, load) ==
    LET part == Head(load.todo)
        rest == [load EXCEPT !.todo = Tail(@)]
        include == disk[part.file].include
        entry == include[part.part]
    IN  CASE load.todo = <<>> -> load
          [] load.todo # <<>> /\ part.part \notin DOMAIN include ->
               [rest EXCEPT !.rows = @ \o NodeRows(disk, part.file, part.place)]
          [] OTHER ->
               Included(disk, [rest EXCEPT !.rows = @ \o Chain(part.place, entry.under, part.file)],
                        entry.file, part.place \o entry.under)

\* No file is opened twice, so this many parts are all.
MaxParts == Cardinality(Files) * (MaxIncludes + 1)

\* The files visited and the nodes in the order they are met.
Merged(disk) ==
    LET start == [visited |-> {}, rows |-> <<>>, todo |-> <<>>]
        loads[n \in 0..MaxParts] ==
            IF n = 0 THEN Opened(disk, start, Root, <<>>) ELSE LoadPart(disk, loads[n - 1])
    IN  IF disk[Root].state = "missing" THEN start ELSE loads[MaxParts]

\* build_inventory_tree: the set of the tree, empty for an error. A folder is met when its path
\* is first met, and keeps the file it was met in. Host names are unique among all files.
Tree(disk) ==
    LET all == Merged(disk)
        rows == all.rows
        folders == {k \in DOMAIN rows :
                       ~rows[k].host /\ \A j \in 1..(k - 1) : rows[j].host \/
                                                           PathOf(rows[j]) # PathOf(rows[k])}
        Twice(i, j) == i # j /\ rows[i].host /\ rows[j].host /\ rows[i].name = rows[j].name
    IN  IF \/ \E file \in all.visited : ~Loads(disk[file])
           \/ \E i, j \in DOMAIN rows : Twice(i, j)
        THEN {}
        ELSE {[hosts |-> Filtered(rows, {row \in Range(rows) : row.host}),
               folders |-> [p \in {<<>>} \cup {PathOf(rows[k]) : k \in folders} |->
                   IF p = <<>> THEN [file |-> Root, met |-> 0]
                   ELSE LET k == CHOOSE k \in folders : PathOf(rows[k]) = p
                        IN  [file |-> rows[k].file, met |-> k]]]}

-----------------------------------------------------------------------------
(* The watch plan *)

\* collect_watch_targets: the root, and every file an include names, whether it exists or not.
Tracked(disk) ==
    LET reached[n \in 0..Cardinality(Files)] ==
            IF n = 0 THEN {Root}
            ELSE reached[n - 1] \cup
                 UNION {{disk[f].include[k].file : k \in DOMAIN disk[f].include}
                           : f \in reached[n - 1]}
    IN  reached[Cardinality(Files)]

\* build_inventory_watch_plan, or fallback_inventory_watch_plan when a file cannot be parsed.
PlanOf(disk) ==
    LET tracked == Tracked(disk)
    IN  IF \E f \in tracked : disk[f].state # "missing" /\ ~Loads(disk[f])
        THEN [tracked |-> {Root}, dirs |-> {}]
        ELSE [tracked |-> tracked,
              dirs |-> UNION {{Dir[disk[f].include[k].file] : k \in DOMAIN disk[f].include}
                                 : f \in tracked}]

\* should_reload_for_inventory_event
Counts(file) == file \in plan.tracked \/ Dir[file] \in plan.dirs

-----------------------------------------------------------------------------
NoTree == [hosts |-> <<>>, folders |-> [p \in {<<>>} |-> [file |-> Root, met |-> 0]]]

\* The first tree is loaded, as load_host_tree_model does; the first watcher is not yet there.
InventoryInit ==
    /\ files \in [Files -> {Missing} \cup {v.doc : v \in Versions}]
    /\ \A f \in Files : files[f] = Missing \/ [file |-> f, doc |-> files[f]] \in Versions
    /\ tree \in IF Tree(files) = {} THEN {NoTree} ELSE Tree(files)
    /\ plan = [tracked |-> {}, dirs |-> {}]
    /\ pending = FALSE /\ rearming = TRUE /\ exact = (Tree(files) # {})
    /\ outside = 0

OutsideSave(v) ==
    /\ outside < MaxOutside /\ outside' = outside + 1
    /\ files[v.file] # v.doc
    /\ files' = [files EXCEPT ![v.file] = v.doc]
    /\ pending' = (pending \/ Counts(v.file))
    /\ exact' = (exact /\ ~rearming)
    /\ UNCHANGED <<tree, plan, rearming>>

\* apply_inventory_reload_notifications, up to the new watcher.
InventoryReload ==
    /\ pending /\ ~rearming
    /\ pending' = FALSE
    /\ \/ /\ tree' \in Tree(files)
          /\ rearming' = TRUE /\ exact' = TRUE
       \/ /\ Tree(files) = {}
          /\ exact' = FALSE
          /\ UNCHANGED <<tree, rearming>>
    /\ UNCHANGED <<plan, diskVars>>

\* InventoryEventWatcher::new: what the old watcher had to tell goes with it.
Rearm_SamePlan ==
    /\ rearming /\ rearming' = FALSE
    /\ pending' = FALSE
    /\ plan' = IF plan.tracked = {} THEN PlanOf(files) ELSE plan
    /\ UNCHANGED <<tree, exact, diskVars>>

Rearm ==
    /\ rearming /\ rearming' = FALSE
    /\ plan' = PlanOf(files) /\ pending' = FALSE
    /\ UNCHANGED <<tree, exact, diskVars>>

\* The system refuses the new watcher, and the old one stays.
RearmFails ==
    /\ rearming /\ rearming' = FALSE
    /\ exact' = FALSE
    /\ UNCHANGED <<tree, plan, pending, diskVars>>

\* An edit by the manager is on disk; reload_inventory_tree_from_path follows in the same call.
\* loaded and unloaded say what the rest of the call does when the tree could be loaded, and when
\* it could not. Nothing tells the edit that the file is no longer the one it has read: what
\* another program saves in between is gone, and does not show in the files.
Commit(file, nodes, wrote, loaded, unloaded) ==
    LET disk == [files EXCEPT ![file] = [@ EXCEPT !.state = "read", !.nodes = nodes]]
    IN  /\ Len(nodes) <= MaxNodes
        /\ files' = IF wrote THEN disk ELSE files
        /\ pending' = (pending \/ (wrote /\ Counts(file)))
        /\ \/ tree' \in Tree(files') /\ loaded
           \/ Tree(files') = {} /\ tree' = tree /\ unloaded
        /\ \/ outside' = outside
           \/ /\ wrote /\ outside < MaxOutside /\ outside' = outside + 1
              /\ \E v \in Versions : v.file = file /\ v.doc # files[file]
        /\ UNCHANGED <<plan, rearming, exact>>

\* The edit can read the document.
Readable(file) == files[file].state # "broken"

-----------------------------------------------------------------------------
(* Properties *)

Row == [at : Seq(Nat), name : Nat, host : BOOLEAN, file : Files]

IsTree(t) ==
    /\ DOMAIN t = {"hosts", "folders"} /\ t.hosts \in Seq(Row)
    /\ IsFiniteSet(DOMAIN t.folders) /\ DOMAIN t.folders \subseteq Seq(Nat)
    /\ \A path \in DOMAIN t.folders : t.folders[path] \in [file : Files, met : Nat]

InventoryTypeOK ==
    /\ files \in [Files -> Doc]
    /\ \A f \in Files : /\ Len(files[f].include) <= MaxIncludes
                        /\ files[f].state = "missing" => files[f] = Missing
    /\ IsTree(tree)
    /\ plan \in [tracked : SUBSET Files, dirs : SUBSET {Dir[f] : f \in Files}]
    /\ pending \in BOOLEAN /\ rearming \in BOOLEAN /\ exact \in BOOLEAN
    /\ outside \in 0..MaxOutside

InSync == Tree(files) = {tree}

\* With no notification on its way, what is shown is what the files hold: the plan covers every
\* file the tree came from or would come from (inventory/watcher.rs, app.rs). Not covered are
\* changes between a reload and its new watcher, and a reload that failed, which keeps the plan.
QuietMeansCurrent == (exact /\ ~pending /\ ~rearming) => InSync
=============================================================================
