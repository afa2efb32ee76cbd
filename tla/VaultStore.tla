----------------------------- MODULE VaultStore -----------------------------
(***************************************************************************)
(* The files of the vault (auth/vault.rs) under several vault commands at  *)
(* once (auth/cli.rs) and the agent's handle on them.  No lock orders the  *)
(* commands: each checks, reads, prompts, derives keys for a long time and *)
(* renames a file it wrote into place, and may die anywhere in between.    *)
(*                                                                         *)
(* A data key is its number.  A file is whether all of it was written, the *)
(* data key it holds or is encrypted with, and for the metadata the master *)
(* password that unwraps that key.                                         *)
(***************************************************************************)
EXTENDS Naturals

CONSTANTS
    Procs,      \* processes that run a vault command, or an agent with a session
    Names,      \* entry names
    Passwords,  \* what a user may type as master password
    NoPassword, \* no password typed or wrapped with
    MaxKeys     \* bound: data keys generated

ASSUME PasswordAssumption == NoPassword \notin Passwords
ASSUME KeyAssumption == MaxKeys \in Nat

VARIABLES
    metadata,   \* metadata.json, NoFile before the first run
    entries,    \* entries/<name>.json
    job,        \* the command of each process
    keys,       \* data keys generated so far
    raced       \* history: a first run has replaced the metadata of another

vars == <<metadata, entries, job, keys, raced>>

File == [whole : BOOLEAN, key : Nat, password : Passwords \cup {NoPassword}]
NoFile == [whole |-> FALSE, key |-> 0, password |-> NoPassword]
Exists(file) == file.key # 0

Ops == {"init", "add", "remove", "unlock", "set-master-password"}
Idle == [op |-> "none", at |-> "idle", name |-> "none", password |-> NoPassword, key |-> 0, temp |-> NoFile]

\* The command of p goes on, or ends and drops its handle.
Goes(p, j) == job' = [job EXCEPT ![p] = j]

Ends(p) == Goes(p, Idle)
At(p, place) == job[p].at = place

-----------------------------------------------------------------------------
(* Commands *)

\* initialize_vault_if_needed finds a vault (init has nothing to do then), or
\* require_initialized_vault does.
Begin(p, op, n) ==
    /\ At(p, "idle")
    /\ Exists(metadata) /\ op # "init"
    /\ Goes(p, [Idle EXCEPT !.op = op, !.name = n, !.at = "prompt"])
    /\ UNCHANGED <<metadata, entries, keys, raced>>

\* There is none: prompt_new_master_password.
BeginFirstRun(p, op, n) ==
    /\ At(p, "idle")
    /\ ~Exists(metadata) /\ op # "remove"
    /\ Goes(p, [Idle EXCEPT !.op = op, !.name = n, !.at = "first run"])
    /\ UNCHANGED <<metadata, entries, keys, raced>>

\* initialize_vault: a new data key, wrapped.
Initialize(p, password) ==
    /\ At(p, "first run") /\ ~Exists(metadata) /\ keys < MaxKeys
    /\ keys' = keys + 1
    /\ Goes(p, [job[p] EXCEPT !.at = "making metadata", !.password = password,
                              !.temp = [whole |-> FALSE, key |-> keys', password |-> password]])
    /\ UNCHANGED <<metadata, entries, raced>>

\* VaultAlreadyInitialized
InitializeRefused(p) ==
    /\ At(p, "first run") /\ Exists(metadata)
    /\ Ends(p)
    /\ UNCHANGED <<metadata, entries, keys, raced>>

\* unlock_with_password, with the password of the first run if this was one.
Unlock(p, password) ==
    /\ At(p, "prompt")
    /\ job[p].password \in {NoPassword, password}
    /\ IF metadata.whole /\ password = metadata.password
         THEN Goes(p, [job[p] EXCEPT !.at = "unlocked", !.key = metadata.key])
         ELSE Ends(p)
    /\ UNCHANGED <<metadata, entries, keys, raced>>

\* store_secret, as far as the temporary file.
Store(p) ==
    /\ At(p, "unlocked") /\ job[p].op = "add"
    /\ Goes(p, [job[p] EXCEPT !.at = "making entry",
                              !.temp = [whole |-> FALSE, key |-> job[p].key, password |-> NoPassword]])
    /\ UNCHANGED <<metadata, entries, keys, raced>>

\* remove_entry looks for the file ...
FindEntry(p) ==
    /\ At(p, "unlocked") /\ job[p].op = "remove"
    /\ IF Exists(entries[job[p].name]) THEN Goes(p, [job[p] EXCEPT !.at = "removing"])
                                       ELSE Ends(p)
    /\ UNCHANGED <<metadata, entries, keys, raced>>

\* ... and removes it, if it is still there.
RemoveEntry(p) ==
    /\ At(p, "removing")
    /\ entries' = [entries EXCEPT ![job[p].name] = NoFile]
    /\ Ends(p)
    /\ UNCHANGED <<metadata, keys, raced>>

\* Faulty variant: the new password gets a new data key.
Rotate_NewKey(p, password) ==
    /\ At(p, "unlocked") /\ job[p].op = "set-master-password" /\ keys < MaxKeys
    /\ keys' = keys + 1
    /\ Goes(p, [job[p] EXCEPT !.at = "making metadata",
                              !.temp = [whole |-> FALSE, key |-> keys', password |-> password]])
    /\ UNCHANGED <<metadata, entries, raced>>

\* rotate_master_password, as far as the temporary file: the same data key,
\* wrapped by the new password.
Rotate(p, password) ==
    /\ At(p, "unlocked") /\ job[p].op = "set-master-password"
    /\ Goes(p, [job[p] EXCEPT !.at = "making metadata",
                              !.temp = [whole |-> FALSE, key |-> job[p].key, password |-> password]])
    /\ UNCHANGED <<metadata, entries, keys, raced>>

\* The agent drops its session.
Close(p) ==
    /\ At(p, "unlocked") /\ job[p].op = "unlock"
    /\ Ends(p)
    /\ UNCHANGED <<metadata, entries, keys, raced>>

-----------------------------------------------------------------------------
(* write_json_atomic *)

Making(p) == At(p, "making metadata") \/ At(p, "making entry")

WriteTemp(p) ==
    /\ Making(p) /\ ~job[p].temp.whole
    /\ Goes(p, [job[p] EXCEPT !.temp.whole = TRUE])
    /\ UNCHANGED <<metadata, entries, keys, raced>>

\* Faulty variant: the file is written in place.
Ready_InPlace(p) == Making(p)

\* The temporary file has its whole text.
Ready(p) == Making(p) /\ job[p].temp.whole

\* fs::rename of the metadata.  A first run that has more to do goes on with the
\* password it has.
RenameMetadata(p) ==
    /\ At(p, "making metadata") /\ Ready(p)
    /\ metadata' = job[p].temp
    /\ raced' = (raced \/ (job[p].password # NoPassword /\ Exists(metadata)))
    /\ IF job[p].op \in {"add", "unlock"}
         THEN Goes(p, [job[p] EXCEPT !.at = "prompt", !.temp = NoFile])
         ELSE Ends(p)
    /\ UNCHANGED <<entries, keys>>

RenameEntry(p) ==
    /\ At(p, "making entry") /\ Ready(p)
    /\ entries' = [entries EXCEPT ![job[p].name] = job[p].temp]
    /\ Ends(p)
    /\ UNCHANGED <<metadata, keys, raced>>

\* The process is killed, the user gives up at a prompt, or a file operation
\* fails: a temporary file stays behind, under a name nobody reads.
Dies(p) ==
    /\ ~At(p, "idle")
    /\ Ends(p)
    /\ UNCHANGED <<metadata, entries, keys, raced>>

-----------------------------------------------------------------------------
Init ==
    /\ metadata = NoFile
    /\ entries = [n \in Names |-> NoFile]
    /\ job = [p \in Procs |-> Idle]
    /\ keys = 0 /\ raced = FALSE

Step(p) ==
    \/ \E op \in Ops, n \in Names : Begin(p, op, n) \/ BeginFirstRun(p, op, n)
    \/ \E password \in Passwords :
         Initialize(p, password) \/ Unlock(p, password) \/ Rotate(p, password)
    \/ InitializeRefused(p) \/ Store(p) \/ FindEntry(p) \/ RemoveEntry(p) \/ Close(p)
    \/ WriteTemp(p) \/ RenameMetadata(p) \/ RenameEntry(p)
    \/ Dies(p)

Next == \E p \in Procs : Step(p)

Spec == Init /\ [][Next]_vars

-----------------------------------------------------------------------------
(* Properties *)

Places == {"idle", "prompt", "first run", "unlocked", "removing", "making metadata", "making entry"}

Jobs == [op : Ops \cup {"none"}, at : Places, name : Names \cup {"none"},
         password : Passwords \cup {NoPassword}, key : Nat, temp : File]

TypeOK ==
    /\ metadata \in File
    /\ entries \in [Names -> File]
    /\ job \in [Procs -> Jobs]
    /\ \A p \in Procs : At(p, "idle") => job[p] = Idle
    /\ keys \in 0 .. MaxKeys
    /\ raced \in BOOLEAN

\* Whatever commands overlap and wherever they die, each entry is a whole file
\* that the key in the metadata decrypts, and the metadata is whole: unless two
\* first runs overlapped and one has replaced the other's key.
EntriesReadable ==
    /\ Exists(metadata) => metadata.whole
    /\ \A n \in Names : Exists(entries[n]) =>
          entries[n].whole /\ (raced \/ entries[n].key = metadata.key)

\* A key that a command or the agent holds stays the vault's through rotations of
\* the password, so that what it reads and stores agrees with the files; but for
\* overlapping first runs.
HandlesStayValid ==
    raced \/ \A p \in Procs : job[p].key # 0 => job[p].key = metadata.key
=============================================================================
