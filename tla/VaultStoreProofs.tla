-------------------------- MODULE VaultStoreProofs --------------------------
(***************************************************************************)
(* Proofs about VaultStore for any processes, names, passwords and keys.   *)
(*                                                                         *)
(* Everything rests on one key: as long as no first run has replaced the   *)
(* metadata of another, each handle, each entry and each file about to be  *)
(* renamed into place carries the key of the metadata, and a vault without *)
(* metadata has no handle and no entry.                                    *)
(***************************************************************************)
EXTENDS VaultStore, TLAPS

\* A job whose process has a handle, and one that writes a file.
Holds(j) ==
    \/ j.at \in {"unlocked", "removing", "making entry"}
    \/ j.at = "making metadata" /\ j.password = NoPassword
Writes(j) == j.at \in {"making metadata", "making entry"}

\* Handles are of real keys, and what is written with a handle has its key.
Sound(j) ==
    /\ j.at = "idle" => j = Idle
    /\ Holds(j) => j.key # 0
    /\ Writes(j) => j.temp.key # 0
    /\ Writes(j) /\ Holds(j) => j.temp.key = j.key

JobsSound == \A p \in Procs : Sound(job[p])

FilesWhole ==
    /\ Exists(metadata) <=> metadata.whole
    /\ \A n \in Names : Exists(entries[n]) => entries[n].whole

EntriesOfKey == raced \/ \A n \in Names : Exists(entries[n]) => entries[n].key = metadata.key

IInv == TypeOK /\ JobsSound /\ FilesWhole /\ EntriesOfKey /\ HandlesStayValid

-----------------------------------------------------------------------------
LEMMA FileTypes ==
    /\ NoFile \in File /\ ~Exists(NoFile) /\ ~NoFile.whole
    /\ Idle \in Jobs /\ Idle.key = 0 /\ Idle.at = "idle" /\ Sound(Idle)
<1>1. NoFile \in File /\ ~Exists(NoFile) /\ ~NoFile.whole
    BY DEF NoFile, File, Exists
<1>2. Idle \in Jobs
    <2>1. "idle" \in Places /\ 0 \in Nat
        BY DEF Places
    <2> QED
        BY <1>1, <2>1, Zenon DEF Idle, Jobs
<1>3. Idle.key = 0 /\ Idle.at = "idle"
    BY DEF Idle
<1>4. Sound(Idle)
    BY <1>3 DEF Sound, Holds, Writes
<1> QED
    BY <1>1, <1>2, <1>3, <1>4

LEMMA InvInit == Init => IInv
<1> SUFFICES ASSUME Init PROVE IInv
    OBVIOUS
<1>1. TypeOK
    <2>1. job \in [Procs -> Jobs] /\ entries \in [Names -> File]
        BY FileTypes DEF Init
    <2>2. \A p \in Procs : job[p] = Idle
        BY DEF Init
    <2>3. keys \in 0 .. MaxKeys
        BY KeyAssumption DEF Init
    <2> QED
        BY <2>1, <2>2, <2>3, FileTypes DEF Init, TypeOK
<1>2. JobsSound /\ HandlesStayValid
    BY FileTypes DEF Init, JobsSound, HandlesStayValid
<1>3. FilesWhole /\ EntriesOfKey
    BY FileTypes DEF Init, FilesWhole, EntriesOfKey
<1> QED
    BY <1>1, <1>2, <1>3 DEF IInv

\* One process goes on to a sound job, the others keep theirs.
LEMMA GoesOn ==
    ASSUME IInv, NEW p \in Procs, NEW j \in Jobs, Goes(p, j), Sound(j)
    PROVE  /\ JobsSound' /\ job' \in [Procs -> Jobs]
           /\ \A q \in Procs : At(q, "idle")' => job'[q] = Idle
           /\ job'[p] = j /\ \A q \in Procs : q # p => job'[q] = job[q]
    BY DEF IInv, TypeOK, Goes, At, JobsSound, Sound

\* ... and leaves the files alone.
LEMMA FilesKept ==
    ASSUME IInv, NEW p \in Procs, NEW j \in Jobs, Goes(p, j), Sound(j),
           j.key \in {0, job[p].key, metadata.key},
           keys' \in 0 .. MaxKeys, UNCHANGED <<metadata, entries, raced>>
    PROVE  IInv'
<1>1. JobsSound' /\ TypeOK'
    BY GoesOn DEF IInv, TypeOK
<1>2. FilesWhole' /\ EntriesOfKey'
    BY DEF IInv, FilesWhole, EntriesOfKey
<1>3. HandlesStayValid'
    BY GoesOn DEF IInv, HandlesStayValid
<1> QED
    BY <1>1, <1>2, <1>3 DEF IInv

LEMMA EndKept ==
    ASSUME IInv, NEW p \in Procs, Ends(p), UNCHANGED <<metadata, entries, keys, raced>>
    PROVE  IInv'
    BY FilesKept, FileTypes DEF Ends, IInv, TypeOK

\* The actions that leave the files alone.
LEMMA Preparing ==
    ASSUME IInv, NEW p \in Procs, UNCHANGED <<metadata, entries>>, Step(p),
           ~RenameMetadata(p), ~RenameEntry(p), ~RemoveEntry(p)
    PROVE  IInv'
<1> DEFINE b == job[p]
<1>a. b \in Jobs /\ Sound(b) /\ keys \in 0 .. MaxKeys /\ metadata \in File
    BY DEF IInv, TypeOK, JobsSound
<1>1. ASSUME NEW op \in Ops, NEW n \in Names, Begin(p, op, n) PROVE IInv'
    <2> DEFINE j == [Idle EXCEPT !.op = op, !.name = n, !.at = "prompt"]
    <2>1. j \in Jobs /\ Sound(j) /\ j.key = 0
        BY FileTypes DEF Idle, Jobs, Places, Sound, Holds, Writes
    <2>2. Goes(p, j) /\ UNCHANGED <<metadata, entries, raced>> /\ keys' = keys
        BY <1>1 DEF Begin
    <2> HIDE DEF j
    <2> QED
        BY <1>a, <2>1, <2>2, FilesKept
<1>2. ASSUME NEW op \in Ops, NEW n \in Names, BeginFirstRun(p, op, n) PROVE IInv'
    <2> DEFINE j == [Idle EXCEPT !.op = op, !.name = n, !.at = "first run"]
    <2>1. j \in Jobs /\ Sound(j) /\ j.key = 0
        BY FileTypes DEF Idle, Jobs, Places, Sound, Holds, Writes
    <2>2. Goes(p, j) /\ UNCHANGED <<metadata, entries, raced>> /\ keys' = keys
        BY <1>2 DEF BeginFirstRun
    <2> HIDE DEF j
    <2> QED
        BY <1>a, <2>1, <2>2, FilesKept
<1>3. ASSUME NEW w \in Passwords, Initialize(p, w) PROVE IInv'
    <2> DEFINE t == [whole |-> FALSE, key |-> keys', password |-> w]
               j == [b EXCEPT !.at = "making metadata", !.password = w, !.temp = t]
    <2>1. Goes(p, j) /\ UNCHANGED <<metadata, entries, raced>> /\ keys' = keys + 1 /\ keys < MaxKeys
        BY <1>3 DEF Initialize
    <2>2. keys' \in 0 .. MaxKeys /\ keys' \in Nat \ {0}
        BY <2>1, <1>a, KeyAssumption
    <2>3. t \in File
        BY <2>2 DEF File
    <2>4. j \in Jobs /\ j.key = b.key /\ j.at = "making metadata" /\ j.password = w /\ j.temp.key = keys'
        BY <1>a, <2>3 DEF Jobs, Places
    <2>5. Sound(j)
        BY <2>2, <2>4, PasswordAssumption DEF Sound, Holds, Writes
    <2> HIDE DEF j
    <2> QED
        BY <2>1, <2>2, <2>4, <2>5, FilesKept
<1>4. ASSUME NEW w \in Passwords, Unlock(p, w) PROVE IInv'
    <2> DEFINE j == [b EXCEPT !.at = "unlocked", !.key = metadata.key]
    <2>1. CASE metadata.whole /\ w = metadata.password
        <3>1. metadata.key # 0
            BY <2>1 DEF IInv, FilesWhole, Exists
        <3>2. j \in Jobs /\ j.key = metadata.key /\ j.at = "unlocked"
            BY <1>a DEF Jobs, Places, File
        <3>3. Sound(j)
            BY <3>1, <3>2 DEF Sound, Holds, Writes
        <3>4. Goes(p, j) /\ UNCHANGED <<metadata, entries, raced>> /\ keys' = keys
            BY <2>1, <1>4 DEF Unlock
        <3> HIDE DEF j
        <3> QED
            BY <1>a, <3>2, <3>3, <3>4, FilesKept
    <2>2. CASE ~(metadata.whole /\ w = metadata.password)
        BY <2>2, <1>4, EndKept DEF Unlock
    <2> QED
        BY <2>1, <2>2
<1>5. CASE Store(p)
    <2> DEFINE t == [whole |-> FALSE, key |-> b.key, password |-> NoPassword]
               j == [b EXCEPT !.at = "making entry", !.temp = t]
    <2>1. Goes(p, j) /\ UNCHANGED <<metadata, entries, raced>> /\ keys' = keys /\ b.at = "unlocked"
        BY <1>5 DEF Store, At
    <2>2. t \in File /\ b.key # 0
        BY <1>a, <2>1 DEF Jobs, File, Sound, Holds
    <2>3. j \in Jobs /\ j.key = b.key /\ j.at = "making entry" /\ j.temp.key = b.key
        BY <1>a, <2>2 DEF Jobs, Places
    <2>4. Sound(j)
        BY <2>2, <2>3 DEF Sound, Holds, Writes
    <2> HIDE DEF j
    <2> QED
        BY <1>a, <2>1, <2>3, <2>4, FilesKept
<1>6. CASE FindEntry(p)
    <2> DEFINE j == [b EXCEPT !.at = "removing"]
    <2>1. CASE Exists(entries[b.name])
        <3>1. Goes(p, j) /\ UNCHANGED <<metadata, entries, raced>> /\ keys' = keys /\ b.at = "unlocked"
            BY <1>6, <2>1 DEF FindEntry, At
        <3>2. j \in Jobs /\ j.key = b.key /\ j.at = "removing"
            BY <1>a DEF Jobs, Places
        <3>3. Sound(j)
            BY <1>a, <3>1, <3>2 DEF Sound, Holds, Writes
        <3> HIDE DEF j
        <3> QED
            BY <1>a, <3>1, <3>2, <3>3, FilesKept
    <2>2. CASE ~Exists(entries[b.name])
        BY <2>2, <1>6, EndKept DEF FindEntry
    <2> QED
        BY <2>1, <2>2
<1>7. ASSUME NEW w \in Passwords, Rotate(p, w) PROVE IInv'
    <2> DEFINE t == [whole |-> FALSE, key |-> b.key, password |-> w]
               j == [b EXCEPT !.at = "making metadata", !.temp = t]
    <2>1. Goes(p, j) /\ UNCHANGED <<metadata, entries, raced>> /\ keys' = keys /\ b.at = "unlocked"
        BY <1>7 DEF Rotate, At
    <2>2. t \in File /\ b.key # 0
        BY <1>a, <2>1 DEF Jobs, File, Sound, Holds
    <2>3. j \in Jobs /\ j.key = b.key /\ j.at = "making metadata" /\ j.temp.key = b.key
        BY <1>a, <2>2 DEF Jobs, Places
    <2>4. Sound(j)
        BY <2>2, <2>3 DEF Sound, Holds, Writes
    <2> HIDE DEF j
    <2> QED
        BY <1>a, <2>1, <2>3, <2>4, FilesKept
<1>8. CASE WriteTemp(p)
    <2> DEFINE j == [b EXCEPT !.temp.whole = TRUE]
    <2>1. Goes(p, j) /\ UNCHANGED <<metadata, entries, raced>> /\ keys' = keys /\ Writes(b)
        BY <1>8 DEF WriteTemp, Making, At, Writes
    <2>2. /\ j \in Jobs /\ j.key = b.key /\ j.at = b.at /\ j.password = b.password
          /\ j.temp.key = b.temp.key
        BY <1>a DEF Jobs, File
    <2>3. Sound(j)
        BY <1>a, <2>1, <2>2 DEF Sound, Holds, Writes
    <2> HIDE DEF j
    <2> QED
        BY <1>a, <2>1, <2>2, <2>3, FilesKept
<1>9. CASE InitializeRefused(p) \/ Close(p) \/ Dies(p)
    BY <1>9, EndKept DEF InitializeRefused, Close, Dies
<1> QED
    BY <1>1, <1>2, <1>3, <1>4, <1>5, <1>6, <1>7, <1>8, <1>9 DEF Step

LEMMA Removing ==
    ASSUME IInv, NEW p \in Procs, RemoveEntry(p)
    PROVE  IInv'
<1>1. entries' = [entries EXCEPT ![job[p].name] = NoFile] /\ Goes(p, Idle)
        /\ UNCHANGED <<metadata, keys, raced>>
    BY DEF RemoveEntry, Ends
<1>2. JobsSound' /\ TypeOK'
    BY <1>1, GoesOn, FileTypes DEF IInv, TypeOK
<1>3. \A n \in Names : entries'[n] = entries[n] \/ entries'[n] = NoFile
    BY <1>1 DEF IInv, TypeOK
<1>4. FilesWhole' /\ EntriesOfKey'
    BY <1>1, <1>3, FileTypes DEF IInv, FilesWhole, EntriesOfKey
<1>5. HandlesStayValid'
    BY <1>1, GoesOn, FileTypes DEF IInv, HandlesStayValid
<1> QED
    BY <1>2, <1>4, <1>5 DEF IInv

LEMMA ReplacingEntry ==
    ASSUME IInv, NEW p \in Procs, RenameEntry(p)
    PROVE  IInv'
<1> DEFINE t == job[p].temp
<1>1. /\ entries' = [entries EXCEPT ![job[p].name] = t] /\ Goes(p, Idle)
      /\ job[p].at = "making entry" /\ t.whole /\ UNCHANGED <<metadata, keys, raced>>
    BY DEF RenameEntry, Ends, At, Ready
<1>2. job[p] \in Jobs /\ t \in File /\ Sound(job[p])
    BY DEF IInv, TypeOK, Jobs, JobsSound
<1>3. JobsSound' /\ TypeOK'
    BY <1>1, <1>2, GoesOn, FileTypes DEF IInv, TypeOK
<1>4. \A n \in Names : entries'[n] = entries[n] \/ entries'[n] = t
    BY <1>1 DEF IInv, TypeOK
<1>5. raced \/ t.key = metadata.key
    BY <1>1, <1>2 DEF Sound, Holds, Writes, IInv, HandlesStayValid
<1>6. FilesWhole' /\ EntriesOfKey'
    BY <1>1, <1>4, <1>5 DEF IInv, FilesWhole, EntriesOfKey
<1>7. HandlesStayValid'
    BY <1>1, GoesOn, FileTypes DEF IInv, HandlesStayValid
<1> QED
    BY <1>3, <1>6, <1>7 DEF IInv

LEMMA ReplacingMetadata ==
    ASSUME IInv, NEW p \in Procs, RenameMetadata(p)
    PROVE  IInv'
<1> DEFINE t == job[p].temp
           j == IF job[p].op \in {"add", "unlock"}
                  THEN [job[p] EXCEPT !.at = "prompt", !.temp = NoFile] ELSE Idle
<1>1. /\ metadata' = t /\ t.whole /\ job[p].at = "making metadata" /\ Goes(p, j)
      /\ raced' = (raced \/ (job[p].password # NoPassword /\ Exists(metadata)))
      /\ UNCHANGED <<entries, keys>>
    BY DEF RenameMetadata, Ends, At, Ready
<1>2. job[p] \in Jobs /\ t \in File /\ Sound(job[p])
    BY DEF IInv, TypeOK, Jobs, JobsSound
<1>3. j \in Jobs /\ j.key \in {0, job[p].key}
    BY <1>2, FileTypes DEF Jobs, Places
<1>4. Sound(j)
    BY <1>2, FileTypes DEF Sound, Holds, Writes, Jobs
<1> HIDE DEF j
<1>5. JobsSound' /\ job'[p] = j /\ \A q \in Procs : q # p => job'[q] = job[q]
    BY <1>1, <1>3, <1>4, GoesOn
<1>6. raced' \in BOOLEAN
    BY <1>1 DEF IInv, TypeOK
<1>7. TypeOK'
    BY <1>1, <1>2, <1>3, <1>4, <1>6, GoesOn DEF IInv, TypeOK
<1>8. FilesWhole'
    <2>1. t.key # 0
        BY <1>1, <1>2 DEF Sound, Writes
    <2> QED
        BY <1>1, <2>1 DEF IInv, FilesWhole, Exists
<1>9. CASE raced'
    BY <1>5, <1>7, <1>8, <1>9 DEF IInv, EntriesOfKey, HandlesStayValid
<1>10. CASE ~raced'
    <2>1. ~raced /\ (job[p].password = NoPassword \/ metadata.key = 0)
        BY <1>1, <1>10 DEF Exists
    \* A rotation keeps the key; a first run finds neither handles nor entries.
    <2>2. CASE t.key = metadata.key
        <3>1. EntriesOfKey' /\ HandlesStayValid'
            BY <1>1, <1>3, <1>5, <2>1, <2>2 DEF IInv, EntriesOfKey, HandlesStayValid
        <3> QED
            BY <1>5, <1>7, <1>8, <3>1 DEF IInv
    <2>3. CASE metadata.key = 0
        <3>1. \A q \in Procs : job[q].key = 0
            BY <2>1, <2>3 DEF IInv, HandlesStayValid
        <3>2. \A n \in Names : ~Exists(entries[n])
            BY <2>1, <2>3 DEF IInv, EntriesOfKey, Exists
        <3>3. EntriesOfKey' /\ HandlesStayValid'
            BY <1>1, <1>3, <1>5, <3>1, <3>2 DEF EntriesOfKey, HandlesStayValid, Exists
        <3> QED
            BY <1>5, <1>7, <1>8, <3>3 DEF IInv
    <2>4. job[p].password = NoPassword => t.key = metadata.key
        BY <1>1, <1>2, <2>1 DEF Sound, Holds, Writes, IInv, HandlesStayValid
    <2> QED
        BY <2>1, <2>2, <2>3, <2>4
<1> QED
    BY <1>6, <1>9, <1>10

LEMMA InvStep == IInv /\ [Next]_vars => IInv'
<1> SUFFICES ASSUME IInv, [Next]_vars PROVE IInv'
    OBVIOUS
<1>1. CASE UNCHANGED vars
    BY <1>1 DEF vars, IInv, TypeOK, JobsSound, FilesWhole, EntriesOfKey, HandlesStayValid, At
<1>2. ASSUME NEW p \in Procs, Step(p) PROVE IInv'
    <2>1. CASE RenameMetadata(p) \/ RenameEntry(p) \/ RemoveEntry(p)
        BY <2>1, ReplacingMetadata, ReplacingEntry, Removing
    <2>2. CASE ~(RenameMetadata(p) \/ RenameEntry(p) \/ RemoveEntry(p))
        <3>1. UNCHANGED <<metadata, entries>>
            BY <1>2, <2>2 DEF Step, Begin, BeginFirstRun, Initialize, InitializeRefused, Unlock, Store,
                              FindEntry, Rotate, Close, WriteTemp, Dies
        <3> QED
            BY <1>2, <2>2, <3>1, Preparing
    <2> QED
        BY <2>1, <2>2
<1> QED
    BY <1>1, <1>2 DEF Next

LEMMA Invariant == Spec => []IInv
    BY InvInit, InvStep, PTL DEF Spec

-----------------------------------------------------------------------------
\* The vault's files and commands have their types; a command that is over holds
\* no key (UnlockedVault is dropped with it).
THEOREM StoreTypeCorrect == Spec => []TypeOK
<1>1. IInv => TypeOK
    BY DEF IInv
<1> QED
    BY <1>1, Invariant, PTL

\* Commands that overlap or die leave whole files and entries that the vault's
\* key decrypts, but for overlapping first runs (write_json_atomic and
\* rotate_master_password).
THEOREM EntriesStayReadable == Spec => []EntriesReadable
<1>1. IInv => EntriesReadable
    BY DEF IInv, FilesWhole, EntriesOfKey, EntriesReadable
<1> QED
    BY <1>1, Invariant, PTL

\* The key a command or the agent holds is the vault's, through any rotation, but
\* for overlapping first runs (rotate_master_password keeps the data key).
THEOREM HandlesAreValid == Spec => []HandlesStayValid
<1>1. IInv => HandlesStayValid
    BY DEF IInv
<1> QED
    BY <1>1, Invariant, PTL
=============================================================================
