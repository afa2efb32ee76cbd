-------------------------------- MODULE SshLog --------------------------------
(***************************************************************************)
(* The session log of log/ssh.rs: threads that log what a session prints,  *)
(* a bounded queue, and the worker that cuts the text into lines, redacts  *)
(* them and writes them through a buffer to the file.                      *)
(*                                                                         *)
(* Text is a stream of numbered pieces, in the order they were queued.  A  *)
(* piece is some text that redaction does not empty and that holds no line *)
(* break, or ends with its only one.  A line is the numbers of its first   *)
(* and last piece; one that is written without its break counts as lost.   *)
(***************************************************************************)
EXTENDS Naturals, Sequences

CONSTANTS
    Users,      \* threads that hold the logger
    Cap,        \* SSH_LOG_QUEUE_CAPACITY
    MaxPieces,  \* bound: pieces logged
    MaxFaults   \* bound: file operations that fail

ASSUME CapAssumption == Cap \in Nat \ {0}
ASSUME BoundAssumption == {MaxPieces, MaxFaults} \subseteq Nat

VARIABLES
    ends,       \* whether each piece logged so far ends its line
    queue,      \* commands on their way to the worker
    call,       \* what each user is doing, or how its last flush ended
    worker,     \* where the worker is
    got,        \* the last piece the worker received
    start,      \* the first piece in its line_buffer, got + 1 when that is empty
    written,    \* lines given to the writer
    synced,     \* how many of them are in the file
    lastError,  \* last_error.is_some()
    faults,     \* history: file operations that failed
    mine,       \* history: the last piece each user logged
    cuts,       \* history: pieces after which a flush cut the line
    lost,       \* history: pieces that will never be written
    told        \* history: those of them lost before a flush that failed

textVars == <<got, start, written, synced, lastError>>
history == <<faults, mine, cuts, lost, told>>
vars == <<ends, queue, call, worker, textVars, history>>

Chunk(n) == [kind |-> "chunk", last |-> n, by |-> "nobody"]
FlushBy(u) == [kind |-> "flush", last |-> 0, by |-> u]

\* The pieces in the buffer that end a line: the lines extract_complete_lines
\* returns.
Breaks == {n \in start .. got : ends[n]}

InFile(n) == \E i \in 1 .. synced : n \in written[i].from .. written[i].to

\* A file operation fails, as long as the bound allows.
Fault == faults < MaxFaults /\ faults' = faults + 1

-----------------------------------------------------------------------------
(* The users *)

Free(u) == call[u] \in {"idle", "ok", "failed"}

\* ensure_worker starts the worker with the first command.
Enqueue(command) ==
    /\ Len(queue) < Cap
    /\ queue' = Append(queue, command)
    /\ worker' = IF worker = "off" THEN "recv" ELSE worker

\* log_raw_shared: a chunk of one or two pieces.
Log(u) ==
    /\ Free(u)
    /\ \E more \in {<<TRUE>>, <<FALSE>>} \cup {<<TRUE, b>> : b \in BOOLEAN} :
         /\ Len(ends) + Len(more) <= MaxPieces
         /\ ends' = ends \o more
    /\ Enqueue(Chunk(Len(ends')))
    /\ mine' = [mine EXCEPT ![u] = Len(ends')]
    /\ call' = [call EXCEPT ![u] = "idle"]
    /\ UNCHANGED <<textVars, faults, cuts, lost, told>>

\* flush, as far as the wait for the answer.
Flush(u) ==
    /\ Free(u)
    /\ Enqueue(FlushBy(u))
    /\ call' = [call EXCEPT ![u] = "waiting"]
    /\ UNCHANGED <<ends, textVars, history>>

\* The user drops its clone of the logger.
Leave(u) ==
    /\ Free(u)
    /\ call' = [call EXCEPT ![u] = "gone"]
    /\ UNCHANGED <<ends, queue, worker, textVars, history>>

-----------------------------------------------------------------------------
(* run_worker *)

\* process_chunk_message: the chunk joins the line buffer, which may now hold
\* complete lines.
Receive ==
    /\ worker = "recv" /\ queue # <<>> /\ Head(queue).kind = "chunk"
    /\ queue' = Tail(queue)
    /\ got' = Head(queue).last
    /\ UNCHANGED <<ends, call, start, written, synced, lastError, history>>
    /\ worker' = IF Breaks' = {} THEN "recv" ELSE "lines"

\* Faulty variant: the buffer is cut at its last break.
WriteLine_AtLast ==
    /\ worker = "lines" /\ Breaks # {}
    /\ \E n \in Breaks :
         /\ \A m \in Breaks : m <= n
         /\ written' = Append(written, [from |-> start, to |-> n])
         /\ start' = n + 1
    /\ UNCHANGED <<ends, queue, call, worker, got, synced, lastError, history>>

\* Faulty variant: the buffer is drained before the break, which stays.
WriteLine_DropsBreak ==
    /\ worker = "lines" /\ Breaks # {}
    /\ \E n \in Breaks :
         /\ \A m \in Breaks : m >= n
         /\ written' = Append(written, [from |-> start, to |-> n])
         /\ start' = n
    /\ UNCHANGED <<ends, queue, call, worker, got, synced, lastError, history>>

\* The next complete line is redacted and given to the writer.
WriteLine ==
    /\ worker = "lines" /\ Breaks # {}
    /\ \E n \in Breaks :
         /\ \A m \in Breaks : m >= n
         /\ written' = Append(written, [from |-> start, to |-> n])
         /\ start' = n + 1
    /\ UNCHANGED <<ends, queue, call, worker, got, synced, lastError, history>>

\* Faulty variant: the error of a chunk is not kept.
WriteFails_Forgotten ==
    /\ worker = "lines" /\ Breaks # {} /\ Fault
    /\ \E n \in Breaks :
         /\ \A m \in Breaks : m <= n
         /\ lost' = lost \cup (start .. n)
         /\ start' = n + 1
    /\ worker' = "recv"
    /\ UNCHANGED <<ends, queue, call, got, written, synced, lastError, mine, cuts, told>>

\* The file cannot be created or written: this line and the complete ones after
\* it are gone from the buffer.
WriteFails ==
    /\ worker = "lines" /\ Breaks # {} /\ Fault
    /\ \E n \in Breaks :
         /\ \A m \in Breaks : m <= n
         /\ lost' = lost \cup (start .. n)
         /\ start' = n + 1
    /\ lastError' = TRUE
    /\ worker' = "recv"
    /\ UNCHANGED <<ends, queue, call, got, written, synced, mine, cuts, told>>

\* flush_if_due after the lines of a chunk: it may be due, and it may fail.
Processed ==
    /\ worker = "lines" /\ Breaks = {}
    /\ worker' = "recv"
    /\ synced' \in {synced, Len(written)}
    /\ UNCHANGED <<ends, queue, call, got, start, written, lastError, history>>

ProcessedFails ==
    /\ worker = "lines" /\ Breaks = {} /\ synced # Len(written) /\ Fault
    /\ worker' = "recv"
    /\ lastError' = TRUE
    /\ UNCHANGED <<ends, queue, call, got, start, written, synced, mine, cuts, lost, told>>

\* Faulty variant: the timeout waits for more bytes.
Timeout_ByBytes ==
    /\ worker = "recv" /\ queue = <<>> /\ synced # Len(written)
    /\ UNCHANGED vars

\* RecvTimeoutError::Timeout: nothing came for the flush interval, so that the
\* last flush is as old.
Timeout ==
    /\ worker = "recv" /\ queue = <<>> /\ synced # Len(written)
    /\ synced' = Len(written)
    /\ UNCHANGED <<ends, queue, call, worker, got, start, written, lastError, history>>

TimeoutFails ==
    /\ worker = "recv" /\ queue = <<>> /\ synced # Len(written) /\ Fault
    /\ lastError' = TRUE
    /\ UNCHANGED <<ends, queue, call, worker, got, start, written, synced, mine, cuts, lost, told>>

-----------------------------------------------------------------------------
(* flush_worker *)

Asked == worker = "recv" /\ queue # <<>> /\ Head(queue).kind = "flush"

\* Faulty variant: the partial line stays in the buffer.
Emptied_KeepsPartial ==
    /\ written' = written
    /\ synced' = Len(written')
    /\ UNCHANGED <<start, got, cuts>>

\* flush_partial_line and flush_writer.
Emptied ==
    /\ written' = IF start > got THEN written ELSE Append(written, [from |-> start, to |-> got])
    /\ synced' = Len(written')
    /\ start' = got + 1
    /\ cuts' = IF start > got THEN cuts ELSE cuts \cup {got}
    /\ UNCHANGED got

\* Faulty variant: a failing flush_worker skips the acknowledgement.
Answer_OnSuccess(how) ==
    /\ queue' = Tail(queue)
    /\ call' = IF how = "ok" THEN [call EXCEPT ![Head(queue).by] = how] ELSE call
    /\ UNCHANGED <<ends, worker, mine>>

Answer(how) ==
    /\ queue' = Tail(queue)
    /\ call' = [call EXCEPT ![Head(queue).by] = how]
    /\ UNCHANGED <<ends, worker, mine>>

FlushOk ==
    /\ Asked /\ ~lastError
    /\ Emptied
    /\ Answer("ok")
    /\ UNCHANGED <<lastError, faults, lost, told>>

\* last_error.take()
FlushReports ==
    /\ Asked /\ lastError
    /\ Emptied
    /\ lastError' = FALSE
    /\ told' = lost
    /\ Answer("failed")
    /\ UNCHANGED <<faults, lost>>

\* flush_partial_line fails: the partial line was taken from the buffer.
FlushLosesPartial ==
    /\ Asked /\ start <= got /\ Fault
    /\ lost' = lost \cup (start .. got)
    /\ told' = lost'
    /\ start' = got + 1
    /\ cuts' = cuts \cup {got}
    /\ Answer("failed")
    /\ UNCHANGED <<got, written, synced, lastError>>

\* flush_writer fails: the writer keeps its buffer.
FlushNotSynced ==
    /\ Asked /\ Fault
    /\ written' = IF start > got THEN written ELSE Append(written, [from |-> start, to |-> got])
    /\ start' = got + 1
    /\ cuts' = IF start > got THEN cuts ELSE cuts \cup {got}
    /\ synced # Len(written')
    /\ told' = lost
    /\ Answer("failed")
    /\ UNCHANGED <<got, synced, lastError, lost>>

\* RecvTimeoutError::Disconnected: the last flush has nobody to answer ...
Abandoned == worker = "recv" /\ queue = <<>> /\ \A u \in Users : call[u] = "gone"

Disconnected ==
    /\ Abandoned
    /\ worker' = "done"
    /\ Emptied
    /\ UNCHANGED <<ends, queue, call, lastError, faults, mine, lost, told>>

\* ... and nobody to tell of its failure.  The drop of the writer may still
\* flush it.
DisconnectedFails ==
    /\ Abandoned /\ Fault
    /\ worker' = "done"
    /\ synced' \in {synced, Len(written)}
    /\ UNCHANGED <<ends, queue, call, got, start, written, lastError, mine, cuts, told>>
    /\ lost' = lost \cup {n \in 1 .. got : ~InFile(n)'}

Worker ==
    \/ Receive \/ WriteLine \/ WriteFails \/ Processed \/ ProcessedFails
    \/ Timeout \/ TimeoutFails
    \/ FlushOk \/ FlushReports \/ FlushLosesPartial \/ FlushNotSynced
    \/ Disconnected \/ DisconnectedFails

\* Nobody logs any more.
Over == worker \in {"off", "done"} /\ (\A u \in Users : call[u] = "gone") /\ UNCHANGED vars

-----------------------------------------------------------------------------
Init ==
    /\ ends = <<>> /\ queue = <<>>
    /\ call = [u \in Users |-> "idle"]
    /\ worker = "off"
    /\ got = 0 /\ start = 1
    /\ written = <<>> /\ synced = 0 /\ lastError = FALSE
    /\ faults = 0 /\ mine = [u \in Users |-> 0]
    /\ cuts = {} /\ lost = {} /\ told = {}

Next == (\E u \in Users : Log(u) \/ Flush(u) \/ Leave(u)) \/ Worker \/ Over

Spec == Init /\ [][Next]_vars

\* The worker thread runs; its users owe nothing.
FairSpec == Spec /\ WF_vars(Worker)

-----------------------------------------------------------------------------
(* Properties *)

Commands == [kind : {"chunk", "flush"}, last : Nat, by : Users \cup {"nobody"}]
Lines == [from : Nat, to : Nat]

TypeOK ==
    /\ ends \in Seq(BOOLEAN)
    /\ queue \in Seq(Commands) /\ Len(queue) <= Cap
    /\ call \in [Users -> {"idle", "waiting", "ok", "failed", "gone"}]
    /\ worker \in {"off", "recv", "lines", "done"}
    /\ got \in 0 .. Len(ends) /\ start \in 1 .. got + 1
    /\ written \in Seq(Lines) /\ synced \in 0 .. Len(written)
    /\ lastError \in BOOLEAN
    /\ faults \in Nat /\ mine \in [Users -> Nat]
    /\ cuts \subseteq Nat /\ lost \subseteq Nat /\ told \subseteq Nat

\* A flush that succeeds leaves everything its caller logged in the file, but
\* for pieces that an earlier failed flush has told of: a success is about the
\* writes before it, too, whoever made them (flush_worker and last_error).
FlushIsDurable ==
    [][\A u \in Users : call[u] = "waiting" /\ call'[u] = "ok" =>
          \A n \in 1 .. mine[u] : InFile(n)' \/ n \in told]_vars

\* While anybody holds the logger no text is lost without a word: until some
\* flush has failed for it, the error of the loss is kept for the next one.
NoSilentLoss == worker = "done" \/ lost \subseteq told \/ lastError

\* The log holds each piece once at most, in the order the pieces were logged,
\* whatever failed in between.
LogInOrder ==
    \A i \in 1 .. Len(written) :
        /\ written[i].from <= written[i].to
        /\ written[i].to < start
        /\ \A j \in 1 .. i - 1 : written[j].to < written[i].from

\* Redaction sees a whole line at a time: a line of the log begins after a line
\* break and ends with the next one, except where a flush has cut it.
LinesAreWhole ==
    \A i \in 1 .. Len(written) :
        LET l == written[i] IN
        /\ l.from = 1 \/ ends[l.from - 1] \/ l.from - 1 \in cuts
        /\ ends[l.to] \/ l.to \in cuts
        /\ \A n \in l.from .. l.to - 1 : ~ends[n]

\* What the log holds is the session: its whole lines, none twice and none out of order,
\* whichever of them a failure has taken.
LogIsTheSession == LogInOrder /\ LinesAreWhole

\* Once the session is quiet, its complete lines reach the file though nobody
\* flushes (the timeout of run_worker).
LinesReachFile ==
    \A n \in 1 .. MaxPieces : n < start ~> InFile(n) \/ n \in lost

\* A flush is answered, also when it fails or the queue is full before it.
FlushReturns == \A u \in Users : call[u] = "waiting" ~> call[u] # "waiting"
===============================================================================
