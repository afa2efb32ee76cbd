----------------------------- MODULE PtyRuntime -----------------------------
(***************************************************************************)
(* The interactive SSH session of process/pty_runtime.rs: a child on a     *)
(* pseudo-terminal and three threads around it.                            *)
(*                                                                         *)
(*   reader    spawn_pty_output_reader (process/pty_output.rs): logs what  *)
(*             it reads, then sends it to the event queue                  *)
(*   watcher   spawn_exit_watcher: waits for the child, holding the        *)
(*             child's mutex all the while                                 *)
(*   main      run_interactive_command and run_pty_event_loop              *)
(*                                                                         *)
(* A chunk of output is its number.                                        *)
(***************************************************************************)
EXTENDS Naturals, Sequences

CONSTANTS
    QueueCap,   \* PTY_EVENT_QUEUE_CAPACITY
    Grace,      \* seconds the loop waits for the reader after the exit
    PipeCap,    \* chunks the terminal buffers on their way to the reader
    InputCap,   \* pieces of input it buffers on their way to the child
    MaxOutput,  \* bound: chunks the child writes
    MaxInput    \* bound: pieces of input the user types or pastes

ASSUME CapAssumption == {QueueCap, PipeCap, InputCap} \subseteq Nat \ {0}
ASSUME BoundAssumption == {Grace, MaxOutput, MaxInput} \subseteq Nat

VARIABLES
    child,      \* the child process
    open,       \* whether a process holds the child's side of the terminal
    written,    \* chunks written so far
    pipe,       \* how many of them the reader has not read
    input,      \* pieces of input the child has not read
    reader,     \* where the reader thread is
    watcher,    \* where the exit watcher is
    queue,      \* event_tx .. event_rx
    logged,     \* the last chunk handed to the session log
    main,       \* where the event loop is
    typed,      \* pieces of input written so far
    status,     \* exit_status.is_some()
    closed,     \* reader_closed
    grace,      \* seconds left since exit_received_at, or Grace + 1 before it
    shown,      \* the last chunk the terminal engine processed
    flushed     \* the last chunk in the log file when the log was flushed

childVars == <<child, open, written, pipe, input>>
loopVars == <<typed, status, closed, grace, shown, flushed>>
vars == <<childVars, reader, watcher, queue, logged, main, loopVars>>

Chunk(n) == [kind |-> "output", chunk |-> n]
Event(k) == [kind |-> k, chunk |-> 0]
Events == [kind : {"output", "closed", "exited"}, chunk : Nat]

Receiving == main # "returned"

\* SyncSender::send, which waits for room; it fails once the receiver is gone.
Send(e) ==
    IF Receiving
    THEN Len(queue) < QueueCap /\ queue' = Append(queue, e)
    ELSE UNCHANGED queue

-----------------------------------------------------------------------------
(* The child, the processes it leaves behind, and the terminal between *)

Output ==
    /\ open /\ pipe < PipeCap /\ written < MaxOutput
    /\ written' = written + 1
    /\ pipe' = pipe + 1
    /\ UNCHANGED <<child, open, input, reader, watcher, queue, logged, main, loopVars>>

TakeInput ==
    /\ open /\ input > 0
    /\ input' = input - 1
    /\ UNCHANGED <<child, open, written, pipe, reader, watcher, queue, logged, main, loopVars>>

HangUp ==
    /\ open
    /\ open' = FALSE
    /\ UNCHANGED <<child, written, pipe, input, reader, watcher, queue, logged, main, loopVars>>

\* A background process may keep the terminal.
Exit ==
    /\ child = "running"
    /\ child' = "exited"
    /\ open' \in {open, FALSE}
    /\ UNCHANGED <<written, pipe, input, reader, watcher, queue, logged, main, loopVars>>

-----------------------------------------------------------------------------
(* spawn_pty_output_reader *)

\* Faulty variant: a chunk is logged when the next one is read.
Read_LogsLater ==
    /\ reader = "read" /\ pipe > 0
    /\ reader' = "send"
    /\ pipe' = pipe - 1
    /\ UNCHANGED <<child, open, written, input, watcher, queue, main, loopVars>>
    /\ logged' = written - pipe

\* log_target.log_bytes, then handle_bytes.
Read ==
    /\ reader = "read" /\ pipe > 0
    /\ reader' = "send"
    /\ pipe' = pipe - 1
    /\ logged' = written - pipe + 1
    /\ UNCHANGED <<child, open, written, input, watcher, queue, main, loopVars>>

\* Faulty variant: the chunk is offered with try_send.
Sent_Dropping ==
    /\ reader = "send"
    /\ reader' = "read"
    /\ queue' = IF Len(queue) < QueueCap THEN Append(queue, Chunk(written - pipe)) ELSE queue
    /\ UNCHANGED <<childVars, watcher, logged, main, loopVars>>

\* handle_bytes: without a receiver the thread ends.
Sent ==
    /\ reader = "send"
    /\ Send(Chunk(written - pipe))
    /\ reader' = IF Receiving THEN "read" ELSE "finish"
    /\ UNCHANGED <<childVars, watcher, logged, main, loopVars>>

\* Everyone has closed the terminal: read returns 0 or an error.
EndOfOutput ==
    /\ reader = "read" /\ pipe = 0 /\ ~open
    /\ reader' = "close"
    /\ UNCHANGED <<childVars, watcher, queue, logged, main, loopVars>>

\* handle_closed
Closed ==
    /\ reader = "close"
    /\ Send(Event("closed"))
    /\ reader' = "finish"
    /\ UNCHANGED <<childVars, watcher, logged, main, loopVars>>

\* log_target.finish, and the thread's sender is dropped.
Finish ==
    /\ reader = "finish"
    /\ reader' = "done"
    /\ UNCHANGED <<childVars, watcher, queue, logged, main, loopVars>>

Reader == Read \/ Sent \/ EndOfOutput \/ Closed \/ Finish

-----------------------------------------------------------------------------
(* spawn_exit_watcher *)

LockChild ==
    /\ watcher = "lock"
    /\ watcher' = "wait"
    /\ UNCHANGED <<childVars, reader, queue, logged, main, loopVars>>

\* child.wait() returns, and the guard is dropped.
Reap ==
    /\ watcher = "wait" /\ child = "exited"
    /\ watcher' = "send"
    /\ UNCHANGED <<childVars, reader, queue, logged, main, loopVars>>

\* event_tx.send(Exited)
Exited ==
    /\ watcher = "send"
    /\ Send(Event("exited"))
    /\ watcher' = "done"
    /\ UNCHANGED <<childVars, reader, logged, main, loopVars>>

Watcher == LockChild \/ Reap \/ Exited

-----------------------------------------------------------------------------
(* run_pty_event_loop, and run_interactive_command around it *)

\* drain_pty_runtime_events: one event ...
Drain ==
    /\ main = "drain" /\ queue # <<>>
    /\ queue' = Tail(queue)
    /\ shown' = IF Head(queue).kind = "output" THEN Head(queue).chunk ELSE shown
    /\ closed' = (closed \/ Head(queue).kind = "closed")
    /\ status' = (status \/ Head(queue).kind = "exited")
    /\ UNCHANGED <<childVars, reader, watcher, logged, main, typed, grace, flushed>>

\* ... until there is none, which is Disconnected once both threads are done.
Drained ==
    /\ main = "drain" /\ queue = <<>>
    /\ closed' = (closed \/ (reader = "done" /\ watcher = "done"))
    /\ main' = "draw"
    /\ UNCHANGED <<childVars, reader, watcher, queue, logged, typed, status, grace, shown, flushed>>

Draw ==
    /\ main = "draw"
    /\ main' = "decide"
    /\ UNCHANGED <<childVars, reader, watcher, queue, logged, loopVars>>

\* Faulty variant: the exit alone ends the loop.
Decide_OnExit ==
    /\ main = "decide"
    /\ main' = IF status THEN "flush" ELSE "poll"
    /\ UNCHANGED <<childVars, reader, watcher, queue, logged, loopVars>>

\* Faulty variant: the reader has no grace period.
Decide_Patiently ==
    /\ main = "decide"
    /\ main' = IF status /\ closed THEN "flush" ELSE "poll"
    /\ UNCHANGED <<childVars, reader, watcher, queue, logged, loopVars>>

\* Out of the loop when the child has exited and the reader has closed, or has
\* had its time to.
Decide ==
    /\ main = "decide"
    /\ grace' = IF status /\ ~closed /\ grace > Grace THEN Grace ELSE grace
    /\ main' = IF status /\ (closed \/ grace' = 0) THEN "flush" ELSE "poll"
    /\ UNCHANGED <<childVars, reader, watcher, queue, logged,
                   typed, status, closed, shown, flushed>>

\* event::poll times out, or the event writes nothing.
Poll ==
    /\ main = "poll"
    /\ main' = "drain"
    /\ UNCHANGED <<childVars, reader, watcher, queue, logged, loopVars>>

\* process_runtime_input_event: a key, a mouse report or a paste.
Type ==
    /\ main = "poll" /\ typed < MaxInput
    /\ main' = "write"
    /\ UNCHANGED <<childVars, reader, watcher, queue, logged, loopVars>>

\* write_all, a piece at a time; it waits while the terminal has no room.
Write ==
    /\ main = "write" /\ open /\ input < InputCap /\ typed < MaxInput
    /\ input' = input + 1
    /\ typed' = typed + 1
    /\ main' \in (IF typed' < MaxInput THEN {"write", "drain"} ELSE {"drain"})
    /\ UNCHANGED <<child, open, written, pipe, reader, watcher, queue, logged,
                   status, closed, grace, shown, flushed>>

WriteFails ==
    /\ main = "write" /\ ~open
    /\ main' = "terminate"
    /\ UNCHANGED <<childVars, reader, watcher, queue, logged, loopVars>>

\* Rebuilding the terminal, drawing, polling, reading an event or restoring the
\* host terminal fails.
Fail ==
    /\ main \in {"drain", "draw", "poll", "flush"}
    /\ main' = "terminate"
    /\ UNCHANGED <<childVars, reader, watcher, queue, logged, loopVars>>

\* flush_ssh, and the loop returns the exit status.
Flush ==
    /\ main = "flush"
    /\ flushed' = logged
    /\ main' = "returned"
    /\ UNCHANGED <<childVars, reader, watcher, queue, logged, typed, status, closed, grace, shown>>

\* Faulty variant: the child is left to itself when it cannot be locked.
Terminate_TryLock ==
    /\ main = "terminate"
    /\ child' = IF watcher = "wait" THEN child ELSE "exited"
    /\ main' = "returned"
    /\ UNCHANGED <<open, written, pipe, input, reader, watcher, queue, logged, loopVars>>

\* TerminalSession::terminate: it locks the child, kills it and returns.
Terminate ==
    /\ main = "terminate" /\ watcher # "wait"
    /\ child' = "exited"
    /\ open' \in {open, FALSE}
    /\ main' = "returned"
    /\ UNCHANGED <<written, pipe, input, reader, watcher, queue, logged, loopVars>>

Main ==
    \/ Drain \/ Drained \/ Draw \/ Decide \/ Poll \/ Type \/ Write \/ WriteFails
    \/ Fail \/ Flush \/ Terminate

\* A second of the grace period goes by.
Tick ==
    /\ grace \in 1 .. Grace
    /\ grace' = grace - 1
    /\ UNCHANGED <<childVars, reader, watcher, queue, logged, main,
                   typed, status, closed, shown, flushed>>

\* The command is over and nothing is left to do.
Over == main = "returned" /\ UNCHANGED vars

-----------------------------------------------------------------------------
\* Both threads are started, and input may be waiting: the stdin payload.
Init ==
    /\ child = "running" /\ open = TRUE
    /\ written = 0 /\ pipe = 0 /\ input = 0
    /\ reader = "read" /\ watcher = "lock"
    /\ main \in {"drain", "write"}
    /\ queue = <<>>
    /\ logged = 0 /\ shown = 0 /\ flushed = 0
    /\ typed = 0
    /\ status = FALSE /\ closed = FALSE
    /\ grace = Grace + 1

Next ==
    \/ Output \/ TakeInput \/ HangUp \/ Exit
    \/ Reader \/ Watcher \/ Main \/ Tick \/ Over

Spec == Init /\ [][Next]_vars

\* The threads run and time passes; the child and the user owe nothing.
FairSpec ==
    /\ Spec
    /\ WF_vars(Reader) /\ WF_vars(Watcher) /\ WF_vars(Main) /\ WF_vars(Tick)

-----------------------------------------------------------------------------
(* Properties *)

TypeOK ==
    /\ child \in {"running", "exited"} /\ open \in BOOLEAN
    /\ written \in Nat /\ pipe \in 0 .. PipeCap /\ input \in 0 .. InputCap
    /\ reader \in {"read", "send", "close", "finish", "done"}
    /\ watcher \in {"lock", "wait", "send", "done"}
    /\ queue \in Seq(Events) /\ Len(queue) <= QueueCap
    /\ main \in {"drain", "draw", "decide", "poll", "write", "flush", "terminate", "returned"}
    /\ {logged, typed, shown, flushed} \subseteq Nat
    /\ status \in BOOLEAN /\ closed \in BOOLEAN
    /\ grace \in 0 .. Grace + 1

\* The terminal shows every chunk once, in the order it was written, however
\* the queue fills and whenever the exit is reported.
OutputInOrder == [][shown' # shown => shown' = shown + 1]_vars

\* Unless the grace period ran out, the loop ends with the whole output of the
\* session shown and in the log: the exit status alone does not end it.
CompleteOnReturn == main = "flush" /\ grace # 0 => shown = written /\ logged = written

\* What the user has seen is in the session log.
ShownIsLogged == shown <= logged

\* cossh gives the terminal back only when the child is gone.
ReturnedMeansGone == main = "returned" => child = "exited"

\* The loop waits for a terminal that takes no more input.
InputStuck == main = "write" /\ open /\ input = InputCap

\* "proceed with cleanup rather than hanging forever": the command ends after
\* its child does, even when a background process keeps the terminal and the
\* reader never closes.  Only input that nobody reads can stop it.
ExitEndsLoop == (child = "exited" ~> main = "returned") \/ <>[]InputStuck

\* "Closing a tab should always terminate the underlying managed process tree."
TerminateKills == main = "terminate" ~> child = "exited"
=============================================================================
