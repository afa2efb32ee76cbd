---------------------------- MODULE SshLogProofs ----------------------------
(***************************************************************************)
(* Proofs about SshLog for any number of threads, any queue, any text and  *)
(* any number of failing file operations.                                  *)
(*                                                                         *)
(* What a flush promises rests on two facts: the queue keeps what a thread *)
(* logged ahead of that thread's flush, and each piece that has left the   *)
(* line buffer is in a line given to the writer or counted as lost.        *)
(***************************************************************************)
EXTENDS SshLog, TLAPS

Index == 1 .. Len(queue)
IsChunk(i) == queue[i].kind = "chunk"
IsFlush(i) == queue[i].kind = "flush"

\* Chunks are received in the order their pieces were numbered.
QueueOrdered ==
    /\ \A i \in Index : IsChunk(i) => queue[i].last \in got + 1 .. Len(ends)
    /\ \A i, j \in Index : i < j /\ IsChunk(i) /\ IsChunk(j) => queue[i].last < queue[j].last

\* A queued flush has a thread that waits for it and for no other.
FlushesBelong ==
    /\ \A i \in Index : IsFlush(i) => queue[i].by \in Users /\ call[queue[i].by] = "waiting"
    /\ \A i, j \in Index : i # j /\ IsFlush(i) /\ IsFlush(j) => queue[i].by # queue[j].by

\* What a thread logged has been received or is queued, ahead of its flush.
MineAhead ==
    /\ \A u \in Users : mine[u] <= got \/ \E i \in Index : IsChunk(i) /\ queue[i].last = mine[u]
    /\ \A j \in Index : IsFlush(j) =>
          \/ mine[queue[j].by] <= got
          \/ \E i \in 1 .. j - 1 : IsChunk(i) /\ queue[i].last = mine[queue[j].by]

\* Pieces that have left the line buffer were written or lost.
Accounted ==
    \A n \in 1 .. start - 1 :
        n \in lost \/ \E i \in 1 .. Len(written) : n \in written[i].from .. written[i].to

\* The line buffer begins a line, and holds a break only while it is processed.
BufferInLine ==
    /\ start = 1 \/ ends[start - 1] \/ start - 1 \in cuts
    /\ worker # "lines" => \A n \in start .. got : ~ends[n]

LinesPlaced == \A i \in 1 .. Len(written) : written[i].from >= 1

QueueInv == QueueOrdered /\ FlushesBelong /\ MineAhead
TextInv == LogInOrder /\ LinesPlaced /\ LinesAreWhole /\ BufferInLine /\ Accounted
IInv == TypeOK /\ QueueInv /\ TextInv /\ NoSilentLoss

-----------------------------------------------------------------------------
(* Sequences *)

LEMMA Appended ==
    ASSUME NEW S, NEW s \in Seq(S), NEW e \in S
    PROVE  /\ Append(s, e) \in Seq(S)
           /\ Len(Append(s, e)) = Len(s) + 1
           /\ \A i \in 1 .. Len(s) : Append(s, e)[i] = s[i]
           /\ Append(s, e)[Len(s) + 1] = e
    OBVIOUS

LEMMA Popped ==
    ASSUME NEW S, NEW s \in Seq(S), s # <<>>
    PROVE  /\ Tail(s) \in Seq(S)
           /\ Len(s) \in Nat \ {0}
           /\ Len(Tail(s)) = Len(s) - 1
           /\ \A i \in 1 .. Len(s) - 1 : Tail(s)[i] = s[i + 1]
           /\ Head(s) = s[1] /\ Head(s) \in S
    OBVIOUS

\* The pieces of a chunk.
LEMMA LogAdds ==
    ASSUME TypeOK, NEW u \in Users, Log(u)
    PROVE  /\ ends' \in Seq(BOOLEAN) /\ Len(ends') > Len(ends)
           /\ \A n \in 1 .. Len(ends) : ends'[n] = ends[n]
<1>1. PICK more \in {<<TRUE>>, <<FALSE>>} \cup {<<TRUE, b>> : b \in BOOLEAN} : ends' = ends \o more
    BY DEF Log
<1>2. more \in Seq(BOOLEAN) /\ Len(more) > 0
    <2>1. CASE more \in {<<TRUE>>, <<FALSE>>}
        <3>1. PICK b \in BOOLEAN : more = <<b>>
            BY <2>1
        <3> QED
            BY <3>1
    <2>2. CASE more \in {<<TRUE, b>> : b \in BOOLEAN}
        <3>1. PICK b \in BOOLEAN : more = <<TRUE, b>>
            BY <2>2
        <3> QED
            BY <3>1
    <2> QED
        BY <2>1, <2>2
<1>3. ends \in Seq(BOOLEAN)
    BY DEF TypeOK
<1> HIDE DEF TypeOK
<1> QED
    BY <1>1, <1>2, <1>3

-----------------------------------------------------------------------------
(* Types *)

LEMMA TypeInit == Init => TypeOK
<1> SUFFICES ASSUME Init PROVE TypeOK
    OBVIOUS
<1>1. Len(queue) <= Cap /\ queue \in Seq(Commands)
    BY CapAssumption DEF Init
<1>2. synced \in 0 .. Len(written) /\ written \in Seq(Lines) /\ ends \in Seq(BOOLEAN)
    BY DEF Init
<1>3. got \in 0 .. Len(ends) /\ start \in 1 .. got + 1
    BY DEF Init
<1> QED
    BY <1>1, <1>2, <1>3 DEF Init, TypeOK

\* A line taken from the buffer and appended to the log.
LEMMA LineType ==
    ASSUME TypeOK, NEW n \in start .. got
    PROVE  [from |-> start, to |-> n] \in Lines /\ n \in Nat
    BY DEF TypeOK, Lines

LEMMA EmptiedType ==
    ASSUME TypeOK
    PROVE  LET w == IF start > got THEN written ELSE Append(written, [from |-> start, to |-> got])
               c == IF start > got THEN cuts ELSE cuts \cup {got}
           IN  /\ w \in Seq(Lines) /\ Len(w) >= Len(written) /\ Len(w) \in Nat
               /\ c \subseteq Nat
               /\ got + 1 \in 1 .. got + 1
<1>1. CASE start > got
    BY <1>1 DEF TypeOK
<1>2. CASE ~(start > got)
    <2>1. [from |-> start, to |-> got] \in Lines
        BY <1>2 DEF TypeOK, Lines
    <2>2. written \in Seq(Lines) /\ got \in Nat
        BY DEF TypeOK
    <2> QED
        BY <1>2, <2>1, <2>2, Appended DEF TypeOK
<1> QED
    BY <1>1, <1>2

LEMMA AnswerType ==
    ASSUME TypeOK, FlushesBelong, Asked, NEW how \in {"ok", "failed"}, Answer(how)
    PROVE  /\ queue' \in Seq(Commands) /\ Len(queue') <= Cap
           /\ call' \in [Users -> {"idle", "waiting", "ok", "failed", "gone"}]
           /\ ends' = ends /\ worker' = worker /\ mine' = mine
<1>1. queue \in Seq(Commands) /\ queue # <<>> /\ Len(queue) <= Cap /\ Head(queue) = queue[1]
    BY Popped DEF TypeOK, Asked
<1>2. queue' \in Seq(Commands) /\ Len(queue') <= Cap
    BY <1>1, Popped, CapAssumption DEF Answer
<1>3. call' = [call EXCEPT ![Head(queue).by] = how]
    BY DEF Answer
<1> QED
    BY <1>2, <1>3 DEF Answer, TypeOK

LEMMA TypeStep == TypeOK /\ QueueInv /\ [Next]_vars => TypeOK'
<1> SUFFICES ASSUME TypeOK, QueueInv, [Next]_vars PROVE TypeOK'
    OBVIOUS
<1> USE DEF textVars, history
<1>0. CASE UNCHANGED vars
    BY <1>0 DEF TypeOK, vars
<1>1. ASSUME NEW u \in Users, Log(u) PROVE TypeOK'
    <2>1. ends' \in Seq(BOOLEAN) /\ Len(ends') > Len(ends)
        BY <1>1, LogAdds
    <2>2. Len(ends') \in Nat /\ Chunk(Len(ends')) \in Commands
        BY <2>1 DEF Chunk, Commands
    <2>3. queue' \in Seq(Commands) /\ Len(queue') <= Cap
        BY <1>1, <2>2, Appended, CapAssumption DEF Log, Enqueue, TypeOK
    <2>4. got' \in 0 .. Len(ends') /\ start' \in 1 .. got' + 1
        BY <1>1, <2>1 DEF Log, TypeOK
    <2>5. mine' \in [Users -> Nat] /\ call' \in [Users -> {"idle", "waiting", "ok", "failed", "gone"}]
        BY <1>1, <2>2 DEF Log, TypeOK
    <2>6. worker' \in {"off", "recv", "lines", "done"}
        BY <1>1 DEF Log, Enqueue, TypeOK
    <2> QED
        BY <1>1, <2>1, <2>3, <2>4, <2>5, <2>6 DEF Log, TypeOK
<1>2. ASSUME NEW u \in Users, Flush(u) PROVE TypeOK'
    <2>1. FlushBy(u) \in Commands
        BY DEF FlushBy, Commands
    <2>2. queue' \in Seq(Commands) /\ Len(queue') <= Cap
        BY <1>2, <2>1, Appended, CapAssumption DEF Flush, Enqueue, TypeOK
    <2> QED
        BY <1>2, <2>2 DEF Flush, Enqueue, TypeOK
<1>3. ASSUME NEW u \in Users, Leave(u) PROVE TypeOK'
    BY <1>3 DEF Leave, TypeOK
<1>4. CASE Receive
    <2>1. queue' \in Seq(Commands) /\ Len(queue') <= Cap
        BY <1>4, Popped, CapAssumption DEF Receive, TypeOK
    <2>2. queue[1].last \in got + 1 .. Len(ends) /\ got' = queue[1].last
        BY <1>4, Popped DEF Receive, TypeOK, QueueInv, QueueOrdered, Index, IsChunk
    <2>3. got' \in 0 .. Len(ends') /\ start' \in 1 .. got' + 1
        BY <1>4, <2>2 DEF Receive, TypeOK
    <2> QED
        BY <1>4, <2>1, <2>3 DEF Receive, TypeOK
<1>5. CASE WriteLine
    <2>1. PICK n \in start .. got : written' = Append(written, [from |-> start, to |-> n]) /\ start' = n + 1
        BY <1>5 DEF WriteLine, Breaks
    <2>2. written' \in Seq(Lines) /\ Len(written') = Len(written) + 1 /\ n \in Nat
        BY <2>1, LineType, Appended DEF TypeOK
    <2>3. synced' \in 0 .. Len(written') /\ start' \in 1 .. got' + 1 /\ got' \in 0 .. Len(ends')
        BY <1>5, <2>1, <2>2 DEF WriteLine, TypeOK
    <2> QED
        BY <1>5, <2>2, <2>3 DEF WriteLine, TypeOK
<1>6. CASE WriteFails
    <2>1. PICK n \in start .. got : lost' = lost \cup (start .. n) /\ start' = n + 1
        BY <1>6 DEF WriteFails, Breaks
    <2>2. start' \in 1 .. got' + 1 /\ got' \in 0 .. Len(ends')
        BY <1>6, <2>1 DEF WriteFails, TypeOK
    <2>3. lost' \subseteq Nat
        BY <2>1 DEF TypeOK
    <2> QED
        BY <1>6, <2>2, <2>3 DEF WriteFails, Fault, TypeOK
<1>7. CASE Processed
    BY <1>7 DEF Processed, TypeOK
<1>8. CASE ProcessedFails
    BY <1>8 DEF ProcessedFails, Fault, TypeOK
<1>9. CASE Timeout
    BY <1>9 DEF Timeout, TypeOK
<1>10. CASE TimeoutFails
    BY <1>10 DEF TimeoutFails, Fault, TypeOK
<1>11. CASE FlushOk
    <2>1. Emptied /\ Asked /\ Answer("ok")
        BY <1>11 DEF FlushOk
    <2>2. written' \in Seq(Lines) /\ synced' \in 0 .. Len(written') /\ cuts' \subseteq Nat /\ start' \in 1 .. got' + 1
        BY <2>1, EmptiedType DEF Emptied
    <2> QED
        BY <1>11, <2>1, <2>2, AnswerType DEF FlushOk, Emptied, TypeOK, QueueInv
<1>12. CASE FlushReports
    <2>1. Emptied /\ Asked /\ Answer("failed")
        BY <1>12 DEF FlushReports
    <2>2. written' \in Seq(Lines) /\ synced' \in 0 .. Len(written') /\ cuts' \subseteq Nat /\ start' \in 1 .. got' + 1
        BY <2>1, EmptiedType DEF Emptied
    <2> QED
        BY <1>12, <2>1, <2>2, AnswerType DEF FlushReports, Emptied, TypeOK, QueueInv
<1>13. CASE FlushLosesPartial
    <2>1. Asked /\ Answer("failed")
        BY <1>13 DEF FlushLosesPartial
    <2>2. lost' \subseteq Nat /\ told' \subseteq Nat /\ cuts' \subseteq Nat /\ start' \in 1 .. got' + 1
        BY <1>13 DEF FlushLosesPartial, TypeOK
    <2> QED
        BY <1>13, <2>1, <2>2, AnswerType DEF FlushLosesPartial, Fault, TypeOK, QueueInv
<1>14. CASE FlushNotSynced
    <2>1. Asked /\ Answer("failed")
        BY <1>14 DEF FlushNotSynced
    <2>2. written' \in Seq(Lines) /\ Len(written') >= Len(written) /\ Len(written') \in Nat
             /\ cuts' \subseteq Nat /\ start' \in 1 .. got' + 1
        BY <1>14, EmptiedType DEF FlushNotSynced
    <2>3. synced' \in 0 .. Len(written')
        BY <1>14, <2>2 DEF FlushNotSynced, TypeOK
    <2> QED
        BY <1>14, <2>1, <2>2, <2>3, AnswerType, SMTT(20) DEF FlushNotSynced, Fault, TypeOK, QueueInv
<1>15. CASE Disconnected
    <2>1. written' \in Seq(Lines) /\ synced' \in 0 .. Len(written') /\ cuts' \subseteq Nat /\ start' \in 1 .. got' + 1
        BY <1>15, EmptiedType DEF Disconnected, Emptied
    <2> QED
        BY <1>15, <2>1 DEF Disconnected, Emptied, TypeOK
<1>16. CASE DisconnectedFails
    <2>1. lost \subseteq Nat /\ 1 .. got \subseteq Nat
        BY DEF TypeOK
    <2>2. lost' \subseteq Nat
        BY <1>16, <2>1 DEF DisconnectedFails
    <2>3. synced' \in 0 .. Len(written)
        BY <1>16 DEF DisconnectedFails, TypeOK
    <2> QED
        BY <1>16, <2>2, <2>3 DEF DisconnectedFails, Fault, TypeOK
<1>17. CASE Over
    BY <1>17 DEF Over, TypeOK, vars
<1> QED
    BY <1>0, <1>1, <1>2, <1>3, <1>4, <1>5, <1>6, <1>7, <1>8, <1>9, <1>10, <1>11, <1>12,
       <1>13, <1>14, <1>15, <1>16, <1>17 DEF Next, Worker

-----------------------------------------------------------------------------
(* The queue *)

\* A command is appended: nothing of what is queued moves.
LEMMA PushKeeps ==
    ASSUME TypeOK, QueueInv, NEW c \in Commands, queue' = Append(queue, c), got' = got
    PROVE  /\ Len(queue') = Len(queue) + 1 /\ queue'[Len(queue) + 1] = c
           /\ \A i \in Index : queue'[i] = queue[i]
           /\ Len(queue) \in Nat
    BY Appended DEF TypeOK, Index

LEMMA QueueLog ==
    ASSUME TypeOK, QueueInv, NEW u \in Users, Log(u)
    PROVE  QueueInv'
<1> DEFINE c == Chunk(Len(ends'))
           m == Len(queue)
<1>1. /\ ends' \in Seq(BOOLEAN) /\ Len(ends') > Len(ends)
      /\ Len(ends') \in Nat /\ Len(ends) \in Nat /\ got \in 0 .. Len(ends)
    BY LogAdds DEF TypeOK
<1>2. c \in Commands /\ c.kind = "chunk" /\ c.last = Len(ends')
    BY <1>1 DEF Chunk, Commands
<1>3. got' = got /\ queue' = Append(queue, c) /\ Free(u)
    BY DEF Log, Enqueue, textVars
<1>4. /\ Len(queue') = m + 1 /\ queue'[m + 1] = c /\ m \in Nat
      /\ \A i \in 1 .. m : queue'[i] = queue[i]
    <2> HIDE DEF c
    <2> QED
        BY <1>2, <1>3, PushKeeps DEF Index
<1>5. /\ mine'[u] = Len(ends') /\ \A v \in Users \ {u} : mine'[v] = mine[v] /\ call'[v] = call[v]
      /\ \A i \in 1 .. m : queue[i].kind = "flush" =>
            queue[i].by \in Users \ {u} /\ call[queue[i].by] = "waiting"
    BY <1>3 DEF Log, TypeOK, QueueInv, FlushesBelong, Free, Index, IsFlush
<1>6. QueueOrdered'
    BY <1>1, <1>2, <1>3, <1>4, SMTT(20) DEF QueueInv, QueueOrdered, Index, IsChunk
<1>7. FlushesBelong'
    BY <1>2, <1>4, <1>5 DEF QueueInv, FlushesBelong, Index, IsFlush
<1>8. MineAhead'
    <2>1. ASSUME NEW v \in Users
          PROVE  mine'[v] <= got' \/ \E i \in 1 .. Len(queue') : queue'[i].kind = "chunk" /\ queue'[i].last = mine'[v]
        <3>1. CASE v = u
            <4>1. m + 1 \in 1 .. Len(queue')
                BY <1>4
            <4> QED
                BY <3>1, <4>1, <1>2, <1>4, <1>5
        <3>2. CASE v # u
            BY <3>2, <1>3, <1>4, <1>5 DEF QueueInv, MineAhead, Index, IsChunk
        <3> QED
            BY <3>1, <3>2
    <2>2. ASSUME NEW j \in 1 .. Len(queue'), queue'[j].kind = "flush"
          PROVE  \/ mine'[queue'[j].by] <= got'
                 \/ \E i \in 1 .. j - 1 : queue'[i].kind = "chunk" /\ queue'[i].last = mine'[queue'[j].by]
        <3>1. j \in 1 .. m
            BY <2>2, <1>2, <1>4
        <3>2. queue'[j] = queue[j] /\ queue[j].by \in Users \ {u} /\ mine'[queue[j].by] = mine[queue[j].by]
            BY <2>2, <3>1, <1>4, <1>5
        <3>3. \/ mine[queue[j].by] <= got
              \/ \E i \in 1 .. j - 1 : queue[i].kind = "chunk" /\ queue[i].last = mine[queue[j].by]
            BY <2>2, <3>1, <3>2 DEF QueueInv, MineAhead, Index, IsChunk, IsFlush
        <3>4. \A i \in 1 .. j - 1 : queue'[i] = queue[i]
            BY <3>1, <1>4
        <3> QED
            BY <3>2, <3>3, <3>4, <1>3
    <2> QED
        BY <2>1, <2>2 DEF MineAhead, Index, IsChunk, IsFlush
<1> QED
    BY <1>6, <1>7, <1>8 DEF QueueInv

LEMMA QueueFlush ==
    ASSUME TypeOK, QueueInv, NEW u \in Users, Flush(u)
    PROVE  QueueInv'
<1> DEFINE c == FlushBy(u)
           m == Len(queue)
<1>2. c \in Commands /\ c.kind = "flush" /\ c.by = u
    BY DEF FlushBy, Commands
<1>3. got' = got /\ queue' = Append(queue, c) /\ Free(u) /\ ends' = ends /\ mine' = mine
    BY DEF Flush, Enqueue, textVars, history
<1>4. /\ Len(queue') = m + 1 /\ queue'[m + 1] = c /\ m \in Nat
      /\ \A i \in 1 .. m : queue'[i] = queue[i]
    <2> HIDE DEF c
    <2> QED
        BY <1>2, <1>3, PushKeeps DEF Index
<1>5. /\ call'[u] = "waiting" /\ \A v \in Users \ {u} : call'[v] = call[v]
      /\ \A i \in 1 .. m : queue[i].kind = "flush" =>
            queue[i].by \in Users \ {u} /\ call[queue[i].by] = "waiting"
    BY <1>3 DEF Flush, TypeOK, QueueInv, FlushesBelong, Free, Index, IsFlush
<1>6. QueueOrdered'
    BY <1>2, <1>3, <1>4 DEF QueueInv, QueueOrdered, Index, IsChunk
<1>7. FlushesBelong'
    BY <1>2, <1>4, <1>5 DEF QueueInv, FlushesBelong, Index, IsFlush
<1>8. MineAhead'
    <2>1. ASSUME NEW v \in Users
          PROVE  mine'[v] <= got' \/ \E i \in 1 .. Len(queue') : queue'[i].kind = "chunk" /\ queue'[i].last = mine'[v]
        BY <1>3, <1>4 DEF QueueInv, MineAhead, Index, IsChunk
    <2>2. ASSUME NEW j \in 1 .. Len(queue'), queue'[j].kind = "flush"
          PROVE  \/ mine'[queue'[j].by] <= got'
                 \/ \E i \in 1 .. j - 1 : queue'[i].kind = "chunk" /\ queue'[i].last = mine'[queue'[j].by]
        <3>1. CASE j \in 1 .. m
            <4>1. queue'[j] = queue[j] /\ \A i \in 1 .. j - 1 : queue'[i] = queue[i]
                BY <3>1, <1>4
            <4>2. \/ mine[queue[j].by] <= got
                  \/ \E i \in 1 .. j - 1 : queue[i].kind = "chunk" /\ queue[i].last = mine[queue[j].by]
                BY <2>2, <3>1, <4>1 DEF QueueInv, MineAhead, Index, IsChunk, IsFlush
            <4> QED
                BY <4>1, <4>2, <1>3
        <3>2. CASE j = m + 1
            <4>1. mine[u] <= got \/ \E i \in 1 .. m : queue[i].kind = "chunk" /\ queue[i].last = mine[u]
                BY DEF QueueInv, MineAhead, Index, IsChunk
            <4>2. queue'[j].by = u /\ j - 1 = m
                BY <3>2, <1>2, <1>4
            <4> QED
                BY <4>1, <4>2, <1>3, <1>4
        <3> QED
            BY <3>1, <3>2, <1>4
    <2> QED
        BY <2>1, <2>2 DEF MineAhead, Index, IsChunk, IsFlush
<1> QED
    BY <1>6, <1>7, <1>8 DEF QueueInv

\* The head is taken: what is queued moves up by one.
LEMMA PopMoves ==
    ASSUME TypeOK, queue # <<>>, queue' = Tail(queue)
    PROVE  /\ Len(queue) \in Nat \ {0} /\ Len(queue') = Len(queue) - 1
           /\ Head(queue) = queue[1] /\ queue[1] \in Commands
           /\ \A i \in 1 .. Len(queue') : i + 1 \in 1 .. Len(queue) /\ queue'[i] = queue[i + 1]
           /\ \A i \in 2 .. Len(queue) : i - 1 \in 1 .. Len(queue') /\ queue'[i - 1] = queue[i]
<1>1. queue \in Seq(Commands)
    BY DEF TypeOK
<1>2. /\ Len(queue) \in Nat \ {0} /\ Len(queue') = Len(queue) - 1
      /\ Head(queue) = queue[1] /\ queue[1] \in Commands
      /\ \A i \in 1 .. Len(queue) - 1 : queue'[i] = queue[i + 1]
    BY <1>1, Popped
<1>3. ASSUME NEW i \in 2 .. Len(queue)
      PROVE  i - 1 \in 1 .. Len(queue') /\ queue'[i - 1] = queue[i]
    <2>1. i - 1 \in 1 .. Len(queue) - 1 /\ (i - 1) + 1 = i
        BY <1>2
    <2> QED
        BY <2>1, <1>2
<1> QED
    BY <1>2, <1>3

LEMMA QueueReceive ==
    ASSUME TypeOK, QueueInv, Receive
    PROVE  QueueInv'
<1>1. queue # <<>> /\ queue' = Tail(queue) /\ got' = Head(queue).last /\ Head(queue).kind = "chunk"
        /\ ends' = ends /\ mine' = mine /\ call' = call
    BY DEF Receive, history
<1>2. /\ Len(queue) \in Nat \ {0} /\ Len(queue') = Len(queue) - 1
      /\ \A i \in 1 .. Len(queue') : i + 1 \in 1 .. Len(queue) /\ queue'[i] = queue[i + 1]
      /\ \A i \in 2 .. Len(queue) : i - 1 \in 1 .. Len(queue') /\ queue'[i - 1] = queue[i]
    BY <1>1, PopMoves
<1>3. queue[1].kind = "chunk" /\ got' = queue[1].last /\ 1 \in 1 .. Len(queue)
    BY <1>1, <1>2, PopMoves
<1>4. got' \in Nat /\ got' > got /\ got \in Nat
    BY <1>3 DEF TypeOK, QueueInv, QueueOrdered, Index, IsChunk
<1>5. QueueOrdered'
    <2>1. ASSUME NEW i \in 1 .. Len(queue'), queue'[i].kind = "chunk"
          PROVE  queue'[i].last \in got' + 1 .. Len(ends')
        <3>1. i + 1 \in 1 .. Len(queue) /\ queue'[i] = queue[i + 1] /\ 1 < i + 1
            BY <1>2
        <3>2. queue[1].last < queue[i + 1].last /\ queue[i + 1].last \in got + 1 .. Len(ends)
            BY <2>1, <3>1, <1>3 DEF QueueInv, QueueOrdered, Index, IsChunk
        <3> QED
            BY <3>1, <3>2, <1>1, <1>3, <1>4, SMTT(20) DEF TypeOK
    <2>2. ASSUME NEW i \in 1 .. Len(queue'), NEW j \in 1 .. Len(queue'), i < j,
                 queue'[i].kind = "chunk", queue'[j].kind = "chunk"
          PROVE  queue'[i].last < queue'[j].last
        <3>1. i + 1 \in 1 .. Len(queue) /\ j + 1 \in 1 .. Len(queue) /\ i + 1 < j + 1
            BY <1>2, <2>2
        <3> QED
            BY <3>1, <2>2, <1>2 DEF QueueInv, QueueOrdered, Index, IsChunk
    <2> QED
        BY <2>1, <2>2 DEF QueueOrdered, Index, IsChunk
<1>6. FlushesBelong'
    <2>1. ASSUME NEW i \in 1 .. Len(queue'), NEW j \in 1 .. Len(queue'), i # j,
                 queue'[i].kind = "flush", queue'[j].kind = "flush"
          PROVE  queue'[i].by # queue'[j].by
        <3>1. i + 1 \in 1 .. Len(queue) /\ j + 1 \in 1 .. Len(queue) /\ i + 1 # j + 1
            BY <1>2, <2>1
        <3> QED
            BY <3>1, <2>1, <1>2 DEF QueueInv, FlushesBelong, Index, IsFlush
    <2> QED
        BY <2>1, <1>1, <1>2 DEF QueueInv, FlushesBelong, Index, IsFlush
<1>7. MineAhead'
    <2>1. ASSUME NEW v \in Users
          PROVE  mine[v] <= got' \/ \E i \in 1 .. Len(queue') : queue'[i].kind = "chunk" /\ queue'[i].last = mine[v]
        <3>1. CASE mine[v] <= got
            BY <3>1, <1>4 DEF TypeOK
        <3>2. ASSUME NEW i \in 1 .. Len(queue), queue[i].kind = "chunk", queue[i].last = mine[v]
              PROVE  mine[v] <= got' \/ \E k \in 1 .. Len(queue') : queue'[k].kind = "chunk" /\ queue'[k].last = mine[v]
            <4>1. CASE i = 1
                BY <3>2, <4>1, <1>3, <1>4
            <4>2. CASE i # 1
                <5>1. i \in 2 .. Len(queue)
                    BY <4>2, <1>2
                <5> QED
                    BY <5>1, <3>2, <1>2
            <4> QED
                BY <4>1, <4>2
        <3> QED
            BY <3>1, <3>2 DEF QueueInv, MineAhead, Index, IsChunk
    <2>2. ASSUME NEW j \in 1 .. Len(queue'), queue'[j].kind = "flush"
          PROVE  \/ mine[queue'[j].by] <= got'
                 \/ \E i \in 1 .. j - 1 : queue'[i].kind = "chunk" /\ queue'[i].last = mine[queue'[j].by]
        <3>1. j + 1 \in 1 .. Len(queue) /\ queue'[j] = queue[j + 1] /\ (j + 1) - 1 = j
            BY <1>2
        <3>2. queue[j + 1].by \in Users
            BY <3>1, <2>2 DEF QueueInv, FlushesBelong, Index, IsFlush
        <3>3. \/ mine[queue[j + 1].by] <= got
              \/ \E i \in 1 .. j : queue[i].kind = "chunk" /\ queue[i].last = mine[queue[j + 1].by]
            BY <3>1, <2>2 DEF QueueInv, MineAhead, Index, IsChunk, IsFlush
        <3>4. CASE mine[queue[j + 1].by] <= got
            BY <3>1, <3>2, <3>4, <1>4 DEF TypeOK
        <3>5. ASSUME NEW i \in 1 .. j, queue[i].kind = "chunk", queue[i].last = mine[queue[j + 1].by]
              PROVE  \/ mine[queue[j + 1].by] <= got'
                     \/ \E k \in 1 .. j - 1 : queue'[k].kind = "chunk" /\ queue'[k].last = mine[queue[j + 1].by]
            <4>1. CASE i = 1
                BY <3>5, <4>1, <1>3, <1>4
            <4>2. CASE i # 1
                <5>1. i \in 2 .. Len(queue) /\ i - 1 \in 1 .. j - 1
                    BY <4>2, <3>1, <1>2
                <5> QED
                    BY <5>1, <3>5, <1>2
            <4> QED
                BY <4>1, <4>2
        <3> QED
            BY <3>1, <3>3, <3>4, <3>5
    <2> QED
        BY <2>1, <2>2, <1>1 DEF MineAhead, Index, IsChunk, IsFlush
<1> QED
    BY <1>5, <1>6, <1>7 DEF QueueInv

LEMMA QueueAnswer ==
    ASSUME TypeOK, QueueInv, Asked, NEW how \in {"ok", "failed"}, Answer(how), got' = got
    PROVE  QueueInv'
<1>1. queue # <<>> /\ queue' = Tail(queue) /\ Head(queue).kind = "flush"
        /\ ends' = ends /\ mine' = mine /\ call' = [call EXCEPT ![Head(queue).by] = how]
    BY DEF Asked, Answer
<1>2. /\ Len(queue) \in Nat \ {0} /\ Len(queue') = Len(queue) - 1 /\ Head(queue) = queue[1]
      /\ \A i \in 1 .. Len(queue') : i + 1 \in 1 .. Len(queue) /\ queue'[i] = queue[i + 1]
      /\ \A i \in 2 .. Len(queue) : i - 1 \in 1 .. Len(queue') /\ queue'[i - 1] = queue[i]
    BY <1>1, PopMoves
<1>3. 1 \in 1 .. Len(queue) /\ queue[1].kind = "flush"
    BY <1>1, <1>2
<1>4. QueueOrdered'
    <2>1. ASSUME NEW i \in 1 .. Len(queue'), NEW j \in 1 .. Len(queue'), i < j,
                 queue'[i].kind = "chunk", queue'[j].kind = "chunk"
          PROVE  queue'[i].last < queue'[j].last
        <3>1. i + 1 \in 1 .. Len(queue) /\ j + 1 \in 1 .. Len(queue) /\ i + 1 < j + 1
            BY <1>2, <2>1
        <3> QED
            BY <3>1, <2>1, <1>2 DEF QueueInv, QueueOrdered, Index, IsChunk
    <2> QED
        BY <2>1, <1>1, <1>2 DEF QueueInv, QueueOrdered, Index, IsChunk
<1>5. FlushesBelong'
    <2>1. ASSUME NEW i \in 1 .. Len(queue'), queue'[i].kind = "flush"
          PROVE  queue'[i].by \in Users /\ call'[queue'[i].by] = "waiting"
        <3>1. i + 1 \in 1 .. Len(queue) /\ queue'[i] = queue[i + 1] /\ i + 1 # 1
            BY <1>2
        <3>2. /\ queue[i + 1].by \in Users /\ call[queue[i + 1].by] = "waiting"
              /\ queue[i + 1].by # queue[1].by
            BY <2>1, <3>1, <1>3 DEF QueueInv, FlushesBelong, Index, IsFlush
        <3> QED
            BY <3>1, <3>2, <1>1, <1>2 DEF TypeOK
    <2>2. ASSUME NEW i \in 1 .. Len(queue'), NEW j \in 1 .. Len(queue'), i # j,
                 queue'[i].kind = "flush", queue'[j].kind = "flush"
          PROVE  queue'[i].by # queue'[j].by
        <3>1. i + 1 \in 1 .. Len(queue) /\ j + 1 \in 1 .. Len(queue) /\ i + 1 # j + 1
            BY <1>2, <2>2
        <3> QED
            BY <3>1, <2>2, <1>2 DEF QueueInv, FlushesBelong, Index, IsFlush
    <2> QED
        BY <2>1, <2>2 DEF FlushesBelong, Index, IsFlush
<1>6. MineAhead'
    <2>1. ASSUME NEW v \in Users
          PROVE  mine[v] <= got \/ \E i \in 1 .. Len(queue') : queue'[i].kind = "chunk" /\ queue'[i].last = mine[v]
        <3>1. ASSUME NEW i \in 1 .. Len(queue), queue[i].kind = "chunk", queue[i].last = mine[v]
              PROVE  \E k \in 1 .. Len(queue') : queue'[k].kind = "chunk" /\ queue'[k].last = mine[v]
            <4>1. i \in 2 .. Len(queue)
                BY <3>1, <1>2, <1>3
            <4> QED
                BY <4>1, <3>1, <1>2
        <3> QED
            BY <3>1 DEF QueueInv, MineAhead, Index, IsChunk
    <2>2. ASSUME NEW j \in 1 .. Len(queue'), queue'[j].kind = "flush"
          PROVE  \/ mine[queue'[j].by] <= got
                 \/ \E i \in 1 .. j - 1 : queue'[i].kind = "chunk" /\ queue'[i].last = mine[queue'[j].by]
        <3>1. j + 1 \in 1 .. Len(queue) /\ queue'[j] = queue[j + 1] /\ (j + 1) - 1 = j
            BY <1>2
        <3>2. \/ mine[queue[j + 1].by] <= got
              \/ \E i \in 1 .. j : queue[i].kind = "chunk" /\ queue[i].last = mine[queue[j + 1].by]
            BY <3>1, <2>2 DEF QueueInv, MineAhead, Index, IsChunk, IsFlush
        <3>3. ASSUME NEW i \in 1 .. j, queue[i].kind = "chunk", queue[i].last = mine[queue[j + 1].by]
              PROVE  \E k \in 1 .. j - 1 : queue'[k].kind = "chunk" /\ queue'[k].last = mine[queue[j + 1].by]
            <4>1. i # 1
                BY <3>3, <1>3
            <4>2. i \in 2 .. Len(queue) /\ i - 1 \in 1 .. j - 1
                BY <4>1, <3>1, <1>2
            <4> QED
                BY <4>2, <3>3, <1>2
        <3> QED
            BY <3>1, <3>2, <3>3
    <2> QED
        BY <2>1, <2>2, <1>1 DEF MineAhead, Index, IsChunk, IsFlush
<1> QED
    BY <1>4, <1>5, <1>6 DEF QueueInv

LEMMA QueueStep == TypeOK /\ QueueInv /\ [Next]_vars => QueueInv'
<1> SUFFICES ASSUME TypeOK, QueueInv, [Next]_vars PROVE QueueInv'
    OBVIOUS
<1> DEFINE Same == queue' = queue /\ call' = call /\ got' = got /\ ends' = ends /\ mine' = mine
<1>0. ASSUME Same PROVE QueueInv'
    BY <1>0, SMTT(20) DEF QueueInv, QueueOrdered, FlushesBelong, MineAhead, Index, IsChunk, IsFlush
<1>1. ASSUME NEW u \in Users, Leave(u) PROVE QueueInv'
    <2>1. queue' = queue /\ got' = got /\ ends' = ends /\ mine' = mine
        BY <1>1 DEF Leave, textVars, history
    <2>2. \A v \in Users : call[v] = "waiting" => call'[v] = "waiting"
        BY <1>1 DEF Leave, Free, TypeOK
    <2> QED
        BY <2>1, <2>2 DEF QueueInv, QueueOrdered, FlushesBelong, MineAhead, Index, IsChunk, IsFlush
<1>2. ASSUME UNCHANGED vars \/ Over PROVE Same
    BY <1>2 DEF Over, vars, textVars, history
<1>3. ASSUME WriteLine \/ WriteFails \/ Processed \/ ProcessedFails \/ Timeout \/ TimeoutFails
      PROVE  Same
    BY <1>3 DEF WriteLine, WriteFails, Processed, ProcessedFails, Timeout, TimeoutFails, textVars, history
<1>4. ASSUME Disconnected \/ DisconnectedFails PROVE Same
    BY <1>4 DEF Disconnected, DisconnectedFails, Emptied, textVars, history
<1>5. ASSUME FlushOk \/ FlushReports \/ FlushLosesPartial \/ FlushNotSynced PROVE QueueInv'
    <2>1. Asked /\ got' = got /\ \E how \in {"ok", "failed"} : Answer(how)
        BY <1>5 DEF FlushOk, FlushReports, FlushLosesPartial, FlushNotSynced, Emptied
    <2> QED
        BY <2>1, QueueAnswer
<1> QED
    BY <1>0, <1>1, <1>2, <1>3, <1>4, <1>5, QueueLog, QueueFlush, QueueReceive DEF Next, Worker

-----------------------------------------------------------------------------
(* The text *)

LineStart == start = 1 \/ ends[start - 1] \/ start - 1 \in cuts

LEMMA LineNumbers ==
    ASSUME TypeOK
    PROVE  /\ Len(written) \in Nat
           /\ \A i \in 1 .. Len(written) : written[i].from \in Nat /\ written[i].to \in Nat
<1>1. written \in Seq(Lines)
    BY DEF TypeOK
<1>2. \A i \in 1 .. Len(written) : written[i] \in Lines
    BY <1>1
<1>3. \A l \in Lines : l.from \in Nat /\ l.to \in Nat
    BY DEF Lines
<1> QED
    BY <1>1, <1>2, <1>3

\* The text grows, and what was cut or lost stays so; the log is left alone.
LEMMA TextKept ==
    ASSUME TypeOK, TextInv, written' = written, start' = start,
           cuts \subseteq cuts', lost \subseteq lost',
           \A n \in 1 .. Len(ends) : ends'[n] = ends[n]
    PROVE  LogInOrder' /\ LinesPlaced' /\ LinesAreWhole' /\ Accounted' /\ LineStart'
<1>1. /\ start \in 1 .. Len(ends) + 1 /\ Len(ends) \in Nat /\ Len(written) \in Nat
      /\ \A i \in 1 .. Len(written) : written[i].from \in Nat /\ written[i].to \in Nat
    BY LineNumbers DEF TypeOK
<1>2. \A i \in 1 .. Len(written) : written[i].from \in 1 .. Len(ends) /\ written[i].to \in 1 .. Len(ends)
    BY <1>1 DEF TextInv, LogInOrder, LinesPlaced
<1>3. LogInOrder' /\ LinesPlaced'
    BY DEF TextInv, LogInOrder, LinesPlaced
<1>4. LinesAreWhole'
    <2>1. ASSUME NEW i \in 1 .. Len(written)
          PROVE  /\ written[i].from = 1 \/ ends'[written[i].from - 1] \/ written[i].from - 1 \in cuts'
                 /\ ends'[written[i].to] \/ written[i].to \in cuts'
                 /\ \A n \in written[i].from .. written[i].to - 1 : ~ends'[n]
        <3>1. /\ written[i].from = 1 \/ ends[written[i].from - 1] \/ written[i].from - 1 \in cuts
              /\ ends[written[i].to] \/ written[i].to \in cuts
              /\ \A n \in written[i].from .. written[i].to - 1 : ~ends[n]
            BY DEF TextInv, LinesAreWhole
        <3>2. written[i].from # 1 => written[i].from - 1 \in 1 .. Len(ends)
            BY <1>1, <1>2
        <3>3. \A n \in written[i].from .. written[i].to - 1 : n \in 1 .. Len(ends)
            BY <1>1, <1>2
        <3> QED
            BY <1>2, <3>1, <3>2, <3>3
    <2> QED
        BY <2>1 DEF LinesAreWhole
<1>5. Accounted'
    BY DEF TextInv, Accounted
<1>6. LineStart'
    <2>1. start # 1 => start - 1 \in 1 .. Len(ends)
        BY <1>1
    <2> QED
        BY <2>1 DEF TextInv, BufferInLine, LineStart
<1> QED
    BY <1>3, <1>4, <1>5, <1>6

\* The buffer up to n becomes the next line of the log.
LEMMA TextWritten ==
    ASSUME TypeOK, TextInv, NEW n \in start .. got,
           written' = Append(written, [from |-> start, to |-> n]),
           start' = n + 1, ends' = ends, cuts \subseteq cuts', lost' = lost,
           \A m \in start .. n - 1 : ~ends[m],
           ends[n] \/ n \in cuts'
    PROVE  LogInOrder' /\ LinesPlaced' /\ LinesAreWhole' /\ Accounted' /\ LineStart'
<1> DEFINE k == Len(written)
           l == [from |-> start, to |-> n]
<1>1. /\ start \in Nat /\ start >= 1 /\ n \in Nat /\ n >= start /\ k \in Nat
      /\ \A i \in 1 .. k : written[i].from \in Nat /\ written[i].to \in Nat
    BY LineNumbers DEF TypeOK
<1>2. /\ Len(written') = k + 1 /\ written'[k + 1] = l
      /\ \A i \in 1 .. k : written'[i] = written[i]
    <2>1. l \in Lines /\ written \in Seq(Lines)
        BY <1>1 DEF TypeOK, Lines
    <2> QED
        BY <2>1, Appended
<1>3. l.from = start /\ l.to = n
    OBVIOUS
<1> HIDE DEF l
<1>4. LogInOrder' /\ LinesPlaced'
    <2>1. ASSUME NEW i \in 1 .. k + 1
          PROVE  /\ written'[i].from <= written'[i].to /\ written'[i].to < start' /\ written'[i].from >= 1
                 /\ \A j \in 1 .. i - 1 : written'[j].to < written'[i].from
        <3>1. CASE i = k + 1
            BY <3>1, <1>1, <1>2, <1>3 DEF TextInv, LogInOrder
        <3>2. CASE i # k + 1
            <4>1. i \in 1 .. k /\ \A j \in 1 .. i - 1 : j \in 1 .. k
                BY <3>2, <1>1
            <4> QED
                BY <4>1, <1>1, <1>2 DEF TextInv, LogInOrder, LinesPlaced
        <3> QED
            BY <3>1, <3>2
    <2> QED
        BY <2>1, <1>2 DEF LogInOrder, LinesPlaced
<1>5. LinesAreWhole'
    <2>1. ASSUME NEW i \in 1 .. k + 1
          PROVE  /\ written'[i].from = 1 \/ ends[written'[i].from - 1] \/ written'[i].from - 1 \in cuts'
                 /\ ends[written'[i].to] \/ written'[i].to \in cuts'
                 /\ \A m \in written'[i].from .. written'[i].to - 1 : ~ends[m]
        <3>1. CASE i = k + 1
            BY <3>1, <1>2, <1>3 DEF TextInv, BufferInLine
        <3>2. CASE i # k + 1
            <4>1. i \in 1 .. k
                BY <3>2, <1>1
            <4> QED
                BY <4>1, <1>2 DEF TextInv, LinesAreWhole
        <3> QED
            BY <3>1, <3>2
    <2> QED
        BY <2>1, <1>2 DEF LinesAreWhole
<1>6. Accounted'
    <2>1. ASSUME NEW m \in 1 .. n
          PROVE  m \in lost \/ \E i \in 1 .. k + 1 : m \in written'[i].from .. written'[i].to
        <3>1. CASE m \in start .. n
            <4>1. k + 1 \in 1 .. k + 1
                BY <1>1
            <4> QED
                BY <3>1, <4>1, <1>2, <1>3
        <3>2. CASE m \notin start .. n
            <4>1. m \in 1 .. start - 1
                BY <3>2, <1>1
            <4>2. m \in lost \/ \E i \in 1 .. k : m \in written[i].from .. written[i].to
                BY <4>1 DEF TextInv, Accounted
            <4>3. \A i \in 1 .. k : i \in 1 .. k + 1
                BY <1>1
            <4> QED
                BY <4>2, <4>3, <1>2
        <3> QED
            BY <3>1, <3>2
    <2>2. start' - 1 = n
        BY <1>1
    <2> QED
        BY <2>1, <2>2, <1>2 DEF Accounted
<1>7. LineStart'
    <2>1. start' - 1 = n
        BY <1>1
    <2> QED
        BY <2>1 DEF LineStart
<1> QED
    BY <1>4, <1>5, <1>6, <1>7

\* The buffer up to n is lost.
LEMMA TextLost ==
    ASSUME TypeOK, TextInv, NEW n \in start .. got,
           written' = written, start' = n + 1, ends' = ends,
           cuts \subseteq cuts', lost' = lost \cup (start .. n),
           ends[n] \/ n \in cuts'
    PROVE  LogInOrder' /\ LinesPlaced' /\ LinesAreWhole' /\ Accounted' /\ LineStart'
<1>1. /\ start \in Nat /\ start >= 1 /\ n \in Nat /\ n >= start /\ Len(written) \in Nat
      /\ \A i \in 1 .. Len(written) : written[i].from \in Nat /\ written[i].to \in Nat
    BY LineNumbers DEF TypeOK
<1>2. LogInOrder' /\ LinesPlaced' /\ LinesAreWhole'
    <2>1. LogInOrder'
        BY <1>1 DEF TextInv, LogInOrder
    <2>2. LinesPlaced'
        BY DEF TextInv, LinesPlaced
    <2>3. LinesAreWhole'
        <3>1. LinesAreWhole
            BY DEF TextInv
        <3>2. \A i : i \in cuts => i \in cuts'
            OBVIOUS
        <3> QED
            BY <3>1, <3>2 DEF LinesAreWhole
    <2> QED
        BY <2>1, <2>2, <2>3
<1>3. Accounted'
    <2>1. \A m \in 1 .. n : m \in 1 .. start - 1 \/ m \in start .. n
        BY <1>1
    <2>2. start' - 1 = n
        BY <1>1
    <2> QED
        BY <2>1, <2>2 DEF TextInv, Accounted
<1>4. start' - 1 = n
    BY <1>1
<1> QED
    BY <1>2, <1>3, <1>4 DEF LineStart

\* flush_worker at rest: what it does to text and log, whether or not it fails
\* to bring the log to the file.
LEMMA TextFlushed ==
    ASSUME TypeOK, TextInv, worker # "lines", got' = got, ends' = ends, lost \subseteq lost',
           written' = IF start > got THEN written ELSE Append(written, [from |-> start, to |-> got]),
           start' = got + 1,
           cuts' = IF start > got THEN cuts ELSE cuts \cup {got}
    PROVE  TextInv' \/ lost' # lost
<1> SUFFICES ASSUME lost' = lost PROVE TextInv'
    OBVIOUS
<1>1. start \in 1 .. got + 1 /\ got \in Nat
    BY DEF TypeOK
<1>2. LogInOrder' /\ LinesPlaced' /\ LinesAreWhole' /\ Accounted' /\ LineStart'
    <2>1. CASE start > got
        <3>1. start' = start
            BY <2>1, <1>1
        <3> QED
            BY <2>1, <3>1, TextKept
    <2>2. CASE ~(start > got)
        <3>1. got \in start .. got /\ \A m \in start .. got - 1 : ~ends[m]
            BY <2>2, <1>1 DEF TextInv, BufferInLine
        <3> QED
            BY <2>2, <3>1, TextWritten
    <2> QED
        BY <2>1, <2>2
<1>3. \A n \in start' .. got' : ~ends'[n]
    BY <1>1
<1> QED
    BY <1>2, <1>3 DEF TextInv, BufferInLine, LineStart

LEMMA TextStep == TypeOK /\ TextInv /\ [Next]_vars => TextInv'
<1> SUFFICES ASSUME TypeOK, TextInv, [Next]_vars PROVE TextInv'
    OBVIOUS
<1> USE DEF textVars, history
<1> DEFINE Kept == LogInOrder' /\ LinesPlaced' /\ LinesAreWhole' /\ Accounted' /\ LineStart'
           Rest == worker' # "lines" => \A n \in start' .. got' : ~ends'[n]
<1>a. ASSUME Kept, Rest PROVE TextInv'
    BY <1>a DEF TextInv, BufferInLine, LineStart
<1>b. ASSUME written' = written, start' = start, got' = got, ends' = ends, cuts' = cuts, lost \subseteq lost',
             worker' # "lines" => worker # "lines" \/ Breaks = {}
      PROVE  TextInv'
    <2>1. Rest
        BY <1>b DEF TextInv, BufferInLine, Breaks
    <2> QED
        BY <1>a, <1>b, <2>1, TextKept
<1>0. CASE UNCHANGED vars
    BY <1>0, <1>b DEF vars
<1>1. ASSUME NEW u \in Users, Log(u) PROVE TextInv'
    <2>1. Len(ends') > Len(ends) /\ \A n \in 1 .. Len(ends) : ends'[n] = ends[n]
        BY <1>1, LogAdds
    <2>2. \A n \in start .. got : n \in 1 .. Len(ends)
        BY DEF TypeOK
    <2>3. written' = written /\ start' = start /\ got' = got /\ cuts' = cuts /\ lost' = lost
            /\ (worker' # "lines" => worker # "lines")
        BY <1>1 DEF Log, Enqueue
    <2>4. Rest
        BY <2>1, <2>2, <2>3 DEF TextInv, BufferInLine
    <2> QED
        BY <1>a, <2>1, <2>3, <2>4, TextKept
<1>2. ASSUME NEW u \in Users, Flush(u) \/ Leave(u) PROVE TextInv'
    BY <1>2, <1>b DEF Flush, Leave, Enqueue
<1>4. CASE Receive
    <2>1. written' = written /\ start' = start /\ ends' = ends /\ cuts' = cuts /\ lost' = lost
        BY <1>4 DEF Receive
    <2>2. worker' # "lines" => Breaks' = {}
        BY <1>4 DEF Receive
    <2>3. Rest
        BY <2>2 DEF Breaks
    <2> QED
        BY <1>a, <2>1, <2>3, TextKept
<1>5. CASE WriteLine
    <2>1. PICK n \in Breaks : /\ \A m \in Breaks : m >= n
                              /\ written' = Append(written, [from |-> start, to |-> n])
                              /\ start' = n + 1
        BY <1>5 DEF WriteLine
    <2>2. n \in start .. got /\ ends[n] /\ start \in Nat /\ got \in Nat
        BY <2>1 DEF Breaks, TypeOK
    <2>3. \A m \in start .. n - 1 : ~ends[m]
        BY <2>1, <2>2 DEF Breaks
    <2>4. ends' = ends /\ cuts' = cuts /\ lost' = lost /\ worker' = "lines"
        BY <1>5 DEF WriteLine
    <2> QED
        BY <1>a, <2>1, <2>2, <2>3, <2>4, TextWritten
<1>6. CASE WriteFails
    <2>1. PICK n \in Breaks : /\ \A m \in Breaks : m <= n
                              /\ lost' = lost \cup (start .. n)
                              /\ start' = n + 1
        BY <1>6 DEF WriteFails
    <2>2. n \in start .. got /\ ends[n] /\ start \in Nat /\ got \in Nat
        BY <2>1 DEF Breaks, TypeOK
    <2>3. written' = written /\ ends' = ends /\ cuts' = cuts /\ got' = got
        BY <1>6 DEF WriteFails
    <2>4. Rest
        BY <2>1, <2>2, <2>3 DEF Breaks
    <2> QED
        BY <1>a, <2>1, <2>2, <2>3, <2>4, TextLost
<1>7. CASE Processed \/ ProcessedFails \/ Timeout \/ TimeoutFails
    BY <1>7, <1>b DEF Processed, ProcessedFails, Timeout, TimeoutFails
<1>8. CASE FlushOk \/ FlushReports
    BY <1>8, TextFlushed DEF FlushOk, FlushReports, Emptied, Asked, Answer
<1>9. CASE FlushLosesPartial
    <2>1. got \in start .. got /\ start \in Nat /\ got \in Nat
        BY <1>9 DEF FlushLosesPartial, TypeOK
    <2>2. written' = written /\ start' = got + 1 /\ got' = got /\ ends' = ends /\ cuts' = cuts \cup {got}
            /\ lost' = lost \cup (start .. got)
        BY <1>9 DEF FlushLosesPartial, Answer
    <2>3. Rest
        BY <2>1, <2>2
    <2> QED
        BY <1>a, <2>1, <2>2, <2>3, TextLost
<1>10. CASE FlushNotSynced
    BY <1>10, TextFlushed DEF FlushNotSynced, Asked, Answer
<1>11. CASE Disconnected
    BY <1>11, TextFlushed DEF Disconnected, Abandoned, Emptied
<1>12. CASE DisconnectedFails
    BY <1>12, <1>b DEF DisconnectedFails, Abandoned
<1>13. CASE Over
    BY <1>13, <1>b DEF Over, vars
<1> QED
    BY <1>0, <1>1, <1>2, <1>4, <1>5, <1>6, <1>7, <1>8, <1>9, <1>10, <1>11, <1>12, <1>13 DEF Next, Worker

-----------------------------------------------------------------------------
(* Losses *)

LEMMA LossStep == TypeOK /\ NoSilentLoss /\ [Next]_vars => NoSilentLoss'
<1> SUFFICES ASSUME TypeOK, NoSilentLoss, [Next]_vars PROVE NoSilentLoss'
    OBVIOUS
<1> USE DEF NoSilentLoss, textVars, history
<1>1. ASSUME NEW u \in Users, Log(u) \/ Flush(u) \/ Leave(u) PROVE NoSilentLoss'
    BY <1>1 DEF Log, Flush, Leave, Enqueue
<1>2. CASE Receive \/ WriteLine \/ Processed \/ Timeout
    BY <1>2 DEF Receive, WriteLine, Processed, Timeout
<1>3. CASE WriteFails \/ ProcessedFails \/ TimeoutFails
    BY <1>3 DEF WriteFails, ProcessedFails, TimeoutFails
<1>4. CASE FlushOk \/ FlushReports
    BY <1>4 DEF FlushOk, FlushReports, Emptied, Asked, Answer
<1>5. CASE FlushLosesPartial \/ FlushNotSynced
    BY <1>5 DEF FlushLosesPartial, FlushNotSynced, Asked, Answer
<1>6. CASE Disconnected \/ DisconnectedFails
    BY <1>6 DEF Disconnected, DisconnectedFails
<1>7. CASE UNCHANGED vars \/ Over
    BY <1>7 DEF Over, vars
<1> QED
    BY <1>1, <1>2, <1>3, <1>4, <1>5, <1>6, <1>7 DEF Next, Worker

-----------------------------------------------------------------------------
(* Theorems *)

LEMMA InvInit == Init => IInv
<1> SUFFICES ASSUME Init PROVE IInv
    OBVIOUS
<1>1. Len(queue) = 0 /\ Len(written) = 0 /\ got = 0 /\ start = 1
    BY DEF Init
<1>2. QueueInv
    BY <1>1 DEF Init, QueueInv, QueueOrdered, FlushesBelong, MineAhead, Index, IsChunk, IsFlush
<1>3. TextInv
    BY <1>1 DEF TextInv, LogInOrder, LinesPlaced, LinesAreWhole, BufferInLine, Accounted
<1>4. NoSilentLoss
    BY DEF Init, NoSilentLoss
<1> QED
    BY <1>2, <1>3, <1>4, TypeInit DEF IInv

LEMMA InvStep == IInv /\ [Next]_vars => IInv'
    BY TypeStep, QueueStep, TextStep, LossStep DEF IInv

LEMMA Invariant == Spec => []IInv
    BY InvInit, InvStep, PTL DEF Spec

\* The log's state has its types, the queue its capacity.
THEOREM LogTypeCorrect == Spec => []TypeOK
<1>1. IInv => TypeOK
    BY DEF IInv
<1> QED
    BY <1>1, Invariant, PTL

\* As long as somebody holds the logger, an error is kept for each loss no flush
\* has told of (last_error of run_worker).
THEOREM LossesAreTold == Spec => []NoSilentLoss
<1>1. IInv => NoSilentLoss
    BY DEF IInv
<1> QED
    BY <1>1, Invariant, PTL

\* Whatever fails, the log holds each piece once at most and in order
\* (process_chunk_message and flush_partial_line).
THEOREM LogStaysInOrder == Spec => []LogInOrder
<1>1. IInv => LogInOrder
    BY DEF IInv, TextInv
<1> QED
    BY <1>1, Invariant, PTL

\* Redaction is given whole lines, but where a flush cuts one
\* (extract_complete_lines).
THEOREM RedactionSeesLines == Spec => []LinesAreWhole
<1>1. IInv => LinesAreWhole
    BY DEF IInv, TextInv
<1> QED
    BY <1>1, Invariant, PTL

\* Together: redaction and the reader of the log see the session's own lines.
THEOREM LogHoldsTheSession == Spec => []LogIsTheSession
<1>1. LogInOrder /\ LinesAreWhole => LogIsTheSession
    BY DEF LogIsTheSession
<1> QED
    BY <1>1, LogStaysInOrder, RedactionSeesLines, PTL

\* When a flush succeeds, the text its caller had logged is in the file, but for
\* what an earlier failed flush has told of (flush_worker).
THEOREM FlushedIsInFile == Spec => FlushIsDurable
<1>1. ASSUME IInv, [Next]_vars, NEW u \in Users, call[u] = "waiting", call'[u] = "ok"
      PROVE  \A n \in 1 .. mine[u] : InFile(n)' \/ n \in told
    <2>1. FlushOk /\ Head(queue).by = u
        <3>1. call \in [Users -> {"idle", "waiting", "ok", "failed", "gone"}]
            BY <1>1 DEF IInv, TypeOK
        <3>2. ASSUME NEW v \in Users, Log(v) \/ Flush(v) \/ Leave(v) PROVE FALSE
            BY <1>1, <3>1, <3>2 DEF Log, Flush, Leave
        <3>3. ASSUME UNCHANGED call PROVE FALSE
            BY <1>1, <3>3
        <3>4. ASSUME Answer("failed") PROVE FALSE
            BY <1>1, <3>1, <3>4 DEF Answer
        <3>5. FlushOk
            BY <1>1, <3>2, <3>3, <3>4
               DEF Next, Worker, Over, vars, Receive, WriteLine, WriteFails, Processed, ProcessedFails,
                   Timeout, TimeoutFails, FlushReports, FlushLosesPartial, FlushNotSynced,
                   Disconnected, DisconnectedFails
        <3>6. call' = [call EXCEPT ![Head(queue).by] = "ok"]
            BY <3>5 DEF FlushOk, Answer
        <3>7. Head(queue).by = u
            BY <1>1, <3>1, <3>6
        <3> QED
            BY <3>5, <3>7
    <2>2. mine[u] <= got
        <3>1. queue # <<>> /\ queue \in Seq(Commands)
            BY <1>1, <2>1 DEF FlushOk, Asked, IInv, TypeOK
        <3>2. 1 \in Index /\ queue[1].by = u /\ queue[1].kind = "flush"
            BY <3>1, <2>1, Popped DEF FlushOk, Asked, Index
        <3> QED
            BY <1>1, <3>2 DEF IInv, QueueInv, MineAhead, IsFlush
    <2>3. lost \subseteq told
        BY <1>1, <2>1 DEF FlushOk, Asked, IInv, NoSilentLoss
    <2>4. TypeOK /\ got \in Nat /\ start \in 1 .. got + 1 /\ written \in Seq(Lines) /\ Len(written) \in Nat
        BY <1>1 DEF IInv, TypeOK
    <2>5. ASSUME NEW n \in 1 .. got
          PROVE  InFile(n)' \/ n \in told
        <3>1. synced' = Len(written')
            BY <2>1 DEF FlushOk, Emptied
        <3>2. CASE n \in 1 .. start - 1
            <4>1. CASE n \in lost
                BY <4>1, <2>3
            <4>2. ASSUME NEW i \in 1 .. Len(written), n \in written[i].from .. written[i].to
                  PROVE  InFile(n)'
                <5>1. i \in 1 .. Len(written') /\ written'[i] = written[i]
                    <6>1. CASE start > got
                        BY <6>1, <2>1 DEF FlushOk, Emptied
                    <6>2. CASE ~(start > got)
                        <7>1. written' = Append(written, [from |-> start, to |-> got])
                            BY <6>2, <2>1 DEF FlushOk, Emptied
                        <7>2. [from |-> start, to |-> got] \in Lines
                            BY <2>4 DEF Lines
                        <7> QED
                            BY <7>1, <7>2, <2>4, Appended
                    <6> QED
                        BY <6>1, <6>2
                <5> QED
                    BY <5>1, <3>1, <4>2 DEF InFile
            <4> QED
                BY <1>1, <3>2, <4>1, <4>2 DEF IInv, TextInv, Accounted
        <3>3. CASE n \notin 1 .. start - 1
            <4>1. n \in start .. got /\ ~(start > got)
                BY <3>3, <2>4
            <4>2. written' = Append(written, [from |-> start, to |-> got])
                BY <4>1, <2>1 DEF FlushOk, Emptied
            <4>3. [from |-> start, to |-> got] \in Lines
                BY <2>4 DEF Lines
            <4>4. Len(written') = Len(written) + 1 /\ written'[Len(written) + 1] = [from |-> start, to |-> got]
                BY <4>2, <4>3, <2>4, Appended
            <4>5. Len(written) + 1 \in 1 .. synced'
                BY <4>4, <3>1, <2>4
            <4> QED
                BY <4>1, <4>4, <4>5 DEF InFile
        <3> QED
            BY <3>2, <3>3
    <2>6. mine[u] \in Nat
        BY <1>1 DEF IInv, TypeOK
    <2>7. \A n \in 1 .. mine[u] : n \in 1 .. got
        BY <2>2, <2>4, <2>6
    <2> QED
        BY <2>5, <2>7
<1>2. IInv /\ [Next]_vars =>
        [\A u \in Users : call[u] = "waiting" /\ call'[u] = "ok" =>
            \A n \in 1 .. mine[u] : InFile(n)' \/ n \in told]_vars
    BY <1>1
<1> QED
    BY <1>2, Invariant, PTL DEF Spec, FlushIsDurable
=============================================================================
