-------------------------- MODULE PtyRuntimeProofs --------------------------
(***************************************************************************)
(* Proofs about PtyRuntime for queues and terminals of any size and any    *)
(* amount of output and input.                                             *)
(*                                                                         *)
(* The order of the output rests on what the queue holds: its chunks are   *)
(* consecutive, the first follows what is shown and the last is the last   *)
(* one sent, whatever other events lie between them.  That the loop ends   *)
(* with everything shown rests on the reader sending "closed" last.        *)
(***************************************************************************)
EXTENDS PtyRuntime, TLAPS

\* Chunks handed to the queue so far.
sent == IF reader = "send" THEN written - pipe - 1 ELSE written - pipe

IsChunk(i) == queue[i].kind = "output"

\* Nothing is read twice, and what is read is logged.
Accounted ==
    /\ pipe <= written
    /\ reader = "send" => pipe < written
    /\ logged = written - pipe

\* What the queue holds, while somebody receives from it.
QueueInOrder ==
    Receiving =>
      /\ (\A i \in 1 .. Len(queue) : ~IsChunk(i)) => shown = sent
      /\ \A i \in 1 .. Len(queue) : IsChunk(i) =>
            /\ queue[i].chunk <= sent
            /\ (\A j \in 1 .. i - 1 : ~IsChunk(j)) => queue[i].chunk = shown + 1
            /\ (\A j \in i + 1 .. Len(queue) : ~IsChunk(j)) => queue[i].chunk = sent
            /\ \A j \in i + 1 .. Len(queue) :
                  IsChunk(j) /\ (\A k \in i + 1 .. j - 1 : ~IsChunk(k))
                     => queue[j].chunk = queue[i].chunk + 1

\* "closed" is the reader's last word.
ClosedIsLast ==
    Receiving =>
      /\ reader \in {"close", "finish", "done"} => ~open /\ pipe = 0
      /\ closed => reader \in {"finish", "done"} /\ \A i \in 1 .. Len(queue) : ~IsChunk(i)
      /\ \A i \in 1 .. Len(queue) :
            queue[i].kind = "closed" =>
               reader \in {"finish", "done"} /\ \A j \in i + 1 .. Len(queue) : ~IsChunk(j)

\* An exit is reported once the child is gone.
ExitIsReal ==
    /\ watcher \in {"send", "done"} => child = "exited"
    /\ \A i \in 1 .. Len(queue) : queue[i].kind = "exited" => child = "exited"
    /\ status => child = "exited"
    /\ main = "flush" => status

\* The loop ends for one of its two reasons.
EndsForAReason == main = "flush" => closed \/ grace = 0

-----------------------------------------------------------------------------
LEMMA SendType ==
    ASSUME TypeOK, NEW e \in Events, Send(e)
    PROVE  queue' \in Seq(Events) /\ Len(queue') <= QueueCap
<1>1. CASE Receiving
    <2>1. queue \in Seq(Events) /\ Len(queue) < QueueCap /\ queue' = Append(queue, e)
        BY <1>1 DEF Send, TypeOK
    <2>2. QueueCap \in Nat
        BY CapAssumption
    <2> QED
        BY <2>1, <2>2
<1>2. CASE ~Receiving
    BY <1>2 DEF Send, TypeOK
<1> QED
    BY <1>1, <1>2

LEMMA TypeInit == Init => TypeOK
<1>1. {QueueCap, PipeCap, InputCap, Grace} \subseteq Nat
    BY CapAssumption, BoundAssumption
<1>2. <<>> \in Seq(Events) /\ Len(<<>>) = 0
    OBVIOUS
<1> SUFFICES ASSUME Init PROVE TypeOK
    OBVIOUS
<1>3. queue \in Seq(Events) /\ Len(queue) <= QueueCap
    BY <1>1, <1>2 DEF Init
<1>4. grace \in 0 .. Grace + 1 /\ pipe \in 0 .. PipeCap /\ input \in 0 .. InputCap
    BY <1>1 DEF Init
<1>5. {logged, typed, shown, flushed} \subseteq Nat /\ written \in Nat
    BY DEF Init
<1> QED
    BY <1>3, <1>4, <1>5 DEF Init, TypeOK

LEMMA TypeStep == TypeOK /\ Accounted /\ [Next]_vars => TypeOK'
<1> SUFFICES ASSUME TypeOK, Accounted, [Next]_vars PROVE TypeOK'
    OBVIOUS
<1> USE CapAssumption, BoundAssumption DEF TypeOK, Accounted, childVars, loopVars
<1>0. CASE UNCHANGED vars
    BY <1>0 DEF vars
<1>1. CASE Output
    BY <1>1 DEF Output
<1>2. CASE TakeInput
    BY <1>2 DEF TakeInput
<1>3. CASE HangUp
    BY <1>3 DEF HangUp
<1>4. CASE Exit
    BY <1>4, ZenonT(30) DEF Exit
<1>5. CASE Read
    BY <1>5 DEF Read
<1>6. CASE Sent
    <2>1. written - pipe \in Nat
        BY <1>6 DEF Sent
    <2>2. Chunk(written - pipe) \in Events
        BY <2>1 DEF Chunk, Events
    <2>3. queue' \in Seq(Events) /\ Len(queue') <= QueueCap
        BY <1>6, <2>2, SendType DEF Sent
    <2> QED
        BY <1>6, <2>3 DEF Sent
<1>7. CASE EndOfOutput
    BY <1>7 DEF EndOfOutput
<1>8. CASE Closed
    <2>1. Event("closed") \in Events
        BY DEF Event, Events
    <2>2. queue' \in Seq(Events) /\ Len(queue') <= QueueCap
        BY <1>8, <2>1, SendType DEF Closed
    <2> QED
        BY <1>8, <2>2 DEF Closed
<1>9. CASE Finish
    BY <1>9 DEF Finish
<1>10. CASE LockChild
    BY <1>10 DEF LockChild
<1>11. CASE Reap
    BY <1>11 DEF Reap
<1>12. CASE Exited
    <2>1. Event("exited") \in Events
        BY DEF Event, Events
    <2>2. queue' \in Seq(Events) /\ Len(queue') <= QueueCap
        BY <1>12, <2>1, SendType DEF Exited
    <2> QED
        BY <1>12, <2>2 DEF Exited
<1>13. CASE Drain
    <2>1. queue \in Seq(Events) /\ queue # <<>> /\ queue' = Tail(queue)
        BY <1>13 DEF Drain
    <2>2. Head(queue) \in Events /\ queue' \in Seq(Events) /\ Len(queue') = Len(queue) - 1
        BY <2>1, SMTT(20)
    <2>3. Head(queue).chunk \in Nat
        BY <2>2 DEF Events
    <2>4. QueueCap \in Nat
        OBVIOUS
    <2>5. Len(queue') <= QueueCap
        BY <2>1, <2>2, <2>4
    <2> QED
        BY <1>13, <2>2, <2>3, <2>5 DEF Drain
<1>14. CASE Drained
    BY <1>14 DEF Drained
<1>15. CASE Draw
    BY <1>15 DEF Draw
<1>16. CASE Decide
    BY <1>16 DEF Decide
<1>17. CASE Poll
    BY <1>17 DEF Poll
<1>18. CASE Type
    BY <1>18 DEF Type
<1>19. CASE Write
    BY <1>19, SMTT(20) DEF Write
<1>20. CASE WriteFails
    BY <1>20 DEF WriteFails
<1>21. CASE Fail
    BY <1>21 DEF Fail
<1>22. CASE Flush
    BY <1>22 DEF Flush
<1>23. CASE Terminate
    BY <1>23 DEF Terminate
<1>24. CASE Tick
    BY <1>24 DEF Tick
<1>25. CASE Over
    BY <1>25 DEF Over, vars
<1> QED
    BY <1>0, <1>1, <1>2, <1>3, <1>4, <1>5, <1>6, <1>7, <1>8, <1>9, <1>10, <1>11, <1>12,
       <1>13, <1>14, <1>15, <1>16, <1>17, <1>18, <1>19, <1>20, <1>21, <1>22, <1>23, <1>24,
       <1>25
       DEF Next, Reader, Watcher, Main

-----------------------------------------------------------------------------
LEMMA AccountedStep == TypeOK /\ Accounted /\ [Next]_vars => Accounted'
<1> SUFFICES ASSUME TypeOK, Accounted, [Next]_vars PROVE Accounted'
    OBVIOUS
<1> USE DEF TypeOK, Accounted, childVars
<1>0. CASE UNCHANGED <<childVars, reader, logged>>
    BY <1>0
<1>1. CASE Output
    BY <1>1 DEF Output
<1>2. CASE TakeInput \/ HangUp \/ Exit \/ Terminate \/ Write
    BY <1>2 DEF TakeInput, HangUp, Exit, Terminate, Write
<1>3. CASE Read
    BY <1>3 DEF Read
<1>4. CASE Sent \/ EndOfOutput \/ Closed \/ Finish
    BY <1>4 DEF Sent, EndOfOutput, Closed, Finish
<1>5. CASE Watcher
    BY <1>5, <1>0 DEF Watcher, LockChild, Reap, Exited
<1>6. CASE Main /\ ~Terminate /\ ~Write
    BY <1>6, <1>0 DEF Main, Drain, Drained, Draw, Decide, Poll, Type, WriteFails, Fail, Flush
<1>7. CASE Tick \/ Over \/ UNCHANGED vars
    BY <1>7, <1>0 DEF Tick, Over, vars
<1> QED
    BY <1>1, <1>2, <1>3, <1>4, <1>5, <1>6, <1>7 DEF Next, Reader, Main

\* A step that touches neither the queue nor what was sent and shown.
LEMMA OrderKept ==
    ASSUME QueueInOrder, UNCHANGED <<queue, shown>>, sent' = sent, Receiving' => Receiving
    PROVE  QueueInOrder'
BY DEF QueueInOrder, IsChunk

\* An event that is no chunk does not disturb the order.
LEMMA OrderOfEvent ==
    ASSUME TypeOK, QueueInOrder, NEW e \in Events, e.kind # "output", Send(e),
           UNCHANGED <<shown, main>>, sent' = sent
    PROVE  QueueInOrder'
<1> USE DEF Receiving
<1>1. CASE ~Receiving
    BY <1>1 DEF QueueInOrder
<1>2. CASE Receiving
    <2>1. queue' = Append(queue, e) /\ queue \in Seq(Events)
        BY <1>2 DEF Send, TypeOK
    <2>2. Len(queue') = Len(queue) + 1 /\ Len(queue) \in Nat
        BY <2>1
    <2>3. \A i \in 1 .. Len(queue) : queue'[i] = queue[i]
        BY <2>1
    <2>4. queue'[Len(queue) + 1] = e
        BY <2>1
    <2>5. \A i \in 1 .. Len(queue') :
              queue'[i].kind = "output" => i \in 1 .. Len(queue) /\ IsChunk(i)
        BY <2>2, <2>3, <2>4 DEF IsChunk
    <2>6. \A i \in 1 .. Len(queue) : i \in 1 .. Len(queue') /\ IsChunk(i)' = IsChunk(i)
        BY <2>2, <2>3 DEF IsChunk
    <2>7. (\A i \in 1 .. Len(queue') : ~IsChunk(i)') => shown' = sent'
        BY <1>2, <2>6 DEF QueueInOrder
    <2>8. ASSUME NEW i \in 1 .. Len(queue'), IsChunk(i)'
          PROVE  /\ queue'[i].chunk <= sent'
                 /\ (\A j \in 1 .. i - 1 : ~IsChunk(j)') => queue'[i].chunk = shown' + 1
                 /\ (\A j \in i + 1 .. Len(queue') : ~IsChunk(j)') => queue'[i].chunk = sent'
                 /\ \A j \in i + 1 .. Len(queue') :
                       IsChunk(j)' /\ (\A k \in i + 1 .. j - 1 : ~IsChunk(k)')
                          => queue'[j].chunk = queue'[i].chunk + 1
        <3>1. i \in 1 .. Len(queue) /\ IsChunk(i) /\ queue'[i] = queue[i]
            BY <2>3, <2>5, <2>8 DEF IsChunk
        <3>2. queue'[i].chunk <= sent'
            BY <1>2, <3>1 DEF QueueInOrder
        <3>3. (\A j \in 1 .. i - 1 : ~IsChunk(j)') => queue'[i].chunk = shown' + 1
            BY <1>2, <2>2, <2>6, <3>1 DEF QueueInOrder
        <3>4. (\A j \in i + 1 .. Len(queue') : ~IsChunk(j)') => queue'[i].chunk = sent'
            BY <1>2, <2>2, <2>6, <3>1 DEF QueueInOrder
        <3>5. ASSUME NEW j \in i + 1 .. Len(queue'), IsChunk(j)',
                     \A k \in i + 1 .. j - 1 : ~IsChunk(k)'
              PROVE  queue'[j].chunk = queue'[i].chunk + 1
            <4>1. j \in i + 1 .. Len(queue) /\ IsChunk(j) /\ queue'[j] = queue[j]
                BY <2>2, <2>3, <2>5, <3>1, <3>5 DEF IsChunk
            <4>2. \A k \in i + 1 .. j - 1 : ~IsChunk(k)
                BY <2>2, <2>6, <3>1, <3>5, <4>1
            <4> QED
                BY <1>2, <3>1, <4>1, <4>2 DEF QueueInOrder
        <3> QED
            BY <3>2, <3>3, <3>4, <3>5
    <2> QED
        BY <2>7, <2>8 DEF QueueInOrder
<1> QED
    BY <1>1, <1>2

LEMMA OrderStep ==
    TypeOK /\ Accounted /\ QueueInOrder /\ [Next]_vars => QueueInOrder'
<1> SUFFICES ASSUME TypeOK, Accounted, QueueInOrder, [Next]_vars PROVE QueueInOrder'
    OBVIOUS
<1>1. CASE Output
    <2>1. sent' = sent
        BY <1>1, SMTT(20) DEF Output, sent, TypeOK
    <2> QED
        BY <1>1, <2>1, OrderKept DEF Output, loopVars, Receiving
<1>2. CASE Read
    <2>1. sent' = sent
        BY <1>2 DEF Read, sent, TypeOK
    <2> QED
        BY <1>2, <2>1, OrderKept DEF Read, loopVars, Receiving
<1>3. CASE Sent
    <2>1. CASE ~Receiving
        BY <1>3, <2>1 DEF QueueInOrder, Receiving, Sent
    <2>2. CASE Receiving
        <3> DEFINE n == written - pipe
        <3>1. /\ queue' = Append(queue, Chunk(n)) /\ queue \in Seq(Events)
              /\ sent = n - 1 /\ sent' = n /\ shown' = shown /\ n \in Nat
            BY <1>3, <2>2 DEF Sent, Send, sent, childVars, loopVars, TypeOK, Accounted
        <3>2. Len(queue') = Len(queue) + 1 /\ Len(queue) \in Nat
            BY <3>1
        <3>3. \A i \in 1 .. Len(queue) : queue'[i] = queue[i]
            BY <3>1
        <3>4. queue'[Len(queue) + 1] = Chunk(n)
            BY <3>1
        <3>5. Chunk(n).kind = "output" /\ Chunk(n).chunk = n
            BY DEF Chunk
        <3>6. \A i \in 1 .. Len(queue) : i \in 1 .. Len(queue') /\ IsChunk(i)' = IsChunk(i)
            BY <3>2, <3>3 DEF IsChunk
        <3>7. ~ \A i \in 1 .. Len(queue') : ~IsChunk(i)'
            BY <3>2, <3>4, <3>5 DEF IsChunk
        <3> HIDE DEF n
        <3>8. ASSUME NEW i \in 1 .. Len(queue'), IsChunk(i)'
              PROVE  /\ queue'[i].chunk <= sent'
                     /\ (\A j \in 1 .. i - 1 : ~IsChunk(j)') => queue'[i].chunk = shown' + 1
                     /\ (\A j \in i + 1 .. Len(queue') : ~IsChunk(j)') => queue'[i].chunk = sent'
                     /\ \A j \in i + 1 .. Len(queue') :
                           IsChunk(j)' /\ (\A k \in i + 1 .. j - 1 : ~IsChunk(k)')
                              => queue'[j].chunk = queue'[i].chunk + 1
            <4>1. CASE i = Len(queue) + 1
                <5>1. queue'[i].chunk = n
                    BY <3>4, <3>5, <4>1
                <5>2. (\A j \in 1 .. i - 1 : ~IsChunk(j)') => shown = sent
                    BY <2>2, <3>2, <3>6, <4>1 DEF QueueInOrder
                <5>3. \A j \in i + 1 .. Len(queue') : FALSE
                    BY <3>2, <4>1
                <5> QED
                    BY <3>1, <5>1, <5>2, <5>3
            <4>2. CASE i \in 1 .. Len(queue)
                <5>1. IsChunk(i) /\ queue'[i] = queue[i] /\ queue[i] \in Events
                    BY <3>1, <3>3, <3>6, <3>8, <4>2
                <5>2. queue[i].chunk \in Nat /\ queue[i].chunk <= sent
                    BY <2>2, <4>2, <5>1 DEF QueueInOrder, Events
                <5>3. (\A j \in 1 .. i - 1 : ~IsChunk(j)') => queue'[i].chunk = shown' + 1
                    BY <2>2, <3>1, <3>2, <3>6, <4>2, <5>1 DEF QueueInOrder
                <5>4. ~ \A j \in i + 1 .. Len(queue') : ~IsChunk(j)'
                    BY <3>2, <3>4, <3>5, <4>2 DEF IsChunk
                <5>5. ASSUME NEW j \in i + 1 .. Len(queue'), IsChunk(j)',
                             \A k \in i + 1 .. j - 1 : ~IsChunk(k)'
                      PROVE  queue'[j].chunk = queue'[i].chunk + 1
                    <6>1. \A k \in i + 1 .. j - 1 : k \in 1 .. Len(queue) /\ ~IsChunk(k)
                        BY <3>2, <3>6, <4>2, <5>5
                    <6>2. CASE j = Len(queue) + 1
                        <7>1. queue'[j].chunk = n
                            BY <3>4, <3>5, <6>2
                        <7>2. queue[i].chunk = sent
                            BY <2>2, <4>2, <5>1, <6>1, <6>2 DEF QueueInOrder
                        <7> QED
                            BY <3>1, <5>1, <7>1, <7>2
                    <6>3. CASE j \in i + 1 .. Len(queue)
                        <7>1. IsChunk(j) /\ queue'[j] = queue[j]
                            BY <3>3, <3>6, <4>2, <5>5, <6>3
                        <7> QED
                            BY <2>2, <4>2, <5>1, <6>1, <6>3, <7>1 DEF QueueInOrder
                    <6> QED
                        BY <3>2, <6>2, <6>3
                <5>6. queue'[i].chunk <= sent'
                    BY <3>1, <5>1, <5>2
                <5> QED
                    BY <5>3, <5>4, <5>5, <5>6
            <4> QED
                BY <3>2, <4>1, <4>2
        <3> QED
            BY <3>7, <3>8 DEF QueueInOrder
    <2> QED
        BY <2>1, <2>2
<1>4. CASE EndOfOutput \/ Finish \/ LockChild \/ Reap
    <2>1. sent' = sent
        BY <1>4 DEF EndOfOutput, Finish, LockChild, Reap, sent, childVars
    <2> QED
        BY <1>4, <2>1, OrderKept DEF EndOfOutput, Finish, LockChild, Reap, loopVars, Receiving
<1>5. CASE Closed \/ Exited
    <2>1. sent' = sent /\ UNCHANGED <<shown, main>>
        BY <1>5 DEF Closed, Exited, sent, childVars, loopVars
    <2>2. /\ Event("closed") \in Events /\ Event("closed").kind # "output"
          /\ Event("exited") \in Events /\ Event("exited").kind # "output"
        BY DEF Event, Events
    <2>3. Send(Event("closed")) \/ Send(Event("exited"))
        BY <1>5 DEF Closed, Exited
    <2> QED
        BY <2>1, <2>2, <2>3, OrderOfEvent
<1>6. CASE Drain
    <2>1. /\ queue \in Seq(Events) /\ queue # <<>> /\ queue' = Tail(queue)
          /\ Receiving /\ sent' = sent
          /\ shown' = IF Head(queue).kind = "output" THEN Head(queue).chunk ELSE shown
        BY <1>6 DEF Drain, TypeOK, Receiving, sent, childVars
    <2>2. /\ Len(queue) \in Nat \ {0} /\ Len(queue') = Len(queue) - 1
          /\ Head(queue) = queue[1]
        BY <2>1
    <2>3. \A i \in 1 .. Len(queue') : queue'[i] = queue[i + 1]
        BY <2>1
    <2>4. \A i \in 1 .. Len(queue') : IsChunk(i)' = IsChunk(i + 1)
        BY <2>3 DEF IsChunk
    <2>5. \A i \in 2 .. Len(queue) : i - 1 \in 1 .. Len(queue')
        BY <2>2
    <2>6. \A i \in 2 .. Len(queue) : IsChunk(i - 1)' = IsChunk(i)
        BY <2>2, <2>4
    <2>7. ASSUME \A i \in 1 .. Len(queue') : ~IsChunk(i)'
          PROVE  shown' = sent'
        <3>1. \A i \in 2 .. Len(queue) : ~IsChunk(i)
            BY <2>5, <2>6, <2>7
        <3>2. CASE IsChunk(1)
            <4>1. queue[1].chunk = sent
                BY <2>1, <2>2, <3>1, <3>2 DEF QueueInOrder
            <4> QED
                BY <2>1, <2>2, <3>2, <4>1 DEF IsChunk
        <3>3. CASE ~IsChunk(1)
            <4>1. \A i \in 1 .. Len(queue) : ~IsChunk(i)
                BY <2>2, <3>1, <3>3
            <4> QED
                BY <2>1, <2>2, <3>3, <4>1 DEF QueueInOrder, IsChunk
        <3> QED
            BY <3>2, <3>3
    <2>8. ASSUME NEW i \in 1 .. Len(queue'), IsChunk(i)'
          PROVE  /\ queue'[i].chunk <= sent'
                 /\ (\A j \in 1 .. i - 1 : ~IsChunk(j)') => queue'[i].chunk = shown' + 1
                 /\ (\A j \in i + 1 .. Len(queue') : ~IsChunk(j)') => queue'[i].chunk = sent'
                 /\ \A j \in i + 1 .. Len(queue') :
                       IsChunk(j)' /\ (\A k \in i + 1 .. j - 1 : ~IsChunk(k)')
                          => queue'[j].chunk = queue'[i].chunk + 1
        <3>1. i + 1 \in 1 .. Len(queue) /\ IsChunk(i + 1) /\ queue'[i] = queue[i + 1]
            BY <2>2, <2>3, <2>4, <2>8
        <3>2. queue'[i].chunk <= sent'
            BY <2>1, <3>1 DEF QueueInOrder
        <3>3. ASSUME \A j \in 1 .. i - 1 : ~IsChunk(j)'
              PROVE  queue'[i].chunk = shown' + 1
            <4>1. \A j \in 2 .. (i + 1) - 1 : ~IsChunk(j)
                BY <2>2, <2>6, <3>3
            <4>2. CASE IsChunk(1)
                BY <2>1, <2>2, <3>1, <4>1, <4>2 DEF QueueInOrder, IsChunk
            <4>3. CASE ~IsChunk(1)
                BY <2>1, <2>2, <3>1, <4>1, <4>3 DEF QueueInOrder, IsChunk
            <4> QED
                BY <4>2, <4>3
        <3>4. ASSUME \A j \in i + 1 .. Len(queue') : ~IsChunk(j)'
              PROVE  queue'[i].chunk = sent'
            <4>1. \A j \in (i + 1) + 1 .. Len(queue) : ~IsChunk(j)
                BY <2>2, <2>6, <3>4
            <4> QED
                BY <2>1, <3>1, <4>1 DEF QueueInOrder
        <3>5. ASSUME NEW j \in i + 1 .. Len(queue'), IsChunk(j)',
                     \A k \in i + 1 .. j - 1 : ~IsChunk(k)'
              PROVE  queue'[j].chunk = queue'[i].chunk + 1
            <4>1. /\ j + 1 \in (i + 1) + 1 .. Len(queue) /\ IsChunk(j + 1)
                  /\ queue'[j] = queue[j + 1]
                BY <2>2, <2>3, <2>4, <3>5
            <4>2. \A k \in (i + 1) + 1 .. (j + 1) - 1 : ~IsChunk(k)
                BY <2>2, <2>6, <3>5
            <4> QED
                BY <2>1, <3>1, <4>1, <4>2 DEF QueueInOrder
        <3> QED
            BY <3>2, <3>3, <3>4, <3>5
    <2> QED
        BY <2>7, <2>8 DEF QueueInOrder
<1>7. CASE \/ TakeInput \/ HangUp \/ Exit \/ Tick \/ Over \/ UNCHANGED vars
           \/ (Main /\ ~Drain)
    <2>1. UNCHANGED <<written, pipe, reader, queue, shown>> /\ (Receiving' => Receiving)
        BY <1>7
           DEF TakeInput, HangUp, Exit, Tick, Over, vars, childVars, loopVars, Receiving,
               Main, Drained, Draw, Decide, Poll, Type, Write, WriteFails, Fail, Flush, Terminate
    <2>2. sent' = sent
        BY <2>1 DEF sent
    <2> QED
        BY <2>1, <2>2, OrderKept
<1> QED
    BY <1>1, <1>2, <1>3, <1>4, <1>5, <1>6, <1>7 DEF Next, Reader, Watcher

-----------------------------------------------------------------------------
LEMMA SentElements ==
    ASSUME TypeOK, NEW e \in Events, Send(e), Receiving
    PROVE  /\ Len(queue') = Len(queue) + 1 /\ Len(queue) \in Nat
           /\ \A i \in 1 .. Len(queue) : queue'[i] = queue[i]
           /\ queue'[Len(queue) + 1] = e
<1>1. queue' = Append(queue, e) /\ queue \in Seq(Events)
    BY DEF Send, TypeOK
<1> QED
    BY <1>1

LEMMA DrainElements ==
    ASSUME TypeOK, Drain
    PROVE  /\ Len(queue) \in Nat \ {0} /\ Len(queue') = Len(queue) - 1
           /\ \A i \in 1 .. Len(queue') : queue'[i] = queue[i + 1]
           /\ Head(queue) = queue[1]
<1>1. queue \in Seq(Events) /\ queue # <<>> /\ queue' = Tail(queue)
    BY DEF TypeOK, Drain
<1> QED
    BY <1>1

LEMMA ClosedStep == TypeOK /\ Accounted /\ ClosedIsLast /\ [Next]_vars => ClosedIsLast'
<1> SUFFICES ASSUME TypeOK, Accounted, ClosedIsLast, [Next]_vars PROVE ClosedIsLast'
    OBVIOUS
<1>1. CASE Output \/ HangUp \/ Exit \/ Read
    BY <1>1 DEF Output, HangUp, Exit, Read, childVars, loopVars, ClosedIsLast, Receiving,
                IsChunk, TypeOK
<1>2. CASE Sent
    <2>1. CASE ~Receiving
        BY <1>2, <2>1 DEF Sent, ClosedIsLast, Receiving
    <2>2. CASE Receiving
        <3>1. Send(Chunk(written - pipe)) /\ Chunk(written - pipe) \in Events
            BY <1>2 DEF Sent, Chunk, Events, Accounted, TypeOK
        <3>2. /\ Len(queue') = Len(queue) + 1 /\ Len(queue) \in Nat
              /\ \A i \in 1 .. Len(queue) : queue'[i] = queue[i]
              /\ queue'[Len(queue) + 1] = Chunk(written - pipe)
            BY <2>2, <3>1, SentElements
        <3>3. \A i \in 1 .. Len(queue') : queue'[i].kind # "closed"
            BY <1>2, <2>2, <3>2 DEF Sent, ClosedIsLast, Chunk
        <3>4. ~closed /\ UNCHANGED <<closed, open, pipe>> /\ reader' = "read"
            BY <1>2, <2>2 DEF Sent, ClosedIsLast, loopVars, childVars
        <3> QED
            BY <3>3, <3>4 DEF ClosedIsLast
    <2> QED
        BY <2>1, <2>2
<1>3. CASE EndOfOutput \/ Finish
    BY <1>3 DEF EndOfOutput, Finish, childVars, loopVars, ClosedIsLast, Receiving, IsChunk
<1>4. CASE Closed
    <2>1. CASE ~Receiving
        BY <1>4, <2>1 DEF Closed, ClosedIsLast, Receiving
    <2>2. CASE Receiving
        <3>1. Send(Event("closed")) /\ Event("closed") \in Events
            BY <1>4 DEF Closed, Event, Events
        <3>2. /\ Len(queue') = Len(queue) + 1 /\ Len(queue) \in Nat
              /\ \A i \in 1 .. Len(queue) : queue'[i] = queue[i]
              /\ queue'[Len(queue) + 1] = Event("closed")
            BY <2>2, <3>1, SentElements
        <3>3. \A i \in 1 .. Len(queue) : queue'[i].kind # "closed"
            BY <1>4, <2>2, <3>2 DEF Closed, ClosedIsLast
        <3>4. /\ ~closed /\ UNCHANGED <<closed, open, pipe>>
              /\ reader' = "finish" /\ ~open /\ pipe = 0
            BY <1>4, <2>2 DEF Closed, ClosedIsLast, loopVars, childVars
        <3> QED
            BY <3>2, <3>3, <3>4 DEF ClosedIsLast
    <2> QED
        BY <2>1, <2>2
<1>5. CASE Exited
    <2>1. CASE ~Receiving
        BY <1>5, <2>1 DEF Exited, ClosedIsLast, Receiving
    <2>2. CASE Receiving
        <3>1. Send(Event("exited")) /\ Event("exited") \in Events
            BY <1>5 DEF Exited, Event, Events
        <3>2. /\ Len(queue') = Len(queue) + 1 /\ Len(queue) \in Nat
              /\ \A i \in 1 .. Len(queue) : queue'[i] = queue[i]
              /\ queue'[Len(queue) + 1] = Event("exited")
            BY <2>2, <3>1, SentElements
        <3>3. Event("exited").kind = "exited"
            BY DEF Event
        <3>4. UNCHANGED <<closed, open, pipe, reader>>
            BY <1>5 DEF Exited, loopVars, childVars
        <3>5. \A i \in 1 .. Len(queue') :
                  queue'[i].kind # "exited" => i \in 1 .. Len(queue) /\ queue'[i] = queue[i]
            BY <3>2, <3>3
        <3> QED
            BY <2>2, <3>2, <3>3, <3>4, <3>5 DEF ClosedIsLast, IsChunk
    <2> QED
        BY <2>1, <2>2
<1>6. CASE Drain
    <2>1. /\ Len(queue) \in Nat \ {0} /\ Len(queue') = Len(queue) - 1
          /\ \A i \in 1 .. Len(queue') : queue'[i] = queue[i + 1]
          /\ Head(queue) = queue[1]
        BY <1>6, DrainElements
    <2>2. /\ UNCHANGED <<open, pipe, reader>> /\ Receiving
          /\ closed' = (closed \/ queue[1].kind = "closed")
        BY <1>6, <2>1 DEF Drain, childVars, Receiving
    <2>3. \A i \in 1 .. Len(queue') : i + 1 \in 2 .. Len(queue) /\ queue'[i] = queue[i + 1]
        BY <2>1
    <2>4. closed' => reader' \in {"finish", "done"} /\ \A i \in 1 .. Len(queue') : ~IsChunk(i)'
        <3>1. CASE closed
            BY <2>2, <2>3, <3>1 DEF ClosedIsLast, IsChunk
        <3>2. CASE queue[1].kind = "closed"
            <4>1. reader \in {"finish", "done"} /\ \A j \in 1 + 1 .. Len(queue) : ~IsChunk(j)
                BY <2>1, <2>2, <3>2 DEF ClosedIsLast
            <4> QED
                BY <2>2, <2>3, <4>1 DEF IsChunk
        <3> QED
            BY <2>2, <3>1, <3>2
    <2>5. ASSUME NEW i \in 1 .. Len(queue'), queue'[i].kind = "closed"
          PROVE  reader' \in {"finish", "done"} /\ \A j \in i + 1 .. Len(queue') : ~IsChunk(j)'
        <3>1. i + 1 \in 1 .. Len(queue) /\ queue[i + 1].kind = "closed"
            BY <2>1, <2>3, <2>5
        <3>2. /\ reader \in {"finish", "done"}
              /\ \A j \in (i + 1) + 1 .. Len(queue) : ~IsChunk(j)
            BY <2>2, <3>1 DEF ClosedIsLast
        <3>3. ASSUME NEW j \in i + 1 .. Len(queue')
              PROVE  ~IsChunk(j)'
            <4>1. j \in 1 .. Len(queue') /\ j + 1 \in (i + 1) + 1 .. Len(queue)
                BY <2>1, <2>3, <2>5
            <4> QED
                BY <2>3, <3>2, <4>1 DEF IsChunk
        <3> QED
            BY <2>2, <3>2, <3>3
    <2> QED
        BY <2>2, <2>4, <2>5 DEF ClosedIsLast
<1>7. CASE Drained
    <2>1. Len(queue) = 0 /\ UNCHANGED <<open, pipe, reader, queue>> /\ Receiving
        BY <1>7 DEF Drained, childVars, Receiving
    <2>2. closed' => closed \/ reader = "done"
        BY <1>7 DEF Drained
    <2> QED
        BY <2>1, <2>2 DEF ClosedIsLast
<1>8. CASE Terminate \/ Flush
    BY <1>8 DEF Terminate, Flush, ClosedIsLast, Receiving
<1>9. CASE \/ TakeInput \/ LockChild \/ Reap \/ Tick \/ Over \/ UNCHANGED vars
           \/ Draw \/ Decide \/ Poll \/ Type \/ Write \/ WriteFails \/ Fail
    <2>1. UNCHANGED <<open, pipe, reader, closed, queue>> /\ (Receiving' => Receiving)
        BY <1>9 DEF TakeInput, LockChild, Reap, Tick, Over, vars, Draw, Decide, Poll, Type,
                    Write, WriteFails, Fail, childVars, loopVars, Receiving
    <2> QED
        BY <2>1 DEF ClosedIsLast, IsChunk
<1> QED
    BY <1>1, <1>2, <1>3, <1>4, <1>5, <1>6, <1>7, <1>8, <1>9 DEF Next, Reader, Watcher, Main

LEMMA ExitStep == TypeOK /\ Accounted /\ ExitIsReal /\ [Next]_vars => ExitIsReal'
<1> SUFFICES ASSUME TypeOK, Accounted, ExitIsReal, [Next]_vars PROVE ExitIsReal'
    OBVIOUS
<1>1. CASE Exit \/ Terminate
    BY <1>1 DEF Exit, Terminate, loopVars, ExitIsReal
<1>2. CASE Sent \/ Closed \/ Exited
    <2>1. PICK e \in Events : Send(e) /\ (e.kind = "exited" => child = "exited")
        <3>1. CASE Sent
            <4>1. Send(Chunk(written - pipe)) /\ Chunk(written - pipe) \in Events
                BY <3>1 DEF Sent, Chunk, Events, Accounted, TypeOK
            <4>2. Chunk(written - pipe).kind # "exited"
                BY DEF Chunk
            <4> QED
                BY <4>1, <4>2
        <3>2. CASE Closed
            BY <3>2 DEF Closed, Event, Events
        <3>3. CASE Exited
            BY <3>3 DEF Exited, Event, Events, ExitIsReal
        <3> QED
            BY <1>2, <3>1, <3>2, <3>3
    <2>2. UNCHANGED <<child, status, main>> /\ (watcher' \in {"send", "done"} => child = "exited")
        BY <1>2 DEF Sent, Closed, Exited, childVars, loopVars, ExitIsReal
    <2>3. CASE ~Receiving
        BY <2>1, <2>2, <2>3 DEF Send, ExitIsReal
    <2>4. CASE Receiving
        <3>1. /\ Len(queue') = Len(queue) + 1 /\ Len(queue) \in Nat
              /\ \A i \in 1 .. Len(queue) : queue'[i] = queue[i]
              /\ queue'[Len(queue) + 1] = e
            BY <2>1, <2>4, SentElements
        <3> QED
            BY <2>1, <2>2, <3>1 DEF ExitIsReal
    <2> QED
        BY <2>3, <2>4
<1>3. CASE Drain
    <2>1. /\ Len(queue) \in Nat \ {0} /\ Len(queue') = Len(queue) - 1
          /\ \A i \in 1 .. Len(queue') : queue'[i] = queue[i + 1]
          /\ Head(queue) = queue[1]
        BY <1>3, DrainElements
    <2>2. UNCHANGED <<child, watcher, main>> /\ status' = (status \/ queue[1].kind = "exited")
        BY <1>3, <2>1 DEF Drain, childVars
    <2>3. main # "flush"
        BY <1>3 DEF Drain
    <2>4. queue[1].kind = "exited" => child = "exited"
        BY <2>1 DEF ExitIsReal
    <2>5. \A i \in 1 .. Len(queue') : i + 1 \in 1 .. Len(queue) /\ queue'[i] = queue[i + 1]
        BY <2>1
    <2>6. \A i \in 1 .. Len(queue') : queue'[i].kind = "exited" => child = "exited"
        BY <2>5 DEF ExitIsReal
    <2>7. status' => child = "exited"
        BY <2>2, <2>4 DEF ExitIsReal
    <2> QED
        BY <2>2, <2>3, <2>6, <2>7 DEF ExitIsReal
<1>4. CASE \/ Output \/ TakeInput \/ HangUp \/ Read \/ EndOfOutput \/ Finish \/ LockChild
           \/ Reap \/ Drained \/ Draw \/ Decide \/ Poll \/ Type \/ Write \/ WriteFails
           \/ Fail \/ Flush \/ Tick \/ Over \/ UNCHANGED vars
    <2>1. UNCHANGED <<child, queue, status>>
        BY <1>4 DEF Output, TakeInput, HangUp, Read, EndOfOutput, Finish, LockChild, Reap,
                    Drained, Draw, Decide, Poll, Type, Write, WriteFails, Fail, Flush, Tick,
                    Over, vars, childVars, loopVars
    <2>2. watcher' \in {"send", "done"} => watcher \in {"send", "done"} \/ child = "exited"
        BY <1>4 DEF Output, TakeInput, HangUp, Read, EndOfOutput, Finish, LockChild, Reap,
                    Drained, Draw, Decide, Poll, Type, Write, WriteFails, Fail, Flush, Tick,
                    Over, vars
    <2>3. main' = "flush" => main = "flush" \/ status
        BY <1>4 DEF Output, TakeInput, HangUp, Read, EndOfOutput, Finish, LockChild, Reap,
                    Drained, Draw, Decide, Poll, Type, Write, WriteFails, Fail, Flush, Tick,
                    Over, vars
    <2>4. status \in BOOLEAN /\ status' = status /\ child' = child
        BY <2>1 DEF TypeOK
    <2>5. watcher' \in {"send", "done"} => child' = "exited"
        BY <2>2, <2>4 DEF ExitIsReal
    <2>6. main' = "flush" => status'
        BY <2>3, <2>4 DEF ExitIsReal
    <2>7. status' => child' = "exited"
        BY <2>4 DEF ExitIsReal
    <2>8. \A i \in 1 .. Len(queue') : queue'[i].kind = "exited" => child' = "exited"
        BY <2>1 DEF ExitIsReal
    <2> QED
        BY <2>5, <2>6, <2>7, <2>8 DEF ExitIsReal
<1> QED
    BY <1>1, <1>2, <1>3, <1>4 DEF Next, Reader, Watcher, Main

LEMMA ReasonStep == TypeOK /\ EndsForAReason /\ [Next]_vars => EndsForAReason'
<1> SUFFICES ASSUME TypeOK, EndsForAReason, [Next]_vars PROVE EndsForAReason'
    OBVIOUS
<1> USE DEF TypeOK, EndsForAReason, loopVars
<1>1. CASE Main
    BY <1>1 DEF Main, Drain, Drained, Draw, Decide, Poll, Type, Write, WriteFails, Fail,
                Flush, Terminate
<1>2. CASE Tick
    BY <1>2 DEF Tick
<1>3. CASE ~Main /\ ~Tick
    BY <1>3 DEF Next, Output, TakeInput, HangUp, Exit, Reader, Read, Sent, EndOfOutput, Closed,
                Finish, Watcher, LockChild, Reap, Exited, Over, vars
<1> QED
    BY <1>1, <1>2, <1>3

LEMMA LoggedStep ==
    TypeOK /\ Accounted /\ QueueInOrder /\ ShownIsLogged /\ [Next]_vars => ShownIsLogged'
<1> SUFFICES ASSUME TypeOK, Accounted, QueueInOrder, ShownIsLogged, [Next]_vars
             PROVE  ShownIsLogged'
    OBVIOUS
<1>1. CASE Drain
    <2>1. /\ Len(queue) \in Nat \ {0} /\ Head(queue) = queue[1] /\ Receiving
          /\ logged' = logged
          /\ shown' = IF queue[1].kind = "output" THEN queue[1].chunk ELSE shown
        BY <1>1, DrainElements DEF Drain, Receiving
    <2>2. queue[1].kind = "output" => queue[1].chunk <= sent
        BY <2>1 DEF QueueInOrder, IsChunk
    <2>3. queue[1].chunk \in Nat
        <3>1. queue[1] \in Events
            BY <2>1 DEF TypeOK
        <3> QED
            BY <3>1 DEF Events
    <2>4. sent <= logged /\ sent \in Nat /\ logged \in Nat
        BY DEF sent, Accounted, TypeOK
    <2> QED
        BY <2>1, <2>2, <2>3, <2>4 DEF ShownIsLogged
<1>2. CASE Read
    BY <1>2 DEF Read, ShownIsLogged, Accounted, TypeOK, loopVars
<1>3. CASE ~Drain /\ ~Read
    <2>1. UNCHANGED <<shown, logged>>
        BY <1>3 DEF Next, Output, TakeInput, HangUp, Exit, Reader, Sent, EndOfOutput, Closed,
                    Finish, Watcher, LockChild, Reap, Exited, Over, vars, loopVars, childVars,
                    Main, Drained, Draw, Decide, Poll, Type, Write, WriteFails, Fail, Flush,
                    Terminate, Tick
    <2> QED
        BY <2>1 DEF ShownIsLogged
<1> QED
    BY <1>1, <1>2, <1>3

LEMMA ReturnStep ==
    TypeOK /\ ExitIsReal /\ ReturnedMeansGone /\ [Next]_vars => ReturnedMeansGone'
<1> SUFFICES ASSUME TypeOK, ExitIsReal, ReturnedMeansGone, [Next]_vars PROVE ReturnedMeansGone'
    OBVIOUS
<1>1. main' = "returned" => main \in {"returned", "flush", "terminate"}
    BY DEF Next, Output, TakeInput, HangUp, Exit, Reader, Read, Sent, EndOfOutput, Closed,
           Finish, Watcher, LockChild, Reap, Exited, Over, vars, Main, Drain, Drained, Draw,
           Decide, Poll, Type, Write, WriteFails, Fail, Flush, Terminate, Tick
<1>2. child = "exited" => child' = "exited"
    BY DEF Next, Output, TakeInput, HangUp, Exit, Reader, Read, Sent, EndOfOutput, Closed,
           Finish, Watcher, LockChild, Reap, Exited, Over, vars, Main, Drain, Drained, Draw,
           Decide, Poll, Type, Write, WriteFails, Fail, Flush, Terminate, Tick, childVars
<1>3. main = "terminate" /\ main' = "returned" => child' = "exited"
    BY DEF Next, Output, TakeInput, HangUp, Exit, Reader, Read, Sent, EndOfOutput, Closed,
           Finish, Watcher, LockChild, Reap, Exited, Over, vars, Main, Drain, Drained, Draw,
           Decide, Poll, Type, Write, WriteFails, Fail, Flush, Terminate, Tick
<1>4. main \in {"returned", "flush"} => child = "exited"
    BY DEF ExitIsReal, ReturnedMeansGone, TypeOK
<1> QED
    BY <1>1, <1>2, <1>3, <1>4 DEF ReturnedMeansGone

-----------------------------------------------------------------------------
IInv ==
    /\ TypeOK /\ Accounted /\ QueueInOrder /\ ClosedIsLast /\ ExitIsReal
    /\ EndsForAReason /\ ShownIsLogged /\ ReturnedMeansGone

LEMMA AlwaysInOrder == Spec => []IInv
<1>1. Init => IInv
    <2> SUFFICES ASSUME Init PROVE IInv
        OBVIOUS
    <2>1. TypeOK
        BY TypeInit
    <2>2. Len(queue) = 0
        BY DEF Init
    <2> QED
        BY <2>1, <2>2 DEF Init, IInv, Accounted, QueueInOrder, ClosedIsLast, ExitIsReal,
                          EndsForAReason, ShownIsLogged, ReturnedMeansGone, sent
<1>2. IInv /\ [Next]_vars => IInv'
    BY TypeStep, AccountedStep, OrderStep, ClosedStep, ExitStep, ReasonStep, LoggedStep,
       ReturnStep
       DEF IInv
<1> QED
    BY <1>1, <1>2, PTL DEF Spec

\* The threads and the queue stay within their types, the queue within its
\* capacity.
THEOREM RuntimeTypeCorrect == Spec => []TypeOK
<1>1. IInv => TypeOK
    BY DEF IInv
<1> QED
    BY <1>1, AlwaysInOrder, PTL

\* The event loop ends on the exit status only when the whole output is shown
\* and logged, or the grace period is over.
THEOREM OutputIsComplete == Spec => []CompleteOnReturn
<1>1. IInv => CompleteOnReturn
    <2> SUFFICES ASSUME IInv, main = "flush", grace # 0
                 PROVE  shown = written /\ logged = written
        BY DEF CompleteOnReturn
    <2>1. closed /\ Receiving
        BY DEF IInv, EndsForAReason, Receiving
    <2>2. /\ reader \in {"finish", "done"} /\ pipe = 0
          /\ \A i \in 1 .. Len(queue) : ~IsChunk(i)
        BY <2>1 DEF IInv, ClosedIsLast
    <2>3. shown = sent
        BY <2>1, <2>2 DEF IInv, QueueInOrder
    <2> QED
        BY <2>2, <2>3 DEF IInv, sent, Accounted, TypeOK
<1> QED
    BY <1>1, AlwaysInOrder, PTL

\* Nothing is shown that is not in the session log.
THEOREM LogLeadsScreen == Spec => []ShownIsLogged
<1>1. IInv => ShownIsLogged
    BY DEF IInv
<1> QED
    BY <1>1, AlwaysInOrder, PTL

\* When run_interactive_ssh returns, with a status or an error, its child has
\* exited.
THEOREM NoChildLeftRunning == Spec => []ReturnedMeansGone
<1>1. IInv => ReturnedMeansGone
    BY DEF IInv
<1> QED
    BY <1>1, AlwaysInOrder, PTL

\* The engine processes the chunks one by one, in the order of writing.
THEOREM OutputStaysInOrder == Spec => OutputInOrder
<1>1. IInv /\ [Next]_vars => (shown' # shown => shown' = shown + 1)
    <2> SUFFICES ASSUME IInv, [Next]_vars, shown' # shown PROVE shown' = shown + 1
        OBVIOUS
    <2>1. Drain
        BY DEF Next, Output, TakeInput, HangUp, Exit, Reader, Read, Sent, EndOfOutput, Closed,
               Finish, Watcher, LockChild, Reap, Exited, Over, vars, loopVars, Main, Drained,
               Draw, Decide, Poll, Type, Write, WriteFails, Fail, Flush, Terminate, Tick
    <2>2. Len(queue) \in Nat \ {0} /\ Head(queue) = queue[1] /\ Receiving
        BY <2>1, DrainElements DEF IInv, Drain, Receiving
    <2>3. IsChunk(1) /\ shown' = queue[1].chunk
        BY <2>1, <2>2 DEF Drain, IsChunk
    <2> QED
        BY <2>2, <2>3 DEF IInv, QueueInOrder
<1>2. IInv /\ [Next]_vars => [shown' # shown => shown' = shown + 1]_vars
    BY <1>1
<1> QED
    BY <1>2, AlwaysInOrder, PTL DEF Spec, OutputInOrder
=============================================================================
