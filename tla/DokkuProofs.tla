---------------------------- MODULE DokkuProofs ----------------------------
(***************************************************************************)
(* Proofs about an invocation of Dokku, for any number of lines and any    *)
(* size of the pipe: both implementations of Logs keep the contract, and   *)
(* an answer is true of the command.                                       *)
(***************************************************************************)
EXTENDS Dokku, SequenceTheorems, TLAPS

TypeOK ==
    /\ kind \in {"report", "logs", "fake", "fakeFollow"} /\ hop \in BOOLEAN
    /\ at \in {"call", "refusedStart", "scan", "reap", "collect", "await", "finish", "fake", "returned"}
    /\ alive \in SUBSET Processes /\ forked \in SUBSET Processes
    /\ stdout \in SUBSET alive /\ stderr \in SUBSET alive
    /\ exit \in {"none", "ok", "failed", "killed"}
    /\ written \in Nat /\ pipe \in Seq(Nat) /\ readEnd \in BOOLEAN
    /\ copied \in BOOLEAN /\ stopped \in BOOLEAN
    /\ watch \in {"none", "spawned", "parked", "timing", "expired", "ended"}
    /\ watchErr \in {"nil", "cancel", "ctx", "delay"}
    /\ waitErr \in {"nil", "exit", "cancel", "ctx", "delay"}
    /\ scanErr \in BOOLEAN /\ delivered \in Seq(Nat) /\ refused \in BOOLEAN
    /\ gone \in BOOLEAN
    /\ result \in {"none", "ok", "command", "cancelled", "refused"}

----------------------------------------------------------------------------
(* The caller's side: what it holds at each place it can be at.            *)

Waiting == {"reap", "collect", "await", "finish"}

CallIsOfItsKind ==
    /\ result = "none" <=> at # "returned"
    /\ at \in {"scan", "refusedStart"} => kind = "logs"
    /\ at \in Waiting => kind \in {"report", "logs"}
    /\ at = "fake" => kind \in {"fake", "fakeFollow"}
    /\ at \in {"call", "refusedStart", "fake"} \/ kind \in {"fake", "fakeFollow"} => watch = "none"

\* Nothing is refused before the loop has ended, and a report hands out no lines.
RefusalIsLast ==
    /\ at \in {"call", "refusedStart", "scan", "fake"} => ~refused /\ ~scanErr
    /\ at \in {"call", "refusedStart"} \/ kind = "report" => delivered = <<>> /\ ~refused

\* The next lines are the ones after those delivered, until one is too long.
LinesAreNext ==
    at \in {"scan", "fake"} =>
        \A i \in 1 .. Len(pipe) :
            pipe[i] = Len(delivered) + i \/ (at = "scan" /\ pipe[i] = TooLong)

(* The command's side.                                                     *)

\* The process dokkup started runs until it has an exit status, and not again.
LeaderIsOne ==
    /\ alive # {} => Leader \in forked
    /\ exit # "none" => Leader \notin alive
    /\ watch = "none" => alive = {} /\ exit = "none"
    /\ at \in {"collect", "await", "finish"} \/ watch = "ended" => exit # "none"

\* What the watcher knows, it has handed to Wait when it ends.
WatcherHandsOver ==
    /\ watch = "none" => watchErr = "nil" /\ ~copied /\ readEnd
    /\ at \in {"scan"} \cup Waiting => watch # "none"
    /\ at \in {"await", "finish"} => watch = "ended"
    /\ at = "returned" => watch \in {"none", "ended"}
    /\ watch = "ended" => at \in {"await", "finish", "returned"}
    /\ watch = "ended" /\ watchErr # "nil" => waitErr # "nil"

\* The copying is cut short, and a pipe closed early, only by someone who says so.
Told ==
    \/ watch \in {"expired", "ended"} /\ watchErr # "nil"
    \/ at \in {"finish", "returned"} /\ waitErr # "nil"

ClosingIsTold ==
    /\ copied => Held = {} \/ Told
    /\ ~readEnd => Told \/ at \in {"finish", "returned"}
    /\ ~readEnd => watch \in {"expired", "ended"}
    /\ at = "finish" => copied

WaitTellsTheExit == at \in {"collect", "await", "finish"} /\ waitErr = "nil" => exit = "ok"

\* A stream that is neither refused nor broken off has been read to its end.
AllIsRead ==
    /\ at \in {"call", "refusedStart"} => written = 0 /\ pipe = <<>>
    /\ at = "scan" /\ readEnd => written = Len(delivered) + Len(pipe)
    /\ kind = "logs" /\ at \in Waiting /\ ~refused /\ ~scanErr =>
         stdout = {} /\ written = Len(delivered)

\* A stream's group is gone once it has been signalled, and it is signalled
\* before anything else dokkup does can kill its leader.
GroupIsGone ==
    kind = "logs" /\ ~hop =>
        /\ watch \in {"timing", "expired"} => alive \cap Group = {}
        /\ exit = "killed" => alive \cap Group = {}

\* The parts that need each other.
CommandSide ==
    CallIsOfItsKind /\ LeaderIsOne /\ WatcherHandsOver /\ ClosingIsTold /\ WaitTellsTheExit

Inv ==
    /\ TypeOK /\ CommandSide /\ RefusalIsLast /\ LinesAreNext
    /\ AllIsRead /\ GroupIsGone /\ AnswerIsTrue
----------------------------------------------------------------------------
\* What the scanner had taken in is the beginning of the pipe.
LEMMA CloseKeepsAPrefix ==
    ASSUME pipe \in Seq(Nat), closeDescriptors
    PROVE  /\ pipe' \in Seq(Nat) /\ Len(pipe') <= Len(pipe)
           /\ \A i \in 1 .. Len(pipe') : pipe'[i] = pipe[i]
           /\ readEnd' = FALSE /\ written' = written
<1>1. PICK n \in 0 .. Len(pipe) : pipe' = SubSeq(pipe, 1, n)
  BY DEF closeDescriptors
<1>2. n \in Nat /\ n <= Len(pipe) /\ Len(pipe) \in Nat
  OBVIOUS
<1>3. SubSeq(pipe, 1, n) \in Seq(Nat) /\ Len(SubSeq(pipe, 1, n)) = n
  BY <1>2
<1>4. \A i \in 1 .. n : SubSeq(pipe, 1, n)[i] = pipe[i]
  BY <1>2
<1> QED
  BY <1>1, <1>2, <1>3, <1>4 DEF closeDescriptors

\* A line is read off the pipe's head; the others move up.
LEMMA TailMovesUp ==
    ASSUME pipe \in Seq(Nat), pipe # <<>>
    PROVE  /\ Len(pipe) \in Nat /\ 1 <= Len(pipe) /\ Len(Tail(pipe)) = Len(pipe) - 1
           /\ Head(pipe) = pipe[1] /\ Head(pipe) \in Nat
           /\ \A i \in 1 .. Len(Tail(pipe)) : Tail(pipe)[i] = pipe[i + 1]
  OBVIOUS

\* What one line written or read does to the output.
LEMMA LineIn ==
    ASSUME TypeOK, Write, at = "scan", readEnd
    PROVE  /\ written' = written + 1 /\ UNCHANGED <<at, delivered, refused, scanErr, kind, readEnd>>
           /\ Len(pipe') = Len(pipe) + 1 /\ Len(pipe) \in Nat
           /\ pipe'[Len(pipe) + 1] \in {written + 1, TooLong}
           /\ \A i \in 1 .. Len(pipe) : pipe'[i] = pipe[i]
<1>1. PICK line \in {written + 1, TooLong} : pipe' = Append(pipe, line)
  BY DEF Write
<1>2. pipe \in Seq(Nat)
  BY DEF TypeOK
<1>3. /\ Len(pipe) \in Nat /\ Len(Append(pipe, line)) = Len(pipe) + 1
      /\ Append(pipe, line)[Len(pipe) + 1] = line
      /\ \A i \in 1 .. Len(pipe) : Append(pipe, line)[i] = pipe[i]
  BY <1>2, AppendProperties
<1>4. written' = written + 1 /\ UNCHANGED <<at, delivered, refused, scanErr, kind, readEnd>>
  BY DEF Write, call, reader
<1> QED
  BY <1>1, <1>3, <1>4

\* The caller takes a line.
LEMMA LineOut ==
    ASSUME TypeOK, pipe # <<>>, pipe' = Tail(pipe), delivered' = Append(delivered, Head(pipe))
    PROVE  /\ Len(delivered) \in Nat /\ Len(delivered') = Len(delivered) + 1
           /\ Len(pipe) \in Nat /\ Len(pipe') = Len(pipe) - 1
           /\ \A i \in 1 .. Len(pipe') : i + 1 \in 1 .. Len(pipe) /\ pipe'[i] = pipe[i + 1]
<1>1. pipe \in Seq(Nat) /\ delivered \in Seq(Nat)
  BY DEF TypeOK
<1>2. Len(delivered) \in Nat /\ Len(Append(delivered, Head(pipe))) = Len(delivered) + 1
  BY <1>1, TailMovesUp
<1> QED
  BY <1>1, <1>2, TailMovesUp

\* Every step keeps the types.
LEMMA TypeNext == TypeOK /\ [Next]_vars => TypeOK'
<1> SUFFICES ASSUME TypeOK, [Next]_vars PROVE TypeOK'
  OBVIOUS
<1>1. CASE UNCHANGED vars
  BY <1>1 DEF vars, call, command, output, watcher, reader, TypeOK
<1>2. CASE Fork
  BY <1>2 DEF Fork, call, command, output, watcher, reader, TypeOK
<1>22. CASE Redirect
  BY <1>22 DEF Redirect, call, command, output, watcher, reader, TypeOK
<1>3. CASE Exit
  BY <1>3 DEF Exit, call, command, output, watcher, reader, TypeOK
<1>4. CASE Write
  <2>1. written' \in Nat /\ pipe' \in Seq(Nat)
    <3>1. \A q \in {written + 1, TooLong} : Append(pipe, q) \in Seq(Nat)
      BY DEF TypeOK, TooLong
    <3>2. \/ UNCHANGED <<written, pipe>>
          \/ written' = written + 1 /\ \E q \in {written + 1, TooLong} : pipe' = Append(pipe, q)
      BY <1>4 DEF Write, output
    <3>3. written + 1 \in Nat /\ written \in Nat /\ pipe \in Seq(Nat)
      BY DEF TypeOK
    <3> QED
      BY <3>1, <3>2, <3>3, Zenon
  <2>2. /\ alive' \in SUBSET Processes /\ forked' \in SUBSET Processes
        /\ stdout' \in SUBSET alive' /\ stderr' \in SUBSET alive' /\ exit' \in {"none", "ok", "failed", "killed"}
    BY <1>4 DEF Write, Die, command, TypeOK
  <2>3. readEnd' = readEnd
    BY <1>4 DEF Write, output
  <2> QED
    BY <1>4, <2>1, <2>2, <2>3 DEF Write, call, watcher, reader, TypeOK
<1>5. CASE Copy
  BY <1>5 DEF Copy, call, command, output, watcher, reader, TypeOK
<1>6. CASE Timeout
  BY <1>6 DEF Timeout, call, command, output, watcher, reader, TypeOK
<1>7. CASE Leave
  BY <1>7 DEF Leave, call, command, output, watcher, reader, TypeOK
<1>8. CASE Park
  BY <1>8 DEF Park, call, command, output, watcher, reader, TypeOK
<1>9. CASE Cancel
  BY <1>9 DEF Cancel, KillGroup, KillProcess, Die, call, command, output, watcher, reader, TypeOK
<1>10. CASE WaitDelay
  <2>1. written' \in Nat /\ pipe' \in Seq(Nat) /\ readEnd' \in BOOLEAN
    BY <1>10, CloseKeepsAPrefix DEF WaitDelay, output, TypeOK
  <2>2. /\ alive' \in SUBSET Processes /\ forked' \in SUBSET Processes
        /\ stdout' \in SUBSET alive' /\ stderr' \in SUBSET alive' /\ exit' \in {"none", "ok", "failed", "killed"}
    BY <1>10 DEF WaitDelay, Die, command, TypeOK
  <2>3. copied' \in BOOLEAN /\ watchErr' \in {"nil", "cancel", "ctx", "delay"} /\ watch' = "expired"
    BY <1>10 DEF WaitDelay, TypeOK
  <2> QED
    BY <1>10, <2>1, <2>2, <2>3 DEF WaitDelay, call, reader, TypeOK
<1>11. CASE Start
  <2>1. {Leader} \in SUBSET Processes
    BY DEF Processes, Group
  <2> QED
    BY <1>11, <2>1 DEF Start, Return, call, command, output, watcher, reader, TypeOK
<1>12. CASE neverRan
  BY <1>12 DEF neverRan, Return, call, command, output, watcher, reader, TypeOK
<1>13. CASE ReadLine
  <2>1. pipe' \in Seq(Nat) /\ delivered' \in Seq(Nat)
    <3>1. pipe # <<>> => Head(pipe) \in Nat /\ Tail(pipe) \in Seq(Nat) /\ Append(delivered, Head(pipe)) \in Seq(Nat)
      BY DEF TypeOK
    <3>2. /\ pipe' \in {pipe, Tail(pipe)} /\ pipe # <<>>
          /\ delivered' \in {delivered, Append(delivered, Head(pipe))}
      BY <1>13 DEF ReadLine
    <3> QED
      BY <3>1, <3>2 DEF TypeOK
  <2>2. /\ at' \in {"scan", "reap"} /\ stopped' \in BOOLEAN
        /\ scanErr' \in BOOLEAN /\ refused' \in BOOLEAN
    BY <1>13 DEF ReadLine, TypeOK
  <2> QED
    BY <1>13, <2>1, <2>2 DEF ReadLine, call, command, watcher, TypeOK
<1>14. CASE EndOfOutput
  BY <1>14 DEF EndOfOutput, call, command, output, watcher, reader, TypeOK
<1>15. CASE Reap
  BY <1>15 DEF Reap, call, command, output, watcher, reader, TypeOK
<1>16. CASE Collect
  BY <1>16 DEF Collect, call, command, output, watcher, reader, TypeOK
<1>17. CASE Await
  <2>1. written' \in Nat /\ pipe' \in Seq(Nat) /\ readEnd' \in BOOLEAN
    BY <1>17, CloseKeepsAPrefix DEF Await, output, TypeOK
  <2>2. copied' \in BOOLEAN /\ waitErr' \in {"nil", "exit", "cancel", "ctx", "delay"} /\ at' = "finish"
    BY <1>17 DEF Await, TypeOK
  <2> QED
    BY <1>17, <2>1, <2>2 DEF Await, call, command, watcher, reader, TypeOK
<1>18. CASE Finish
  BY <1>18 DEF Finish, Return, Answer, call, command, output, watcher, reader, TypeOK
<1>19. CASE FakeStart
  <2>1. \A n \in 0 .. PipeSize : [i \in 1 .. n |-> i] \in Seq(Nat)
    BY IsASeq, DokkuAssumption
  <2> QED
    BY <1>19, <2>1 DEF FakeStart, Return, call, command, output, watcher, reader, TypeOK
<1>20. CASE FakeLine
  <2>1. pipe' \in Seq(Nat) /\ delivered' \in Seq(Nat)
    <3>1. pipe # <<>> => Head(pipe) \in Nat /\ Tail(pipe) \in Seq(Nat) /\ Append(delivered, Head(pipe)) \in Seq(Nat)
      BY DEF TypeOK
    <3>2. /\ pipe' \in {pipe, Tail(pipe)} /\ pipe # <<>>
          /\ delivered' \in {delivered, Append(delivered, Head(pipe))}
      BY <1>20 DEF FakeLine
    <3> QED
      BY <3>1, <3>2 DEF TypeOK
  <2>2. /\ at' \in {"fake", "returned"} /\ refused' \in BOOLEAN
        /\ result' \in {"none", "ok", "command", "cancelled", "refused"}
    BY <1>20 DEF FakeLine, Return, TypeOK
  <2> QED
    BY <1>20, <2>1, <2>2 DEF FakeLine, call, command, watcher, TypeOK
<1>21. CASE FakeEnd
  BY <1>21 DEF FakeEnd, Return, call, command, output, watcher, reader, TypeOK
<1> QED
  BY <1>1, <1>2, <1>3, <1>4, <1>5, <1>6, <1>7, <1>8, <1>9, <1>10, <1>11, <1>12, <1>13, <1>14, <1>15,
     <1>16, <1>17, <1>18, <1>19, <1>20, <1>21, <1>22
     DEF Next, watchCtx, Caller

\* Every step keeps the command's side.
LEMMA CommandNext == TypeOK /\ CommandSide /\ [Next]_vars => CommandSide'
<1> SUFFICES ASSUME TypeOK, CommandSide, [Next]_vars PROVE CommandSide'
  OBVIOUS
<1>1. CASE UNCHANGED vars
  BY <1>1
     DEF vars, call, command, output, watcher, reader, CommandSide, CallIsOfItsKind, LeaderIsOne,
         WatcherHandsOver, ClosingIsTold, Told, Held, WaitTellsTheExit, Waiting, Started, Leader
<1>2. CASE Fork
  BY <1>2
     DEF Fork, call, command, output, watcher, reader, CommandSide, CallIsOfItsKind, LeaderIsOne,
         WatcherHandsOver, ClosingIsTold, Told, Held, WaitTellsTheExit, Waiting, Started, Leader
<1>22. CASE Redirect
  BY <1>22
     DEF Redirect, call, command, output, watcher, reader, CommandSide, CallIsOfItsKind, LeaderIsOne,
         WatcherHandsOver, ClosingIsTold, Told, Held, WaitTellsTheExit, Waiting, Started, Leader
<1>3. CASE Exit
  BY <1>3
     DEF Exit, call, command, output, watcher, reader, CommandSide, CallIsOfItsKind, LeaderIsOne,
         WatcherHandsOver, ClosingIsTold, Told, Held, WaitTellsTheExit, Waiting, Started, Leader
<1>4. CASE Write
  <2>1. CASE readEnd
    BY <1>4, <2>1
       DEF Write, call, command, output, watcher, reader, CommandSide, CallIsOfItsKind, LeaderIsOne,
           WatcherHandsOver, ClosingIsTold, Told, Held, WaitTellsTheExit, Waiting, Started, Leader
  <2>2. CASE ~readEnd
    <3>1. PICK p \in alive : /\ alive' = alive \ {p} /\ stdout' = stdout \ {p} /\ stderr' = stderr \ {p}
                            /\ exit' = IF p = Leader THEN "killed" ELSE exit
      BY <1>4, <2>2 DEF Write, Die, TypeOK
    <3>2. UNCHANGED <<forked, readEnd, kind, at, copied, watch, watchErr, waitErr, result>>
      BY <1>4, <2>2 DEF Write, Die, call, command, output, watcher, reader
    <3> QED
      BY <1>4, <2>2, <3>1, <3>2
         DEF CommandSide, CallIsOfItsKind, LeaderIsOne, WatcherHandsOver, ClosingIsTold, Told, Held, WaitTellsTheExit,
             Waiting, Started, Leader
  <2> QED
    BY <2>1, <2>2
<1>5. CASE Copy
  BY <1>5
     DEF Copy, call, command, output, watcher, reader, TypeOK, CommandSide, CallIsOfItsKind, LeaderIsOne,
         WatcherHandsOver, ClosingIsTold, Told, Held, WaitTellsTheExit, Waiting, Started, Leader
<1>6. CASE Timeout
  BY <1>6
     DEF Timeout, call, command, output, watcher, reader, CommandSide, CallIsOfItsKind, LeaderIsOne,
         WatcherHandsOver, ClosingIsTold, Told, Held, WaitTellsTheExit, Waiting, Started, Leader
<1>7. CASE Leave
  BY <1>7
     DEF Leave, call, command, output, watcher, reader, CommandSide, CallIsOfItsKind, LeaderIsOne,
         WatcherHandsOver, ClosingIsTold, Told, Held, WaitTellsTheExit, Waiting, Started, Leader
<1>8. CASE Park
  BY <1>8
     DEF Park, call, command, output, watcher, reader, CommandSide, CallIsOfItsKind, LeaderIsOne,
         WatcherHandsOver, ClosingIsTold, Told, Held, WaitTellsTheExit, Waiting, Started, Leader
<1>9. CASE Cancel
  BY <1>9
     DEF Cancel, KillGroup, KillProcess, Die, call, command, output, watcher, reader, CommandSide,
         CallIsOfItsKind, LeaderIsOne, WatcherHandsOver, ClosingIsTold, Told, Held, WaitTellsTheExit, Waiting,
         Started, Leader
<1>10. CASE WaitDelay
  BY <1>10
     DEF WaitDelay, closeDescriptors, Die, call, command, output, watcher, reader, CommandSide,
         CallIsOfItsKind, LeaderIsOne, WatcherHandsOver, ClosingIsTold, Told, Held, WaitTellsTheExit, Waiting,
         Started, Leader
<1>11. CASE Start
  BY <1>11
     DEF Start, Return, call, command, output, watcher, reader, CommandSide, CallIsOfItsKind, LeaderIsOne,
         WatcherHandsOver, ClosingIsTold, Told, Held, WaitTellsTheExit, Waiting, Started, Leader
<1>12. CASE neverRan
  BY <1>12
     DEF neverRan, Return, call, command, output, watcher, reader, CommandSide, CallIsOfItsKind,
         LeaderIsOne, WatcherHandsOver, ClosingIsTold, Told, Held, WaitTellsTheExit, Waiting, Started, Leader
<1>13. CASE ReadLine
  BY <1>13
     DEF ReadLine, call, command, output, watcher, reader, CommandSide, CallIsOfItsKind, LeaderIsOne,
         WatcherHandsOver, ClosingIsTold, Told, Held, WaitTellsTheExit, Waiting, Started, Leader
<1>14. CASE EndOfOutput
  BY <1>14
     DEF EndOfOutput, call, command, output, watcher, reader, CommandSide, CallIsOfItsKind, LeaderIsOne,
         WatcherHandsOver, ClosingIsTold, Told, Held, WaitTellsTheExit, Waiting, Started, Leader
<1>15. CASE Reap
  BY <1>15
     DEF Reap, call, command, output, watcher, reader, CommandSide, CallIsOfItsKind, LeaderIsOne,
         WatcherHandsOver, ClosingIsTold, Told, Held, WaitTellsTheExit, Waiting, Started, Leader
<1>16. CASE Collect
  BY <1>16
     DEF Collect, call, command, output, watcher, reader, CommandSide, CallIsOfItsKind, LeaderIsOne,
         WatcherHandsOver, ClosingIsTold, Told, Held, WaitTellsTheExit, Waiting, Started, Leader
<1>17. CASE Await
  BY <1>17
     DEF Await, closeDescriptors, call, command, output, watcher, reader, CommandSide, CallIsOfItsKind,
         LeaderIsOne, WatcherHandsOver, ClosingIsTold, Told, Held, WaitTellsTheExit, Waiting, Started, Leader
<1>18. CASE Finish
  BY <1>18
     DEF Finish, Return, Answer, call, command, output, watcher, reader, CommandSide, CallIsOfItsKind,
         LeaderIsOne, WatcherHandsOver, ClosingIsTold, Told, Held, WaitTellsTheExit, Waiting, Started, Leader
<1>19. CASE FakeStart
  BY <1>19
     DEF FakeStart, Return, call, command, output, watcher, reader, CommandSide, CallIsOfItsKind,
         LeaderIsOne, WatcherHandsOver, ClosingIsTold, Told, Held, WaitTellsTheExit, Waiting, Started, Leader
<1>20. CASE FakeLine
  BY <1>20
     DEF FakeLine, Return, call, command, output, watcher, reader, CommandSide, CallIsOfItsKind,
         LeaderIsOne, WatcherHandsOver, ClosingIsTold, Told, Held, WaitTellsTheExit, Waiting, Started, Leader
<1>21. CASE FakeEnd
  BY <1>21
     DEF FakeEnd, Return, call, command, output, watcher, reader, CommandSide, CallIsOfItsKind,
         LeaderIsOne, WatcherHandsOver, ClosingIsTold, Told, Held, WaitTellsTheExit, Waiting, Started, Leader
<1> QED
  BY <1>1, <1>2, <1>3, <1>4, <1>5, <1>6, <1>7, <1>8, <1>9, <1>10, <1>11, <1>12, <1>13, <1>14, <1>15,
     <1>16, <1>17, <1>18, <1>19, <1>20, <1>21, <1>22
     DEF Next, watchCtx, Caller

\* A refusal ends the loop, and nothing is refused before it.
LEMMA RefusalNext == TypeOK /\ CommandSide /\ RefusalIsLast /\ [Next]_vars => RefusalIsLast'
<1> SUFFICES ASSUME TypeOK, CommandSide, RefusalIsLast, [Next]_vars PROVE RefusalIsLast'
  OBVIOUS
<1>1. CASE UNCHANGED vars
  BY <1>1
     DEF vars, call, command, output, watcher, reader, RefusalIsLast, CallIsOfItsKind, CommandSide,
         Waiting
<1>2. CASE Fork
  BY <1>2
     DEF Fork, call, command, output, watcher, reader, RefusalIsLast, CallIsOfItsKind, CommandSide,
         Waiting
<1>22. CASE Redirect
  BY <1>22
     DEF Redirect, call, command, output, watcher, reader, RefusalIsLast, CallIsOfItsKind, CommandSide,
         Waiting
<1>3. CASE Exit
  BY <1>3
     DEF Exit, call, command, output, watcher, reader, RefusalIsLast, CallIsOfItsKind, CommandSide,
         Waiting
<1>4. CASE Write
  BY <1>4
     DEF Write, Die, call, command, output, watcher, reader, RefusalIsLast, CallIsOfItsKind, CommandSide,
         Waiting
<1>5. CASE Copy
  BY <1>5
     DEF Copy, call, command, output, watcher, reader, RefusalIsLast, CallIsOfItsKind, CommandSide,
         Waiting
<1>6. CASE Timeout
  BY <1>6
     DEF Timeout, call, command, output, watcher, reader, RefusalIsLast, CallIsOfItsKind, CommandSide,
         Waiting
<1>7. CASE Leave
  BY <1>7
     DEF Leave, call, command, output, watcher, reader, RefusalIsLast, CallIsOfItsKind, CommandSide,
         Waiting
<1>8. CASE Park
  BY <1>8
     DEF Park, call, command, output, watcher, reader, RefusalIsLast, CallIsOfItsKind, CommandSide,
         Waiting
<1>9. CASE Cancel
  BY <1>9
     DEF Cancel, KillGroup, KillProcess, Die, call, command, output, watcher, reader, RefusalIsLast,
         CallIsOfItsKind, CommandSide, Waiting
<1>10. CASE WaitDelay
  BY <1>10
     DEF WaitDelay, closeDescriptors, Die, call, command, output, watcher, reader, RefusalIsLast,
         CallIsOfItsKind, CommandSide, Waiting
<1>11. CASE Start
  BY <1>11
     DEF Start, Return, call, command, output, watcher, reader, RefusalIsLast, CallIsOfItsKind,
         CommandSide, Waiting
<1>12. CASE neverRan
  BY <1>12
     DEF neverRan, Return, call, command, output, watcher, reader, RefusalIsLast, CallIsOfItsKind,
         CommandSide, Waiting
<1>13. CASE ReadLine
  BY <1>13
     DEF ReadLine, call, command, output, watcher, reader, RefusalIsLast, CallIsOfItsKind, CommandSide,
         Waiting
<1>14. CASE EndOfOutput
  BY <1>14
     DEF EndOfOutput, call, command, output, watcher, reader, RefusalIsLast, CallIsOfItsKind, CommandSide,
         Waiting
<1>15. CASE Reap
  BY <1>15
     DEF Reap, call, command, output, watcher, reader, RefusalIsLast, CallIsOfItsKind, CommandSide,
         Waiting
<1>16. CASE Collect
  BY <1>16
     DEF Collect, call, command, output, watcher, reader, RefusalIsLast, CallIsOfItsKind, CommandSide,
         Waiting
<1>17. CASE Await
  BY <1>17
     DEF Await, closeDescriptors, call, command, output, watcher, reader, RefusalIsLast, CallIsOfItsKind,
         CommandSide, Waiting
<1>18. CASE Finish
  BY <1>18
     DEF Finish, Return, Answer, call, command, output, watcher, reader, RefusalIsLast, CallIsOfItsKind,
         CommandSide, Waiting
<1>19. CASE FakeStart
  BY <1>19
     DEF FakeStart, Return, call, command, output, watcher, reader, RefusalIsLast, CallIsOfItsKind,
         CommandSide, Waiting
<1>20. CASE FakeLine
  BY <1>20
     DEF FakeLine, Return, call, command, output, watcher, reader, RefusalIsLast, CallIsOfItsKind,
         CommandSide, Waiting
<1>21. CASE FakeEnd
  BY <1>21
     DEF FakeEnd, Return, call, command, output, watcher, reader, RefusalIsLast, CallIsOfItsKind,
         CommandSide, Waiting
<1> QED
  BY <1>1, <1>2, <1>3, <1>4, <1>5, <1>6, <1>7, <1>8, <1>9, <1>10, <1>11, <1>12, <1>13, <1>14, <1>15,
     <1>16, <1>17, <1>18, <1>19, <1>20, <1>21, <1>22
     DEF Next, watchCtx, Caller

\* The group is gone before the leader can be killed alone, and no one forks into it again.
LEMMA GroupNext == TypeOK /\ CommandSide /\ GroupIsGone /\ [Next]_vars => GroupIsGone'
<1> SUFFICES ASSUME TypeOK, CommandSide, GroupIsGone, [Next]_vars PROVE GroupIsGone'
  OBVIOUS
<1>1. CASE UNCHANGED vars
  BY <1>1
     DEF vars, call, command, output, watcher, reader, CommandSide, CallIsOfItsKind, LeaderIsOne,
         WatcherHandsOver, ClosingIsTold, Told, Held, WaitTellsTheExit, Waiting, Started, Leader, GroupIsGone, Group
<1>2. CASE Fork
  BY <1>2
     DEF Fork, call, command, output, watcher, reader, CommandSide, CallIsOfItsKind, LeaderIsOne,
         WatcherHandsOver, ClosingIsTold, Told, Held, WaitTellsTheExit, Waiting, Started, Leader, GroupIsGone, Group
<1>22. CASE Redirect
  BY <1>22
     DEF Redirect, call, command, output, watcher, reader, CommandSide, CallIsOfItsKind, LeaderIsOne,
         WatcherHandsOver, ClosingIsTold, Told, Held, WaitTellsTheExit, Waiting, Started, Leader, GroupIsGone, Group
<1>3. CASE Exit
  BY <1>3
     DEF Exit, call, command, output, watcher, reader, CommandSide, CallIsOfItsKind, LeaderIsOne,
         WatcherHandsOver, ClosingIsTold, Told, Held, WaitTellsTheExit, Waiting, Started, Leader, GroupIsGone, Group
<1>4. CASE Write
  BY <1>4
     DEF Write, Die, call, command, output, watcher, reader, CommandSide, CallIsOfItsKind, LeaderIsOne,
         WatcherHandsOver, ClosingIsTold, Told, Held, WaitTellsTheExit, Waiting, Started, Leader, GroupIsGone, Group
<1>5. CASE Copy
  BY <1>5
     DEF Copy, call, command, output, watcher, reader, CommandSide, CallIsOfItsKind, LeaderIsOne,
         WatcherHandsOver, ClosingIsTold, Told, Held, WaitTellsTheExit, Waiting, Started, Leader, GroupIsGone, Group
<1>6. CASE Timeout
  BY <1>6
     DEF Timeout, call, command, output, watcher, reader, CommandSide, CallIsOfItsKind, LeaderIsOne,
         WatcherHandsOver, ClosingIsTold, Told, Held, WaitTellsTheExit, Waiting, Started, Leader, GroupIsGone, Group
<1>7. CASE Leave
  BY <1>7
     DEF Leave, call, command, output, watcher, reader, CommandSide, CallIsOfItsKind, LeaderIsOne,
         WatcherHandsOver, ClosingIsTold, Told, Held, WaitTellsTheExit, Waiting, Started, Leader, GroupIsGone, Group
<1>8. CASE Park
  BY <1>8
     DEF Park, call, command, output, watcher, reader, CommandSide, CallIsOfItsKind, LeaderIsOne,
         WatcherHandsOver, ClosingIsTold, Told, Held, WaitTellsTheExit, Waiting, Started, Leader, GroupIsGone, Group
<1>9. CASE Cancel
  BY <1>9
     DEF Cancel, KillGroup, KillProcess, Die, call, command, output, watcher, reader, CommandSide,
         CallIsOfItsKind, LeaderIsOne, WatcherHandsOver, ClosingIsTold, Told, Held, WaitTellsTheExit, Waiting,
         Started, Leader, GroupIsGone, Group
<1>10. CASE WaitDelay
  BY <1>10
     DEF WaitDelay, closeDescriptors, Die, call, command, output, watcher, reader, CommandSide,
         CallIsOfItsKind, LeaderIsOne, WatcherHandsOver, ClosingIsTold, Told, Held, WaitTellsTheExit, Waiting,
         Started, Leader, GroupIsGone, Group
<1>11. CASE Start
  BY <1>11
     DEF Start, Return, call, command, output, watcher, reader, CommandSide, CallIsOfItsKind, LeaderIsOne,
         WatcherHandsOver, ClosingIsTold, Told, Held, WaitTellsTheExit, Waiting, Started, Leader, GroupIsGone, Group
<1>12. CASE neverRan
  BY <1>12
     DEF neverRan, Return, call, command, output, watcher, reader, CommandSide, CallIsOfItsKind,
         LeaderIsOne, WatcherHandsOver, ClosingIsTold, Told, Held, WaitTellsTheExit, Waiting, Started, Leader,
         GroupIsGone, Group
<1>13. CASE ReadLine
  BY <1>13
     DEF ReadLine, call, command, output, watcher, reader, CommandSide, CallIsOfItsKind, LeaderIsOne,
         WatcherHandsOver, ClosingIsTold, Told, Held, WaitTellsTheExit, Waiting, Started, Leader, GroupIsGone, Group
<1>14. CASE EndOfOutput
  BY <1>14
     DEF EndOfOutput, call, command, output, watcher, reader, CommandSide, CallIsOfItsKind, LeaderIsOne,
         WatcherHandsOver, ClosingIsTold, Told, Held, WaitTellsTheExit, Waiting, Started, Leader, GroupIsGone, Group
<1>15. CASE Reap
  BY <1>15
     DEF Reap, call, command, output, watcher, reader, CommandSide, CallIsOfItsKind, LeaderIsOne,
         WatcherHandsOver, ClosingIsTold, Told, Held, WaitTellsTheExit, Waiting, Started, Leader, GroupIsGone, Group
<1>16. CASE Collect
  BY <1>16
     DEF Collect, call, command, output, watcher, reader, CommandSide, CallIsOfItsKind, LeaderIsOne,
         WatcherHandsOver, ClosingIsTold, Told, Held, WaitTellsTheExit, Waiting, Started, Leader, GroupIsGone, Group
<1>17. CASE Await
  BY <1>17
     DEF Await, closeDescriptors, call, command, output, watcher, reader, CommandSide, CallIsOfItsKind,
         LeaderIsOne, WatcherHandsOver, ClosingIsTold, Told, Held, WaitTellsTheExit, Waiting, Started, Leader,
         GroupIsGone, Group
<1>18. CASE Finish
  BY <1>18
     DEF Finish, Return, Answer, call, command, output, watcher, reader, CommandSide, CallIsOfItsKind,
         LeaderIsOne, WatcherHandsOver, ClosingIsTold, Told, Held, WaitTellsTheExit, Waiting, Started, Leader,
         GroupIsGone, Group
<1>19. CASE FakeStart
  BY <1>19
     DEF FakeStart, Return, call, command, output, watcher, reader, CommandSide, CallIsOfItsKind,
         LeaderIsOne, WatcherHandsOver, ClosingIsTold, Told, Held, WaitTellsTheExit, Waiting, Started, Leader,
         GroupIsGone, Group
<1>20. CASE FakeLine
  BY <1>20
     DEF FakeLine, Return, call, command, output, watcher, reader, CommandSide, CallIsOfItsKind,
         LeaderIsOne, WatcherHandsOver, ClosingIsTold, Told, Held, WaitTellsTheExit, Waiting, Started, Leader,
         GroupIsGone, Group
<1>21. CASE FakeEnd
  BY <1>21
     DEF FakeEnd, Return, call, command, output, watcher, reader, CommandSide, CallIsOfItsKind,
         LeaderIsOne, WatcherHandsOver, ClosingIsTold, Told, Held, WaitTellsTheExit, Waiting, Started, Leader,
         GroupIsGone, Group
<1> QED
  BY <1>1, <1>2, <1>3, <1>4, <1>5, <1>6, <1>7, <1>8, <1>9, <1>10, <1>11, <1>12, <1>13, <1>14, <1>15,
     <1>16, <1>17, <1>18, <1>19, <1>20, <1>21, <1>22
     DEF Next, watchCtx, Caller

\* The lines that wait to be read follow the ones delivered.
LEMMA LinesNext == TypeOK /\ CommandSide /\ RefusalIsLast /\ AllIsRead /\ LinesAreNext /\ [Next]_vars => LinesAreNext'
<1> SUFFICES ASSUME TypeOK, CommandSide, RefusalIsLast, AllIsRead, LinesAreNext, [Next]_vars PROVE LinesAreNext'
  OBVIOUS
<1>1. CASE UNCHANGED vars
  BY <1>1
     DEF vars, call, command, output, watcher, reader, CommandSide, CallIsOfItsKind, RefusalIsLast,
         LinesAreNext, TypeOK, AllIsRead
<1>2. CASE Fork
  BY <1>2
     DEF Fork, call, command, output, watcher, reader, CommandSide, CallIsOfItsKind, RefusalIsLast,
         LinesAreNext, TypeOK, AllIsRead
<1>22. CASE Redirect
  BY <1>22
     DEF Redirect, call, command, output, watcher, reader, CommandSide, CallIsOfItsKind, RefusalIsLast,
         LinesAreNext, TypeOK, AllIsRead
<1>3. CASE Exit
  BY <1>3
     DEF Exit, call, command, output, watcher, reader, CommandSide, CallIsOfItsKind, RefusalIsLast,
         LinesAreNext, TypeOK, AllIsRead
<1>4. CASE Write
  <2>1. CASE at = "scan" /\ readEnd
    <3>1. written = Len(delivered) + Len(pipe) /\ Len(delivered) \in Nat
      BY <2>1 DEF AllIsRead, TypeOK
    <3>2. \A i \in 1 .. Len(pipe) : pipe[i] \in {Len(delivered) + i, TooLong}
      BY <2>1 DEF LinesAreNext
    <3> QED
      BY <1>4, <2>1, <3>1, <3>2, LineIn DEF LinesAreNext
  <2>2. CASE at # "scan" \/ ~readEnd
    <3>1. alive # {} /\ at' = at /\ delivered' = delivered
      BY <1>4 DEF Write, reader, TypeOK
    <3>2. at # "fake"
      BY <3>1 DEF CommandSide, CallIsOfItsKind, LeaderIsOne
    <3>3. readEnd \/ pipe' = pipe
      BY <1>4 DEF Write, output
    <3> QED
      BY <2>2, <3>1, <3>2, <3>3 DEF LinesAreNext
  <2> QED
    BY <2>1, <2>2
<1>5. CASE Copy
  BY <1>5
     DEF Copy, call, command, output, watcher, reader, CommandSide, CallIsOfItsKind, RefusalIsLast,
         LinesAreNext, TypeOK, AllIsRead
<1>6. CASE Timeout
  BY <1>6
     DEF Timeout, call, command, output, watcher, reader, CommandSide, CallIsOfItsKind, RefusalIsLast,
         LinesAreNext, TypeOK, AllIsRead
<1>7. CASE Leave
  BY <1>7
     DEF Leave, call, command, output, watcher, reader, CommandSide, CallIsOfItsKind, RefusalIsLast,
         LinesAreNext, TypeOK, AllIsRead
<1>8. CASE Park
  BY <1>8
     DEF Park, call, command, output, watcher, reader, CommandSide, CallIsOfItsKind, RefusalIsLast,
         LinesAreNext, TypeOK, AllIsRead
<1>9. CASE Cancel
  BY <1>9
     DEF Cancel, KillGroup, KillProcess, Die, call, command, output, watcher, reader, CommandSide,
         CallIsOfItsKind, RefusalIsLast, LinesAreNext, TypeOK, AllIsRead
<1>10. CASE WaitDelay
  BY <1>10
     DEF WaitDelay, closeDescriptors, Die, call, command, output, watcher, reader, CommandSide,
         CallIsOfItsKind, RefusalIsLast, LinesAreNext, TypeOK, AllIsRead
<1>11. CASE Start
  BY <1>11
     DEF Start, Return, call, command, output, watcher, reader, CommandSide, CallIsOfItsKind,
         RefusalIsLast, LinesAreNext, TypeOK, AllIsRead
<1>12. CASE neverRan
  BY <1>12
     DEF neverRan, Return, call, command, output, watcher, reader, CommandSide, CallIsOfItsKind,
         RefusalIsLast, LinesAreNext, TypeOK, AllIsRead
<1>13. CASE ReadLine
  <2>1. at' = "reap" \/ (at' = at /\ Head(pipe) # TooLong /\ delivered' = Append(delivered, Head(pipe)))
    BY <1>13 DEF ReadLine
  <2>2. CASE at' = "reap"
    BY <2>2 DEF LinesAreNext
  <2>3. CASE at' = at /\ Head(pipe) # TooLong /\ delivered' = Append(delivered, Head(pipe))
    <3>1. pipe # <<>> /\ pipe' = Tail(pipe) /\ at = "scan"
      BY <1>13 DEF ReadLine
    <3>2. \A i \in 1 .. Len(pipe) : pipe[i] \in {Len(delivered) + i, TooLong}
      BY <3>1 DEF LinesAreNext
    <3> QED
      BY <2>3, <3>1, <3>2, LineOut DEF LinesAreNext
  <2> QED
    BY <2>1, <2>2, <2>3
<1>14. CASE EndOfOutput
  BY <1>14
     DEF EndOfOutput, call, command, output, watcher, reader, CommandSide, CallIsOfItsKind, RefusalIsLast,
         LinesAreNext, TypeOK, AllIsRead
<1>15. CASE Reap
  BY <1>15
     DEF Reap, call, command, output, watcher, reader, CommandSide, CallIsOfItsKind, RefusalIsLast,
         LinesAreNext, TypeOK, AllIsRead
<1>16. CASE Collect
  BY <1>16
     DEF Collect, call, command, output, watcher, reader, CommandSide, CallIsOfItsKind, RefusalIsLast,
         LinesAreNext, TypeOK, AllIsRead
<1>17. CASE Await
  BY <1>17
     DEF Await, closeDescriptors, call, command, output, watcher, reader, CommandSide, CallIsOfItsKind,
         RefusalIsLast, LinesAreNext, TypeOK, AllIsRead
<1>18. CASE Finish
  BY <1>18
     DEF Finish, Return, Answer, call, command, output, watcher, reader, CommandSide, CallIsOfItsKind,
         RefusalIsLast, LinesAreNext, TypeOK, AllIsRead
<1>19. CASE FakeStart
  BY <1>19
     DEF FakeStart, Return, call, command, output, watcher, reader, CommandSide, CallIsOfItsKind,
         RefusalIsLast, LinesAreNext, TypeOK, AllIsRead
<1>20. CASE FakeLine
  <2>1. at' = "returned" \/ (at' = at /\ pipe' = Tail(pipe) /\ delivered' = Append(delivered, Head(pipe)))
    BY <1>20 DEF FakeLine, Return
  <2>2. CASE at' = "returned"
    BY <2>2 DEF LinesAreNext
  <2>3. CASE at' = at /\ pipe' = Tail(pipe) /\ delivered' = Append(delivered, Head(pipe))
    <3>1. pipe # <<>> /\ at = "fake"
      BY <1>20 DEF FakeLine
    <3>2. \A i \in 1 .. Len(pipe) : pipe[i] = Len(delivered) + i
      BY <3>1 DEF LinesAreNext
    <3> QED
      BY <2>3, <3>1, <3>2, LineOut DEF LinesAreNext
  <2> QED
    BY <2>1, <2>2, <2>3
<1>21. CASE FakeEnd
  BY <1>21
     DEF FakeEnd, Return, call, command, output, watcher, reader, CommandSide, CallIsOfItsKind,
         RefusalIsLast, LinesAreNext, TypeOK, AllIsRead
<1> QED
  BY <1>1, <1>2, <1>3, <1>4, <1>5, <1>6, <1>7, <1>8, <1>9, <1>10, <1>11, <1>12, <1>13, <1>14, <1>15,
     <1>16, <1>17, <1>18, <1>19, <1>20, <1>21, <1>22
     DEF Next, watchCtx, Caller

\* Nothing that was written is lost before the end of the output.
LEMMA AllIsReadNext == TypeOK /\ CommandSide /\ RefusalIsLast /\ AllIsRead /\ [Next]_vars => AllIsRead'
<1> SUFFICES ASSUME TypeOK, CommandSide, RefusalIsLast, AllIsRead, [Next]_vars PROVE AllIsRead'
  OBVIOUS
<1>1. CASE UNCHANGED vars
  BY <1>1
     DEF vars, call, command, output, watcher, reader, CommandSide, CallIsOfItsKind, RefusalIsLast,
         LeaderIsOne, Waiting, TypeOK, AllIsRead, WatcherHandsOver
<1>2. CASE Fork
  BY <1>2
     DEF Fork, call, command, output, watcher, reader, CommandSide, CallIsOfItsKind, RefusalIsLast,
         LeaderIsOne, Waiting, TypeOK, AllIsRead, WatcherHandsOver
<1>22. CASE Redirect
  BY <1>22
     DEF Redirect, call, command, output, watcher, reader, CommandSide, CallIsOfItsKind, RefusalIsLast,
         LeaderIsOne, Waiting, TypeOK, AllIsRead, WatcherHandsOver
<1>3. CASE Exit
  BY <1>3
     DEF Exit, call, command, output, watcher, reader, CommandSide, CallIsOfItsKind, RefusalIsLast,
         LeaderIsOne, Waiting, TypeOK, AllIsRead, WatcherHandsOver
<1>4. CASE Write
  <2>0. /\ alive # {} /\ UNCHANGED <<at, delivered, refused, scanErr, kind, readEnd>>
        /\ ~readEnd \/ stdout = {} => UNCHANGED <<written, pipe>>
        /\ stdout' \subseteq stdout
    BY <1>4 DEF Write, Die, call, command, output, watcher, reader, TypeOK
  <2>1. at \notin {"call", "refusedStart"}
    BY <2>0 DEF CommandSide, CallIsOfItsKind, LeaderIsOne
  <2>2. kind = "logs" /\ at \in Waiting /\ ~refused /\ ~scanErr => stdout' = {} /\ written' = Len(delivered)
    BY <2>0 DEF AllIsRead
  <2>3. at = "scan" /\ readEnd => written' = Len(delivered) + Len(pipe')
    <3>1. Len(delivered) \in Nat /\ written \in Nat
      BY DEF TypeOK
    <3>2. at = "scan" /\ readEnd => written = Len(delivered) + Len(pipe)
      BY DEF AllIsRead
    <3> QED
      BY <1>4, <3>1, <3>2, LineIn
  <2> QED
    BY <2>0, <2>1, <2>2, <2>3 DEF AllIsRead
<1>5. CASE Copy
  BY <1>5
     DEF Copy, call, command, output, watcher, reader, CommandSide, CallIsOfItsKind, RefusalIsLast,
         LeaderIsOne, Waiting, TypeOK, AllIsRead, WatcherHandsOver
<1>6. CASE Timeout
  BY <1>6
     DEF Timeout, call, command, output, watcher, reader, CommandSide, CallIsOfItsKind, RefusalIsLast,
         LeaderIsOne, Waiting, TypeOK, AllIsRead, WatcherHandsOver
<1>7. CASE Leave
  BY <1>7
     DEF Leave, call, command, output, watcher, reader, CommandSide, CallIsOfItsKind, RefusalIsLast,
         LeaderIsOne, Waiting, TypeOK, AllIsRead, WatcherHandsOver
<1>8. CASE Park
  BY <1>8
     DEF Park, call, command, output, watcher, reader, CommandSide, CallIsOfItsKind, RefusalIsLast,
         LeaderIsOne, Waiting, TypeOK, AllIsRead, WatcherHandsOver
<1>9. CASE Cancel
  BY <1>9
     DEF Cancel, KillGroup, KillProcess, Die, call, command, output, watcher, reader, CommandSide,
         CallIsOfItsKind, RefusalIsLast, LeaderIsOne, Waiting, TypeOK, AllIsRead, WatcherHandsOver
<1>10. CASE WaitDelay
  BY <1>10
     DEF WaitDelay, closeDescriptors, Die, call, command, output, watcher, reader, CommandSide,
         CallIsOfItsKind, RefusalIsLast, LeaderIsOne, Waiting, TypeOK, AllIsRead, WatcherHandsOver
<1>11. CASE Start
  BY <1>11
     DEF Start, Return, call, command, output, watcher, reader, CommandSide, CallIsOfItsKind,
         RefusalIsLast, LeaderIsOne, Waiting, TypeOK, AllIsRead, WatcherHandsOver
<1>12. CASE neverRan
  BY <1>12
     DEF neverRan, Return, call, command, output, watcher, reader, CommandSide, CallIsOfItsKind,
         RefusalIsLast, LeaderIsOne, Waiting, TypeOK, AllIsRead, WatcherHandsOver
<1>13. CASE ReadLine
  <2>1. /\ at = "scan" /\ pipe # <<>> /\ pipe' = Tail(pipe) /\ UNCHANGED <<written, readEnd>>
        /\ \/ at' = "reap" /\ (refused' \/ scanErr')
           \/ at' = "scan" /\ delivered' = Append(delivered, Head(pipe))
    BY <1>13 DEF ReadLine
  <2>2. at' = "scan" =>
          /\ Len(delivered) \in Nat /\ Len(delivered') = Len(delivered) + 1
          /\ Len(pipe) \in Nat /\ Len(pipe') = Len(pipe) - 1
    BY <2>1, LineOut
  <2>3. readEnd => written = Len(delivered) + Len(pipe)
    BY <2>1 DEF AllIsRead
  <2>4. at' = "scan" /\ readEnd => written = Len(delivered') + Len(pipe')
    BY <2>2, <2>3
  <2> QED
    BY <2>1, <2>4 DEF AllIsRead, Waiting
<1>14. CASE EndOfOutput
  <2>1. Len(<<>>) = 0 /\ Len(delivered) \in Nat
    BY DEF TypeOK
  <2>2. /\ at = "scan" /\ pipe = <<>> /\ (stdout = {} \/ ~readEnd) /\ at' = "reap" /\ scanErr' = ~readEnd
        /\ UNCHANGED <<stdout, written, pipe, readEnd, delivered>>
    BY <1>14 DEF EndOfOutput, command, output
  <2>3. readEnd => written = Len(delivered)
    BY <2>1, <2>2 DEF AllIsRead
  <2> QED
    BY <2>2, <2>3 DEF AllIsRead
<1>15. CASE Reap
  BY <1>15
     DEF Reap, call, command, output, watcher, reader, CommandSide, CallIsOfItsKind, RefusalIsLast,
         LeaderIsOne, Waiting, TypeOK, AllIsRead, WatcherHandsOver
<1>16. CASE Collect
  BY <1>16
     DEF Collect, call, command, output, watcher, reader, CommandSide, CallIsOfItsKind, RefusalIsLast,
         LeaderIsOne, Waiting, TypeOK, AllIsRead, WatcherHandsOver
<1>17. CASE Await
  BY <1>17
     DEF Await, closeDescriptors, call, command, output, watcher, reader, CommandSide, CallIsOfItsKind,
         RefusalIsLast, LeaderIsOne, Waiting, TypeOK, AllIsRead, WatcherHandsOver
<1>18. CASE Finish
  BY <1>18
     DEF Finish, Return, Answer, call, command, output, watcher, reader, CommandSide, CallIsOfItsKind,
         RefusalIsLast, LeaderIsOne, Waiting, TypeOK, AllIsRead, WatcherHandsOver
<1>19. CASE FakeStart
  BY <1>19
     DEF FakeStart, Return, call, command, output, watcher, reader, CommandSide, CallIsOfItsKind,
         RefusalIsLast, LeaderIsOne, Waiting, TypeOK, AllIsRead, WatcherHandsOver
<1>20. CASE FakeLine
  BY <1>20
     DEF FakeLine, Return, call, command, output, watcher, reader, CommandSide, CallIsOfItsKind,
         RefusalIsLast, LeaderIsOne, Waiting, TypeOK, AllIsRead, WatcherHandsOver
<1>21. CASE FakeEnd
  BY <1>21
     DEF FakeEnd, Return, call, command, output, watcher, reader, CommandSide, CallIsOfItsKind,
         RefusalIsLast, LeaderIsOne, Waiting, TypeOK, AllIsRead, WatcherHandsOver
<1> QED
  BY <1>1, <1>2, <1>3, <1>4, <1>5, <1>6, <1>7, <1>8, <1>9, <1>10, <1>11, <1>12, <1>13, <1>14, <1>15,
     <1>16, <1>17, <1>18, <1>19, <1>20, <1>21, <1>22
     DEF Next, watchCtx, Caller

\* The answer is true when it is given, and nothing that happens later makes it false.
LEMMA AnswerNext == TypeOK /\ CommandSide /\ RefusalIsLast /\ AllIsRead /\ AnswerIsTrue /\ [Next]_vars => AnswerIsTrue'
<1> SUFFICES ASSUME TypeOK, CommandSide, RefusalIsLast, AllIsRead, AnswerIsTrue, [Next]_vars PROVE AnswerIsTrue'
  OBVIOUS
<1>1. CASE UNCHANGED vars
  BY <1>1
     DEF vars, call, command, output, watcher, reader, CommandSide, CallIsOfItsKind, LeaderIsOne,
         WatcherHandsOver, ClosingIsTold, Told, Held, WaitTellsTheExit, Waiting, Started, Leader, RefusalIsLast,
         TypeOK, AllIsRead, AnswerIsTrue
<1>2. CASE Fork
  BY <1>2
     DEF Fork, call, command, output, watcher, reader, CommandSide, CallIsOfItsKind, LeaderIsOne,
         WatcherHandsOver, ClosingIsTold, Told, Held, WaitTellsTheExit, Waiting, Started, Leader, RefusalIsLast,
         TypeOK, AllIsRead, AnswerIsTrue
<1>22. CASE Redirect
  BY <1>22
     DEF Redirect, call, command, output, watcher, reader, CommandSide, CallIsOfItsKind, LeaderIsOne,
         WatcherHandsOver, ClosingIsTold, Told, Held, WaitTellsTheExit, Waiting, Started, Leader, RefusalIsLast,
         TypeOK, AllIsRead, AnswerIsTrue
<1>3. CASE Exit
  BY <1>3
     DEF Exit, call, command, output, watcher, reader, CommandSide, CallIsOfItsKind, LeaderIsOne,
         WatcherHandsOver, ClosingIsTold, Told, Held, WaitTellsTheExit, Waiting, Started, Leader, RefusalIsLast,
         TypeOK, AllIsRead, AnswerIsTrue
<1>4. CASE Write
  BY <1>4
     DEF Write, Die, call, command, output, watcher, reader, CommandSide, CallIsOfItsKind, LeaderIsOne,
         WatcherHandsOver, ClosingIsTold, Told, Held, WaitTellsTheExit, Waiting, Started, Leader, RefusalIsLast,
         TypeOK, AllIsRead, AnswerIsTrue
<1>5. CASE Copy
  BY <1>5
     DEF Copy, call, command, output, watcher, reader, CommandSide, CallIsOfItsKind, LeaderIsOne,
         WatcherHandsOver, ClosingIsTold, Told, Held, WaitTellsTheExit, Waiting, Started, Leader, RefusalIsLast,
         TypeOK, AllIsRead, AnswerIsTrue
<1>6. CASE Timeout
  BY <1>6
     DEF Timeout, call, command, output, watcher, reader, CommandSide, CallIsOfItsKind, LeaderIsOne,
         WatcherHandsOver, ClosingIsTold, Told, Held, WaitTellsTheExit, Waiting, Started, Leader, RefusalIsLast,
         TypeOK, AllIsRead, AnswerIsTrue
<1>7. CASE Leave
  BY <1>7
     DEF Leave, call, command, output, watcher, reader, CommandSide, CallIsOfItsKind, LeaderIsOne,
         WatcherHandsOver, ClosingIsTold, Told, Held, WaitTellsTheExit, Waiting, Started, Leader, RefusalIsLast,
         TypeOK, AllIsRead, AnswerIsTrue
<1>8. CASE Park
  BY <1>8
     DEF Park, call, command, output, watcher, reader, CommandSide, CallIsOfItsKind, LeaderIsOne,
         WatcherHandsOver, ClosingIsTold, Told, Held, WaitTellsTheExit, Waiting, Started, Leader, RefusalIsLast,
         TypeOK, AllIsRead, AnswerIsTrue
<1>9. CASE Cancel
  BY <1>9
     DEF Cancel, KillGroup, KillProcess, Die, call, command, output, watcher, reader, CommandSide,
         CallIsOfItsKind, LeaderIsOne, WatcherHandsOver, ClosingIsTold, Told, Held, WaitTellsTheExit, Waiting,
         Started, Leader, RefusalIsLast, TypeOK, AllIsRead, AnswerIsTrue
<1>10. CASE WaitDelay
  BY <1>10
     DEF WaitDelay, closeDescriptors, Die, call, command, output, watcher, reader, CommandSide,
         CallIsOfItsKind, LeaderIsOne, WatcherHandsOver, ClosingIsTold, Told, Held, WaitTellsTheExit, Waiting,
         Started, Leader, RefusalIsLast, TypeOK, AllIsRead, AnswerIsTrue
<1>11. CASE Start
  BY <1>11
     DEF Start, Return, call, command, output, watcher, reader, CommandSide, CallIsOfItsKind, LeaderIsOne,
         WatcherHandsOver, ClosingIsTold, Told, Held, WaitTellsTheExit, Waiting, Started, Leader, RefusalIsLast,
         TypeOK, AllIsRead, AnswerIsTrue
<1>12. CASE neverRan
  BY <1>12
     DEF neverRan, Return, call, command, output, watcher, reader, CommandSide, CallIsOfItsKind,
         LeaderIsOne, WatcherHandsOver, ClosingIsTold, Told, Held, WaitTellsTheExit, Waiting, Started, Leader,
         RefusalIsLast, TypeOK, AllIsRead, AnswerIsTrue
<1>13. CASE ReadLine
  BY <1>13
     DEF ReadLine, call, command, output, watcher, reader, CommandSide, CallIsOfItsKind, LeaderIsOne,
         WatcherHandsOver, ClosingIsTold, Told, Held, WaitTellsTheExit, Waiting, Started, Leader, RefusalIsLast,
         TypeOK, AllIsRead, AnswerIsTrue
<1>14. CASE EndOfOutput
  BY <1>14
     DEF EndOfOutput, call, command, output, watcher, reader, CommandSide, CallIsOfItsKind, LeaderIsOne,
         WatcherHandsOver, ClosingIsTold, Told, Held, WaitTellsTheExit, Waiting, Started, Leader, RefusalIsLast,
         TypeOK, AllIsRead, AnswerIsTrue
<1>15. CASE Reap
  BY <1>15
     DEF Reap, call, command, output, watcher, reader, CommandSide, CallIsOfItsKind, LeaderIsOne,
         WatcherHandsOver, ClosingIsTold, Told, Held, WaitTellsTheExit, Waiting, Started, Leader, RefusalIsLast,
         TypeOK, AllIsRead, AnswerIsTrue
<1>16. CASE Collect
  BY <1>16
     DEF Collect, call, command, output, watcher, reader, CommandSide, CallIsOfItsKind, LeaderIsOne,
         WatcherHandsOver, ClosingIsTold, Told, Held, WaitTellsTheExit, Waiting, Started, Leader, RefusalIsLast,
         TypeOK, AllIsRead, AnswerIsTrue
<1>17. CASE Await
  BY <1>17
     DEF Await, closeDescriptors, call, command, output, watcher, reader, CommandSide, CallIsOfItsKind,
         LeaderIsOne, WatcherHandsOver, ClosingIsTold, Told, Held, WaitTellsTheExit, Waiting, Started, Leader,
         RefusalIsLast, TypeOK, AllIsRead, AnswerIsTrue
<1>18. CASE Finish
  BY <1>18
     DEF Finish, Return, Answer, call, command, output, watcher, reader, CommandSide, CallIsOfItsKind,
         LeaderIsOne, WatcherHandsOver, ClosingIsTold, Told, Held, WaitTellsTheExit, Waiting, Started, Leader,
         RefusalIsLast, TypeOK, AllIsRead, AnswerIsTrue
<1>19. CASE FakeStart
  BY <1>19
     DEF FakeStart, Return, call, command, output, watcher, reader, CommandSide, CallIsOfItsKind,
         LeaderIsOne, WatcherHandsOver, ClosingIsTold, Told, Held, WaitTellsTheExit, Waiting, Started, Leader,
         RefusalIsLast, TypeOK, AllIsRead, AnswerIsTrue
<1>20. CASE FakeLine
  BY <1>20
     DEF FakeLine, Return, call, command, output, watcher, reader, CommandSide, CallIsOfItsKind,
         LeaderIsOne, WatcherHandsOver, ClosingIsTold, Told, Held, WaitTellsTheExit, Waiting, Started, Leader,
         RefusalIsLast, TypeOK, AllIsRead, AnswerIsTrue
<1>21. CASE FakeEnd
  BY <1>21
     DEF FakeEnd, Return, call, command, output, watcher, reader, CommandSide, CallIsOfItsKind,
         LeaderIsOne, WatcherHandsOver, ClosingIsTold, Told, Held, WaitTellsTheExit, Waiting, Started, Leader,
         RefusalIsLast, TypeOK, AllIsRead, AnswerIsTrue
<1> QED
  BY <1>1, <1>2, <1>3, <1>4, <1>5, <1>6, <1>7, <1>8, <1>9, <1>10, <1>11, <1>12, <1>13, <1>14, <1>15,
     <1>16, <1>17, <1>18, <1>19, <1>20, <1>21, <1>22
     DEF Next, watchCtx, Caller

----------------------------------------------------------------------------
\* The invariant holds initially: nothing has been started.
LEMMA InvInit == Init => Inv
<1> SUFFICES ASSUME Init PROVE Inv
  OBVIOUS
<1>1. <<>> \in Seq(Nat) /\ Len(<<>>) = 0
  OBVIOUS
<1>2. TypeOK
  BY <1>1, DokkuAssumption DEF Init, TypeOK
<1>3. CommandSide /\ RefusalIsLast
  BY DEF Init, CommandSide, CallIsOfItsKind, LeaderIsOne, WatcherHandsOver, ClosingIsTold,
     WaitTellsTheExit, RefusalIsLast, Waiting
<1>4. LinesAreNext /\ AllIsRead /\ GroupIsGone /\ AnswerIsTrue
  BY <1>1 DEF Init, LinesAreNext, AllIsRead, GroupIsGone, AnswerIsTrue, Waiting
<1> QED
  BY <1>2, <1>3, <1>4 DEF Inv

\* The invariant holds in every reachable state.
LEMMA InvAlways == Spec => []Inv
<1>1. Inv /\ [Next]_vars => Inv'
  BY TypeNext, CommandNext, RefusalNext, LinesNext, AllIsReadNext, GroupNext, AnswerNext DEF Inv
<1> QED
  BY <1>1, InvInit, PTL DEF Spec

\* The variables keep their types.
THEOREM DokkuTypeCorrect == Spec => []TypeOK
<1>1. Inv => TypeOK
  BY DEF Inv
<1> QED
  BY <1>1, InvAlways, PTL

\* An answer is true of the command, however its exit, its output, a kill, the
\* timers and the caller's leaving interleave.
THEOREM AnswerIsTrueAlways == Spec => []AnswerIsTrue
<1>1. Inv => AnswerIsTrue
  BY DEF Inv
<1> QED
  BY <1>1, InvAlways, PTL

\* However a stream ends, the process dokkup started has ended; and without sudo
\* in between, one whose leader was killed has nothing of its group left,
\* whatever the leader had forked.
THEOREM NothingOutlivesAlways == Spec => []NothingOutlives
<1>1. Inv => NothingOutlives
  BY DEF Inv, CommandSide, WatcherHandsOver, LeaderIsOne, GroupIsGone, NothingOutlives
<1> QED
  BY <1>1, InvAlways, PTL

\* Every step of the client is a step of the contract, or none.
LEMMA ContractNext == Inv /\ [Next]_vars => [Contract!Next]_(Contract!stream)
<1> SUFFICES ASSUME Inv, [Next]_vars PROVE [Contract!Next]_(Contract!stream)
  OBVIOUS
<1>1. CASE UNCHANGED vars
  BY <1>1 DEF vars, call, command, output, watcher, reader, Contract!stream
<1>2. CASE Fork
  BY <1>2 DEF Fork, call, command, output, watcher, reader, Contract!stream
<1>22. CASE Redirect
  BY <1>22 DEF Redirect, call, command, output, watcher, reader, Contract!stream
<1>3. CASE Exit
  BY <1>3 DEF Exit, call, command, output, watcher, reader, Contract!stream
<1>4. CASE Write
  BY <1>4 DEF Write, Die, call, command, output, watcher, reader, Contract!stream
<1>5. CASE Copy
  BY <1>5 DEF Copy, call, command, output, watcher, reader, Contract!stream
<1>6. CASE Timeout
  BY <1>6 DEF Timeout, call, command, output, watcher, reader, Contract!stream
<1>7. CASE Leave
  <2>1. result = "none"
    BY <1>7 DEF Leave, Inv, CommandSide, CallIsOfItsKind
  <2>2. Contract!Leave
    BY <1>7, <2>1 DEF Leave, reader, Contract!Leave
  <2> QED
    BY <2>2 DEF Contract!Next
<1>8. CASE Park
  BY <1>8 DEF Park, call, command, output, watcher, reader, Contract!stream
<1>9. CASE Cancel
  BY <1>9 DEF Cancel, KillGroup, KillProcess, Die, call, command, output, watcher, reader, Contract!stream
<1>10. CASE WaitDelay
  BY <1>10 DEF WaitDelay, closeDescriptors, Die, call, command, output, watcher, reader, Contract!stream
<1>11. CASE Start
  <2>1. UNCHANGED <<delivered, refused, gone>> /\ (result' = result \/ result' = "command")
    BY <1>11 DEF Start, Return, reader
  <2>2. result = "none" /\ ~refused /\ delivered = <<>>
    BY <1>11 DEF Start, Inv, CommandSide, CallIsOfItsKind, RefusalIsLast
  <2> QED
    BY <2>1, <2>2 DEF Contract!Next, Contract!Return, Contract!stream
<1>12. CASE neverRan
  <2>1. UNCHANGED <<delivered, refused, gone>> /\ result' = IF gone THEN "cancelled" ELSE "command"
    BY <1>12 DEF neverRan, Return, reader
  <2>2. result = "none" /\ ~refused /\ delivered = <<>>
    BY <1>12 DEF neverRan, Inv, CommandSide, CallIsOfItsKind, RefusalIsLast
  <2> QED
    BY <2>1, <2>2 DEF Contract!Next, Contract!Return
<1>13. CASE ReadLine
  <2>1. result = "none" /\ ~refused /\ UNCHANGED <<gone, result>> /\ at = "scan" /\ pipe # <<>>
    BY <1>13 DEF ReadLine, Inv, CommandSide, CallIsOfItsKind, RefusalIsLast
  <2>2. Head(pipe) # TooLong => Head(pipe) = Len(delivered) + 1
    <3>1. pipe \in Seq(Nat)
      BY DEF Inv, TypeOK
    <3>2. 1 \in 1 .. Len(pipe) /\ Head(pipe) = pipe[1]
      BY <2>1, <3>1
    <3> QED
      BY <2>1, <3>2 DEF Inv, LinesAreNext
  <2>3. \/ UNCHANGED refused /\ delivered' = Append(delivered, Len(delivered) + 1)
        \/ refused' = TRUE /\ UNCHANGED delivered
        \/ UNCHANGED <<delivered, refused>>
    BY <1>13, <2>2 DEF ReadLine
  <2> QED
    BY <2>1, <2>3 DEF Contract!Next, Contract!Deliver, Contract!Decline, Contract!stream
<1>14. CASE EndOfOutput
  BY <1>14 DEF EndOfOutput, call, command, output, watcher, reader, Contract!stream
<1>15. CASE Reap
  BY <1>15 DEF Reap, call, command, output, watcher, reader, Contract!stream
<1>16. CASE Collect
  BY <1>16 DEF Collect, call, command, output, watcher, reader, Contract!stream
<1>17. CASE Await
  BY <1>17 DEF Await, closeDescriptors, call, command, output, watcher, reader, Contract!stream
<1>18. CASE Finish
  <2>1. result = "none" /\ UNCHANGED <<delivered, refused, gone>> /\ result' = Answer
    BY <1>18 DEF Finish, Return, Inv, CommandSide, CallIsOfItsKind, reader
  <2>2. kind = "report" => ~refused /\ delivered = <<>>
    BY DEF Inv, RefusalIsLast
  <2> QED
    BY <2>1, <2>2 DEF Answer, Contract!Next, Contract!Return
<1>19. CASE FakeStart
  <2>1. UNCHANGED <<delivered, refused, gone>> /\ (result' = result \/ result' = "command")
    BY <1>19 DEF FakeStart, Return, reader
  <2>2. result = "none" /\ ~refused /\ delivered = <<>>
    BY <1>19 DEF FakeStart, Inv, CommandSide, CallIsOfItsKind, RefusalIsLast
  <2> QED
    BY <2>1, <2>2 DEF Contract!Next, Contract!Return, Contract!stream
<1>20. CASE FakeLine
  <2>1. result = "none" /\ ~refused /\ UNCHANGED gone /\ at = "fake" /\ pipe # <<>>
    BY <1>20 DEF FakeLine, Inv, CommandSide, CallIsOfItsKind, RefusalIsLast
  <2>2. Head(pipe) = Len(delivered) + 1
    <3>1. pipe \in Seq(Nat)
      BY DEF Inv, TypeOK
    <3>2. 1 \in 1 .. Len(pipe) /\ Head(pipe) = pipe[1]
      BY <2>1, <3>1
    <3> QED
      BY <2>1, <3>2 DEF Inv, LinesAreNext
  <2>3. \/ gone /\ result' = "cancelled" /\ UNCHANGED <<delivered, refused>>
        \/ UNCHANGED <<refused, result>> /\ delivered' = Append(delivered, Len(delivered) + 1)
        \/ refused' = TRUE /\ result' = "refused" /\ UNCHANGED delivered
    BY <1>20, <2>2 DEF FakeLine, Return
  <2> QED
    BY <2>1, <2>3 DEF Contract!Next, Contract!Deliver, Contract!Decline, Contract!Return
<1>21. CASE FakeEnd
  <2>1. result = "none" /\ ~refused /\ UNCHANGED <<delivered, refused, gone>>
    BY <1>21 DEF FakeEnd, Inv, CommandSide, CallIsOfItsKind, RefusalIsLast, reader
  <2>2. result' = "ok" \/ (gone /\ result' = "cancelled")
    BY <1>21 DEF FakeEnd, Return
  <2> QED
    BY <2>1, <2>2 DEF Contract!Next, Contract!Return
<1> QED
  BY <1>1, <1>2, <1>3, <1>4, <1>5, <1>6, <1>7, <1>8, <1>9, <1>10, <1>11, <1>12, <1>13, <1>14, <1>15,
     <1>16, <1>17, <1>18, <1>19, <1>20, <1>21, <1>22
     DEF Next, watchCtx, Caller

\* Both implementations of Logs implement the contract of LogStream, for any
\* number of lines.
THEOREM BothClientsKeepTheContract == Spec => ContractIsKept
<1>1. Init => Contract!Init
  BY DEF Init, Contract!Init
<1> QED
  BY <1>1, InvAlways, ContractNext, PTL DEF Spec, ContractIsKept, Contract!Spec
=============================================================================
