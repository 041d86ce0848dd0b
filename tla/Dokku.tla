------------------------------- MODULE Dokku -------------------------------
(***************************************************************************)
(* One invocation of Dokku through the client the service holds            *)
(* (internal/dokku): ExecClient.run behind every report, ExecClient.stream *)
(* behind Logs, and the Logs of Fake, the other implementation of Client.  *)
(*                                                                         *)
(* Four actors take turns: the caller's goroutine; the processes of the    *)
(* command, which fork, write, exit and hold the two output pipes;         *)
(* os/exec's goroutine that watches the context; and the ones that copy    *)
(* the output: both pipes of a report, stderr alone of a stream, whose     *)
(* stdout the scanner reads.  The last two actors are os/exec's own, as    *)
(* Start, Cancel, WaitDelay and Wait use them.  Time is whether a timer    *)
(* has fired.                                                              *)
(*                                                                         *)
(* hop is whether Dokku is reached through sudo by an account that is not  *)
(* root's: sudo is then root's process, and nothing of the command may be  *)
(* signalled.                                                              *)
(***************************************************************************)
EXTENDS Naturals, Sequences

CONSTANTS
    MaxLines,   \* bound on the lines a command writes
    PipeSize,   \* lines that are written and not yet read
    Kinds,      \* the invocations of a run
    Hops        \* and whether they go through sudo

ASSUME DokkuAssumption ==
    /\ MaxLines \in Nat
    /\ PipeSize \in Nat \ {0}
    /\ Kinds \subseteq {"report", "logs", "fake", "fakeFollow"}
    /\ Hops \subseteq BOOLEAN

VARIABLES
    kind,       \* which call this is
    hop,
    at,         \* where the caller's goroutine is
    alive,      \* the processes of the command that run
    forked,     \* the ones that ever did
    stdout,     \* the ones that hold its standard output
    stderr,     \* and its standard error
    exit,       \* how the process dokkup started ended
    written,    \* the lines written so far
    pipe,       \* and the ones no one has read yet
    readEnd,    \* whether dokkup's ends of the pipes are open
    copied,     \* whether the goroutines copying the output have ended
    stopped,    \* whether the command's context is done
    watch,      \* where os/exec's watchCtx is
    watchErr,   \* and the error it will hand to Wait
    waitErr,
    scanErr,
    delivered,  \* the lines fn accepted
    refused,    \* fnErr
    gone,       \* whether the caller's own context is done
    result

call == <<kind, hop>>
command == <<alive, forked, stdout, stderr, exit>>
output == <<written, pipe, readEnd>>
watcher == <<watch, watchErr>>
reader == <<scanErr, delivered, refused>>
vars == <<call, at, command, output, copied, stopped, watcher, waitErr, reader, gone, result>>

Leader == "leader"                  \* the process dokkup started
Group == {Leader, "child"}          \* the process group it leads
Processes == Group \cup {"stray"}   \* and one that left the group
TooLong == 0                        \* a line of more than maxLogLine
Started == at \notin {"call", "refusedStart", "fake", "returned"}

----------------------------------------------------------------------------
(* The processes.  A killed one is gone at once; the leader's status stays *)
(* until it is reaped.                                                     *)

Die(who) ==
    /\ alive' = alive \ who
    /\ stdout' = stdout \ who
    /\ stderr' = stderr \ who
    /\ exit' = IF Leader \in who \cap alive THEN "killed" ELSE exit
    /\ UNCHANGED forked

\* A process is born into the group of the one that forked it, or leaves it,
\* and has its output.
Fork ==
    /\ \E parent \in alive \cap Group, p \in Processes \ forked :
         /\ alive' = alive \cup {p} /\ forked' = forked \cup {p}
         /\ stdout' = IF parent \in stdout THEN stdout \cup {p} ELSE stdout
         /\ stderr' = IF parent \in stderr THEN stderr \cup {p} ELSE stderr
    /\ UNCHANGED <<call, at, exit, output, copied, stopped, watcher, waitErr, reader, gone, result>>

\* It sends one of the two elsewhere.
Redirect ==
    /\ \/ (\E p \in stdout : stdout' = stdout \ {p}) /\ UNCHANGED stderr
       \/ (\E p \in stderr : stderr' = stderr \ {p}) /\ UNCHANGED stdout
    /\ UNCHANGED <<call, at, alive, forked, exit, output, copied, stopped, watcher, waitErr, reader, gone,
                   result>>

Exit ==
    /\ \E p \in alive :
         /\ alive' = alive \ {p} /\ stdout' = stdout \ {p} /\ stderr' = stderr \ {p}
         /\ IF p = Leader THEN exit' \in {"ok", "failed"} ELSE UNCHANGED exit
    /\ UNCHANGED <<call, at, forked, output, copied, stopped, watcher, waitErr, reader, gone, result>>

\* A line no one can read ends its writer.
Write ==
    /\ \/ /\ kind = "logs" /\ stdout # {}
          /\ readEnd /\ written < MaxLines /\ Len(pipe) < PipeSize
          /\ \E line \in {written + 1, TooLong} : pipe' = Append(pipe, line)
          /\ written' = written + 1
          /\ UNCHANGED <<command, readEnd>>
       \/ ~readEnd /\ (\E p \in stdout \cup stderr : Die({p})) /\ UNCHANGED output
    /\ UNCHANGED <<call, at, copied, stopped, watcher, waitErr, reader, gone, result>>

\* closeDescriptors: what the scanner had taken in it still hands out.
closeDescriptors ==
    /\ readEnd' = FALSE
    /\ \E n \in 0 .. Len(pipe) : pipe' = SubSeq(pipe, 1, n)
    /\ UNCHANGED written

\* The processes that keep the copying from its end.
Held == IF kind = "report" THEN stdout \cup stderr ELSE stderr

Copy ==
    /\ ~copied
    /\ Started
    /\ Held = {} \/ ~readEnd
    /\ copied' = TRUE
    /\ UNCHANGED <<call, at, command, output, stopped, watcher, waitErr, reader, gone, result>>

----------------------------------------------------------------------------
(* os/exec's watchCtx, and the contexts it watches.                        *)

\* defaultTimeout, or the health endpoint's own.
Timeout ==
    /\ kind = "report" /\ Started /\ ~stopped
    /\ stopped' = TRUE
    /\ UNCHANGED <<call, at, command, output, copied, watcher, waitErr, reader, gone, result>>

\* The caller goes away: a closed page, a request given up on.
Leave ==
    /\ at # "returned" /\ ~gone
    /\ gone' = TRUE
    /\ stopped' = (stopped \/ Started)
    /\ UNCHANGED <<call, at, command, output, copied, watcher, waitErr, reader, result>>

\* The goroutine reaches its select.  Once there, a context that is done is
\* what it takes; before, it may find both that and Wait ready.
Park ==
    /\ watch = "spawned" /\ ~stopped
    /\ watch' = "parked"
    /\ UNCHANGED <<call, at, command, output, copied, stopped, watchErr, waitErr, reader, gone, result>>

\* Mutation: os/exec's own Cancel, which kills the process it started.
KillLeader ==
    \/ hop /\ watchErr' = "cancel" /\ UNCHANGED command
    \/ ~hop /\ Die({Leader}) /\ watchErr' = "ctx"

\* Kill(-pid, SIGKILL): the group, while anyone is in it.
KillGroup ==
    LET missing == alive \cap Group = {} /\ at \in {"collect", "await", "finish"}
    IN
    \/ (hop \/ missing) /\ watchErr' = "cancel" /\ UNCHANGED command
    \/ ~hop /\ ~missing /\ Die(Group) /\ watchErr' = "ctx"

\* os/exec's Cancel: Process.Kill, and a process already reaped is no error.
KillProcess ==
    LET reaped == at \in {"collect", "await", "finish"}
    IN
    \/ reaped /\ UNCHANGED <<command, watchErr>>
    \/ ~reaped /\ hop /\ watchErr' = "cancel" /\ UNCHANGED command
    \/ ~reaped /\ ~hop /\ Die({Leader}) /\ watchErr' = "ctx"

Cancel ==
    /\ watch \in {"spawned", "parked"} /\ stopped
    /\ watch' = "timing"
    /\ IF kind = "logs" THEN KillGroup ELSE KillProcess
    /\ UNCHANGED <<call, at, output, copied, stopped, waitErr, reader, gone, result>>

\* waitDelay after that, with the command still not waited for: Process.Kill,
\* and the pipes are closed unless the copying has ended.
WaitDelay ==
    /\ watch = "timing"
    /\ watch' = "expired"
    /\ \/ hop /\ UNCHANGED command
       \/ ~hop /\ Die({Leader})
    /\ \/ copied /\ UNCHANGED <<output, copied, watchErr>>
       \/ /\ ~copied
          /\ closeDescriptors
          /\ copied' = TRUE
          /\ watchErr' = IF watchErr = "nil" THEN "delay" ELSE watchErr
    /\ UNCHANGED <<call, at, stopped, waitErr, reader, gone, result>>

----------------------------------------------------------------------------
(* The caller: Start, the scanner's loop, Wait and the answer.             *)

Return(r) == at' = "returned" /\ result' = r

\* Start refuses a context that is done, and a program that is not there.
Start ==
    /\ at = "call"
    /\ kind \in {"report", "logs"}
    /\ \/ /\ ~gone
          /\ at' = IF kind = "logs" THEN "scan" ELSE "reap"
          /\ alive' = {Leader} /\ forked' = {Leader}
          /\ stdout' = {Leader} /\ stderr' = {Leader}
          /\ watch' = "spawned"
          /\ UNCHANGED result
       \/ kind = "logs" /\ at' = "refusedStart" /\ UNCHANGED <<command, watch, result>>
       \/ kind = "report" /\ Return("command") /\ UNCHANGED <<command, watch>>
    /\ UNCHANGED <<call, exit, output, copied, stopped, watchErr, waitErr, reader, gone>>

neverRan ==
    /\ at = "refusedStart"
    /\ Return(IF gone THEN "cancelled" ELSE "command")
    /\ UNCHANGED <<call, command, output, copied, stopped, watcher, waitErr, reader, gone>>

\* Mutation: reading stops at a line too long and the command is left alone.
ReadLineAndLeave ==
    /\ at = "scan" /\ kind = "logs"
    /\ pipe # <<>>
    /\ pipe' = Tail(pipe)
    /\ \/ /\ Head(pipe) # TooLong
          /\ delivered' = Append(delivered, Head(pipe))
          /\ UNCHANGED <<at, scanErr>>
       \/ /\ Head(pipe) = TooLong
          /\ scanErr' = TRUE
          /\ at' = "reap"
          /\ UNCHANGED delivered
    /\ UNCHANGED <<call, command, written, readEnd, copied, stopped, watcher, waitErr, refused, gone, result>>

\* A line fn accepts, a line it refuses, a line too long to read: the last
\* two end the loop and cancel the command.
ReadLine ==
    /\ at = "scan" /\ kind = "logs"
    /\ pipe # <<>>
    /\ pipe' = Tail(pipe)
    /\ \/ /\ Head(pipe) # TooLong
          /\ delivered' = Append(delivered, Head(pipe))
          /\ UNCHANGED <<at, stopped, scanErr, refused>>
       \/ /\ Head(pipe) # TooLong
          /\ refused' = TRUE
          /\ stopped' = TRUE /\ at' = "reap"
          /\ UNCHANGED <<scanErr, delivered>>
       \/ /\ Head(pipe) = TooLong
          /\ scanErr' = TRUE
          /\ stopped' = TRUE /\ at' = "reap"
          /\ UNCHANGED <<delivered, refused>>
    /\ UNCHANGED <<call, command, written, readEnd, copied, watcher, waitErr, gone, result>>

\* The end of the output, or of dokkup's end of the pipe, which is an error.
EndOfOutput ==
    /\ at = "scan" /\ kind = "logs"
    /\ pipe = <<>>
    /\ stdout = {} \/ ~readEnd
    /\ at' = "reap"
    /\ scanErr' = ~readEnd
    /\ stopped' = (stopped \/ ~readEnd)
    /\ UNCHANGED <<call, command, output, copied, watcher, waitErr, delivered, refused, gone, result>>

\* Process.Wait.
Reap ==
    /\ at = "reap" /\ exit # "none"
    /\ at' = "collect"
    /\ waitErr' = IF exit = "ok" THEN "nil" ELSE "exit"
    /\ UNCHANGED <<call, command, output, copied, stopped, watcher, reader, gone, result>>

\* The context's watcher hands over: nothing when the context lives, or what
\* it was told, with its timer if that still runs.
Collect ==
    /\ at = "collect"
    /\ \/ watch = "spawned" \/ (watch = "parked" /\ ~stopped)
       \/ watch \in {"timing", "expired"}
    /\ at' = "await"
    /\ watch' = "ended"
    /\ waitErr' = IF waitErr = "nil" THEN watchErr ELSE waitErr
    /\ UNCHANGED <<call, command, output, copied, stopped, watchErr, reader, gone, result>>

\* awaitGoroutines: the copying ends, or its time does.  Wait closes what is
\* still open.
Await ==
    /\ at = "await"
    /\ at' = "finish"
    /\ closeDescriptors
    /\ copied' = TRUE
    /\ waitErr' = IF waitErr = "nil" /\ ~copied THEN "delay" ELSE waitErr
    /\ UNCHANGED <<call, command, stopped, watcher, reader, gone, result>>

\* Mutation: what Wait said is looked at before what the caller said.
AnswerWaitFirst ==
    IF waitErr = "nil" /\ ~scanErr THEN "ok"
    ELSE IF refused THEN "command"
    ELSE IF gone THEN "cancelled"
    ELSE "command"

\* Mutation: the scanner's error is not asked for.
AnswerWithoutScanErr ==
    IF refused THEN "refused"
    ELSE IF waitErr = "nil" THEN "ok"
    ELSE IF gone /\ kind = "logs" THEN "cancelled"
    ELSE "command"

\* stream's switch, and run's: any error is the command's.
Answer ==
    IF kind = "report" THEN IF waitErr = "nil" THEN "ok" ELSE "command"
    ELSE IF refused THEN "refused"
    ELSE IF waitErr = "nil" /\ ~scanErr THEN "ok"
    ELSE IF gone THEN "cancelled"
    ELSE "command"

Finish ==
    /\ at = "finish"
    /\ Return(Answer)
    /\ UNCHANGED <<call, command, output, copied, stopped, watcher, waitErr, reader, gone>>

----------------------------------------------------------------------------
(* Fake.Logs: the lines it was given, then the end of a followed stream.   *)

FakeStart ==
    /\ at = "call"
    /\ kind \in {"fake", "fakeFollow"}
    /\ \/ at' = "fake" /\ UNCHANGED result
       \/ Return("command")                       \* Err, or ErrAppNotFound
    /\ \E n \in 0 .. PipeSize : pipe' = [i \in 1 .. n |-> i]
    /\ UNCHANGED <<call, command, written, readEnd, copied, stopped, watcher, waitErr, reader, gone>>

FakeLine ==
    /\ at = "fake" /\ pipe # <<>>
    /\ \/ gone /\ Return("cancelled") /\ UNCHANGED <<pipe, delivered, refused>>
       \/ /\ ~gone
          /\ pipe' = Tail(pipe)
          /\ \/ /\ delivered' = Append(delivered, Head(pipe))
                /\ UNCHANGED <<at, refused, result>>
             \/ refused' = TRUE /\ Return("refused") /\ UNCHANGED delivered
    /\ UNCHANGED <<call, command, written, readEnd, copied, stopped, watcher, waitErr, scanErr, gone>>

FakeEnd ==
    /\ at = "fake" /\ pipe = <<>>
    /\ \/ kind = "fake" /\ Return("ok")
       \/ kind = "fakeFollow" /\ gone /\ Return("cancelled")
    /\ UNCHANGED <<call, command, output, copied, stopped, watcher, waitErr, reader, gone>>

----------------------------------------------------------------------------
Init ==
    /\ kind \in Kinds
    /\ hop \in Hops
    /\ at = "call"
    /\ alive = {} /\ forked = {} /\ stdout = {} /\ stderr = {} /\ exit = "none"
    /\ written = 0 /\ pipe = <<>> /\ readEnd = TRUE
    /\ copied = FALSE
    /\ stopped = FALSE
    /\ watch = "none" /\ watchErr = "nil"
    /\ waitErr = "nil"
    /\ scanErr = FALSE /\ delivered = <<>> /\ refused = FALSE
    /\ gone = FALSE
    /\ result = "none"

Caller ==
    \/ Start \/ neverRan \/ ReadLine \/ EndOfOutput \/ Reap \/ Collect \/ Await \/ Finish
    \/ FakeStart \/ FakeLine \/ FakeEnd
watchCtx == Park \/ Cancel \/ WaitDelay

Next == Fork \/ Redirect \/ Exit \/ Write \/ Copy \/ Timeout \/ Leave \/ watchCtx \/ Caller
Spec == Init /\ [][Next]_vars

\* dokkup's goroutines run and its timers fire; what Dokku and the caller do
\* is theirs to choose.
FairSpec == Spec /\ WF_vars(Caller) /\ WF_vars(watchCtx) /\ WF_vars(Copy) /\ WF_vars(Timeout)

----------------------------------------------------------------------------
(* Properties.                                                             *)

Contract == INSTANCE LogStream

\* Both implementations of Client.Logs keep the promise of LogStream, so that
\* a caller "must not have to ask which of the two it is holding": lines in
\* order, none after a refusal, and its own decisions told from a failure of
\* Dokku's, however a kill, an exit, a long line and a caller's leaving fall.
ContractIsKept == Contract!Spec

\* An answer is true of the command: it succeeded only if the command ended
\* well, nothing of it still holds the output and every line it wrote was
\* delivered; a stream failed only if its caller had not gone; and the
\* goroutine that fills the buffer an error's text is read from has ended.
AnswerIsTrue ==
    /\ result = "ok" /\ kind \in {"report", "logs"} =>
        /\ exit = "ok" /\ stdout = {} /\ stderr = {}
        /\ kind = "logs" => Len(delivered) = written
    /\ result = "command" /\ kind = "logs" => ~gone
    /\ at = "finish" => copied

\* What stream leaves behind.  The process it started has always ended.  One
\* that dokkup itself may kill, because there is no sudo in between, leaves
\* nothing of its group: "the difference between an abandoned browser tab
\* costing nothing and costing a `docker logs --follow` per container until
\* the host is rebooted" (stream).  A leader that ended by itself is an
\* exception: the watcher that had not yet been scheduled may then hand over
\* without signalling anyone.  Sudo is the other, and the one every service
\* meets: see AbandonedStreamIsKilled.
NothingOutlives ==
    kind = "logs" /\ at = "returned" =>
        /\ Leader \notin alive
        /\ exit = "killed" /\ ~hop => alive \cap Group = {}

\* "The difference between an abandoned browser tab costing nothing and costing
\* a `docker logs --follow` per container until the host is rebooted": "the
\* whole group is signalled" (stream).  Once its caller has gone the command's
\* group is gone, unless the command had come to its end.
AbandonedStreamIsKilled ==
    kind = "logs" /\ gone /\ Started ~> (alive \cap Group = {} \/ exit \in {"ok", "failed"})

\* The scanner reads a pipe that nothing closes any more: the copying of stderr
\* has ended, and who holds stdout cannot be killed.
Blocked ==
    /\ at = "scan" /\ copied
    /\ stdout \cap (IF hop THEN Processes ELSE Processes \ Group) # {}

\* An invocation that was given up on ends: a report by its timeout, a stream
\* once its caller has gone, refuses a line or is sent one too long, although
\* a process that left the group holds the output (run: "a hung command must
\* not hold an HTTP request open indefinitely").  Through sudo only once the
\* command itself has ended.  Not so a stream whose stdout such a process
\* holds for ever, without its stderr: WaitDelay is about the copying only,
\* and the scanner waits as long as that process does.
InvocationEnds ==
    \/ (kind = "report" \/ gone \/ stopped \/ scanErr) /\ (hop => exit # "none") ~> at = "returned"
    \/ <>[]Blocked
=============================================================================
