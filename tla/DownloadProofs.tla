--------------------------- MODULE DownloadProofs ---------------------------
(***************************************************************************)
(* Proofs about Source.Fetch, for any number of runs, redirects and reads, *)
(* any stall timeout, and any server.                                      *)
(***************************************************************************)
EXTENDS Download, TLAPS

Assets == {"binary", "sums", "bundle"}
Contents == {"release", "other", "unlisted"}

TypeOK ==
    /\ cosign \in BOOLEAN /\ run \in Nat
    /\ pc \in {"idle", "killed", "request", "copy", "received", "copyFailed", "cancelled", "compare"}
    /\ asset \in Assets
    /\ files \in SUBSET ({"binary", "bundle"} \X Nat)
    /\ binary \in Contents \cup {"nothing"} /\ want \in Contents \cup {"nothing"}
    /\ outcome \in {"none", "failed", "stalled", "unsigned", "signed"}
    /\ url \in URLs /\ hops \in Nat /\ body \in Contents
    /\ arrived \in {"no", "data", "end", "error"} /\ got \in Nat /\ progress \in BOOLEAN
    /\ timer \in Nat /\ dog \in {"watching", "cancel", "gone"}
    /\ quiet \in BOOLEAN /\ cancelled \in BOOLEAN
    /\ silence \in Nat /\ longest \in Nat

----------------------------------------------------------------------------
(* What the files and the verdict rest on: a run at work has its binary in *)
(* the directory, and the signature's file with it once the checksum was   *)
(* found right; and it has not yet said how it ended.                      *)

FilesAreTheRuns ==
    pc \notin Idle =>
        files = IF asset = "bundle" THEN {Temp("binary"), Temp("bundle")} ELSE {Temp("binary")}

SignatureComesLast == pc \notin Idle /\ asset = "bundle" => binary = want /\ cosign

VerdictIsLast ==
    /\ pc # "idle" => outcome = "none"
    /\ pc = "compare" => asset = "sums"

(* What the stall theorem rests on: while a transfer waits and its         *)
(* watchdog watches, the timer has run for no longer than nothing has      *)
(* arrived; and the context is cancelled only after quiet was stored.      *)

Transferring == {"copy", "copyFailed", "cancelled"}

TimerIsHonest ==
    pc \in Transferring =>
        /\ quiet => longest >= Stall
        /\ dog = "watching" /\ timer = 0 => longest >= Stall
        /\ pc = "copy" /\ dog = "watching" /\ arrived = "no" /\ ~progress => silence + timer >= Stall

CancelledMeansQuiet ==
    /\ dog = "cancel" => quiet
    /\ pc = "copy" /\ cancelled => quiet
    /\ pc = "cancelled" => quiet

FileParts ==
    FilesAreTheRuns /\ SignatureComesLast /\ VerdictIsLast /\ ArtifactIsVerified /\ NothingLeftBehind
WatchdogParts == TimerIsHonest /\ CancelledMeansQuiet

Inv == TypeOK /\ FileParts /\ WatchdogParts
----------------------------------------------------------------------------
\* The first request goes to GitHub, and what is sent is one of the contents.
LEMMA RequestTypes ==
    /\ [scheme |-> "https", host |-> "github.com"] \in URLs
    /\ \A a \in Assets : Bodies[a] \subseteq Contents
<1>1. /\ Bodies["binary"] = {"release", "other"} /\ Bodies["bundle"] = {"release", "other"}
      /\ Bodies["sums"] = {"release", "other", "unlisted"}
  BY DEF Bodies
<1> QED
  BY <1>1 DEF URLs, Hosts, GitHub, Assets, Contents

\* Every step keeps the types.
LEMMA TypeNext == TypeOK /\ [Next]_vars => TypeOK'
<1> SUFFICES ASSUME TypeOK, [Next]_vars PROVE TypeOK'
  OBVIOUS
<1>1. CASE UNCHANGED vars
  BY <1>1 DEF vars, work, request, watchdog, clock, TypeOK, Assets, Contents, Idle
<1>2. CASE Fetch
  <2>1. files' \in SUBSET ({"binary", "bundle"} \X Nat)
    <3>1. <<"binary", run + 1>> \in {"binary", "bundle"} \X Nat
      BY DEF TypeOK
    <3>2. SweepTemp \subseteq files
      BY DEF SweepTemp
    <3> QED
      BY <1>2, <3>1, <3>2 DEF Fetch, TypeOK
  <2>2. /\ run' \in Nat /\ pc' \in {"request", "idle"} /\ outcome' \in {"none", "failed"}
        /\ binary' = "nothing" /\ want' = "nothing"
    BY <1>2 DEF Fetch, Ask, TypeOK
  <2>3. asset' \in Assets /\ url' \in URLs /\ hops' \in Nat
    BY <1>2, RequestTypes DEF Fetch, Ask, TypeOK, Assets
  <2> QED
    BY <1>2, <2>1, <2>2, <2>3 DEF Fetch, watchdog, clock, TypeOK
<1>3. CASE Do
  <2>0. Watch \/ UNCHANGED <<arrived, got, progress, timer, dog, quiet, cancelled, silence, longest>>
    BY <1>3 DEF Do, watchdog, clock
  <2>1. body' \in Contents /\ url' \in URLs /\ hops' \in Nat
    BY <1>3, RequestTypes DEF Do, TypeOK
  <2>2. /\ arrived' \in {"no", "data", "end", "error"} /\ got' \in Nat
        /\ progress' \in BOOLEAN /\ quiet' \in BOOLEAN /\ cancelled' \in BOOLEAN
    <3>1. CASE Watch
      BY <3>1 DEF Watch
    <3>2. CASE UNCHANGED <<arrived, got, progress, timer, dog, quiet, cancelled, silence, longest>>
      BY <3>2 DEF TypeOK
    <3> QED
      BY <2>0, <3>1, <3>2
  <2>3. timer' \in Nat /\ dog' \in {"watching", "cancel", "gone"} /\ silence' \in Nat /\ longest' \in Nat
    BY <2>0, DownloadAssumption DEF Watch, TypeOK
  <2>4. pc' \in {"copy", "request"} /\ UNCHANGED <<files, outcome>>
    BY <1>3 DEF Do, TypeOK
  <2> QED
    BY <1>3, <2>1, <2>2, <2>3, <2>4 DEF Do, TypeOK
<1>4. CASE DoFails
  BY <1>4, DownloadAssumption
     DEF DoFails, fail, work, request, watchdog, clock, TypeOK, Assets, Contents, Idle
<1>5. CASE Read
  BY <1>5, DownloadAssumption DEF Read, work, request, watchdog, clock, TypeOK, Assets, Contents, Idle
<1>6. CASE CopyEnds
  <2>1. /\ files' \in SUBSET ({"binary", "bundle"} \X Nat) /\ cancelled' \in BOOLEAN
        /\ outcome' \in {"none", "failed", "stalled", "unsigned", "signed"}
        /\ pc' \in {"received", "idle", "copyFailed", "cancelled"}
    BY <1>6 DEF CopyEnds, fail, Leave, TypeOK
  <2> QED
    BY <1>6, <2>1 DEF CopyEnds, request, watchdog, clock, TypeOK
<1>7. CASE CopyFailed
  BY <1>7, DownloadAssumption
     DEF CopyFailed, fail, work, request, watchdog, clock, TypeOK, Assets, Contents, Idle
<1>8. CASE KeepBinary
  <2>1. /\ files' \in SUBSET ({"binary", "bundle"} \X Nat) /\ outcome' \in {"none", "failed"}
        /\ pc' \in {"request", "idle"}
    BY <1>8 DEF KeepBinary, Ask, fail, TypeOK
  <2>2. /\ binary' \in Contents \cup {"nothing"} /\ want' = want
        /\ asset' \in Assets /\ url' \in URLs /\ hops' \in Nat
    BY <1>8, RequestTypes DEF KeepBinary, Ask, TypeOK, Assets
  <2> QED
    BY <1>8, <2>1, <2>2 DEF KeepBinary, Rest, watchdog, clock, TypeOK
<1>9. CASE KeepSums
  BY <1>9, DownloadAssumption
     DEF KeepSums, Then, fail, Rest, work, request, watchdog, clock, TypeOK, Assets, Contents, Idle
<1>10. CASE Compare
  <2>1. /\ files' \in SUBSET ({"binary", "bundle"} \X Nat)
        /\ outcome' \in {"none", "failed", "unsigned"}
        /\ pc' \in {"request", "idle"}
    BY <1>10 DEF Compare, Ask, fail, Temp, TypeOK
  <2>2. asset' \in Assets /\ url' \in URLs /\ hops' \in Nat
    BY <1>10, RequestTypes DEF Compare, Ask, TypeOK, Assets
  <2> QED
    BY <1>10, <2>1, <2>2 DEF Compare, Rest, watchdog, clock, TypeOK
<1>11. CASE verifySignature
  BY <1>11, DownloadAssumption
     DEF verifySignature, fail, Rest, work, request, watchdog, clock, TypeOK, Assets, Contents, Idle
<1>12. CASE Server
  BY <1>12, DownloadAssumption DEF Server, work, request, watchdog, clock, TypeOK, Assets, Contents, Idle
<1>13. CASE Dog
  <2>1. /\ progress' \in BOOLEAN /\ quiet' \in BOOLEAN /\ cancelled' \in BOOLEAN
        /\ dog' \in {"watching", "cancel", "gone"} /\ timer' \in Nat
    BY <1>13, DownloadAssumption DEF Dog, Fire, Wake, TypeOK
  <2> QED
    BY <1>13, <2>1 DEF Dog, work, request, clock, TypeOK
<1>14. CASE Tick
  BY <1>14, DownloadAssumption DEF Tick, work, request, watchdog, clock, TypeOK, Assets, Contents, Idle
<1>15. CASE Kill
  BY <1>15, DownloadAssumption DEF Kill, work, request, watchdog, clock, TypeOK, Assets, Contents, Idle
<1> QED
  BY <1>1, <1>2, <1>3, <1>4, <1>5, <1>6, <1>7, <1>8, <1>9, <1>10, <1>11, <1>12, <1>13, <1>14, <1>15
     DEF Next, Transfer, Proceed

\* Every step keeps what is on the disk and what was said of it in step.
LEMMA FilesNext == TypeOK /\ FileParts /\ [Next]_vars => FileParts'
<1> SUFFICES ASSUME TypeOK, FileParts, [Next]_vars PROVE FileParts'
  OBVIOUS
<1>1. CASE UNCHANGED vars
  BY <1>1
     DEF vars, work, request, watchdog, clock, FileParts, FilesAreTheRuns, SignatureComesLast,
         VerdictIsLast, ArtifactIsVerified, NothingLeftBehind, Temp, Idle, TypeOK, Assets
<1>2. CASE Fetch
  BY <1>2
     DEF Fetch, Ask, SweepTemp, Temp, work, request, watchdog, clock, FileParts, FilesAreTheRuns,
         SignatureComesLast, VerdictIsLast, ArtifactIsVerified, NothingLeftBehind, Temp, Idle, TypeOK,
         Assets
<1>3. CASE Do
  BY <1>3
     DEF Do, Watch, allowURL, work, request, watchdog, clock, FileParts, FilesAreTheRuns,
         SignatureComesLast, VerdictIsLast, ArtifactIsVerified, NothingLeftBehind, Temp, Idle, TypeOK,
         Assets
<1>4. CASE DoFails
  BY <1>4
     DEF DoFails, fail, work, request, watchdog, clock, FileParts, FilesAreTheRuns, SignatureComesLast,
         VerdictIsLast, ArtifactIsVerified, NothingLeftBehind, Temp, Idle, TypeOK, Assets
<1>5. CASE Read
  BY <1>5
     DEF Read, work, request, watchdog, clock, FileParts, FilesAreTheRuns, SignatureComesLast,
         VerdictIsLast, ArtifactIsVerified, NothingLeftBehind, Temp, Idle, TypeOK, Assets
<1>6. CASE CopyEnds
  BY <1>6
     DEF CopyEnds, fail, Leave, work, request, watchdog, clock, FileParts, FilesAreTheRuns,
         SignatureComesLast, VerdictIsLast, ArtifactIsVerified, NothingLeftBehind, Temp, Idle, TypeOK,
         Assets
<1>7. CASE CopyFailed
  BY <1>7
     DEF CopyFailed, fail, work, request, watchdog, clock, FileParts, FilesAreTheRuns, SignatureComesLast,
         VerdictIsLast, ArtifactIsVerified, NothingLeftBehind, Temp, Idle, TypeOK, Assets
<1>8. CASE KeepBinary
  BY <1>8
     DEF KeepBinary, Ask, fail, Rest, work, request, watchdog, clock, FileParts, FilesAreTheRuns,
         SignatureComesLast, VerdictIsLast, ArtifactIsVerified, NothingLeftBehind, Temp, Idle, TypeOK,
         Assets
<1>9. CASE KeepSums
  BY <1>9
     DEF KeepSums, Then, fail, Rest, work, request, watchdog, clock, FileParts, FilesAreTheRuns,
         SignatureComesLast, VerdictIsLast, ArtifactIsVerified, NothingLeftBehind, Temp, Idle, TypeOK,
         Assets
<1>10. CASE Compare
  BY <1>10
     DEF Compare, Ask, fail, Rest, work, request, watchdog, clock, FileParts, FilesAreTheRuns,
         SignatureComesLast, VerdictIsLast, ArtifactIsVerified, NothingLeftBehind, Temp, Idle, TypeOK,
         Assets
<1>11. CASE verifySignature
  BY <1>11
     DEF verifySignature, fail, Rest, work, request, watchdog, clock, FileParts, FilesAreTheRuns,
         SignatureComesLast, VerdictIsLast, ArtifactIsVerified, NothingLeftBehind, Temp, Idle, TypeOK,
         Assets
<1>12. CASE Server
  BY <1>12
     DEF Server, work, request, watchdog, clock, FileParts, FilesAreTheRuns, SignatureComesLast,
         VerdictIsLast, ArtifactIsVerified, NothingLeftBehind, Temp, Idle, TypeOK, Assets
<1>13. CASE Dog
  BY <1>13
     DEF Dog, Fire, Wake, work, request, watchdog, clock, FileParts, FilesAreTheRuns, SignatureComesLast,
         VerdictIsLast, ArtifactIsVerified, NothingLeftBehind, Temp, Idle, TypeOK, Assets
<1>14. CASE Tick
  BY <1>14
     DEF Tick, work, request, watchdog, clock, FileParts, FilesAreTheRuns, SignatureComesLast,
         VerdictIsLast, ArtifactIsVerified, NothingLeftBehind, Temp, Idle, TypeOK, Assets
<1>15. CASE Kill
  BY <1>15
     DEF Kill, work, request, watchdog, clock, FileParts, FilesAreTheRuns, SignatureComesLast,
         VerdictIsLast, ArtifactIsVerified, NothingLeftBehind, Temp, Idle, TypeOK, Assets
<1> QED
  BY <1>1, <1>2, <1>3, <1>4, <1>5, <1>6, <1>7, <1>8, <1>9, <1>10, <1>11, <1>12, <1>13, <1>14, <1>15
     DEF Next, Transfer, Proceed

\* Every step keeps the watchdog honest.
LEMMA StallNext == TypeOK /\ WatchdogParts /\ [Next]_vars => WatchdogParts'
<1> SUFFICES ASSUME TypeOK, WatchdogParts, [Next]_vars PROVE WatchdogParts'
  OBVIOUS
<1>1. CASE UNCHANGED vars
  BY <1>1
     DEF vars, work, request, watchdog, clock, WatchdogParts, TypeOK, TimerIsHonest, CancelledMeansQuiet,
         Transferring, Idle
<1>2. CASE Fetch
  BY <1>2, DownloadAssumption
     DEF Fetch, Ask, SweepTemp, Temp, work, request, watchdog, clock, WatchdogParts, TypeOK,
         TimerIsHonest, CancelledMeansQuiet, Transferring, Idle
<1>3. CASE Do
  BY <1>3, DownloadAssumption
     DEF Do, Watch, allowURL, work, request, watchdog, clock, WatchdogParts, TypeOK, TimerIsHonest,
         CancelledMeansQuiet, Transferring, Idle
<1>4. CASE DoFails
  BY <1>4, DownloadAssumption
     DEF DoFails, fail, work, request, watchdog, clock, WatchdogParts, TypeOK, TimerIsHonest,
         CancelledMeansQuiet, Transferring, Idle
<1>5. CASE Read
  BY <1>5, DownloadAssumption
     DEF Read, work, request, watchdog, clock, WatchdogParts, TypeOK, TimerIsHonest, CancelledMeansQuiet,
         Transferring, Idle
<1>6. CASE CopyEnds
  BY <1>6, DownloadAssumption
     DEF CopyEnds, fail, Leave, work, request, watchdog, clock, WatchdogParts, TypeOK, TimerIsHonest,
         CancelledMeansQuiet, Transferring, Idle
<1>7. CASE CopyFailed
  BY <1>7, DownloadAssumption
     DEF CopyFailed, fail, work, request, watchdog, clock, WatchdogParts, TypeOK, TimerIsHonest,
         CancelledMeansQuiet, Transferring, Idle
<1>8. CASE KeepBinary
  BY <1>8, DownloadAssumption
     DEF KeepBinary, Ask, fail, Rest, work, request, watchdog, clock, WatchdogParts, TypeOK,
         TimerIsHonest, CancelledMeansQuiet, Transferring, Idle
<1>9. CASE KeepSums
  BY <1>9, DownloadAssumption
     DEF KeepSums, Then, fail, Rest, work, request, watchdog, clock, WatchdogParts, TypeOK, TimerIsHonest,
         CancelledMeansQuiet, Transferring, Idle
<1>10. CASE Compare
  BY <1>10, DownloadAssumption
     DEF Compare, Ask, fail, Rest, work, request, watchdog, clock, WatchdogParts, TypeOK, TimerIsHonest,
         CancelledMeansQuiet, Transferring, Idle
<1>11. CASE verifySignature
  BY <1>11, DownloadAssumption
     DEF verifySignature, fail, Rest, work, request, watchdog, clock, WatchdogParts, TypeOK,
         TimerIsHonest, CancelledMeansQuiet, Transferring, Idle
<1>12. CASE Server
  BY <1>12, DownloadAssumption
     DEF Server, work, request, watchdog, clock, WatchdogParts, TypeOK, TimerIsHonest,
         CancelledMeansQuiet, Transferring, Idle
<1>13. CASE Dog
  BY <1>13, DownloadAssumption
     DEF Dog, Fire, Wake, work, request, watchdog, clock, WatchdogParts, TypeOK, TimerIsHonest,
         CancelledMeansQuiet, Transferring, Idle
<1>14. CASE Tick
  BY <1>14, DownloadAssumption
     DEF Tick, work, request, watchdog, clock, WatchdogParts, TypeOK, TimerIsHonest, CancelledMeansQuiet,
         Transferring, Idle
<1>15. CASE Kill
  BY <1>15, DownloadAssumption
     DEF Kill, work, request, watchdog, clock, WatchdogParts, TypeOK, TimerIsHonest, CancelledMeansQuiet,
         Transferring, Idle
<1> QED
  BY <1>1, <1>2, <1>3, <1>4, <1>5, <1>6, <1>7, <1>8, <1>9, <1>10, <1>11, <1>12, <1>13, <1>14, <1>15
     DEF Next, Transfer, Proceed

\* The invariant holds initially: no run, no file.
LEMMA InvInit == Init => Inv
<1> SUFFICES ASSUME Init PROVE Inv
  OBVIOUS
<1>1. TypeOK
  BY RequestTypes, DownloadAssumption DEF Init, TypeOK, Assets, Contents
<1>2. FileParts /\ WatchdogParts
  BY DEF Init, FileParts, FilesAreTheRuns, SignatureComesLast, VerdictIsLast, ArtifactIsVerified,
     NothingLeftBehind, WatchdogParts, TimerIsHonest, CancelledMeansQuiet, Transferring, Idle
<1> QED
  BY <1>1, <1>2 DEF Inv

\* The invariant holds in every reachable state.
LEMMA InvAlways == Spec => []Inv
<1>1. Inv /\ [Next]_vars => Inv'
  BY TypeNext, FilesNext, StallNext DEF Inv
<1> QED
  BY <1>1, InvInit, PTL DEF Spec

----------------------------------------------------------------------------
\* The variables keep their types.
THEOREM DownloadTypeCorrect == Spec => []TypeOK
<1>1. Inv => TypeOK
  BY DEF Inv
<1> QED
  BY <1>1, InvAlways, PTL

\* Whatever the servers send, redirect to or leave out, and wherever earlier
\* runs were killed, an artifact that is handed on is verified and there.
THEOREM ArtifactIsVerifiedAlways == Spec => []ArtifactIsVerified
<1>1. Inv => ArtifactIsVerified
  BY DEF Inv, FileParts
<1> QED
  BY <1>1, InvAlways, PTL

\* A run that returned leaves what it returned and nothing else.
THEOREM NothingLeftBehindAlways == Spec => []NothingLeftBehind
<1>1. Inv => NothingLeftBehind
  BY DEF Inv, FileParts
<1> QED
  BY <1>1, InvAlways, PTL

\* A stall is said of a transfer exactly when the watchdog gave it up, and only
\* after nothing had arrived for stallTimeout, for any timeout and any server.
THEOREM StallIsTrueAlways == Spec => StallIsTrue
<1> DEFINE Said == /\ outcome' = "stalled" /\ outcome # "stalled" => longest >= Stall
                   /\ pc = "cancelled" /\ pc' = "idle" => outcome' = "stalled"
<1>1. Inv /\ [Next]_vars => [Said]_vars
  <2> SUFFICES ASSUME Inv, Next PROVE Said
    OBVIOUS
  <2>1. outcome' = "stalled" => outcome = "stalled" \/ CopyFailed
    BY DEF Next, Transfer, Proceed, Fetch, Ask, Do, DoFails, fail, Read, CopyEnds, Leave, KeepBinary,
       KeepSums, Then, Compare, verifySignature, Server, Dog, Tick, Kill
  <2>2. pc = "cancelled" /\ pc' = "idle" => CopyFailed
    BY DEF Next, Transfer, Proceed, Fetch, Idle, Do, DoFails, Read, CopyEnds, KeepBinary, KeepSums,
       Compare, verifySignature, Server, Dog, Tick, Kill
  <2>3. CopyFailed /\ outcome' = "stalled" => longest >= Stall
    BY DEF Inv, WatchdogParts, TimerIsHonest, Transferring, CopyFailed, fail
  <2>4. CopyFailed /\ pc = "cancelled" => outcome' = "stalled"
    BY DEF Inv, WatchdogParts, CancelledMeansQuiet, CopyFailed, fail
  <2> QED
    BY <2>1, <2>2, <2>3, <2>4
<1> QED
  BY <1>1, InvAlways, PTL DEF Spec, StallIsTrue
=============================================================================
