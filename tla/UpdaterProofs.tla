---------------------------- MODULE UpdaterProofs ----------------------------
(***************************************************************************)
(* Proofs about `dokkup update`, for any set of releases, of versions that *)
(* come up, of copies that ask, of faults, and any number of updates.      *)
(***************************************************************************)
EXTENDS Updater, TLAPS

TypeOK ==
    /\ binary \in Versions /\ replaced \in Versions
    /\ previous \in Versions \cup {Nothing} /\ image \in Versions \cup {Nothing}
    /\ download \in [Updates -> Versions \cup {Nothing, Partial}]
    /\ pc \in [Updates -> Working \cup {"idle", "ended"}]
    /\ running \in [Updates -> Versions] /\ target \in [Updates -> Versions]
    /\ heard \in [Updates -> Versions \cup {Nothing}]
    /\ outcome \in [Updates -> {"none", "nothingToDo", "refused", "error", "updated",
                                "rolledBack", "rollbackFailed", "killed"}]
    /\ answering \in BOOLEAN /\ gaveUp \in BOOLEAN /\ alone \in BOOLEAN /\ healthy \in BOOLEAN

----------------------------------------------------------------------------
(* What the executable rests on: between verification and the rename there *)
(* is a verified release in an update's download or, when another update's *)
(* sweep took it, nothing; never a partial file.                           *)

BeforeSwap == {"fetch", "verify", "clear", "keep", "install"}

DownloadIsVerified ==
    \A u \in Updates :
        /\ pc[u] = "verify" => download[u] \in {Partial, Nothing}
        /\ pc[u] \in {"clear", "keep", "install"} => download[u] \in {target[u], Nothing}
        /\ pc[u] \in Working => target[u] \in Releases

(* What the way back rests on, while no two updates ran at once: which of  *)
(* the two names holds the old version, and which the new one, at each     *)
(* point of the swap and of the rollback.                                  *)

OneAtATime ==
    alone => \A u, w \in Updates : pc[u] \in Working /\ pc[w] \in Working => u = w

NamesHoldVersions ==
    alone => \A u \in Updates :
        /\ pc[u] \in BeforeSwap => binary = replaced
        /\ pc[u] \in {"install", "restart", "wait", "restore"} => previous = replaced
        /\ pc[u] \in {"restart", "wait"} => binary = target[u]
        /\ pc[u] \in {"restartBack", "waitBack"} => binary = replaced

(* On a sound host the version put back, when it is one that comes up, is  *)
(* the one running while the update waits for it.                          *)

PutBackRuns ==
    healthy /\ alone /\ replaced \in Sound =>
        \A u \in Updates : pc[u] = "waitBack" => image = replaced

\* The inductive invariant.
Inv ==
    /\ TypeOK /\ DownloadIsVerified /\ OneAtATime /\ NamesHoldVersions
    /\ PutBackRuns /\ WayBackIsKept

----------------------------------------------------------------------------
\* What an update's beginning does to the updates: it moves only its own, to
\* the download or to the end, and is alone only when no other was at work.
LEMMA BeginIsAlone ==
    ASSUME TypeOK, NEW u \in Updates, Begin(u)
    PROVE  /\ alone' => alone /\ \A w \in Updates : pc[w] \notin Working
           /\ \A w \in Updates \ {u} : pc'[w] = pc[w]
           /\ pc'[u] \in {"fetch", "ended"}
           /\ binary' = binary /\ replaced' = binary
<1>1. alone' => alone /\ \A w \in Updates : pc[w] \notin Working
  BY Zenon DEF Begin
<1>2. \/ pc' = [pc EXCEPT ![u] = "fetch"]
      \/ pc' = [pc EXCEPT ![u] = "ended"]
  BY DEF Begin, Goto, End
<1>3. binary' = binary /\ replaced' = binary
  BY DEF Begin, files
<1>. QED
  BY <1>1, <1>2, <1>3 DEF TypeOK

\* Every step keeps the types; the binary among them because what is renamed
\* to its name is a download past verification, or the copy beside it.
LEMMA TypesArePreserved ==
    ASSUME Inv, [Next]_vars
    PROVE  TypeOK'
<1>. USE UpdaterAssumption DEF Inv, TypeOK, DownloadIsVerified, Versions, Working
<1>1. CASE UNCHANGED vars
  BY <1>1 DEF vars, files, unit, run
<1>2. ASSUME NEW u \in Updates, Begin(u) \/ Step(u) \/ Kill(u)
      PROVE  TypeOK'
  <2>1. CASE Begin(u)
    BY <2>1 DEF Begin, files, unit, Goto, End, MayFail
  <2>2. CASE CreateTemp(u)
    BY <2>2 DEF CreateTemp, unit, run, Goto, End, MayFail
  <2>3. CASE Verify(u)
    BY <2>3 DEF Verify, unit, run, Goto, End, MayFail
  <2>4. CASE ClearPrevious(u)
    BY <2>4 DEF ClearPrevious, unit, run, Goto, End, Abandon, MayFail
  <2>5. CASE KeepPrevious(u)
    BY <2>5 DEF KeepPrevious, unit, run, Goto, End, Abandon, MayFail
  <2>6. CASE Install(u)
    BY <2>6 DEF Install, unit, run, Goto, End, Abandon, MayFail
  <2>7. CASE RestartNew(u)
    <3>1. UNCHANGED <<files, run>>
      BY <2>7 DEF RestartNew
    <3>2. image' \in Versions \cup {Nothing} /\ answering' \in BOOLEAN /\ gaveUp' \in BOOLEAN
      BY <2>7 DEF RestartNew, restart, MayFail
    <3>3. /\ pc' \in [Updates -> Working \cup {"idle", "ended"}]
          /\ outcome' \in [Updates -> {"none", "nothingToDo", "refused", "error", "updated",
                                     "rolledBack", "rollbackFailed", "killed"}]
      BY <2>7 DEF RestartNew, Goto, End
    <3>. QED
      BY <3>1, <3>2, <3>3 DEF files, run
  <2>8. CASE WaitNew(u)
    BY <2>8
       DEF WaitNew, files, unit, waitHealthy, probe, Serving, TimedOut, SameVersion, Goto,
           End, MayFail
  <2>9. CASE Restore(u)
    BY <2>9 DEF Restore, unit, run, Goto, End, MayFail
  <2>10. CASE RestartBack(u)
    <3>1. UNCHANGED <<files, run>>
      BY <2>10 DEF RestartBack
    <3>2. image' \in Versions \cup {Nothing} /\ answering' \in BOOLEAN /\ gaveUp' \in BOOLEAN
      BY <2>10 DEF RestartBack, restart, MayFail
    <3>3. /\ pc' \in [Updates -> Working \cup {"idle", "ended"}]
          /\ outcome' \in [Updates -> {"none", "nothingToDo", "refused", "error", "updated",
                                     "rolledBack", "rollbackFailed", "killed"}]
      BY <2>10 DEF RestartBack, Goto, End
    <3>. QED
      BY <3>1, <3>2, <3>3 DEF files, run
  <2>11. CASE WaitBack(u)
    BY <2>11
       DEF WaitBack, files, unit, waitHealthy, probe, Serving, TimedOut, SameVersion, Goto,
           End, MayFail
  <2>12. CASE Kill(u)
    BY <2>12 DEF Kill, files, unit, run, End
  <2>. QED
    BY <1>2, <2>1, <2>2, <2>3, <2>4, <2>5, <2>6, <2>7, <2>8, <2>9, <2>10, <2>11, <2>12
       DEF Step
<1>3. CASE ComeUp
  BY <1>3 DEF ComeUp, files, run
<1>4. CASE Die
  BY <1>4 DEF Die, files, run, MayFail
<1>5. CASE Respawn
  BY <1>5 DEF Respawn, files, run
<1>. QED
  BY <1>1, <1>2, <1>3, <1>4, <1>5 DEF Next

\* A sweep by another update takes a download away; nothing makes one of
\* another update's partial.
LEMMA DownloadsArePreserved ==
    ASSUME Inv, [Next]_vars
    PROVE  DownloadIsVerified'
<1>. USE UpdaterAssumption DEF Inv, TypeOK, DownloadIsVerified, Versions, Working
<1>1. CASE UNCHANGED vars
  BY <1>1 DEF vars, files, unit, run
<1>2. ASSUME NEW u \in Updates, Begin(u) \/ Step(u) \/ Kill(u)
      PROVE  DownloadIsVerified'
  <2>1. CASE Begin(u)
    BY <2>1 DEF Begin, files, unit, Goto, End, MayFail
  <2>2. CASE CreateTemp(u)
    BY <2>2 DEF CreateTemp, unit, run, Goto, End, MayFail
  <2>3. CASE Verify(u)
    BY <2>3 DEF Verify, unit, run, Goto, End, MayFail
  <2>4. CASE ClearPrevious(u)
    BY <2>4 DEF ClearPrevious, unit, run, Goto, End, Abandon, MayFail
  <2>5. CASE KeepPrevious(u)
    BY <2>5 DEF KeepPrevious, unit, run, Goto, End, Abandon, MayFail
  <2>6. CASE Install(u)
    BY <2>6 DEF Install, unit, run, Goto, End, Abandon, MayFail
  <2>7. CASE RestartNew(u)
    BY <2>7 DEF RestartNew, files, run, Goto, End, restart, MayFail
  <2>8. CASE WaitNew(u)
    BY <2>8
       DEF WaitNew, files, unit, waitHealthy, probe, Serving, TimedOut, SameVersion, Goto,
           End, MayFail
  <2>9. CASE Restore(u)
    BY <2>9 DEF Restore, unit, run, Goto, End, MayFail
  <2>10. CASE RestartBack(u)
    BY <2>10 DEF RestartBack, files, run, Goto, End, restart, MayFail
  <2>11. CASE WaitBack(u)
    BY <2>11
       DEF WaitBack, files, unit, waitHealthy, probe, Serving, TimedOut, SameVersion, Goto,
           End, MayFail
  <2>12. CASE Kill(u)
    BY <2>12 DEF Kill, files, unit, run, End
  <2>. QED
    BY <1>2, <2>1, <2>2, <2>3, <2>4, <2>5, <2>6, <2>7, <2>8, <2>9, <2>10, <2>11, <2>12
       DEF Step
<1>3. CASE ComeUp
  BY <1>3 DEF ComeUp, files, run
<1>4. CASE Die
  BY <1>4 DEF Die, files, run, MayFail
<1>5. CASE Respawn
  BY <1>5 DEF Respawn, files, run
<1>. QED
  BY <1>1, <1>2, <1>3, <1>4, <1>5 DEF Next

\* An update that begins beside another clears `alone`.
LEMMA OneAtATimeIsPreserved ==
    ASSUME Inv, [Next]_vars
    PROVE  OneAtATime'
<1>. USE UpdaterAssumption DEF Inv, TypeOK, OneAtATime, Working
<1>1. CASE UNCHANGED vars
  BY <1>1 DEF vars, files, unit, run
<1>2. ASSUME NEW u \in Updates, Begin(u) \/ Step(u) \/ Kill(u)
      PROVE  OneAtATime'
  <2>1. CASE Begin(u)
    BY <2>1, BeginIsAlone
  <2>2. CASE CreateTemp(u)
    BY <2>2 DEF CreateTemp, unit, run, Goto, End, MayFail
  <2>3. CASE Verify(u)
    BY <2>3 DEF Verify, unit, run, Goto, End, MayFail
  <2>4. CASE ClearPrevious(u)
    BY <2>4 DEF ClearPrevious, unit, run, Goto, End, Abandon, MayFail
  <2>5. CASE KeepPrevious(u)
    BY <2>5 DEF KeepPrevious, unit, run, Goto, End, Abandon, MayFail
  <2>6. CASE Install(u)
    BY <2>6 DEF Install, unit, run, Goto, End, Abandon, MayFail
  <2>7. CASE RestartNew(u)
    BY <2>7 DEF RestartNew, files, run, Goto, End, restart, MayFail
  <2>8. CASE WaitNew(u)
    BY <2>8
       DEF WaitNew, files, unit, waitHealthy, probe, Serving, TimedOut, SameVersion, Goto,
           End, MayFail
  <2>9. CASE Restore(u)
    BY <2>9 DEF Restore, unit, run, Goto, End, MayFail
  <2>10. CASE RestartBack(u)
    BY <2>10 DEF RestartBack, files, run, Goto, End, restart, MayFail
  <2>11. CASE WaitBack(u)
    BY <2>11
       DEF WaitBack, files, unit, waitHealthy, probe, Serving, TimedOut, SameVersion, Goto,
           End, MayFail
  <2>12. CASE Kill(u)
    BY <2>12 DEF Kill, files, unit, run, End
  <2>. QED
    BY <1>2, <2>1, <2>2, <2>3, <2>4, <2>5, <2>6, <2>7, <2>8, <2>9, <2>10, <2>11, <2>12
       DEF Step
<1>3. CASE ComeUp
  BY <1>3 DEF ComeUp, files, run
<1>4. CASE Die
  BY <1>4 DEF Die, files, run, MayFail
<1>5. CASE Respawn
  BY <1>5 DEF Respawn, files, run
<1>. QED
  BY <1>1, <1>2, <1>3, <1>4, <1>5 DEF Next

\* The swap and the rollback, name by name.
LEMMA NamesArePreserved ==
    ASSUME Inv, [Next]_vars
    PROVE  NamesHoldVersions'
<1>. USE UpdaterAssumption DEF Inv, TypeOK, DownloadIsVerified, OneAtATime,
                            NamesHoldVersions, BeforeSwap, Working, Versions
<1>1. CASE UNCHANGED vars
  BY <1>1 DEF vars, files, unit, run
<1>2. ASSUME NEW u \in Updates, Begin(u) \/ Step(u) \/ Kill(u)
      PROVE  NamesHoldVersions'
  <2>1. CASE Begin(u)
    BY <2>1, BeginIsAlone
  <2>2. CASE CreateTemp(u)
    BY <2>2 DEF CreateTemp, unit, run, Goto, End, MayFail
  <2>3. CASE Verify(u)
    BY <2>3 DEF Verify, unit, run, Goto, End, MayFail
  <2>4. CASE ClearPrevious(u)
    BY <2>4 DEF ClearPrevious, unit, run, Goto, End, Abandon, MayFail
  <2>5. CASE KeepPrevious(u)
    BY <2>5 DEF KeepPrevious, unit, run, Goto, End, Abandon, MayFail
  <2>6. CASE Install(u)
    BY <2>6 DEF Install, unit, run, Goto, End, Abandon, MayFail
  <2>7. CASE RestartNew(u)
    BY <2>7 DEF RestartNew, files, run, Goto, End, restart, MayFail
  <2>8. CASE WaitNew(u)
    BY <2>8
       DEF WaitNew, files, unit, waitHealthy, probe, Serving, TimedOut, SameVersion, Goto,
           End, MayFail
  <2>9. CASE Restore(u)
    BY <2>9 DEF Restore, unit, run, Goto, End, MayFail
  <2>10. CASE RestartBack(u)
    BY <2>10 DEF RestartBack, files, run, Goto, End, restart, MayFail
  <2>11. CASE WaitBack(u)
    BY <2>11
       DEF WaitBack, files, unit, waitHealthy, probe, Serving, TimedOut, SameVersion, Goto,
           End, MayFail
  <2>12. CASE Kill(u)
    BY <2>12 DEF Kill, files, unit, run, End
  <2>. QED
    BY <1>2, <2>1, <2>2, <2>3, <2>4, <2>5, <2>6, <2>7, <2>8, <2>9, <2>10, <2>11, <2>12
       DEF Step
<1>3. CASE ComeUp
  BY <1>3 DEF ComeUp, files, run
<1>4. CASE Die
  BY <1>4 DEF Die, files, run, MayFail
<1>5. CASE Respawn
  BY <1>5 DEF Respawn, files, run
<1>. QED
  BY <1>1, <1>2, <1>3, <1>4, <1>5 DEF Next

\* A version that comes up does not die on a sound host, and no restart of
\* another update follows.
LEMMA PutBackIsPreserved ==
    ASSUME Inv, [Next]_vars
    PROVE  PutBackRuns'
<1>. USE UpdaterAssumption DEF Inv, TypeOK, OneAtATime, NamesHoldVersions, PutBackRuns,
                            Working, Versions
<1>1. CASE UNCHANGED vars
  BY <1>1 DEF vars, files, unit, run
<1>2. ASSUME NEW u \in Updates, Begin(u) \/ Step(u) \/ Kill(u)
      PROVE  PutBackRuns'
  <2>1. CASE Begin(u)
    BY <2>1 DEF Begin, files, unit, Goto, End, MayFail
  <2>2. CASE CreateTemp(u)
    BY <2>2 DEF CreateTemp, unit, run, Goto, End, MayFail
  <2>3. CASE Verify(u)
    BY <2>3 DEF Verify, unit, run, Goto, End, MayFail
  <2>4. CASE ClearPrevious(u)
    BY <2>4 DEF ClearPrevious, unit, run, Goto, End, Abandon, MayFail
  <2>5. CASE KeepPrevious(u)
    BY <2>5 DEF KeepPrevious, unit, run, Goto, End, Abandon, MayFail
  <2>6. CASE Install(u)
    BY <2>6 DEF Install, unit, run, Goto, End, Abandon, MayFail
  <2>7. CASE RestartNew(u)
    BY <2>7 DEF RestartNew, files, run, Goto, End, restart, MayFail
  <2>8. CASE WaitNew(u)
    BY <2>8
       DEF WaitNew, files, unit, waitHealthy, probe, Serving, TimedOut, SameVersion, Goto,
           End, MayFail
  <2>9. CASE Restore(u)
    BY <2>9 DEF Restore, unit, run, Goto, End, MayFail
  <2>10. CASE RestartBack(u)
    BY <2>10 DEF RestartBack, files, run, Goto, End, restart, MayFail
  <2>11. CASE WaitBack(u)
    BY <2>11
       DEF WaitBack, files, unit, waitHealthy, probe, Serving, TimedOut, SameVersion, Goto,
           End, MayFail
  <2>12. CASE Kill(u)
    BY <2>12 DEF Kill, files, unit, run, End
  <2>. QED
    BY <1>2, <2>1, <2>2, <2>3, <2>4, <2>5, <2>6, <2>7, <2>8, <2>9, <2>10, <2>11, <2>12
       DEF Step
<1>3. CASE ComeUp
  BY <1>3 DEF ComeUp, files, run
<1>4. CASE Die
  BY <1>4 DEF Die, files, run, MayFail
<1>5. CASE Respawn
  BY <1>5 DEF Respawn, files, run
<1>. QED
  BY <1>1, <1>2, <1>3, <1>4, <1>5 DEF Next

\* No call of the swap or the rollback gives up the only name of the version
\* the update began with.
LEMMA WayBackIsPreserved ==
    ASSUME Inv, [Next]_vars
    PROVE  WayBackIsKept'
<1>. USE UpdaterAssumption DEF Inv, TypeOK, OneAtATime, NamesHoldVersions, WayBackIsKept,
                            BeforeSwap, Working
<1>1. CASE UNCHANGED vars
  BY <1>1 DEF vars, files, unit, run
<1>2. ASSUME NEW u \in Updates, Begin(u) \/ Step(u) \/ Kill(u)
      PROVE  WayBackIsKept'
  <2>1. CASE Begin(u)
    BY <2>1 DEF Begin, files, unit, Goto, End, MayFail
  <2>2. CASE CreateTemp(u)
    BY <2>2 DEF CreateTemp, unit, run, Goto, End, MayFail
  <2>3. CASE Verify(u)
    BY <2>3 DEF Verify, unit, run, Goto, End, MayFail
  <2>4. CASE ClearPrevious(u)
    BY <2>4 DEF ClearPrevious, unit, run, Goto, End, Abandon, MayFail
  <2>5. CASE KeepPrevious(u)
    BY <2>5 DEF KeepPrevious, unit, run, Goto, End, Abandon, MayFail
  <2>6. CASE Install(u)
    BY <2>6 DEF Install, unit, run, Goto, End, Abandon, MayFail
  <2>7. CASE RestartNew(u)
    BY <2>7 DEF RestartNew, files, run, Goto, End, restart, MayFail
  <2>8. CASE WaitNew(u)
    BY <2>8
       DEF WaitNew, files, unit, waitHealthy, probe, Serving, TimedOut, SameVersion, Goto,
           End, MayFail
  <2>9. CASE Restore(u)
    BY <2>9 DEF Restore, unit, run, Goto, End, MayFail
  <2>10. CASE RestartBack(u)
    BY <2>10 DEF RestartBack, files, run, Goto, End, restart, MayFail
  <2>11. CASE WaitBack(u)
    BY <2>11
       DEF WaitBack, files, unit, waitHealthy, probe, Serving, TimedOut, SameVersion, Goto,
           End, MayFail
  <2>12. CASE Kill(u)
    BY <2>12 DEF Kill, files, unit, run, End
  <2>. QED
    BY <1>2, <2>1, <2>2, <2>3, <2>4, <2>5, <2>6, <2>7, <2>8, <2>9, <2>10, <2>11, <2>12
       DEF Step
<1>3. CASE ComeUp
  BY <1>3 DEF ComeUp, files, run
<1>4. CASE Die
  BY <1>4 DEF Die, files, run, MayFail
<1>5. CASE Respawn
  BY <1>5 DEF Respawn, files, run
<1>. QED
  BY <1>1, <1>2, <1>3, <1>4, <1>5 DEF Next

----------------------------------------------------------------------------
(* The theorems.                                                           *)

\* Every reachable state satisfies the inductive invariant.
LEMMA InvAlways == Spec => []Inv
<1>1. Init => Inv
  <2>. SUFFICES ASSUME Init PROVE Inv
    OBVIOUS
  <2>. USE UpdaterAssumption DEF Init
  <2>1. TypeOK
    BY DEF TypeOK, Versions
  <2>2. DownloadIsVerified /\ OneAtATime /\ NamesHoldVersions /\ PutBackRuns
    BY DEF DownloadIsVerified, OneAtATime, NamesHoldVersions, PutBackRuns, BeforeSwap,
       Working
  <2>3. WayBackIsKept
    BY DEF WayBackIsKept
  <2>. QED
    BY <2>1, <2>2, <2>3 DEF Inv
<1>2. Inv /\ [Next]_vars => Inv'
  BY TypesArePreserved, DownloadsArePreserved, OneAtATimeIsPreserved, NamesArePreserved,
     PutBackIsPreserved, WayBackIsPreserved DEF Inv
<1>. QED
  BY <1>1, <1>2, PTL DEF Spec

\* Whatever is killed, fails or runs at once, there is a whole, verified
\* executable at the path (swap renames a verified download onto the name).
THEOREM BinaryIsWholeAlways == Spec => []BinaryIsWhole
<1>1. Inv => BinaryIsWhole
  BY DEF Inv, TypeOK, BinaryIsWhole
<1>. QED
  BY <1>1, InvAlways, PTL

\* An update alone on its host never gives up the version it began with (swap
\* and rollback), wherever it is killed.
THEOREM WayBackIsKeptAlways == Spec => []WayBackIsKept
<1>1. Inv => WayBackIsKept
  BY DEF Inv
<1>. QED
  BY <1>1, InvAlways, PTL

\* The exit codes 0, 4 and 1 of an update alone on its host say what is
\* installed and what answers.
THEOREM ExitCodesAreTrueAlways == Spec => ExitCodesAreTrue
<1>. DEFINE Told ==
       \A u \in Updates : alone /\ outcome[u] = "none" =>
         /\ outcome'[u] = "updated" =>
              binary' = target[u] /\ heard'[u] = target[u] /\ image' = binary'
         /\ outcome'[u] = "rolledBack" /\ running[u] = replaced =>
              binary' = replaced' /\ heard'[u] = running[u] /\ image' = binary'
         /\ outcome'[u] \in {"nothingToDo", "refused", "error"} => binary' = replaced'
<1>1. ASSUME Inv, Next
      PROVE  Told
  <2>. USE UpdaterAssumption DEF Inv, TypeOK, DownloadIsVerified, NamesHoldVersions, BeforeSwap,
                                 Working, Versions
  <2>1. ASSUME NEW w \in Updates, Begin(w) \/ Step(w) \/ Kill(w)
        PROVE  Told
    <3>1. CASE Begin(w)
      BY <1>1, <3>1 DEF Begin, files, unit, Goto, End, MayFail
    <3>2. CASE CreateTemp(w)
      BY <1>1, <3>2 DEF CreateTemp, unit, run, Goto, End, MayFail
    <3>3. CASE Verify(w)
      BY <1>1, <3>3 DEF Verify, unit, run, Goto, End, MayFail
    <3>4. CASE ClearPrevious(w)
      BY <1>1, <3>4 DEF ClearPrevious, unit, run, Goto, End, Abandon, MayFail
    <3>5. CASE KeepPrevious(w)
      BY <1>1, <3>5 DEF KeepPrevious, unit, run, Goto, End, Abandon, MayFail
    <3>6. CASE Install(w)
      BY <1>1, <3>6 DEF Install, unit, run, Goto, End, Abandon, MayFail
    <3>7. CASE RestartNew(w)
      BY <1>1, <3>7 DEF RestartNew, files, run, Goto, End, restart, MayFail
    <3>8. CASE WaitNew(w)
      BY <1>1, <3>8
         DEF WaitNew, files, unit, waitHealthy, probe, Serving, TimedOut, SameVersion, Goto,
             End, MayFail
    <3>9. CASE Restore(w)
      BY <1>1, <3>9 DEF Restore, unit, run, Goto, End, MayFail
    <3>10. CASE RestartBack(w)
      BY <1>1, <3>10 DEF RestartBack, files, run, Goto, End, restart, MayFail
    <3>11. CASE WaitBack(w)
      BY <1>1, <3>11
         DEF WaitBack, files, unit, waitHealthy, probe, Serving, TimedOut, SameVersion,
             Goto, End, MayFail
    <3>12. CASE Kill(w)
      BY <1>1, <3>12 DEF Kill, files, unit, run, End
    <3>. QED
      BY <2>1, <3>1, <3>2, <3>3, <3>4, <3>5, <3>6, <3>7, <3>8, <3>9, <3>10, <3>11, <3>12
         DEF Step
  <2>2. CASE ComeUp \/ Die \/ Respawn
    BY <2>2 DEF ComeUp, Die, Respawn
  <2>. QED
    BY <1>1, <2>1, <2>2 DEF Next
<1>2. Inv /\ [Next]_vars => [Told]_vars
  BY <1>1
<1>. QED
  BY <1>2, InvAlways, PTL DEF Spec, ExitCodesAreTrue

\* On a sound host an update run from the installed binary, alone, that
\* replaced a version that comes up never exits with 5 (rollback).
THEOREM NoPersonNeededAlways == Spec => NoPersonNeeded
<1>. DEFINE Recovered ==
       \A u \in Updates :
         healthy /\ alone /\ outcome[u] = "none" /\ outcome'[u] = "rollbackFailed"
            /\ running[u] = replaced => replaced \notin Sound
<1>1. ASSUME Inv, Next
      PROVE  Recovered
  <2>. USE UpdaterAssumption DEF Inv, TypeOK, NamesHoldVersions, PutBackRuns, Working, Versions
  <2>1. ASSUME NEW w \in Updates, Begin(w) \/ Step(w) \/ Kill(w)
        PROVE  Recovered
    <3>1. CASE Begin(w)
      BY <1>1, <3>1 DEF Begin, files, unit, Goto, End, MayFail
    <3>2. CASE CreateTemp(w)
      BY <1>1, <3>2 DEF CreateTemp, unit, run, Goto, End, MayFail
    <3>3. CASE Verify(w)
      BY <1>1, <3>3 DEF Verify, unit, run, Goto, End, MayFail
    <3>4. CASE ClearPrevious(w)
      BY <1>1, <3>4 DEF ClearPrevious, unit, run, Goto, End, Abandon, MayFail
    <3>5. CASE KeepPrevious(w)
      BY <1>1, <3>5 DEF KeepPrevious, unit, run, Goto, End, Abandon, MayFail
    <3>6. CASE Install(w)
      BY <1>1, <3>6 DEF Install, unit, run, Goto, End, Abandon, MayFail
    <3>7. CASE RestartNew(w)
      BY <1>1, <3>7 DEF RestartNew, files, run, Goto, End, restart, MayFail
    <3>8. CASE WaitNew(w)
      BY <1>1, <3>8
         DEF WaitNew, files, unit, waitHealthy, probe, Serving, TimedOut, SameVersion, Goto,
             End, MayFail
    <3>9. CASE Restore(w)
      BY <1>1, <3>9 DEF Restore, unit, run, Goto, End, MayFail
    <3>10. CASE RestartBack(w)
      BY <1>1, <3>10 DEF RestartBack, files, run, Goto, End, restart, MayFail
    <3>11. CASE WaitBack(w)
      BY <1>1, <3>11
         DEF WaitBack, files, unit, waitHealthy, probe, Serving, TimedOut, SameVersion,
             Goto, End, MayFail
    <3>12. CASE Kill(w)
      BY <1>1, <3>12 DEF Kill, files, unit, run, End
    <3>. QED
      BY <2>1, <3>1, <3>2, <3>3, <3>4, <3>5, <3>6, <3>7, <3>8, <3>9, <3>10, <3>11, <3>12
         DEF Step
  <2>2. CASE ComeUp \/ Die \/ Respawn
    BY <2>2 DEF ComeUp, Die, Respawn
  <2>. QED
    BY <1>1, <2>1, <2>2 DEF Next
<1>2. Inv /\ [Next]_vars => [Recovered]_vars
  BY <1>1
<1>. QED
  BY <1>2, InvAlways, PTL DEF Spec, NoPersonNeeded
=============================================================================
