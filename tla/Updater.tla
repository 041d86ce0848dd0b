------------------------------ MODULE Updater ------------------------------
(***************************************************************************)
(* `dokkup update` (internal/cli/update.go) on one host: the executable,   *)
(* the copy kept beside it, the downloads beside both, and the service     *)
(* that systemd runs from whatever is at the path when it starts it.       *)
(*                                                                         *)
(* One action per call that changes the host, so that a kill, the death of *)
(* the service, systemd's own restart of it (Restart=on-failure) and       *)
(* another update fall between any two of them.  On a host that is not     *)
(* sound the calls named in Faults may fail; on a sound one nothing is at  *)
(* fault but a release.                                                    *)
(*                                                                         *)
(* A version is a natural number, compared as release.compare compares the *)
(* triples; Dev, older than every release, is any build that is none.      *)
(***************************************************************************)
EXTENDS Naturals

CONSTANTS
    Releases,     \* the published versions
    Sound,        \* the versions that come up when they are started
    Copies,       \* the versions of dokkup run from somewhere else
    Updates,      \* the runs of `dokkup update`
    Faults,       \* what may go wrong on this host
    Nothing,      \* no file, no process, no answer
    Partial       \* a download that is not verified yet

Dev == 0
Versions == Releases \cup {Dev}

ASSUME UpdaterAssumption ==
    /\ Releases \subseteq Nat \ {Dev}
    /\ Sound \subseteq Versions
    /\ Copies \subseteq Versions
    /\ Nothing \notin Versions /\ Partial \notin Versions /\ Nothing # Partial
    /\ Faults \subseteq {"resolve", "fetch", "remove", "link", "rename", "restart",
                         "silent", "reset", "probe", "slow", "die"}

VARIABLES
    binary,      \* what is at hostpaths.Binary
    previous,    \* what is at hostpaths.PreviousBinary
    download,    \* the temporary file of each update
    image,       \* the version the service process was started from
    answering,   \* whether it answers /api/health
    gaveUp,      \* whether systemd refuses to start the unit again
    pc,          \* where each update is
    running,     \* u.running: the version of the binary that runs it
    target,      \* the version it is to install
    heard,       \* the version that answered its last probe
    outcome,     \* how it ended
    replaced,    \* what was at the path when the last update began
    alone,       \* whether every update so far was alone on the host
    healthy      \* whether the host is sound

files == <<binary, previous, download>>
unit == <<image, answering, gaveUp>>
run == <<running, target, heard, replaced, alone, healthy>>
vars == <<files, unit, pc, run, outcome>>

MayFail(call) == ~healthy /\ call \in Faults

----------------------------------------------------------------------------
(* internal/release: how versions compare.                                 *)

IsRelease(v) == v # Dev
SameVersion(a, b) == a = b
Newer(a, b) == a > b

Working == {"fetch", "verify", "clear", "keep", "install", "restart", "wait",
            "restore", "restartBack", "waitBack"}
Serving == IF answering THEN image ELSE Nothing

Goto(u, s) == pc' = [pc EXCEPT ![u] = s] /\ UNCHANGED outcome
End(u, result) ==
    /\ pc' = [pc EXCEPT ![u] = "ended"]
    /\ outcome' = [outcome EXCEPT ![u] = result]

----------------------------------------------------------------------------
(* update: the decision, the sweep and the download.                       *)

\* The target is resolved, compared with the binary that asks, and what an
\* interrupted update left behind is swept, whoever's it is.
Begin(u) ==
    /\ pc[u] = "idle"
    /\ replaced' = binary
    /\ alone' = (alone /\ \A w \in Updates : pc[w] \notin Working)
    /\ \E asking \in {binary} \cup Copies, to \in Releases, allowDowngrade \in BOOLEAN :
         /\ running' = [running EXCEPT ![u] = asking]
         /\ target' = [target EXCEPT ![u] = to]
         /\ \/ /\ SameVersion(to, asking) /\ IsRelease(asking)
               /\ End(u, "nothingToDo")
               /\ UNCHANGED files
            \/ /\ IsRelease(asking) /\ ~SameVersion(to, asking)
               /\ ~Newer(to, asking) /\ ~allowDowngrade
               /\ End(u, "refused")
               /\ UNCHANGED files
            \/ /\ \/ ~IsRelease(asking)
                  \/ ~SameVersion(to, asking) /\ (Newer(to, asking) \/ allowDowngrade)
               /\ download' = [w \in Updates |-> Nothing]
               /\ Goto(u, "fetch")
               /\ UNCHANGED <<binary, previous>>
            \/ MayFail("resolve") /\ End(u, "error") /\ UNCHANGED files
    /\ UNCHANGED <<unit, heard, healthy>>

\* Fetch: a temporary file, then a verified binary in its place or nothing.
CreateTemp(u) ==
    /\ pc[u] = "fetch"
    /\ \/ /\ download' = [download EXCEPT ![u] = Partial]
          /\ Goto(u, "verify")
       \/ MayFail("fetch") /\ End(u, "error") /\ UNCHANGED download
    /\ UNCHANGED <<binary, previous, unit, run>>

Verify(u) ==
    /\ pc[u] = "verify"
    /\ \/ /\ download[u] = Partial
          /\ download' = [download EXCEPT ![u] = target[u]]
          /\ Goto(u, "clear")
       \/ /\ download[u] = Nothing \/ MayFail("fetch")
          /\ download' = [download EXCEPT ![u] = Nothing]
          /\ End(u, "error")
    /\ UNCHANGED <<binary, previous, unit, run>>

----------------------------------------------------------------------------
(* swap: Remove, Link, Rename.  An error on the way removes the download.  *)

Abandon(u) ==
    /\ download' = [download EXCEPT ![u] = Nothing]
    /\ End(u, "error")

ClearPrevious(u) ==
    /\ pc[u] = "clear"
    /\ \/ previous' = Nothing /\ Goto(u, "keep") /\ UNCHANGED download
       \/ MayFail("remove") /\ Abandon(u) /\ UNCHANGED previous
    /\ UNCHANGED <<binary, unit, run>>

\* Mutation: the running binary is moved aside instead of linked.
MovePrevious(u) ==
    /\ pc[u] = "keep"
    /\ previous' = binary
    /\ binary' = Nothing
    /\ Goto(u, "install")
    /\ UNCHANGED <<download, unit, run>>

\* Mutation: a backup that could not be made does not stop the update.
KeepPreviousOrNot(u) ==
    /\ pc[u] = "keep"
    /\ previous' \in {previous, binary}
    /\ Goto(u, "install")
    /\ UNCHANGED <<binary, download, unit, run>>

\* A hard link: it fails when the name is taken.
KeepPrevious(u) ==
    /\ pc[u] = "keep"
    /\ \/ /\ previous = Nothing
          /\ previous' = binary
          /\ Goto(u, "install")
          /\ UNCHANGED download
       \/ /\ previous # Nothing \/ MayFail("link")
          /\ Abandon(u)
          /\ UNCHANGED previous
    /\ UNCHANGED <<binary, unit, run>>

\* The rename replaces the name; the process keeps the file it runs from.  A
\* rename that fails takes the backup away again.
Install(u) ==
    /\ pc[u] = "install"
    /\ \/ /\ download[u] # Nothing
          /\ binary' = download[u]
          /\ download' = [download EXCEPT ![u] = Nothing]
          /\ Goto(u, "restart")
          /\ UNCHANGED previous
       \/ /\ download[u] = Nothing \/ MayFail("rename")
          /\ previous' = Nothing
          /\ Abandon(u)
          /\ UNCHANGED binary
    /\ UNCHANGED <<unit, run>>

----------------------------------------------------------------------------
(* systemctl: reset-failed, best effort, and restart, which returns once   *)
(* the process was started.                                                *)

\* Mutation: restart without reset-failed.
RestartService(ok) ==
    \/ ok /\ ~gaveUp /\ image' = binary /\ answering' = FALSE /\ UNCHANGED gaveUp
    \/ ~ok /\ gaveUp /\ UNCHANGED unit

restart(ok) ==
    LET cleared == {FALSE} \cup IF MayFail("reset") THEN {gaveUp} ELSE {}
    IN \E refused \in cleared :
         /\ gaveUp' = refused
         /\ \/ ok /\ ~refused /\ image' = binary /\ answering' = FALSE
            \/ ok /\ ~refused /\ MayFail("silent") /\ UNCHANGED <<image, answering>>
            \/ ~ok /\ refused /\ UNCHANGED <<image, answering>>
            \/ /\ ~ok /\ MayFail("restart")
               /\ image' \in {image, binary, Nothing}
               /\ answering' = (answering /\ image' = image)

RestartNew(u) ==
    /\ pc[u] = "restart"
    /\ \E ok \in BOOLEAN : restart(ok) /\ Goto(u, IF ok THEN "wait" ELSE "restore")
    /\ UNCHANGED <<files, run>>

RestartBack(u) ==
    /\ pc[u] = "restartBack"
    /\ \E ok \in BOOLEAN :
         /\ restart(ok)
         /\ IF ok THEN Goto(u, "waitBack") ELSE End(u, "rollbackFailed")
    /\ UNCHANGED <<files, run>>

----------------------------------------------------------------------------
(* waitHealthy, for the new version and then for the one put back.         *)

probe(got) == got = Serving \/ (MayFail("probe") /\ got = Nothing)

\* The deadline passed.  It is generous: it strikes before a version that is
\* starting could answer only on a slow host.
TimedOut(want) == image = want /\ want \in Sound => MayFail("slow")

\* Mutation: any answer will do.
WaitForAnyAnswer(u, want, passed, failed) ==
    \E got \in Versions \cup {Nothing} :
        /\ probe(got)
        /\ heard' = [heard EXCEPT ![u] = got]
        /\ \/ got # Nothing /\ passed
           \/ got = Nothing /\ TimedOut(want) /\ failed

\* Mutation: a poll without a deadline.
WaitForever(u, want, passed, failed) ==
    \E got \in Versions \cup {Nothing} :
        /\ probe(got)
        /\ heard' = [heard EXCEPT ![u] = got]
        /\ SameVersion(got, want) /\ passed

waitHealthy(u, want, passed, failed) ==
    \E got \in Versions \cup {Nothing} :
        /\ probe(got)
        /\ heard' = [heard EXCEPT ![u] = got]
        /\ \/ SameVersion(got, want) /\ passed
           \/ ~SameVersion(got, want) /\ TimedOut(want) /\ failed

WaitNew(u) ==
    /\ pc[u] = "wait"
    /\ waitHealthy(u, target[u], End(u, "updated"), Goto(u, "restore"))
    /\ UNCHANGED <<files, unit, running, target, replaced, alone, healthy>>

\* rollback: the rename that undoes the swap.  Renaming one of two links to
\* the same file onto the other does nothing.
Restore(u) ==
    /\ pc[u] = "restore"
    /\ \/ /\ previous # Nothing
          /\ binary' = previous
          /\ previous' \in {Nothing} \cup IF previous = binary THEN {previous} ELSE {}
          /\ Goto(u, "restartBack")
       \/ /\ previous = Nothing \/ MayFail("rename")
          /\ End(u, "rollbackFailed")
          /\ UNCHANGED <<binary, previous>>
    /\ UNCHANGED <<download, unit, run>>

WaitBack(u) ==
    /\ pc[u] = "waitBack"
    /\ waitHealthy(u, running[u], End(u, "rolledBack"), End(u, "rollbackFailed"))
    /\ UNCHANGED <<files, unit, running, target, replaced, alone, healthy>>

----------------------------------------------------------------------------
(* The rest of the host.                                                   *)

Kill(u) ==
    /\ pc[u] \in Working
    /\ End(u, "killed")
    /\ UNCHANGED <<files, unit, run>>

ComeUp ==
    /\ image \in Sound /\ ~answering
    /\ answering' = TRUE
    /\ UNCHANGED <<files, image, gaveUp, pc, run, outcome>>

Die ==
    /\ image # Nothing
    /\ image \in Sound => MayFail("die")
    /\ image' = Nothing /\ answering' = FALSE
    /\ UNCHANGED <<files, gaveUp, pc, run, outcome>>

\* Restart=on-failure starts what is at the path now, until systemd gives up.
Respawn ==
    /\ image = Nothing /\ ~gaveUp
    /\ \/ image' = binary /\ UNCHANGED gaveUp
       \/ gaveUp' = TRUE /\ UNCHANGED image
    /\ UNCHANGED <<files, answering, pc, run, outcome>>

\* An installed dokkup that serves, with or without an older copy beside it.
Init ==
    /\ binary \in Sound
    /\ previous \in Versions \cup {Nothing}
    /\ download = [u \in Updates |-> Nothing]
    /\ image = binary /\ answering = TRUE /\ gaveUp = FALSE
    /\ pc = [u \in Updates |-> "idle"]
    /\ running = [u \in Updates |-> Dev]
    /\ target = [u \in Updates |-> Dev]
    /\ heard = [u \in Updates |-> Nothing]
    /\ outcome = [u \in Updates |-> "none"]
    /\ replaced = binary
    /\ alone = TRUE
    /\ healthy \in BOOLEAN

Step(u) ==
    \/ CreateTemp(u) \/ Verify(u)
    \/ ClearPrevious(u) \/ KeepPrevious(u) \/ Install(u)
    \/ RestartNew(u) \/ WaitNew(u)
    \/ Restore(u) \/ RestartBack(u) \/ WaitBack(u)

Next ==
    \/ \E u \in Updates : Begin(u) \/ Step(u) \/ Kill(u)
    \/ ComeUp \/ Die \/ Respawn

Spec == Init /\ [][Next]_vars

\* An update goes on until it ends: its calls are bounded (stallTimeout,
\* systemctl's defaultTimeout, healthProbeTimeout, --timeout).  A sound
\* version that was started comes up.
FairSpec ==
    /\ Spec
    /\ \A u \in Updates : WF_vars(Step(u))
    /\ WF_vars(ComeUp)

----------------------------------------------------------------------------
(* Properties.                                                             *)

\* There is a whole, verified executable at the path at every moment, also
\* when updates are killed between two calls or run at the same time: systemd
\* always has something to start.
BinaryIsWhole == binary \in Versions

\* The version an update began with stays on the host until the next update
\* begins, at the path or beside it, wherever this one is killed (swap: the
\* other order "would leave the installation with no way back").  Two updates
\* at once share the name beside the path, and nothing keeps them apart.
WayBackIsKept == alone => replaced \in {binary, previous}

\* What an exit of `dokkup update` says is what the host is: 0 after a swap
\* means the new version is installed and answers, 4 that the old one is back
\* and answers, and an error before the swap that nothing was installed.  Code
\* 4 says so of an update run from the installed binary: rollback waits for the
\* version that asked.
ExitCodesAreTrue ==
    [][\A u \in Updates : alone /\ outcome[u] = "none" =>
        /\ outcome'[u] = "updated" =>
             binary' = target[u] /\ heard'[u] = target[u] /\ image' = binary'
        /\ outcome'[u] = "rolledBack" /\ running[u] = replaced =>
             binary' = replaced' /\ heard'[u] = running[u] /\ image' = binary'
        /\ outcome'[u] \in {"nothingToDo", "refused", "error"} => binary' = replaced']_vars

\* Where nothing is at fault but the new version, an update that replaced a
\* version that works never ends with a host that needs a person (exit code 5),
\* although systemd may have given up on the unit by then (service.Manager,
\* ResetFailed).  It has to be run from the installed binary here as well.
NoPersonNeeded ==
    [][\A u \in Updates :
        healthy /\ alone /\ outcome[u] = "none" /\ outcome'[u] = "rollbackFailed"
            /\ running[u] = replaced => replaced \notin Sound]_vars

\* Every update that started ends, whatever the new version, the host and
\* another update do.
EveryUpdateEnds == \A u \in Updates : pc[u] \in Working ~> pc[u] = "ended"
=============================================================================
