---------------------------- MODULE Installation ----------------------------
(***************************************************************************)
(* `dokkup install` (internal/cli/install.go) and `dokkup uninstall`       *)
(* (internal/cli/uninstall.go) on one host, run one after the other.       *)
(*                                                                         *)
(* What a run leaves on the host is a path: a file, a directory, an        *)
(* account.  Of a path's content all that is kept is which run wrote it,   *)
(* so that "as it was found" can be told from "written again".  Beside the *)
(* disk the host has what was read off it at some moment: the service's    *)
(* process, the unit systemd holds, the vhost nginx serves.  One action    *)
(* per call that changes the host; a kill falls between any two, and a     *)
(* reboot between two runs.                                                *)
(*                                                                         *)
(* Faults says which calls may fail and change nothing, UndoFaults which   *)
(* of them may also fail while they are undone, Halves which may fail with *)
(* their change half made.  Every run installs the same version: a process *)
(* of an earlier one passes waitHealthy.                                   *)
(***************************************************************************)
EXTENDS Naturals, Sequences, SequencesExt

CONSTANTS
    MaxRuns,    \* bound on the runs of the two commands
    Faults,
    UndoFaults,
    Halves,
    Absent,     \* no such path, no process, nothing loaded
    Torn        \* a file that is part of what was being written

Paths == {"group", "user", "member", "data", "tls", "db", "sudoers", "binary",
          "previous", "cert", "key", "vhost", "unit"}
Before == 0                     \* what was there before the first run
Origins == 0 .. MaxRuns

InstallSteps ==
    {"group", "user", "member", "data", "tls", "sudoers", "prove", "clear", "keep",
     "binary", "cert", "key", "vhost", "check", "unit", "reloadUnit", "reloadProxy",
     "enable", "restart", "wait", "confirm", "token"}
Challenges == {"password", "noTerminal", "hostName"}
UninstallSteps == Challenges \cup
    {"removeVhost", "forgetVhost", "disable", "removeUnit", "forgetUnit",
     "removeSudoers", "removeBinary", "removePrevious", "removeTls",
     "removeUser", "removeGroup", "removeData"}

ASSUME InstallationAssumption ==
    /\ MaxRuns \in Nat
    /\ Absent \notin Origins /\ Torn \notin Origins /\ Absent # Torn
    /\ Faults \subseteq InstallSteps \cup UninstallSteps \cup {"kill"}
    /\ UndoFaults \subseteq Paths \cup {"service"}
    /\ Halves \subseteq {"user", "data", "tls", "cert", "key", "unit", "enable"}

VARIABLES
    disk,        \* what each path holds
    process,     \* the binary and the unit the service was started from
    enabled,     \* whether it starts at boot
    loaded,      \* the unit text systemd holds
    serving,     \* the vhost nginx has loaded
    run,         \* the number of the current run, or of the last one
    pc,
    secure,      \* whether a run's site is served over HTTPS
    undo,        \* i.undo
    running,     \* startService's answer from IsActive
    removeData,  \* u.removeData
    failed,      \* whether u.failed is non-empty
    outcome,
    found,       \* the host as the current run found it
    met,         \* whether something failed during it
    hurt         \* the runs that were killed, left a step or an undo half made, or
                 \* could not remove the vhost

live == <<process, enabled, loaded, serving>>
job == <<run, secure, removeData, found>>
vars == <<disk, live, pc, undo, running, failed, outcome, met, hurt, job>>

----------------------------------------------------------------------------
(* Paths.                                                                  *)

\* What goes with a path: os.RemoveAll of a directory, userdel of an account.
Within(p) ==
    CASE p = "data" -> {"data", "tls", "db", "cert", "key"}
      [] p = "tls"  -> {"tls", "cert", "key"}
      [] p = "user" -> {"user", "member", "group"}
      [] OTHER      -> {p}

Put(p, content) == [disk EXCEPT ![p] = content]
Removed(p) == [q \in Paths |-> IF q \in Within(p) THEN Absent ELSE disk[q]]
exists(p) == disk[p] # Absent

\* `nginx -t`: a vhost that names a certificate needs it and its own key.
Accepts(d) ==
    d["vhost"] # Absent /\ secure[d["vhost"]] => d["cert"] \in Origins /\ d["key"] = d["cert"]

\* What systemd starts, and the database `serve` opens when it comes up.
Started == [binary |-> disk["binary"], unit |-> loaded]
WithDatabase == IF exists("db") \/ ~exists("data") THEN disk ELSE Put("db", run)

Goto(s) == pc' = s /\ UNCHANGED <<outcome, met, hurt>>
Fail == pc' = "unwind" /\ met' = TRUE /\ UNCHANGED <<outcome, hurt>>
FailHalfway == pc' = "unwind" /\ met' = TRUE /\ hurt' = hurt \cup {run} /\ UNCHANGED outcome
Finish(result) == pc' = "idle" /\ outcome' = result /\ UNCHANGED <<met, hurt>>

\* Mutation: the undos come to be run in the order they were recorded.
undoingInOrder(what, had) == undo' = <<[what |-> what, had |-> had]>> \o undo

undoing(what, had) == undo' = Append(undo, [what |-> what, had |-> had])

----------------------------------------------------------------------------
(* install: nothing is written until Dokku, the site and the host's own    *)
(* nginx configuration have been found in order.                           *)

Begin(first) ==
    /\ pc = "idle"
    /\ run < MaxRuns
    /\ run' = run + 1
    /\ found' = [disk |-> disk, process |-> process, enabled |-> enabled, serving |-> serving]
    /\ undo' = <<>>
    /\ failed' = FALSE
    /\ met' = FALSE
    /\ running' = FALSE
    /\ \/ pc' = first /\ outcome' = "none"
       \/ pc' = "idle" /\ outcome' = "refused"
    /\ UNCHANGED <<disk, live, hurt>>

Install ==
    /\ Begin("group")
    /\ \E https \in BOOLEAN : secure' = [secure EXCEPT ![run + 1] = https]
    /\ pc' = "group" => Accepts(disk)
    /\ removeData' = FALSE

\* groupadd -f leaves a group as it was.  An account gets its shell and home,
\* and a directory its mode and owner, whether or not it is this run's.
Ensured(p) == IF p = "group" /\ exists(p) THEN disk ELSE Put(p, run)

\* Mutation: what was already here is undone too.
EnsureAndOwn(p, next) ==
    /\ pc = p
    /\ disk' = Ensured(p)
    /\ undoing(p, disk[p])
    /\ Goto(next)
    /\ UNCHANGED <<live, running, failed, job>>

\* The group, the user and the two directories: brought about, and undone
\* only when they were missing.  useradd may succeed and the usermod after it
\* fail, and so may MkdirAll, Chmod and Chown one after the other: what was
\* created or changed is then nobody's to undo.
Ensure(p, next) ==
    /\ pc = p
    /\ \/ exists(p) /\ disk' = Ensured(p) /\ Goto(next) /\ UNCHANGED undo
       \/ ~exists(p) /\ disk' = Ensured(p) /\ undoing(p, Absent) /\ Goto(next)
       \/ p \in Faults /\ Fail /\ UNCHANGED <<disk, undo>>
       \/ p \in Halves /\ disk' = Ensured(p) /\ FailHalfway /\ UNCHANGED undo
    /\ UNCHANGED <<live, running, failed, job>>

ensureAccount == Ensure("group", "user") \/ Ensure("user", "member")

\* JoinGroup is never undone.
JoinGroup ==
    /\ pc = "member"
    /\ \/ disk' = (IF exists("member") THEN disk ELSE Put("member", run)) /\ Goto("data")
       \/ "member" \in Faults /\ Fail /\ UNCHANGED disk
    /\ UNCHANGED <<live, undo, running, failed, job>>

ensureDataDir == Ensure("data", "tls") \/ Ensure("tls", "sudoers")

\* A rule that visudo accepts is renamed into place, then proved.
ensureSudoers ==
    /\ pc = "sudoers"
    /\ \/ disk' = Put("sudoers", run) /\ undoing("sudoers", disk["sudoers"]) /\ Goto("prove")
       \/ "sudoers" \in Faults /\ Fail /\ UNCHANGED <<disk, undo>>
    /\ UNCHANGED <<live, running, failed, job>>

\* A step that asks the host something and changes nothing.
Ask(s, answer, next) ==
    /\ pc = s
    /\ \/ answer /\ Goto(next)
       \/ (answer => s \in Faults) /\ Fail
    /\ UNCHANGED <<disk, live, undo, running, failed, job>>

ProveSudo == Ask("prove", TRUE, "clear")

----------------------------------------------------------------------------
(* installBinary: Remove, Link and Rename, as the updater's swap, unless   *)
(* this executable is the one at the path.                                 *)

ClearPrevious ==
    /\ pc = "clear"
    /\ \/ exists("binary") /\ Goto("cert") /\ UNCHANGED disk          \* sameFile
       \/ ~exists("binary") /\ Goto("binary") /\ UNCHANGED disk
       \/ exists("binary") /\ disk' = Removed("previous") /\ Goto("keep")
       \/ "clear" \in Faults /\ Fail /\ UNCHANGED disk
    /\ UNCHANGED <<live, undo, running, failed, job>>

KeepPrevious ==
    /\ pc = "keep"
    /\ \/ disk' = Put("previous", disk["binary"]) /\ Goto("binary")
       \/ "keep" \in Faults /\ Fail /\ UNCHANGED disk
    /\ UNCHANGED <<live, undo, running, failed, job>>

PlaceBinary ==
    /\ pc = "binary"
    /\ \/ disk' = Put("binary", run) /\ undoing("binary", disk["binary"]) /\ Goto("cert")
       \/ "binary" \in Faults /\ Fail /\ UNCHANGED <<disk, undo>>
    /\ UNCHANGED <<live, running, failed, job>>

----------------------------------------------------------------------------
(* The files of the site and of the service.                               *)

\* writeOwnedFile writes in place: an error after the truncation leaves the
\* file torn, and one from Chmod leaves it written; either way no undo is
\* recorded.
writeOwnedFile(p, next) ==
    /\ pc = p
    /\ \/ disk' = Put(p, run) /\ undoing(p, disk[p]) /\ Goto(next)
       \/ p \in Faults /\ Fail /\ UNCHANGED <<disk, undo>>
       \/ p \in Halves /\ (\E c \in {run, Torn} : disk' = Put(p, c)) /\ FailHalfway /\ UNCHANGED undo
    /\ UNCHANGED <<live, running, failed, job>>

installCertificate ==
    \/ /\ pc = "cert" /\ ~secure[run]
       /\ Goto("vhost")
       /\ UNCHANGED <<disk, live, undo, running, failed, job>>
    \/ secure[run] /\ writeOwnedFile("cert", "key")
    \/ writeOwnedFile("key", "vhost")

\* Tested outside /etc/nginx, then renamed into place.
installVhost ==
    /\ pc = "vhost"
    /\ \/ /\ Accepts(Put("vhost", run))
          /\ disk' = Put("vhost", run)
          /\ undoing("vhost", disk["vhost"])
          /\ Goto("check")
       \/ /\ Accepts(Put("vhost", run)) => "vhost" \in Faults
          /\ Fail
          /\ UNCHANGED <<disk, undo>>
    /\ UNCHANGED <<live, running, failed, job>>

CheckVhost == Ask("check", Accepts(disk), "unit")

installUnit == writeOwnedFile("unit", "reloadUnit")

\* The last step of installUnit.
DaemonReload ==
    /\ pc = "reloadUnit"
    /\ \/ loaded' = disk["unit"] /\ Goto("reloadProxy")
       \/ "reloadUnit" \in Faults /\ Fail /\ UNCHANGED loaded
    /\ UNCHANGED <<disk, process, enabled, serving, undo, running, failed, job>>

reloadProxy ==
    /\ pc = "reloadProxy"
    /\ \/ serving' = disk["vhost"] /\ Goto("enable")
       \/ "reloadProxy" \in Faults /\ Fail /\ UNCHANGED serving
    /\ UNCHANGED <<disk, process, enabled, loaded, undo, running, failed, job>>

----------------------------------------------------------------------------
(* startService: IsActive, `systemctl enable --now`, a restart of what was *)
(* already running, and the wait for an answer.                            *)

EnableNow ==
    /\ enabled' = TRUE
    /\ process' = IF process = Absent THEN Started ELSE process
    /\ disk' = IF process = Absent THEN WithDatabase ELSE disk

Enable ==
    /\ pc = "enable"
    /\ running' = (process # Absent)
    /\ \/ EnableNow /\ undoing("service", Absent) /\ Goto("restart")
       \/ "enable" \in Faults /\ Fail /\ UNCHANGED <<disk, process, enabled, undo>>
       \/ /\ "enable" \in Halves
          /\ \/ EnableNow
             \/ enabled' = TRUE /\ UNCHANGED <<disk, process>>
          /\ FailHalfway
          /\ UNCHANGED undo
    /\ UNCHANGED <<loaded, serving, failed, job>>

\* Mutation: `enable --now` is thought to be enough.
RestartNothing ==
    /\ pc = "restart"
    /\ Goto("wait")
    /\ UNCHANGED <<disk, live, undo, running, failed, job>>

Restart ==
    /\ pc = "restart"
    /\ \/ ~running /\ Goto("wait") /\ UNCHANGED <<disk, process>>
       \/ running /\ process' = Started /\ disk' = WithDatabase /\ Goto("wait")
       \/ running /\ "restart" \in Faults /\ Fail /\ UNCHANGED <<disk, process>>
    /\ UNCHANGED <<enabled, loaded, serving, undo, running, failed, job>>

\* The answer on the loopback address, then the one through nginx.
waitHealthy == Ask("wait", process # Absent, "confirm")
confirmSite == Ask("confirm", serving # Absent, "token")

\* issueToken opens the database; its error is kept for the report.
issueToken ==
    /\ pc = "token"
    /\ disk' = WithDatabase
    /\ Finish("installed")
    /\ UNCHANGED <<live, undo, running, failed, job>>

----------------------------------------------------------------------------
(* unwind: what this run changed, newest first.  An undo that fails is     *)
(* reported and does not stop the rest.                                    *)

Undoing(what) ==
    /\ pc = "unwind"
    /\ undo # <<>>
    /\ Last(undo).what \in what
    /\ undo' = Front(undo)
    /\ UNCHANGED <<pc, outcome, running, failed, job>>

Had == Last(undo).had
UndoFailed == met' = TRUE /\ hurt' = hurt \cup {run}

\* restorer; the vhost's asks nginx afterwards and reports what it says.
restorer ==
    /\ Undoing({"sudoers", "cert", "key", "vhost"})
    /\ disk' = Put(Last(undo).what, Had)
    /\ UNCHANGED <<live, met, hurt>>

UndoUnit ==
    /\ Undoing({"unit"})
    /\ disk' = Put("unit", Had)
    /\ \/ loaded' = Had /\ UNCHANGED <<met, hurt>>
       \/ "unit" \in UndoFaults /\ UndoFailed /\ UNCHANGED loaded
    /\ UNCHANGED <<process, enabled, serving>>

UndoDirectory ==
    /\ Undoing({"data", "tls"})
    /\ disk' = Removed(Last(undo).what)
    /\ UNCHANGED <<live, met, hurt>>

UndoBinary ==
    /\ Undoing({"binary"})
    /\ disk' = IF Had = Absent THEN Removed("binary")
               ELSE [Put("binary", disk["previous"]) EXCEPT !["previous"] = Absent]
    /\ UNCHANGED <<live, met, hurt>>

\* userdel refuses while the service runs as the user, and groupdel while
\* the user has the group for its own.
UndoAccount ==
    \/ /\ Undoing({"user"})
       /\ \/ process = Absent /\ disk' = Removed("user") /\ UNCHANGED <<met, hurt>>
          \/ process # Absent /\ met' = TRUE /\ UNCHANGED <<disk, hurt>>
       /\ UNCHANGED live
    \/ /\ Undoing({"group"})
       /\ disk' = IF exists("user") THEN disk ELSE Removed("group")
       /\ UNCHANGED <<live, met, hurt>>

\* Disable, whether or not the service was running before this run.
UndoService ==
    /\ Undoing({"service"})
    /\ enabled' = FALSE
    /\ process' = Absent
    /\ UNCHANGED <<disk, loaded, serving, met, hurt>>

UndoFails ==
    /\ Undoing(UndoFaults)
    /\ UndoFailed
    /\ UNCHANGED <<disk, live>>

Unwound ==
    /\ pc = "unwind"
    /\ undo = <<>>
    /\ Finish("failed")
    /\ UNCHANGED <<disk, live, undo, running, failed, job>>

unwind ==
    \/ restorer \/ UndoUnit \/ UndoDirectory \/ UndoBinary \/ UndoAccount
    \/ UndoService \/ UndoFails \/ Unwound

----------------------------------------------------------------------------
(* uninstall: a step that fails is collected and the next one is taken.    *)

\* The question about the data, and the challenge SudoPassword finds this
\* process entitled to.
Uninstall ==
    /\ \E challenge \in Challenges : Begin(challenge)
    /\ removeData' \in BOOLEAN            \* --purge, or the answer
    /\ UNCHANGED secure

\* Confirm: sudo that was asked settles it, sudo that could not be run hands
\* over to the host's name, and a sudo session without a terminal is refused.
Confirm ==
    /\ \/ pc \in {"password", "hostName"} /\ Goto("removeVhost")
       \/ pc = "password" /\ Goto("hostName")
       \/ pc \in Challenges /\ Finish("refused")
    /\ UNCHANGED <<disk, live, undo, running, failed, job>>

\* What every step of a removal leaves alone, and how one ends.
Removing(s) == pc = s /\ UNCHANGED <<outcome, undo, running, job>>
Continue(next) == pc' = next /\ UNCHANGED <<failed, met, hurt>>
failf(next) ==
    /\ pc' = next /\ failed' = TRUE /\ met' = TRUE
    /\ hurt' = IF pc = "removeVhost" THEN hurt \cup {run} ELSE hurt

\* Mutation: a path that is already gone counts as one that would not go.
RemovePathOrFail(s, p, next, after) ==
    /\ Removing(s)
    /\ \/ exists(p) /\ disk' = Removed(p) /\ Continue(next)
       \/ ~exists(p) /\ pc' = after /\ failed' = TRUE /\ UNCHANGED <<disk, met, hurt>>
    /\ UNCHANGED live

\* removeFile and removeTree: a path that is already gone is no failure.
RemovePath(s, p, next, after) ==
    /\ Removing(s)
    /\ \/ exists(p) /\ disk' = Removed(p) /\ Continue(next)
       \/ ~exists(p) /\ Continue(after) /\ UNCHANGED disk
       \/ exists(p) /\ s \in Faults /\ failf(after) /\ UNCHANGED disk
    /\ UNCHANGED live

\* Mutation: the vhost is left where it is when nginx fails its check.
removeVhostIfAccepted ==
    \/ RemovePath("removeVhost", "vhost", "forgetVhost", "disable")
    \/ /\ Removing("removeVhost")
       /\ exists("vhost") /\ "forgetVhost" \in Faults
       /\ pc' = "disable" /\ failed' = TRUE /\ met' = TRUE
       /\ UNCHANGED <<disk, live, hurt>>
    \/ /\ Removing("forgetVhost")
       /\ Continue("disable")
       /\ serving' = Absent
       /\ UNCHANGED <<disk, process, enabled, loaded>>

\* The vhost first; nginx is asked to forget it only if it accepts what is
\* left, and a refusal is a warning.
removeVhost ==
    \/ RemovePath("removeVhost", "vhost", "forgetVhost", "disable")
    \/ /\ Removing("forgetVhost")
       /\ Continue("disable")
       /\ \/ serving' = Absent
          \/ "forgetVhost" \in Faults /\ UNCHANGED serving
       /\ UNCHANGED <<disk, process, enabled, loaded>>

\* Disable, asked for only when there is a unit to disable.
DisableService ==
    /\ Removing("disable")
    /\ \/ exists("unit") /\ enabled' = FALSE /\ process' = Absent /\ Continue("removeUnit")
       \/ exists("unit") /\ "disable" \in Faults /\ failf("removeUnit")
            /\ UNCHANGED <<enabled, process>>
       \/ ~exists("unit") /\ Continue("removeUnit") /\ UNCHANGED <<enabled, process>>
    /\ UNCHANGED <<disk, loaded, serving>>

removeUnit ==
    \/ RemovePath("removeUnit", "unit", "forgetUnit", "removeSudoers")
    \/ /\ Removing("forgetUnit")
       /\ Continue("removeSudoers")
       /\ \/ loaded' = Absent
          \/ "forgetUnit" \in Faults /\ UNCHANGED loaded
       /\ UNCHANGED <<disk, process, enabled, serving>>

removeFile ==
    \/ RemovePath("removeSudoers", "sudoers", "removeBinary", "removeBinary")
    \/ RemovePath("removeBinary", "binary", "removePrevious", "removePrevious")
    \/ RemovePath("removePrevious", "previous", "removeTls", "removeTls")

\* Mutation: the certificate stays when the data does.
removeTLSWithData ==
    IF removeData THEN RemovePath("removeTls", "tls", "removeUser", "removeUser")
    ELSE Removing("removeTls") /\ Continue("removeUser") /\ UNCHANGED <<disk, live>>

\* The certificate goes whether or not the data directory stays.
removeTLS == RemovePath("removeTls", "tls", "removeUser", "removeUser")

\* userdel refuses while the service runs as the user; the group is then
\* left too.
removeAccount ==
    \/ /\ Removing("removeUser")
       /\ \/ exists("user") /\ process = Absent /\ disk' = Removed("user")
            /\ Continue("removeGroup")
          \/ ~exists("user") /\ Continue("removeGroup") /\ UNCHANGED disk
          \/ /\ exists("user") /\ process # Absent                \* ErrUserBusy
             /\ pc' = "removeData" /\ failed' = TRUE /\ UNCHANGED <<disk, met, hurt>>
          \/ exists("user") /\ "removeUser" \in Faults /\ failf("removeData") /\ UNCHANGED disk
       /\ UNCHANGED live
    \/ RemovePath("removeGroup", "group", "removeData", "removeData")

removeDataDir ==
    /\ pc = "removeData"
    /\ \/ /\ disk' = IF removeData THEN Removed("data") ELSE disk
          /\ Finish(IF failed THEN "incomplete" ELSE "removed")
          /\ UNCHANGED failed
       \/ /\ removeData /\ exists("data") /\ "removeData" \in Faults
          /\ pc' = "idle" /\ outcome' = "incomplete" /\ failed' = TRUE /\ met' = TRUE
          /\ UNCHANGED <<disk, hurt>>
    /\ UNCHANGED <<live, undo, running, job>>

----------------------------------------------------------------------------
(* A killed run leaves everything where it is; a reboot starts what is     *)
(* enabled from what is on the disk.                                       *)

Kill ==
    /\ "kill" \in Faults
    /\ pc # "idle"
    /\ pc' = "idle" /\ outcome' = "killed"
    /\ hurt' = hurt \cup {run}
    /\ UNCHANGED met
    /\ UNCHANGED <<disk, live, undo, running, failed, job>>

Reboot ==
    /\ pc = "idle"
    /\ loaded' = disk["unit"]
    /\ serving' = IF Accepts(disk) THEN disk["vhost"] ELSE Absent
    /\ process' = IF enabled /\ exists("unit") /\ exists("binary") /\ exists("user")
                  THEN [binary |-> disk["binary"], unit |-> disk["unit"]]
                  ELSE Absent
    /\ disk' = IF process' # Absent THEN WithDatabase ELSE disk
    /\ outcome' = "none"
    /\ UNCHANGED <<enabled, pc, undo, running, failed, met, hurt, job>>

\* A host without dokkup, one with a binary put there by hand, and one with
\* a finished installation.
Bare ==
    /\ disk \in {[p \in Paths |-> Absent], [p \in Paths |-> IF p = "binary" THEN Before ELSE Absent]}
    /\ process = Absent /\ enabled = FALSE /\ loaded = Absent /\ serving = Absent
    /\ secure = [r \in Origins |-> FALSE]

Installed ==
    \E https \in BOOLEAN :
        /\ disk = [p \in Paths |-> IF p = "previous" \/ (p \in {"cert", "key"} /\ ~https)
                                   THEN Absent ELSE Before]
        /\ process = [binary |-> Before, unit |-> Before]
        /\ enabled = TRUE /\ loaded = Before /\ serving = Before
        /\ secure = [r \in Origins |-> r = Before /\ https]

Init ==
    /\ Bare \/ Installed
    /\ run = 0
    /\ pc = "idle"
    /\ undo = <<>>
    /\ running = FALSE
    /\ removeData = FALSE
    /\ failed = FALSE
    /\ outcome = "none"
    /\ found = [disk |-> disk, process |-> process, enabled |-> enabled, serving |-> serving]
    /\ met = FALSE
    /\ hurt = {}

change ==
    \/ ensureAccount \/ JoinGroup \/ ensureDataDir \/ ensureSudoers \/ ProveSudo
    \/ ClearPrevious \/ KeepPrevious \/ PlaceBinary
    \/ installCertificate \/ installVhost \/ CheckVhost \/ installUnit \/ DaemonReload
    \/ reloadProxy \/ Enable \/ Restart \/ waitHealthy \/ confirmSite \/ issueToken

remove ==
    \/ Confirm \/ removeVhost \/ DisableService \/ removeUnit \/ removeFile \/ removeTLS
    \/ removeAccount \/ removeDataDir

Next == Install \/ Uninstall \/ change \/ unwind \/ remove \/ Kill \/ Reboot
Spec == Init /\ [][Next]_vars

----------------------------------------------------------------------------
(* Properties.                                                             *)

\* A run that is refused, or a removal that is not confirmed, has changed
\* nothing.  An installation that fails has put back every path it changed: what it
\* created is gone and what it replaced is what it was (install: "leaves the
\* host as it found it if it cannot").  Not put back by design: the copy of
\* an older binary, the membership of the dokku group, and a database the
\* service created in a directory that was already there.  Not put back
\* although the sentence says so: an account and directories that were found
\* are still there, but keep the shell and home, the mode and owner the run
\* gave them; and a group that was found without its user goes with the user,
\* as userdel has it.  A run that was killed, or whose step or undo itself
\* failed half way, is no such run, whatever earlier runs left.
FilesAreRestored ==
    /\ outcome = "failed" /\ run \notin hurt =>
        \A p \in Paths \ {"previous", "member", "db"} :
            \/ disk[p] = found.disk[p]
            \/ p \in {"user", "data", "tls"} /\ found.disk[p] # Absent /\ disk[p] = run
            \/ p = "group" /\ ~exists("group") /\ ~exists("user")
    /\ outcome = "refused" => disk = found.disk /\ process = found.process

\* An installation that reports success has the service running from the
\* binary on the disk and the unit it wrote, enabled, behind the vhost it
\* wrote, although `enable --now` does not touch a service that runs and the
\* health check cannot tell one process of a version from another
\* (startService).
InstalledIsRunning ==
    outcome = "installed" =>
        /\ process = [binary |-> disk["binary"], unit |-> run]
        /\ disk["unit"] = run
        /\ enabled
        /\ serving = run
        /\ exists("db")

\* Whatever a run does, nginx can be started when it is over: a vhost whose
\* certificate is missing, or whose key is another certificate's, takes every
\* app of the host down at the next reboot (installVhost).  Not so once a
\* run was killed between certificate and key, left one of them torn, or
\* could not remove the vhost and went on to remove its certificate.
NginxCanStart == pc = "idle" /\ hurt = {} => Accepts(disk)

\* A database is removed by a removal that was told to remove it, or by the
\* failed installation that created it, and by nothing else: not by an
\* installation that fails over an earlier one, whatever fails with it.
DatabaseIsKept ==
    [][exists("db") /\ disk'["db"] = Absent =>
         \/ pc = "removeData" /\ removeData
         \/ pc = "unwind" /\ found.disk["db"] = Absent]_vars

\* A removal that reports success leaves no path of dokkup's but the data it
\* was told to keep, and no process (uninstall).
NothingRemains ==
    outcome = "removed" =>
        /\ \A p \in Paths \ {"data", "db"} : disk[p] = Absent
        /\ removeData => disk["data"] = Absent /\ disk["db"] = Absent
        /\ process = Absent

\* Removal can be run again until it is complete: one that meets no failure
\* of the host's completes, wherever an earlier run was killed or failed
\* (removeFile: "removal has to be re-runnable, because the reason someone
\* runs it twice is usually that the first run stopped part way").  The one
\* exception is a service still running after its unit file has gone, which
\* nothing then asks systemd to stop.
RerunCompletes ==
    outcome = "incomplete" => met \/ (found.process # Absent /\ found.disk["unit"] = Absent)

\* install "leaves the host as it found it if it cannot": a service that was
\* running is running when an installation over it has failed.
ServiceIsAsFound ==
    outcome = "failed" /\ found.process # Absent => process # Absent
=============================================================================
