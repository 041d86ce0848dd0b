------------------------ MODULE InstallationProofs ------------------------
(***************************************************************************)
(* Proofs about `dokkup install` and `dokkup uninstall`, for any number of *)
(* runs and any faults.                                                    *)
(***************************************************************************)
EXTENDS Installation, TLAPS

Contents == 0 .. run
Places == Contents \cup {Absent, Torn}
Undoable == {"group", "user", "data", "tls", "sudoers", "binary", "cert", "key", "vhost", "unit",
             "service"}
Undos == [what : Undoable, had : Places]
Outcomes == {"none", "refused", "installed", "failed", "removed", "incomplete", "killed"}

\* The values of the variables the argument turns on: a path holds what a
\* run so far has written.
TypeOK ==
    /\ run \in Origins
    /\ disk \in [Paths -> Places] /\ found.disk \in [Paths -> Places]
    /\ secure \in [Origins -> BOOLEAN]
    /\ pc \in InstallSteps \cup UninstallSteps \cup {"idle", "unwind"}
    /\ undo \in Seq(Undos)
    /\ outcome \in Outcomes
    /\ enabled \in BOOLEAN /\ running \in BOOLEAN /\ removeData \in BOOLEAN
    /\ failed \in BOOLEAN /\ met \in BOOLEAN

----------------------------------------------------------------------------
(* The order of an installation, and of what it has to undo.               *)

Rank ==
    [group |-> 1, user |-> 2, member |-> 3, data |-> 4, tls |-> 5, sudoers |-> 6, prove |-> 7,
     clear |-> 8, keep |-> 9, binary |-> 10, cert |-> 11, key |-> 12, vhost |-> 13, check |-> 14,
     unit |-> 15, reloadUnit |-> 16, reloadProxy |-> 17, enable |-> 18, service |-> 18,
     restart |-> 19, wait |-> 20, confirm |-> 21, token |-> 22]

Owed == Range(undo)
Owes(p) == \E e \in Owed : e.what = p
Restored == Paths \ {"previous", "member", "db"}

\* The undos are recorded in the order of the steps, at most one for each,
\* none for a step that has not been taken, and each with what was found.
UndosAreInOrder ==
    \A i, j \in DOMAIN undo : i < j => Rank[undo[i].what] < Rank[undo[j].what]

UndosAreOfThePast ==
    pc \in InstallSteps => \A e \in Owed : Rank[e.what] < Rank[pc]

UndosHaveWhatWasFound ==
    pc \in InstallSteps \cup {"unwind"} =>
        \A e \in Owed :
            /\ e.what # "service" => e.had = found.disk[e.what]
            /\ e.what \in {"group", "user", "data", "tls"} => e.had = Absent

OrderParts == UndosAreInOrder /\ UndosAreOfThePast /\ UndosHaveWhatWasFound

----------------------------------------------------------------------------
(* What is where on any host the two commands leave, and on the way.       *)

\* A membership belongs to a user and a user to a group, the certificate is
\* in its directory and that, like the database, in the data directory.
Nested(d) ==
    /\ d["member"] # Absent => d["user"] # Absent
    /\ d["user"] # Absent => d["group"] # Absent
    /\ d["cert"] # Absent \/ d["key"] # Absent => d["tls"] # Absent
    /\ d["tls"] # Absent \/ d["db"] # Absent => d["data"] # Absent
    /\ d["vhost"] # Torn

\* What userdel refuses to break.
ProcessHasUser == process # Absent => exists("user")

\* What the steps behind an installation have made sure of is there, and the
\* directory of a file is still there when the file comes to be put back.
StepsStandOnSteps ==
    pc \in InstallSteps =>
        \A p \in {"group", "user", "data", "tls"} : Rank[p] < Rank[pc] => exists(p)

FilesStandOnDirectories == pc = "unwind" /\ (Owes("cert") \/ Owes("key")) => exists("tls")

\* The group is removed only when its user is gone.
GroupIsFree == pc = "removeGroup" => ~exists("user")

FoundInOrder == Nested(found.disk) /\ (found.process # Absent => found.disk["user"] # Absent)

HostParts ==
    /\ Nested(disk) /\ ProcessHasUser /\ StepsStandOnSteps /\ FilesStandOnDirectories
    /\ GroupIsFree /\ FoundInOrder

----------------------------------------------------------------------------
(* An installation: what it has not come to is as it was found, and what   *)
(* it has changed it owes.                                                 *)

YetToCome ==
    pc \in InstallSteps =>
        \A p \in Restored : Rank[pc] <= Rank[p] => disk[p] = found.disk[p]

\* An account or a directory that was found, and was given its attributes.
Renewed(p) == p \in {"user", "data", "tls"} /\ found.disk[p] # Absent /\ disk[p] = run

\* What ends as the first half of FilesAreRestored, when nothing is owed.
ChangesAreOwed ==
    pc \in InstallSteps \cup {"unwind"} /\ run \notin hurt =>
        \A p \in Restored :
            \/ disk[p] = found.disk[p]
            \/ Owes(p)
            \/ Renewed(p)
            \/ pc = "unwind" /\ p = "group" /\ ~exists("group") /\ ~exists("user")

\* The undo of the binary renames the copy back: the copy is what was there.
OldBinaryIsKept ==
    /\ pc = "binary" /\ exists("binary") => disk["previous"] = disk["binary"]
    /\ pc \in InstallSteps \cup {"unwind"} =>
         \A e \in Owed : e.what = "binary" /\ e.had # Absent => disk["previous"] = e.had

\* A service this run started is stopped before its user is removed, so that
\* userdel refuses only where the user was found.
ProcessIsOwed ==
    pc \in InstallSteps \cup {"unwind"} /\ run \notin hurt /\ process # Absent =>
        process = found.process \/ Owes("service")

ServiceIsOwed == pc \in InstallSteps /\ Rank[pc] > Rank["enable"] => Owes("service")

OutcomeIsOfTheEnd == outcome # "none" => pc = "idle"

RestoreParts ==
    /\ YetToCome /\ ChangesAreOwed /\ OldBinaryIsKept /\ ProcessIsOwed /\ ServiceIsOwed
    /\ OutcomeIsOfTheEnd /\ FilesAreRestored

----------------------------------------------------------------------------
(* An installation: what its steps behind it have brought about, up to a   *)
(* service that was restarted if it ran before.                            *)

ServiceIsNew == process = [binary |-> disk["binary"], unit |-> run]

Progress ==
    pc \in InstallSteps =>
        /\ Rank[pc] > Rank["unit"] => disk["unit"] = run
        /\ Rank[pc] > Rank["reloadUnit"] => loaded = run
        /\ Rank[pc] > Rank["vhost"] => disk["vhost"] = run
        /\ Rank[pc] > Rank["reloadProxy"] => serving = run
        /\ Rank[pc] > Rank["enable"] => enabled
        /\ pc = "restart" /\ ~running => ServiceIsNew
        /\ Rank[pc] > Rank["restart"] => ServiceIsNew

ServiceParts == Progress /\ InstalledIsRunning

----------------------------------------------------------------------------
(* While nothing was left half made, nginx accepts the host between runs,  *)
(* what an installation would go back to, and what it has put in place;    *)
(* and a removal is past the vhost before it touches the certificate.      *)

Accepted ==
    hurt = {} =>
        /\ pc \in {"idle", "removeVhost"} \cup Challenges => Accepts(disk)
        /\ pc \in InstallSteps \cup {"unwind"} => Accepts(found.disk)
        /\ pc \in InstallSteps /\ Rank[pc] > Rank["vhost"] => Accepts(disk)
        /\ pc \in UninstallSteps \ (Challenges \cup {"removeVhost"}) => disk["vhost"] = Absent

NginxParts == Accepted /\ NginxCanStart

----------------------------------------------------------------------------
(* A removal: what is gone at each step if nothing has failed, and why     *)
(* something has if it has.                                                *)

RemovalSteps == UninstallSteps \ Challenges

Removals ==
    [removeVhost |-> {}, forgetVhost |-> {"vhost"}, disable |-> {"vhost"}, removeUnit |-> {"vhost"},
     forgetUnit |-> {"vhost", "unit"}, removeSudoers |-> {"vhost", "unit"},
     removeBinary |-> {"vhost", "unit", "sudoers"},
     removePrevious |-> {"vhost", "unit", "sudoers", "binary"},
     removeTls |-> {"vhost", "unit", "sudoers", "binary", "previous"},
     removeUser |-> {"vhost", "unit", "sudoers", "binary", "previous", "tls"},
     removeGroup |-> {"vhost", "unit", "sudoers", "binary", "previous", "tls", "user"},
     removeData |-> {"vhost", "unit", "sudoers", "binary", "previous", "tls", "user", "group"}]

\* The service runs although its unit file is gone.
NobodyStops == found.process # Absent /\ found.disk["unit"] = Absent

\* Before the confirmation the host is as it was found, and until the
\* service is disabled the service and its unit are.
Untouched == pc \in Challenges \cup {"removeVhost"} => disk = found.disk

AsFound ==
    pc \in Challenges \cup {"removeVhost", "forgetVhost", "disable"} =>
        process = found.process /\ disk["unit"] = found.disk["unit"]

RemovedIsGone == pc \in RemovalSteps /\ ~failed => \A p \in Removals[pc] : ~exists(p)

\* A service that still runs was not to be stopped, and a failure is the
\* host's or that service's.
Stopped ==
    pc \in RemovalSteps \ {"removeVhost", "forgetVhost", "disable"} /\ process # Absent =>
        met \/ NobodyStops

FailureIsMet == pc \in UninstallSteps /\ failed => met \/ NobodyStops

RemovalParts ==
    /\ Untouched /\ AsFound /\ RemovedIsGone /\ Stopped /\ FailureIsMet
    /\ NothingRemains /\ RerunCompletes

\* The inductive invariant.
Inv ==
    /\ TypeOK /\ OrderParts /\ HostParts /\ RestoreParts
    /\ ServiceParts /\ NginxParts /\ RemovalParts

----------------------------------------------------------------------------
\* The order as numbers, so that the provers need not open the record.
LEMMA RankFacts ==
    /\ Rank["group"] = 1 /\ Rank["user"] = 2 /\ Rank["member"] = 3 /\ Rank["data"] = 4
    /\ Rank["tls"] = 5 /\ Rank["sudoers"] = 6 /\ Rank["prove"] = 7 /\ Rank["clear"] = 8
    /\ Rank["keep"] = 9 /\ Rank["binary"] = 10 /\ Rank["cert"] = 11 /\ Rank["key"] = 12
    /\ Rank["vhost"] = 13 /\ Rank["check"] = 14 /\ Rank["unit"] = 15 /\ Rank["reloadUnit"] = 16
    /\ Rank["reloadProxy"] = 17 /\ Rank["enable"] = 18 /\ Rank["service"] = 18
    /\ Rank["restart"] = 19 /\ Rank["wait"] = 20 /\ Rank["confirm"] = 21 /\ Rank["token"] = 22
BY DEF Rank

LEMMA RankIsANumber == \A s \in InstallSteps \cup Undoable : Rank[s] \in Nat
BY RankFacts DEF InstallSteps, Undoable

\* What is owed after an undo is recorded.
LEMMA OwedAfterAppend ==
    ASSUME TypeOK, NEW e \in Undos, undo' = Append(undo, e)
    PROVE  /\ undo' \in Seq(Undos)
           /\ Owed' = Owed \cup {e}
           /\ UndosAreInOrder /\ (\A d \in Owed : Rank[d.what] < Rank[e.what]) => UndosAreInOrder'
<1>1. undo \in Seq(Undos) /\ undo' \in Seq(Undos)
  BY DEF TypeOK
<1>2. /\ DOMAIN undo = 1 .. Len(undo) /\ DOMAIN undo' = 1 .. (Len(undo) + 1) /\ Len(undo) \in Nat
      /\ \A i \in 1 .. Len(undo) : undo'[i] = undo[i]
      /\ undo'[Len(undo) + 1] = e
  BY <1>1
<1>3. Owed' = Owed \cup {e}
  <2>1. \A x \in Owed' : x \in Owed \cup {e}
    BY <1>2 DEF Owed, Range
  <2>2. \A x \in Owed \cup {e} : x \in Owed'
    BY <1>2 DEF Owed, Range
  <2> QED  BY <2>1, <2>2
<1>4. ASSUME UndosAreInOrder, \A d \in Owed : Rank[d.what] < Rank[e.what]
      PROVE  UndosAreInOrder'
  BY <1>2, <1>4 DEF UndosAreInOrder, Owed, Range
<1> QED  BY <1>1, <1>3, <1>4

\* What is owed after the newest undo is taken off: only what is older.
LEMMA OwedAfterFront ==
    ASSUME TypeOK, UndosAreInOrder, undo # <<>>, undo' = Front(undo)
    PROVE  /\ undo' \in Seq(Undos)
           /\ Last(undo) \in Undos /\ Last(undo) \in Owed
           /\ Owed = Owed' \cup {Last(undo)}
           /\ \A d \in Owed' : Rank[d.what] < Rank[Last(undo).what]
           /\ UndosAreInOrder'
<1>1. undo \in Seq(Undos) /\ Len(undo) \in Nat \ {0}
  BY DEF TypeOK
<1>2. /\ undo' \in Seq(Undos)
      /\ DOMAIN undo = 1 .. Len(undo) /\ DOMAIN undo' = 1 .. (Len(undo) - 1)
      /\ \A i \in 1 .. (Len(undo) - 1) : undo'[i] = undo[i]
      /\ Last(undo) = undo[Len(undo)] /\ Last(undo) \in Undos
  BY <1>1 DEF Front, Last
<1>3. Owed = Owed' \cup {Last(undo)} /\ Last(undo) \in Owed
  <2>1. \A x \in Owed : x \in Owed' \cup {Last(undo)}
    BY <1>1, <1>2 DEF Owed, Range
  <2>2. \A x \in Owed' \cup {Last(undo)} : x \in Owed
    BY <1>1, <1>2 DEF Owed, Range
  <2> QED  BY <2>1, <2>2
<1>4. \A d \in Owed' : Rank[d.what] < Rank[Last(undo).what]
  BY <1>1, <1>2 DEF UndosAreInOrder, Owed, Range
<1>5. UndosAreInOrder'
  <2>1. \A i \in DOMAIN undo' : i \in DOMAIN undo /\ undo'[i] = undo[i]
    BY <1>1, <1>2
  <2> QED  BY <2>1 DEF UndosAreInOrder
<1> QED  BY <1>2, <1>3, <1>4, <1>5

----------------------------------------------------------------------------
(* What a step of an installation does, whichever it is.                   *)

\* It goes forward, fails or is the last; what it leaves half made counts as
\* hurt; and only the two steps of startService touch the process.
GoesOn ==
    /\ pc \in InstallSteps
    /\ \/ pc' = "unwind" /\ met' = TRUE /\ outcome' = outcome
       \/ pc' \in InstallSteps /\ Rank[pc] < Rank[pc'] /\ met' = met /\ outcome' = outcome
       \/ pc = "token" /\ pc' = "idle" /\ outcome' = "installed" /\ met' = met /\ undo' = undo
    /\ UNCHANGED <<failed, job>>
    /\ hurt' = hurt \/ (hurt' = hurt \cup {run} /\ pc' = "unwind")
    /\ process' = process \/ pc \in {"enable", "restart"}
    /\ pc = "enable" /\ pc' = "unwind" /\ run \notin hurt' => process' = process
    /\ (enabled' = enabled \/ enabled' = TRUE) /\ (running' = running \/ running' \in BOOLEAN)
    /\ pc' \in InstallSteps => Rank[pc] >= Rank["enable"] \/ Rank[pc'] <= Rank["enable"]

\* It writes the path it is named for, the copy of the old binary, or a
\* first database.  It goes on from a directory or an account only when that
\* is there, and from the vhost only when nginx accepts the result; and the
\* binary is replaced only once a copy of it is kept.
Writes ==
    /\ disk' \in [Paths -> Places]
    /\ \A p \in Paths :
        \/ disk'[p] = disk[p]
        \/ p = pc /\ (disk'[p] = run \/ (disk'[p] = Torn /\ p \in {"cert", "key", "unit"}))
        \/ p = "previous" /\ pc \in {"clear", "keep"}
        \/ p = "db" /\ disk'[p] = run /\ exists("data")
    /\ pc' \in InstallSteps =>
        \A p \in {"group", "user", "data", "tls"} :
            Rank[pc] <= Rank[p] /\ Rank[p] < Rank[pc'] => p = pc /\ disk'[p] # Absent
    /\ pc' \in InstallSteps =>
        \/ Rank[pc] > Rank["vhost"] \/ Rank[pc'] <= Rank["vhost"]
        \/ pc = "vhost" /\ disk' = Put("vhost", run) /\ Accepts(Put("vhost", run))
    /\ pc' = "binary" =>
        (pc = "clear" /\ ~exists("binary")) \/ (pc = "keep" /\ disk' = Put("previous", disk["binary"]))

\* What it changes it records with what was there, or it has failed half way.
Record ==
    IF pc = "enable" THEN [what |-> "service", had |-> Absent] ELSE [what |-> pc, had |-> disk[pc]]

Records ==
    /\ \/ /\ undo' = undo
          /\ \/ run \in hurt'
             \/ \A p \in Restored :
                  \/ disk'[p] = disk[p]
                  \/ p = pc /\ p \in {"user", "data", "tls"} /\ exists(p) /\ disk'[p] = run
       \/ /\ undo' = Append(undo, Record) /\ pc \in Undoable \cup {"enable"} /\ pc' \in InstallSteps
          /\ pc \in {"group", "user", "data", "tls"} => ~exists(pc)
    /\ pc = "enable" /\ pc' # "unwind" => undo' = Append(undo, Record)

\* What a write, a removal and the paths that go with one leave on the disk.
LEMMA PutFacts ==
    ASSUME TypeOK, NEW p \in Paths, NEW c \in Places
    PROVE  /\ Put(p, c) \in [Paths -> Places]
           /\ Put(p, c)[p] = c
           /\ \A q \in Paths : q # p => Put(p, c)[q] = disk[q]
BY DEF TypeOK, Put

LEMMA RemovedFacts ==
    ASSUME TypeOK, NEW p \in Paths
    PROVE  /\ Removed(p) \in [Paths -> Places]
           /\ \A q \in Within(p) : q \in Paths => Removed(p)[q] = Absent
           /\ \A q \in Paths \ Within(p) : Removed(p)[q] = disk[q]
BY DEF TypeOK, Removed, Places

LEMMA WithinFacts ==
    /\ Within("data") = {"data", "tls", "db", "cert", "key"}
    /\ Within("tls") = {"tls", "cert", "key"}
    /\ Within("user") = {"user", "member", "group"}
    /\ \A p \in Paths \ {"data", "tls", "user"} : Within(p) = {p}
BY DEF Within, Paths

\* What the current run writes is told from nothing and from a torn file.
LEMMA ContentFacts ==
    ASSUME InstallationAssumption, TypeOK
    PROVE  /\ run \in Places /\ run # Absent /\ run # Torn /\ Absent # Torn
           /\ Absent \in Places /\ Torn \in Places
           /\ disk \in [Paths -> Places] /\ \A p \in Paths : disk[p] \in Places
BY DEF TypeOK, InstallationAssumption, Places, Contents, Origins

\* Every step of an installation is one of these.
LEMMA ChangeGoesOn ==
    ASSUME change
    PROVE  GoesOn
<1> USE RankFacts DEF GoesOn, exists, Goto, Fail, FailHalfway, InstallSteps, job, live
<1>1. CASE Ensure("group", "user") \/ Ensure("user", "member")
  BY <1>1 DEF Ensure
<1>2. CASE Ensure("data", "tls") \/ Ensure("tls", "sudoers")
  BY <1>2 DEF Ensure
<1>3. CASE JoinGroup \/ ensureSudoers
  BY <1>3 DEF JoinGroup, ensureSudoers
<1>4. CASE ProveSudo \/ CheckVhost \/ waitHealthy \/ confirmSite
  BY <1>4 DEF ProveSudo, Ask, CheckVhost, waitHealthy, confirmSite
<1>5. CASE ClearPrevious \/ KeepPrevious \/ PlaceBinary
  BY <1>5 DEF ClearPrevious, KeepPrevious, PlaceBinary
<1>6. CASE installCertificate \/ installVhost \/ installUnit
  BY <1>6 DEF installCertificate, writeOwnedFile, installVhost, installUnit
<1>7. CASE DaemonReload \/ reloadProxy
  BY <1>7 DEF DaemonReload, reloadProxy
<1>8. CASE Enable
  BY <1>8 DEF Enable, EnableNow
<1>9. CASE Restart
  BY <1>9 DEF Restart
<1>10. CASE issueToken
  BY <1>10 DEF issueToken, Finish
<1> QED
  BY <1>1, <1>2, <1>3, <1>4, <1>5, <1>6, <1>7, <1>8, <1>9, <1>10 DEF change, ensureAccount, ensureDataDir

LEMMA ChangeWrites ==
    ASSUME InstallationAssumption, TypeOK, change
    PROVE  Writes
<1> USE RankFacts, PutFacts, ContentFacts
    DEF Writes, Paths, exists, Goto, Fail, FailHalfway, InstallSteps
<1>1. CASE Ensure("group", "user") \/ Ensure("user", "member")
  BY <1>1 DEF Ensure, Ensured
<1>2. CASE Ensure("data", "tls") \/ Ensure("tls", "sudoers")
  BY <1>2 DEF Ensure, Ensured
<1>3. CASE JoinGroup
  BY <1>3 DEF JoinGroup
<1>4. CASE ensureSudoers
  BY <1>4 DEF ensureSudoers
<1>5. CASE ProveSudo \/ CheckVhost \/ waitHealthy \/ confirmSite
  BY <1>5 DEF ProveSudo, Ask, CheckVhost, waitHealthy, confirmSite
<1>6. CASE ClearPrevious
  BY <1>6, RemovedFacts, WithinFacts DEF ClearPrevious
<1>7. CASE KeepPrevious
  BY <1>7 DEF KeepPrevious
<1>8. CASE PlaceBinary
  BY <1>8 DEF PlaceBinary
<1>9. CASE installCertificate
  BY <1>9 DEF installCertificate, writeOwnedFile
<1>10. CASE installVhost
  BY <1>10 DEF installVhost
<1>11. CASE installUnit
  BY <1>11 DEF installUnit, writeOwnedFile
<1>12. CASE DaemonReload \/ reloadProxy
  BY <1>12 DEF DaemonReload, reloadProxy
<1>13. CASE Enable
  BY <1>13 DEF Enable, EnableNow, WithDatabase
<1>14. CASE Restart
  BY <1>14 DEF Restart, WithDatabase
<1>15. CASE issueToken
  BY <1>15 DEF issueToken, WithDatabase, Finish
<1> QED
  BY <1>1, <1>2, <1>3, <1>4, <1>5, <1>6, <1>7, <1>8, <1>9, <1>10, <1>11, <1>12, <1>13, <1>14, <1>15
     DEF change, ensureAccount, ensureDataDir

\* So does each of the four that bring something about, found or missing.
LEMMA EnsureRecords ==
    ASSUME InstallationAssumption, TypeOK, NEW p \in {"group", "user", "data", "tls"},
           NEW next \in InstallSteps, Ensure(p, next)
    PROVE  Records
<1>1. pc = p /\ p \in Paths /\ p \in Undoable /\ pc # "enable" /\ run \in Places
  BY ContentFacts DEF Ensure, Paths, Undoable, TypeOK
<1>2. Record = [what |-> p, had |-> disk[p]]
  BY <1>1 DEF Record
<1>3. CASE exists(p) /\ disk' = Ensured(p) /\ UNCHANGED undo
  <2>1. CASE p = "group"
    BY <1>1, <1>3, <2>1 DEF Ensured, Records
  <2>2. CASE p # "group"
    <3>1. disk' = Put(p, run)
      BY <1>3, <2>2 DEF Ensured
    <3>2. disk'[p] = run /\ \A q \in Restored : q # p => disk'[q] = disk[q]
      BY <1>1, <3>1, PutFacts DEF Restored
    <3> QED
      BY <1>1, <1>3, <2>2, <3>2 DEF Records
  <2> QED
    BY <2>1, <2>2
<1>4. CASE ~exists(p) /\ undoing(p, Absent) /\ Goto(next)
  <2>1. undo' = Append(undo, Record) /\ pc' \in InstallSteps /\ ~exists(pc)
    BY <1>1, <1>2, <1>4 DEF undoing, Goto, exists
  <2> QED
    BY <1>1, <2>1 DEF Records
<1>5. CASE Fail /\ UNCHANGED <<disk, undo>>
  BY <1>1, <1>5 DEF Records
<1>6. CASE FailHalfway /\ UNCHANGED undo
  BY <1>1, <1>6 DEF Records, FailHalfway
<1> QED
  BY <1>3, <1>4, <1>5, <1>6 DEF Ensure

LEMMA ChangeRecords ==
    ASSUME InstallationAssumption, TypeOK, change
    PROVE  Records
<1>a. /\ pc # "enable" => Record = [what |-> pc, had |-> disk[pc]]
      /\ pc = "enable" => Record = [what |-> "service", had |-> Absent]
  BY DEF Record
<1> USE RankFacts, PutFacts, ContentFacts, <1>a
    DEF Records, Paths, exists, Goto, Fail, FailHalfway, undoing, Undoable, Restored, InstallSteps
<1>1. CASE Ensure("group", "user")
  BY <1>1, EnsureRecords
<1>2. CASE Ensure("user", "member")
  BY <1>2, EnsureRecords
<1>3. CASE Ensure("data", "tls")
  BY <1>3, EnsureRecords
<1>4. CASE Ensure("tls", "sudoers")
  BY <1>4, EnsureRecords
<1>5. CASE JoinGroup
  BY <1>5 DEF JoinGroup
<1>6. CASE ensureSudoers
  BY <1>6 DEF ensureSudoers
<1>7. CASE ProveSudo \/ CheckVhost \/ waitHealthy \/ confirmSite
  BY <1>7 DEF ProveSudo, Ask, CheckVhost, waitHealthy, confirmSite
<1>8. CASE ClearPrevious
  BY <1>8, RemovedFacts, WithinFacts DEF ClearPrevious
<1>9. CASE KeepPrevious
  BY <1>9 DEF KeepPrevious
<1>10. CASE PlaceBinary
  BY <1>10 DEF PlaceBinary
<1>11. CASE installCertificate
  <2>1. CASE writeOwnedFile("cert", "key")
    BY <2>1 DEF writeOwnedFile
  <2>2. CASE writeOwnedFile("key", "vhost")
    BY <2>2 DEF writeOwnedFile
  <2> QED  BY <1>11, <2>1, <2>2 DEF installCertificate
<1>12. CASE installVhost
  BY <1>12 DEF installVhost
<1>13. CASE installUnit
  BY <1>13 DEF installUnit, writeOwnedFile
<1>14. CASE DaemonReload \/ reloadProxy
  BY <1>14 DEF DaemonReload, reloadProxy
<1>15. CASE Enable
  BY <1>15 DEF Enable, EnableNow, WithDatabase
<1>16. CASE Restart
  BY <1>16 DEF Restart, WithDatabase
<1>17. CASE issueToken
  BY <1>17 DEF issueToken, WithDatabase, Finish
<1> QED
  BY <1>1, <1>2, <1>3, <1>4, <1>5, <1>6, <1>7, <1>8, <1>9, <1>10, <1>11, <1>12, <1>13, <1>14, <1>15,
     <1>16, <1>17
     DEF change, ensureAccount, ensureDataDir

----------------------------------------------------------------------------
(* What a step of the unwinding, of a removal and of a beginning does.     *)

\* An undo is the newest, and leaves the older ones owed.
LEMMA UndoingFacts ==
    ASSUME TypeOK, UndosAreInOrder, NEW S, Undoing(S)
    PROVE  /\ pc = "unwind" /\ pc' = "unwind" /\ UNCHANGED <<outcome, running, failed, job>>
           /\ undo' \in Seq(Undos) /\ Last(undo) \in Undos /\ Last(undo) \in Owed
           /\ Last(undo).what \in S
           /\ Owed = Owed' \cup {Last(undo)}
           /\ \A d \in Owed' : Rank[d.what] < Rank[Last(undo).what]
           /\ UndosAreInOrder'
BY OwedAfterFront DEF Undoing

LEMMA UnwindGoesOn ==
    ASSUME unwind
    PROVE  /\ pc = "unwind" /\ UNCHANGED <<running, failed, job>>
           /\ \/ pc' = "unwind" /\ outcome' = outcome
              \/ pc' = "idle" /\ outcome' = "failed" /\ undo = <<>> /\ Unwound
           /\ hurt' = hurt \/ hurt' = hurt \cup {run}
           /\ met' \in {met, TRUE} /\ enabled' \in {enabled, FALSE}
           /\ process' \in {process, Absent}
BY DEF unwind, restorer, UndoUnit, UndoDirectory, UndoBinary, UndoAccount, UndoService, UndoFails,
       Unwound, Undoing, UndoFailed, Finish, live, job

\* A step of a removal takes paths away and never brings one back.
RemoveStep ==
    /\ pc \in UninstallSteps /\ pc' \in UninstallSteps \cup {"idle"}
    /\ UNCHANGED <<undo, running, job>>
    /\ outcome' = outcome \/ pc' = "idle"
    /\ outcome' \in {outcome, "refused", "incomplete", "removed"}
    /\ failed' \in {failed, TRUE} /\ met' \in {met, TRUE} /\ enabled' \in {enabled, FALSE}
    /\ hurt' = hurt \/ hurt' = hurt \cup {run}
    /\ process' \in {process, Absent}

LEMMA RemoveIsAStep ==
    ASSUME remove
    PROVE  RemoveStep
<1> USE DEF RemoveStep, Removing, RemovePath, Continue, failf, live, job, UninstallSteps, Challenges
<1>1. CASE Confirm
  BY <1>1 DEF Confirm, Goto, Finish
<1>2. CASE removeVhost \/ DisableService
  BY <1>2 DEF removeVhost, DisableService
<1>3. CASE removeUnit \/ removeFile \/ removeTLS
  BY <1>3 DEF removeUnit, removeFile, removeTLS
<1>4. CASE removeAccount
  BY <1>4 DEF removeAccount
<1>5. CASE removeDataDir
  BY <1>5 DEF removeDataDir, Finish
<1> QED
  BY <1>1, <1>2, <1>3, <1>4, <1>5 DEF remove

----------------------------------------------------------------------------
\* A step of an installation records one undo or none.
LEMMA OwedAfterChange ==
    ASSUME InstallationAssumption, TypeOK, change
    PROVE  /\ undo' \in Seq(Undos)
           /\ \/ undo' = undo /\ Owed' = Owed
              \/ undo' = Append(undo, Record) /\ Record \in Undos /\ Owed' = Owed \cup {Record}
<1>1. pc \in Undoable \cup {"enable"} => Record \in Undos
  BY ChangeGoesOn, ContentFacts DEF GoesOn, InstallSteps, Record, Undos, Undoable, Paths
<1>2. CASE undo' = undo
  BY <1>2 DEF TypeOK, Owed
<1>3. CASE undo' = Append(undo, Record) /\ pc \in Undoable \cup {"enable"}
  BY <1>1, <1>3, OwedAfterAppend
<1> QED
  BY <1>2, <1>3, ChangeRecords DEF Records

\* The values are kept by every step.
LEMMA DiskIsTyped ==
    ASSUME InstallationAssumption, TypeOK, UndosAreInOrder, change \/ unwind \/ remove \/ Reboot
    PROVE  disk' \in [Paths -> Places]
<1> USE PutFacts, RemovedFacts, ContentFacts DEF Paths, exists
<1>1. CASE change
  BY <1>1, ChangeWrites DEF Writes
<1>2. CASE unwind
  <2>1. CASE restorer
    BY <2>1, UndoingFacts DEF restorer, Undos, Had
  <2>2. CASE UndoUnit
    BY <2>2, UndoingFacts DEF UndoUnit, Undos, Had
  <2>3. CASE UndoDirectory
    BY <2>3, UndoingFacts DEF UndoDirectory
  <2>4. CASE UndoBinary
    <3>1. [Put("binary", disk["previous"]) EXCEPT !["previous"] = Absent] \in [Paths -> Places]
      OBVIOUS
    <3> QED  BY <2>4, <3>1 DEF UndoBinary
  <2>5. CASE UndoAccount \/ UndoService \/ UndoFails \/ Unwound
    BY <2>5 DEF UndoAccount, UndoService, UndoFails, Unwound
  <2> QED  BY <1>2, <2>1, <2>2, <2>3, <2>4, <2>5 DEF unwind
<1>3. CASE remove
  <2>1. CASE Confirm \/ removeVhost \/ DisableService \/ removeUnit
    BY <2>1 DEF Confirm, removeVhost, DisableService, removeUnit, RemovePath
  <2>2. CASE removeFile \/ removeTLS
    BY <2>2 DEF removeFile, removeTLS, RemovePath
  <2>3. CASE removeAccount \/ removeDataDir
    BY <2>3 DEF removeAccount, removeDataDir, RemovePath
  <2> QED  BY <1>3, <2>1, <2>2, <2>3 DEF remove
<1>4. CASE Reboot
  BY <1>4 DEF Reboot, WithDatabase
<1> QED
  BY <1>1, <1>2, <1>3, <1>4

LEMMA BeginIsTyped ==
    ASSUME InstallationAssumption, TypeOK, Install \/ Uninstall
    PROVE  TypeOK'
<1>1. /\ run \in Origins /\ run' = run + 1 /\ run' \in Origins
      /\ \A x : x \in Places => x \in Places'
  BY DEF Install, Uninstall, Begin, TypeOK, InstallationAssumption, Origins, Places, Contents
<1>2. /\ disk' = disk /\ found'.disk = disk /\ undo' = <<>>
      /\ failed' = FALSE /\ met' = FALSE /\ running' = FALSE /\ enabled' = enabled
  BY DEF Install, Uninstall, Begin, live
<1>3. disk' \in [Paths -> Places'] /\ found'.disk \in [Paths -> Places']
  BY <1>1, <1>2 DEF TypeOK
<1>4. secure' \in [Origins -> BOOLEAN] /\ removeData' \in BOOLEAN
  <2>1. CASE Install
    BY <2>1 DEF Install, TypeOK
  <2>2. CASE Uninstall
    BY <2>2 DEF Uninstall, TypeOK
  <2> QED  BY <2>1, <2>2
<1>5. pc' \in InstallSteps \cup UninstallSteps \cup {"idle", "unwind"} /\ outcome' \in Outcomes
  BY DEF Install, Uninstall, Begin, Outcomes, InstallSteps, UninstallSteps
<1>6. undo' \in Seq(Undos)'
  BY <1>2
<1> QED
  BY <1>1, <1>2, <1>3, <1>4, <1>5, <1>6 DEF TypeOK

LEMMA TypeIsKept ==
    ASSUME InstallationAssumption, TypeOK, UndosAreInOrder, [Next]_vars
    PROVE  TypeOK'
<1>1. CASE Install \/ Uninstall
  BY <1>1, BeginIsTyped
<1>2. ASSUME change \/ unwind \/ remove \/ Kill \/ Reboot \/ UNCHANGED vars
      PROVE  TypeOK'
  <2>1. UNCHANGED job
    BY <1>2, ChangeGoesOn, UnwindGoesOn, RemoveIsAStep DEF GoesOn, RemoveStep, Kill, Reboot, vars
  <2>2. Places' = Places /\ Undos' = Undos /\ found' = found /\ run' = run /\ secure' = secure
        /\ removeData' = removeData
    BY <2>1 DEF Places, Contents, Undos, job
  <2>3. disk' \in [Paths -> Places]
    BY <1>2, DiskIsTyped DEF Kill, vars, TypeOK
  <2>4. undo' \in Seq(Undos)
    <3>1. CASE change
      BY <3>1, OwedAfterChange
    <3>2. CASE unwind
      BY <3>2, UndoingFacts DEF unwind, restorer, UndoUnit, UndoDirectory, UndoBinary, UndoAccount,
           UndoService, UndoFails, Unwound, TypeOK
    <3> QED  BY <1>2, <3>1, <3>2, RemoveIsAStep DEF RemoveStep, Kill, Reboot, vars, TypeOK
  <2>5. pc' \in InstallSteps \cup UninstallSteps \cup {"idle", "unwind"} /\ outcome' \in Outcomes
    BY <1>2, ChangeGoesOn, UnwindGoesOn, RemoveIsAStep
       DEF GoesOn, RemoveStep, Kill, Reboot, vars, TypeOK, Outcomes
  <2>6. enabled' \in BOOLEAN /\ running' \in BOOLEAN /\ failed' \in BOOLEAN /\ met' \in BOOLEAN
    BY <1>2, ChangeGoesOn, UnwindGoesOn, RemoveIsAStep
       DEF GoesOn, RemoveStep, Kill, Reboot, vars, TypeOK, live, job
  <2> QED  BY <2>2, <2>3, <2>4, <2>5, <2>6 DEF TypeOK
<1> QED
  BY <1>1, <1>2 DEF Next

----------------------------------------------------------------------------
\* The steps of an installation, of its unwinding and of a removal are apart.
LEMMA PhasesAreApart ==
    /\ "idle" \notin InstallSteps \cup UninstallSteps
    /\ "unwind" \notin InstallSteps \cup UninstallSteps
    /\ \A s \in InstallSteps : s \notin UninstallSteps
BY DEF InstallSteps, UninstallSteps, Challenges

\* Where a step that is not one of an installation or of its unwinding leads.
LEMMA OtherSteps ==
    ASSUME remove \/ Kill \/ Reboot
    PROVE  /\ pc' \notin InstallSteps \cup {"unwind"}
           /\ undo' = undo /\ Owed' = Owed /\ UNCHANGED job
BY RemoveIsAStep, PhasesAreApart DEF RemoveStep, Kill, Reboot, Owed, job

\* A run begins with nothing to undo and finds the host as it is.
LEMMA BeginFacts ==
    ASSUME Install \/ Uninstall
    PROVE  /\ pc = "idle" /\ (pc' = "idle" \/ pc' = "group" \/ pc' \in Challenges)
           /\ pc' = "group" => Install
           /\ pc' \in Challenges => Uninstall
           /\ run' = run + 1 /\ run < MaxRuns
           /\ undo' = <<>> /\ Owed' = {}
           /\ disk' = disk /\ process' = process /\ hurt' = hurt /\ failed' = FALSE /\ met' = FALSE
           /\ found'.disk = disk /\ found'.process = process
           /\ (pc' = "idle" /\ outcome' = "refused") \/ (pc' # "idle" /\ outcome' = "none")
BY DEF Install, Uninstall, Begin, Owed, Range, live, Challenges

\* What is recorded is the step's own, and holds what no earlier step of the run touched.
LEMMA OrderIsKept ==
    ASSUME InstallationAssumption, TypeOK, OrderParts, YetToCome, [Next]_vars
    PROVE  OrderParts'
<1> USE DEF OrderParts
<1>1. CASE Install \/ Uninstall
  <2>1. undo' = <<>> /\ Owed' = {}
    BY <1>1, BeginFacts
  <2> QED
    BY <2>1 DEF UndosAreInOrder, UndosAreOfThePast, UndosHaveWhatWasFound
<1>2. CASE change
  <2>1. /\ pc \in InstallSteps /\ found' = found
        /\ pc' \in InstallSteps => Rank[pc] < Rank[pc'] /\ Rank[pc] \in Nat /\ Rank[pc'] \in Nat
    BY <1>2, ChangeGoesOn, PhasesAreApart, RankIsANumber DEF GoesOn, job
  <2>2. \A e \in Owed : Rank[e.what] < Rank[pc] /\ Rank[e.what] \in Nat
    <3>1. \A e \in Owed : e \in Undos
      BY DEF Owed, Range, TypeOK
    <3> QED  BY <2>1, <3>1, RankIsANumber DEF UndosAreOfThePast, Undos
  <2>3. CASE undo' = undo /\ Owed' = Owed
    BY <2>1, <2>2, <2>3 DEF UndosAreInOrder, UndosAreOfThePast, UndosHaveWhatWasFound
  <2>4. CASE undo' # undo
    <3>1. /\ undo' = Append(undo, Record) /\ Record \in Undos /\ Owed' = Owed \cup {Record}
          /\ pc \in Undoable \cup {"enable"}
          /\ pc \in {"group", "user", "data", "tls"} => disk[pc] = Absent
      BY <1>2, <2>4, OwedAfterChange, ChangeRecords DEF Records, exists
    <3>2. /\ Rank[Record.what] = Rank[pc]
          /\ Record.what # "service" => Record.what = pc /\ Record.had = disk[pc]
      BY <3>1, <2>1, RankFacts DEF Record, InstallSteps
    <3>3. UndosAreInOrder'
      BY <3>1, <3>2, <2>2, OwedAfterAppend
    <3>4. UndosAreOfThePast'
      BY <3>1, <3>2, <2>1, <2>2 DEF UndosAreOfThePast
    <3>5. Record.what # "service" => Record.had = found.disk[Record.what]
      <4>1. Record.what # "service" => pc \in Restored
        BY <3>1, <3>2, <2>1 DEF Undos, Undoable, InstallSteps, Restored, Paths
      <4> QED  BY <4>1, <3>2, <2>1, RankIsANumber DEF YetToCome
    <3>6. UndosHaveWhatWasFound'
      BY <3>1, <3>2, <3>5, <2>1 DEF UndosHaveWhatWasFound
    <3> QED  BY <3>3, <3>4, <3>6
  <2> QED  BY <1>2, <2>3, <2>4, OwedAfterChange
<1>3. CASE unwind
  <2>1. ASSUME NEW S, Undoing(S)
        PROVE  OrderParts'
    BY <2>1, UndoingFacts, PhasesAreApart DEF UndosAreOfThePast, UndosHaveWhatWasFound, job
  <2>2. CASE Unwound
    BY <2>2, PhasesAreApart
       DEF Unwound, Finish, UndosAreInOrder, UndosAreOfThePast, UndosHaveWhatWasFound
  <2> QED
    BY <1>3, <2>1, <2>2
       DEF unwind, restorer, UndoUnit, UndoDirectory, UndoBinary, UndoAccount, UndoService, UndoFails
<1>4. CASE remove \/ Kill \/ Reboot
  BY <1>4, OtherSteps DEF UndosAreInOrder, UndosAreOfThePast, UndosHaveWhatWasFound
<1>5. CASE UNCHANGED vars
  BY <1>5 DEF vars, job, UndosAreInOrder, UndosAreOfThePast, UndosHaveWhatWasFound, Owed
<1> QED
  BY <1>1, <1>2, <1>3, <1>4, <1>5 DEF Next

----------------------------------------------------------------------------
\* The host stays in order: an installation only adds to what is there.
LEMMA ChangeKeepsHost ==
    ASSUME InstallationAssumption, TypeOK, OrderParts, HostParts, change
    PROVE  HostParts'
<1>1. GoesOn /\ Writes /\ Records
  BY ChangeGoesOn, ChangeWrites, ChangeRecords
<1>2. pc \in InstallSteps /\ found' = found /\ pc' # "removeGroup"
  BY <1>1, PhasesAreApart DEF GoesOn, job, InstallSteps
<1>3. \A p \in Paths \ {"previous"} : exists(p) => disk'[p] # Absent
  BY <1>1, ContentFacts DEF Writes, exists
<1>4. StepsStandOnSteps'
  BY <1>1, <1>2, <1>3, RankFacts, RankIsANumber
     DEF HostParts, Writes, StepsStandOnSteps, exists, Paths, InstallSteps
<1>5. Nested(disk')
  <2>1. disk["vhost"] # Torn => disk'["vhost"] # Torn
    BY <1>1, ContentFacts DEF Writes, Paths
  <2>2. ASSUME NEW p \in {"member", "user", "cert", "key", "tls"}, pc = p
        PROVE  \A q \in {"group", "user", "data", "tls"} : Rank[q] < Rank[p] => disk'[q] # Absent
    BY <2>2, <1>2, <1>3 DEF HostParts, StepsStandOnSteps, Paths
  <2>3. \A p \in {"member", "user", "cert", "key", "tls"} : disk'[p] = disk[p] \/ pc = p
    BY <1>1 DEF Writes, Paths
  <2>4. disk'["db"] = disk["db"] \/ exists("data")
    BY <1>1, <1>2 DEF Writes, Paths, InstallSteps
  <2> QED
    BY <2>1, <2>2, <2>3, <2>4, <1>3, RankFacts DEF HostParts, Nested, exists, Paths
<1>6. ProcessHasUser'
  BY <1>1, <1>2, <1>3, RankFacts
     DEF HostParts, ProcessHasUser, StepsStandOnSteps, GoesOn, Paths, exists
<1>7. FilesStandOnDirectories'
  <2>1. ASSUME pc' = "unwind", (Owes("cert") \/ Owes("key"))'
        PROVE  disk'["tls"] # Absent
    <3>1. Owed' = Owed
      BY <2>1, <1>1, PhasesAreApart DEF Records, Owed
    <3>2. PICK e \in Owed : e.what \in {"cert", "key"}
      BY <2>1, <3>1 DEF Owes
    <3>3. Rank[e.what] < Rank[pc] /\ Rank[pc] \in Nat
      BY <1>2, RankIsANumber DEF OrderParts, UndosAreOfThePast
    <3>4. Rank["tls"] < Rank[pc]
      BY <3>2, <3>3, RankFacts
    <3> QED
      BY <3>4, <1>2, <1>3 DEF HostParts, StepsStandOnSteps, Paths
  <2> QED  BY <2>1 DEF FilesStandOnDirectories, exists
<1> QED
  BY <1>2, <1>4, <1>5, <1>6, <1>7 DEF HostParts, GroupIsFree, FoundInOrder

\* It does while steps are undone, as what stands on a path is undone before it.
LEMMA UnwindKeepsHost ==
    ASSUME InstallationAssumption, TypeOK, OrderParts, HostParts, unwind
    PROVE  HostParts'
<1>1. pc = "unwind" /\ pc' \in {"unwind", "idle"} /\ found' = found /\ process' \in {process, Absent}
  BY UnwindGoesOn DEF job
<1>2. StepsStandOnSteps' /\ GroupIsFree' /\ FoundInOrder'
  BY <1>1, PhasesAreApart DEF HostParts, StepsStandOnSteps, GroupIsFree, FoundInOrder
<1> DEFINE e == Last(undo)
<1> USE DEF HostParts, Nested, ProcessHasUser, FilesStandOnDirectories, Owes, exists, Paths
<1>3. ASSUME NEW S, Undoing(S)
      PROVE  /\ e \in Owed /\ e.what \in S /\ e.had \in Places
             /\ e.what # "service" => e.had = found.disk[e.what]
             /\ \A d \in Owed' : d \in Owed /\ Rank[d.what] < Rank[e.what]
  BY <1>3, UndoingFacts DEF OrderParts, UndosHaveWhatWasFound, Undos
<1> HIDE DEF e
<1>4. CASE restorer
  <2>1. /\ e \in Owed /\ e.what \in {"sudoers", "cert", "key", "vhost"} /\ e.had \in Places
        /\ e.had = found.disk[e.what] /\ \A d \in Owed' : d \in Owed
        /\ disk' = Put(e.what, e.had) /\ process' = process
    BY <1>4, <1>3 DEF restorer, Had, live, e
  <2>2. disk'[e.what] = e.had /\ \A q \in Paths : q # e.what => disk'[q] = disk[q]
    BY <2>1, PutFacts
  <2>3. e.what \in {"cert", "key"} => exists("tls")
    BY <1>1, <2>1
  <2>4. found.disk["vhost"] # Torn
    BY DEF FoundInOrder
  <2>5. Nested(disk')
    BY <2>1, <2>2, <2>3, <2>4
  <2>6. ProcessHasUser' /\ FilesStandOnDirectories'
    BY <1>1, <2>1, <2>2
  <2> QED  BY <1>2, <2>5, <2>6
<1>5. CASE UndoUnit
  <2>1. /\ disk' = Put("unit", e.had) /\ e.had \in Places
        /\ process' = process /\ \A d \in Owed' : d \in Owed
    BY <1>5, <1>3 DEF UndoUnit, Had, e
  <2>2. \A q \in Paths : q # "unit" => disk'[q] = disk[q]
    BY <2>1, PutFacts
  <2> QED  BY <1>2, <1>1, <2>1, <2>2
<1>6. CASE UndoDirectory
  <2>1. /\ e.what \in {"data", "tls"} /\ disk' = Removed(e.what) /\ process' = process
        /\ \A d \in Owed' : Rank[d.what] < Rank[e.what]
    BY <1>6, <1>3 DEF UndoDirectory, live, e
  <2>2. \A d \in Owed' : d.what \notin {"cert", "key"}
    BY <2>1, RankFacts
  <2> QED  BY <1>2, <2>1, <2>2, RemovedFacts, WithinFacts
<1>7. CASE UndoBinary
  <2>1. process' = process /\ \A d \in Owed' : d \in Owed
    BY <1>7, <1>3 DEF UndoBinary, live
  <2>2. \A q \in Paths : q \notin {"binary", "previous"} => disk'[q] = disk[q]
    BY <1>7, PutFacts, RemovedFacts, WithinFacts, ContentFacts DEF UndoBinary
  <2> QED  BY <1>2, <1>1, <2>1, <2>2
<1>8. CASE UndoAccount
  <2>1. process' = process /\ \A d \in Owed' : d \in Owed
    BY <1>8, <1>3 DEF UndoAccount, live
  <2> QED  BY <1>2, <1>1, <1>8, <2>1, RemovedFacts, WithinFacts DEF UndoAccount
<1>9. CASE UndoService \/ UndoFails
  <2>1. disk' = disk /\ \A d \in Owed' : d \in Owed
    BY <1>9, <1>3 DEF UndoService, UndoFails
  <2> QED  BY <1>2, <1>1, <2>1
<1>10. CASE Unwound
  BY <1>2, <1>10 DEF Unwound, Finish, live
<1> QED
  BY <1>4, <1>5, <1>6, <1>7, <1>8, <1>9, <1>10 DEF unwind

\* And it does while it is removed.
LEMMA RemoveKeepsHost ==
    ASSUME InstallationAssumption, TypeOK, HostParts, remove
    PROVE  HostParts'
<1>1. pc \in UninstallSteps /\ pc' \in UninstallSteps \cup {"idle"} /\ found' = found
  BY RemoveIsAStep DEF RemoveStep, job
<1>2. StepsStandOnSteps' /\ FilesStandOnDirectories' /\ FoundInOrder'
  BY <1>1, PhasesAreApart DEF HostParts, StepsStandOnSteps, FilesStandOnDirectories, FoundInOrder
<1> USE RemovedFacts, WithinFacts
    DEF HostParts, Nested, ProcessHasUser, GroupIsFree, exists, Paths, RemovePath,
        Removing, Continue, failf
<1>3. CASE Confirm
  BY <1>2, <1>3 DEF Confirm, Goto, Finish, live
<1>4. CASE removeVhost \/ DisableService
  BY <1>2, <1>4 DEF removeVhost, DisableService, live
<1>5. CASE removeUnit
  BY <1>2, <1>5 DEF removeUnit, live
<1>6. CASE removeFile
  BY <1>2, <1>6 DEF removeFile, live
<1>7. CASE removeTLS
  BY <1>2, <1>7 DEF removeTLS, live
<1>8. CASE removeAccount
  BY <1>2, <1>8 DEF removeAccount, live
<1>9. CASE removeDataDir
  BY <1>2, <1>9 DEF removeDataDir, Finish, live
<1> QED
  BY <1>3, <1>4, <1>5, <1>6, <1>7, <1>8, <1>9 DEF remove

LEMMA HostIsKept ==
    ASSUME InstallationAssumption, TypeOK, OrderParts, HostParts, [Next]_vars
    PROVE  HostParts'
<1>1. CASE Install \/ Uninstall
  <2>1. pc' \notin InstallSteps \/ pc' = "group"
    BY <1>1, BeginFacts, PhasesAreApart DEF Challenges, InstallSteps
  <2>2. StepsStandOnSteps'
    BY <2>1, RankFacts DEF StepsStandOnSteps
  <2> QED
    BY <1>1, <2>2, BeginFacts
       DEF HostParts, Nested, ProcessHasUser, FilesStandOnDirectories, GroupIsFree, FoundInOrder,
           exists, Challenges
<1>2. CASE Kill
  BY <1>2, PhasesAreApart
     DEF Kill, live, job, HostParts, Nested, ProcessHasUser, StepsStandOnSteps, FilesStandOnDirectories,
         GroupIsFree, FoundInOrder, exists
<1>3. CASE Reboot
  <2>0. disk' = disk \/ disk' = Put("db", run)
    BY <1>3 DEF Reboot, WithDatabase
  <2>1. \A q \in Paths : q # "db" => disk'[q] = disk[q]
    BY <2>0, PutFacts, ContentFacts DEF Paths
  <2>2. disk'["db"] = disk["db"] \/ exists("data")
    BY <1>3 DEF Reboot, WithDatabase
  <2>3. process' # Absent => exists("user")
    BY <1>3 DEF Reboot
  <2> QED
    BY <1>3, <2>1, <2>2, <2>3, PhasesAreApart
       DEF Reboot, job, HostParts, Nested, ProcessHasUser, StepsStandOnSteps, FilesStandOnDirectories,
           GroupIsFree, FoundInOrder, exists, Paths
<1>4. CASE UNCHANGED vars
  BY <1>4 DEF vars, live, job, HostParts, Nested, ProcessHasUser, StepsStandOnSteps,
     FilesStandOnDirectories, Owes, Owed, GroupIsFree, FoundInOrder, exists
<1> QED
  BY <1>1, <1>2, <1>3, <1>4, ChangeKeepsHost, UnwindKeepsHost, RemoveKeepsHost DEF Next

----------------------------------------------------------------------------
\* What a step changes is owed from then on, and what lies ahead is as found.
LEMMA ChangeKeepsWhatIsOwed ==
    ASSUME InstallationAssumption, TypeOK, OrderParts, RestoreParts, change
    PROVE  RestoreParts'
<1>1. GoesOn /\ Writes /\ Records
  BY ChangeGoesOn, ChangeWrites, ChangeRecords
<1>2. /\ pc \in InstallSteps /\ found' = found /\ run' = run /\ outcome = "none"
      /\ (outcome' = "none" \/ (outcome' = "installed" /\ pc' = "idle"))
      /\ Rank[pc] \in Nat
      /\ pc' \in InstallSteps => Rank[pc'] \in Nat /\ Rank[pc] < Rank[pc']
      /\ run \notin hurt' => run \notin hurt
  BY <1>1, PhasesAreApart, RankIsANumber DEF GoesOn, job, RestoreParts, OutcomeIsOfTheEnd
<1>3. OutcomeIsOfTheEnd' /\ FilesAreRestored'
  BY <1>2 DEF OutcomeIsOfTheEnd, FilesAreRestored
<1>4. /\ \A d \in Owed : d \in Owed'
      /\ \A d \in Owed' : d \in Owed \/ (d = Record /\ undo' = Append(undo, Record))
      /\ undo' = Append(undo, Record) => Record \in Owed' /\ pc \in Undoable \cup {"enable"}
      /\ undo' = undo \/ undo' = Append(undo, Record)
  <2>1. CASE undo' = Append(undo, Record)
    <3>1. undo' # undo
      BY <2>1 DEF TypeOK
    <3> QED  BY <2>1, <3>1, <1>1, OwedAfterChange DEF Records
  <2>2. CASE undo' = undo
    <3>1. undo' # Append(undo, Record)
      BY <2>2 DEF TypeOK
    <3> QED  BY <2>2, <3>1 DEF Owed
  <2> QED  BY <1>1, <2>1, <2>2 DEF Records
<1>5. /\ pc = "enable" => Record.what = "service"
      /\ pc # "enable" => Record.what = pc /\ Record.had = disk[pc]
  BY DEF Record
<1>6. \A p : Owes(p) => Owes(p)'
  BY <1>4 DEF Owes
<1>7. YetToCome'
  <2>1. ASSUME pc' \in InstallSteps, NEW p \in Restored, Rank[pc'] <= Rank[p]
        PROVE  disk'[p] = found'.disk[p]
    <3>1. Rank[p] \in Nat
      BY RankFacts DEF Restored, Paths
    <3>2. Rank[pc] < Rank[p]
      BY <2>1, <3>1, <1>2
    <3>3. disk'[p] = disk[p]
      <4>1. p # pc
        BY <3>1, <3>2
      <4> QED  BY <4>1, <1>1 DEF Writes, Restored
    <3> QED  BY <3>1, <3>2, <3>3, <1>2 DEF RestoreParts, YetToCome
  <2> QED  BY <2>1 DEF YetToCome
<1>8. ChangesAreOwed'
  <2>1. ASSUME run \notin hurt', NEW p \in Restored
        PROVE  disk'[p] = found.disk[p] \/ Owes(p)' \/ Renewed(p)'
    <3>1. CASE disk'[p] = disk[p]
      BY <3>1, <2>1, <1>2, <1>6, PhasesAreApart DEF RestoreParts, ChangesAreOwed, Renewed
    <3>2. CASE disk'[p] # disk[p]
      <4>1. p = pc
        BY <3>2, <1>1 DEF Writes, Restored
      <4>2. CASE undo' = Append(undo, Record)
        <5>1. pc # "enable"
          BY <4>1 DEF Restored, Paths
        <5> QED  BY <4>1, <4>2, <5>1, <1>4, <1>5 DEF Owes
      <4>3. CASE undo' # Append(undo, Record)
        <5>1. p \in {"user", "data", "tls"} /\ exists(p) /\ disk'[p] = run
          BY <3>2, <2>1, <4>1, <4>3, <1>1 DEF Records
        <5>2. disk[p] = found.disk[p]
          BY <4>1, <1>2 DEF RestoreParts, YetToCome
        <5> QED  BY <5>1, <5>2, <1>2 DEF Renewed, exists
      <4> QED  BY <4>2, <4>3
    <3> QED  BY <3>1, <3>2
  <2> QED  BY <2>1, <1>2 DEF ChangesAreOwed
<1>9. OldBinaryIsKept'
  <2>1. ASSUME pc' = "binary", disk'["binary"] # Absent
        PROVE  disk'["previous"] = disk'["binary"]
    <3>1. pc \in {"clear", "keep"} /\ disk'["binary"] = disk["binary"]
      BY <2>1, <1>1 DEF Writes, Paths
    <3> QED  BY <3>1, <2>1, <1>1, PutFacts, ContentFacts DEF Writes, exists, Paths
  <2>2. ASSUME NEW d \in Owed', d.what = "binary", d.had # Absent
        PROVE  disk'["previous"] = d.had
    <3>1. CASE d \in Owed
      <4>1. Rank["binary"] < Rank[pc] /\ disk["previous"] = d.had
        BY <3>1, <2>2, <1>2 DEF OrderParts, UndosAreOfThePast, RestoreParts, OldBinaryIsKept
      <4>2. pc \notin {"clear", "keep"}
        BY <4>1, RankFacts
      <4> QED  BY <4>1, <4>2, <1>1, <1>2 DEF Writes, Paths, InstallSteps
    <3>2. CASE d = Record
      <4>1. pc = "binary" /\ d.had = disk["binary"]
        BY <3>2, <2>2, <1>5
      <4> QED  BY <4>1, <2>2, <1>1 DEF Writes, Paths, RestoreParts, OldBinaryIsKept, exists
    <3> QED  BY <3>1, <3>2, <1>4
  <2> QED  BY <2>1, <2>2 DEF OldBinaryIsKept, exists
<1>10. ServiceIsOwed'
  <2>1. ASSUME pc' \in InstallSteps, Rank[pc'] > Rank["enable"]
        PROVE  Owes("service")'
    <3>1. pc = "enable" \/ Rank[pc] > Rank["enable"]
      BY <2>1, <1>1, <1>2, RankFacts DEF GoesOn, InstallSteps
    <3>2. CASE pc = "enable"
      BY <2>1, <3>2, <1>1, <1>4, <1>5, PhasesAreApart DEF Records, Owes
    <3> QED  BY <3>1, <3>2, <1>2, <1>6 DEF RestoreParts, ServiceIsOwed
  <2> QED  BY <2>1 DEF ServiceIsOwed
<1>11. ProcessIsOwed'
  <2>1. ASSUME run \notin hurt', process' # Absent, pc' \in InstallSteps \cup {"unwind"}
        PROVE  process' = found.process \/ Owes("service")'
    <3>1. CASE process' = process
      BY <3>1, <2>1, <1>2, <1>6 DEF RestoreParts, ProcessIsOwed
    <3>2. CASE pc = "restart"
      BY <3>2, <1>2, <1>6, RankFacts DEF RestoreParts, ServiceIsOwed
    <3>3. CASE pc = "enable" /\ pc' # "unwind"
      BY <3>3, <1>1, <1>4, <1>5 DEF Records, Owes
    <3> QED  BY <2>1, <3>1, <3>2, <3>3, <1>1 DEF GoesOn
  <2> QED  BY <2>1, <1>2 DEF ProcessIsOwed
<1> QED
  BY <1>3, <1>7, <1>8, <1>9, <1>10, <1>11 DEF RestoreParts

\* What an undo takes off the list is as found again, or went with the user.
LEMMA UndoKeepsWhatIsOwed ==
    ASSUME InstallationAssumption, TypeOK, OrderParts, HostParts, RestoreParts,
           NEW S, Undoing(S), unwind
    PROVE  RestoreParts'
<1> DEFINE e == Last(undo)
<1>1. /\ pc = "unwind" /\ pc' = "unwind" /\ found' = found /\ run' = run
      /\ outcome = "none" /\ outcome' = "none"
      /\ e \in Owed /\ e \in Undos
      /\ e.what # "service" => e.had = found.disk[e.what]
      /\ e.what \in {"group", "user", "data", "tls"} => e.had = Absent
      /\ Owed = Owed' \cup {e} /\ \A d \in Owed' : Rank[d.what] < Rank[e.what]
      /\ run \notin hurt' => run \notin hurt
      /\ process' = process \/ process' = Absent
  BY UndoingFacts, UnwindGoesOn
     DEF OrderParts, UndosHaveWhatWasFound, RestoreParts, OutcomeIsOfTheEnd, job
<1> HIDE DEF e
<1>2. YetToCome' /\ ServiceIsOwed' /\ OutcomeIsOfTheEnd' /\ FilesAreRestored'
  BY <1>1, PhasesAreApart DEF YetToCome, ServiceIsOwed, OutcomeIsOfTheEnd, FilesAreRestored
<1>3. \A p : Owes(p) /\ p # e.what => Owes(p)'
  BY <1>1 DEF Owes
<1>4. \A p : Rank[p] \in Nat /\ Rank[e.what] \in Nat /\ Rank[p] >= Rank[e.what] /\ p # e.what =>
              ~Owes(p)
  BY <1>1 DEF Owes
<1>5. ASSUME ChangesAreOwed', OldBinaryIsKept', ProcessIsOwed'
      PROVE  RestoreParts'
  BY <1>2, <1>5 DEF RestoreParts
<1>6. e.what \in Undoable
  BY <1>1 DEF Undos
<1>7. OldBinaryIsKept'
  <2>1. ASSUME NEW d \in Owed', d.what = "binary", d.had # Absent
        PROVE  disk'["previous"] = d.had
    <3>1. disk["previous"] = d.had /\ e.what # "binary"
      BY <2>1, <1>1, RankFacts DEF RestoreParts, OldBinaryIsKept
    <3>2. ~UndoBinary
      BY <3>1, UndoingFacts DEF UndoBinary, OrderParts, e
    <3>3. disk'["previous"] = disk["previous"]
      <4>1. CASE restorer \/ UndoUnit
        BY <4>1, <1>1, PutFacts, UndoingFacts DEF restorer, UndoUnit, Had, Paths, Undos, OrderParts, e
      <4>2. CASE UndoDirectory
        <5>1. e.what \in {"data", "tls"} /\ disk' = Removed(e.what)
          BY <4>2, UndoingFacts DEF UndoDirectory, OrderParts, e
        <5> QED  BY <5>1, RemovedFacts, WithinFacts DEF Paths
      <4>3. CASE UndoAccount
        BY <4>3, RemovedFacts, WithinFacts DEF UndoAccount, exists, Paths
      <4> QED  BY <3>2, <4>1, <4>2, <4>3 DEF unwind, UndoService, UndoFails, Unwound
    <3> QED  BY <3>1, <3>3
  <2> QED  BY <2>1, <1>1 DEF OldBinaryIsKept
<1>8. ProcessIsOwed'
  <2>1. ASSUME run \notin hurt', process' # Absent
        PROVE  process' = found.process \/ Owes("service")'
    <3>1. process' = process /\ (process = found.process \/ Owes("service"))
      BY <2>1, <1>1 DEF RestoreParts, ProcessIsOwed
    <3>2. CASE e.what = "service"
      BY <2>1, <3>2, UndoingFacts
         DEF unwind, restorer, UndoUnit, UndoDirectory, UndoBinary, UndoAccount, UndoService, UndoFails,
             UndoFailed, Unwound, Undoing, e
    <3> QED  BY <3>1, <3>2, <1>3
  <2> QED  BY <2>1, <1>1 DEF ProcessIsOwed
<1>9. ChangesAreOwed'
  <2> DEFINE Settled(p) == \/ disk'[p] = found.disk[p] \/ Owes(p)'
                           \/ p \in {"user", "data", "tls"} /\ found.disk[p] # Absent /\ disk'[p] = run
                           \/ p = "group" /\ disk'["group"] = Absent /\ disk'["user"] = Absent
  <2>1. SUFFICES ASSUME run \notin hurt' PROVE \A p \in Restored : Settled(p)
    BY <1>1 DEF ChangesAreOwed, Renewed, exists
  <2>2. \A p \in Restored : \/ disk[p] = found.disk[p] \/ Owes(p)
                            \/ p \in {"user", "data", "tls"} /\ found.disk[p] # Absent /\ disk[p] = run
                            \/ p = "group" /\ disk["group"] = Absent /\ disk["user"] = Absent
    BY <2>1, <1>1 DEF RestoreParts, ChangesAreOwed, Renewed, exists
  <2>3. CASE restorer \/ UndoUnit
    <3>1. /\ e.what \in {"sudoers", "cert", "key", "vhost", "unit"} /\ e.had = found.disk[e.what]
          /\ disk' = Put(e.what, e.had)
      BY <2>3, <1>1, UndoingFacts DEF restorer, UndoUnit, Had, OrderParts, e
    <3>2. disk'[e.what] = found.disk[e.what] /\ \A q \in Paths : q # e.what => disk'[q] = disk[q]
      BY <3>1, <1>1, PutFacts DEF Undos, Paths
    <3> QED  BY <3>1, <3>2, <2>2, <1>3 DEF Restored, Paths
  <2>4. CASE UndoDirectory
    <3>1. e.what \in {"data", "tls"} /\ found.disk[e.what] = Absent /\ disk' = Removed(e.what)
      BY <2>4, <1>1, UndoingFacts DEF UndoDirectory, OrderParts, e
    <3>2. \A q \in Within(e.what) : q \in Paths /\ found.disk[q] = Absent /\ disk'[q] = Absent
      BY <3>1, RemovedFacts, WithinFacts DEF HostParts, FoundInOrder, Nested, Paths
    <3>3. e.what \in Within(e.what) /\ "group" \notin Within(e.what) /\ "user" \notin Within(e.what)
      BY <3>1, WithinFacts
    <3>4. \A q \in Paths : q \notin Within(e.what) => disk'[q] = disk[q]
      BY <3>1, RemovedFacts DEF Paths
    <3> QED  BY <3>2, <3>3, <3>4, <2>2, <1>3 DEF Restored, Paths
  <2>5. CASE UndoBinary
    <3>1. e.what = "binary" /\ e.had = found.disk["binary"]
      BY <2>5, <1>1, UndoingFacts DEF UndoBinary, OrderParts, e
    <3>2. disk'["binary"] = e.had
      BY <2>5, <3>1, <1>1, PutFacts, RemovedFacts, WithinFacts, ContentFacts
         DEF UndoBinary, Had, RestoreParts, OldBinaryIsKept, Paths, e
    <3>3. \A q \in Paths : q \notin {"binary", "previous"} => disk'[q] = disk[q]
      BY <2>5, PutFacts, RemovedFacts, WithinFacts, ContentFacts DEF UndoBinary, Paths
    <3> QED  BY <3>1, <3>2, <3>3, <2>2, <1>3 DEF Restored, Paths
  <2>6. CASE Undoing({"user"}) /\ UndoAccount
    <3>1. e.what = "user" /\ found.disk["user"] = Absent
      BY <2>6, <1>1, UndoingFacts DEF OrderParts, e
    <3>2. process = Absent
      BY <2>1, <3>1, <1>1, <1>4, RankFacts DEF RestoreParts, ProcessIsOwed, HostParts, FoundInOrder
    <3>3. disk' = Removed("user")
      BY <2>6, <3>1, <3>2 DEF UndoAccount, Undoing, e
    <3> QED  BY <3>1, <3>3, <2>2, <1>3, RemovedFacts, WithinFacts DEF Restored, Paths
  <2>7. CASE Undoing({"group"}) /\ UndoAccount
    <3>1. e.what = "group" /\ found.disk["group"] = Absent
      BY <2>7, <1>1, UndoingFacts DEF OrderParts, e
    <3>2. ~exists("user")
      BY <3>1, <1>4, <2>2, RankFacts DEF HostParts, FoundInOrder, Nested, Restored, Paths, exists
    <3>3. disk' = Removed("group")
      BY <2>7, <3>1, <3>2 DEF UndoAccount, Undoing, e
    <3> QED  BY <3>1, <3>3, <2>2, <1>3, RemovedFacts, WithinFacts DEF Restored, Paths
  <2>8. CASE UndoService
    <3>1. e.what = "service" /\ disk' = disk
      BY <2>8, UndoingFacts DEF UndoService, OrderParts, e
    <3> QED  BY <3>1, <2>2, <1>3 DEF Restored, Paths
  <2>9. ~UndoFails /\ ~Unwound
    BY <2>1, <1>1 DEF UndoFails, UndoFailed, Unwound, Undoing, Finish
  <2> QED
    BY <2>3, <2>4, <2>5, <2>6, <2>7, <2>8, <2>9 DEF unwind, UndoAccount
<1> QED
  BY <1>5, <1>7, <1>8, <1>9

LEMMA RestoreIsKept ==
    ASSUME InstallationAssumption, TypeOK, OrderParts, HostParts, RestoreParts, Untouched, AsFound,
           [Next]_vars
    PROVE  RestoreParts'
<1>1. CASE Install \/ Uninstall
  <2>1. /\ disk' = disk /\ found'.disk = disk /\ process' = process /\ found'.process = process
        /\ Owed' = {} /\ pc' # "binary" /\ (pc' \in InstallSteps \cup {"unwind"} => pc' = "group")
        /\ (pc' = "idle" /\ outcome' = "refused") \/ outcome' = "none"
    BY <1>1, BeginFacts, PhasesAreApart DEF Challenges, InstallSteps
  <2> QED
    BY <2>1, RankFacts
       DEF RestoreParts, YetToCome, ChangesAreOwed, OldBinaryIsKept, ProcessIsOwed, ServiceIsOwed,
           OutcomeIsOfTheEnd, FilesAreRestored
<1>2. CASE Unwound
  <2>1. /\ pc = "unwind" /\ pc' = "idle" /\ outcome' = "failed" /\ Owed = {}
        /\ disk' = disk /\ run' = run /\ hurt' = hurt /\ found' = found
    BY <1>2 DEF Unwound, Finish, Owed, Range, job
  <2>2. run \notin hurt =>
          \A p \in Restored :
            disk[p] = found.disk[p] \/ Renewed(p) \/ (p = "group" /\ ~exists("group") /\ ~exists("user"))
    BY <2>1 DEF RestoreParts, ChangesAreOwed, Owes
  <2>3. FilesAreRestored'
    BY <2>1, <2>2 DEF FilesAreRestored, Restored, Renewed, exists
  <2> QED
    BY <2>1, <2>3, PhasesAreApart
       DEF RestoreParts, YetToCome, ChangesAreOwed, OldBinaryIsKept, ProcessIsOwed, ServiceIsOwed,
           OutcomeIsOfTheEnd
<1>3. CASE unwind /\ ~Unwound
  BY <1>3, UndoKeepsWhatIsOwed
     DEF unwind, restorer, UndoUnit, UndoDirectory, UndoBinary, UndoAccount, UndoService, UndoFails
<1>4. CASE remove \/ Kill \/ Reboot
  <2>1. pc' \notin InstallSteps \cup {"unwind", "binary"}
    BY <1>4, OtherSteps DEF InstallSteps
  <2>2. (outcome' = "none" \/ pc' = "idle") /\ outcome' # "failed"
    BY <1>4, RemoveIsAStep, PhasesAreApart
       DEF RemoveStep, Kill, Reboot, RestoreParts, OutcomeIsOfTheEnd
  <2>3. outcome' = "refused" => disk' = found'.disk /\ process' = found'.process
    <3>1. CASE Confirm
      BY <3>1 DEF Confirm, Untouched, AsFound, live, job, Goto, Finish, Challenges
    <3>2. remove /\ ~Confirm => outcome' # "refused"
      <4>1. remove => outcome = "none"
        BY RemoveIsAStep, PhasesAreApart DEF RemoveStep, RestoreParts, OutcomeIsOfTheEnd
      <4> QED
        BY <4>1 DEF remove, removeVhost, DisableService, removeUnit, removeFile, removeTLS, removeAccount,
           removeDataDir, RemovePath, Removing, Finish
    <3> QED  BY <1>4, <3>1, <3>2 DEF Kill, Reboot
  <2> QED
    BY <2>1, <2>2, <2>3
       DEF RestoreParts, YetToCome, ChangesAreOwed, OldBinaryIsKept, ProcessIsOwed, ServiceIsOwed,
           OutcomeIsOfTheEnd, FilesAreRestored
<1>5. CASE UNCHANGED vars
  BY <1>5 DEF vars, live, job, RestoreParts, YetToCome, ChangesAreOwed, OldBinaryIsKept, ProcessIsOwed,
     ServiceIsOwed, OutcomeIsOfTheEnd, FilesAreRestored, Renewed, Owes, Owed, exists
<1> QED
  BY <1>1, <1>2, <1>3, <1>4, <1>5, ChangeKeepsWhatIsOwed DEF Next

----------------------------------------------------------------------------
\* The steps before the vhost lead no further than to it.
LEMMA EarlyChange ==
    ASSUME ensureAccount \/ JoinGroup \/ ensureDataDir \/ ensureSudoers \/ ProveSudo \/ ClearPrevious
             \/ KeepPrevious \/ PlaceBinary \/ installCertificate
    PROVE  pc' \in {"group", "user", "member", "data", "tls", "sudoers", "prove", "clear", "keep",
                    "binary", "cert", "key", "vhost", "unwind"}
BY DEF ensureAccount, JoinGroup, ensureDataDir, ensureSudoers, ProveSudo, ClearPrevious, KeepPrevious,
       PlaceBinary, installCertificate, Ensure, Ask, writeOwnedFile, Goto, Fail, FailHalfway

\* Each step of an installation leaves the host as the next ones need it.
LEMMA ChangeMakesProgress ==
    ASSUME InstallationAssumption, TypeOK, Progress, change
    PROVE  Progress'
<1>1. GoesOn /\ Writes /\ run' = run
  BY ChangeGoesOn, ChangeWrites DEF GoesOn, job
<1>2. CASE pc' = "unwind" \/ pc' = "idle"
  BY <1>2, PhasesAreApart DEF Progress
<1>3. CASE ensureAccount \/ JoinGroup \/ ensureDataDir \/ ensureSudoers \/ ProveSudo \/ ClearPrevious
             \/ KeepPrevious \/ PlaceBinary \/ installCertificate
  BY <1>2, <1>3, EarlyChange, RankFacts DEF Progress
<1> USE RankFacts, PutFacts, ContentFacts DEF Progress, ServiceIsNew, Goto, InstallSteps, Paths
<1>4. CASE installVhost /\ pc' # "unwind"
  BY <1>1, <1>4 DEF installVhost, Fail
<1>5. CASE CheckVhost /\ pc' # "unwind"
  BY <1>1, <1>5 DEF CheckVhost, Ask, Fail
<1>6. CASE installUnit /\ pc' # "unwind"
  BY <1>1, <1>6 DEF installUnit, writeOwnedFile, Fail, FailHalfway
<1>7. CASE DaemonReload /\ pc' # "unwind"
  BY <1>1, <1>7 DEF DaemonReload, Fail
<1>8. CASE reloadProxy /\ pc' # "unwind"
  BY <1>1, <1>8 DEF reloadProxy, Fail
<1>9. CASE Enable /\ pc' # "unwind"
  <2>1. /\ pc = "enable" /\ pc' = "restart" /\ enabled' = TRUE /\ loaded' = loaded /\ serving' = serving
        /\ ~running' => process = Absent
        /\ process = Absent => process' = [binary |-> disk["binary"], unit |-> loaded]
    BY <1>9 DEF Enable, EnableNow, Started, Fail, FailHalfway
  <2>2. disk'["unit"] = disk["unit"] /\ disk'["vhost"] = disk["vhost"] /\ disk'["binary"] = disk["binary"]
    BY <2>1, <1>1 DEF Writes
  <2>3. disk["unit"] = run /\ loaded = run /\ disk["vhost"] = run /\ serving = run
    BY <2>1
  <2> QED  BY <2>1, <2>2, <2>3, <1>1
<1>10. CASE Restart /\ pc' # "unwind"
  <2>1. /\ pc = "restart" /\ pc' = "wait" /\ enabled' = enabled /\ loaded' = loaded /\ serving' = serving
        /\ \/ ~running /\ process' = process
           \/ process' = [binary |-> disk["binary"], unit |-> loaded]
    BY <1>10 DEF Restart, Started, Fail
  <2>2. disk'["unit"] = disk["unit"] /\ disk'["vhost"] = disk["vhost"] /\ disk'["binary"] = disk["binary"]
    BY <2>1, <1>1 DEF Writes
  <2>3. /\ disk["unit"] = run /\ loaded = run /\ disk["vhost"] = run /\ serving = run /\ enabled
        /\ ~running => ServiceIsNew
    BY <2>1
  <2> QED  BY <2>1, <2>2, <2>3, <1>1
<1>11. CASE (waitHealthy \/ confirmSite) /\ pc' # "unwind"
  BY <1>1, <1>11 DEF waitHealthy, confirmSite, Ask, Fail, live
<1>12. CASE issueToken
  BY <1>2, <1>12 DEF issueToken, Finish
<1> QED
  BY <1>2, <1>3, <1>4, <1>5, <1>6, <1>7, <1>8, <1>9, <1>10, <1>11, <1>12 DEF change

LEMMA ServiceIsKept ==
    ASSUME InstallationAssumption, TypeOK, HostParts, OutcomeIsOfTheEnd, ServiceParts, [Next]_vars
    PROVE  ServiceParts'
<1>1. CASE issueToken
  <2>1. /\ pc = "token" /\ disk' = WithDatabase /\ process' = process /\ enabled' = enabled
        /\ serving' = serving /\ run' = run /\ pc' = "idle"
    BY <1>1 DEF issueToken, Finish, live, job
  <2>2. /\ process = [binary |-> disk["binary"], unit |-> run] /\ disk["unit"] = run
        /\ enabled /\ serving = run
    BY <2>1, RankFacts DEF ServiceParts, Progress, ServiceIsNew, InstallSteps
  <2>4. exists("data")
    BY <2>1, RankFacts DEF HostParts, StepsStandOnSteps, InstallSteps, exists
  <2>3. /\ disk'["binary"] = disk["binary"] /\ disk'["unit"] = disk["unit"]
        /\ disk'["db"] # Absent
    BY <2>1, <2>4, PutFacts, ContentFacts DEF WithDatabase, exists, Paths
  <2> QED  BY <2>1, <2>2, <2>3, PhasesAreApart DEF ServiceParts, Progress, InstalledIsRunning, exists
<1>2. CASE change /\ ~issueToken
  <2>1. outcome' # "installed"
    <3>1. pc \in InstallSteps /\ outcome = "none"
      BY <1>2, ChangeGoesOn, PhasesAreApart DEF GoesOn, OutcomeIsOfTheEnd
    <3>2. pc # "token"
      BY <1>2 DEF change, ensureAccount, JoinGroup, ensureDataDir, ensureSudoers, ProveSudo,
         ClearPrevious, KeepPrevious, PlaceBinary, installCertificate, installVhost, CheckVhost,
         installUnit, DaemonReload, reloadProxy, Enable, Restart, waitHealthy, confirmSite, Ensure, Ask,
         writeOwnedFile
    <3> QED  BY <1>2, <3>1, <3>2, ChangeGoesOn DEF GoesOn
  <2> QED  BY <1>2, <2>1, ChangeMakesProgress DEF ServiceParts, InstalledIsRunning
<1>3. CASE Install \/ Uninstall
  <2>1. (pc' \notin InstallSteps \/ pc' = "group") /\ outcome' # "installed"
    BY <1>3, BeginFacts, PhasesAreApart DEF Challenges, InstallSteps
  <2> QED  BY <2>1, RankFacts DEF ServiceParts, Progress, InstalledIsRunning
<1>4. CASE unwind \/ remove \/ Kill \/ Reboot
  <2>1. pc' \notin InstallSteps
    BY <1>4, OtherSteps, UnwindGoesOn, PhasesAreApart
  <2>2. outcome' # "installed"
    BY <1>4, RemoveIsAStep, UnwindGoesOn, PhasesAreApart
       DEF RemoveStep, Kill, Reboot, OutcomeIsOfTheEnd
  <2> QED  BY <2>1, <2>2 DEF ServiceParts, Progress, InstalledIsRunning
<1>5. CASE UNCHANGED vars
  BY <1>5 DEF vars, live, job, ServiceParts, Progress, ServiceIsNew, InstalledIsRunning, exists
<1> QED
  BY <1>1, <1>2, <1>3, <1>4, <1>5 DEF Next

----------------------------------------------------------------------------
\* What nginx reads is accepted wherever a run may end.
LEMMA NginxIsKept ==
    ASSUME InstallationAssumption, TypeOK, HostParts, RestoreParts, NginxParts, [Next]_vars
    PROVE  NginxParts'
<1>0. ASSUME Accepted' PROVE NginxParts'
  BY <1>0 DEF NginxParts, Accepted, NginxCanStart
<1>1. ASSUME secure' = secure, NEW c, NEW d, c["vhost"] = d["vhost"], c["cert"] = d["cert"],
             c["key"] = d["key"], Accepts(c)
      PROVE  Accepts(d) /\ Accepts(d)'
  BY <1>1 DEF Accepts
<1>2. CASE Install \/ Uninstall
  <2>1. ASSUME Accepts(disk) PROVE Accepts(disk)'
    <3>1. disk' = disk /\ run' = run + 1
      BY <1>2, BeginFacts
    <3>2. \A r \in 0 .. run : secure'[r] = secure[r]
      BY <1>2 DEF Install, Uninstall, Begin, TypeOK, Origins
    <3>3. disk["vhost"] # Absent => disk["vhost"] \in 0 .. run
      BY DEF TypeOK, Places, Contents, HostParts, Nested, Paths
    <3> QED  BY <2>1, <3>1, <3>2, <3>3 DEF Accepts
  <2>2. pc = "idle" /\ hurt' = hurt /\ found'.disk = disk' /\ (pc' \in {"idle", "group"} \cup Challenges)
    BY <1>2, BeginFacts
  <2>3. Accepted'
    BY <2>1, <2>2, RankFacts, PhasesAreApart
       DEF NginxParts, Accepted, InstallSteps, UninstallSteps, Challenges
  <2> QED  BY <1>0, <2>3
<1>3. CASE change
  <2>1. /\ GoesOn /\ Writes /\ pc \in InstallSteps /\ found' = found /\ secure' = secure
        /\ hurt' = {} => hurt = {}
    BY <1>3, ChangeGoesOn, ChangeWrites DEF GoesOn, job
  <2>2. ASSUME hurt' = {}, pc' = "idle" \/ (pc' \in InstallSteps /\ Rank[pc'] > Rank["vhost"])
        PROVE  Accepts(disk')
    <3>1. CASE pc = "vhost" /\ disk' = Put("vhost", run) /\ Accepts(Put("vhost", run))
      BY <3>1
    <3>2. CASE Rank[pc] > Rank["vhost"]
      <4>1. disk'["vhost"] = disk["vhost"] /\ disk'["cert"] = disk["cert"] /\ disk'["key"] = disk["key"]
        BY <3>2, <2>1, RankFacts DEF Writes, Paths, InstallSteps
      <4>2. Accepts(disk)
        BY <3>2, <2>1, <2>2 DEF NginxParts, Accepted
      <4> QED  BY <4>1, <4>2 DEF Accepts
    <3>3. pc' = "idle" => Rank[pc] > Rank["vhost"]
      BY <2>1, RankFacts, PhasesAreApart DEF GoesOn
    <3>4. pc' \in InstallSteps /\ Rank[pc'] > Rank["vhost"] =>
            \/ Rank[pc] > Rank["vhost"]
            \/ pc = "vhost" /\ disk' = Put("vhost", run) /\ Accepts(Put("vhost", run))
      BY <2>1, RankFacts, RankIsANumber DEF Writes
    <3> QED  BY <2>2, <3>1, <3>2, <3>3, <3>4
  <2>3. pc' \in InstallSteps \cup {"unwind", "idle"}
    BY <2>1 DEF GoesOn
  <2>4. hurt = {} => Accepts(found.disk)
    BY <2>1 DEF NginxParts, Accepted
  <2>5. Accepted'
    BY <2>1, <2>2, <2>3, <2>4, PhasesAreApart
       DEF Accepted, Accepts, UninstallSteps, Challenges, InstallSteps
  <2> QED  BY <1>0, <2>5
<1>4. CASE unwind
  <2>1. /\ pc = "unwind" /\ pc' \in {"unwind", "idle"} /\ found' = found /\ secure' = secure
        /\ hurt' = {} => hurt = {}
        /\ pc' = "idle" => Unwound
    BY <1>4, UnwindGoesOn DEF job
  <2>2. hurt = {} => Accepts(found.disk)
    BY <2>1 DEF NginxParts, Accepted
  <2>3. ASSUME hurt' = {}, pc' = "idle"
        PROVE  Accepts(disk)'
    <3>1. Owed = {} /\ disk' = disk
      BY <2>1, <2>3 DEF Unwound, Owed, Range
    <3>2. \A p \in {"vhost", "cert", "key"} : disk[p] = found.disk[p]
      BY <2>1, <2>3, <3>1 DEF RestoreParts, ChangesAreOwed, Owes, Renewed, Restored, Paths
    <3> QED  BY <2>1, <2>2, <2>3, <3>1, <3>2 DEF Accepts
  <2>4. Accepted'
    BY <2>1, <2>2, <2>3, PhasesAreApart
       DEF Accepted, Accepts, UninstallSteps, Challenges, InstallSteps
  <2> QED  BY <1>0, <2>4
<1>5. CASE remove
  <2>1. /\ pc \in UninstallSteps /\ pc' \in UninstallSteps \cup {"idle"} /\ secure' = secure
        /\ hurt' = {} => hurt = {}
    BY <1>5, RemoveIsAStep DEF RemoveStep, job
  <2>2. CASE Confirm
    <3>1. disk' = disk /\ pc \in Challenges /\ pc' \in {"idle", "removeVhost"} \cup Challenges
      BY <2>2 DEF Confirm, Goto, Finish, Challenges
    <3>2. Accepted'
      BY <2>1, <3>1, PhasesAreApart DEF NginxParts, Accepted, Accepts, UninstallSteps, Challenges
    <3> QED  BY <1>0, <3>2
  <2>3. CASE ~Confirm
    <3>1. pc' \notin Challenges \cup {"removeVhost"} /\ pc \notin Challenges
      BY <1>5, <2>3
         DEF remove, removeVhost, DisableService, removeUnit, removeFile, removeTLS, removeAccount,
             removeDataDir, RemovePath, Removing, Continue, failf, Finish, Challenges
    <3>2. disk["vhost"] = Absent => disk'["vhost"] = Absent
      <4> USE RemovedFacts, WithinFacts DEF RemovePath, Paths, exists
      <4>1. CASE removeVhost \/ DisableService \/ removeUnit
        BY <4>1 DEF removeVhost, DisableService, removeUnit
      <4>2. CASE removeFile \/ removeTLS
        BY <4>2 DEF removeFile, removeTLS
      <4>3. CASE removeAccount \/ removeDataDir
        BY <4>3 DEF removeAccount, removeDataDir
      <4> QED  BY <1>5, <2>3, <4>1, <4>2, <4>3 DEF remove
    <3>3. pc = "removeVhost" /\ hurt' = {} => disk'["vhost"] = Absent
      BY <1>5, RemovedFacts, WithinFacts
         DEF remove, Confirm, removeVhost, DisableService, removeUnit, removeFile, removeTLS, removeAccount,
             removeDataDir, RemovePath, Removing, failf, Challenges, Paths, exists
    <3>4. hurt' = {} => disk'["vhost"] = Absent
      BY <2>1, <3>1, <3>2, <3>3 DEF NginxParts, Accepted
    <3>5. Accepted'
      BY <2>1, <3>1, <3>4, PhasesAreApart DEF Accepted, Accepts
    <3> QED  BY <1>0, <3>5
  <2> QED  BY <2>2, <2>3
<1>6. CASE Kill
  <2>1. hurt' # {}
    BY <1>6 DEF Kill
  <2> QED  BY <2>1, <1>0 DEF Accepted
<1>7. CASE Reboot
  <2>1. pc = "idle" /\ pc' = "idle" /\ hurt' = hurt /\ secure' = secure
    BY <1>7 DEF Reboot, job
  <2>2. disk' = disk \/ disk' = Put("db", run)
    BY <1>7 DEF Reboot, WithDatabase
  <2>3. disk'["vhost"] = disk["vhost"] /\ disk'["cert"] = disk["cert"] /\ disk'["key"] = disk["key"]
    BY <2>2, PutFacts, ContentFacts DEF Paths
  <2>4. Accepted'
    BY <2>1, <2>3, PhasesAreApart DEF NginxParts, Accepted, Accepts
  <2> QED  BY <1>0, <2>4
<1>8. CASE UNCHANGED vars
  BY <1>8 DEF vars, job, NginxParts, Accepted, NginxCanStart, Accepts
<1> QED
  BY <1>2, <1>3, <1>4, <1>5, <1>6, <1>7, <1>8 DEF Next

----------------------------------------------------------------------------
\* What is gone at each step of a removal.
LEMMA RemovalsFacts ==
    /\ Removals["removeVhost"] = {}
    /\ Removals["forgetVhost"] = {"vhost"}
    /\ Removals["disable"] = {"vhost"}
    /\ Removals["removeUnit"] = {"vhost"}
    /\ Removals["forgetUnit"] = {"vhost", "unit"}
    /\ Removals["removeSudoers"] = {"vhost", "unit"}
    /\ Removals["removeBinary"] = {"vhost", "unit", "sudoers"}
    /\ Removals["removePrevious"] = {"vhost", "unit", "sudoers", "binary"}
    /\ Removals["removeTls"] = {"vhost", "unit", "sudoers", "binary", "previous"}
    /\ Removals["removeUser"] = {"vhost", "unit", "sudoers", "binary", "previous", "tls"}
    /\ Removals["removeGroup"] = {"vhost", "unit", "sudoers", "binary", "previous", "tls", "user"}
    /\ Removals["removeData"] =
         {"vhost", "unit", "sudoers", "binary", "previous", "tls", "user", "group"}
BY DEF Removals

LEMMA RemovePathTakesItAway ==
    ASSUME InstallationAssumption, TypeOK, RemovedIsGone,
           NEW s \in RemovalSteps, NEW p \in Paths, NEW next, NEW after, RemovePath(s, p, next, after),
           Removals[next] \subseteq Removals[s] \cup {p}, Removals[after] \subseteq Removals[s] \cup {p},
           Removals[s] \subseteq Paths
    PROVE  RemovedIsGone'
<1> USE DEF RemovePath, Removing, Continue, failf
<1>1. CASE failed'
  BY <1>1 DEF RemovedIsGone
<1>2. CASE ~failed'
  <2>0. UNCHANGED failed
    BY <1>2
  <2>1. ~failed /\ pc = s
    BY <1>2, <2>0
  <2>4. pc' \in {next, after}
    OBVIOUS
  <2>5. (exists(p) /\ disk' = Removed(p)) \/ (~exists(p) /\ disk' = disk)
    BY <1>2
  <2>2. p \in Within(p)
    BY WithinFacts DEF Paths
  <2>3. \A q \in Removals[s] \cup {p} : disk'[q] = Absent
    BY <2>1, <2>2, <2>5, RemovedFacts DEF RemovedIsGone, exists
  <2> QED  BY <2>3, <2>4 DEF RemovedIsGone, exists
<1> QED
  BY <1>1, <1>2

LEMMA RemoveTakesPathsAway ==
    ASSUME InstallationAssumption, TypeOK, RemovedIsGone, remove
    PROVE  RemovedIsGone'
<1> USE RemovalsFacts DEF Paths, RemovalSteps, UninstallSteps, Challenges
<1>1. CASE Confirm
  BY <1>1 DEF Confirm, Goto, Finish, RemovedIsGone
<1>2. CASE removeVhost
  <2>1. CASE RemovePath("removeVhost", "vhost", "forgetVhost", "disable")
    BY <2>1, RemovePathTakesItAway
  <2> QED  BY <1>2, <2>1 DEF removeVhost, Removing, Continue, RemovedIsGone, exists
<1>3. CASE DisableService
  BY <1>3 DEF DisableService, Removing, Continue, failf, RemovedIsGone, exists
<1>4. CASE removeUnit
  <2>1. CASE RemovePath("removeUnit", "unit", "forgetUnit", "removeSudoers")
    BY <2>1, RemovePathTakesItAway
  <2> QED  BY <1>4, <2>1 DEF removeUnit, Removing, Continue, RemovedIsGone, exists
<1>5. CASE RemovePath("removeSudoers", "sudoers", "removeBinary", "removeBinary")
  BY <1>5, RemovePathTakesItAway
<1>6. CASE RemovePath("removeBinary", "binary", "removePrevious", "removePrevious")
  BY <1>6, RemovePathTakesItAway
<1>7. CASE RemovePath("removePrevious", "previous", "removeTls", "removeTls")
  BY <1>7, RemovePathTakesItAway
<1>8. CASE removeTLS
  BY <1>8, RemovePathTakesItAway DEF removeTLS
<1>9. CASE removeAccount
  <2>1. CASE RemovePath("removeGroup", "group", "removeData", "removeData")
    BY <2>1, RemovePathTakesItAway
  <2>2. CASE pc = "removeUser" /\ removeAccount
    <3>1. failed' \/ (~failed /\ pc' = "removeGroup" /\ disk'["user"] = Absent
                       /\ (disk' = disk \/ disk' = Removed("user")))
      BY <2>2, RemovedFacts, WithinFacts DEF removeAccount, RemovePath, Removing, Continue, failf, exists
    <3>2. failed' \/ \A p \in Removals["removeUser"] : disk'[p] = Absent
      BY <2>2, <3>1, RemovedFacts, WithinFacts DEF RemovedIsGone, exists
    <3> QED  BY <3>1, <3>2 DEF RemovedIsGone, exists
  <2> QED  BY <1>9, <2>1, <2>2 DEF removeAccount, Removing
<1>10. CASE removeDataDir
  BY <1>10 DEF removeDataDir, Finish, RemovedIsGone
<1> QED
  BY <1>1, <1>2, <1>3, <1>4, <1>5, <1>6, <1>7, <1>8, <1>9, <1>10 DEF remove, removeFile

\* What the end of a removal reports is what it did.
LEMMA RemoveReports ==
    ASSUME InstallationAssumption, TypeOK, HostParts, OutcomeIsOfTheEnd, RemovalParts, remove
    PROVE  NothingRemains' /\ RerunCompletes'
<1>1. pc \in UninstallSteps /\ outcome = "none" /\ found' = found /\ removeData' = removeData
  BY RemoveIsAStep, PhasesAreApart DEF RemoveStep, OutcomeIsOfTheEnd, job
<1>2. CASE ~removeDataDir
  <2>1. outcome' \in {"none", "refused"}
    BY <1>1, <1>2
       DEF remove, Confirm, removeVhost, DisableService, removeUnit, removeFile, removeTLS, removeAccount,
           RemovePath, Removing, Goto, Finish
  <2> QED  BY <2>1 DEF NothingRemains, RerunCompletes
<1>3. CASE removeDataDir
  <2>1. /\ pc = "removeData" /\ process' = process
        /\ \/ outcome' = "incomplete" /\ (met' \/ (failed /\ met' = met))
           \/ outcome' = "removed" /\ ~failed /\ disk' = IF removeData THEN Removed("data") ELSE disk
    BY <1>3 DEF removeDataDir, Finish, live
  <2>2. CASE outcome' = "incomplete"
    BY <1>1, <2>1, <2>2 DEF RemovalParts, FailureIsMet, NobodyStops, NothingRemains, RerunCompletes
  <2>3. CASE outcome' = "removed"
    <3>1. ~failed /\ disk' = IF removeData THEN Removed("data") ELSE disk
      BY <2>1, <2>3
    <3>2. \A p \in {"vhost", "unit", "sudoers", "binary", "previous", "tls", "user", "group"} :
            disk[p] = Absent
      BY <2>1, <3>1, RemovalsFacts
         DEF RemovalParts, RemovedIsGone, RemovalSteps, UninstallSteps, Challenges, exists
    <3>3. disk["member"] = Absent /\ disk["cert"] = Absent /\ disk["key"] = Absent /\ process = Absent
      BY <3>2 DEF HostParts, Nested, ProcessHasUser, exists
    <3>4. \A p \in Paths \ {"data", "db"} : disk'[p] = Absent
      BY <3>1, <3>2, <3>3, RemovedFacts, WithinFacts DEF Paths
    <3>5. removeData => disk'["data"] = Absent /\ disk'["db"] = Absent
      BY <3>1, RemovedFacts, WithinFacts DEF Paths
    <3> QED  BY <1>1, <2>1, <2>3, <3>3, <3>4, <3>5 DEF NothingRemains, RerunCompletes
  <2> QED  BY <2>1, <2>2, <2>3
<1> QED
  BY <1>2, <1>3

\* The failures of a removal are accounted for at each step.
LEMMA RemoveKeepsItsAccount ==
    ASSUME InstallationAssumption, TypeOK, RemovalParts, remove
    PROVE  Untouched' /\ AsFound' /\ Stopped' /\ FailureIsMet'
<1>1. found' = found /\ NobodyStops' = NobodyStops
  BY RemoveIsAStep DEF RemoveStep, job, NobodyStops
<1> USE RemovedFacts, WithinFacts, <1>1
    DEF RemovalParts, Untouched, AsFound, Stopped, FailureIsMet, RemovePath, Removing, Continue, failf,
        exists, Paths, RemovalSteps, UninstallSteps, Challenges, live
<1>2. CASE Confirm
  BY <1>2 DEF Confirm, Goto, Finish
<1>3. CASE removeVhost
  BY <1>3 DEF removeVhost
<1>4. CASE DisableService
  BY <1>4 DEF DisableService, NobodyStops
<1>5. CASE removeUnit
  BY <1>5 DEF removeUnit
<1>6. CASE removeFile \/ removeTLS
  BY <1>6 DEF removeFile, removeTLS
<1>7. CASE removeAccount
  BY <1>7 DEF removeAccount
<1>8. CASE removeDataDir
  BY <1>8 DEF removeDataDir, Finish
<1> QED
  BY <1>2, <1>3, <1>4, <1>5, <1>6, <1>7, <1>8 DEF remove

LEMMA RemovalIsKept ==
    ASSUME InstallationAssumption, TypeOK, HostParts, OutcomeIsOfTheEnd, RemovalParts, [Next]_vars
    PROVE  RemovalParts'
<1>1. CASE Install \/ Uninstall
  <2>1. /\ pc' \notin RemovalSteps /\ failed' = FALSE /\ outcome' \in {"none", "refused"}
        /\ disk' = disk /\ process' = process /\ found'.disk = disk /\ found'.process = process
    BY <1>1, BeginFacts, PhasesAreApart DEF RemovalSteps, UninstallSteps, Challenges
  <2> QED
    BY <2>1 DEF RemovalParts, Untouched, AsFound, RemovedIsGone, Stopped, FailureIsMet, NothingRemains,
       RerunCompletes
<1>2. CASE remove
  BY <1>2, RemoveTakesPathsAway, RemoveReports, RemoveKeepsItsAccount DEF RemovalParts
<1>3. CASE change \/ unwind \/ Kill \/ Reboot
  <2>1. pc' \notin UninstallSteps /\ outcome' \notin {"removed", "incomplete"}
    BY <1>3, ChangeGoesOn, UnwindGoesOn, PhasesAreApart
       DEF GoesOn, Kill, Reboot, OutcomeIsOfTheEnd
  <2>2. pc' \notin Challenges \cup RemovalSteps \cup {"removeVhost", "forgetVhost", "disable"}
    BY <2>1 DEF RemovalSteps, UninstallSteps
  <2> QED
    BY <2>1, <2>2 DEF RemovalParts, Untouched, AsFound, RemovedIsGone, Stopped, FailureIsMet,
       NothingRemains, RerunCompletes
<1>4. CASE UNCHANGED vars
  BY <1>4 DEF vars, live, job, RemovalParts, Untouched, AsFound, RemovedIsGone, Stopped, FailureIsMet,
     NobodyStops, NothingRemains, RerunCompletes, exists
<1> QED
  BY <1>1, <1>2, <1>3, <1>4 DEF Next

----------------------------------------------------------------------------
\* The three hosts a first run may find.
LEMMA InitIsInOrder ==
    ASSUME InstallationAssumption, Init
    PROVE  Inv
<1>1. /\ run = 0 /\ pc = "idle" /\ undo = <<>> /\ outcome = "none" /\ found.disk = disk
      /\ found.process = process /\ 0 \in Origins /\ Owed = {}
  BY DEF Init, InstallationAssumption, Origins, Owed, Range
<1>2. 0 # Absent /\ 0 # Torn /\ Absent # Torn /\ 0 \in Places /\ Absent \in Places
  BY <1>1 DEF InstallationAssumption, Places, Contents
<1>3. disk \in [Paths -> Places] /\ secure \in [Origins -> BOOLEAN] /\ enabled \in BOOLEAN
  <2>1. CASE Bare
    BY <2>1, <1>2 DEF Bare, Before
  <2>2. CASE Installed
    <3>1. disk \in [Paths -> Places] /\ enabled = TRUE
      BY <2>2, <1>2 DEF Installed, Before
    <3>2. secure \in [Origins -> BOOLEAN]
      BY <2>2 DEF Installed
    <3> QED  BY <3>1, <3>2
  <2> QED  BY <2>1, <2>2 DEF Init
<1>4. TypeOK
  BY <1>1, <1>3 DEF TypeOK, Init, Outcomes
<1>5. Nested(disk) /\ ProcessHasUser
  <2>1. CASE Bare
    BY <2>1, <1>2 DEF Bare, Nested, ProcessHasUser, Paths, Before
  <2>2. CASE Installed
    BY <2>2, <1>2 DEF Installed, Nested, ProcessHasUser, exists, Paths, Before
  <2> QED  BY <2>1, <2>2 DEF Init
<1>6. Accepts(disk)
  <2>1. CASE Bare
    BY <2>1 DEF Bare, Accepts, Paths
  <2>2. CASE Installed
    BY <2>2, <1>1, <1>2 DEF Installed, Accepts, Paths, Before
  <2> QED  BY <2>1, <2>2 DEF Init
<1>7. OrderParts
  BY <1>1 DEF OrderParts, UndosAreInOrder, UndosAreOfThePast, UndosHaveWhatWasFound
<1>8. HostParts
  BY <1>1, <1>5, PhasesAreApart
     DEF HostParts, StepsStandOnSteps, FilesStandOnDirectories, GroupIsFree, FoundInOrder,
         ProcessHasUser, exists
<1>9. RestoreParts
  BY <1>1, PhasesAreApart
     DEF RestoreParts, YetToCome, ChangesAreOwed, OldBinaryIsKept, ProcessIsOwed, ServiceIsOwed,
         OutcomeIsOfTheEnd, FilesAreRestored
<1>10. ServiceParts /\ NginxParts
  BY <1>1, <1>6, PhasesAreApart
     DEF ServiceParts, Progress, InstalledIsRunning, NginxParts, Accepted, NginxCanStart
<1>11. RemovalParts
  BY <1>1, PhasesAreApart
     DEF RemovalParts, Untouched, AsFound, RemovedIsGone, Stopped, FailureIsMet, NothingRemains,
         RerunCompletes, RemovalSteps, Challenges
<1> QED
  BY <1>4, <1>7, <1>8, <1>9, <1>10, <1>11 DEF Inv

LEMMA InvIsInductive ==
    ASSUME InstallationAssumption, Inv, [Next]_vars
    PROVE  Inv'
<1>1. /\ TypeOK /\ OrderParts /\ HostParts /\ RestoreParts /\ ServiceParts /\ NginxParts /\ RemovalParts
      /\ UndosAreInOrder /\ YetToCome /\ Untouched /\ AsFound /\ OutcomeIsOfTheEnd
  BY DEF Inv, OrderParts, RestoreParts, RemovalParts
<1> QED
  BY <1>1, TypeIsKept, OrderIsKept, HostIsKept, RestoreIsKept, ServiceIsKept, NginxIsKept, RemovalIsKept
     DEF Inv

\* The inductive invariant holds of every run of the two commands.
LEMMA InvAlways == Spec => []Inv
<1> USE InstallationAssumption
<1>1. Init => Inv
  BY InitIsInOrder
<1>2. Inv /\ [Next]_vars => Inv'
  BY InvIsInductive
<1> QED
  BY <1>1, <1>2, PTL DEF Spec

\* A failed installation that was neither killed nor left a step or an undo
\* half made has put back every path it changed, and a refused run has
\* changed nothing, whatever earlier runs left behind.
THEOREM FilesAreRestoredAlways == Spec => []FilesAreRestored
<1>1. Inv => FilesAreRestored
  BY DEF Inv, RestoreParts
<1> QED  BY <1>1, InvAlways, PTL

\* An installation that reports success has its own service running, behind
\* its own vhost, over whatever ran before.
THEOREM InstalledIsRunningAlways == Spec => []InstalledIsRunning
<1>1. Inv => InstalledIsRunning
  BY DEF Inv, ServiceParts
<1> QED  BY <1>1, InvAlways, PTL

\* No run that ends without a step half made leaves a vhost nginx rejects.
THEOREM NginxCanStartAlways == Spec => []NginxCanStart
<1>1. Inv => NginxCanStart
  BY DEF Inv, NginxParts
<1> QED  BY <1>1, InvAlways, PTL

\* A removal that reports success leaves nothing but the data it was told to
\* keep.
THEOREM NothingRemainsAlways == Spec => []NothingRemains
<1>1. Inv => NothingRemains
  BY DEF Inv, RemovalParts
<1> QED  BY <1>1, InvAlways, PTL

\* A removal is incomplete only where the host failed it, or where a service
\* was found running without its unit file.
THEOREM RerunCompletesAlways == Spec => []RerunCompletes
<1>1. Inv => RerunCompletes
  BY DEF Inv, RemovalParts
<1> QED  BY <1>1, InvAlways, PTL

\* What is undone was Absent when the run began, and so was what it holds.
LEMMA DatabaseGoesOnlySo ==
    ASSUME InstallationAssumption, Inv, [Next]_vars, exists("db"), disk'["db"] = Absent
    PROVE  \/ pc = "removeData" /\ removeData
           \/ pc = "unwind" /\ found.disk["db"] = Absent
<1>1. TypeOK /\ OrderParts /\ HostParts
  BY DEF Inv
<1>2. disk' # disk /\ disk' # Put("db", run)
  BY <1>1, PutFacts, ContentFacts DEF exists, Paths
<1>3. ~(Install \/ Uninstall \/ Kill \/ Reboot \/ UNCHANGED vars)
  BY <1>2, BeginFacts DEF Kill, Reboot, WithDatabase, vars
<1>4. ~change
  <2>1. change => disk'["db"] = disk["db"] \/ disk'["db"] = run
    BY <1>1, ChangeGoesOn, ChangeWrites DEF GoesOn, Writes, Paths, InstallSteps
  <2> QED  BY <2>1, <1>1, ContentFacts DEF exists
<1>5. CASE unwind
  <2>1. UndoDirectory
    <3>1. CASE restorer \/ UndoUnit
      BY <3>1, <1>1, UndoingFacts, PutFacts DEF restorer, UndoUnit, Had, Undos, OrderParts, exists, Paths
    <3>2. CASE UndoBinary
      BY <3>2, <1>1, PutFacts, RemovedFacts, WithinFacts, ContentFacts DEF UndoBinary, exists, Paths
    <3>3. CASE UndoAccount
      BY <3>3, <1>1, <1>2, RemovedFacts, WithinFacts DEF UndoAccount, exists, Paths
    <3> QED  BY <1>2, <1>5, <3>1, <3>2, <3>3 DEF unwind, UndoService, UndoFails, Unwound
  <2>2. Last(undo).what \in {"data", "tls"} /\ disk' = Removed(Last(undo).what) /\ Last(undo) \in Owed
    BY <2>1, <1>1, UndoingFacts DEF UndoDirectory, OrderParts
  <2>3. Last(undo).what = "data" /\ pc = "unwind"
    BY <1>1, <1>5, <2>2, UnwindGoesOn, RemovedFacts, WithinFacts DEF exists, Paths
  <2>4. found.disk["data"] = Absent
    BY <1>1, <2>2, <2>3 DEF OrderParts, UndosHaveWhatWasFound
  <2> QED  BY <1>1, <2>3, <2>4 DEF HostParts, FoundInOrder, Nested
<1>6. CASE remove
  <2>1. \A p \in Paths \ {"data"} : Removed(p)["db"] = disk["db"] \/ p = "db"
    BY <1>1, RemovedFacts, WithinFacts DEF Paths
  <2>2. \A p \in Paths \ {"data", "db"} : disk' # Removed(p)
    BY <2>1 DEF exists
  <2> USE <1>2, <2>2 DEF RemovePath, Paths
  <2>3. ~(Confirm \/ removeVhost \/ DisableService \/ removeUnit)
    BY DEF Confirm, removeVhost, DisableService, removeUnit
  <2>4. ~(removeFile \/ removeTLS \/ removeAccount)
    BY DEF removeFile, removeTLS, removeAccount
  <2>5. removeDataDir
    BY <1>6, <2>3, <2>4 DEF remove
  <2> QED  BY <2>5 DEF removeDataDir
<1> QED
  BY <1>3, <1>4, <1>5, <1>6 DEF Next

\* The database goes only with a removal told to remove it, or with the
\* failed installation that created its directory.
THEOREM DatabaseIsKeptAlways == Spec => DatabaseIsKept
<1> USE InstallationAssumption
<1>1. Inv /\ [Next]_vars =>
        [exists("db") /\ disk'["db"] = Absent =>
           \/ pc = "removeData" /\ removeData
           \/ pc = "unwind" /\ found.disk["db"] = Absent]_vars
  BY DatabaseGoesOnlySo
<1> QED
  BY <1>1, InvAlways, PTL DEF Spec, DatabaseIsKept

=============================================================================
