-------------------------- MODULE MigrationsProofs --------------------------
(***************************************************************************)
(* Proofs about opening the database, for any number of processes, any     *)
(* binaries among them and any number of migrations.                       *)
(***************************************************************************)
EXTENDS Migrations, TLAPS

Places ==
    {"closed", "connect", "read", "next", "record", "commit", "open", "close", "failed", "given",
     "give dir", "give db", "give -wal", "give -shm", "warned", "warned db", "warned -wal", "warned -shm"}

TypeOK ==
    /\ created \in SUBSET Steps
    /\ recorded \in SUBSET Steps
    /\ pending \in [created : SUBSET Steps, recorded : SUBSET Steps]
    /\ lock \in SUBSET Openers
    /\ pc \in [Openers -> Places]
    /\ knows \in [Openers -> Steps]
    /\ applied \in [Openers -> Nat]
    /\ at \in [Openers -> Nat \ {0}]
    /\ owner \in [Files -> {"dokkup", "root", "nobody"}]
    /\ conn \in SUBSET Openers
    /\ outage \in BOOLEAN
    /\ starts \in Nat

----------------------------------------------------------------------------
(* What the schema theorems rest on.  The versions recorded are 1 .. n for *)
(* some n, so the greatest of them stands for them all.  Only the holder   *)
(* of the write lock has a transaction, which is about the migration its   *)
(* loop is at.  A process in its loop has every migration behind it        *)
(* recorded: those it skipped because of the version it read, and those it *)
(* applied itself.                                                         *)

InLoop == {"next", "record", "commit"}
InTransaction == {"record", "commit"}

VersionsAreAPrefix ==
    /\ created = recorded
    /\ \E n \in Nat : recorded = 1 .. n

LockIsTheWriters ==
    /\ \A p \in Openers : p \in lock <=> pc[p] \in InTransaction
    /\ \A p, q \in lock : p = q

TransactionIsTheWriters ==
    /\ lock = {} => pending = Clean
    /\ \A p \in Openers : pc[p] \in InTransaction =>
          /\ at[p] <= knows[p] /\ at[p] \notin created
          /\ pending.created = {at[p]}
          /\ pending.recorded = IF pc[p] = "record" THEN {} ELSE {at[p]}

LoopIsBehind ==
    \A p \in Openers :
        /\ pc[p] \notin InLoop => at[p] = 1
        /\ pc[p] \in InLoop => /\ 1 .. applied[p] \subseteq recorded
                               /\ \A v \in Steps : v < at[p] => v \in recorded

SchemaParts ==
    /\ VersionsAreAPrefix /\ LockIsTheWriters /\ TransactionIsTheWriters
    /\ LoopIsBehind /\ OpenedIsMigrated

(* What the hand-over rests on: a file a run has handed over is never      *)
(* root's again.  The directory and the database keep their owner, and a   *)
(* journal that is made anew gets the database's.                          *)

DatabaseIsThere == \A p \in Openers : pc[p] \notin {"closed", "failed"} => owner["db"] # "nobody"

GivenStaysGiven ==
    /\ owner["dir"] # "nobody"
    /\ \A p \in Openers :
        /\ pc[p] \in {"give db", "give -wal", "give -shm", "given"} => owner["dir"] = "dokkup"
        /\ pc[p] \in {"give -wal", "give -shm", "given"} => owner["db"] = "dokkup"
        /\ pc[p] \in {"give -shm", "given"} => owner["-wal"] # "root"
        /\ pc[p] = "given" => owner["-shm"] # "root"

FileParts == DatabaseIsThere /\ GivenStaysGiven

Inv == TypeOK /\ SchemaParts /\ FileParts
----------------------------------------------------------------------------
\* The four files are four.
LEMMA FilesAreFour == Files = {"dir", "db", "-wal", "-shm"}
  BY DEF Files, Journal

\* What SELECT MAX(version) answers when the versions are 1 .. n: n, so the
\* maximum exists and nothing up to it is missing.
LEMMA AppliedVersionIsGreatest ==
    ASSUME VersionsAreAPrefix
    PROVE  appliedVersion \in Nat /\ recorded = 1 .. appliedVersion
<1>1. PICK n \in Nat : recorded = 1 .. n
  BY DEF VersionsAreAPrefix
<1>2. CASE n = 0
  <2>1. recorded = {}
    BY <1>1, <1>2
  <2> QED
    BY <1>1, <1>2, <2>1 DEF appliedVersion
<1>3. CASE n # 0
  <2>1. n \in recorded /\ (\A w \in recorded : w <= n) /\ recorded # {}
    BY <1>1, <1>3
  <2>2. appliedVersion \in recorded /\ \A w \in recorded : w <= appliedVersion
    BY <2>1 DEF appliedVersion
  <2>3. appliedVersion = n
    BY <1>1, <2>1, <2>2
  <2> QED
    BY <1>1, <2>3
<1> QED
  BY <1>2, <1>3

\* One chown that succeeds, and one step of the hand-over.
Chown(f) == owner' = [owner EXCEPT ![f] = IF @ = "nobody" THEN @ ELSE "dokkup"]

Chowned(p, i, from) ==
    /\ pc[p] = from[i] /\ pc[p] \notin Ended
    /\ \/ Chown(<<"dir", "db", "-wal", "-shm">>[i]) /\ Goto(p, from[i + 1])
       \/ outage /\ Goto(p, Warned[i + 1]) /\ UNCHANGED owner
       \/ outage /\ i = 1 /\ Goto(p, "warned") /\ UNCHANGED owner
    /\ UNCHANGED <<schema, txn, loop, conn, host>>

\* What a step of the hand-over does, and where it leaves the run: the next file
\* is a run's turn only after the one before it was given.
LEMMA GiveSteps ==
    ASSUME NEW p \in Openers, Give(p)
    PROVE  /\ UNCHANGED <<schema, txn, loop, conn, host>>
           /\ pc[p] \in {"give dir", "give db", "give -wal", "give -shm",
                         "warned db", "warned -wal", "warned -shm"}
           /\ \/ pc[p] = "give dir" /\ Goto(p, "give db") /\ Chown("dir")
              \/ pc[p] = "give db" /\ Goto(p, "give -wal") /\ Chown("db")
              \/ pc[p] = "give -wal" /\ Goto(p, "give -shm") /\ Chown("-wal")
              \/ pc[p] = "give -shm" /\ Goto(p, "given") /\ Chown("-shm")
              \/ /\ \E w \in {"warned", "warned db", "warned -wal", "warned -shm"} : Goto(p, w)
                 /\ UNCHANGED owner \/ \E f \in Files : Chown(f)
<1>1. PICK i \in 1 .. 4, from \in {Giving, Warned} : Chowned(p, i, from)
  BY DEF Give, Chowned, Chown
<1>2. i = 1 \/ i = 2 \/ i = 3 \/ i = 4
  OBVIOUS
<1>3. "dir" \in Files /\ "db" \in Files /\ "-wal" \in Files /\ "-shm" \in Files
  BY FilesAreFour
<1>a. UNCHANGED <<schema, txn, loop, conn, host>>
  BY <1>1 DEF Chowned
<1>4. CASE i = 1
  <2>1. /\ <<"dir", "db", "-wal", "-shm">>[i] = "dir"
        /\ Giving[i] = "give dir" /\ Giving[i + 1] = "give db"
        /\ Warned[i] = "warned" /\ Warned[i + 1] = "warned db"
    <3>1. i + 1 = 2
      BY <1>4
    <3>2. /\ <<"dir", "db", "-wal", "-shm">>[1] = "dir"
          /\ Giving[1] = "give dir" /\ Giving[2] = "give db"
          /\ Warned[1] = "warned" /\ Warned[2] = "warned db"
      BY DEF Giving, Warned
    <3> QED
      BY <3>1, <3>2, <1>4, Zenon
  <2>2. CASE from = Giving
    BY <1>1, <1>3, <1>a, <2>1, <2>2 DEF Chowned
  <2>3. CASE from = Warned
    BY <1>1, <1>3, <1>a, <2>1, <2>3 DEF Chowned, Ended
  <2> QED
    BY <2>2, <2>3
<1>5. CASE i = 2
  <2>1. /\ <<"dir", "db", "-wal", "-shm">>[i] = "db"
        /\ Giving[i] = "give db" /\ Giving[i + 1] = "give -wal"
        /\ Warned[i] = "warned db" /\ Warned[i + 1] = "warned -wal"
    <3>1. i + 1 = 3
      BY <1>5
    <3>2. /\ <<"dir", "db", "-wal", "-shm">>[2] = "db"
          /\ Giving[2] = "give db" /\ Giving[3] = "give -wal"
          /\ Warned[2] = "warned db" /\ Warned[3] = "warned -wal"
      BY DEF Giving, Warned
    <3> QED
      BY <3>1, <3>2, <1>5, Zenon
  <2>2. CASE from = Giving
    BY <1>1, <1>3, <1>a, <2>1, <2>2 DEF Chowned
  <2>3. CASE from = Warned
    BY <1>1, <1>3, <1>a, <2>1, <2>3 DEF Chowned, Ended
  <2> QED
    BY <2>2, <2>3
<1>6. CASE i = 3
  <2>1. /\ <<"dir", "db", "-wal", "-shm">>[i] = "-wal"
        /\ Giving[i] = "give -wal" /\ Giving[i + 1] = "give -shm"
        /\ Warned[i] = "warned -wal" /\ Warned[i + 1] = "warned -shm"
    <3>1. i + 1 = 4
      BY <1>6
    <3>2. /\ <<"dir", "db", "-wal", "-shm">>[3] = "-wal"
          /\ Giving[3] = "give -wal" /\ Giving[4] = "give -shm"
          /\ Warned[3] = "warned -wal" /\ Warned[4] = "warned -shm"
      BY DEF Giving, Warned
    <3> QED
      BY <3>1, <3>2, <1>6, Zenon
  <2>2. CASE from = Giving
    BY <1>1, <1>3, <1>a, <2>1, <2>2 DEF Chowned
  <2>3. CASE from = Warned
    BY <1>1, <1>3, <1>a, <2>1, <2>3 DEF Chowned, Ended
  <2> QED
    BY <2>2, <2>3
<1>7. CASE i = 4
  <2>1. /\ <<"dir", "db", "-wal", "-shm">>[i] = "-shm"
        /\ Giving[i] = "give -shm" /\ Giving[i + 1] = "given"
        /\ Warned[i] = "warned -shm" /\ Warned[i + 1] = "warned"
    <3>1. i + 1 = 5
      BY <1>7
    <3>2. /\ <<"dir", "db", "-wal", "-shm">>[4] = "-shm"
          /\ Giving[4] = "give -shm" /\ Giving[5] = "given"
          /\ Warned[4] = "warned -shm" /\ Warned[5] = "warned"
      BY DEF Giving, Warned
    <3> QED
      BY <3>1, <3>2, <1>7, Zenon
  <2>2. CASE from = Giving
    BY <1>1, <1>3, <1>a, <2>1, <2>2 DEF Chowned
  <2>3. CASE from = Warned
    BY <1>1, <1>3, <1>a, <2>1, <2>3 DEF Chowned, Ended
  <2> QED
    BY <2>2, <2>3
<1> QED
  BY <1>2, <1>4, <1>5, <1>6, <1>7

----------------------------------------------------------------------------
\* Every step keeps the types.
LEMMA TypeNext == TypeOK /\ VersionsAreAPrefix /\ TransactionIsTheWriters /\ [Next]_vars => TypeOK'
<1> SUFFICES ASSUME TypeOK, VersionsAreAPrefix, TransactionIsTheWriters, [Next]_vars PROVE TypeOK'
  OBVIOUS
<1> USE DEF TypeOK
<1>closed. "closed" \in Places
  BY DEF Places
<1>connect. "connect" \in Places
  BY DEF Places
<1>read. "read" \in Places
  BY DEF Places
<1>next. "next" \in Places
  BY DEF Places
<1>record. "record" \in Places
  BY DEF Places
<1>commit. "commit" \in Places
  BY DEF Places
<1>open. "open" \in Places
  BY DEF Places
<1>close. "close" \in Places
  BY DEF Places
<1>failed. "failed" \in Places
  BY DEF Places
<1>dir. "give dir" \in Places
  BY DEF Places
<1>a. Clean \in [created : SUBSET Steps, recorded : SUBSET Steps]
  BY DEF Clean
<1>b. "db" \in Files
  BY FilesAreFour
<1>c. \A p \in Openers : at[p] <= knows[p] => at[p] \in Steps
  BY MigrationsAssumption DEF Steps
<1>d. \A p \in Openers : pc[p] \in InTransaction => at[p] \in Steps
  BY <1>c DEF TransactionIsTheWriters
<1>1. CASE UNCHANGED vars
  BY <1>1 DEF vars, schema, txn, loop, files, host
<1>2. CASE StartAgain
  <2>1. starts' \in Nat
    BY <1>2 DEF StartAgain
  <2>2. pc' \in [Openers -> Places]
    BY <1>2, <1>closed DEF StartAgain, Goto
  <2>3. UNCHANGED <<created, recorded, pending, lock, knows, applied, at, owner, conn, outage>>
    BY <1>2 DEF StartAgain, schema, txn, loop, files
  <2> QED
    BY <2>1, <2>2, <2>3
<1>3. CASE Recover
  BY <1>3 DEF Recover, schema, txn, loop, files, host
<1>4. ASSUME NEW p \in Openers, prepareFiles(p) PROVE TypeOK'
  BY <1>4, <1>connect, <1>failed, <1>b DEF prepareFiles, Goto, Account, schema, txn, loop, files, host
<1>5. ASSUME NEW p \in Openers, enableWAL(p) PROVE TypeOK'
  BY <1>5, <1>read, <1>failed, <1>b DEF enableWAL, Goto, schema, txn, loop, files, host
<1>6. ASSUME NEW p \in Openers, ReadVersion(p) PROVE TypeOK'
  BY <1>6, <1>next, AppliedVersionIsGreatest DEF ReadVersion, Goto, schema, txn, loop, files, host
<1>7. ASSUME NEW p \in Openers, Skip(p) PROVE TypeOK'
  BY <1>7 DEF Skip, schema, txn, loop, files, host
<1>8. ASSUME NEW p \in Openers, Opened(p) PROVE TypeOK'
  BY <1>8, <1>open DEF Opened, Leave, Goto, schema, txn, loop, files, host
<1>9. ASSUME NEW p \in Openers, Statements(p) PROVE TypeOK'
  BY <1>9, <1>record, <1>failed, <1>a, <1>c
     DEF Statements, Rollback, Leave, Disconnect, Goto, schema, txn, loop, files, host
<1>10. ASSUME NEW p \in Openers, RecordVersion(p) PROVE TypeOK'
  BY <1>10, <1>commit, <1>failed, <1>a, <1>d
     DEF RecordVersion, Rollback, Leave, Disconnect, Goto, InTransaction, schema, txn, loop, files, host
<1>11. ASSUME NEW p \in Openers, Commit(p) PROVE TypeOK'
  BY <1>11, <1>next, <1>a DEF Commit, Goto, schema, txn, loop, files, host
<1>12. ASSUME NEW p \in Openers, setupTokenWrite(p) PROVE TypeOK'
  BY <1>12, <1>close, <1>failed DEF setupTokenWrite, Disconnect, Goto, schema, txn, loop, files, host
<1>13. ASSUME NEW p \in Openers, Close(p) PROVE TypeOK'
  <2>1. Giving[1] = "give dir"
    BY DEF Giving
  <2>2. \E s \in Places : Goto(p, s)
    BY <1>13, <1>dir, <1>failed, <2>1 DEF Close
  <2> QED
    BY <1>13, <2>2 DEF Close, Disconnect, Goto, schema, txn, loop, files, host
<1>14. ASSUME NEW p \in Openers, Give(p) PROVE TypeOK'
  <2>1. \E s \in Places : Goto(p, s)
    BY <1>14, GiveSteps DEF Places
  <2>2. UNCHANGED owner \/ \E f \in Files : Chown(f)
    BY <1>14, GiveSteps, FilesAreFour
  <2>3. UNCHANGED <<schema, txn, loop, conn, host>>
    BY <1>14, GiveSteps
  <2> QED
    BY <2>1, <2>2, <2>3 DEF Goto, Chown, schema, txn, loop, files, host
<1>15. ASSUME NEW p \in Openers, Fail(p) PROVE TypeOK'
  BY <1>15, <1>failed, <1>a DEF Fail, Rollback, Leave, Disconnect, Goto, schema, txn, loop, files, host
<1>16. ASSUME NEW p \in Openers, Die(p) PROVE TypeOK'
  BY <1>16, <1>failed, <1>a DEF Die, Leave, Goto, schema, txn, loop, files, host
<1> QED
  BY <1>1, <1>2, <1>3, <1>4, <1>5, <1>6, <1>7, <1>8, <1>9, <1>10, <1>11, <1>12, <1>13, <1>14, <1>15, <1>16
     DEF Next, Step, migrate, setupTokenIssue, Apply

----------------------------------------------------------------------------
\* A process that is neither in migrate's loop nor enters it, and does not
\* get its store, disturbs nothing the schema theorems rest on.
LEMMA OutsideTheLoop ==
    ASSUME TypeOK, SchemaParts, NEW p \in Openers, NEW s,
           pc[p] \notin InLoop, s \notin InLoop \cup {"open"},
           Goto(p, s), UNCHANGED <<schema, txn, loop>>
    PROVE  SchemaParts'
<1>1. \A q \in Openers : q # p => pc'[q] = pc[q]
  BY DEF TypeOK, Goto
<1>2. pc'[p] = s
  BY DEF TypeOK, Goto
<1>3. UNCHANGED <<created, recorded, pending, lock, knows, applied, at>>
  BY DEF schema, txn, loop
<1> HIDE DEF Goto
<1>4. VersionsAreAPrefix'
  BY <1>3 DEF SchemaParts, VersionsAreAPrefix
<1>5. LockIsTheWriters'
  BY <1>1, <1>2, <1>3 DEF SchemaParts, LockIsTheWriters, InTransaction, InLoop
<1>6. TransactionIsTheWriters'
  BY <1>1, <1>2, <1>3 DEF SchemaParts, TransactionIsTheWriters, InTransaction, InLoop, Clean
<1>7. LoopIsBehind'
  BY <1>1, <1>2, <1>3 DEF SchemaParts, LoopIsBehind
<1>8. OpenedIsMigrated'
  BY <1>1, <1>2, <1>3 DEF SchemaParts, OpenedIsMigrated
<1> QED
  BY <1>4, <1>5, <1>6, <1>7, <1>8 DEF SchemaParts

\* A process that fails or dies takes its transaction with it, and leaves the
\* schema and the transaction of another as they were.
LEMMA GivingUp ==
    ASSUME TypeOK, SchemaParts, NEW p \in Openers, Leave(p, "failed"), UNCHANGED schema,
           IF p \in lock \/ lock = {} THEN pending' = Clean /\ lock' = {} ELSE UNCHANGED txn
    PROVE  SchemaParts'
<1>1. \A q \in Openers : q # p => pc'[q] = pc[q] /\ at'[q] = at[q] /\ applied'[q] = applied[q]
  BY DEF TypeOK, Leave, Goto
<1>2. pc'[p] = "failed" /\ at'[p] = 1
  BY DEF TypeOK, Leave, Goto
<1>3. UNCHANGED <<created, recorded, knows>>
  BY DEF schema, Leave
<1>4. IF p \in lock \/ lock = {} THEN pending' = Clean /\ lock' = {} ELSE UNCHANGED <<pending, lock>>
  BY DEF txn
<1>5. VersionsAreAPrefix'
  BY <1>3 DEF SchemaParts, VersionsAreAPrefix
<1>6. LockIsTheWriters'
  BY <1>1, <1>2, <1>4 DEF SchemaParts, LockIsTheWriters, InTransaction, TypeOK
<1>7. TransactionIsTheWriters'
  BY <1>1, <1>2, <1>3, <1>4 DEF SchemaParts, LockIsTheWriters, TransactionIsTheWriters, InTransaction, Clean
<1>8. LoopIsBehind'
  BY <1>1, <1>2, <1>3 DEF SchemaParts, LoopIsBehind, InLoop
<1>9. OpenedIsMigrated'
  BY <1>1, <1>2, <1>3 DEF SchemaParts, OpenedIsMigrated
<1> QED
  BY <1>5, <1>6, <1>7, <1>8, <1>9 DEF SchemaParts

\* A process that goes on in its loop, to a migration whose predecessors are
\* recorded.
LEMMA OnInTheLoop ==
    ASSUME TypeOK, SchemaParts, NEW p \in Openers, UNCHANGED <<schema, txn, knows>>,
           Goto(p, "next"), pc[p] \notin InTransaction,
           applied' = [applied EXCEPT ![p] = applied'[p]],
           at' = [at EXCEPT ![p] = at'[p]], at'[p] \in Nat,
           1 .. applied'[p] \subseteq recorded,
           \A v \in Steps : v < at'[p] => v \in recorded
    PROVE  SchemaParts'
<1>1. \A q \in Openers : q # p => pc'[q] = pc[q] /\ at'[q] = at[q] /\ applied'[q] = applied[q]
  BY DEF TypeOK, Goto
<1>2. pc'[p] = "next"
  BY DEF TypeOK, Goto
<1>3. UNCHANGED <<created, recorded, pending, lock, knows>>
  BY DEF schema, txn
<1>5. VersionsAreAPrefix'
  BY <1>3 DEF SchemaParts, VersionsAreAPrefix
<1>6. LockIsTheWriters'
  BY <1>1, <1>2, <1>3 DEF SchemaParts, LockIsTheWriters, InTransaction, TypeOK
<1>7. TransactionIsTheWriters'
  BY <1>1, <1>2, <1>3 DEF SchemaParts, TransactionIsTheWriters, InTransaction, Clean
<1>8. LoopIsBehind'
  BY <1>1, <1>2, <1>3 DEF SchemaParts, LoopIsBehind, InLoop
<1>9. OpenedIsMigrated'
  BY <1>1, <1>2, <1>3 DEF SchemaParts, OpenedIsMigrated
<1> QED
  BY <1>5, <1>6, <1>7, <1>8, <1>9 DEF SchemaParts

----------------------------------------------------------------------------
\* Every step keeps what the schema theorems rest on.
LEMMA SchemaNext == TypeOK /\ SchemaParts /\ [Next]_vars => SchemaParts'
<1> SUFFICES ASSUME TypeOK, SchemaParts, [Next]_vars PROVE SchemaParts'
  OBVIOUS
<1>1. CASE UNCHANGED vars
  BY <1>1 DEF vars, schema, txn, loop, files, SchemaParts, VersionsAreAPrefix, LockIsTheWriters,
     TransactionIsTheWriters, LoopIsBehind, OpenedIsMigrated, Clean
<1>2. CASE StartAgain
  BY <1>2, OutsideTheLoop, MigrationsAssumption DEF StartAgain, InLoop
<1>3. CASE Recover
  BY <1>3 DEF Recover, schema, txn, loop, files, SchemaParts, VersionsAreAPrefix, LockIsTheWriters,
     TransactionIsTheWriters, LoopIsBehind, OpenedIsMigrated, Clean
<1>4. ASSUME NEW p \in Openers, prepareFiles(p) PROVE SchemaParts'
  BY <1>4, OutsideTheLoop DEF prepareFiles, InLoop
<1>5. ASSUME NEW p \in Openers, enableWAL(p) PROVE SchemaParts'
  BY <1>5, OutsideTheLoop DEF enableWAL, InLoop
\* The version that is read stands for every version before it.
<1>6. ASSUME NEW p \in Openers, ReadVersion(p) PROVE SchemaParts'
  <2>1. appliedVersion \in Nat /\ 1 .. appliedVersion \subseteq recorded
    BY AppliedVersionIsGreatest DEF SchemaParts
  <2>2. applied'[p] = appliedVersion
    BY <1>6 DEF ReadVersion, TypeOK
  <2>3. at[p] = 1 /\ at' = at
    BY <1>6 DEF ReadVersion, SchemaParts, LoopIsBehind, InLoop
  <2>4. at' = [at EXCEPT ![p] = at'[p]] /\ applied' = [applied EXCEPT ![p] = applied'[p]]
    BY <1>6, <2>2, <2>3 DEF ReadVersion, TypeOK
  <2>5. \A v \in Steps : v < at'[p] => v \in recorded
    BY <2>3 DEF Steps
  <2>6. UNCHANGED <<schema, txn, knows>> /\ Goto(p, "next") /\ pc[p] \notin InTransaction
    BY <1>6 DEF ReadVersion, InTransaction
  <2>7. at'[p] \in Nat /\ 1 .. applied'[p] \subseteq recorded
    BY <2>1, <2>2, <2>3
  <2> QED
    BY <2>4, <2>5, <2>6, <2>7, OnInTheLoop
\* A step that is passed over is not beyond the version that was read.
<1>7. ASSUME NEW p \in Openers, Skip(p) PROVE SchemaParts'
  <2>1. at'[p] = at[p] + 1 /\ at' = [at EXCEPT ![p] = at'[p]]
    BY <1>7 DEF Skip, TypeOK
  <2>2. /\ 1 .. applied[p] \subseteq recorded
        /\ \A v \in Steps : v < at[p] => v \in recorded
    BY <1>7 DEF Skip, SchemaParts, LoopIsBehind, InLoop
  <2>3. at[p] \in recorded
    BY <1>7, <2>2 DEF Skip, TypeOK
  <2>4. \A v \in Steps : v < at'[p] => v \in recorded
    BY <2>1, <2>2, <2>3 DEF Steps, TypeOK
  <2>5. applied' = applied /\ applied' = [applied EXCEPT ![p] = applied'[p]]
    BY <1>7 DEF Skip, TypeOK
  <2>6. Goto(p, "next")
    BY <1>7 DEF Skip, Goto, TypeOK
  <2>7. UNCHANGED <<schema, txn, knows>> /\ pc[p] \notin InTransaction
    BY <1>7 DEF Skip, InTransaction
  <2>8. at'[p] \in Nat /\ 1 .. applied'[p] \subseteq recorded
    BY <2>1, <2>2, <2>5 DEF TypeOK
  <2> QED
    BY <2>1, <2>4, <2>5, <2>6, <2>7, <2>8, OnInTheLoop
\* The loop is through: all that the binary knows is behind it.
<1>8. ASSUME NEW p \in Openers, Opened(p) PROVE SchemaParts'
  <2>1. \A q \in Openers : q # p => pc'[q] = pc[q] /\ at'[q] = at[q] /\ applied'[q] = applied[q]
    BY <1>8 DEF Opened, TypeOK, Leave, Goto
  <2>2. pc'[p] = "open" /\ at'[p] = 1 /\ pc[p] = "next"
    BY <1>8 DEF Opened, TypeOK, Leave, Goto
  <2>3. UNCHANGED <<created, recorded, pending, lock, knows>>
    BY <1>8 DEF Opened, Leave, schema, txn
  <2>4. 1 .. knows[p] \subseteq created
    <3>1. \A v \in Steps : v < at[p] => v \in created
      BY <2>2 DEF SchemaParts, LoopIsBehind, InLoop, VersionsAreAPrefix
    <3> QED
      BY <1>8, <3>1, MigrationsAssumption DEF Opened, TypeOK, Steps
  <2>5. LockIsTheWriters' /\ TransactionIsTheWriters' /\ VersionsAreAPrefix'
    BY <2>1, <2>2, <2>3 DEF SchemaParts, LockIsTheWriters, TransactionIsTheWriters, InTransaction, Clean,
       VersionsAreAPrefix
  <2>6. LoopIsBehind'
    BY <2>1, <2>2, <2>3 DEF SchemaParts, LoopIsBehind, InLoop
  <2>7. OpenedIsMigrated'
    BY <2>1, <2>3, <2>4 DEF SchemaParts, OpenedIsMigrated
  <2> QED
    BY <2>5, <2>6, <2>7 DEF SchemaParts
<1>9. ASSUME NEW p \in Openers, Statements(p) PROVE SchemaParts'
  <2>1. CASE at[p] \in created
    BY <1>9, <2>1, GivingUp DEF Statements, Rollback
  <2>2. CASE at[p] \notin created
    <3>1. \A q \in Openers : q # p => pc'[q] = pc[q]
      BY <1>9, <2>2 DEF Statements, TypeOK, Goto
    <3>2. pc'[p] = "record" /\ pc[p] = "next" /\ at[p] <= knows[p]
      BY <1>9, <2>2 DEF Statements, TypeOK, Goto
    <3>3. lock = {} /\ lock' = {p} /\ UNCHANGED <<created, recorded, knows, applied, at>>
      BY <1>9, <2>2 DEF Statements, schema, loop
    <3>4. pending'.created = {at[p]} /\ pending'.recorded = {}
      BY <1>9, <2>2 DEF Statements, SchemaParts, TransactionIsTheWriters, Clean
    <3>5. \A q \in Openers : pc[q] \notin InTransaction
      BY <3>3 DEF SchemaParts, LockIsTheWriters
    <3>6. VersionsAreAPrefix' /\ LockIsTheWriters'
      BY <3>1, <3>2, <3>3, <3>5 DEF SchemaParts, VersionsAreAPrefix, LockIsTheWriters, InTransaction
    <3>7. TransactionIsTheWriters'
      BY <2>2, <3>1, <3>2, <3>3, <3>4, <3>5 DEF TransactionIsTheWriters, InTransaction
    <3>8. LoopIsBehind' /\ OpenedIsMigrated'
      BY <3>1, <3>2, <3>3 DEF SchemaParts, LoopIsBehind, InLoop, OpenedIsMigrated
    <3> QED
      BY <3>6, <3>7, <3>8 DEF SchemaParts
  <2> QED
    BY <2>1, <2>2
<1>10. ASSUME NEW p \in Openers, RecordVersion(p) PROVE SchemaParts'
  <2>0. p \in lock /\ at[p] \notin recorded
    BY <1>10 DEF RecordVersion, SchemaParts, LockIsTheWriters, TransactionIsTheWriters, InTransaction,
       VersionsAreAPrefix
  <2>1. \A q \in Openers : q # p => pc'[q] = pc[q] /\ pc[q] \notin InTransaction
    BY <1>10, <2>0 DEF RecordVersion, TypeOK, Goto, SchemaParts, LockIsTheWriters
  <2>2. pc'[p] = "commit" /\ pc[p] = "record"
    BY <1>10, <2>0 DEF RecordVersion, TypeOK, Goto
  <2>3. UNCHANGED <<created, recorded, lock, knows, applied, at>>
    BY <1>10, <2>0 DEF RecordVersion, schema, loop
  <2>4. pending'.created = pending.created /\ pending'.recorded = {at[p]}
    BY <1>10, <2>0 DEF RecordVersion, TypeOK
  <2>5. VersionsAreAPrefix' /\ LockIsTheWriters'
    BY <2>0, <2>1, <2>2, <2>3 DEF SchemaParts, VersionsAreAPrefix, LockIsTheWriters, InTransaction
  <2>6. TransactionIsTheWriters'
    BY <2>0, <2>1, <2>2, <2>3, <2>4 DEF SchemaParts, TransactionIsTheWriters, InTransaction
  <2>7. LoopIsBehind' /\ OpenedIsMigrated'
    BY <2>1, <2>2, <2>3 DEF SchemaParts, LoopIsBehind, InLoop, OpenedIsMigrated
  <2> QED
    BY <2>5, <2>6, <2>7 DEF SchemaParts
\* What is committed is the first version that is missing.
<1>11. ASSUME NEW p \in Openers, Commit(p) PROVE SchemaParts'
  <2>0. p \in lock /\ pc[p] = "commit"
    BY <1>11 DEF Commit, SchemaParts, LockIsTheWriters, InTransaction
  <2>1. \A q \in Openers : q # p => /\ pc'[q] = pc[q] /\ at'[q] = at[q]
                                    /\ pc[q] \notin InTransaction
    BY <1>11, <2>0 DEF Commit, TypeOK, Goto, SchemaParts, LockIsTheWriters
  <2>2. pc'[p] = "next" /\ at'[p] = at[p] + 1 /\ UNCHANGED <<knows, applied>>
    BY <1>11 DEF Commit, TypeOK, Goto
  <2>3. /\ at[p] <= knows[p] /\ at[p] \notin recorded
        /\ created' = recorded \cup {at[p]} /\ recorded' = recorded \cup {at[p]}
    BY <1>11, <2>0 DEF Commit, SchemaParts, TransactionIsTheWriters, InTransaction, VersionsAreAPrefix
  <2>4. at[p] \in Steps /\ at[p] \in Nat
    BY <2>3, MigrationsAssumption DEF TypeOK, Steps
  <2>5. \A v \in Steps : v < at[p] => v \in recorded
    BY <2>0 DEF SchemaParts, LoopIsBehind, InLoop
  <2>6. VersionsAreAPrefix'
    <3>1. PICK n \in Nat : recorded = 1 .. n
      BY DEF SchemaParts, VersionsAreAPrefix
    <3>2. n < at[p]
      BY <2>3, <2>4, <3>1 DEF Steps
    <3>3. n + 1 \in Steps
      BY <2>4, <3>2, MigrationsAssumption DEF Steps
    <3>4. ~(n + 1 < at[p])
      BY <2>5, <3>1, <3>3
    <3>5. at[p] = n + 1
      BY <2>4, <3>2, <3>4
    <3>6. recorded' = 1 .. (n + 1)
      BY <2>3, <3>1, <3>5
    <3> QED
      BY <2>3, <3>6 DEF VersionsAreAPrefix
  <2>7. LockIsTheWriters' /\ TransactionIsTheWriters'
    BY <1>11, <2>1, <2>2 DEF Commit, LockIsTheWriters, TransactionIsTheWriters, InTransaction, Clean
  <2>8. LoopIsBehind'
    <3>1. \A v \in Steps : v < at'[p] => v \in recorded'
      BY <2>2, <2>3, <2>4, <2>5 DEF Steps
    <3>2. 1 .. applied'[p] \subseteq recorded'
      BY <2>0, <2>2, <2>3 DEF SchemaParts, LoopIsBehind, InLoop
    <3>3. \A q \in Openers : q # p =>
            /\ pc[q] \notin InLoop => at[q] = 1
            /\ pc[q] \in InLoop => /\ 1 .. applied[q] \subseteq recorded
                                   /\ \A v \in Steps : v < at[q] => v \in recorded
      BY DEF SchemaParts, LoopIsBehind
    <3>4. \A v : v \in recorded => v \in recorded'
      BY <2>3
    <3> QED
      BY <2>1, <2>2, <3>1, <3>2, <3>3, <3>4 DEF LoopIsBehind, InLoop
  <2>9. OpenedIsMigrated'
    BY <2>1, <2>2, <2>3 DEF SchemaParts, OpenedIsMigrated, VersionsAreAPrefix
  <2> QED
    BY <2>6, <2>7, <2>8, <2>9 DEF SchemaParts
<1>12. ASSUME NEW p \in Openers, setupTokenWrite(p) PROVE SchemaParts'
  BY <1>12, OutsideTheLoop DEF setupTokenWrite, InLoop
<1>13. ASSUME NEW p \in Openers, Close(p) PROVE SchemaParts'
  <2>1. Giving[1] = "give dir"
    BY DEF Giving
  <2> QED
    BY <1>13, <2>1, OutsideTheLoop DEF Close, InLoop
<1>14. ASSUME NEW p \in Openers, Give(p) PROVE SchemaParts'
  <2>1. \E s : s \notin InLoop \cup {"open"} /\ Goto(p, s)
    BY <1>14, GiveSteps DEF InLoop
  <2>2. UNCHANGED <<schema, txn, loop>> /\ pc[p] \notin InLoop
    BY <1>14, GiveSteps DEF InLoop
  <2> QED
    BY <2>1, <2>2, OutsideTheLoop
<1>15. ASSUME NEW p \in Openers, Fail(p) PROVE SchemaParts'
  <2>1. lock = {} => pending = Clean
    BY DEF SchemaParts, TransactionIsTheWriters
  <2> QED
    BY <1>15, <2>1, GivingUp DEF Fail, Rollback, txn
<1>16. ASSUME NEW p \in Openers, Die(p) PROVE SchemaParts'
  <2>1. lock = {} => pending = Clean
    BY DEF SchemaParts, TransactionIsTheWriters
  <2> QED
    BY <1>16, <2>1, GivingUp DEF Die, txn
<1> QED
  BY <1>1, <1>2, <1>3, <1>4, <1>5, <1>6, <1>7, <1>8, <1>9, <1>10, <1>11, <1>12, <1>13, <1>14, <1>15, <1>16
     DEF Next, Step, migrate, setupTokenIssue, Apply

----------------------------------------------------------------------------
\* A file that is not root's does not become root's as long as the database is
\* not: that one gives a new journal its owner.
Kept ==
    /\ owner["dir"] # "nobody" => owner'["dir"] \in {owner["dir"], "dokkup"}
    /\ owner["db"] # "nobody" => owner'["db"] \in {owner["db"], "dokkup"}
    /\ owner["db"] = "dokkup" => \A f \in Journal : owner[f] # "root" => owner'[f] # "root"

\* A step that keeps the files so, and takes its process no further in handing
\* over, keeps what the hand-over rests on.
LEMMA FilesAreKept ==
    ASSUME TypeOK, FileParts, Kept, NEW p \in Openers, NEW s, Goto(p, s),
           s \notin {"give db", "give -wal", "give -shm", "given"},
           s \in {"closed", "failed"} \/ owner'["db"] # "nobody"
    PROVE  FileParts'
<1>1. \A q \in Openers : q # p => pc'[q] = pc[q]
  BY DEF TypeOK, Goto
<1>2. pc'[p] = s
  BY DEF TypeOK, Goto
<1>3. DatabaseIsThere'
  BY <1>1, <1>2 DEF FileParts, DatabaseIsThere, Kept
<1>4. GivenStaysGiven'
  BY <1>1, <1>2 DEF FileParts, GivenStaysGiven, Kept, Journal
<1> QED
  BY <1>3, <1>4 DEF FileParts

\* A process that ends its connection makes no file root's.
LEMMA DisconnectKeeps ==
    ASSUME TypeOK, NEW p \in Openers, Disconnect(p)
    PROVE  Kept
  BY FilesAreFour DEF TypeOK, Disconnect, Kept, Journal

\* Every step keeps what the hand-over rests on.
LEMMA FilesNext == TypeOK /\ FileParts /\ [Next]_vars => FileParts'
<1> SUFFICES ASSUME TypeOK, FileParts, [Next]_vars PROVE FileParts'
  OBVIOUS
<1>a. UNCHANGED owner => Kept
  BY DEF Kept
<1>b. \A p \in Openers : pc[p] \notin {"closed", "failed"} => owner["db"] # "nobody"
  BY DEF FileParts, DatabaseIsThere
<1>c. \A f \in Files : Chown(f) => Kept
  BY FilesAreFour DEF TypeOK, Chown, Kept, Journal
<1>d. Kept /\ owner["db"] # "nobody" => owner'["db"] # "nobody"
  BY DEF Kept
<1>1. CASE UNCHANGED vars
  BY <1>1 DEF vars, files, FileParts, DatabaseIsThere, GivenStaysGiven
<1>2. CASE StartAgain
  BY <1>2, <1>a, FilesAreKept, MigrationsAssumption DEF StartAgain, files
<1>3. CASE Recover
  BY <1>3 DEF Recover, files, FileParts, DatabaseIsThere, GivenStaysGiven
<1>4. ASSUME NEW p \in Openers, prepareFiles(p) PROVE FileParts'
  <2>1. CASE Access(p, "dir") /\ Access(p, "db")
    <3>1. owner' = [owner EXCEPT !["db"] = IF @ = "nobody" THEN Account(p) ELSE @] /\ Goto(p, "connect")
      BY <1>4, <2>1 DEF prepareFiles
    <3>2. Kept /\ owner'["db"] # "nobody"
      BY <3>1, FilesAreFour DEF TypeOK, Kept, Journal, Account
    <3> QED
      BY <3>1, <3>2, FilesAreKept
  <2>2. CASE ~(Access(p, "dir") /\ Access(p, "db"))
    BY <1>4, <1>a, <2>2, FilesAreKept DEF prepareFiles
  <2> QED
    BY <2>1, <2>2
<1>5. ASSUME NEW p \in Openers, enableWAL(p) PROVE FileParts'
  <2>1. CASE \A f \in Files : Access(p, f)
    <3>1. /\ owner' = [f \in Files |-> IF owner[f] = "nobody" THEN owner["db"] ELSE owner[f]]
          /\ Goto(p, "read")
      BY <1>5, <2>1 DEF enableWAL
    <3>2. Kept /\ owner'["db"] # "nobody"
      BY <1>5, <1>b, <3>1, FilesAreFour DEF TypeOK, Kept, Journal, enableWAL
    <3> QED
      BY <3>1, <3>2, FilesAreKept
  <2>2. CASE ~(\A f \in Files : Access(p, f))
    BY <1>5, <1>a, <2>2, FilesAreKept DEF enableWAL, files
  <2> QED
    BY <2>1, <2>2
<1>6. ASSUME NEW p \in Openers, ReadVersion(p) PROVE FileParts'
  BY <1>6, <1>a, <1>b, FilesAreKept DEF ReadVersion, files
<1>7. ASSUME NEW p \in Openers, Skip(p) PROVE FileParts'
  BY <1>7 DEF Skip, files, FileParts, DatabaseIsThere, GivenStaysGiven
<1>8. ASSUME NEW p \in Openers, Opened(p) PROVE FileParts'
  BY <1>8, <1>a, <1>b, FilesAreKept DEF Opened, Leave, files
<1>9. ASSUME NEW p \in Openers, Statements(p) PROVE FileParts'
  BY <1>9, <1>a, <1>b, FilesAreKept, DisconnectKeeps DEF Statements, Rollback, Leave, files
<1>10. ASSUME NEW p \in Openers, RecordVersion(p) PROVE FileParts'
  BY <1>10, <1>a, <1>b, FilesAreKept, DisconnectKeeps DEF RecordVersion, Rollback, Leave, files
<1>11. ASSUME NEW p \in Openers, Commit(p) PROVE FileParts'
  BY <1>11, <1>a, <1>b, FilesAreKept DEF Commit, files
<1>12. ASSUME NEW p \in Openers, setupTokenWrite(p) PROVE FileParts'
  BY <1>12, <1>a, <1>b, FilesAreKept, DisconnectKeeps DEF setupTokenWrite, files
<1>13. ASSUME NEW p \in Openers, Close(p) PROVE FileParts'
  <2>1. Giving[1] = "give dir"
    BY DEF Giving
  <2>2. Kept /\ owner'["db"] # "nobody"
    BY <1>13, <1>b, <1>d, DisconnectKeeps DEF Close
  <2> QED
    BY <1>13, <2>1, <2>2, FilesAreKept DEF Close
\* The chown of one file, and the next is the run's turn.
<1>14. ASSUME NEW p \in Openers, Give(p) PROVE FileParts'
  <2>0. Kept /\ owner["db"] # "nobody" /\ owner'["db"] # "nobody"
    BY <1>14, <1>a, <1>b, <1>c, <1>d, GiveSteps, FilesAreFour
  <2>1. CASE \E w \in {"warned", "warned db", "warned -wal", "warned -shm"} : Goto(p, w)
    BY <2>0, <2>1, FilesAreKept
  <2> DEFINE Gave(f, from, to) == pc[p] = from /\ Goto(p, to) /\ Chown(f)
  <2>2. ASSUME NEW s, Goto(p, s)
        PROVE  /\ \A q \in Openers : q # p => pc'[q] = pc[q]
               /\ pc'[p] = s
    BY <2>2 DEF TypeOK, Goto
  <2>3. ASSUME NEW f \in Files, Chown(f), owner[f] # "nobody" PROVE owner'[f] = "dokkup"
    BY <2>3 DEF TypeOK, Chown
  <2>4. ASSUME NEW f \in Files, Chown(f) PROVE owner'[f] # "root"
    BY <2>4 DEF TypeOK, Chown
  <2>5. CASE Gave("dir", "give dir", "give db")
    <3>1. owner'["dir"] = "dokkup"
      BY <2>3, <2>5, FilesAreFour DEF FileParts, GivenStaysGiven
    <3>2. pc'[p] = "give db" /\ \A q \in Openers : q # p => pc'[q] = pc[q]
      BY <2>2, <2>5
    <3> QED
      BY <2>0, <3>1, <3>2 DEF FileParts, DatabaseIsThere, GivenStaysGiven, Kept, Journal
  <2>6. CASE Gave("db", "give db", "give -wal")
    <3>1. owner'["db"] = "dokkup" /\ owner["dir"] = "dokkup"
      BY <2>0, <2>3, <2>6, FilesAreFour DEF FileParts, GivenStaysGiven
    <3>2. pc'[p] = "give -wal" /\ \A q \in Openers : q # p => pc'[q] = pc[q]
      BY <2>2, <2>6
    <3> QED
      BY <2>0, <3>1, <3>2 DEF FileParts, DatabaseIsThere, GivenStaysGiven, Kept, Journal
  <2>7. CASE Gave("-wal", "give -wal", "give -shm")
    <3>1. owner'["-wal"] # "root" /\ owner["dir"] = "dokkup" /\ owner["db"] = "dokkup"
      BY <2>4, <2>7, FilesAreFour DEF FileParts, GivenStaysGiven
    <3>2. pc'[p] = "give -shm" /\ \A q \in Openers : q # p => pc'[q] = pc[q]
      BY <2>2, <2>7
    <3> QED
      BY <2>0, <3>1, <3>2 DEF FileParts, DatabaseIsThere, GivenStaysGiven, Kept, Journal
  <2>8. CASE Gave("-shm", "give -shm", "given")
    <3>1. /\ owner'["-shm"] # "root" /\ owner["-wal"] # "root"
          /\ owner["dir"] = "dokkup" /\ owner["db"] = "dokkup"
      BY <2>4, <2>8, FilesAreFour DEF FileParts, GivenStaysGiven
    <3>2. pc'[p] = "given" /\ \A q \in Openers : q # p => pc'[q] = pc[q]
      BY <2>2, <2>8
    <3> QED
      BY <2>0, <3>1, <3>2 DEF FileParts, DatabaseIsThere, GivenStaysGiven, Kept, Journal
  <2> QED
    BY <1>14, <2>1, <2>5, <2>6, <2>7, <2>8, GiveSteps
<1>15. ASSUME NEW p \in Openers, Fail(p) PROVE FileParts'
  BY <1>15, FilesAreKept, DisconnectKeeps DEF Fail, Rollback, Leave
<1>16. ASSUME NEW p \in Openers, Die(p) PROVE FileParts'
  BY <1>16, <1>a, FilesAreKept DEF Die, Leave
<1> QED
  BY <1>1, <1>2, <1>3, <1>4, <1>5, <1>6, <1>7, <1>8, <1>9, <1>10, <1>11, <1>12, <1>13, <1>14, <1>15, <1>16
     DEF Next, Step, migrate, setupTokenIssue, Apply

----------------------------------------------------------------------------
\* The invariant holds initially: there is no table, and no run has begun.
LEMMA InvInit == Init => Inv
<1> SUFFICES ASSUME Init PROVE Inv
  OBVIOUS
<1>1. \A p \in Openers : pc[p] = "closed" /\ at[p] = 1
  BY DEF Init
<1>2. TypeOK
  <2>1. pc \in [Openers -> Places]
    <3>1. "closed" \in Places
      BY DEF Places
    <3> QED
      BY <3>1 DEF Init
  <2>2. Clean \in [created : SUBSET Steps, recorded : SUBSET Steps]
    BY DEF Clean
  <2> QED
    BY <2>1, <2>2 DEF Init, TypeOK
<1>3. VersionsAreAPrefix
  <2>1. {} = 1 .. 0
    OBVIOUS
  <2> QED
    BY <2>1 DEF Init, VersionsAreAPrefix
<1>4. LockIsTheWriters /\ TransactionIsTheWriters /\ LoopIsBehind /\ OpenedIsMigrated
  BY <1>1 DEF Init, LockIsTheWriters, TransactionIsTheWriters, LoopIsBehind, OpenedIsMigrated, InLoop,
     InTransaction
<1>5. FileParts
  BY <1>1 DEF Init, FileParts, DatabaseIsThere, GivenStaysGiven
<1> QED
  BY <1>2, <1>3, <1>4, <1>5 DEF Inv, SchemaParts

\* The invariant holds in every reachable state.
LEMMA InvAlways == Spec => []Inv
<1>1. Inv /\ [Next]_vars => Inv'
  BY TypeNext, SchemaNext, FilesNext DEF Inv, SchemaParts
<1> QED
  BY <1>1, InvInit, PTL DEF Spec

\* However many processes open the database at once, whatever their binaries
\* know, and wherever one fails or dies, the schema never holds half a
\* migration, one it does not know of, or a later one without an earlier one.
THEOREM SchemaIsWholeAlways == Spec => []SchemaIsWhole
<1>1. Inv => SchemaIsWhole
  <2> SUFFICES ASSUME Inv PROVE SchemaIsWhole
    OBVIOUS
  <2>1. PICK n \in Nat : recorded = 1 .. n
    BY DEF Inv, SchemaParts, VersionsAreAPrefix
  <2>2. \A v \in recorded : \A w \in 1 .. v : w \in recorded
    BY <2>1
  <2> QED
    BY <2>2 DEF Inv, SchemaParts, VersionsAreAPrefix, SchemaIsWhole
<1> QED
  BY <1>1, InvAlways, PTL

\* A process that got its store, after any races with the others, has every
\* table its own binary uses.
THEOREM OpenedIsMigratedAlways == Spec => []OpenedIsMigrated
<1>1. Inv => OpenedIsMigrated
  BY DEF Inv, SchemaParts
<1> QED
  BY <1>1, InvAlways, PTL

\* Once any run of setup-token has handed the database over, no step of any
\* process makes a file root's again, so the service can write to it.
THEOREM HandedOverIsUsableAlways == Spec => []HandedOverIsUsable
<1>1. Inv => HandedOverIsUsable
  <2> SUFFICES ASSUME Inv, NEW p \in Runs, pc[p] = "given" PROVE \A f \in Files : Access(Service, f)
    BY DEF HandedOverIsUsable, LockedOut
  <2>1. p \in Openers
    BY DEF Runs
  <2>2. /\ owner["dir"] = "dokkup" /\ owner["db"] = "dokkup"
        /\ owner["-wal"] # "root" /\ owner["-shm"] # "root"
    BY <2>1 DEF Inv, FileParts, GivenStaysGiven
  <2>3. \A f \in Files : owner[f] \in {"dokkup", "root", "nobody"}
    BY DEF Inv, TypeOK
  <2> QED
    BY <2>2, <2>3, FilesAreFour DEF Access, Account
<1> QED
  BY <1>1, InvAlways, PTL
=============================================================================
