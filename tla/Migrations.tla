----------------------------- MODULE Migrations -----------------------------
(***************************************************************************)
(* Opening the database (internal/store, Open, Close and migrate): every   *)
(* process that opens it, the service and each run of `setup-token`,       *)
(* brings the schema up to the version its own binary knows.  The version  *)
(* is read outside the transactions that follow, so two processes can set  *)
(* out to apply the same step.                                             *)
(*                                                                         *)
(* Whoever creates a file owns it, and every file here is its owner's only *)
(* (0700, 0600).  The service runs as dokkup; setup-token runs as root and *)
(* hands over what it may have created (internal/cli/setuptoken.go).  A    *)
(* journal file root creates gets the owner of the database: SQLite does   *)
(* that.                                                                   *)
(*                                                                         *)
(* A transaction is deferred: it takes SQLite's write lock with its first  *)
(* statement and sees what is committed by then.  What it wrote is in      *)
(* `pending` until it commits, and gone if it does not.  As long as the     *)
(* outage lasts, anything may fail.                                        *)
(***************************************************************************)
EXTENDS Naturals, Sequences

CONSTANTS
    Openers,     \* the processes that open the database
    Service,     \* the one systemd starts again when it fails
    Latest,      \* the number of migrations the newest binary knows
    Burst        \* the starts systemd grants within its window: the unit sets no other limit

ASSUME MigrationsAssumption ==
    /\ Latest \in Nat \ {0}
    /\ Burst \in Nat \ {0}
    /\ Service \in Openers

VARIABLES
    created,   \* the migrations whose statements are in the schema
    recorded,  \* the rows of schema_migrations
    pending,   \* what the open transaction did: its statements, its row
    lock,      \* the process that holds the write lock: {} or one process
    pc,        \* where each process is
    knows,     \* the migrations its binary has
    applied,   \* the version it read
    at,        \* the migration its loop is at
    owner,     \* whose each file is
    conn,      \* the processes that have a connection
    outage,    \* whether statements, commits, chowns and lock waits may still fail
    starts     \* the starts of the service that systemd counts

schema == <<created, recorded>>
txn == <<pending, lock>>
loop == <<knows, applied, at>>
files == <<owner, conn>>
host == <<outage, starts>>
vars == <<schema, txn, pc, loop, files, host>>

Journal == {"-wal", "-shm"}
Files == {"dir", "db"} \cup Journal
Runs == Openers \ {Service}

Steps == 1 .. Latest
Clean == [created |-> {}, recorded |-> {}]

Opening == {"connect", "read", "next", "record", "commit"}
Giving == <<"give dir", "give db", "give -wal", "give -shm", "given">>
Warned == <<"warned", "warned db", "warned -wal", "warned -shm", "warned">>   \* after a failed chown
Ended == {"given", "warned", "failed"}

\* The data directory is there, and so may be an empty database: as the
\* service left them, or a run of setup-token that did not come to its end.
Init ==
    /\ created = {}
    /\ recorded = {}
    /\ pending = Clean
    /\ lock = {}
    /\ pc = [p \in Openers |-> "closed"]
    /\ knows \in [Openers -> Steps]
    /\ applied = [p \in Openers |-> 0]
    /\ at = [p \in Openers |-> 1]
    /\ owner \in {o \in [Files -> {"dokkup", "root", "nobody"}] :
                    o["dir"] # "nobody" /\ \A f \in Journal : o[f] = "nobody"}
    /\ conn = {}
    /\ outage = TRUE
    /\ starts = 1

Goto(p, s) == pc' = [pc EXCEPT ![p] = s]

\* migrate returns, and its variables are gone.
Leave(p, s) ==
    /\ Goto(p, s)
    /\ applied' = [applied EXCEPT ![p] = 0]
    /\ at' = [at EXCEPT ![p] = 1]
    /\ UNCHANGED knows

----------------------------------------------------------------------------
(* The files.                                                              *)

Account(p) == IF p = Service THEN "dokkup" ELSE "root"
Access(p, f) == Account(p) = "root" \/ owner[f] \in {Account(p), "nobody"}

\* A process ends its connection; the last to do so removes the journal.
Disconnect(p) ==
    /\ conn' = conn \ {p}
    /\ owner' = IF conn = {p}
                THEN [f \in Files |-> IF f \in Journal THEN "nobody" ELSE owner[f]]
                ELSE owner

\* Mutation: the database is created as a file that must not be there.
prepareNewFiles(p) ==
    /\ pc[p] = "closed"
    /\ IF Access(p, "dir") /\ owner["db"] = "nobody"
       THEN owner' = [owner EXCEPT !["db"] = Account(p)] /\ Goto(p, "connect")
       ELSE UNCHANGED owner /\ Goto(p, "failed")
    /\ UNCHANGED <<schema, txn, loop, conn, host>>

\* prepareFiles: chmod of the directory, which is for its owner, and the
\* database created or opened.
prepareFiles(p) ==
    /\ pc[p] = "closed"
    /\ IF Access(p, "dir") /\ Access(p, "db")
       THEN /\ owner' = [owner EXCEPT !["db"] = IF @ = "nobody" THEN Account(p) ELSE @]
            /\ Goto(p, "connect")
       ELSE UNCHANGED owner /\ Goto(p, "failed")
    /\ UNCHANGED <<schema, txn, loop, conn, host>>

\* enableWAL and CREATE TABLE IF NOT EXISTS schema_migrations: the first to
\* come creates the journal.
enableWAL(p) ==
    /\ pc[p] = "connect"
    /\ IF \A f \in Files : Access(p, f)
       THEN /\ conn' = conn \cup {p}
            /\ owner' = [f \in Files |-> IF owner[f] = "nobody" THEN owner["db"] ELSE owner[f]]
            /\ Goto(p, "read")
       ELSE UNCHANGED files /\ Goto(p, "failed")
    /\ UNCHANGED <<schema, txn, loop, host>>

----------------------------------------------------------------------------
(* migrate.                                                                *)

\* SELECT MAX(version): what is committed at this moment, zero for nothing.
appliedVersion ==
    IF recorded = {} THEN 0 ELSE CHOOSE v \in recorded : \A w \in recorded : w <= v

ReadVersion(p) ==
    /\ pc[p] = "read"
    /\ applied' = [applied EXCEPT ![p] = appliedVersion]
    /\ Goto(p, "next")
    /\ UNCHANGED <<schema, txn, knows, at, files, host>>

\* Mutation: one more step than was applied is passed over.
SkipOneMore(p) ==
    /\ pc[p] = "next"
    /\ at[p] <= knows[p] /\ at[p] <= applied[p] + 1
    /\ at' = [at EXCEPT ![p] = @ + 1]
    /\ UNCHANGED <<schema, txn, pc, knows, applied, files, host>>

\* migrate's loop: past the steps that were applied, and out of it.
Skip(p) ==
    /\ pc[p] = "next"
    /\ at[p] <= knows[p] /\ at[p] <= applied[p]
    /\ at' = [at EXCEPT ![p] = @ + 1]
    /\ UNCHANGED <<schema, txn, pc, knows, applied, files, host>>

Opened(p) ==
    /\ pc[p] = "next"
    /\ at[p] > knows[p]
    /\ Leave(p, "open")
    /\ UNCHANGED <<schema, txn, files, host>>

----------------------------------------------------------------------------
(* apply: the statements, the row, the commit.                             *)

\* What it did is undone and Open closes the database.
Rollback(p) == pending' = Clean /\ lock' = {} /\ Leave(p, "failed") /\ Disconnect(p)

\* CREATE TABLE fails when the table is there.
Statements(p) ==
    /\ pc[p] = "next"
    /\ at[p] <= knows[p] /\ at[p] > applied[p]
    /\ lock = {}
    /\ IF at[p] \in created
       THEN Rollback(p)
       ELSE /\ lock' = {p}
            /\ pending' = [pending EXCEPT !.created = {at[p]}]
            /\ Goto(p, "record")
            /\ UNCHANGED <<loop, files>>
    /\ UNCHANGED <<schema, host>>

\* Mutation: the version is recorded on its own, outside the transaction.
RecordAtOnce(p) ==
    /\ pc[p] = "record"
    /\ recorded' = recorded \cup {at[p]}
    /\ Goto(p, "commit")
    /\ UNCHANGED <<created, txn, loop, files, host>>

RecordVersion(p) ==
    /\ pc[p] = "record"
    /\ IF at[p] \in recorded
       THEN Rollback(p)
       ELSE /\ pending' = [pending EXCEPT !.recorded = {at[p]}]
            /\ Goto(p, "commit")
            /\ UNCHANGED <<lock, loop, files>>
    /\ UNCHANGED <<schema, host>>

Commit(p) ==
    /\ pc[p] = "commit"
    /\ created' = created \cup pending.created
    /\ recorded' = recorded \cup pending.recorded
    /\ pending' = Clean
    /\ lock' = {}
    /\ Goto(p, "next")
    /\ at' = [at EXCEPT ![p] = @ + 1]
    /\ UNCHANGED <<knows, applied, files, host>>

\* A statement or the commit fails, or the lock is not obtained within
\* busyTimeout: SQLite rolls the transaction back.
Fail(p) ==
    /\ outage
    /\ pc[p] \in Opening
    /\ IF p \in lock THEN Rollback(p) ELSE Leave(p, "failed") /\ Disconnect(p) /\ UNCHANGED txn
    /\ UNCHANGED <<schema, host>>

\* The process dies: what it had open is closed for it, and the journal stays.
Die(p) ==
    /\ outage
    /\ pc[p] \notin Ended \cup {"closed"}
    /\ Leave(p, "failed")
    /\ conn' = conn \ {p}
    /\ IF p \in lock THEN pending' = Clean /\ lock' = {} ELSE UNCHANGED txn
    /\ UNCHANGED <<schema, owner, host>>

----------------------------------------------------------------------------
(* setupTokenIssue.  A run that issues nothing hands nothing over.         *)

setupTokenWrite(p) ==
    /\ p \in Runs /\ pc[p] = "open"
    /\ \/ Goto(p, "close") /\ UNCHANGED files
       \/ Goto(p, "failed") /\ Disconnect(p)
    /\ UNCHANGED <<schema, txn, loop, host>>

Close(p) ==
    /\ pc[p] = "close"
    /\ Disconnect(p)
    /\ Goto(p, Giving[1]) \/ (outage /\ Goto(p, "failed"))
    /\ UNCHANGED <<schema, txn, loop, host>>

\* Mutation: only the directory and the database are handed over.
GiveDatabaseOnly(p) ==
    \E i \in {1, 2} :
        /\ pc[p] = Giving[i]
        /\ owner' = [owner EXCEPT ![<<"dir", "db">>[i]] = "dokkup"]
        /\ Goto(p, IF i = 2 THEN "given" ELSE Giving[i + 1])
        /\ UNCHANGED <<schema, txn, loop, conn, host>>

\* setupTokenGiveDatabaseToTheService, a chown at a time: what is not there is
\* passed over, and after one that fails the next is still tried.  A host
\* without the account keeps everything as it is.
Give(p) ==
    \E i \in 1 .. 4, from \in {Giving, Warned} :
        LET file == <<"dir", "db", "-wal", "-shm">>[i] IN
        /\ pc[p] = from[i] /\ pc[p] \notin Ended
        /\ \/ /\ owner' = [owner EXCEPT ![file] = IF @ = "nobody" THEN @ ELSE "dokkup"]
              /\ Goto(p, from[i + 1])
           \/ outage /\ Goto(p, Warned[i + 1]) /\ UNCHANGED owner
           \/ outage /\ i = 1 /\ Goto(p, "warned") /\ UNCHANGED owner
        /\ UNCHANGED <<schema, txn, loop, conn, host>>

\* The service exits with an error and systemd starts it again.  It gives up on
\* a unit that used up its starts; it grants one more only if they were long
\* ago, or somebody cleared the failure.
StartAgain ==
    /\ pc[Service] = "failed"
    /\ \/ starts < Burst /\ starts' = starts + 1
       \/ starts >= Burst /\ UNCHANGED starts
    /\ Goto(Service, "closed")
    /\ UNCHANGED <<schema, txn, loop, files, outage>>

Recover ==
    /\ outage
    /\ outage' = FALSE
    /\ UNCHANGED <<schema, txn, pc, loop, files, starts>>

Apply(p) == Statements(p) \/ RecordVersion(p) \/ Commit(p)
migrate(p) == ReadVersion(p) \/ Skip(p) \/ Opened(p) \/ Apply(p)
setupTokenIssue(p) == setupTokenWrite(p) \/ Close(p) \/ Give(p)
Step(p) == enableWAL(p) \/ migrate(p) \/ setupTokenIssue(p)

Next ==
    \/ \E p \in Openers : prepareFiles(p) \/ Step(p) \/ Fail(p) \/ Die(p)
    \/ StartAgain \/ Recover

Spec == Init /\ [][Next]_vars

\* A process that opens the database goes on, and systemd starts the service
\* again when it failed, as long as its limit allows.  Outages end.
FairSpec ==
    /\ Spec
    /\ \A p \in Openers : WF_vars(Step(p))
    /\ WF_vars(prepareFiles(Service)) /\ WF_vars(StartAgain /\ starts < Burst)
    /\ WF_vars(Recover)

----------------------------------------------------------------------------
(* Properties.                                                             *)

\* The database never holds half a migration, nor one it does not know of, nor
\* a later one without an earlier one, whoever was killed or lost a race.
SchemaIsWhole ==
    /\ created = recorded
    /\ \A v \in recorded : \A w \in 1 .. v : w \in recorded

\* A process that got its store has every table its binary uses.
OpenedIsMigrated == \A p \in Openers : pc[p] = "open" => 1 .. knows[p] \subseteq created

LockedOut == ~\A f \in Files : Access(Service, f)

\* Once one run of setup-token has handed the database over, the service can
\* write to it, whatever other runs create, fail at, or leave behind as they
\* die.
HandedOverIsUsable == (\E p \in Runs : pc[p] = "given") => ~LockedOut

\* The service gets its store in the end, also when it lost the race for a
\* migration, or for the file itself, against a run of the CLI: that is an
\* error, whatever busyTimeout allows it to wait, but the next start finds the
\* migration applied and the file its own.  What keeps it out for good is a
\* file of root's that no run has handed over, and systemd, which gives up when
\* the starts are used up.  Once nothing fails any more only lost races use them
\* up, at most one for each migration: with that many left, systemd does not
\* give up.
ServiceOpens ==
    LET GivenUp == pc[Service] = "failed" /\ starts >= Burst
        NobodyGives == \A p \in Runs : pc[p] \in {"closed", "warned", "failed"}
        Enough == ~outage /\ starts + Latest <= Burst IN
    /\ pc[Service] = "closed" ~> (pc[Service] = "open" \/ (LockedOut /\ NobodyGives) \/ GivenUp)
    /\ (pc[Service] = "closed" /\ Enough) ~> (pc[Service] = "open" \/ LockedOut)
=============================================================================
