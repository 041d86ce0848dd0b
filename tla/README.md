# dokkup in TLA+

A formal model of dokkup, the administration service for a Dokku host: one Go
binary that is a web service (`serve`), a command that bootstraps its owner
(`setup-token`), and the commands that put it on a host, replace it and take it
away again (`install`, `update`, `uninstall`). Line numbers and paths are those of
the repository; `PROJECT.json` maps every definition to the lines it models.

## 1. The system

| Part | State | Operations | Interacts with |
|---|---|---|---|
| store (`internal/store`) | one SQLite database: operators, sessions, setup tokens, audit entries, schema version | one statement or one transaction per call; migrations at every open | shared by the service and every CLI run, in different processes |
| service (`internal/server`) | mode, two rate limiters; per request only locals | setup, sign-in, sign-out, session report, health | the store, several calls per request |
| `setup-token` (`internal/cli/setuptoken.go`) | none | open, draw, issue, record, close, give the files to the service, print | the store; the installer runs it too |
| rate limiter (`ratelimit.go`) | a counter and a moment | `take` | in front of setup and sign-in |
| `update` (`internal/cli/update.go`, `internal/release`) | the binary, the one kept beside it, a download | resolve, fetch, verify, swap, restart, wait, roll back | systemd, `/api/health` |
| `install`, `uninstall` (`internal/cli`, `internal/host`, `internal/service`) | accounts, directories, sudo rule, binary, certificate, vhost, unit; a stack of undos | about twenty steps, each undone in reverse when a later one fails; collected failures on removal | useradd, nginx, systemd |
| certificate manager (`internal/acme`) | account key, key, certificate, challenge tokens in memory | look, obtain, write, reload; sleep | a certificate authority, nginx |
| dokku client (`internal/dokku`) | none of its own; per call a process group, two pipes, two goroutines of os/exec | a report with a time limit, a log stream for as long as somebody watches | the HTTP handlers call it, through sudo it starts Dokku |
| confirmation (`internal/authn`) | none | password, or the host's name | the person at the terminal, before a removal |
| other | | | `web`, scripts |

What is hard in it:

* *Interleaving.* Two processes and any number of requests share the database, and
  a request is several transactions. Two processes may migrate at once. Two
  updates may run at once; nothing locks them out.
* *Stopping in the middle.* Updates, installations and renewals are sequences of
  renames, links and restarts; a kill, a crash or a reboot falls between any two.
* *Partial failure.* Every step has an error path of its own, and what was done
  before it has to be undone, kept or reported.
* *Somebody else's state.* systemd restarts whatever is at the path, gives up, or
  holds an old unit; nginx serves what it once loaded; an authority counts failures.
* *Whose file it is.* The service and a command run by root create the same files,
  and each file is for its owner only.
* *Other processes and servers.* A command forks, lingers and holds a pipe; a server
  stalls, trickles or never stops; both have to be given up on, from another goroutine
  than the one that waits.
* *Time.* Tokens and sessions expire between a check and its use; limiters refill
  at fractions; certificates run out.

## 2. Modules

| Module | Models | Lines of code it stands for |
|---|---|---|
| `Store` | the tables, their constraints and the store calls that the service and the CLI make | `store/setuptoken.go`, `session.go`, `audit.go`, `migrate.go` (schema), `secret` |
| `Access` | handlers and CLI runs, one action per store call, over `Store` | `server/*.go`, `cli/setuptoken.go`, `cli/serve.go` |
| `OwnerClaim` | the abstract promise of ADR 0007: unclaimed, or one owner for good, through the one outstanding token | implemented by `Access` |
| `Managed` | `Access` with the rest of the store's API running beside it | `store/operator.go`, `session.go`, `setuptoken.go` |
| `AccessProofs` | theorems about `Access` and `Managed` | |
| `TokenBucket`, `TokenBucketProofs` | the limiter, and theorems about it | `server/ratelimit.go` |
| `Updater`, `UpdaterProofs` | `dokkup update` with systemd; the download is one step; theorems | `cli/update.go`, `release/release.go` |
| `Download`, `DownloadProofs` | that step: `Fetch`, its watchdog and the server; theorems | `release/fetch.go`, `verify.go`, `client.go` |
| `Migrations`, `MigrationsProofs` | opening the database, its files and their owners, handing them over; theorems | `store/migrate.go`, `store/store.go`, `cli/setuptoken.go` |
| `Installation`, `InstallationProofs` | `dokkup install` and `dokkup uninstall`, with its confirmation; theorems | `cli/install.go`, `cli/uninstall.go`, `authn`, `host/tools.go`, `service` |
| `Dokku`, `DokkuProofs` | one invocation of Dokku, with os/exec and the processes; the fake's `Logs`; theorems | `dokku/exec.go`, `dokku/fake.go` |
| `LogStream` | the abstract promise of `Client.Logs` | `dokku/dokku.go`; implemented by `Dokku` |
| `Certificate`, `CertificateProofs` | the ACME manager, nginx, the authority and time; theorems | `acme/acme.go` |
| `MCAccess`, `MCManaged` | the scenes a run begins with, and symmetry sets, for TLC | |

Definitions carry the name of the function they translate where TLA+ allows it
(`RedeemSetupToken`, `needsCertificate`, `writeOwnedFile`); where one function is
several steps, each step has the name of what it does. Operators whose comment
begins "Mutation:" are faulty variants of the definition below them; nothing in
the specifications uses them. They serve to show that the properties can fail.

### How state and code correspond

*Store and Access.* A table is a set of rows with the columns the code reads. A
store call is one action, because it is one statement or one transaction and
SQLite runs writers one at a time; it may always answer `Err` and change nothing.
A handler is a sequence of such calls, and `step[r]` says which one is next; the
row it read (`who`), the token it drew (`cookie`) and the status it will answer
stay with the request, so a stale row is stale in the model too. The entry of an act
or a refusal is one step and the answer (`Respond`) another: a service that stops in
between leaves an entry for a request nobody was answered. `by` in an audit
entry is a history variable that names the call that wrote it. A request is sent
once; a retry is another request. A restart of the service loses the requests in
flight and may change the mode. A digest is a tag on what it is the digest of.
Addresses are the normalised ones. The limiters and the CSRF check may turn any
request away. The `ErrExists`/`ErrOwnerExists` answer of setup is in the model, and
no behaviour of it gets there: a token and an owner never exist together, and the
Owner, once there, stays (observation 1).

The database is new at the beginning or has its Owner.

*Managed.* `CreateOperator` and the other calls of the store's API have no caller but
tests yet; they may be made at any time, before there is an Owner too. `generation`
and `startedIn` are history variables: how often the row of an id was deleted, and
the generation a session was inserted in. They tell an account from the next one
with the same id.

*TokenBucket.* The code counts fractions of a token; the model counts clock units,
`Refill` to a token. The code's product of floating-point numbers is truncated to
nanoseconds and can come out a unit short, so a wait is one of two values; and a
bucket that is a rounding error short of a whole token may refuse. Errors that build
up over many calls to more than a unit are not modelled.

*Updater.* `binary` is the file at the path, `image` the file the process runs
from; a rename changes the first and not the second. `Respawn` is
`Restart=on-failure` and may give up. Versions are naturals in the order of
`release.compare`; `Dev` is any build that is not a release. `replaced` and `alone`
are history variables: what the last update found at the path, and whether any two
have ever been under way together. `healthy`, chosen at the start, says whether only
a release can be at fault. An update is run from the installed binary or from one of
`Copies`; the version it compares with and rolls back to is that of the binary it is
run from, as in the code.

*Migrations.* A deferred transaction takes the write lock with its first
statement; what it did is `pending` until the commit. The number of migrations a
process knows is that of its own binary, so old and new binaries meet. An older
binary on a newer schema opens it: that is what the code does. `owner` says whose each
file is; a file is for its owner and root, since every mode is 0700 or 0600. The first
connection creates the two journal files and the last to close removes them, both in
one step; SQLite run by root gives them the owner of the database, which is external
and taken from how it is documented. A run of `setup-token` hands the files over one
chown at a time and goes on after one that fails. Anything may fail or die until
`outage` ends. The unit sets no start limit, so systemd's own holds: `starts` counts
the starts of the service, and after `Burst` of them within the window systemd need
not start it again (`service.go:31-37`); whether the window has passed by then is left
open. Two seconds between starts and a window of ten make it reachable.

*Installation.* The content of a path is the number of the run that wrote it, `Before`
for what was there first, `Torn` for a file cut short. `process`, `loaded` and
`serving` are what systemd and nginx hold, which changes only when they are told or
the host is rebooted. `undo` is the stack `i.undo`. A step in `Faults` may fail without
effect, one in `Halves` with its effect half made, one in `UndoFaults` while it is
undone. An account and directories that are already there are given their attributes
by every run (`Ensured`), which is a change of content and has no undo; `groupadd -f`
leaves a group as it is. `found`, `met` and `hurt` are history variables: the host at the start of the
run, whether this run met a failure of the host's, and the runs after which a file may
be torn. Staging files (`.new`) are left out, and every run installs the same version.
The renewal of the certificate by the running service is in `Certificate`, not here.

*Download.* A binary, a list and a signature are the release's or not; nothing else
about them matters to `Fetch`. A tick passes only when no goroutine of dokkup's has
anything to do: scheduling and writing to the disk are taken to be prompt beside
`stallTimeout`, and the caller's context is `context.Background()`, as it is in
`update`. An address is a scheme and a host: GitHub's, a loopback address or any other.
A failing `os.Remove`, whose error `Fetch` ignores, is not modelled. The watchdog's timer follows Go 1.23: what a stopped
timer had not yet delivered is dropped.

*Dokku.* The processes of a command are the one dokkup started, one in its group and
one that left it. Any of them may fork, write, exit, hold stdout and stderr and give up
either. Lines have
their number; `TooLong` is one past `maxLogLine`. os/exec is modelled from how the code
uses it: `watchCtx` (`Park`, `Cancel`, `WaitDelay`), `Wait` (`Reap`, `Collect`, `Await`)
and the goroutines that copy: both pipes of a report, and stderr alone of a stream, whose
stdout the scanner reads itself (`Held`). A timer is whether it has fired. Through sudo
(`hop`), which is how the service runs Dokku, the processes are not the service's own
and no signal of it reaches them.

*Certificate.* A certificate is its key, whether it will do, and the life it has
left; a key is a model value that is not in use elsewhere, so the state space is
finite without a bound on the number of renewals. Time passes while the manager
sleeps, in whole units, because an attempt is short beside fifteen minutes, and the
authority looks at a challenge within a unit. nginx answers a reload at once.
`outage` says whether the calls in `Faults` may still fail; a behaviour may begin
without one, and one that has ended does not come back.

## 3. Runs

Deadlock is checked in the runs of `TokenBucket` and `Certificate`. In the others the work
comes to an end: requests, CLI runs, updates and installations are finitely many.

### Runs that pass

| Run | Checks |
|---|---|
| `access` | `TokenOnlyWhileUnowned`, `ClaimIsKept` (refinement of `OwnerClaim`), `AnswersAreOnTheTrail`, `SignedOutIsOver`, `SignedInMeansSetUp` |
| `managed` | `SessionsAreNotInherited`, `TrailIsImmutable`, `ManagedClaimIsKept` |
| `token_bucket` | `WindowIsBounded`, `RetryAfterIsHonoured` |
| `update` | `BinaryIsWhole`, `WayBackIsKept`, `NoPersonNeeded`, `ExitCodesAreTrue`, `EveryUpdateEnds` |
| `download` | `ArtifactIsVerified`, `NothingLeftBehind`, `StallIsTrue`, `FetchEnds` |
| `migrations` | `SchemaIsWhole`, `OpenedIsMigrated`, `HandedOverIsUsable`, `ServiceOpens` |
| `install` | `FilesAreRestored`, `InstalledIsRunning`, `NginxCanStart`, `RerunCompletes`, `NothingRemains`, `DatabaseIsKept` |
| `certificate` | `MismatchIsNoticed`, `OneSubscriber`, `TokensAreForgotten`, `FailuresAreSpaced`, `TrustIsReached`, `RenewedInTime` |
| `dokku` | `ContractIsKept` (refinement of `LogStream`), `AnswerIsTrue`, `NothingOutlives`, `InvocationEnds` |

The type invariants are proved, not run: section 4.

Each property has a mutant of the code that breaks it, named in `PROJECT.json`.

Bounds, and why they are enough to make the interesting cases happen:

* `access` begins with one of three scenes; what a scene leaves out has ended in a way
  the specification knows (turned away, lost to a restart, killed before it began).
  The claim: two setup requests, two issuers, two tokens, two addresses and a clock
  that passes the expiry, so that two redemptions of one token, a redemption racing a
  reissue, and one of a revoked and of an expired token all occur; `MaxId` = 2 leaves
  room for a second owner. The report: it falls before, between and after a claim and a
  sign-in. The sign-outs: on a host that has its Owner, two of them with the one cookie
  of a sign-in. Session expiry falls inside the clock, restarts fall anywhere. There is
  one password, since a wrong one is answered as an unknown address is; `managed` has two.
* `managed`: two addresses and two ids, so that an id is given again after a removal
  while a sign-in holds the old row; two passwords, so that a change of password races
  the sign-in that checks it; two removals; both modes and restarts between them. Its
  scenes: a setup request and an issuer, so that housekeeping meets an outstanding
  token; and a sign-in, on an empty database or one that has its Owner.
* `token_bucket`: a burst of two and a refill of seven units at four units a second
  reach fractions of a token and of a second, and a window of more than two bursts.
* `update`: releases 1 and 2, of which 2 does not come up, a host that has `Dev` or
  1, a copy of 1, and two updates: enough for the second to find what the first one
  left, to roll back, to downgrade, and to sweep the other's download.
* `download`: two runs, the second of which finds what a killed first one left; a
  stall of two ticks, so that something can arrive at the last one; two redirects, the
  second from a host that was allowed, to GitHub, to the host itself or elsewhere, over
  either scheme; a body of more reads than are taken.
* `migrations`: the service and two runs of `setup-token`, and two migrations: a race
  for the first, and one for the second after it, between binaries that know different
  numbers, with the directory and the database the service's, root's or not yet there,
  and one run handing over what another has just created or died with. Three starts
  are one more than lost races can use up, so that systemd both gives up and does not.
* `dokku`: three lines through a pipe that holds two, so that a writer blocks and a
  long line comes first, between and last; three processes, with and without sudo.
* `sudo`: one line is enough, and only streams through sudo. Without sudo the same
  property holds.
* `install`: two runs on a host that is bare, has a binary put there by hand or has
  dokkup: install and fail over it, install and remove, remove twice, with every step
  failing cleanly or halfway, three kinds of failing undo, kills anywhere and reboots
  in between. The properties that such damage rightly breaks say so: `hurt` names the
  runs, and observations 7 to 9 the cases.
* `certificate`: lifetimes and intervals keep the order of the code's (a retry is
  shorter than a check, a check shorter than the margin of renewal, the margin
  shorter than the life), and a retry is a quarter of the authority's hour, as fifteen
  minutes is. Four keys are one more than can be in use. Failures are counted within
  one life of the service: observation 10.

Symmetry is used in safety runs only, over sets whose members nothing tells apart.

### Fairness

* `Updater!FairSpec`: an update goes on, since every call from the download on has a
  time limit (`stallTimeout`, systemctl's, `healthProbeTimeout`, `--timeout`), and a
  sound version that was started comes up. Nothing is assumed of systemd or of a
  version that is not sound. The model begins after `resolve`: the body of GitHub's
  answer is read without a limit of time (`release.go:175`), so `EveryUpdateEnds` says
  nothing about a server that stalls there.
* `Migrations!FairSpec`: a process that opens the database goes on, and systemd
  starts the service again when it failed (`Restart=on-failure`) as long as its starts
  are not used up; the outage ends. Nobody has to run `setup-token`. `ServiceOpens` says
  what that gives: the service gets its store or systemd has given up on it, and it has
  not given up if, once nothing failed any more, a start was left for each migration.
* `Download!FairSpec`: dokkup's goroutines run and time passes; a request without an
  answer and a cosign that hangs have time limits (`ResponseHeaderTimeout`,
  `cosignTimeout`). Of the server nothing is assumed: it may say nothing for ever.
* `Dokku!FairSpec`: dokkup's goroutines run and its timers fire. Of the processes and
  of the caller nothing is assumed.
* `Certificate!FairSpec`: the goroutine of `Run` is scheduled, the authority looks
  at a challenge it was told is ready, time passes, and the outage ends. Restarts
  happen only during it; without an end to them nothing could be promised. That an
  attempt goes on also supposes that the calls of the authority return: the ACME client
  has no time limit of its own (`serve.go:150-157` sets none), so an authority that
  accepts a connection and says nothing is outside `TrustIsReached`.

### Runs that end in a violation

Each states what a document or a comment of the repository says, and TLC finds the
code doing otherwise. `PROJECT.json` quotes the lines.

* `service_as_found` – `install` "leaves the host as it found it if it cannot", but
  `startService` records stopping and disabling as its undo also when the service was
  running before: a failed re-installation leaves the earlier one stopped.
* `reload_is_lost` – "nothing here is on a calendar", but a reload that failed once is
  never repeated by the manager, which looks at the files only: the served certificate
  can expire beside a renewed one.

* `sudo` – the killed process group is "the difference between an abandoned browser tab
  costing nothing and costing a `docker logs --follow` per container until the host is
  rebooted", but the service reaches Dokku through sudo, where its signal is refused: a
  stream whose caller has gone runs on until it writes, or for ever. Where no sudo is
  in between `AbandonedStreamIsKilled` holds, and `NothingOutlives` says what is left
  behind in either case.

### Observations

Other places where the model had to follow the code against its words. No property
claims what they contradict, and where one comes near, its comment says so.

1. `server/setup.go:179` describes the 409 as the answer to the loser of two
   redemptions. The winner deleted the token, so the loser gets 403.
2. `store/operator.go:297`: the row `RemoveOperator` asks about afterwards may be a new
   operator's, since ids are given again. It then answers `ErrOwnerProtected` for
   somebody who is not the Owner. Nothing calls it yet.
3. `server/session.go:216`: for the same reason a session and its entry can name
   another operator than the one who typed the password: the id is kept from
   `OperatorByEmail` to `StartSession`, and the foreign key refuses it only while nobody
   has it. Latent as well. `SessionsAreNotInherited` is about what happens after the row
   was inserted.
4. `CONTEXT.md:110` says IP Mode restricts dokkup to the Owner alone. Sign-in does;
   `requireSession` does not, so sessions from before stay good. Latent: no route
   creates other operators.
5. `README.md:135`, exit code 5: `update` run from another copy waits after a rollback
   for the version of that copy, and exits 5 with the restored binary answering.
   `NoPersonNeeded` and `ExitCodesAreTrue` therefore speak of the installed binary.
   An update killed before its restart is not taken up by the next one, which
   reports that there is nothing to do (`update.go:194`).
6. `store/store.go:68`: the loser of a race for a migration waits for the lock and then
   fails on a table that exists, because `migrate` reads the version outside the
   transactions. `ServiceOpens` shows that the service recovers through systemd, each
   lost race at the price of one of the starts it grants.
7. `cli/install.go:1306`: `writeOwnedFile` truncates in place and its undo is recorded
   only when everything went well, so a write that fails half way is not undone. For
   the key of a certificate (a full disk after the truncation) it leaves a torn key
   under a certificate that is put back, and nginx does not start at the next boot.
8. `cli/uninstall.go:135`: a vhost that could not be removed outlives the certificate it
   names, and nginx does not start at the next boot.
9. `cli/uninstall.go:118`: when stopping failed, the unit is removed all the same, and
   the next removal never asks systemd to stop the service; the account stays. This is
   the exception of `RerunCompletes`.
10. `acme/acme.go:84`: `Run` attempts at once at every start, so restarts of the service
    add to the four failures an hour.
11. `acme/acme.go:487`: the worst case of a mismatched pair is a reboot: nginx does not
    start, the manager only reloads it, and the challenge that would replace the pair
    cannot be answered. `TrustIsReached` leaves out the hosts this happened to.
12. `cli/setuptoken.go:211`: "a directory the service can enter holding files it cannot
    write is a state its own next open corrects". The next open is `prepareFiles`, whose
    `OpenFile` is refused on a file of root's with mode 0600. A run of `setup-token` that
    fails or dies after creating the database, whose chown fails, or that came before the
    account existed, keeps the service out until another run hands the files over;
    `ServiceOpens` names exactly that exception.
13. `cli/install.go:1016`: a re-installation writes the pair while the manager of the
    running service may be renewing it. The manager can write its certificate over the
    installer's pair, or its key under the installer's certificate, and an unwinding
    installer can put a key back under a certificate that was renewed meanwhile. The
    certificate left is good and not due, so `needsCertificate` looks away until it is;
    a reboot before then finds a pair nginx refuses.
14. `dokku/exec.go:498`: "a command that ran to completion is a success even if the caller
    went away as the last line came out". Not always: between the exit and the moment
    `Wait` reaps it the cancellation still finds a process to signal, and `Wait` returns
    the context's error for a command that ended well.
15. `dokku/exec.go:148`: through sudo neither `Process.Kill` nor the signal to the group is
    permitted, `Wait` goes on waiting for the process, and the time limit of a report
    takes effect when Dokku ends by itself. `InvocationEnds` has this exception; the run
    `sudo` shows what it means for a stream.
16. `dokku/exec.go:438`: a leader that ends by itself just as the caller goes away can be
    reaped before `watchCtx` was first scheduled. It then hands over without signalling,
    and what the leader left in the group lives on. `NothingOutlives` therefore speaks of
    leaders that were killed.
17. `dokku/fake.go:196`: the fake tells a caller who has left after the last line of a
    stream that is not followed that all went well, and an app it does not know is an
    error although the caller has gone; the real client may answer otherwise. `LogStream`
    allows both. A report wraps a cancellation in a `CommandError`; a stream does not.
18. `dokku/exec.go:457`: the delay "is what covers the one that ignored the signal". It
    covers one that holds stderr: os/exec closes the pipes only while its copying goes on,
    and in a stream only stderr is copied. A process outside the group that holds stdout
    alone keeps the scanner, and with it the handler, for as long as it lives. This is
    `Blocked`, the other exception of `InvocationEnds`.
19. `host/tools.go:249`, `:292`: "leaves the host as it found it if it cannot" is not kept for
    the shell and home of an account and the mode and owner of the two directories, which
    every installation sets and none puts back. `FilesAreRestored` has the exception.
20. `release/client.go:18`: "every request -- the first one and every redirect after it --
    must be HTTPS and must land on GitHub". `allowURL` lets a loopback address through at
    every hop and over any scheme, as its own comment explains. `ArtifactIsVerified` says
    what the code keeps.

## 4. Theorems

TLAPS proves these for every value of the constants that the modules' `ASSUME`s
admit: sets of any size, finite or not, and any bounds. Every invariant and every
action property of a passing run has its theorem, and so have the three refinements.

| Property | Theorem | Module |
|---|---|---|
| `TokenOnlyWhileUnowned`, `ClaimIsKept` | `TokenOnlyWhileUnownedAlways`, `AccessImplementsOwnerClaim` | `AccessProofs` |
| `SignedOutIsOver`, `SignedInMeansSetUp`, `AnswersAreOnTheTrail` | the name with `Always` | `AccessProofs` |
| `SessionsAreNotInherited`, `TrailIsImmutable`, `ManagedClaimIsKept` | the name with `Always` | `AccessProofs` |
| `WindowIsBounded`, `RetryAfterIsHonoured` | the name with `Always` | `TokenBucketProofs` |
| `SchemaIsWhole`, `OpenedIsMigrated`, `HandedOverIsUsable` | the name with `Always` | `MigrationsProofs` |
| `BinaryIsWhole`, `WayBackIsKept`, `ExitCodesAreTrue`, `NoPersonNeeded` | the name with `Always` | `UpdaterProofs` |
| `ArtifactIsVerified`, `NothingLeftBehind`, `StallIsTrue` | the name with `Always` | `DownloadProofs` |
| `MismatchIsNoticed`, `OneSubscriber`, `TokensAreForgotten`, `FailuresAreSpaced`, `RenewedInTime` | the name with `Always` | `CertificateProofs` |
| `FilesAreRestored`, `InstalledIsRunning`, `NginxCanStart`, `NothingRemains`, `RerunCompletes`, `DatabaseIsKept` | the name with `Always` | `InstallationProofs` |
| `AnswerIsTrue`, `NothingOutlives`, `ContractIsKept` | `AnswerIsTrueAlways`, `NothingOutlivesAlways`, `BothClientsKeepTheContract` | `DokkuProofs` |

Along which argument:

* `AccessProofs`. `TypeCorrect`: one lemma per group of handlers; the store's calls
  are typed once by lemmas and cited. `ClaimStep` says what any
  step may do to tokens, owners and the clock; `NextIsClaimStep` shows it of every action
  once. `TokenOnlyWhileUnownedAlways` follows from its strengthening `OneClaim`: a token and
  an owner never exist together, and there is at most one token, so that spending one
  leaves none. `AccessImplementsOwnerClaim` needs the same
  invariant: under it each `ClaimStep` is a step of `OwnerClaim` or leaves the claim alone.
  The three properties of answers share `AccessInv`. `SignedOutIsOver` is not inductive,
  because a sign-in could draw the token of a session that has ended, and because the
  entry comes between the revocation and the answer: `TokensWereDrawn` (whatever a
  request was sent was drawn before, and none is drawn twice) and `EndedIsGone` (no row
  from the revocation on) exclude both.
  `SignedInMeansSetUp` needs `OperatorsAreOwners`: whoever has a session proves that the
  claim was made, whichever of the two reads came first. `AnswersAreOnTheTrail`
  follows from three parts: what was answered is recorded (`ActsAreRecorded`), a request
  that has an entry is on its way to an answer other than 500, has it, or was lost to a
  restart in between (`EntriesAreConcluded`), and a token is recorded before it
  is printed (`PrintedIsRecorded`); `RoutesAreKept` and `HeldRowsAreKnown` say what a
  request holds at each step. In `Managed`, `SessionsAreNotInherited` rests
  on `SessionsAreOwned`: the foreign key, kept through removals and ids given again, has
  an operator for every session, so an id that is given again is nobody's session's; `TrailIsImmutable` is read off every
  store call once, and `ManagedClaimIsKept` extends `ClaimStep` by what housekeeping and
  the management of operators may do.
* `TokenBucketProofs`. `WindowIsBoundedAlways` is not inductive: it speaks of pairs of
  admissions and not of the level. The strengthening `Ledger` says what the level at
  the last call owes to each earlier admission: level plus tokens admitted since is
  at most the capacity plus the time since. `RetryAfterIsHonouredAlways` rests on
  `WaitMatchesLevel`: a refusal's wait is what the level lacks of a token, or a unit less.
* `MigrationsProofs`. For the schema: the versions recorded are `1 .. n`
  (`VersionsAreAPrefix`), so that the `MAX(version)` read outside the transaction stands
  for all of them; the lock is held by the one process in a transaction, and what is
  pending is the migration its loop is at (`LockIsTheWriters`,
  `TransactionIsTheWriters`); a process in its loop has everything behind it recorded
  (`LoopIsBehind`), however stale the version it read. For the files: what a run has
  handed over is never root's again (`GivenStaysGiven`), since the directory and the
  database keep their owner and a journal made anew gets the database's.
* `UpdaterProofs`. `DownloadIsVerified` (a download past the verification is a release
  or was swept away, never partial) gives `BinaryIsWhole`, for updates at once too.
  `OneAtATime` and `NamesHoldVersions` say which of the two names holds which version at
  each point of a swap and a rollback, and give `WayBackIsKept` and `ExitCodesAreTrue`.
  `PutBackRuns` gives `NoPersonNeeded`. That one is an action property: as a statement
  about past updates it is false from the third on, since `replaced` is what the latest
  update found.
* `DownloadProofs`. `FilesAreTheRuns` and `SignatureComesLast` say what is in the directory
  and what is known of it at each step. `TimerIsHonest` carries `StallIsTrue`: while the
  watchdog watches, the timer has run no longer than nothing has arrived, and
  `CancelledMeansQuiet` has the verdict stored before the cancellation it explains.
* `CertificateProofs`. `MismatchIsNoticedAlways` rests on `AttemptIsDue` (an attempt is
  under way only while the certificate needs replacing), `KeyIsInHand` and
  `PairIsWritten` (what the key file holds between the two writes and before the
  reload). `OneSubscriberAlways` rests on `AccountIsSaved`: whatever was registered is
  the key that is on the disk. `TokensAreForgottenAlways` needs that the only token is
  the current challenge's. `FailuresAreSpacedAlways`: each failure is a retry interval
  older than the next (`Apart`), and no validation can fail before the last failure is
  that old (`NextIsLater`); by `CountedIsSpaced` no more than the allowance then fit in
  the hour. It assumes `RetryAssumption`, that the allowance of retries fills the hour:
  four times fifteen minutes. `RenewedInTimeAlways` speaks of behaviours without an outage:
  every challenge is met (`ChallengeIsMet`), what is on disk is served
  (`RenewalIsServed`), and a sleep ends before the certificate does (`SleepIsShort`). It
  assumes `RenewAssumption`: twelve hours are less than thirty days, and an issued
  certificate lives at least those thirty days.
* `InstallationProofs`. The steps of an installation have a rank, and three lemmas say
  once what the shapes of a step do: go on, write a path, record an undo. The undos
  are in the order of the steps, only for steps taken, and hold what was found
  (`OrderParts`). `FilesAreRestored`: what has not been reached is as it was found
  (`YetToCome`), and what differs is owed an undo or was given its attributes anew
  (`ChangesAreOwed`, `Renewed`); that the undos
  can run, in this order, is `HostParts` (a user before its group, a directory under its
  files), `OldBinaryIsKept` and `ProcessIsOwed` (the service is stopped before `userdel`,
  which would refuse). `InstalledIsRunning` is `Progress`: what the steps behind have
  brought about. `NginxCanStart` is `Accepted`: nginx accepts the host as it was found,
  so unwinding comes back to something it accepts, and a removal is past the vhost
  before it touches the certificate. `NothingRemains` and `RerunCompletes`: what is gone
  at each step of a removal without a failure (`RemovedIsGone`), and that a failure is the
  host's or that of a service whose unit is gone (`FailureIsMet`, `Stopped`).
* `DokkuProofs`. The caller's side (`CallIsOfItsKind`, `RefusalIsLast`) and the command's
  side are separate. `LinesAreNext` says that the pipe holds the lines after those
  delivered, which makes each read a step of `LogStream`. `AnswerIsTrue` needs that the
  pipe is closed early only by someone whose error `Wait` returns (`ClosingIsTold`,
  `WatcherHandsOver`) and that a stream neither refused nor broken off was read to its
  end (`AllIsRead`). `NothingOutlives` is `GroupIsGone`: without sudo the group is signalled
  before anything of dokkup's can kill its leader.

TLC checked these invariants on the run of their module before they were proved; the
few parts a failed proof asked for afterwards have the proof alone.

Only model-checked:

* Liveness, since fairness is outside what the prover handles: `EveryUpdateEnds`,
  `ServiceOpens`, `TrustIsReached`, `InvocationEnds`, `FetchEnds`.
* The three violations, which are counterexamples: `ServiceIsAsFound`, `ServedNeverExpires`,
  `AbandonedStreamIsKilled`.

## 5. Not modelled

* Cryptography, the encoding of messages, headers, wording and logs.
* `Rename` and the display of the trail; `CreateOwner`, which nothing calls.
* The preflight checks and prompts of `install` (one refusal before anything is
  changed), its wait for the first certificate, which only reports, and flags.
* The reading of the release API, the arguments and the parsing of Dokku's reports:
  functions of their input without state.
* The installer and a renewal at once (observation 13): the product of `Installation`
  and `Certificate` does not fit a run of minutes, and a composition small enough to
  fit leaves out the undos that make it interesting.
* Power loss under a rename that was not synced.
* The web page, `install.sh`, release scripts, and the test doubles other than the fake
  client's `Logs`.

## 6. Plan

The model is as wide as it is meant to be, and all that is safety in it is proved.
What is left:

1. The safety half of the liveness properties, as theorems: for updates, downloads and
   openings, a variant that every step of dokkup's own lowers and no other actor's step
   raises, so that only fairness and enabledness remain with TLC.
2. Under which additional guard `ServiceIsAsFound` and `ServedNeverExpires` hold, as
   theorems: the first when the service was not running before, the second as long as
   no reload failed.
3. Sharper refinements: `Download` as the one step `Updater` takes it for.
