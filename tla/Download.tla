------------------------------ MODULE Download ------------------------------
(***************************************************************************)
(* Source.Fetch (internal/release/fetch.go, verify.go, client.go) as       *)
(* `dokkup update` calls it: the sweep of what a killed run left, then the *)
(* binary, SHA256SUMS and the signature, one transfer after the other.     *)
(*                                                                         *)
(* A transfer has three actors: the goroutine that copies the body, the    *)
(* watchdog that gives it up when nothing arrives, and a server that may   *)
(* answer, redirect, send, end, break off or say nothing at all.  Time     *)
(* passes in ticks, and only when no goroutine of dokkup's has anything to *)
(* do: what the scheduler owes a runnable goroutine is far below a tick.   *)
(*                                                                         *)
(* Of what is sent all that is kept is whose it is: a binary is the        *)
(* release's or not, a list has the checksum of one of the two or of none, *)
(* a signature is the release's or not.                                    *)
(***************************************************************************)
EXTENDS Naturals

CONSTANTS
    MaxRuns,        \* bound on the runs of update
    Stall,          \* stallTimeout, in ticks
    MaxAsset,       \* maxAssetBytes, in reads
    MaxRedirects,   \* the redirects net/http follows
    Cosign          \* whether cosign is on PATH

ASSUME DownloadAssumption ==
    /\ MaxRuns \in Nat /\ MaxRedirects \in Nat
    /\ Stall \in Nat \ {0} /\ MaxAsset \in Nat \ {0}
    /\ Cosign \subseteq BOOLEAN

VARIABLES
    cosign,
    run,        \* the number of the current run, or of the last one
    pc,         \* where Fetch is
    asset,      \* what is being transferred
    files,      \* the temporary files in the directory, and whose they are
    binary,     \* what was downloaded, and hashed on its way to the disk
    want,       \* the checksum SHA256SUMS gives it
    outcome,
    url,        \* what the request asks for: a scheme and a host
    hops,       \* the redirects followed so far
    body,       \* what is being sent
    arrived,    \* whether something is there to be read: "no", "data", "end", "error"
    got,        \* the reads that returned something
    progress,   \* the channel of that name
    timer,      \* the ticks until the watchdog's timer fires
    dog,        \* where the watchdog is
    quiet,
    cancelled,  \* whether the transfer's context is done
    silence,    \* the ticks since something arrived
    longest     \* and the most they have been

work == <<cosign, run, files, binary, want>>
request == <<url, hops, body>>
watchdog == <<timer, dog, quiet>>
clock == <<silence, longest>>
vars == <<work, pc, asset, outcome, request, arrived, got, progress, watchdog, cancelled, clock>>

GitHub == {"github.com", "githubusercontent.com"}
Hosts == GitHub \cup {"loopback", "elsewhere"}
URLs == [scheme : {"https", "http"}, host : Hosts]
Bodies == [binary |-> {"release", "other"},
           sums   |-> {"release", "other", "unlisted"},
           bundle |-> {"release", "other"}]

Idle == {"idle", "killed"}
Temp(kind) == <<kind, run>>

----------------------------------------------------------------------------
(* Fetch's own steps.                                                      *)

\* A failure removes this run's binary; a signature file goes as
\* verifySignature returns.
fail(why) ==
    /\ pc' = "idle" /\ outcome' = why
    /\ files' = files \ {Temp("binary"), Temp("bundle")}

Ask(a) ==
    /\ pc' = "request"
    /\ asset' = a
    /\ url' = [scheme |-> "https", host |-> "github.com"] /\ hops' = 0
    /\ outcome' = "none"

\* Mutation: the signature files of a killed run are not looked for.
SweepBinaries == {f \in files : f[1] # "binary"}

SweepTemp == {f \in files : f[1] \notin {"binary", "bundle"}}

Fetch ==
    /\ pc \in Idle
    /\ run < MaxRuns
    /\ run' = run + 1
    /\ \/ files' = SweepTemp \cup {<<"binary", run + 1>>} /\ Ask("binary")
       \/ /\ files' = SweepTemp                            \* CreateTemp fails
          /\ pc' = "idle" /\ outcome' = "failed"
          /\ UNCHANGED <<asset, url, hops>>
    /\ binary' = "nothing" /\ want' = "nothing"
    /\ UNCHANGED <<cosign, body, arrived, got, progress, watchdog, cancelled, clock>>

----------------------------------------------------------------------------
(* download: the request and every redirect pass allowURL; the answer is   *)
(* waited for until ResponseHeaderTimeout.                                 *)

\* Mutation: only the first request is checked.
allowFirst(u, hop) == hop = 0 => u.scheme = "https" /\ u.host \in GitHub

\* An address of this host's own is let through whatever its scheme.
allowURL(u, hop) ==
    \/ u.host = "loopback"
    \/ u.scheme = "https" /\ u.host \in GitHub

\* watchProgress
Watch ==
    /\ arrived' = "no" /\ got' = 0
    /\ progress' = FALSE
    /\ timer' = Stall /\ dog' = "watching" /\ quiet' = FALSE
    /\ cancelled' = FALSE
    /\ silence' = 0 /\ longest' = 0

Do ==
    /\ pc = "request"
    /\ \/ /\ allowURL(url, hops)
          /\ pc' = "copy"
          /\ body' \in Bodies[asset]
          /\ Watch
          /\ UNCHANGED <<files, outcome, url, hops>>
       \/ /\ allowURL(url, hops) /\ hops < MaxRedirects
          /\ url' \in URLs /\ hops' = hops + 1
          /\ UNCHANGED <<pc, files, outcome, body, arrived, got, progress, watchdog, cancelled, clock>>
    /\ UNCHANGED <<cosign, run, binary, want, asset>>

\* A refused address, a status other than 200, no answer in time.
DoFails ==
    /\ pc = "request"
    /\ fail("failed")
    /\ UNCHANGED <<cosign, run, binary, want, asset, request, arrived, got, progress, watchdog,
                   cancelled, clock>>

Server ==
    /\ pc = "copy" /\ arrived = "no"
    /\ arrived' \in {"data", "end", "error"}
    /\ silence' = 0
    /\ UNCHANGED <<work, pc, asset, outcome, request, got, progress, watchdog, cancelled, longest>>

\* Mutation: what is read is not counted.
ReadWithoutLimit ==
    /\ pc = "copy" /\ arrived = "data"
    /\ arrived' = "no"
    /\ progress' = TRUE
    /\ UNCHANGED <<work, pc, asset, outcome, request, got, watchdog, cancelled, clock>>

Read ==
    /\ pc = "copy" /\ arrived = "data" /\ got =< MaxAsset
    /\ arrived' = "no"
    /\ got' = got + 1
    /\ progress' = TRUE
    /\ UNCHANGED <<work, pc, asset, outcome, request, watchdog, cancelled, clock>>

\* The download is over, and with it its context.
Leave(next) == pc' = next /\ cancelled' = TRUE /\ UNCHANGED <<files, outcome>>

\* The end of the body, or of what is taken of it; and the errors: of the
\* connection, of the disk, or of the context the watchdog cancelled.
CopyEnds ==
    /\ pc = "copy"
    /\ \/ arrived = "end" /\ got =< MaxAsset /\ Leave("received")
       \/ got > MaxAsset /\ fail("failed") /\ cancelled' = TRUE
       \/ arrived # "no" /\ Leave("copyFailed")
       \/ cancelled /\ Leave("cancelled")
    /\ UNCHANGED <<cosign, run, binary, want, asset, request, arrived, got, progress, watchdog, clock>>

\* stalled() is asked only of a copy that failed.
CopyFailed ==
    /\ pc \in {"copyFailed", "cancelled"}
    /\ fail(IF quiet THEN "stalled" ELSE "failed")
    /\ UNCHANGED <<cosign, run, binary, want, asset, request, arrived, got, progress, watchdog,
                   cancelled, clock>>

----------------------------------------------------------------------------
(* The watchdog.                                                           *)

\* Mutation: what happened is written down after the context is cancelled.
FireThenStore ==
    \/ /\ dog = "watching" /\ timer = 0
       /\ dog' = "cancel" /\ cancelled' = TRUE
       /\ UNCHANGED quiet
    \/ /\ dog = "cancel"
       /\ dog' = "gone" /\ quiet' = TRUE
       /\ UNCHANGED cancelled

\* The timer's case of the select: quiet is stored, then the context is
\* cancelled.
Fire ==
    \/ /\ dog = "watching" /\ timer = 0
       /\ dog' = "cancel" /\ quiet' = TRUE
       /\ UNCHANGED cancelled
    \/ /\ dog = "cancel"
       /\ dog' = "gone" /\ cancelled' = TRUE
       /\ UNCHANGED quiet

\* The other two; with several ready the select takes any of them.
Wake ==
    /\ dog = "watching"
    /\ \/ progress /\ progress' = FALSE /\ timer' = Stall /\ UNCHANGED dog
       \/ cancelled /\ dog' = "gone" /\ UNCHANGED <<progress, timer>>
    /\ UNCHANGED <<quiet, cancelled>>

Dog ==
    /\ \/ Fire /\ UNCHANGED <<progress, timer>>
       \/ Wake
    /\ UNCHANGED <<work, pc, asset, outcome, request, arrived, got, clock>>

Tick ==
    /\ pc = "copy" /\ arrived = "no" /\ ~cancelled
    /\ dog = "watching" /\ ~progress /\ timer > 0
    /\ timer' = timer - 1
    /\ silence' = silence + 1
    /\ longest' = IF silence' > longest THEN silence' ELSE longest
    /\ UNCHANGED <<work, pc, asset, outcome, request, arrived, got, progress, dog, quiet, cancelled>>

----------------------------------------------------------------------------
(* What Fetch does with what it received.                                  *)

Then(next) == pc' = next /\ UNCHANGED <<files, outcome, asset, url, hops>>
Rest == UNCHANGED <<cosign, run, body, arrived, got, progress, watchdog, cancelled, clock>>

\* Sync and Close, then the list.
KeepBinary ==
    /\ pc = "received" /\ asset = "binary"
    /\ \/ binary' = body /\ Ask("sums") /\ UNCHANGED files
       \/ fail("failed") /\ UNCHANGED <<binary, asset, url, hops>>
    /\ UNCHANGED want
    /\ Rest

\* checksumFor
KeepSums ==
    /\ pc = "received" /\ asset = "sums"
    /\ \/ body # "unlisted" /\ want' = body /\ Then("compare")
       \/ body = "unlisted" /\ fail("failed") /\ UNCHANGED <<want, asset, url, hops>>
    /\ UNCHANGED binary
    /\ Rest

\* The checksum, the mode, and the look for cosign.
Compare ==
    /\ pc = "compare"
    /\ \/ binary = want /\ ~cosign /\ pc' = "idle" /\ outcome' = "unsigned"
            /\ UNCHANGED <<files, asset, url, hops>>
       \/ binary = want /\ cosign /\ Ask("bundle") /\ files' = files \cup {Temp("bundle")}
       \/ fail("failed") /\ UNCHANGED <<asset, url, hops>>  \* a mismatch, Chmod, CreateTemp
    /\ UNCHANGED <<binary, want>>
    /\ Rest

\* cosign verify-blob, bounded by cosignTimeout and its WaitDelay.
verifySignature ==
    /\ pc = "received" /\ asset = "bundle"
    /\ \/ /\ binary = "release" /\ body = "release"
          /\ pc' = "idle" /\ outcome' = "signed"
          /\ files' = files \ {Temp("bundle")}
       \/ fail("failed")
    /\ UNCHANGED <<binary, want, asset, url, hops>>
    /\ Rest

\* A killed run leaves its files where they are.
Kill ==
    /\ pc \notin Idle
    /\ pc' = "killed" /\ outcome' = "none"
    /\ dog' = "gone"
    /\ UNCHANGED <<work, asset, request, arrived, got, progress, timer, quiet, cancelled, clock>>

----------------------------------------------------------------------------
Init ==
    /\ cosign \in Cosign
    /\ run = 0 /\ pc = "idle" /\ asset = "binary"
    /\ files = {} /\ binary = "nothing" /\ want = "nothing" /\ outcome = "none"
    /\ url = [scheme |-> "https", host |-> "github.com"] /\ hops = 0 /\ body = "release"
    /\ arrived = "no" /\ got = 0 /\ progress = FALSE
    /\ timer = Stall /\ dog = "gone" /\ quiet = FALSE /\ cancelled = TRUE
    /\ silence = 0 /\ longest = 0

Transfer == Do \/ DoFails \/ Read \/ CopyEnds \/ CopyFailed
Proceed == KeepBinary \/ KeepSums \/ Compare \/ verifySignature

Next == Fetch \/ Transfer \/ Proceed \/ Server \/ Dog \/ Tick \/ Kill
Spec == Init /\ [][Next]_vars

\* dokkup's goroutines run, time passes, and a request or a cosign that hangs
\* is given up on; what the server does is its own choice.
FairSpec == Spec /\ WF_vars(Transfer \/ Proceed) /\ WF_vars(Dog) /\ WF_vars(Tick)

----------------------------------------------------------------------------
(* Properties.                                                             *)

\* An artifact that is handed to the updater is the file SHA256SUMS vouches
\* for, is the release's own when cosign is there to say so, and is on the
\* disk (Fetch: "there is no partial success"); and through however many
\* redirects nothing is read from anywhere but GitHub over HTTPS or a loopback
\* address of this host, which allowURL admits at any hop and over any scheme.
ArtifactIsVerified ==
    /\ outcome \in {"signed", "unsigned"} =>
        /\ binary = want
        /\ Temp("binary") \in files
        /\ cosign <=> outcome = "signed"
        /\ cosign => binary = "release"
    /\ pc = "copy" /\ url.host # "loopback" => url.scheme = "https" /\ url.host \in GitHub

\* A run that returned leaves in the directory what it returned and nothing
\* else, neither of its own nor of a run that was killed before it (Fetch: "a
\* failure at any point leaves nothing behind in dir"; SweepTemp).
NothingLeftBehind ==
    pc = "idle" => files = IF outcome \in {"signed", "unsigned"} THEN {Temp("binary")} ELSE {}

\* A download is said to have stalled only when nothing had arrived for as
\* long as that takes, and the one the watchdog gave up on is always said to
\* have, though verdict and cancellation are two steps of another goroutine
\* and the last bytes may come in between (watchProgress: "a slow transfer
\* that is still arriving is left alone").
StallIsTrue ==
    [][/\ outcome' = "stalled" /\ outcome # "stalled" => longest >= Stall
       /\ pc = "cancelled" /\ pc' = "idle" => outcome' = "stalled"]_vars

\* Against any server, silent, trickling or endless, a download ends and its
\* watchdog with it (watchProgress: "what keeps `sudo dokkup update` from
\* sitting at `Downloading` forever").
FetchEnds == pc \notin Idle ~> pc \in Idle /\ dog = "gone"
=============================================================================
