---------------------------- MODULE Certificate ----------------------------
(***************************************************************************)
(* acme.Manager (internal/acme/acme.go), the goroutine `serve` starts to   *)
(* keep the certificate of dokkup's own domain current, with what it works *)
(* against: the two files the vhost names, the nginx that read them once,  *)
(* the certificate authority, and time.                                    *)
(*                                                                         *)
(* A certificate is the key it is for, whether it will do (signed by an    *)
(* authority, for this domain) and the life it has left.  Each attempt is  *)
(* one action per call; a restart of the service falls between any two,    *)
(* and so does a reboot of the host.  Time passes while the manager        *)
(* sleeps: an attempt is short beside the intervals it waits.  A call      *)
(* named in Faults may fail as long as the outage lasts.                   *)
(***************************************************************************)
EXTENDS Integers, Sequences, FiniteSets

CONSTANTS
    Keys,           \* enough that a new one differs from those in use
    Challenges,     \* the tokens an authority asks to be shown
    Lifetime,       \* how long an issued certificate lives
    RenewBefore,    \* renewBefore
    CheckInterval,  \* checkInterval
    RetryInterval,  \* retryInterval
    Hour,           \* the window over which an authority counts failures
    Allowance,      \* the failures it allows in one
    Faults,
    Absent

Calls == {"save", "register", "order", "accept", "reach", "poll", "ready", "finalize",
          "location", "fetch", "writeKey", "writeCert", "reload"}

Certificates == [key : Keys, good : BOOLEAN, left : 0 .. Lifetime]

ASSUME CertificateAssumption ==
    /\ Keys # {} /\ Challenges # {}
    /\ Absent \notin Keys /\ Absent \notin Certificates
    /\ Lifetime \in Nat /\ RenewBefore \in Nat
    /\ CheckInterval \in Nat \ {0} /\ RetryInterval \in Nat \ {0}
    /\ Hour \in Nat /\ Allowance \in Nat
    /\ Faults \subseteq Calls \cup {"restart", "reboot"}

\* What retryInterval is chosen for: attempts that far apart are no more in an
\* hour than the authority allows.
ASSUME RetryAssumption == Hour <= Allowance * RetryInterval

\* What renewBefore is chosen for: there is a look at the certificate between
\* the moment it becomes due and its end, and one just issued is not yet due.
ASSUME RenewAssumption == CheckInterval < RenewBefore /\ RenewBefore <= Lifetime

VARIABLES
    account,      \* account.key
    key,          \* key.pem
    cert,         \* cert.pem
    served,       \* what nginx loaded, Absent when it is not running
    tokens,       \* m.tokens
    challenge,    \* the token of the current authorization
    check,        \* what the authority made of it
    hand,         \* what obtain is about to return
    pc,
    wait,         \* what is left of Run's sleep
    failures,     \* the ages of the validations that failed in this life of the
                  \* service, newest last
    subscribers,  \* the account keys the authority has registered
    outage        \* whether a call may still fail

files == <<account, key, cert>>
authority == <<challenge, check, failures, subscribers>>
vars == <<files, authority, served, tokens, hand, pc, wait, outage>>

MayFail(call) == outage /\ call \in Faults

----------------------------------------------------------------------------
(* The loop.                                                               *)

\* Mutation: a certificate is replaced once it has expired.
NeedsOnceExpired(c) == ~c.good \/ c.left < 1

\* needsCertificate looks at the certificate and never at the key.
needsCertificate(c) == ~c.good \/ c.left < RenewBefore

Goto(s) == pc' = s /\ UNCHANGED wait

\* Mutation: a failure is followed by a shorter sleep.
SleepLess(interval) == pc' = "asleep" /\ wait' = interval - 1

Sleep(interval) == pc' = "asleep" /\ wait' = interval

\* Run after an attempt that came to nothing; satisfy's deferred forget has
\* run by then.
Fail == Sleep(RetryInterval) /\ tokens' = tokens \ {challenge} /\ hand' = Absent

Wake ==
    /\ pc = "asleep"
    /\ wait = 0
    /\ Goto("ensure")
    /\ UNCHANGED <<files, authority, served, tokens, hand, outage>>

Ensure ==
    /\ pc = "ensure"
    /\ IF needsCertificate(cert) THEN Goto("account") ELSE Sleep(CheckInterval)
    /\ UNCHANGED <<files, authority, served, tokens, hand, outage>>

----------------------------------------------------------------------------
(* obtain.                                                                 *)

\* A key nobody has, a challenge nobody was set: which one makes no difference.
New(of, used) == CHOOSE x \in of : x \notin used

InUse == {key, cert.key} \cup (IF served = Absent THEN {} ELSE {served.key})

\* Mutation: a key that could not be saved is used all the same.
AccountKeyUnsaved ==
    /\ pc = "account"
    /\ account = Absent
    /\ \E k \in Keys \ subscribers : subscribers' = subscribers \cup {k}
    /\ Goto("order")
    /\ UNCHANGED <<files, challenge, check, failures, served, tokens, hand, outage>>

\* The key is saved before anything is registered under it.
accountKey ==
    /\ pc = "account"
    /\ \/ account # Absent /\ Goto("register") /\ UNCHANGED <<account, tokens, hand>>
       \/ /\ account = Absent
          /\ Keys \ subscribers # {}
          /\ account' = New(Keys, subscribers)
          /\ Goto("register")
          /\ UNCHANGED <<tokens, hand>>
       \/ account = Absent /\ MayFail("save") /\ Fail /\ UNCHANGED account
    /\ UNCHANGED <<key, cert, authority, served, outage>>

Register ==
    /\ pc = "register"
    /\ \/ subscribers' = subscribers \cup {account} /\ Goto("order") /\ UNCHANGED <<tokens, hand>>
       \/ MayFail("register") /\ Fail /\ UNCHANGED subscribers
    /\ UNCHANGED <<files, challenge, check, failures, served, outage>>

\* The authority has yet to look at a challenge: the one this manager set, or
\* one that was set before the service stopped.
Looking == check \in {"pending", "abandoned"}

\* An authorization outlives its order, so a later order may find it valid.
\* The authority has looked at an earlier challenge by then.
AuthorizeOrder ==
    /\ pc = "order"
    /\ ~Looking
    /\ \/ /\ check = "valid"
          /\ Goto("ready")
          /\ UNCHANGED <<challenge, check, tokens, hand>>
       \/ /\ check' = "none"
          /\ Challenges \ (tokens \cup {challenge}) # {}
          /\ challenge' = New(Challenges, tokens \cup {challenge})
          /\ Goto("present")
          /\ UNCHANGED <<tokens, hand>>
       \/ MayFail("order") /\ Fail /\ UNCHANGED <<challenge, check>>
    /\ UNCHANGED <<files, failures, subscribers, served, outage>>

\* Mutation: forget without the defer.
PresentAndForget ==
    /\ pc = "present"
    /\ Goto("accept")
    /\ UNCHANGED <<files, authority, served, tokens, hand, outage>>

present ==
    /\ pc = "present"
    /\ tokens' = tokens \cup {challenge}
    /\ Goto("accept")
    /\ UNCHANGED <<files, authority, served, hand, outage>>

Accept ==
    /\ pc = "accept"
    /\ \/ check' = "pending" /\ Goto("poll") /\ UNCHANGED <<tokens, hand>>
       \/ MayFail("accept") /\ Fail /\ UNCHANGED check
    /\ UNCHANGED <<files, challenge, failures, subscribers, served, outage>>

\* Kept while they are younger than an hour, and no more than tell that the
\* allowance is spent.
Counted(ages) ==
    LET old == Cardinality({i \in 1 .. Len(ages) : ages[i] >= Hour})
        spent == Len(ages) - Allowance - 1
    IN  SubSeq(ages, (IF old > spent THEN old ELSE spent) + 1, Len(ages))

\* The authority fetches the token: through nginx, from Handler.
Validate ==
    /\ Looking
    /\ \/ /\ challenge \in tokens /\ served # Absent
          /\ check' = "valid"
          /\ UNCHANGED failures
       \/ /\ challenge \in tokens /\ served # Absent => MayFail("reach")
          /\ check' = "invalid"
          /\ failures' = IF check = "pending" THEN Counted(Append(failures, 0)) ELSE failures
    /\ UNCHANGED <<files, challenge, subscribers, served, tokens, hand, pc, wait, outage>>

\* Mutation: the token is forgotten when the authority has seen it.
WaitAndForgetIfValid ==
    /\ pc = "poll"
    /\ \/ check = "valid" /\ tokens' = tokens \ {challenge} /\ Goto("ready") /\ UNCHANGED hand
       \/ check = "invalid" /\ Sleep(RetryInterval) /\ hand' = Absent /\ UNCHANGED tokens
    /\ UNCHANGED <<files, authority, served, outage>>

WaitAuthorization ==
    /\ pc = "poll"
    /\ \/ check = "valid" /\ tokens' = tokens \ {challenge} /\ Goto("ready") /\ UNCHANGED hand
       \/ (check = "invalid" \/ MayFail("poll")) /\ Fail
    /\ UNCHANGED <<files, authority, served, outage>>

WaitOrder ==
    /\ pc = "ready"
    /\ \/ Goto("finalize") /\ UNCHANGED <<tokens, hand>>
       \/ MayFail("ready") /\ Fail
    /\ UNCHANGED <<files, authority, served, outage>>

Issued(k) == [key |-> k, good |-> TRUE, left |-> Lifetime]

\* The key is new.  The call may fail although the certificate was issued: that
\* is what collect is for.
CreateOrderCert ==
    /\ pc = "finalize"
    /\ Keys \ InUse # {}
    /\ \/ hand' = Issued(New(Keys, InUse)) /\ Goto("writeKey")
       \/ MayFail("location") /\ hand' = Issued(New(Keys, InUse)) /\ Goto("collect")
       \/ MayFail("finalize") /\ Goto("collect") /\ UNCHANGED hand
    /\ UNCHANGED <<files, authority, served, tokens, outage>>

collect ==
    /\ pc = "collect"
    /\ \/ hand # Absent /\ Goto("writeKey") /\ UNCHANGED <<tokens, hand>>
       \/ (hand = Absent \/ MayFail("fetch")) /\ Fail
    /\ UNCHANGED <<files, authority, served, outage>>

----------------------------------------------------------------------------
(* write and the reload.  writeFile renames: a file is replaced or it is   *)
(* what it was.                                                            *)

\* Mutation: the certificate is written first.
WriteCertFirst ==
    /\ pc \in {"writeKey", "writeCert"}
    /\ \/ pc = "writeKey" /\ cert' = hand /\ Goto("writeCert") /\ UNCHANGED <<key, tokens, hand>>
       \/ pc = "writeCert" /\ key' = hand.key /\ Goto("reload") /\ UNCHANGED <<cert, tokens, hand>>
       \/ MayFail(pc) /\ Fail /\ UNCHANGED <<key, cert>>
    /\ UNCHANGED <<account, authority, served, outage>>

\* The key first.
write ==
    /\ pc \in {"writeKey", "writeCert"}
    /\ \/ pc = "writeKey" /\ key' = hand.key /\ Goto("writeCert") /\ UNCHANGED <<cert, tokens, hand>>
       \/ pc = "writeCert" /\ cert' = hand /\ Goto("reload") /\ UNCHANGED <<key, tokens, hand>>
       \/ MayFail(pc) /\ Fail /\ UNCHANGED <<key, cert>>
    /\ UNCHANGED <<account, authority, served, outage>>

\* nginx keeps what it has unless it runs and accepts what it finds.  Run
\* sleeps after a failed reload as after a failed attempt.
Reload ==
    /\ pc = "reload"
    /\ \/ /\ served # Absent /\ key = cert.key
          /\ served' = cert
          /\ Sleep(CheckInterval)
          /\ hand' = Absent
          /\ UNCHANGED tokens
       \/ /\ served # Absent /\ key = cert.key => MayFail("reload")
          /\ Fail
          /\ UNCHANGED served
    /\ UNCHANGED <<files, authority, outage>>

----------------------------------------------------------------------------
(* What happens to the manager.                                            *)

NewLife ==
    /\ tokens' = {}
    /\ hand' = Absent
    /\ check' = IF check = "pending" THEN "abandoned" ELSE check
    /\ failures' = <<>>
    /\ UNCHANGED <<challenge, subscribers>>

\* A stop or a crash of the service; systemd or an operator starts it again
\* and Run begins at once.
Restart ==
    /\ MayFail("restart")
    /\ pc' = "ensure"
    /\ wait' = 0
    /\ NewLife
    /\ UNCHANGED <<files, served, outage>>

\* nginx reads the pair when the host comes up, and does not start on one
\* that does not match.
Reboot ==
    /\ MayFail("reboot")
    /\ pc' = "ensure"
    /\ wait' = 0
    /\ NewLife
    /\ served' = IF key = cert.key THEN cert ELSE Absent
    /\ UNCHANGED <<files, outage>>

Older(c) == IF c = Absent THEN c ELSE [c EXCEPT !.left = IF @ = 0 THEN 0 ELSE @ - 1]

\* The authority looks at a challenge within a unit of time.
Tick ==
    /\ pc = "asleep"
    /\ wait > 0
    /\ ~Looking
    /\ wait' = wait - 1
    /\ cert' = Older(cert)
    /\ served' = Older(served)
    /\ failures' = Counted([i \in DOMAIN failures |-> failures[i] + 1])
    /\ UNCHANGED <<account, key, challenge, check, subscribers, tokens, hand, pc, outage>>

Recover ==
    /\ outage
    /\ outage' = FALSE
    /\ UNCHANGED <<files, authority, served, tokens, hand, pc, wait>>

\* installCertificate and the reload of nginx before the service starts: a
\* self-signed placeholder.
Init ==
    /\ account = Absent
    /\ key = New(Keys, {})
    /\ cert = [key |-> key, good |-> FALSE, left |-> Lifetime]
    /\ served = cert
    /\ tokens = {}
    /\ challenge = New(Challenges, {})
    /\ check = "none"
    /\ hand = Absent
    /\ pc = "ensure"
    /\ wait = 0
    /\ failures = <<>>
    /\ subscribers = {}
    /\ outage \in BOOLEAN

obtain ==
    \/ accountKey \/ Register \/ AuthorizeOrder \/ present \/ Accept \/ WaitAuthorization
    \/ WaitOrder \/ CreateOrderCert \/ collect

Run == Wake \/ Ensure \/ obtain \/ write \/ Reload

Next == Run \/ Validate \/ Tick \/ Restart \/ Reboot \/ Recover
Spec == Init /\ [][Next]_vars

\* The goroutine is scheduled, the authority looks, time passes, and outages
\* end.
FairSpec == Spec /\ WF_vars(Run) /\ WF_vars(Validate) /\ WF_vars(Tick) /\ WF_vars(Recover)

----------------------------------------------------------------------------
Attempt == {"account", "register", "order", "present", "accept", "poll", "ready",
            "finalize", "collect", "writeKey", "writeCert"}

\* The values the variables take, and the certificate in hand where obtain
\* has returned one and nowhere before.
TypeOK ==
    /\ account \in Keys \cup {Absent}
    /\ key \in Keys
    /\ cert \in Certificates
    /\ served \in Certificates \cup {Absent}
    /\ tokens \subseteq Challenges
    /\ challenge \in Challenges
    /\ check \in {"none", "pending", "abandoned", "valid", "invalid"}
    /\ hand \in Certificates \cup {Absent}
    /\ pc \in Attempt \cup {"ensure", "asleep", "reload"}
    /\ pc \in {"writeKey", "writeCert", "reload"} => hand # Absent
    /\ wait \in Nat
    /\ failures \in Seq(Nat)
    /\ subscribers \subseteq Keys
    /\ outage \in BOOLEAN

\* needsCertificate reads the certificate and not the key, so nothing would
\* ever notice a good certificate beside a key that is not its own.  write
\* puts the key down first: whatever fails or stops between the two files, a
\* pair that does not match has a certificate that is due for replacement.
MismatchIsNoticed == key # cert.key => needsCertificate(cert)

\* To the certificate authority a host is one subscriber, however often the
\* service is stopped, and whether or not its key could be saved
\* (accountKey: "a new key every start would look to a certificate authority
\* like a new subscriber every start").
OneSubscriber == \A a, b \in subscribers : a = b

\* Between attempts no token can be read out of a running dokkup: each is
\* forgotten on every way out of satisfy.
TokensAreForgotten == pc \notin {"accept", "poll"} => tokens = {}

\* A trusted certificate that nginx serves does not run out while the manager
\* runs: what is renewed is what is served ("renews it thirty days before it
\* expires, so nothing here is on a calendar").
ServedNeverExpires == served # Absent /\ served.good => served.left > 0

\* It holds where nothing fails: renewBefore leaves room for checkInterval, and
\* every renewal reaches nginx.
RenewedInTime == ~outage => []ServedNeverExpires

\* No hour of one life of the service sees more failed validations than an
\* authority allows (retryInterval: "this makes four, which stays under it even
\* if every attempt fails").  A restart attempts at once.
FailuresAreSpaced == Len(failures) <= Allowance

\* Once the outage is over, the host comes to serve a trusted certificate that
\* is the one on disk, beside its own key: the placeholder is replaced, and a
\* pair or a reload that was left half done is made good.  There is one way
\* out of it: the host was rebooted between the two writes, and nginx did not
\* start on what it found.  The manager only ever reloads it, and without it
\* no challenge is answered.
TrustIsReached == []<>(served = Absent \/ (cert.good /\ key = cert.key /\ served = cert))
=============================================================================
