------------------------------- MODULE Access -------------------------------
(***************************************************************************)
(* Who may use this dokkup: the service's request handlers                 *)
(* (internal/server) and the runs of `dokkup setup-token`                  *)
(* (internal/cli/setuptoken.go), interleaved at every call they make on    *)
(* the shared database.  A handler is a sequence of steps of one request;  *)
(* what happens between two of its store calls and touches nothing shared  *)
(* (decoding, validation, argon2) belongs to the step before it.           *)
(*                                                                         *)
(* The service can die, or be restarted in another mode, between any two   *)
(* steps; a request it was serving is then lost.  A CLI process can be     *)
(* killed between any two steps as well.  Any store call can fail.         *)
(*                                                                         *)
(* The rate limiters are the module TokenBucket: here a limiter may refuse *)
(* any attempt, which is all the handlers know of it.                      *)
(***************************************************************************)
EXTENDS Store

CONSTANTS
    TokenTTL,          \* how long a setup token lives, in ticks (--ttl)
    SessionLifetime,   \* sessionLifetime
    MaxClock,          \* bound on the clock
    Modes,             \* the modes the service is started in
    NoToken,           \* a token nobody was given: unknown, empty, mistyped
    NoPassword         \* the password of a request that carried none

ASSUME LifetimeAssumption ==
    /\ TokenTTL \in Nat \ {0}
    /\ SessionLifetime \in Nat \ {0}
    /\ MaxClock \in Nat
ASSUME ModesAssumption == Modes \subseteq {"published", "ip"}
ASSUME NothingAssumption ==
    /\ NoToken \notin Tokens
    /\ NoPassword \notin Passwords
    /\ NoEmail \notin Emails

VARIABLES
    mode,            \* Config.Mode of the running service
    step,            \* where the handler of each request is
    sent,            \* what the request carried
    who,             \* the operator row the handler holds: {} or one row
    cookie,          \* the session token a sign-in drew: {} or one token
    status,          \* the status it answers, or is about to answer, with
    setupCompleted,  \* what a /api/session response said about the owner
    logged,          \* the callers whose trail entry became a log line
    issuer,          \* where each CLI process is
    minted,          \* the token it drew: {} or one token
    expires,         \* and the expiry it computed for it
    drawn            \* every token secret.NewToken has handed out

request == <<step, sent, who, cookie, status, setupCompleted, logged>>
cli == <<issuer, minted, expires>>
vars == <<now, tables, mode, request, cli, drawn>>

----------------------------------------------------------------------------
Restricted(m) == m = "ip"

InFlight == {"check", "redeem", "redeemed", "lookup", "start", "started",
             "auth", "revoke", "revoked", "report", "reject", "respond"}
Steps == InFlight \cup {"unsent", "turnedAway", "answered", "lost"}

Working == {"idle", "issue", "record", "print"}
IssuerSteps == Working \cup {"printed", "refused", "failed"}

Statuses == {0, 200, 201, 204, 400, 401, 403, 409, 500}

\* The tokens somebody outside the database knows: what a terminal showed,
\* and what a browser was sent in a response.
Printed == UNION {minted[i] : i \in {j \in Issuers : issuer[j] = "printed"}}
Delivered == UNION {cookie[r] : r \in {q \in Requests : step[q] = "answered"}}

\* What a request carries that its handler looks at: the token of a setup
\* request's body or of a cookie, an address and a password.
Message(tokens, emails, passwords) ==
    [token : tokens, email : emails, password : passwords]
Messages == Message(Tokens \cup {NoToken}, Emails \cup {NoEmail}, Passwords \cup {NoPassword})
Silence == [token |-> NoToken, email |-> NoEmail, password |-> NoPassword]

----------------------------------------------------------------------------
(* The steps every handler shares.                                         *)

Goto(r, s) == step' = [step EXCEPT ![r] = s] /\ UNCHANGED status
Answer(r, code) ==
    /\ step' = [step EXCEPT ![r] = "answered"]
    /\ status' = [status EXCEPT ![r] = code]
Refuse(r, code) ==
    /\ step' = [step EXCEPT ![r] = "reject"]
    /\ status' = [status EXCEPT ![r] = code]
Conclude(r, code) ==
    /\ step' = [step EXCEPT ![r] = "respond"]
    /\ status' = [status EXCEPT ![r] = code]

\* Mutation: an entry that could not be written goes unmentioned.
LogNothing(r, err) == logged' = logged

\* A best-effort entry: the error is logged and the answer does not change.
LogIf(r, err) == logged' = IF err = "nil" THEN logged ELSE logged \cup {r}

Receive(r, msg) ==
    /\ step[r] = "unsent"
    /\ sent' = [sent EXCEPT ![r] = msg]
    /\ UNCHANGED <<now, tables, mode, who, cookie, setupCompleted, logged, cli, drawn>>

\* requireCSRF (403) and the two limiters (429) answer before anything is
\* read or written, and neither refusal is recorded.
TurnAway(r) ==
    /\ step[r] = "unsent"
    /\ r \notin Reports
    /\ Goto(r, "turnedAway")
    /\ UNCHANGED <<now, tables, mode, sent, who, cookie, setupCompleted, logged, cli, drawn>>

\* rejectSetup, rejectSignIn and recordRejectedSignIn: record, and go on to
\* the answer whether or not that worked.
Reject(r) ==
    LET action == IF r \in Setups THEN "setup-token.rejected" ELSE "session.rejected"
    IN
    /\ step[r] = "reject"
    /\ \E err \in {"nil", "ErrNotFound", "Err"} :
         /\ \/ who[r] = {} /\ RecordUnauthenticated(action, sent[r].email, r, err)
            \/ \E o \in who[r] : Record(o.id, action, sent[r].email, r, err)
         /\ LogIf(r, err)
    /\ Conclude(r, status[r])
    /\ UNCHANGED <<now, mode, sent, who, cookie, setupCompleted, cli, drawn>>

\* The answer itself, once the entry is committed or its failure logged.  The
\* service can die in between: the entry stays and nobody is told.
Respond(r) ==
    /\ step[r] = "respond"
    /\ Answer(r, status[r])
    /\ UNCHANGED <<now, tables, mode, sent, who, cookie, setupCompleted, logged, cli, drawn>>

----------------------------------------------------------------------------
(* POST /api/setup (setup.go).                                             *)

HandleSetup(r) ==
    \/ \E msg \in Message(Printed \cup {NoToken}, Emails, Passwords) :
         Receive(r, msg) /\ Goto(r, "check")
    \/ \E msg \in Message({NoToken}, Emails \cup {NoEmail}, {NoPassword}) :
         Receive(r, msg) /\ Refuse(r, 400)

\* HasOwner, and HashPassword after it.
CheckOwner(r) ==
    /\ step[r] = "check"
    /\ \/ Answer(r, 500)
       \/ HasOwner /\ Refuse(r, 409)
       \/ ~HasOwner /\ Goto(r, "redeem")
    /\ UNCHANGED <<now, tables, mode, sent, who, cookie, setupCompleted, logged, cli, drawn>>

RefusedRedemption == [ErrNotFound |-> 403, ErrOwnerExists |-> 409, ErrExists |-> 409]

Redeem(r) ==
    LET msg == sent[r]
        redeemed(row, err) ==
            RedeemSetupToken(msg.token, msg.email, HashPassword(msg.password), row, err)
    IN
    /\ step[r] = "redeem"
    /\ \/ \E row \in OperatorRow :
            /\ redeemed(row, "nil")
            /\ who' = [who EXCEPT ![r] = {row}]
            /\ Goto(r, "redeemed")
       \/ \E err \in DOMAIN RefusedRedemption :
            /\ redeemed({}, err)
            /\ Refuse(r, RefusedRedemption[err])
            /\ UNCHANGED who
       \/ redeemed({}, "Err") /\ Answer(r, 500) /\ UNCHANGED who
    /\ UNCHANGED <<now, mode, sent, cookie, setupCompleted, logged, cli, drawn>>

\* The entry a finished act leaves, before it is answered.
RecordDone(r, from, action, code) ==
    /\ step[r] = from
    /\ \E o \in who[r], err \in {"nil", "ErrNotFound", "Err"} :
         /\ Record(o.id, action, o.email, r, err)
         /\ LogIf(r, err)
    /\ Conclude(r, code)
    /\ UNCHANGED <<now, mode, sent, who, cookie, setupCompleted, cli, drawn>>

RecordRedeemed(r) == RecordDone(r, "redeemed", "setup-token.redeemed", 201)

----------------------------------------------------------------------------
(* POST /api/signin (session.go).                                          *)

\* A body that is not JSON is a 400; an address or a password out of bounds
\* is the ordinary refusal.
HandleSignIn(r) ==
    \/ \E msg \in Message({NoToken}, Emails, Passwords) :
         Receive(r, msg) /\ Goto(r, "lookup")
    \/ \E msg \in Message({NoToken}, {NoEmail}, {NoPassword}) :
         Receive(r, msg) /\ Refuse(r, 400)
    \/ \E msg \in Message({NoToken}, Emails \cup {NoEmail}, {NoPassword}) :
         Receive(r, msg) /\ Refuse(r, 401)

\* OperatorByEmail, then verifyPassword and the mode, which read nothing but
\* the row just fetched.  Only the IP Mode refusal knows whom it refused.
LookUp(r) ==
    LET found == {o \in operators : o.email = sent[r].email}
        matches(o) == VerifyPassword(o.password_hash, sent[r].password)
        admitted(o) == matches(o) /\ ~(Restricted(mode) /\ ~o.is_owner)
    IN
    /\ step[r] = "lookup"
    /\ \/ Answer(r, 500) /\ UNCHANGED who
       \/ found = {} /\ Refuse(r, 401) /\ UNCHANGED who
       \/ \E o \in found :
            \/ ~matches(o) /\ Refuse(r, 401) /\ UNCHANGED who
            \/ /\ matches(o)
               /\ who' = [who EXCEPT ![r] = {o}]
               /\ IF admitted(o) THEN Goto(r, "start") ELSE Refuse(r, 401)
    /\ UNCHANGED <<now, tables, mode, sent, cookie, setupCompleted, logged, cli, drawn>>

NewToken(t) == t \in Tokens \ drawn /\ drawn' = drawn \cup {t}

\* NewToken or StartSession failing is a 500 and leaves nothing behind: the
\* token it may have drawn is forgotten with the request.
Start(r) ==
    /\ step[r] = "start"
    /\ \/ \E t \in Tokens, o \in who[r], err \in {"nil", "ErrNotFound", "ErrExists"} :
            /\ NewToken(t)
            /\ StartSession(o.id, t, now + SessionLifetime, err)
            /\ IF err = "nil"
               THEN cookie' = [cookie EXCEPT ![r] = {t}] /\ Goto(r, "started")
               ELSE UNCHANGED cookie /\ Answer(r, 500)
       \/ Answer(r, 500) /\ UNCHANGED <<tables, cookie, drawn>>
    /\ UNCHANGED <<now, mode, sent, who, setupCompleted, logged, cli>>

RecordStarted(r) == RecordDone(r, "started", "session.started", 200)

----------------------------------------------------------------------------
(* requireSession, GET /api/session and POST /api/signout.                 *)

HandleWithCookie(r) ==
    \E msg \in Message(Delivered \cup {NoToken}, {NoEmail}, {NoPassword}) :
        Receive(r, msg) /\ Goto(r, "auth")

\* authenticate: nobody, or the operator the session answers for.  A failed
\* read is nobody too.
Authenticate(r) ==
    LET nobody == /\ UNCHANGED who
                  /\ IF r \in Reports THEN Goto(r, "report") ELSE Answer(r, 401)
    IN
    /\ step[r] = "auth"
    /\ \/ nobody
       \/ \E o \in SessionOperator(sent[r].token) :
            /\ who' = [who EXCEPT ![r] = {o}]
            /\ Goto(r, IF r \in Reports THEN "report" ELSE "revoke")
    /\ UNCHANGED <<now, tables, mode, sent, cookie, setupCompleted, logged, cli, drawn>>

\* Mutation: a database that cannot be read reports an unclaimed host.
ReportUnclaimed(r) ==
    /\ step[r] = "report"
    /\ \E owned \in {HasOwner, FALSE} :
         setupCompleted' = [setupCompleted EXCEPT ![r] = owned]
    /\ Answer(r, 200)
    /\ UNCHANGED <<now, tables, mode, sent, who, cookie, logged, cli, drawn>>

\* handleSession: a database that cannot be read reports an owner.
Report(r) ==
    /\ step[r] = "report"
    /\ \E owned \in {HasOwner, TRUE} :
         setupCompleted' = [setupCompleted EXCEPT ![r] = owned]
    /\ Answer(r, 200)
    /\ UNCHANGED <<now, tables, mode, sent, who, cookie, logged, cli, drawn>>

\* Mutation: every error of RevokeSession is taken for ErrNotFound.
RevokeRegardless(r) ==
    /\ step[r] = "revoke"
    /\ \E err \in {"nil", "ErrNotFound", "Err"} : RevokeSession(sent[r].token, err)
    /\ Goto(r, "revoked")
    /\ UNCHANGED <<now, mode, sent, who, cookie, setupCompleted, logged, cli, drawn>>

\* handleSignOut: a session that is already gone is not an error; a row that
\* could not be deleted is, and nothing is cleared or recorded then.
Revoke(r) ==
    /\ step[r] = "revoke"
    /\ \E err \in {"nil", "ErrNotFound", "Err"} :
         /\ RevokeSession(sent[r].token, err)
         /\ IF err = "Err" THEN Answer(r, 500) ELSE Goto(r, "revoked")
    /\ UNCHANGED <<now, mode, sent, who, cookie, setupCompleted, logged, cli, drawn>>

RecordEnded(r) == RecordDone(r, "revoked", "session.ended", 204)

----------------------------------------------------------------------------
(* `dokkup setup-token` (setuptoken.go): NewToken and the expiry, the two  *)
(* writes, and the token on the terminal once the store is closed.         *)

Draw(i) ==
    /\ issuer[i] = "idle"
    /\ \E t \in Tokens : NewToken(t) /\ minted' = [minted EXCEPT ![i] = {t}]
    /\ expires' = [expires EXCEPT ![i] = now + TokenTTL]
    /\ issuer' = [issuer EXCEPT ![i] = "issue"]
    /\ UNCHANGED <<now, tables, mode, request>>

Issue(i) ==
    /\ issuer[i] = "issue"
    /\ \E t \in minted[i], err \in {"nil", "ErrOwnerExists", "Err"} :
         /\ IssueSetupToken(t, expires[i], err)
         /\ issuer' = [issuer EXCEPT ![i] =
                CASE err = "nil" -> "record"
                  [] err = "ErrOwnerExists" -> "refused"
                  [] err = "Err" -> "failed"]
    /\ UNCHANGED <<now, mode, request, minted, expires, drawn>>

\* An entry that could not be written fails the issue: the token stays in the
\* database and is not shown.
RecordIssued(i) ==
    /\ issuer[i] = "record"
    /\ \E err \in {"nil", "Err"} :
         /\ RecordUnauthenticated("setup-token.issued", NoEmail, i, err)
         /\ issuer' = [issuer EXCEPT ![i] = IF err = "nil" THEN "print" ELSE "failed"]
    /\ UNCHANGED <<now, mode, request, minted, expires, drawn>>

PrintToken(i) ==
    /\ issuer[i] = "print"
    /\ issuer' = [issuer EXCEPT ![i] = "printed"]
    /\ UNCHANGED <<now, tables, mode, request, minted, expires, drawn>>

\* The process dies, or the store does not open or close.
Fail(i) ==
    /\ issuer[i] \in Working
    /\ issuer' = [issuer EXCEPT ![i] = "failed"]
    /\ UNCHANGED <<now, tables, mode, request, minted, expires, drawn>>

----------------------------------------------------------------------------
\* The service stops, however it stops, and `dokkup serve` runs again with
\* the mode its unit file now says.
Restart ==
    /\ \E m \in Modes : mode' = m
    /\ step' = [r \in Requests |-> IF step[r] \in InFlight THEN "lost" ELSE step[r]]
    /\ UNCHANGED <<now, tables, sent, who, cookie, status, setupCompleted, logged, cli, drawn>>

Tick ==
    /\ now < MaxClock
    /\ now' = now + 1
    /\ UNCHANGED <<tables, mode, request, cli, drawn>>

\* No request has been received and no CLI process runs.
RunInit ==
    /\ mode \in Modes
    /\ step = [r \in Requests |-> "unsent"]
    /\ sent = [r \in Requests |-> Silence]
    /\ who = [r \in Requests |-> {}]
    /\ cookie = [r \in Requests |-> {}]
    /\ status = [r \in Requests |-> 0]
    /\ setupCompleted = [r \in Requests |-> FALSE]
    /\ logged = {}
    /\ issuer = [i \in Issuers |-> "idle"]
    /\ minted = [i \in Issuers |-> {}]
    /\ expires = [i \in Issuers |-> 0]
    /\ drawn = {}

\* The service finds a new database, or one whose host was claimed before.
Init == (StoreInit \/ OwnedInit) /\ RunInit

Handle(r) ==
    \/ CheckOwner(r) \/ Redeem(r) \/ RecordRedeemed(r)
    \/ LookUp(r) \/ Start(r) \/ RecordStarted(r)
    \/ Authenticate(r) \/ Report(r) \/ Revoke(r) \/ RecordEnded(r)
    \/ Reject(r) \/ Respond(r)

Arrive(r) ==
    \/ TurnAway(r)
    \/ r \in Setups /\ HandleSetup(r)
    \/ r \in SignIns /\ HandleSignIn(r)
    \/ r \in SignOuts \cup Reports /\ HandleWithCookie(r)

Run(i) == Draw(i) \/ Issue(i) \/ RecordIssued(i) \/ PrintToken(i) \/ Fail(i)

Next ==
    \/ \E r \in Requests : Arrive(r) \/ Handle(r)
    \/ \E i \in Issuers : Run(i)
    \/ Restart
    \/ Tick

Spec == Init /\ [][Next]_vars

\* Types: the rows of the store, where each request and each CLI process is,
\* what each holds (the row it read, its cookie, the code it answered), and
\* tokens drawn only from Tokens.  An answer is always one of Statuses.
TypeOK ==
    /\ StoreTypeOK
    /\ mode \in Modes
    /\ step \in [Requests -> Steps]
    /\ sent \in [Requests -> Messages]
    /\ who \in [Requests -> SUBSET OperatorRow]
    /\ cookie \in [Requests -> SUBSET Tokens]
    /\ status \in [Requests -> Statuses]
    /\ setupCompleted \in [Requests -> BOOLEAN]
    /\ logged \subseteq Callers
    /\ issuer \in [Issuers -> IssuerSteps]
    /\ minted \in [Issuers -> SUBSET Tokens]
    /\ expires \in [Issuers -> Nat]
    /\ drawn \subseteq Tokens

----------------------------------------------------------------------------
(* Properties.                                                             *)

Answered(r, codes) == step[r] = "answered" /\ status[r] \in codes
Trail(c, action) == {e \in audit_entries : e.by = c /\ e.action = action}

\* A setup token and an owner never exist together: RedeemSetupToken deletes
\* the token in the transaction that creates the owner, and IssueSetupToken
\* inserts nothing once there is one, whichever of two processes comes first.
\* It is what makes `dokkup setup-token` no way to take a host over.
TokenOnlyWhileUnowned == setup_tokens # {} => ~HasOwner

\* The tables, read as a claim on the host.
Owners == {o.email : o \in {p \in operators : p.is_owner}}
Claim == INSTANCE OwnerClaim WITH token <- setup_tokens, owner <- Owners

\* The service and the CLI together keep the promise of OwnerClaim: no
\* interleaving, failure, kill or restart claims a host twice, takes a claim
\* back, claims it with a token that was revoked or has expired, or burns a
\* token without creating the owner.
ClaimIsKept == Claim!Spec

\* Once a sign-out was answered with 204 no row is left for its token, so the
\* cookie authenticates nobody, whatever failed, raced or died around it
\* (handleSignOut: "a replay of the old cookie is a 401").
SignedOutIsOver ==
    \A r \in SignOuts : Answered(r, {204}) =>
        \A s \in sessions : s.token_hash # HashToken(sent[r].token)

\* /api/session never tells somebody it names as signed in that setup is not
\* done, although requireSession and handleSession read the database at two
\* different moments and either read can fail.
SignedInMeansSetUp ==
    \A r \in Reports : Answered(r, {200}) /\ who[r] # {} => setupCompleted[r]

\* What every answer promises about the trail: the acts that happened and the
\* refusals of a caller have their entry, or a log line in its place, and an
\* act is attributed to an operator; a request answered with dokkup's own
\* failure (500) or turned away has none.  Nothing is said of a request nobody
\* was answered: a kill before Record leaves an act without its entry, and one
\* between Record and writeJSON an entry whose caller was never told.  A setup
\* token on a terminal has its entry without exception (setupTokenWrite: a printed token without one "is a
\* credential to this host that the trail says was never created").
AnswersAreOnTheTrail ==
    /\ \A r \in Requests \ logged :
        /\ r \in Setups /\ Answered(r, {201}) =>
             \E e \in Trail(r, "setup-token.redeemed") : e.operator_email = sent[r].email
        /\ r \in Setups /\ Answered(r, {400, 403, 409}) => Trail(r, "setup-token.rejected") # {}
        /\ r \in SignIns /\ Answered(r, {200}) =>
             \E e \in Trail(r, "session.started") : e.operator_email = sent[r].email
        /\ r \in SignIns /\ Answered(r, {400, 401}) => Trail(r, "session.rejected") # {}
        /\ r \in SignOuts /\ Answered(r, {204}) => Trail(r, "session.ended") # {}
    /\ \A e \in audit_entries :
        e.by \in Requests => ~Answered(e.by, {500}) /\ step[e.by] # "turnedAway"
    /\ \A i \in Issuers : issuer[i] = "printed" => Trail(i, "setup-token.issued") # {}
=============================================================================
