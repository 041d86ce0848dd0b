---------------------------- MODULE AccessProofs ----------------------------
(***************************************************************************)
(* What is proved about Access and Managed for any number of requests, CLI *)
(* processes, addresses, passwords and tokens, and any lifetimes.          *)
(***************************************************************************)
EXTENDS Managed, TLAPS

----------------------------------------------------------------------------
(* What the store's calls do to the types of the tables.                   *)

\* A written entry is a row of audit_entries (Store.Record).
LEMMA RecordType ==
    ASSUME StoreTypeOK, UNCHANGED now,
           NEW id, NEW action \in Actions, NEW target \in Emails \cup {NoEmail},
           NEW c \in Callers, NEW err, Record(id, action, target, c, err)
    PROVE  StoreTypeOK'
<1> DEFINE written == {[operator_id |-> o.id, operator_email |-> o.email,
                        action |-> action, target |-> target, by |-> c] :
                           o \in {p \in operators : p.id = id}}
<1>1. written \subseteq AuditRow
  BY DEF StoreTypeOK, OperatorRow, AuditRow
<1>2. audit_entries' = audit_entries \/ audit_entries' = audit_entries \cup written
  BY DEF Record
<1>3. audit_entries' \subseteq AuditRow
  <2> HIDE DEF written
  <2> QED BY <1>1, <1>2 DEF StoreTypeOK
<1> QED BY <1>3 DEF StoreTypeOK, Record

\* So is an unattributed one (Store.RecordUnauthenticated).
LEMMA RecordUnauthenticatedType ==
    ASSUME StoreTypeOK, UNCHANGED now,
           NEW action \in Actions, NEW target \in Emails \cup {NoEmail},
           NEW c \in Callers, NEW err, RecordUnauthenticated(action, target, c, err)
    PROVE  StoreTypeOK'
BY DEF StoreTypeOK, RecordUnauthenticated, AuditRow

\* A redemption leaves rows in both tables it writes (Store.RedeemSetupToken).
LEMMA RedeemType ==
    ASSUME StoreTypeOK, UNCHANGED now, NEW t, NEW email, NEW hash,
           NEW row, NEW err, err = "nil" => row \in OperatorRow,
           RedeemSetupToken(t, email, hash, row, err)
    PROVE  StoreTypeOK'
BY DEF StoreTypeOK, RedeemSetupToken, Spent

\* A started session is a row of sessions (Store.StartSession).
LEMMA StartSessionType ==
    ASSUME StoreTypeOK, UNCHANGED now, NEW id \in Ids, NEW t \in Tokens,
           NEW e \in Nat, NEW err, StartSession(id, t, e, err)
    PROVE  StoreTypeOK'
BY DEF StoreTypeOK, StartSession, SessionRow

\* Ending sessions adds none (Store.RevokeSession).
LEMMA RevokeSessionType ==
    ASSUME StoreTypeOK, UNCHANGED now, NEW t, NEW err, RevokeSession(t, err)
    PROVE  StoreTypeOK'
BY DEF StoreTypeOK, RevokeSession

\* An issued token is a row of setup_tokens (Store.IssueSetupToken).
LEMMA IssueType ==
    ASSUME StoreTypeOK, UNCHANGED now, NEW t \in Tokens, NEW e \in Nat, NEW err,
           IssueSetupToken(t, e, err)
    PROVE  StoreTypeOK'
BY DEF StoreTypeOK, IssueSetupToken, SetupTokenRow

----------------------------------------------------------------------------
(* Type correctness.                                                       *)

\* The initial state is well typed.
LEMMA InitTypeOK == Init => TypeOK
<1> SUFFICES ASSUME Init PROVE TypeOK
  OBVIOUS
<1>1. StoreTypeOK
  <2>1. CASE StoreInit
    BY <2>1 DEF StoreInit, StoreTypeOK
  <2>2. CASE OwnedInit
    BY <2>2, MaxIdAssumption DEF OwnedInit, StoreTypeOK, OperatorRow, Ids
  <2> QED
    BY <2>1, <2>2 DEF Init
<1>2. Silence \in Messages
  BY DEF Silence, Messages, Message
<1> QED
  BY <1>1, <1>2 DEF Init, RunInit, TypeOK, Steps, InFlight, Statuses, IssuerSteps, Working

\* A step that moves one request and answers nothing keeps step and status
\* well typed.
LEMMA GotoType ==
    ASSUME TypeOK, NEW r \in Requests, NEW s \in Steps, Goto(r, s)
    PROVE  step' \in [Requests -> Steps] /\ status' \in [Requests -> Statuses]
BY DEF TypeOK, Goto

\* A step that answers, refuses or concludes one request keeps step and status well typed.
LEMMA AnswerType ==
    ASSUME TypeOK, NEW r \in Requests, NEW code \in Statuses,
           Answer(r, code) \/ Refuse(r, code) \/ Conclude(r, code)
    PROVE  step' \in [Requests -> Steps] /\ status' \in [Requests -> Statuses]
BY DEF TypeOK, Answer, Refuse, Conclude, Steps, InFlight

\* Every step keeps the state well typed.
LEMMA NextTypeOK == TypeOK /\ [Next]_vars => TypeOK'
<1> SUFFICES ASSUME TypeOK, [Next]_vars PROVE TypeOK'
  OBVIOUS
<1> USE DEF Callers, tables, cli, request
<1>1. CASE UNCHANGED vars
  BY <1>1 DEF vars, TypeOK, StoreTypeOK
<1>2. ASSUME NEW r \in Requests, Arrive(r) PROVE TypeOK'
  <2>1. ASSUME NEW msg \in Messages, Receive(r, msg),
               step' \in [Requests -> Steps], status' \in [Requests -> Statuses]
        PROVE  TypeOK'
    BY <2>1 DEF Receive, TypeOK, StoreTypeOK
  <2>2. Printed \subseteq Tokens /\ Delivered \subseteq Tokens
    BY DEF Printed, Delivered, TypeOK
  <2>3. CASE TurnAway(r)
    BY <2>3, GotoType DEF TurnAway, TypeOK, StoreTypeOK, Steps
  <2>4. ASSUME HandleSetup(r) PROVE TypeOK'
    <3>1. ASSUME NEW msg \in Message(Printed \cup {NoToken}, Emails, Passwords),
                 Receive(r, msg), Goto(r, "check")
          PROVE  TypeOK'
      BY <2>1, <2>2, <3>1, GotoType DEF Message, Messages, Steps, InFlight
    <3>2. ASSUME NEW msg \in Message({NoToken}, Emails \cup {NoEmail}, {NoPassword}),
                 Receive(r, msg), Refuse(r, 400)
          PROVE  TypeOK'
      BY <2>1, <3>2, AnswerType DEF Message, Messages, Statuses
    <3> QED BY <2>4, <3>1, <3>2 DEF HandleSetup
  <2>5. ASSUME HandleSignIn(r) PROVE TypeOK'
    <3>1. ASSUME NEW msg \in Message({NoToken}, Emails, Passwords),
                 Receive(r, msg), Goto(r, "lookup")
          PROVE  TypeOK'
      BY <2>1, <3>1, GotoType DEF Message, Messages, Steps, InFlight
    <3>2. ASSUME NEW msg \in Message({NoToken}, Emails \cup {NoEmail}, {NoPassword}),
                 NEW code \in {400, 401}, Receive(r, msg), Refuse(r, code)
          PROVE  TypeOK'
      BY <2>1, <3>2, AnswerType DEF Message, Messages, Statuses
    <3> QED BY <2>5, <3>1, <3>2 DEF HandleSignIn, Message
  <2>6. ASSUME HandleWithCookie(r) PROVE TypeOK'
    BY <2>1, <2>2, <2>6, GotoType DEF HandleWithCookie, Message, Messages, Steps, InFlight
  <2> QED BY <1>2, <2>3, <2>4, <2>5, <2>6 DEF Arrive
<1>3. ASSUME NEW r \in Requests, Handle(r) PROVE TypeOK'
  <2>0. /\ InFlight \subseteq Steps
        /\ {200, 201, 204, 400, 401, 403, 409, 500} \subseteq Statuses
        /\ status[r] \in Statuses
    <3>1. status[r] \in Statuses
      BY DEF TypeOK
    <3>2. InFlight \subseteq Steps
      BY DEF Steps
    <3>3. {200, 201, 204, 400, 401, 403, 409, 500} \subseteq Statuses
      BY DEF Statuses
    <3> QED BY <3>1, <3>2, <3>3
  <2>1. sent[r] \in Messages /\ who[r] \subseteq OperatorRow
    BY DEF TypeOK
  <2>2. sent[r].email \in Emails \cup {NoEmail}
    BY <2>1 DEF Messages, Message
  <2>3. \A o \in who[r] : o.id \in Ids /\ o.email \in Emails \cup {NoEmail}
    BY <2>1 DEF OperatorRow
  <2>4. CASE CheckOwner(r)
    <3>1. step' \in [Requests -> Steps] /\ status' \in [Requests -> Statuses]
      BY <2>0, <2>4, GotoType, AnswerType DEF CheckOwner, InFlight
    <3> QED BY <2>4, <3>1 DEF CheckOwner, TypeOK, StoreTypeOK
  <2>5. CASE Redeem(r)
    <3>1. StoreTypeOK'
      <4> DEFINE call(row, err) == RedeemSetupToken(sent[r].token, sent[r].email,
                                       HashPassword(sent[r].password), row, err)
      <4>1. ASSUME NEW row \in OperatorRow, call(row, "nil") PROVE StoreTypeOK'
        BY <2>5, <4>1, RedeemType DEF Redeem, TypeOK
      <4>2. ASSUME NEW err, err # "nil", call({}, err) PROVE StoreTypeOK'
        BY <2>5, <4>2, RedeemType DEF Redeem, TypeOK
      <4> QED BY <2>5, <4>1, <4>2 DEF Redeem, RefusedRedemption
    <3>2. who' \in [Requests -> SUBSET OperatorRow]
      BY <2>5 DEF Redeem, TypeOK
    <3>3. step' \in [Requests -> Steps] /\ status' \in [Requests -> Statuses]
      BY <2>5, <2>0, GotoType, AnswerType DEF Redeem, RefusedRedemption, InFlight
    <3> QED BY <2>5, <3>1, <3>2, <3>3 DEF Redeem, TypeOK
  <2>6. ASSUME NEW from, NEW action \in Actions, NEW code \in Statuses, RecordDone(r, from, action, code)
        PROVE  TypeOK'
    <3>1. StoreTypeOK'
      BY <2>3, <2>6, RecordType DEF RecordDone, TypeOK
    <3>2. step' \in [Requests -> Steps] /\ status' \in [Requests -> Statuses]
      BY <2>6, AnswerType DEF RecordDone
    <3>3. logged' \subseteq Callers
      BY <2>6 DEF RecordDone, LogIf, TypeOK
    <3> QED BY <2>6, <3>1, <3>2, <3>3 DEF RecordDone, TypeOK
  <2>7. CASE RecordRedeemed(r)
    BY <2>0, <2>6, <2>7 DEF RecordRedeemed, Actions
  <2>8. CASE LookUp(r)
    <3>1. who' \in [Requests -> SUBSET OperatorRow]
      BY <2>8 DEF LookUp, StoreTypeOK, TypeOK
    <3>2. step' \in [Requests -> Steps] /\ status' \in [Requests -> Statuses]
      BY <2>8, <2>0, GotoType, AnswerType DEF LookUp, InFlight
    <3> QED BY <2>8, <3>1, <3>2 DEF LookUp, StoreTypeOK, TypeOK
  <2>9. CASE Start(r)
    <3>1. now + SessionLifetime \in Nat
      BY LifetimeAssumption DEF StoreTypeOK, TypeOK
    <3>2. StoreTypeOK'
      BY <2>3, <2>9, <3>1, StartSessionType DEF Start, StoreTypeOK, TypeOK
    <3>3. cookie' \in [Requests -> SUBSET Tokens] /\ drawn' \subseteq Tokens
      BY <2>9 DEF Start, NewToken, TypeOK
    <3>4. step' \in [Requests -> Steps] /\ status' \in [Requests -> Statuses]
      BY <2>9, <2>0, GotoType, AnswerType DEF Start, InFlight
    <3> QED BY <2>9, <3>2, <3>3, <3>4 DEF Start, TypeOK
  <2>10. CASE RecordStarted(r)
    BY <2>0, <2>6, <2>10 DEF RecordStarted, Actions
  <2>11. CASE Authenticate(r)
    <3>1. who' \in [Requests -> SUBSET OperatorRow]
      BY <2>11 DEF Authenticate, SessionOperator, StoreTypeOK, TypeOK
    <3>2. step' \in [Requests -> Steps] /\ status' \in [Requests -> Statuses]
      BY <2>11, <2>0, GotoType, AnswerType DEF Authenticate, InFlight
    <3> QED BY <2>11, <3>1, <3>2 DEF Authenticate, StoreTypeOK, TypeOK
  <2>12. CASE Report(r)
    <3>1. HasOwner \in BOOLEAN
      BY DEF HasOwner
    <3>2. setupCompleted' \in [Requests -> BOOLEAN]
      BY <2>12, <3>1 DEF Report, TypeOK
    <3> QED BY <2>0, <2>12, <3>2, AnswerType DEF Report, StoreTypeOK, TypeOK
  <2>13. CASE Revoke(r)
    <3>1. StoreTypeOK'
      BY <2>13, RevokeSessionType DEF Revoke, TypeOK
    <3>2. step' \in [Requests -> Steps] /\ status' \in [Requests -> Statuses]
      BY <2>13, <2>0, GotoType, AnswerType DEF Revoke, InFlight
    <3> QED BY <2>13, <3>1, <3>2 DEF Revoke, TypeOK
  <2>14. CASE RecordEnded(r)
    BY <2>0, <2>6, <2>14 DEF RecordEnded, Actions
  <2>15. CASE Reject(r)
    <3>1. StoreTypeOK'
      BY <2>2, <2>15, RecordType, RecordUnauthenticatedType DEF Reject, Actions, TypeOK
    <3>2. step' \in [Requests -> Steps] /\ status' \in [Requests -> Statuses]
      BY <2>0, <2>15, AnswerType DEF Reject
    <3>3. logged' \subseteq Callers
      BY <2>15 DEF Reject, LogIf, TypeOK
    <3> QED BY <2>15, <3>1, <3>2, <3>3 DEF Reject, TypeOK
  <2>16. CASE Respond(r)
    BY <2>0, <2>16, AnswerType DEF Respond, StoreTypeOK, TypeOK
  <2> QED BY <1>3, <2>4, <2>5, <2>7, <2>8, <2>9, <2>10, <2>11, <2>12, <2>13, <2>14, <2>15, <2>16 DEF Handle
<1>4. ASSUME NEW i \in Issuers, Run(i) PROVE TypeOK'
  <2> USE DEF TypeOK, IssuerSteps, Working
  <2>1. CASE Draw(i)
    <3>1. now + TokenTTL \in Nat
      BY LifetimeAssumption DEF StoreTypeOK
    <3> QED BY <2>1, <3>1 DEF Draw, NewToken, StoreTypeOK
  <2>2. CASE Issue(i)
    <3>1. minted[i] \subseteq Tokens /\ expires[i] \in Nat
      OBVIOUS
    <3>2. StoreTypeOK'
      BY <2>2, <3>1, IssueType DEF Issue
    <3>3. issuer' \in [Issuers -> IssuerSteps]
      BY <2>2 DEF Issue
    <3> QED BY <2>2, <3>2, <3>3 DEF Issue
  <2>3. CASE RecordIssued(i)
    <3>1. StoreTypeOK'
      BY <2>3, RecordUnauthenticatedType DEF RecordIssued, Actions
    <3>2. issuer' \in [Issuers -> IssuerSteps]
      BY <2>3 DEF RecordIssued
    <3> QED BY <2>3, <3>1, <3>2 DEF RecordIssued
  <2>4. CASE PrintToken(i)
    BY <2>4 DEF PrintToken, StoreTypeOK
  <2>5. CASE Fail(i)
    BY <2>5 DEF Fail, StoreTypeOK
  <2> QED BY <1>4, <2>1, <2>2, <2>3, <2>4, <2>5 DEF Run
<1>5. CASE Restart
  BY <1>5 DEF Restart, TypeOK, StoreTypeOK, Steps
<1>6. CASE Tick
  BY <1>6 DEF Tick, TypeOK, StoreTypeOK
<1> QED
  BY <1>1, <1>2, <1>3, <1>4, <1>5, <1>6 DEF Next

\* Type correctness of Access: every request, CLI process and table holds what
\* its declaration says it holds, in every state.
THEOREM TypeCorrect == Spec => []TypeOK
<1>1. Init => TypeOK
  BY InitTypeOK
<1>2. TypeOK /\ [Next]_vars => TypeOK'
  BY NextTypeOK
<1> QED BY <1>1, <1>2, PTL DEF Spec

----------------------------------------------------------------------------
(* The claim on the host.                                                  *)

\* What TokenOnlyWhileUnowned needs beside it to be inductive and to carry the
\* refinement: there is at most one token, so spending one leaves none.
OneClaim ==
    /\ TokenOnlyWhileUnowned
    /\ \A s, t \in setup_tokens : s = t

\* The steps of Access, as far as the clock, the owner and the token go.
ClaimStep ==
    \/ UNCHANGED <<now, operators, setup_tokens>>
    \/ now' = now + 1 /\ UNCHANGED <<operators, setup_tokens>>
    \/ /\ ~HasOwner
       /\ \E t, e : e > now /\ setup_tokens' = {[token_hash |-> HashToken(t), expires_at |-> e]}
       /\ UNCHANGED <<now, operators>>
    \/ /\ ~HasOwner
       /\ \E t : Spent(t) # {} /\ setup_tokens' = setup_tokens \ Spent(t)
       /\ \E row \in OperatorRow : row.is_owner /\ operators' = operators \cup {row}
       /\ UNCHANGED now

\* Every step of the service, the CLI and the clock is one of those: only Redeem
\* and Issue write what the claim rests on.
LEMMA NextIsClaimStep == [Next]_vars => ClaimStep
<1> SUFFICES ASSUME [Next]_vars PROVE ClaimStep
  OBVIOUS
<1> USE DEF tables, cli, request
<1> DEFINE Same == UNCHANGED <<now, operators, setup_tokens>>
<1>0. Same => ClaimStep
  BY DEF ClaimStep
<1>1. CASE UNCHANGED vars
  BY <1>0, <1>1 DEF vars
<1>2. ASSUME NEW r \in Requests, Arrive(r) PROVE Same
  BY <1>2 DEF Arrive, TurnAway, HandleSetup, HandleSignIn, HandleWithCookie, Receive
<1>3. ASSUME NEW r \in Requests, Redeem(r) PROVE ClaimStep
  <2> DEFINE call(row, err) == RedeemSetupToken(sent[r].token, sent[r].email,
                                   HashPassword(sent[r].password), row, err)
  <2>1. ASSUME NEW row \in OperatorRow, call(row, "nil"), UNCHANGED now PROVE ClaimStep
    <3>1. "nil" \in RedeemErrors(sent[r].token, sent[r].email)
      BY <2>1 DEF RedeemSetupToken
    <3>2. "nil" \notin OwnerRefusals(sent[r].email)
      BY DEF OwnerRefusals
    <3>3. Spent(sent[r].token) # {} /\ OwnerRefusals(sent[r].email) = {}
      BY <3>1, <3>2 DEF RedeemErrors
    <3>4. ~HasOwner
      BY <3>3 DEF OwnerRefusals
    <3>5. /\ row.is_owner
          /\ operators' = operators \cup {row}
          /\ setup_tokens' = setup_tokens \ Spent(sent[r].token)
      BY <2>1 DEF RedeemSetupToken
    <3> QED BY <2>1, <3>3, <3>4, <3>5 DEF ClaimStep
  <2>2. ASSUME NEW err, err # "nil", call({}, err), UNCHANGED now PROVE ClaimStep
    BY <1>0, <2>2 DEF RedeemSetupToken
  <2> QED BY <1>3, <2>1, <2>2 DEF Redeem, RefusedRedemption
<1>4. ASSUME NEW r \in Requests, Handle(r), ~Redeem(r) PROVE Same
  BY <1>4 DEF Handle, CheckOwner, RecordRedeemed, RecordDone, Record, LookUp, Start, StartSession,
              RecordStarted, Authenticate, Report, Revoke, RevokeSession, RecordEnded, Reject,
              RecordUnauthenticated, Respond
<1>5. ASSUME NEW i \in Issuers, Run(i) PROVE ClaimStep
  <2>1. CASE Issue(i)
    BY <1>0, <2>1 DEF Issue, IssueSetupToken, ClaimStep
  <2>2. CASE ~Issue(i)
    BY <1>0, <1>5, <2>2 DEF Run, Draw, RecordIssued, RecordUnauthenticated, PrintToken, Fail
  <2> QED BY <2>1, <2>2
<1>6. CASE Restart
  BY <1>0, <1>6 DEF Restart
<1>7. CASE Tick
  BY <1>7 DEF Tick, ClaimStep
<1> QED BY <1>0, <1>1, <1>2, <1>3, <1>4, <1>5, <1>6, <1>7 DEF Next

\* OneClaim is inductive over those steps.
LEMMA ClaimStepOneClaim == OneClaim /\ ClaimStep => OneClaim'
<1> SUFFICES ASSUME OneClaim, ClaimStep PROVE OneClaim'
  OBVIOUS
<1> USE DEF OneClaim, TokenOnlyWhileUnowned, HasOwner
<1>1. CASE UNCHANGED <<operators, setup_tokens>>
  BY <1>1
<1>2. ASSUME ~HasOwner, UNCHANGED operators,
             NEW t, NEW e, setup_tokens' = {[token_hash |-> HashToken(t), expires_at |-> e]}
      PROVE OneClaim'
  BY <1>2
<1>3. ASSUME NEW t, Spent(t) # {}, setup_tokens' = setup_tokens \ Spent(t) PROVE OneClaim'
  <2>1. Spent(t) \subseteq setup_tokens
    BY DEF Spent
  <2>2. setup_tokens' = {}
    BY <1>3, <2>1
  <2> QED BY <2>2
<1> QED BY <1>1, <1>2, <1>3 DEF ClaimStep

\* For every number of redemptions, reissues, failures, kills and restarts, a
\* setup token and an owner never exist together.
THEOREM TokenOnlyWhileUnownedAlways == Spec => []TokenOnlyWhileUnowned
<1>1. Init => OneClaim
  BY DEF Init, StoreInit, OwnedInit, OneClaim, TokenOnlyWhileUnowned
<1>2. OneClaim /\ [Next]_vars => OneClaim'
  BY NextIsClaimStep, ClaimStepOneClaim
<1>3. OneClaim => TokenOnlyWhileUnowned
  BY DEF OneClaim
<1> QED BY <1>1, <1>2, <1>3, PTL DEF Spec

\* A step of Access is a step of OwnerClaim, or leaves the claim alone.
LEMMA ClaimStepRefines == OneClaim /\ ClaimStep => [Claim!Next]_(Claim!vars)
<1> SUFFICES ASSUME OneClaim, ClaimStep PROVE [Claim!Next]_(Claim!vars)
  OBVIOUS
<1> USE DEF Claim!Next, Claim!vars
<1>1. HasOwner <=> Owners # {}
  BY DEF HasOwner, Owners
<1>2. UNCHANGED operators => UNCHANGED Owners
  BY DEF Owners
<1>3. CASE UNCHANGED <<now, operators, setup_tokens>>
  BY <1>2, <1>3
<1>4. CASE now' = now + 1 /\ UNCHANGED <<operators, setup_tokens>>
  BY <1>2, <1>4 DEF Claim!Pass
<1>5. ASSUME ~HasOwner, UNCHANGED <<now, operators>>, NEW t, NEW e, e > now,
             setup_tokens' = {[token_hash |-> HashToken(t), expires_at |-> e]}
      PROVE  Claim!Issue
  BY <1>1, <1>2, <1>5 DEF Claim!Issue
<1>6. ASSUME ~HasOwner, UNCHANGED now, NEW t, Spent(t) # {}, setup_tokens' = setup_tokens \ Spent(t),
             NEW row \in OperatorRow, row.is_owner, operators' = operators \cup {row}
      PROVE  Claim!Claim
  <2>1. PICK spent \in setup_tokens : spent.expires_at > now
    BY <1>6 DEF Spent
  <2>2. setup_tokens' = {}
    BY <1>6 DEF OneClaim, Spent
  <2>3. Owners = {} /\ Owners' = {row.email}
    BY <1>1, <1>6 DEF Owners, HasOwner
  <2> QED BY <1>6, <2>1, <2>2, <2>3 DEF Claim!Claim
<1> QED BY <1>3, <1>4, <1>5, <1>6 DEF ClaimStep

\* Access implements OwnerClaim: what the docs promise about owning a host holds
\* of the service and the CLI together, for every instance.
THEOREM AccessImplementsOwnerClaim == Spec => ClaimIsKept
<1>1. Init => OneClaim /\ Claim!Init
  <2> SUFFICES ASSUME Init PROVE OneClaim /\ Claim!Init
    OBVIOUS
  <2>1. now = 0 /\ setup_tokens = {}
    BY DEF Init, StoreInit, OwnedInit
  <2>2. Owners = {} \/ \E o \in Owners : Owners = {o}
    <3>1. CASE StoreInit
      BY <3>1 DEF StoreInit, Owners
    <3>2. CASE OwnedInit
      <4>1. \E row : row.is_owner /\ operators = {row}
        <5>1. PICK email \in Emails, p \in Passwords :
                  operators = {[id |-> 1, email |-> email, password_hash |-> HashPassword(p),
                                is_owner |-> TRUE]}
          BY <3>2 DEF OwnedInit
        <5> DEFINE row == [id |-> 1, email |-> email, password_hash |-> HashPassword(p),
                           is_owner |-> TRUE]
        <5>2. row.is_owner
          OBVIOUS
        <5> QED
          BY <5>1, <5>2
      <4>2. PICK row : row.is_owner /\ operators = {row}
        BY <4>1
      <4>3. Owners = {row.email}
        BY <4>2 DEF Owners
      <4> QED
        BY <4>3
    <3> QED
      BY <3>1, <3>2 DEF Init
  <2> QED
    BY <2>1, <2>2 DEF OneClaim, TokenOnlyWhileUnowned, Claim!Init
<1>2. OneClaim /\ [Next]_vars => OneClaim'
  BY NextIsClaimStep, ClaimStepOneClaim
<1>3. OneClaim /\ [Next]_vars => [Claim!Next]_(Claim!vars)
  BY NextIsClaimStep, ClaimStepRefines
<1> QED BY <1>1, <1>2, <1>3, PTL DEF Spec, ClaimIsKept, Claim!Spec

----------------------------------------------------------------------------
(* Who is signed in, and what is on the trail: first the invariants these  *)
(* properties rest on, then that each is kept, action by action.           *)

\* The answer is decided: it was given, or is about to be.
Concluded(r, codes) == step[r] \in {"respond", "answered"} /\ status[r] \in codes

\* A handler is at a step of its own route, and what it has recorded is no
\* failure of dokkup's.
RoutesAreKept ==
    \A r \in Requests :
        /\ step[r] \in {"check", "redeem", "redeemed"} => r \in Setups
        /\ step[r] \in {"lookup", "start", "started"} => r \in SignIns
        /\ step[r] \in {"auth"} => r \in SignOuts \cup Reports
        /\ step[r] \in {"revoke", "revoked"} => r \in SignOuts
        /\ step[r] = "report" => r \in Reports
        /\ step[r] = "reject" => r \in Setups \cup SignIns /\ status[r] \in {400, 401, 403, 409}
        /\ step[r] = "respond" => r \notin Reports /\ status[r] # 500

\* The row a handler holds is a row of the table, and the one its caller named.
HeldRowsAreKnown ==
    \A r \in Requests :
        /\ step[r] = "unsent" => who[r] = {}
        /\ who[r] \subseteq operators
        /\ r \in Setups \cup SignIns => \A o \in who[r] : o.email = sent[r].email

\* Whoever presents a token was given it.
TokensWereDrawn ==
    /\ \A r \in Requests : sent[r].token \in drawn \cup {NoToken} /\ cookie[r] \subseteq drawn
    /\ \A i \in Issuers : minted[i] \subseteq drawn

\* A session that was ended has no row, from the DELETE on.
EndedIsGone ==
    \A r \in SignOuts : step[r] = "revoked" \/ Concluded(r, {204}) =>
        \A s \in sessions : s.token_hash # HashToken(sent[r].token)

\* Without the management calls every operator is an owner.
OperatorsAreOwners == \A o \in operators : o.is_owner

\* The three parts of AnswersAreOnTheTrail, from the step that writes the entry
\* on, so that a request lost before its answer keeps what it wrote; a token about to be printed has its
\* entry as well.
ActsAreRecorded ==
    \A r \in Requests \ logged :
        /\ r \in Setups /\ Concluded(r, {201}) =>
             \E e \in Trail(r, "setup-token.redeemed") : e.operator_email = sent[r].email
        /\ r \in Setups /\ Concluded(r, {400, 403, 409}) => Trail(r, "setup-token.rejected") # {}
        /\ r \in SignIns /\ Concluded(r, {200}) =>
             \E e \in Trail(r, "session.started") : e.operator_email = sent[r].email
        /\ r \in SignIns /\ Concluded(r, {400, 401}) => Trail(r, "session.rejected") # {}
        /\ r \in SignOuts /\ Concluded(r, {204}) => Trail(r, "session.ended") # {}

EntriesAreConcluded ==
    \A e \in audit_entries :
        e.by \in Requests => step[e.by] \in {"respond", "answered", "lost"} /\ status[e.by] # 500

PrintedIsRecorded ==
    \A i \in Issuers :
        issuer[i] \in {"print", "printed"} => Trail(i, "setup-token.issued") # {}

\* What a finished act leaves: an entry that says who acted, or a log line.
LEMMA DoneIsRecorded ==
    ASSUME HeldRowsAreKnown, NEW r \in Requests, NEW from, NEW action, NEW code,
           RecordDone(r, from, action, code), r \notin logged'
    PROVE  \E e \in audit_entries' :
             e.by = r /\ e.action = action /\ \E o \in who[r] : e.operator_email = o.email
<1>1. PICK o \in who[r], err \in {"nil", "ErrNotFound", "Err"} :
        Record(o.id, action, o.email, r, err) /\ LogIf(r, err)
  BY DEF RecordDone
<1>. DEFINE entry == [operator_id |-> o.id, operator_email |-> o.email,
                     action |-> action, target |-> o.email, by |-> r]
<1>2. err = "nil"
  BY <1>1 DEF LogIf
<1>3. o \in operators
  BY DEF HeldRowsAreKnown
<1>4. entry \in audit_entries'
  BY <1>1, <1>2, <1>3 DEF Record
<1>. QED
  BY <1>4

\* No handler strays to a step of another route.
LEMMA RoutesArePreserved ==
    ASSUME TypeOK, RoutesAreKept, [Next]_vars
    PROVE  RoutesAreKept'
<1>. USE DEF tables, request, cli, TypeOK, RoutesAreKept, Requests
<1>1. CASE UNCHANGED vars
  BY <1>1 DEF vars
<1>2. ASSUME NEW r \in Requests, Arrive(r)
      PROVE  RoutesAreKept'
  <2>1. CASE TurnAway(r)
    BY <2>1, <1>2 DEF TurnAway, Goto
  <2>2. CASE r \in Setups /\ HandleSetup(r)
    BY <2>2, <1>2 DEF HandleSetup, Receive, Goto, Refuse
  <2>3. CASE r \in SignIns /\ HandleSignIn(r)
    BY <2>3, <1>2 DEF HandleSignIn, Receive, Goto, Refuse
  <2>4. CASE r \in SignOuts \cup Reports /\ HandleWithCookie(r)
    BY <2>4, <1>2 DEF HandleWithCookie, Receive, Goto
  <2>. QED
    BY <1>2, <2>1, <2>2, <2>3, <2>4 DEF Arrive
<1>3. ASSUME NEW r \in Requests, Handle(r)
      PROVE  RoutesAreKept'
  <2>1. CASE CheckOwner(r)
    BY <2>1, <1>3 DEF CheckOwner, Answer, Refuse, Goto
  <2>2. CASE Redeem(r)
    BY <2>2, <1>3 DEF Redeem, RedeemSetupToken, RefusedRedemption, Answer, Refuse, Goto
  <2>3. CASE RecordRedeemed(r)
    BY <2>3, <1>3, CallersAssumption DEF RecordRedeemed, RecordDone, Record, LogIf, Conclude
  <2>4. CASE LookUp(r)
    BY <2>4, <1>3 DEF LookUp, Answer, Refuse, Goto
  <2>5. CASE Start(r)
    BY <2>5, <1>3 DEF Start, StartSession, NewToken, Answer, Goto
  <2>6. CASE RecordStarted(r)
    BY <2>6, <1>3, CallersAssumption DEF RecordStarted, RecordDone, Record, LogIf, Conclude
  <2>7. CASE Authenticate(r)
    BY <2>7, <1>3 DEF Authenticate, Answer, Goto
  <2>8. CASE Report(r)
    BY <2>8, <1>3 DEF Report, Answer
  <2>9. CASE Revoke(r)
    BY <2>9, <1>3 DEF Revoke, RevokeSession, Answer, Goto
  <2>10. CASE RecordEnded(r)
    BY <2>10, <1>3, CallersAssumption DEF RecordEnded, RecordDone, Record, LogIf, Conclude
  <2>11. CASE Reject(r)
    BY <2>11, <1>3, CallersAssumption DEF Reject, Record, RecordUnauthenticated, LogIf, Conclude
  <2>12. CASE Respond(r)
    BY <2>12, <1>3 DEF Respond, Answer
  <2>. QED
    BY <1>3, <2>1, <2>2, <2>3, <2>4, <2>5, <2>6, <2>7, <2>8, <2>9, <2>10, <2>11, <2>12 DEF Handle
<1>4. ASSUME NEW i \in Issuers, Run(i)
      PROVE  RoutesAreKept'
  <2>1. CASE Draw(i)
    BY <2>1, <1>4 DEF Draw, NewToken
  <2>2. CASE Issue(i)
    BY <2>2, <1>4 DEF Issue, IssueSetupToken
  <2>3. CASE RecordIssued(i)
    BY <2>3, <1>4 DEF RecordIssued, RecordUnauthenticated
  <2>4. CASE PrintToken(i)
    BY <2>4, <1>4 DEF PrintToken
  <2>5. CASE Fail(i)
    BY <2>5, <1>4 DEF Fail
  <2>. QED
    BY <1>4, <2>1, <2>2, <2>3, <2>4, <2>5 DEF Run
<1>5. CASE Restart
  BY <1>5 DEF Restart, InFlight
<1>6. CASE Tick
  BY <1>6 DEF Tick
<1>. QED
  BY <1>1, <1>2, <1>3, <1>4, <1>5, <1>6 DEF Next

\* Rows are never taken out of operators here, and a handler reads its row once.
LEMMA HeldRowsArePreserved ==
    ASSUME TypeOK, RoutesAreKept, HeldRowsAreKnown, [Next]_vars
    PROVE  HeldRowsAreKnown'
<1>. USE DEF tables, request, cli, TypeOK, RoutesAreKept, HeldRowsAreKnown, Requests
<1>1. CASE UNCHANGED vars
  BY <1>1 DEF vars
<1>2. ASSUME NEW r \in Requests, Arrive(r)
      PROVE  HeldRowsAreKnown'
  <2>1. CASE TurnAway(r)
    BY <2>1, <1>2 DEF TurnAway, Goto
  <2>2. CASE r \in Setups /\ HandleSetup(r)
    BY <2>2, <1>2 DEF HandleSetup, Receive, Goto, Refuse
  <2>3. CASE r \in SignIns /\ HandleSignIn(r)
    BY <2>3, <1>2 DEF HandleSignIn, Receive, Goto, Refuse
  <2>4. CASE r \in SignOuts \cup Reports /\ HandleWithCookie(r)
    BY <2>4, <1>2 DEF HandleWithCookie, Receive, Goto
  <2>. QED
    BY <1>2, <2>1, <2>2, <2>3, <2>4 DEF Arrive
<1>3. ASSUME NEW r \in Requests, Handle(r)
      PROVE  HeldRowsAreKnown'
  <2>1. CASE CheckOwner(r)
    BY <2>1, <1>3 DEF CheckOwner, Answer, Refuse, Goto
  <2>2. CASE Redeem(r)
    BY <2>2, <1>3 DEF Redeem, RedeemSetupToken, RefusedRedemption, Answer, Refuse, Goto
  <2>3. CASE RecordRedeemed(r)
    BY <2>3, <1>3 DEF RecordRedeemed, RecordDone, Record, LogIf, Conclude
  <2>4. CASE LookUp(r)
    BY <2>4, <1>3 DEF LookUp, Answer, Refuse, Goto
  <2>5. CASE Start(r)
    BY <2>5, <1>3 DEF Start, StartSession, NewToken, Answer, Goto
  <2>6. CASE RecordStarted(r)
    BY <2>6, <1>3 DEF RecordStarted, RecordDone, Record, LogIf, Conclude
  <2>7. CASE Authenticate(r)
    BY <2>7, <1>3, CallersAssumption DEF Authenticate, Answer, Goto, SessionOperator
  <2>8. CASE Report(r)
    BY <2>8, <1>3 DEF Report, Answer
  <2>9. CASE Revoke(r)
    BY <2>9, <1>3 DEF Revoke, RevokeSession, Answer, Goto
  <2>10. CASE RecordEnded(r)
    BY <2>10, <1>3 DEF RecordEnded, RecordDone, Record, LogIf, Conclude
  <2>11. CASE Reject(r)
    BY <2>11, <1>3 DEF Reject, Record, RecordUnauthenticated, LogIf, Conclude
  <2>12. CASE Respond(r)
    BY <2>12, <1>3 DEF Respond, Answer
  <2>. QED
    BY <1>3, <2>1, <2>2, <2>3, <2>4, <2>5, <2>6, <2>7, <2>8, <2>9, <2>10, <2>11, <2>12 DEF Handle
<1>4. ASSUME NEW i \in Issuers, Run(i)
      PROVE  HeldRowsAreKnown'
  <2>1. CASE Draw(i)
    BY <2>1, <1>4 DEF Draw, NewToken
  <2>2. CASE Issue(i)
    BY <2>2, <1>4 DEF Issue, IssueSetupToken
  <2>3. CASE RecordIssued(i)
    BY <2>3, <1>4 DEF RecordIssued, RecordUnauthenticated
  <2>4. CASE PrintToken(i)
    BY <2>4, <1>4 DEF PrintToken
  <2>5. CASE Fail(i)
    BY <2>5, <1>4 DEF Fail
  <2>. QED
    BY <1>4, <2>1, <2>2, <2>3, <2>4, <2>5 DEF Run
<1>5. CASE Restart
  BY <1>5 DEF Restart, InFlight
<1>6. CASE Tick
  BY <1>6 DEF Tick
<1>. QED
  BY <1>1, <1>2, <1>3, <1>4, <1>5, <1>6 DEF Next

\* Every token a request carries was printed on a terminal or sent in a response.
LEMMA DrawnTokensArePreserved ==
    ASSUME TypeOK, TokensWereDrawn, [Next]_vars
    PROVE  TokensWereDrawn'
<1>. USE DEF tables, request, cli, TypeOK, TokensWereDrawn, Requests
<1>1. CASE UNCHANGED vars
  BY <1>1 DEF vars
<1>2. ASSUME NEW r \in Requests, Arrive(r)
      PROVE  TokensWereDrawn'
  <2>1. CASE TurnAway(r)
    BY <2>1, <1>2 DEF TurnAway, Goto
  <2>2. CASE r \in Setups /\ HandleSetup(r)
    BY <2>2, <1>2 DEF HandleSetup, Receive, Goto, Refuse, Printed, Message
  <2>3. CASE r \in SignIns /\ HandleSignIn(r)
    BY <2>3, <1>2 DEF HandleSignIn, Receive, Goto, Refuse, Message
  <2>4. CASE r \in SignOuts \cup Reports /\ HandleWithCookie(r)
    BY <2>4, <1>2 DEF HandleWithCookie, Receive, Goto, Delivered, Message
  <2>. QED
    BY <1>2, <2>1, <2>2, <2>3, <2>4 DEF Arrive
<1>3. ASSUME NEW r \in Requests, Handle(r)
      PROVE  TokensWereDrawn'
  <2>1. CASE CheckOwner(r)
    BY <2>1, <1>3 DEF CheckOwner, Answer, Refuse, Goto
  <2>2. CASE Redeem(r)
    BY <2>2, <1>3 DEF Redeem, RedeemSetupToken, RefusedRedemption, Answer, Refuse, Goto
  <2>3. CASE RecordRedeemed(r)
    BY <2>3, <1>3 DEF RecordRedeemed, RecordDone, Record, LogIf, Conclude
  <2>4. CASE LookUp(r)
    BY <2>4, <1>3 DEF LookUp, Answer, Refuse, Goto
  <2>5. CASE Start(r)
    BY <2>5, <1>3 DEF Start, StartSession, NewToken, Answer, Goto
  <2>6. CASE RecordStarted(r)
    BY <2>6, <1>3 DEF RecordStarted, RecordDone, Record, LogIf, Conclude
  <2>7. CASE Authenticate(r)
    BY <2>7, <1>3 DEF Authenticate, Answer, Goto
  <2>8. CASE Report(r)
    BY <2>8, <1>3 DEF Report, Answer
  <2>9. CASE Revoke(r)
    BY <2>9, <1>3 DEF Revoke, RevokeSession, Answer, Goto
  <2>10. CASE RecordEnded(r)
    BY <2>10, <1>3 DEF RecordEnded, RecordDone, Record, LogIf, Conclude
  <2>11. CASE Reject(r)
    BY <2>11, <1>3 DEF Reject, Record, RecordUnauthenticated, LogIf, Conclude
  <2>12. CASE Respond(r)
    BY <2>12, <1>3 DEF Respond, Answer
  <2>. QED
    BY <1>3, <2>1, <2>2, <2>3, <2>4, <2>5, <2>6, <2>7, <2>8, <2>9, <2>10, <2>11, <2>12 DEF Handle
<1>4. ASSUME NEW i \in Issuers, Run(i)
      PROVE  TokensWereDrawn'
  <2>1. CASE Draw(i)
    BY <2>1, <1>4 DEF Draw, NewToken
  <2>2. CASE Issue(i)
    BY <2>2, <1>4 DEF Issue, IssueSetupToken
  <2>3. CASE RecordIssued(i)
    BY <2>3, <1>4 DEF RecordIssued, RecordUnauthenticated
  <2>4. CASE PrintToken(i)
    BY <2>4, <1>4 DEF PrintToken
  <2>5. CASE Fail(i)
    BY <2>5, <1>4 DEF Fail
  <2>. QED
    BY <1>4, <2>1, <2>2, <2>3, <2>4, <2>5 DEF Run
<1>5. CASE Restart
  BY <1>5 DEF Restart, InFlight
<1>6. CASE Tick
  BY <1>6 DEF Tick
<1>. QED
  BY <1>1, <1>2, <1>3, <1>4, <1>5, <1>6 DEF Next

\* A session is inserted under a token nobody was given before.
LEMMA EndedStaysGone ==
    ASSUME TypeOK, RoutesAreKept, TokensWereDrawn, EndedIsGone, [Next]_vars
    PROVE  EndedIsGone'
<1>. USE DEF tables, request, cli, TypeOK, RoutesAreKept, TokensWereDrawn, EndedIsGone, Concluded, Requests
<1>1. CASE UNCHANGED vars
  BY <1>1 DEF vars
<1>2. ASSUME NEW r \in Requests, Arrive(r)
      PROVE  EndedIsGone'
  <2>1. CASE TurnAway(r)
    BY <2>1, <1>2 DEF TurnAway, Goto
  <2>2. CASE r \in Setups /\ HandleSetup(r)
    BY <2>2, <1>2 DEF HandleSetup, Receive, Goto, Refuse
  <2>3. CASE r \in SignIns /\ HandleSignIn(r)
    BY <2>3, <1>2 DEF HandleSignIn, Receive, Goto, Refuse
  <2>4. CASE r \in SignOuts \cup Reports /\ HandleWithCookie(r)
    BY <2>4, <1>2 DEF HandleWithCookie, Receive, Goto
  <2>. QED
    BY <1>2, <2>1, <2>2, <2>3, <2>4 DEF Arrive
<1>3. ASSUME NEW r \in Requests, Handle(r)
      PROVE  EndedIsGone'
  <2>1. CASE CheckOwner(r)
    BY <2>1, <1>3 DEF CheckOwner, Answer, Refuse, Goto
  <2>2. CASE Redeem(r)
    BY <2>2, <1>3 DEF Redeem, RedeemSetupToken, RefusedRedemption, Answer, Refuse, Goto
  <2>3. CASE RecordRedeemed(r)
    BY <2>3, <1>3 DEF RecordRedeemed, RecordDone, Record, LogIf, Conclude
  <2>4. CASE LookUp(r)
    BY <2>4, <1>3 DEF LookUp, Answer, Refuse, Goto
  <2>5. CASE Start(r)
    BY <2>5, <1>3, NothingAssumption DEF Start, StartSession, NewToken, Answer, Goto, HashToken
  <2>6. CASE RecordStarted(r)
    BY <2>6, <1>3 DEF RecordStarted, RecordDone, Record, LogIf, Conclude
  <2>7. CASE Authenticate(r)
    BY <2>7, <1>3 DEF Authenticate, Answer, Goto
  <2>8. CASE Report(r)
    BY <2>8, <1>3 DEF Report, Answer
  <2>9. CASE Revoke(r)
    BY <2>9, <1>3 DEF Revoke, RevokeSession, Answer, Goto
  <2>10. CASE RecordEnded(r)
    BY <2>10, <1>3 DEF RecordEnded, RecordDone, Record, LogIf, Conclude
  <2>11. CASE Reject(r)
    BY <2>11, <1>3 DEF Reject, Record, RecordUnauthenticated, LogIf, Conclude
  <2>12. CASE Respond(r)
    BY <2>12, <1>3 DEF Respond, Answer
  <2>. QED
    BY <1>3, <2>1, <2>2, <2>3, <2>4, <2>5, <2>6, <2>7, <2>8, <2>9, <2>10, <2>11, <2>12 DEF Handle
<1>4. ASSUME NEW i \in Issuers, Run(i)
      PROVE  EndedIsGone'
  <2>1. CASE Draw(i)
    BY <2>1, <1>4 DEF Draw, NewToken
  <2>2. CASE Issue(i)
    BY <2>2, <1>4 DEF Issue, IssueSetupToken
  <2>3. CASE RecordIssued(i)
    BY <2>3, <1>4 DEF RecordIssued, RecordUnauthenticated
  <2>4. CASE PrintToken(i)
    BY <2>4, <1>4 DEF PrintToken
  <2>5. CASE Fail(i)
    BY <2>5, <1>4 DEF Fail
  <2>. QED
    BY <1>4, <2>1, <2>2, <2>3, <2>4, <2>5 DEF Run
<1>5. CASE Restart
  BY <1>5 DEF Restart, InFlight
<1>6. CASE Tick
  BY <1>6 DEF Tick
<1>. QED
  BY <1>1, <1>2, <1>3, <1>4, <1>5, <1>6 DEF Next

\* RedeemSetupToken creates owners, and nothing here creates anybody else.
LEMMA OwnersArePreserved ==
    ASSUME OperatorsAreOwners, [Next]_vars
    PROVE  OperatorsAreOwners'
<1>. USE DEF tables, request, cli, OperatorsAreOwners
<1>1. CASE UNCHANGED vars
  BY <1>1 DEF vars
<1>2. ASSUME NEW r \in Requests, Arrive(r)
      PROVE  OperatorsAreOwners'
  <2>1. CASE TurnAway(r)
    BY <2>1, <1>2 DEF TurnAway, Goto
  <2>2. CASE r \in Setups /\ HandleSetup(r)
    BY <2>2, <1>2 DEF HandleSetup, Receive, Goto, Refuse
  <2>3. CASE r \in SignIns /\ HandleSignIn(r)
    BY <2>3, <1>2 DEF HandleSignIn, Receive, Goto, Refuse
  <2>4. CASE r \in SignOuts \cup Reports /\ HandleWithCookie(r)
    BY <2>4, <1>2 DEF HandleWithCookie, Receive, Goto
  <2>. QED
    BY <1>2, <2>1, <2>2, <2>3, <2>4 DEF Arrive
<1>3. ASSUME NEW r \in Requests, Handle(r)
      PROVE  OperatorsAreOwners'
  <2>1. CASE CheckOwner(r)
    BY <2>1, <1>3 DEF CheckOwner, Answer, Refuse, Goto
  <2>2. CASE Redeem(r)
    BY <2>2, <1>3 DEF Redeem, RedeemSetupToken, RefusedRedemption, Answer, Refuse, Goto
  <2>3. CASE RecordRedeemed(r)
    BY <2>3, <1>3 DEF RecordRedeemed, RecordDone, Record, LogIf, Conclude
  <2>4. CASE LookUp(r)
    BY <2>4, <1>3 DEF LookUp, Answer, Refuse, Goto
  <2>5. CASE Start(r)
    BY <2>5, <1>3 DEF Start, StartSession, NewToken, Answer, Goto
  <2>6. CASE RecordStarted(r)
    BY <2>6, <1>3 DEF RecordStarted, RecordDone, Record, LogIf, Conclude
  <2>7. CASE Authenticate(r)
    BY <2>7, <1>3 DEF Authenticate, Answer, Goto
  <2>8. CASE Report(r)
    BY <2>8, <1>3 DEF Report, Answer
  <2>9. CASE Revoke(r)
    BY <2>9, <1>3 DEF Revoke, RevokeSession, Answer, Goto
  <2>10. CASE RecordEnded(r)
    BY <2>10, <1>3 DEF RecordEnded, RecordDone, Record, LogIf, Conclude
  <2>11. CASE Reject(r)
    BY <2>11, <1>3 DEF Reject, Record, RecordUnauthenticated, LogIf, Conclude
  <2>12. CASE Respond(r)
    BY <2>12, <1>3 DEF Respond, Answer
  <2>. QED
    BY <1>3, <2>1, <2>2, <2>3, <2>4, <2>5, <2>6, <2>7, <2>8, <2>9, <2>10, <2>11, <2>12 DEF Handle
<1>4. ASSUME NEW i \in Issuers, Run(i)
      PROVE  OperatorsAreOwners'
  <2>1. CASE Draw(i)
    BY <2>1, <1>4 DEF Draw, NewToken
  <2>2. CASE Issue(i)
    BY <2>2, <1>4 DEF Issue, IssueSetupToken
  <2>3. CASE RecordIssued(i)
    BY <2>3, <1>4 DEF RecordIssued, RecordUnauthenticated
  <2>4. CASE PrintToken(i)
    BY <2>4, <1>4 DEF PrintToken
  <2>5. CASE Fail(i)
    BY <2>5, <1>4 DEF Fail
  <2>. QED
    BY <1>4, <2>1, <2>2, <2>3, <2>4, <2>5 DEF Run
<1>5. CASE Restart
  BY <1>5 DEF Restart, InFlight
<1>6. CASE Tick
  BY <1>6 DEF Tick
<1>. QED
  BY <1>1, <1>2, <1>3, <1>4, <1>5, <1>6 DEF Next

\* Who is signed in holds a row, so there is an owner to report.
LEMMA SetUpIsPreserved ==
    ASSUME TypeOK, RoutesAreKept, HeldRowsAreKnown, OperatorsAreOwners, SignedInMeansSetUp, [Next]_vars
    PROVE  SignedInMeansSetUp'
<1>. USE DEF tables, request, cli, TypeOK, RoutesAreKept, HeldRowsAreKnown, OperatorsAreOwners, SignedInMeansSetUp, Answered, Requests
<1>1. CASE UNCHANGED vars
  BY <1>1 DEF vars
<1>2. ASSUME NEW r \in Requests, Arrive(r)
      PROVE  SignedInMeansSetUp'
  <2>1. CASE TurnAway(r)
    BY <2>1, <1>2 DEF TurnAway, Goto
  <2>2. CASE r \in Setups /\ HandleSetup(r)
    BY <2>2, <1>2 DEF HandleSetup, Receive, Goto, Refuse
  <2>3. CASE r \in SignIns /\ HandleSignIn(r)
    BY <2>3, <1>2 DEF HandleSignIn, Receive, Goto, Refuse
  <2>4. CASE r \in SignOuts \cup Reports /\ HandleWithCookie(r)
    BY <2>4, <1>2 DEF HandleWithCookie, Receive, Goto
  <2>. QED
    BY <1>2, <2>1, <2>2, <2>3, <2>4 DEF Arrive
<1>3. ASSUME NEW r \in Requests, Handle(r)
      PROVE  SignedInMeansSetUp'
  <2>1. CASE CheckOwner(r)
    BY <2>1, <1>3 DEF CheckOwner, Answer, Refuse, Goto
  <2>2. CASE Redeem(r)
    BY <2>2, <1>3 DEF Redeem, RedeemSetupToken, RefusedRedemption, Answer, Refuse, Goto
  <2>3. CASE RecordRedeemed(r)
    BY <2>3, <1>3 DEF RecordRedeemed, RecordDone, Record, LogIf, Conclude
  <2>4. CASE LookUp(r)
    BY <2>4, <1>3 DEF LookUp, Answer, Refuse, Goto
  <2>5. CASE Start(r)
    BY <2>5, <1>3 DEF Start, StartSession, NewToken, Answer, Goto
  <2>6. CASE RecordStarted(r)
    BY <2>6, <1>3, CallersAssumption DEF RecordStarted, RecordDone, Record, LogIf, Conclude
  <2>7. CASE Authenticate(r)
    BY <2>7, <1>3 DEF Authenticate, Answer, Goto
  <2>8. CASE Report(r)
    <3>1. who[r] # {} => HasOwner
      BY DEF HasOwner
    <3>2. PICK owned \in {HasOwner, TRUE} : setupCompleted' = [setupCompleted EXCEPT ![r] = owned]
      BY <2>8 DEF Report
    <3>3. who[r] # {} => owned
      <4>1. CASE owned = TRUE
        BY <4>1
      <4>2. CASE owned = HasOwner
        BY <3>1, <4>2
      <4>. QED
        BY <3>2, <4>1, <4>2
    <3>4. setupCompleted'[r] = owned /\ \A q \in Requests \ {r} : setupCompleted'[q] = setupCompleted[q]
      BY <3>2
    <3>. HIDE DEF HasOwner
    <3>. QED
      BY <2>8, <3>3, <3>4 DEF Report, Answer
  <2>9. CASE Revoke(r)
    BY <2>9, <1>3 DEF Revoke, RevokeSession, Answer, Goto
  <2>10. CASE RecordEnded(r)
    BY <2>10, <1>3 DEF RecordEnded, RecordDone, Record, LogIf, Conclude
  <2>11. CASE Reject(r)
    BY <2>11, <1>3, CallersAssumption DEF Reject, Record, RecordUnauthenticated, LogIf, Conclude
  <2>12. CASE Respond(r)
    BY <2>12, <1>3 DEF Respond, Answer
  <2>. QED
    BY <1>3, <2>1, <2>2, <2>3, <2>4, <2>5, <2>6, <2>7, <2>8, <2>9, <2>10, <2>11, <2>12 DEF Handle
<1>4. ASSUME NEW i \in Issuers, Run(i)
      PROVE  SignedInMeansSetUp'
  <2>1. CASE Draw(i)
    BY <2>1, <1>4 DEF Draw, NewToken
  <2>2. CASE Issue(i)
    BY <2>2, <1>4 DEF Issue, IssueSetupToken
  <2>3. CASE RecordIssued(i)
    BY <2>3, <1>4 DEF RecordIssued, RecordUnauthenticated
  <2>4. CASE PrintToken(i)
    BY <2>4, <1>4 DEF PrintToken
  <2>5. CASE Fail(i)
    BY <2>5, <1>4 DEF Fail
  <2>. QED
    BY <1>4, <2>1, <2>2, <2>3, <2>4, <2>5 DEF Run
<1>5. CASE Restart
  BY <1>5 DEF Restart, InFlight
<1>6. CASE Tick
  BY <1>6 DEF Tick
<1>. QED
  BY <1>1, <1>2, <1>3, <1>4, <1>5, <1>6 DEF Next

\* An answer is decided by the step that writes its entry.
LEMMA ActsArePreserved ==
    ASSUME TypeOK, RoutesAreKept, HeldRowsAreKnown, ActsAreRecorded, [Next]_vars
    PROVE  ActsAreRecorded'
<1>. USE DEF tables, request, cli, TypeOK, RoutesAreKept, HeldRowsAreKnown, Concluded, Trail, Requests, ActsAreRecorded
<1>1. CASE UNCHANGED vars
  BY <1>1 DEF vars
<1>2. ASSUME NEW r \in Requests, Arrive(r)
      PROVE  ActsAreRecorded'
  <2>1. CASE TurnAway(r)
    BY <2>1, <1>2 DEF TurnAway, Goto
  <2>2. CASE r \in Setups /\ HandleSetup(r)
    BY <2>2, <1>2 DEF HandleSetup, Receive, Goto, Refuse
  <2>3. CASE r \in SignIns /\ HandleSignIn(r)
    BY <2>3, <1>2 DEF HandleSignIn, Receive, Goto, Refuse
  <2>4. CASE r \in SignOuts \cup Reports /\ HandleWithCookie(r)
    BY <2>4, <1>2 DEF HandleWithCookie, Receive, Goto
  <2>. QED
    BY <1>2, <2>1, <2>2, <2>3, <2>4 DEF Arrive
<1>3. ASSUME NEW r \in Requests, Handle(r)
      PROVE  ActsAreRecorded'
  <2>1. CASE CheckOwner(r)
    BY <2>1, <1>3 DEF CheckOwner, Answer, Refuse, Goto
  <2>2. CASE Redeem(r)
    BY <2>2, <1>3 DEF Redeem, RedeemSetupToken, RefusedRedemption, Answer, Refuse, Goto
  <2>3. CASE RecordRedeemed(r)
    <3>1. /\ audit_entries \subseteq audit_entries' /\ logged \subseteq logged' /\ UNCHANGED sent
          /\ \A q \in Requests \ {r} : step'[q] = step[q] /\ status'[q] = status[q]
          /\ step[r] = "redeemed" /\ status'[r] = 201
      BY <2>3, <1>3 DEF RecordRedeemed, RecordDone, Record, LogIf, Conclude
    <3>2. r \notin logged' => \E e \in audit_entries' :
            e.by = r /\ e.action = "setup-token.redeemed" /\ \E o \in who[r] : e.operator_email = o.email
      BY <2>3, <1>3, DoneIsRecorded DEF RecordRedeemed
    <3>. QED
      BY <1>3, <3>1, <3>2, CallersAssumption
  <2>4. CASE LookUp(r)
    BY <2>4, <1>3 DEF LookUp, Answer, Refuse, Goto
  <2>5. CASE Start(r)
    BY <2>5, <1>3 DEF Start, StartSession, NewToken, Answer, Goto
  <2>6. CASE RecordStarted(r)
    <3>1. /\ audit_entries \subseteq audit_entries' /\ logged \subseteq logged' /\ UNCHANGED sent
          /\ \A q \in Requests \ {r} : step'[q] = step[q] /\ status'[q] = status[q]
          /\ step[r] = "started" /\ status'[r] = 200
      BY <2>6, <1>3 DEF RecordStarted, RecordDone, Record, LogIf, Conclude
    <3>2. r \notin logged' => \E e \in audit_entries' :
            e.by = r /\ e.action = "session.started" /\ \E o \in who[r] : e.operator_email = o.email
      BY <2>6, <1>3, DoneIsRecorded DEF RecordStarted
    <3>. QED
      BY <1>3, <3>1, <3>2, CallersAssumption
  <2>7. CASE Authenticate(r)
    BY <2>7, <1>3, CallersAssumption DEF Authenticate, Answer, Goto
  <2>8. CASE Report(r)
    BY <2>8, <1>3, CallersAssumption DEF Report, Answer
  <2>9. CASE Revoke(r)
    BY <2>9, <1>3 DEF Revoke, RevokeSession, Answer, Goto
  <2>10. CASE RecordEnded(r)
    <3>1. /\ audit_entries \subseteq audit_entries' /\ logged \subseteq logged' /\ UNCHANGED sent
          /\ \A q \in Requests \ {r} : step'[q] = step[q] /\ status'[q] = status[q]
          /\ step[r] = "revoked" /\ status'[r] = 204
      BY <2>10, <1>3 DEF RecordEnded, RecordDone, Record, LogIf, Conclude
    <3>2. r \notin logged' => \E e \in audit_entries' :
            e.by = r /\ e.action = "session.ended" /\ \E o \in who[r] : e.operator_email = o.email
      BY <2>10, <1>3, DoneIsRecorded DEF RecordEnded
    <3>. QED
      BY <1>3, <3>1, <3>2, CallersAssumption
  <2>11. CASE Reject(r)
    <3>1. /\ audit_entries \subseteq audit_entries' /\ logged \subseteq logged' /\ UNCHANGED sent
          /\ \A q \in Requests \ {r} : step'[q] = step[q] /\ status'[q] = status[q]
          /\ step[r] = "reject" /\ status'[r] = status[r]
      BY <2>11, <1>3 DEF Reject, Record, RecordUnauthenticated, LogIf, Conclude
    <3>2. r \notin logged' => \E e \in audit_entries' :
            e.by = r /\ e.action = IF r \in Setups THEN "setup-token.rejected" ELSE "session.rejected"
      <4>. DEFINE action == IF r \in Setups THEN "setup-token.rejected" ELSE "session.rejected"
      <4>1. PICK err \in {"nil", "ErrNotFound", "Err"} :
              /\ \/ RecordUnauthenticated(action, sent[r].email, r, err)
                 \/ \E o \in who[r] : Record(o.id, action, sent[r].email, r, err)
              /\ LogIf(r, err)
        BY <2>11 DEF Reject
      <4>2. r \notin logged' => err = "nil"
        BY <4>1 DEF LogIf
      <4>. HIDE DEF action
      <4>3. err = "nil" => \E e \in audit_entries' : e.by = r /\ e.action = action
        <5>1. CASE RecordUnauthenticated(action, sent[r].email, r, err)
          <6>. DEFINE entry == [operator_id |-> NoOne, operator_email |-> NoEmail,
                               action |-> action, target |-> sent[r].email, by |-> r]
          <6>1. err = "nil" => entry \in audit_entries'
            BY <5>1 DEF RecordUnauthenticated
          <6>. QED
            BY <6>1
        <5>2. ASSUME NEW o, Record(o.id, action, sent[r].email, r, err), err = "nil"
              PROVE  \E e \in audit_entries' : e.by = r /\ e.action = action
          <6>1. PICK p \in operators : p.id = o.id
            BY <5>2 DEF Record
          <6>. DEFINE entry == [operator_id |-> p.id, operator_email |-> p.email,
                               action |-> action, target |-> sent[r].email, by |-> r]
          <6>2. entry \in audit_entries'
            BY <5>2, <6>1 DEF Record
          <6>. QED
            BY <6>2
        <5>. QED
          BY <4>1, <5>1, <5>2
      <4>. QED
        BY <4>2, <4>3 DEF action
    <3>. QED
      BY <1>3, <3>1, <3>2, CallersAssumption
  <2>12. CASE Respond(r)
    BY <2>12, <1>3 DEF Respond, Answer
  <2>. QED
    BY <1>3, <2>1, <2>2, <2>3, <2>4, <2>5, <2>6, <2>7, <2>8, <2>9, <2>10, <2>11, <2>12 DEF Handle
<1>4. ASSUME NEW i \in Issuers, Run(i)
      PROVE  ActsAreRecorded'
  <2>1. CASE Draw(i)
    BY <2>1, <1>4 DEF Draw, NewToken
  <2>2. CASE Issue(i)
    BY <2>2, <1>4 DEF Issue, IssueSetupToken
  <2>3. CASE RecordIssued(i)
    BY <2>3, <1>4 DEF RecordIssued, RecordUnauthenticated
  <2>4. CASE PrintToken(i)
    BY <2>4, <1>4 DEF PrintToken
  <2>5. CASE Fail(i)
    BY <2>5, <1>4 DEF Fail
  <2>. QED
    BY <1>4, <2>1, <2>2, <2>3, <2>4, <2>5 DEF Run
<1>5. CASE Restart
  BY <1>5 DEF Restart, InFlight
<1>6. CASE Tick
  BY <1>6 DEF Tick
<1>. QED
  BY <1>1, <1>2, <1>3, <1>4, <1>5, <1>6 DEF Next

\* An entry is written by the step that decides the answer.
LEMMA EntriesArePreserved ==
    ASSUME TypeOK, RoutesAreKept, EntriesAreConcluded, [Next]_vars
    PROVE  EntriesAreConcluded'
<1>. USE DEF tables, request, cli, TypeOK, RoutesAreKept, EntriesAreConcluded, Requests
<1>1. CASE UNCHANGED vars
  BY <1>1 DEF vars
<1>2. ASSUME NEW r \in Requests, Arrive(r)
      PROVE  EntriesAreConcluded'
  <2>1. CASE TurnAway(r)
    BY <2>1, <1>2 DEF TurnAway, Goto
  <2>2. CASE r \in Setups /\ HandleSetup(r)
    BY <2>2, <1>2 DEF HandleSetup, Receive, Goto, Refuse
  <2>3. CASE r \in SignIns /\ HandleSignIn(r)
    BY <2>3, <1>2 DEF HandleSignIn, Receive, Goto, Refuse
  <2>4. CASE r \in SignOuts \cup Reports /\ HandleWithCookie(r)
    BY <2>4, <1>2 DEF HandleWithCookie, Receive, Goto
  <2>. QED
    BY <1>2, <2>1, <2>2, <2>3, <2>4 DEF Arrive
<1>3. ASSUME NEW r \in Requests, Handle(r)
      PROVE  EntriesAreConcluded'
  <2>1. CASE CheckOwner(r)
    BY <2>1, <1>3 DEF CheckOwner, Answer, Refuse, Goto
  <2>2. CASE Redeem(r)
    BY <2>2, <1>3 DEF Redeem, RedeemSetupToken, RefusedRedemption, Answer, Refuse, Goto
  <2>3. CASE RecordRedeemed(r)
    BY <2>3, <1>3 DEF RecordRedeemed, RecordDone, Record, LogIf, Conclude
  <2>4. CASE LookUp(r)
    BY <2>4, <1>3 DEF LookUp, Answer, Refuse, Goto
  <2>5. CASE Start(r)
    BY <2>5, <1>3 DEF Start, StartSession, NewToken, Answer, Goto
  <2>6. CASE RecordStarted(r)
    BY <2>6, <1>3 DEF RecordStarted, RecordDone, Record, LogIf, Conclude
  <2>7. CASE Authenticate(r)
    BY <2>7, <1>3 DEF Authenticate, Answer, Goto
  <2>8. CASE Report(r)
    BY <2>8, <1>3 DEF Report, Answer
  <2>9. CASE Revoke(r)
    BY <2>9, <1>3 DEF Revoke, RevokeSession, Answer, Goto
  <2>10. CASE RecordEnded(r)
    BY <2>10, <1>3 DEF RecordEnded, RecordDone, Record, LogIf, Conclude
  <2>11. CASE Reject(r)
    BY <2>11, <1>3 DEF Reject, Record, RecordUnauthenticated, LogIf, Conclude
  <2>12. CASE Respond(r)
    BY <2>12, <1>3 DEF Respond, Answer
  <2>. QED
    BY <1>3, <2>1, <2>2, <2>3, <2>4, <2>5, <2>6, <2>7, <2>8, <2>9, <2>10, <2>11, <2>12 DEF Handle
<1>4. ASSUME NEW i \in Issuers, Run(i)
      PROVE  EntriesAreConcluded'
  <2>1. CASE Draw(i)
    BY <2>1, <1>4 DEF Draw, NewToken
  <2>2. CASE Issue(i)
    BY <2>2, <1>4 DEF Issue, IssueSetupToken
  <2>3. CASE RecordIssued(i)
    BY <2>3, <1>4, CallersAssumption DEF RecordIssued, RecordUnauthenticated
  <2>4. CASE PrintToken(i)
    BY <2>4, <1>4 DEF PrintToken
  <2>5. CASE Fail(i)
    BY <2>5, <1>4 DEF Fail
  <2>. QED
    BY <1>4, <2>1, <2>2, <2>3, <2>4, <2>5 DEF Run
<1>5. CASE Restart
  BY <1>5 DEF Restart, InFlight
<1>6. CASE Tick
  BY <1>6 DEF Tick
<1>. QED
  BY <1>1, <1>2, <1>3, <1>4, <1>5, <1>6 DEF Next

\* A token is printed after its entry was written.
LEMMA PrintedIsPreserved ==
    ASSUME TypeOK, PrintedIsRecorded, [Next]_vars
    PROVE  PrintedIsRecorded'
<1>. USE DEF tables, request, cli, TypeOK, PrintedIsRecorded, Trail
<1>1. CASE UNCHANGED vars
  BY <1>1 DEF vars
<1>2. ASSUME NEW r \in Requests, Arrive(r)
      PROVE  PrintedIsRecorded'
  <2>1. CASE TurnAway(r)
    BY <2>1, <1>2 DEF TurnAway, Goto
  <2>2. CASE r \in Setups /\ HandleSetup(r)
    BY <2>2, <1>2 DEF HandleSetup, Receive, Goto, Refuse
  <2>3. CASE r \in SignIns /\ HandleSignIn(r)
    BY <2>3, <1>2 DEF HandleSignIn, Receive, Goto, Refuse
  <2>4. CASE r \in SignOuts \cup Reports /\ HandleWithCookie(r)
    BY <2>4, <1>2 DEF HandleWithCookie, Receive, Goto
  <2>. QED
    BY <1>2, <2>1, <2>2, <2>3, <2>4 DEF Arrive
<1>3. ASSUME NEW r \in Requests, Handle(r)
      PROVE  PrintedIsRecorded'
  <2>1. CASE CheckOwner(r)
    BY <2>1, <1>3 DEF CheckOwner, Answer, Refuse, Goto
  <2>2. CASE Redeem(r)
    BY <2>2, <1>3 DEF Redeem, RedeemSetupToken, RefusedRedemption, Answer, Refuse, Goto
  <2>3. CASE RecordRedeemed(r)
    BY <2>3, <1>3 DEF RecordRedeemed, RecordDone, Record, LogIf, Conclude
  <2>4. CASE LookUp(r)
    BY <2>4, <1>3 DEF LookUp, Answer, Refuse, Goto
  <2>5. CASE Start(r)
    BY <2>5, <1>3 DEF Start, StartSession, NewToken, Answer, Goto
  <2>6. CASE RecordStarted(r)
    BY <2>6, <1>3 DEF RecordStarted, RecordDone, Record, LogIf, Conclude
  <2>7. CASE Authenticate(r)
    BY <2>7, <1>3 DEF Authenticate, Answer, Goto
  <2>8. CASE Report(r)
    BY <2>8, <1>3 DEF Report, Answer
  <2>9. CASE Revoke(r)
    BY <2>9, <1>3 DEF Revoke, RevokeSession, Answer, Goto
  <2>10. CASE RecordEnded(r)
    BY <2>10, <1>3 DEF RecordEnded, RecordDone, Record, LogIf, Conclude
  <2>11. CASE Reject(r)
    BY <2>11, <1>3 DEF Reject, Record, RecordUnauthenticated, LogIf, Conclude
  <2>12. CASE Respond(r)
    BY <2>12, <1>3 DEF Respond, Answer
  <2>. QED
    BY <1>3, <2>1, <2>2, <2>3, <2>4, <2>5, <2>6, <2>7, <2>8, <2>9, <2>10, <2>11, <2>12 DEF Handle
<1>4. ASSUME NEW i \in Issuers, Run(i)
      PROVE  PrintedIsRecorded'
  <2>1. CASE Draw(i)
    BY <2>1, <1>4 DEF Draw, NewToken
  <2>2. CASE Issue(i)
    BY <2>2, <1>4 DEF Issue, IssueSetupToken
  <2>3. CASE RecordIssued(i)
    <3>1. audit_entries \subseteq audit_entries'
      BY <2>3 DEF RecordIssued, RecordUnauthenticated
    <3>2. issuer'[i] = "print" => \E e \in audit_entries' : e.by = i /\ e.action = "setup-token.issued"
      <4>1. PICK err \in {"nil", "Err"} :
              /\ RecordUnauthenticated("setup-token.issued", NoEmail, i, err)
              /\ issuer' = [issuer EXCEPT ![i] = IF err = "nil" THEN "print" ELSE "failed"]
        BY <2>3 DEF RecordIssued
      <4>2. issuer'[i] = "print" => err = "nil"
        BY <4>1
      <4>. DEFINE entry == [operator_id |-> NoOne, operator_email |-> NoEmail,
                           action |-> "setup-token.issued", target |-> NoEmail, by |-> i]
      <4>3. err = "nil" => entry \in audit_entries'
        BY <4>1 DEF RecordUnauthenticated
      <4>. QED
        BY <4>2, <4>3
    <3>3. \A j \in Issuers \ {i} : issuer'[j] = issuer[j]
      BY <2>3 DEF RecordIssued
    <3>4. issuer'[i] # "printed"
      BY <2>3 DEF RecordIssued
    <3>. QED
      BY <3>1, <3>2, <3>3, <3>4
  <2>4. CASE PrintToken(i)
    BY <2>4, <1>4 DEF PrintToken
  <2>5. CASE Fail(i)
    BY <2>5, <1>4 DEF Fail
  <2>. QED
    BY <1>4, <2>1, <2>2, <2>3, <2>4, <2>5 DEF Run
<1>5. CASE Restart
  BY <1>5 DEF Restart, InFlight
<1>6. CASE Tick
  BY <1>6 DEF Tick
<1>. QED
  BY <1>1, <1>2, <1>3, <1>4, <1>5, <1>6 DEF Next

----------------------------------------------------------------------------
\* The inductive invariant of Access.
AccessInv ==
    /\ TypeOK /\ RoutesAreKept /\ HeldRowsAreKnown /\ TokensWereDrawn
    /\ EndedIsGone /\ OperatorsAreOwners /\ SignedInMeansSetUp
    /\ ActsAreRecorded /\ EntriesAreConcluded /\ PrintedIsRecorded

\* It holds in every reachable state.
LEMMA AccessInvAlways == Spec => []AccessInv
<1>1. Init => AccessInv
  <2>. SUFFICES ASSUME Init PROVE AccessInv
    OBVIOUS
  <2>1. TypeOK
    BY InitTypeOK
  <2>2. RoutesAreKept /\ HeldRowsAreKnown /\ OperatorsAreOwners
    BY DEF Init, StoreInit, OwnedInit, RunInit, RoutesAreKept, HeldRowsAreKnown, OperatorsAreOwners
  <2>3. TokensWereDrawn
    BY DEF Init, RunInit, TokensWereDrawn, Silence
  <2>4. EndedIsGone /\ SignedInMeansSetUp /\ ActsAreRecorded /\ EntriesAreConcluded /\ PrintedIsRecorded
    BY DEF Init, StoreInit, OwnedInit, RunInit, EndedIsGone, SignedInMeansSetUp, ActsAreRecorded,
           EntriesAreConcluded, PrintedIsRecorded, Answered, Concluded, Requests
  <2>. QED
    BY <2>1, <2>2, <2>3, <2>4 DEF AccessInv
<1>2. AccessInv /\ [Next]_vars => AccessInv'
  BY NextTypeOK, RoutesArePreserved, HeldRowsArePreserved, DrawnTokensArePreserved, EndedStaysGone,
     OwnersArePreserved, SetUpIsPreserved, ActsArePreserved, EntriesArePreserved, PrintedIsPreserved
  DEF AccessInv
<1>. QED
  BY <1>1, <1>2, PTL DEF Spec

\* Once a sign-out was answered with 204, no interleaving of requests, restarts
\* and failures makes its cookie authenticate anybody again (handleSignOut).
THEOREM SignedOutIsOverAlways == Spec => []SignedOutIsOver
<1>1. AccessInv => SignedOutIsOver
  BY DEF AccessInv, EndedIsGone, SignedOutIsOver, Answered, Concluded
<1>. QED
  BY <1>1, AccessInvAlways, PTL

\* /api/session never names somebody and says that setup is not done
\* (requireSession and handleSession).
THEOREM SignedInMeansSetUpAlways == Spec => []SignedInMeansSetUp
<1>1. AccessInv => SignedInMeansSetUp
  BY DEF AccessInv
<1>. QED
  BY <1>1, AccessInvAlways, PTL

\* Every answer has the entry it promises, or a log line in its place, and no
\* entry belongs to a request that was answered 500 or turned away; the entry is
\* committed before the answer, so a request lost in between may have one.
THEOREM AnswersAreOnTheTrailAlways == Spec => []AnswersAreOnTheTrail
<1>1. AccessInv => AnswersAreOnTheTrail
  <2>. SUFFICES ASSUME AccessInv PROVE AnswersAreOnTheTrail
    OBVIOUS
  <2>1. ActsAreRecorded /\ EntriesAreConcluded /\ PrintedIsRecorded
    BY DEF AccessInv
  <2>2. \A i \in Issuers : issuer[i] = "printed" => Trail(i, "setup-token.issued") # {}
    BY <2>1 DEF PrintedIsRecorded
  <2>. QED
    BY <2>1, <2>2 DEF ActsAreRecorded, EntriesAreConcluded, AnswersAreOnTheTrail, Answered, Concluded
<1>. QED
  BY <1>1, AccessInvAlways, PTL

----------------------------------------------------------------------------
(* The same tables with the management calls and the housekeeping beside   *)
(* the service (Managed).                                                  *)

\* No call of the service or of the CLI takes an entry away or changes it.
LEMMA TrailGrows ==
    ASSUME Next
    PROVE  audit_entries \subseteq audit_entries'
<1>. USE DEF tables
<1>1. ASSUME NEW r \in Requests, Arrive(r)
      PROVE  audit_entries \subseteq audit_entries'
  BY <1>1 DEF Arrive, TurnAway, HandleSetup, HandleSignIn, HandleWithCookie, Receive
<1>2. ASSUME NEW r \in Requests, Handle(r)
      PROVE  audit_entries \subseteq audit_entries'
  BY <1>2 DEF Handle, CheckOwner, Redeem, RedeemSetupToken, RecordRedeemed, RecordDone, Record, LookUp,
              Start, StartSession, RecordStarted, Authenticate, Report, Revoke, RevokeSession,
              RecordEnded, Reject, RecordUnauthenticated, Respond
<1>3. ASSUME NEW i \in Issuers, Run(i)
      PROVE  audit_entries \subseteq audit_entries'
  BY <1>3 DEF Run, Draw, Issue, IssueSetupToken, RecordIssued, RecordUnauthenticated, PrintToken, Fail
<1>. QED
  BY <1>1, <1>2, <1>3 DEF Next, Restart, Tick

\* An entry stays as it was written; removing an operator only takes the link to
\* the row away (ON DELETE SET NULL).
THEOREM TrailIsImmutableAlways == ManagedSpec => TrailIsImmutable
<1>. DEFINE Kept ==
       \A e \in audit_entries :
         e \in audit_entries' \/ [e EXCEPT !.operator_id = NoOne] \in audit_entries'
<1>1. ASSUME ManagedNext
      PROVE  Kept
  <2>1. CASE Next
    BY <2>1, TrailGrows
  <2>2. CASE Manage
    BY <2>2 DEF Manage, CreateOperator, SetPassword, RevokeOperatorSessions, DropExpiredSessions,
                DropExpiredSetupTokens
  <2>3. ASSUME NEW c \in Removals, Remove(c) \/ AskAfterwards(c)
        PROVE  Kept
    <3>1. ASSUME NEW id, DeleteOperator(id)
          PROVE  Kept
      BY <3>1 DEF DeleteOperator
    <3>2. CASE UNCHANGED audit_entries
      BY <3>2
    <3>. QED
      BY <2>3, <3>1, <3>2 DEF Remove, AskAfterwards, vars, tables
  <2>. QED
    BY <1>1, <2>1, <2>2, <2>3 DEF ManagedNext
<1>2. [ManagedNext]_allvars => [Kept]_allvars
  BY <1>1
<1>. QED
  BY <1>2, PTL DEF ManagedSpec, TrailIsImmutable

\* What the management calls and the housekeeping do to the claim: to owners
\* nothing, and to tokens nothing but dropping the expired ones.
LEMMA ManageLeavesOwners ==
    ASSUME TypeOK, \/ Manage
                   \/ \E c \in Removals : Remove(c) \/ AskAfterwards(c)
    PROVE  /\ TypeOK' /\ UNCHANGED now
           /\ UNCHANGED Owners
           /\ \/ UNCHANGED setup_tokens
              \/ setup_tokens' = {t \in setup_tokens : t.expires_at > now}
<1>. DEFINE Goal == /\ StoreTypeOK' /\ UNCHANGED Owners
                    /\ \/ UNCHANGED setup_tokens
                       \/ setup_tokens' = {t \in setup_tokens : t.expires_at > now}
<1>. USE DEF tables
<1>0. StoreTypeOK /\ UNCHANGED <<now, mode, request, cli, drawn>>
  BY DEF TypeOK, Manage, Remove, AskAfterwards, vars
<1>1. ASSUME NEW email \in Emails, NEW p \in Passwords, NEW id \in Ids,
             CreateOperator(email, HashPassword(p), id)
      PROVE  Goal
  <2>. DEFINE row == [id |-> id, email |-> email, password_hash |-> HashPassword(p), is_owner |-> FALSE]
  <2>1. row \in OperatorRow /\ ~row.is_owner
    BY DEF OperatorRow
  <2>2. operators' = operators \cup {row}
    BY <1>1 DEF CreateOperator
  <2>. HIDE DEF row
  <2>3. {q \in operators' : q.is_owner} = {q \in operators : q.is_owner}
    BY <2>1, <2>2
  <2>. QED
    BY <1>0, <1>1, <2>1, <2>2, <2>3 DEF CreateOperator, StoreTypeOK, Owners
<1>2. ASSUME NEW id \in Ids, NEW p \in Passwords, SetPassword(id, HashPassword(p))
      PROVE  Goal
  <2>. DEFINE with(o) == IF o.id = id THEN [o EXCEPT !.password_hash = HashPassword(p)] ELSE o
  <2>1. operators' = {with(o) : o \in operators}
    BY <1>2 DEF SetPassword
  <2>2. \A o \in operators : with(o) \in OperatorRow /\ with(o).email = o.email /\ with(o).is_owner = o.is_owner
    BY <1>0 DEF StoreTypeOK, OperatorRow
  <2>. HIDE DEF with
  <2>3. operators' \subseteq OperatorRow
    BY <2>1, <2>2
  <2>4. Owners' = Owners
    BY <2>1, <2>2 DEF Owners
  <2>. QED
    BY <1>0, <1>2, <2>3, <2>4 DEF SetPassword, StoreTypeOK
<1>a. UNCHANGED operators => UNCHANGED Owners
  BY DEF Owners
<1>3. ASSUME \/ \E id \in Ids : RevokeOperatorSessions(id)
             \/ DropExpiredSessions \/ DropExpiredSetupTokens
      PROVE  Goal
  <2>1. /\ UNCHANGED <<operators, audit_entries>> /\ sessions' \subseteq sessions
        /\ \/ UNCHANGED setup_tokens
           \/ setup_tokens' = {t \in setup_tokens : t.expires_at > now}
    BY <1>3 DEF RevokeOperatorSessions, DropExpiredSessions, DropExpiredSetupTokens
  <2>2. StoreTypeOK'
    BY <1>0, <2>1 DEF StoreTypeOK
  <2>. QED
    BY <1>a, <2>1, <2>2
<1>4. ASSUME NEW id \in Ids, DeleteOperator(id)
      PROVE  Goal
  <2>1. {q \in operators' : q.is_owner} = {q \in operators : q.is_owner}
    BY <1>4 DEF DeleteOperator
  <2>2. audit_entries' \subseteq AuditRow
    BY <1>0, <1>4 DEF DeleteOperator, StoreTypeOK, AuditRow
  <2>. QED
    BY <1>0, <1>4, <2>1, <2>2 DEF DeleteOperator, StoreTypeOK, Owners
<1>5. ASSUME UNCHANGED tables
      PROVE  Goal
  <2>1. StoreTypeOK'
    BY <1>0, <1>5 DEF StoreTypeOK
  <2>. QED
    BY <1>a, <1>5, <2>1
<1>. HIDE DEF Goal
<1>6. Goal
  <2>1. ASSUME Manage
        PROVE  Goal
    BY <1>1, <1>2, <1>3, <2>1 DEF Manage
  <2>2. ASSUME NEW c \in Removals, Remove(c) \/ AskAfterwards(c)
        PROVE  Goal
    <3>1. (\E id \in Ids : DeleteOperator(id)) \/ UNCHANGED tables
      BY <2>2 DEF Remove, AskAfterwards, vars
    <3>. QED
      BY <1>4, <1>5, <3>1
  <2>. QED
    BY <2>1, <2>2
<1>7. TypeOK'
  BY <1>0, <1>6 DEF TypeOK, request, cli, Goal
<1>. QED
  BY <1>0, <1>6, <1>7 DEF Goal

\* Managed starts well typed.
LEMMA ManagedInitTypeOK == ManagedInit => TypeOK
  BY InitTypeOK DEF ManagedInit

\* With the management calls and the housekeeping running as well, a host is
\* claimed once, with a token that has not expired, and no such token is taken
\* away (DropExpiredSetupTokens compares with the clock of its own call).
THEOREM ManagedClaimIsKeptAlways == ManagedSpec => ManagedClaimIsKept
<1>1. ManagedInit => TypeOK /\ OneClaim
  BY ManagedInitTypeOK DEF ManagedInit, Init, StoreInit, OwnedInit, OneClaim, TokenOnlyWhileUnowned
<1>2. ASSUME TypeOK, OneClaim, [ManagedNext]_allvars
      PROVE  TypeOK' /\ OneClaim' /\ [Claim!Next]_(Claim!vars)
  <2>1. CASE [Next]_vars
    BY <1>2, <2>1, NextTypeOK, NextIsClaimStep, ClaimStepOneClaim, ClaimStepRefines
  <2>2. CASE \/ Manage
             \/ \E c \in Removals : Remove(c) \/ AskAfterwards(c)
    <3>1. /\ TypeOK' /\ UNCHANGED now
          /\ UNCHANGED Owners
          /\ \/ UNCHANGED setup_tokens
             \/ setup_tokens' = {t \in setup_tokens : t.expires_at > now}
      BY <1>2, <2>2, ManageLeavesOwners
    <3>2. OneClaim'
      <4>1. setup_tokens' \subseteq setup_tokens
        BY <3>1
      <4>2. (HasOwner <=> Owners # {}) /\ (HasOwner' <=> Owners' # {})
        BY DEF HasOwner, Owners
      <4>. QED
        BY <1>2, <3>1, <4>1, <4>2 DEF OneClaim, TokenOnlyWhileUnowned
    <3>3. [Claim!Next]_(Claim!vars)
      <4>1. CASE UNCHANGED setup_tokens
        BY <3>1, <4>1 DEF Claim!vars
      <4>2. CASE setup_tokens' = {t \in setup_tokens : t.expires_at > now} /\ setup_tokens' # setup_tokens
        <5>1. now \in Nat /\ \A t \in setup_tokens : t.expires_at \in Nat
          BY <1>2 DEF TypeOK, StoreTypeOK, SetupTokenRow
        <5>2. PICK t \in setup_tokens : ~(t.expires_at > now)
          BY <4>2
        <5>3. setup_tokens = {t}
          BY <1>2 DEF OneClaim
        <5>4. setup_tokens' = {} /\ t.expires_at <= now
          BY <4>2, <5>1, <5>2, <5>3
        <5>. QED
          BY <3>1, <5>3, <5>4 DEF Claim!Next, Claim!Lapse
      <4>. QED
        BY <3>1, <4>1, <4>2
    <3>. QED
      BY <3>1, <3>2, <3>3
  <2>. QED
    BY <1>2, <2>1, <2>2 DEF ManagedNext, allvars
<1>. QED
  BY <1>1, <1>2, PTL DEF ManagedSpec, ManagedClaimIsKept

----------------------------------------------------------------------------
(* Whose a session is.                                                     *)

\* What SessionsAreNotInherited needs beside it: every session has its operator
\* (so an id that is given again is given to nobody's session), and the
\* generation it was started in is still the one of its id.
SessionsAreOwned ==
    /\ generation \in [Ids -> Nat]
    /\ startedIn \in [Tokens -> Nat]
    /\ \A s \in sessions : \E o \in operators : o.id = s.operator_id
    /\ \A t \in Tokens, s \in sessions :
         s.token_hash = HashToken(t) => startedIn[t] = generation[s.operator_id]

\* Ending sessions, and keeping every id that a session has, ends no ownership.
LEMMA FewerSessionsAreOwned ==
    ASSUME SessionsAreOwned, UNCHANGED accounts, sessions' \subseteq sessions,
           \A s \in sessions', o \in operators : o.id = s.operator_id =>
               \E p \in operators' : p.id = o.id
    PROVE  SessionsAreOwned'
BY DEF SessionsAreOwned, accounts

\* Of the calls of the service and the CLI only StartSession adds a session, and
\* none takes an operator away.
LEMMA OnlyStartAddsSessions ==
    ASSUME Next, \A r \in Requests : ~Start(r)
    PROVE  operators \subseteq operators' /\ sessions' \subseteq sessions
<1>. USE DEF tables
<1>1. ASSUME NEW r \in Requests, Handle(r), ~Start(r)
      PROVE  operators \subseteq operators' /\ sessions' \subseteq sessions
  BY <1>1 DEF Handle, CheckOwner, Redeem, RedeemSetupToken, RecordRedeemed, RecordDone, Record,
              LookUp, RecordStarted, Authenticate, Report, Revoke, RevokeSession, RecordEnded,
              Reject, RecordUnauthenticated, Respond
<1>2. ASSUME NEW r \in Requests, Arrive(r)
      PROVE  UNCHANGED <<operators, sessions>>
  BY <1>2 DEF Arrive, TurnAway, HandleSetup, HandleSignIn, HandleWithCookie, Receive
<1>3. ASSUME NEW i \in Issuers, Run(i)
      PROVE  UNCHANGED <<operators, sessions>>
  BY <1>3 DEF Run, Draw, Issue, IssueSetupToken, RecordIssued, RecordUnauthenticated, PrintToken, Fail
<1>. QED
  BY <1>1, <1>2, <1>3 DEF Next, Restart, Tick

\* A started session is in the generation its id has then, and no other session
\* has its token (the primary key of sessions).
LEMMA StartedIsOwned ==
    ASSUME TypeOK, SessionsAreOwned, RememberAccount, UNCHANGED generation,
           NEW r \in Requests, Start(r)
    PROVE  SessionsAreOwned'
<1>. USE DEF tables
<1>1. UNCHANGED operators
  BY DEF Start, StartSession
<1>2. CASE UNCHANGED sessions
  <2>1. \A t \in Tokens : startedIn'[t] = startedIn[t]
    BY <1>2 DEF RememberAccount
  <2>2. startedIn' \in [Tokens -> Nat]
    BY <2>1 DEF RememberAccount, SessionsAreOwned
  <2>. QED
    BY <1>1, <1>2, <2>1, <2>2 DEF SessionsAreOwned
<1>3. ASSUME sessions' # sessions
      PROVE  SessionsAreOwned'
  <2>. DEFINE e == now + SessionLifetime
  <2>1. PICK t \in Tokens, o \in who[r] :
          /\ \E p \in operators : p.id = o.id
          /\ \A s \in sessions : s.token_hash # HashToken(t)
          /\ sessions' = sessions \cup
               {[token_hash |-> HashToken(t), operator_id |-> o.id, expires_at |-> e]}
    BY <1>3 DEF Start, StartSession
  <2>. DEFINE row == [token_hash |-> HashToken(t), operator_id |-> o.id, expires_at |-> e]
  <2>2. row.token_hash = HashToken(t) /\ row.operator_id = o.id
    OBVIOUS
  <2>3. o.id \in Ids /\ generation[o.id] \in Nat
    BY DEF TypeOK, OperatorRow, SessionsAreOwned
  <2>. HIDE DEF row
  <2>4. sessions' = sessions \cup {row} /\ sessions' \ sessions = {row}
    BY <2>1, <2>2 DEF row
  <2>5. \A u \in Tokens : startedIn'[u] = IF u = t THEN generation[o.id] ELSE startedIn[u]
    <3>. TAKE u \in Tokens
    <3>. DEFINE inserted == {s \in sessions' \ sessions : s.token_hash = HashToken(u)}
    <3>1. startedIn'[u] = IF inserted = {} THEN startedIn[u]
                          ELSE generation[(CHOOSE s \in inserted : TRUE).operator_id]
      BY DEF RememberAccount
    <3>2. CASE u = t
      <4>1. inserted = {row}
        BY <2>2, <2>4, <3>2
      <4>. QED
        BY <2>2, <3>1, <3>2, <4>1
    <3>3. CASE u # t
      <4>1. HashToken(u) # HashToken(t)
        BY <3>3 DEF HashToken
      <4>2. inserted = {}
        BY <2>2, <2>4, <4>1
      <4>. QED
        BY <3>1, <3>3, <4>2
    <3>. QED
      BY <3>2, <3>3
  <2>6. startedIn' \in [Tokens -> Nat]
    BY <2>3, <2>5 DEF RememberAccount, SessionsAreOwned
  <2>7. ASSUME NEW u \in Tokens, NEW s \in sessions', s.token_hash = HashToken(u)
        PROVE  startedIn'[u] = generation'[s.operator_id]
    <3>1. CASE s = row
      <4>1. u = t
        BY <2>2, <2>7, <3>1 DEF HashToken
      <4>. QED
        BY <2>2, <2>5, <3>1, <4>1
    <3>2. CASE s \in sessions
      <4>1. u # t
        BY <2>1, <2>7, <3>2
      <4>. QED
        BY <2>5, <2>7, <3>2, <4>1 DEF SessionsAreOwned
    <3>. QED
      BY <2>4, <3>1, <3>2
  <2>8. \A s \in sessions' : \E p \in operators' : p.id = s.operator_id
    BY <1>1, <2>1, <2>2, <2>4 DEF SessionsAreOwned
  <2>. QED
    BY <2>6, <2>7, <2>8 DEF SessionsAreOwned
<1>. QED
  BY <1>2, <1>3

\* No session is inherited by the next operator with the id of a removed one,
\* whatever is removed, invited and signed in at the same time: the foreign keys
\* of sessions, for any number of removals.
THEOREM SessionsAreNotInheritedAlways == ManagedSpec => []SessionsAreNotInherited
<1>1. ManagedInit => TypeOK /\ SessionsAreOwned
  BY ManagedInitTypeOK DEF ManagedInit, Init, StoreInit, OwnedInit, ManagementInit, SessionsAreOwned
<1>2. ASSUME TypeOK, SessionsAreOwned, [ManagedNext]_allvars
      PROVE  TypeOK' /\ SessionsAreOwned'
  <2>. USE DEF tables
  <2>1. CASE UNCHANGED allvars
    <3>1. TypeOK'
      BY <1>2, <2>1, NextTypeOK DEF allvars
    <3>. QED
      BY <1>2, <2>1, <3>1 DEF allvars, vars, accounts, SessionsAreOwned
  <2>2. CASE Next /\ RememberAccount /\ UNCHANGED <<managed, generation>>
    <3>1. TypeOK'
      BY <1>2, <2>2, NextTypeOK
    <3>2. ASSUME NEW r \in Requests, Start(r)
          PROVE  SessionsAreOwned'
      BY <1>2, <2>2, <3>2, StartedIsOwned
    <3>3. CASE \A r \in Requests : ~Start(r)
      <4>1. operators \subseteq operators' /\ sessions' \subseteq sessions
        BY <2>2, <3>3, OnlyStartAddsSessions
      <4>2. \A t \in Tokens : startedIn'[t] = startedIn[t]
        BY <2>2, <4>1 DEF RememberAccount
      <4>3. startedIn' = startedIn
        BY <1>2, <2>2, <4>2 DEF RememberAccount, SessionsAreOwned
      <4>4. UNCHANGED accounts
        BY <2>2, <4>3 DEF accounts
      <4>5. \A s \in sessions', o \in operators : o.id = s.operator_id =>
              \E p \in operators' : p.id = o.id
        BY <4>1
      <4>. QED
        BY <1>2, <3>1, <4>1, <4>4, <4>5, FewerSessionsAreOwned
    <3>. QED
      BY <3>1, <3>2, <3>3
  <2>3. CASE Manage
    <3>0. TypeOK' /\ UNCHANGED accounts
      BY <1>2, <2>3, ManageLeavesOwners DEF Manage
    <3>1. ASSUME NEW email, NEW hash, NEW id, CreateOperator(email, hash, id)
          PROVE  SessionsAreOwned'
      BY <1>2, <3>0, <3>1, FewerSessionsAreOwned DEF CreateOperator
    <3>2. ASSUME NEW id, NEW hash, SetPassword(id, hash)
          PROVE  SessionsAreOwned'
      <4>1. \A o \in operators : o.id # id => o \in operators'
        BY <3>2 DEF SetPassword
      <4>. QED
        BY <1>2, <3>0, <3>2, <4>1, FewerSessionsAreOwned DEF SetPassword
    <3>3. ASSUME \/ \E id \in Ids : RevokeOperatorSessions(id)
                 \/ DropExpiredSessions \/ DropExpiredSetupTokens
          PROVE  SessionsAreOwned'
      BY <1>2, <3>0, <3>3, FewerSessionsAreOwned
      DEF RevokeOperatorSessions, DropExpiredSessions, DropExpiredSetupTokens
    <3>. QED
      BY <2>3, <3>0, <3>1, <3>2, <3>3 DEF Manage
  <2>4. ASSUME NEW c \in Removals, Remove(c) \/ AskAfterwards(c)
        PROVE  TypeOK' /\ SessionsAreOwned'
    <3>0. TypeOK'
      BY <1>2, <2>4, ManageLeavesOwners
    <3>1. ASSUME NEW id \in Ids, DeleteOperator(id), UNCHANGED startedIn,
                 generation' = [generation EXCEPT ![id] = @ + 1]
          PROVE  SessionsAreOwned'
      <4>1. \A o \in operators : o.id # id => o \in operators'
        BY <3>1 DEF DeleteOperator
      <4>2. sessions' = {s \in sessions : s.operator_id # id}
        BY <3>1 DEF DeleteOperator
      <4>3. \A s \in sessions : s.operator_id \in Ids
        BY <1>2 DEF TypeOK, StoreTypeOK, SessionRow
      <4>4. generation' \in [Ids -> Nat] /\ \A i \in Ids \ {id} : generation'[i] = generation[i]
        BY <1>2, <3>1 DEF SessionsAreOwned
      <4>. QED
        BY <1>2, <3>1, <4>1, <4>2, <4>3, <4>4 DEF SessionsAreOwned
    <3>2. ASSUME UNCHANGED <<operators, sessions, accounts>>
          PROVE  SessionsAreOwned'
      BY <1>2, <3>2, FewerSessionsAreOwned
    <3>. QED
      BY <2>4, <3>0, <3>1, <3>2 DEF Remove, AskAfterwards, vars, accounts
  <2>. QED
    BY <1>2, <2>1, <2>2, <2>3, <2>4 DEF ManagedNext
<1>3. SessionsAreOwned => SessionsAreNotInherited
  BY DEF SessionsAreOwned, SessionsAreNotInherited
<1>. QED
  BY <1>1, <1>2, <1>3, PTL DEF ManagedSpec
=============================================================================
