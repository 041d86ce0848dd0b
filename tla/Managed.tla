------------------------------ MODULE Managed ------------------------------
(***************************************************************************)
(* Access, with the rest of the store's exported calls running beside it:  *)
(* the Owner's management of operators and the housekeeping                *)
(* (internal/store/operator.go, session.go, setuptoken.go).  No route and  *)
(* no command of this commit makes these calls yet; the store documents    *)
(* itself as safe for concurrent use, and the sign-in handler is already   *)
(* written for operators other than the Owner.                             *)
(*                                                                         *)
(* CreateOwner is left out: RedeemSetupToken is how owners are created.    *)
(***************************************************************************)
EXTENDS Access

CONSTANT Removals      \* the calls of RemoveOperator

VARIABLES
    removal,           \* where each call of RemoveOperator is
    removing,          \* the id it was given
    removed,           \* what it answered
    generation,        \* history: how often an operator with this id was removed
    startedIn          \* history: the generation a token's session was started in

managed == <<removal, removing, removed>>
accounts == <<generation, startedIn>>
allvars == <<vars, managed, accounts>>

----------------------------------------------------------------------------
\* CreateOperator; the operators_email index refuses an address in use.  The
\* store does not ask whether there is an Owner to have invited anybody.
CreateOperator(email, hash, id) ==
    /\ ~EmailTaken(email)
    /\ NextId(id)
    /\ operators' = operators \cup
         {[id |-> id, email |-> email, password_hash |-> hash, is_owner |-> FALSE]}
    /\ UNCHANGED <<sessions, setup_tokens, audit_entries>>

\* One transaction: the hash, and every session of the operator.
SetPassword(id, hash) ==
    /\ \E o \in operators : o.id = id
    /\ operators' = {IF o.id = id THEN [o EXCEPT !.password_hash = hash] ELSE o : o \in operators}
    /\ sessions' = {s \in sessions : s.operator_id # id}
    /\ UNCHANGED <<setup_tokens, audit_entries>>

RevokeOperatorSessions(id) ==
    /\ sessions' = {s \in sessions : s.operator_id # id}
    /\ UNCHANGED <<operators, setup_tokens, audit_entries>>

DropExpiredSessions ==
    /\ sessions' = {s \in sessions : s.expires_at > now}
    /\ UNCHANGED <<operators, setup_tokens, audit_entries>>

\* Mutation: a token in its last tick is dropped with the expired ones.
DropEarly ==
    /\ setup_tokens' = {t \in setup_tokens : t.expires_at > now + 1}
    /\ UNCHANGED <<operators, sessions, audit_entries>>

DropExpiredSetupTokens ==
    /\ setup_tokens' = {t \in setup_tokens : t.expires_at > now}
    /\ UNCHANGED <<operators, sessions, audit_entries>>

\* Mutation: foreign_keys is off on this connection.
DeleteWithoutForeignKeys(id) ==
    LET gone == {o \in operators : o.id = id /\ ~o.is_owner} IN
    /\ gone # {}
    /\ operators' = operators \ gone
    /\ UNCHANGED <<sessions, setup_tokens, audit_entries>>

\* Mutation: audit_entries declared ON DELETE CASCADE, as sessions is.
DeleteWithTrail(id) ==
    LET gone == {o \in operators : o.id = id /\ ~o.is_owner} IN
    /\ gone # {}
    /\ operators' = operators \ gone
    /\ sessions' = {s \in sessions : s.operator_id # id}
    /\ audit_entries' = {e \in audit_entries : e.operator_id # id}
    /\ UNCHANGED setup_tokens

\* DELETE FROM operators WHERE id = ? AND NOT is_owner, with what the foreign
\* keys do to the other tables: ON DELETE CASCADE and ON DELETE SET NULL.
DeleteOperator(id) ==
    LET gone == {o \in operators : o.id = id /\ ~o.is_owner} IN
    /\ gone # {}
    /\ operators' = operators \ gone
    /\ sessions' = {s \in sessions : s.operator_id # id}
    /\ audit_entries' = {IF e.operator_id = id THEN [e EXCEPT !.operator_id = NoOne] ELSE e :
                            e \in audit_entries}
    /\ UNCHANGED setup_tokens

----------------------------------------------------------------------------
Manage ==
    /\ \/ \E email \in Emails, p \in Passwords, id \in Ids :
            CreateOperator(email, HashPassword(p), id)
       \/ \E id \in Ids, p \in Passwords : SetPassword(id, HashPassword(p))
       \/ \E id \in Ids : RevokeOperatorSessions(id)
       \/ DropExpiredSessions
       \/ DropExpiredSetupTokens
    /\ UNCHANGED <<now, mode, request, cli, drawn, managed, accounts>>

\* RemoveOperator.  When the DELETE matched nothing, a second statement asks
\* why.
Remove(c) ==
    /\ removal[c] = "called"
    /\ \E id \in Ids :
         /\ removing' = [removing EXCEPT ![c] = id]
         /\ \/ /\ DeleteOperator(id)
               /\ removal' = [removal EXCEPT ![c] = "answered"]
               /\ removed' = [removed EXCEPT ![c] = "nil"]
               /\ generation' = [generation EXCEPT ![id] = @ + 1]
            \/ /\ \A o \in operators : o.id = id => o.is_owner
               /\ removal' = [removal EXCEPT ![c] = "ask"]
               /\ UNCHANGED <<tables, removed, generation>>
    /\ UNCHANGED <<now, mode, request, cli, drawn, startedIn>>

AskAfterwards(c) ==
    /\ removal[c] = "ask"
    /\ removal' = [removal EXCEPT ![c] = "answered"]
    /\ removed' = [removed EXCEPT ![c] =
           IF \E o \in operators : o.id = removing[c] THEN "ErrOwnerProtected" ELSE "ErrNotFound"]
    /\ UNCHANGED <<vars, removing, accounts>>

----------------------------------------------------------------------------
ManagementInit ==
    /\ removal = [c \in Removals |-> "called"]
    /\ removing = [c \in Removals |-> NoOne]
    /\ removed = [c \in Removals |-> "nil"]
    /\ generation = [id \in Ids |-> 0]
    /\ startedIn = [t \in Tokens |-> 0]

ManagedInit == Init /\ ManagementInit

\* A row inserted into sessions is for whoever has the id at that moment.
RememberAccount ==
    LET inserted(t) == {s \in sessions' \ sessions : s.token_hash = HashToken(t)} IN
    startedIn' = [t \in Tokens |->
        IF inserted(t) = {} THEN startedIn[t]
        ELSE generation[(CHOOSE s \in inserted(t) : TRUE).operator_id]]

ManagedNext ==
    \/ Next /\ RememberAccount /\ UNCHANGED <<managed, generation>>
    \/ Manage
    \/ \E c \in Removals : Remove(c) \/ AskAfterwards(c)

ManagedSpec == ManagedInit /\ [][ManagedNext]_allvars

----------------------------------------------------------------------------
(* Properties.                                                             *)

\* Nobody inherits a session.  SQLite gives the largest id again once its row is
\* deleted, so a row of sessions that outlived its operator would sign the
\* removed one's browser in as the next operator; ON DELETE CASCADE takes the
\* sessions with the row (RemoveOperator: "access cannot survive the account"),
\* and the foreign key refuses to insert one while nobody has the id.  A session
\* is that of the account it was inserted for.  Whether that is the account whose
\* password the sign-in verified is another matter: the handler keeps the id from
\* OperatorByEmail to StartSession, and nothing notices when it has changed hands.
SessionsAreNotInherited ==
    \A t \in Tokens, s \in sessions, o \in operators :
        s.token_hash = HashToken(t) /\ s.operator_id = o.id => startedIn[t] = generation[o.id]

\* An entry stays as it was written, whatever is done to operators: all that
\* ever changes is that the link to a removed operator becomes NULL.
TrailIsImmutable ==
    [][\A e \in audit_entries :
         e \in audit_entries' \/ [e EXCEPT !.operator_id = NoOne] \in audit_entries']_allvars

\* The same promise as in Access, with the housekeeping running as well.
ManagedClaimIsKept == [][Claim!Next]_(Claim!vars)
=============================================================================
