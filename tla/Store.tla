------------------------------- MODULE Store -------------------------------
(***************************************************************************)
(* dokkup's Own State: the SQLite database that the service and the CLI    *)
(* open at the same time (internal/store).  A table is a set of rows, and  *)
(* a call of the store is an action on the tables that takes the call's    *)
(* arguments and the error it answers with.  A call is one action because  *)
(* it is one statement or one transaction, and SQLite runs writers one at  *)
(* a time; RemoveOperator, which asks a second question afterwards, is two *)
(* (see Managed).  Every call may also answer Err and change nothing: a    *)
(* full disk, a lock not obtained within busyTimeout, a cancelled request. *)
(*                                                                         *)
(* Addresses are the normalised ones: every caller passes an address       *)
(* through strings.ToLower(strings.TrimSpace(_)) before it is compared or  *)
(* stored (normaliseEmail), so spellings of one address are one value.     *)
(***************************************************************************)
EXTENDS Naturals, FiniteSets

CONSTANTS
    Emails,      \* the normalised addresses people sign in with
    Passwords,   \* the passwords they type
    Tokens,      \* what secret.NewToken can draw; the bound on draws
    Setups,      \* the requests the service receives, by route
    SignIns,
    SignOuts,
    Reports,     \* GET /api/session
    Issuers,     \* the runs of `dokkup setup-token` (and the installer's own)
    MaxId        \* bound on operators.id

VARIABLES
    now,            \* the host's clock, in ticks
    operators,      \* the four tables
    sessions,
    setup_tokens,
    audit_entries

tables == <<operators, sessions, setup_tokens, audit_entries>>

Requests == Setups \cup SignIns \cup SignOuts \cup Reports
Callers == Requests \cup Issuers     \* everything that writes audit entries

ASSUME MaxIdAssumption == MaxId \in Nat \ {0}
ASSUME CallersAssumption ==
    /\ Setups \cap (SignIns \cup SignOuts \cup Reports) = {}
    /\ SignIns \cap (SignOuts \cup Reports) = {}
    /\ SignOuts \cap Reports = {}
    /\ Requests \cap Issuers = {}

----------------------------------------------------------------------------
(* internal/secret: a digest is compared with another digest and never     *)
(* read back, so all that is kept of one is what it is the digest of.      *)
HashPassword(p) == <<"argon2id", p>>
VerifyPassword(encoded, p) == encoded = HashPassword(p)
HashToken(t) == <<"sha256", t>>

Ids == 1 .. MaxId
NoOne == 0          \* a NULL operator_id, which reads back as zero
NoEmail == ""       \* what an unattributed entry carries

Actions == {"setup-token.issued", "setup-token.redeemed", "setup-token.rejected",
            "session.started", "session.ended", "session.rejected"}

(* The columns of the four tables.  `by` is not a column: it names the call *)
(* that wrote the entry, so that properties can tell entries apart.         *)
OperatorRow == [id : Ids, email : Emails,
                password_hash : {HashPassword(p) : p \in Passwords},
                is_owner : BOOLEAN]
SessionRow == [token_hash : {HashToken(t) : t \in Tokens},
               operator_id : Ids, expires_at : Nat]
SetupTokenRow == [token_hash : {HashToken(t) : t \in Tokens}, expires_at : Nat]
AuditRow == [operator_id : Ids \cup {NoOne}, operator_email : Emails \cup {NoEmail},
             action : Actions, target : Emails \cup {NoEmail}, by : Callers]

StoreTypeOK ==
    /\ now \in Nat
    /\ operators \subseteq OperatorRow
    /\ sessions \subseteq SessionRow
    /\ setup_tokens \subseteq SetupTokenRow
    /\ audit_entries \subseteq AuditRow

StoreInit ==
    /\ now = 0
    /\ operators = {}
    /\ sessions = {}
    /\ setup_tokens = {}
    /\ audit_entries = {}

\* A database that has its Owner and nobody else.
OwnedInit ==
    /\ now = 0
    /\ \E email \in Emails, p \in Passwords :
         operators = {[id |-> 1, email |-> email, password_hash |-> HashPassword(p), is_owner |-> TRUE]}
    /\ sessions = {}
    /\ setup_tokens = {}
    /\ audit_entries = {}

----------------------------------------------------------------------------
(* The constraints of the schema (migrate.go).                             *)

HasOwner == \E o \in operators : o.is_owner
EmailTaken(e) == \E o \in operators : o.email = e

\* operators.id is INTEGER PRIMARY KEY without AUTOINCREMENT: SQLite gives
\* the largest id in the table plus one, so the largest id is given again
\* after its row was deleted.
NextId(n) ==
    /\ \A o \in operators : o.id < n
    /\ n = 1 \/ \E o \in operators : o.id + 1 = n

----------------------------------------------------------------------------
(* Setup tokens (setuptoken.go).                                           *)

\* Mutation: the INSERT without its WHERE NOT EXISTS.
IssueUnchecked(t, expires, err) ==
    /\ expires > now /\ err = "nil"
    /\ setup_tokens' = {[token_hash |-> HashToken(t), expires_at |-> expires]}
    /\ UNCHANGED <<operators, sessions, audit_entries>>

\* One transaction: DELETE every token, then INSERT ... WHERE NOT EXISTS an
\* owner.  Inserting nothing rolls the DELETE back as well.
IssueSetupToken(t, expires, err) ==
    /\ \/ err = "Err" /\ UNCHANGED setup_tokens
       \/ /\ expires > now
          /\ IF HasOwner
             THEN err = "ErrOwnerExists" /\ UNCHANGED setup_tokens
             ELSE /\ err = "nil"
                  /\ setup_tokens' = {[token_hash |-> HashToken(t), expires_at |-> expires]}
    /\ UNCHANGED <<operators, sessions, audit_entries>>

\* The rows the DELETE of a redemption matches.
Spent(t) == {row \in setup_tokens : row.token_hash = HashToken(t) /\ row.expires_at > now}

\* How the INSERT of an owner is refused.  When both unique indexes refuse
\* it, which of the two SQLite names is not decided here.
OwnerRefusals(email) ==
    (IF HasOwner THEN {"ErrOwnerExists"} ELSE {})
        \cup (IF EmailTaken(email) THEN {"ErrExists"} ELSE {})

RedeemErrors(t, email) ==
    CASE Spent(t) = {} -> {"ErrNotFound"}
      [] Spent(t) # {} /\ OwnerRefusals(email) # {} -> OwnerRefusals(email)
      [] OTHER -> {"nil"}

\* Mutation: the token is spent before, not inside, the transaction.
RedeemWithoutRollback(t, email, hash, row, err) ==
    /\ err \in RedeemErrors(t, email) \cup {"Err"}
    /\ setup_tokens' = setup_tokens \ Spent(t)
    /\ IF err = "nil"
       THEN /\ NextId(row.id)
            /\ row = [id |-> row.id, email |-> email, password_hash |-> hash, is_owner |-> TRUE]
            /\ operators' = operators \cup {row}
       ELSE UNCHANGED operators
    /\ UNCHANGED <<sessions, audit_entries>>

\* One transaction: the DELETE that checks the token, then the INSERT of the
\* owner; any refusal rolls both back.  `row` is the operator it returns.
RedeemSetupToken(t, email, hash, row, err) ==
    /\ err \in RedeemErrors(t, email) \cup {"Err"}
    /\ IF err = "nil"
       THEN /\ NextId(row.id)
            /\ row = [id |-> row.id, email |-> email, password_hash |-> hash, is_owner |-> TRUE]
            /\ operators' = operators \cup {row}
            /\ setup_tokens' = setup_tokens \ Spent(t)
       ELSE UNCHANGED <<operators, setup_tokens>>
    /\ UNCHANGED <<sessions, audit_entries>>

----------------------------------------------------------------------------
(* Sessions (session.go).                                                  *)

\* One INSERT, refused by the foreign key (ErrNotFound) and by the primary
\* key (ErrExists); the handler answers every error alike.
StartSession(id, t, expires, err) ==
    /\ \/ err = "Err" /\ UNCHANGED sessions
       \/ /\ expires > now
          /\ \/ /\ \A o \in operators : o.id # id
                /\ err = "ErrNotFound"
                /\ UNCHANGED sessions
             \/ /\ \E o \in operators : o.id = id
                /\ IF \E s \in sessions : s.token_hash = HashToken(t)
                   THEN err = "ErrExists" /\ UNCHANGED sessions
                   ELSE /\ err = "nil"
                        /\ sessions' = sessions \cup
                             {[token_hash |-> HashToken(t), operator_id |-> id, expires_at |-> expires]}
    /\ UNCHANGED <<operators, setup_tokens, audit_entries>>

\* The join of sessions and operators: the operators this token answers for.
SessionOperator(t) ==
    {o \in operators : \E s \in sessions :
        /\ s.token_hash = HashToken(t)
        /\ s.operator_id = o.id
        /\ s.expires_at > now}

RevokeSession(t, err) ==
    LET ended == {s \in sessions : s.token_hash = HashToken(t)} IN
    /\ \/ err = "Err" /\ UNCHANGED sessions
       \/ /\ err = IF ended = {} THEN "ErrNotFound" ELSE "nil"
          /\ sessions' = sessions \ ended
    /\ UNCHANGED <<operators, setup_tokens, audit_entries>>

----------------------------------------------------------------------------
(* The audit trail (audit.go).                                             *)

\* INSERT ... SELECT id, email FROM operators WHERE id: the address is copied
\* by the statement that inserts, and an operator who is gone inserts nothing.
Record(id, action, target, c, err) ==
    LET written == {[operator_id |-> o.id, operator_email |-> o.email,
                     action |-> action, target |-> target, by |-> c] :
                        o \in {p \in operators : p.id = id}}
    IN /\ \/ err = "Err" /\ UNCHANGED audit_entries
          \/ /\ err = IF written = {} THEN "ErrNotFound" ELSE "nil"
             /\ audit_entries' = audit_entries \cup written
       /\ UNCHANGED <<operators, sessions, setup_tokens>>

RecordUnauthenticated(action, target, c, err) ==
    /\ \/ err = "Err" /\ UNCHANGED audit_entries
       \/ /\ err = "nil"
          /\ audit_entries' = audit_entries \cup
               {[operator_id |-> NoOne, operator_email |-> NoEmail,
                 action |-> action, target |-> target, by |-> c]}
    /\ UNCHANGED <<operators, sessions, setup_tokens>>
=============================================================================
