------------------------------ MODULE MCAccess ------------------------------
(***************************************************************************)
(* Access for TLC, in three scenes: the claim, with two redemptions and    *)
(* two runs of `dokkup setup-token` racing each other; the report, read    *)
(* around a claim and a sign-in; and the sign-outs, two of them after a    *)
(* sign-in on a host that has its Owner.  What a scene leaves out has      *)
(* ended before it begins: a request turned away, a report lost to a       *)
(* restart, a CLI process killed before it drew a token.                   *)
(***************************************************************************)
EXTENDS Access, TLC

Scene(requests, issuers) ==
    /\ mode \in Modes
    /\ step = [r \in Requests |-> CASE r \in requests -> "unsent"
                                   [] r \in Reports \ requests -> "lost"
                                   [] OTHER -> "turnedAway"]
    /\ sent = [r \in Requests |-> Silence]
    /\ who = [r \in Requests |-> {}]
    /\ cookie = [r \in Requests |-> {}]
    /\ status = [r \in Requests |-> 0]
    /\ setupCompleted = [r \in Requests |-> FALSE]
    /\ logged = {}
    /\ issuer = [i \in Issuers |-> IF i \in issuers THEN "idle" ELSE "failed"]
    /\ minted = [i \in Issuers |-> {}]
    /\ expires = [i \in Issuers |-> 0]
    /\ drawn = {}

MCInit ==
    \/ StoreInit /\ Scene(Setups, Issuers)
    \/ StoreInit /\ \E s \in Setups, i \in Issuers : Scene({s} \cup SignIns \cup Reports, {i})
    \/ OwnedInit /\ Scene(SignIns \cup SignOuts, {})

MCSpec == MCInit /\ [][Next]_vars

\* What is interchangeable in every scene.
Symmetry ==
    Permutations(Setups) \cup Permutations(Issuers) \cup Permutations(SignOuts)
        \cup Permutations(Tokens) \cup Permutations(Emails)
=============================================================================
