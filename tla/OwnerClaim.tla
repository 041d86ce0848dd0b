----------------------------- MODULE OwnerClaim -----------------------------
(***************************************************************************)
(* What docs/adr/0007 promises about owning a host, with no database, no   *)
(* requests and no processes: a host is unclaimed or has one owner for     *)
(* good, and the only way from the one to the other is the one setup token *)
(* that is outstanding, spent before it expires.  Nothing but a newer      *)
(* token or the claim itself takes a token away that has not expired.      *)
(*                                                                         *)
(* Access implements this (AccessProofs!AccessImplementsOwnerClaim).       *)
(***************************************************************************)
EXTENDS Naturals

VARIABLES
    now,     \* the clock the expiry of a token is compared with
    token,   \* {} or the one outstanding token
    owner    \* {} or the one owner

vars == <<now, token, owner>>

\* Nothing is outstanding on a host nobody owns yet, or somebody already does.
Init == now = 0 /\ token = {} /\ (owner = {} \/ \E o \in owner : owner = {o})

\* A reissue is a revocation: whatever was outstanding is replaced.
Issue ==
    /\ owner = {}
    /\ \E t \in token' : token' = {t} /\ t.expires_at > now
    /\ UNCHANGED <<now, owner>>

Claim ==
    /\ owner = {}
    /\ \E t \in token : t.expires_at > now
    /\ token' = {}
    /\ \E o \in owner' : owner' = {o}
    /\ UNCHANGED now

Pass ==
    /\ now' = now + 1
    /\ UNCHANGED <<token, owner>>

\* Housekeeping may forget a token that can no longer be spent.
Lapse ==
    /\ \A t \in token : t.expires_at <= now
    /\ token' = {}
    /\ UNCHANGED <<now, owner>>

Next == Issue \/ Claim \/ Pass \/ Lapse

Spec == Init /\ [][Next]_vars
=============================================================================
