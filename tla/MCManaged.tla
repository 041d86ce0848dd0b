----------------------------- MODULE MCManaged -----------------------------
(***************************************************************************)
(* Managed for TLC, in two kinds of scenes (see MCAccess): the management  *)
(* calls and the housekeeping beside a host being claimed, and beside a    *)
(* sign-in on a host with an Owner or without one.                         *)
(***************************************************************************)
EXTENDS Managed, MCAccess

MCManagedInit ==
    /\ \/ StoreInit /\ Scene(Setups, Issuers)
       \/ (StoreInit \/ OwnedInit) /\ Scene(SignIns, {})
    /\ ManagementInit

MCManagedSpec == MCManagedInit /\ [][ManagedNext]_allvars

ManagedSymmetry ==
    Permutations(Emails) \cup Permutations(Passwords) \cup Permutations(Tokens)
        \cup Permutations(Removals)
=============================================================================
