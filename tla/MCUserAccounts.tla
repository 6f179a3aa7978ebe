---------------------------- MODULE MCUserAccounts ----------------------------
(***************************************************************************)
(* Symmetries of UserAccounts for TLC.                                     *)
(***************************************************************************)
EXTENDS UserAccounts, TLC

Symmetry ==
    Permutations(User) \cup Permutations(Email) \cup Permutations(Username)
        \cup Permutations(Session)
===============================================================================
