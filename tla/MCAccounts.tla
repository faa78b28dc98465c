----------------------------- MODULE MCAccounts -----------------------------
(* Small instance of Accounts for TLC.                                     *)
EXTENDS Accounts, TLC

Symmetric == Permutations(Users) \cup Permutations(Companies) \cup Permutations(Requests)
=============================================================================
