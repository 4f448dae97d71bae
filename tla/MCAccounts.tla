----------------------------- MODULE MCAccounts -----------------------------
(* Accounts for TLC.                                                        *)
EXTENDS Accounts, TLC

Symmetry == Permutations(Codes) \union Permutations(Users) \union Permutations(Sessions)
=============================================================================
