------------------------------- MODULE MCTokens -------------------------------
(* Tokens for TLC.                                                          *)
EXTENDS Tokens, TLC

Symmetry == Permutations(Users) \union Permutations(Jtis) \union Permutations(Sessions)
=============================================================================
