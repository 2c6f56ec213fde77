------------------------------- MODULE MCAccounts -------------------------------
(* Model-checking instances of Accounts.                                   *)
EXTENDS Accounts, TLC

\* Users are alike but for their rows; so are requests, and processes.
Symmetry == Permutations(Req) \cup Permutations(User) \cup Permutations(Proc)
=================================================================================
