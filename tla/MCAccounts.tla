------------------------------ MODULE MCAccounts ------------------------------
(* Accounts with interchangeable rows and requests.                           *)
EXTENDS Accounts, TLC

Symmetry == Permutations(User) \cup Permutations(Session)
            \cup Permutations(Token) \cup Permutations(Request)
=============================================================================
