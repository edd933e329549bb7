------------------------------ MODULE MCAccounts ------------------------------
(* Small instances of Accounts for TLC. *)
EXTENDS Accounts, TLC

\* Requests, addresses and raw tokens are interchangeable.
AccountsSymmetry == Permutations(Requests) \cup Permutations(Emails) \cup Permutations(LinkIds)
===============================================================================
