---------------------------- MODULE MCAccountFence ----------------------------
(* Small instances of AccountFence for TLC. *)
EXTENDS AccountFence, TLC

\* Tabs, accounts and block ids are interchangeable.
FenceSymmetry == Permutations(Tabs) \cup Permutations(Accounts) \cup Permutations(Blocks)
===============================================================================
