------------------------------ MODULE MCPlanScreen ------------------------------
(* Entries are interchangeable. *)
EXTENDS PlanScreen, TLC

EntrySymmetry == Permutations(EntryIds)
===============================================================================
