------------------------ MODULE MCInventoryWorkflow ------------------------
(* Small instances of the ledger for TLC. *)
EXTENDS InventoryWorkflow, TLC

\* Ids are interchangeable, and so are the users of one role.
Symmetry ==
  Permutations(Items) \cup Permutations(Submissions) \cup
  Permutations(Sessions) \cup Permutations(Contributors)
=============================================================================
