-------------------------- MODULE MCCrewWorkflow ---------------------------
(* Small instances of the ledger with crew passes for TLC. *)
EXTENDS CrewWorkflow, TLC

\* Ids are interchangeable, and so are passes.
Symmetry ==
  Permutations(Items) \cup Permutations(Submissions) \cup
  Permutations(Sessions) \cup Permutations(Crew)

\* Two passes in one session, or one pass and two sessions.
OneOfEach ==
  \/ Cardinality({p \in Crew : grant[p] # "none"}) <= 1
  \/ Cardinality({s \in Sessions : sessStatus[s] # "none"}) <= 1
=============================================================================
