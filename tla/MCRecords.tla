----------------------------- MODULE MCRecords -----------------------------
(***************************************************************************)
(* What a platoon keeps: saved items, approved history and links (Library),*)
(* and the group in Authentik and the files that go with the platoon       *)
(* itself (Workspaces).  The two are checked side by side in one run: an   *)
(* initial state chooses one, and only that one takes steps.               *)
(***************************************************************************)
EXTENDS Library, Workspaces

VARIABLE part

\* Rows r1 and r3 are of a past inventory.  "lin" and "withX" share a LIN,
\* "withX" and "onlyY" have NSNs of their own, "plain" has neither.
MCSessionOf == [r \in Rows |-> IF r = "r2" THEN "now" ELSE "past"]
MCLinesOf == [r \in Rows |-> CASE r = "r1" -> {"lin"}
                               [] r = "r2" -> {"onlyY"}
                               [] r = "r3" -> {"plain", "withX"}]
Shot == [found |-> TRUE, photo |-> TRUE]
MCReportsOf ==
  [r \in Rows |-> IF r = "r1" THEN {[found |-> FALSE, photo |-> FALSE]} ELSE {Shot}]
MCLineLins == [l \in Lines |-> IF l \in {"lin", "withX"} THEN <<"A">> ELSE <<>>]
MCLineNsns == [l \in Lines |-> CASE l = "withX" -> <<"X">> [] l = "onlyY" -> <<"Y">>
                                 [] OTHER -> <<>>]
MCWording == [l \in Lines |-> [t \in Lines |-> IF l = t THEN 460 ELSE 0]]
MCCatalogue == {[title |-> "plain", lin |-> {"A"}, nsn |-> {"Y"}]}

recordsVars == <<part, libraryVars, workspaceVars>>

RecordsInit == part \in {"library", "workspaces"} /\ LibraryInit /\ WorkspacesInit

RecordsNext ==
  \/ part = "library" /\ LibraryNext /\ UNCHANGED <<part, workspaceVars>>
  \/ part = "workspaces" /\ WorkspacesNext /\ UNCHANGED <<part, libraryVars>>

RecordsSpec == RecordsInit /\ [][RecordsNext]_recordsVars
=============================================================================
