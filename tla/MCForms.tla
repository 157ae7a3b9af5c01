------------------------------ MODULE MCForms ------------------------------
(***************************************************************************)
(* Three parts of the page that members fill in or press: the form that    *)
(* attaches photos to a proof (ProofForm), the list of people (PeopleDesk) *)
(* and the review queue (ReviewDesk).  They are checked side by side in    *)
(* one run: an initial state chooses one, and only that one takes steps.   *)
(***************************************************************************)
EXTENDS ProofForm, PeopleDesk, ReviewDesk, TLC

CONSTANTS ann, bob \* the members of the platoon

VARIABLE part

formsVars == <<part, proofFormVars, peopleVars, reviewDeskVars>>

\* One account is being set up when the list of people is opened.
SettingUp == [state |-> "active", job |-> "work"]
OneSettingUp == {(ann :> SettingUp) @@ (bob :> NoRow)}

FormsInit ==
  /\ part \in {"forms", "people", "reviews"}
  /\ ProofFormInit /\ PeopleInit /\ ReviewDeskInit
  /\ part # "reviews" => \A s \in Proofs : proof[s].state = "absent" /\ ~proof[s].hint

FormsNext ==
  \/ part = "forms" /\ ProofFormNext /\ UNCHANGED <<part, peopleVars, reviewDeskVars>>
  \/ part = "people" /\ PeopleNext /\ UNCHANGED <<part, proofFormVars, reviewDeskVars>>
  \/ part = "reviews" /\ ReviewDeskNext /\ UNCHANGED <<part, proofFormVars, peopleVars>>

FormsSpec == FormsInit /\ [][FormsNext]_formsVars

\* No definition tells one proof from another.
Alike == Permutations(Proofs)
=============================================================================
