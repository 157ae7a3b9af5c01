---------------------------- MODULE RowLifecycle ----------------------------
(***************************************************************************)
(* What the inventory promises about a packet row, without saying how:     *)
(* a row is open, under review, or resolved; a resolved row is reopened    *)
(* only by new proof, which puts it under review first; a session is       *)
(* sealed only when none of its rows is under review, and while it is      *)
(* sealed its rows stay what they are; one step moves one row.             *)
(***************************************************************************)

CONSTANTS
  Sessions,
  Items,
  None

VARIABLES
  phase,    \* of each row
  home,     \* the session of each row, None when it does not exist
  sealed    \* the sessions that are closed

lifecycleVars == <<phase, home, sealed>>

Phase == {"absent", "open", "in_review", "resolved"}

Movable(i) == phase[i] # "absent" /\ home[i] \notin sealed

LifecycleInit ==
  /\ phase = [i \in Items |-> "absent"]
  /\ home = [i \in Items |-> None]
  /\ sealed = {}

Register(s, R) ==
  /\ \A i \in R : phase[i] = "absent"
  /\ phase' = [i \in Items |-> IF i \in R THEN "open" ELSE phase[i]]
  /\ home' = [i \in Items |-> IF i \in R THEN s ELSE home[i]]
  /\ UNCHANGED sealed

\* From any phase, a resolved row included.
Propose(i) ==
  /\ Movable(i)
  /\ phase' = [phase EXCEPT ![i] = "in_review"]
  /\ UNCHANGED <<home, sealed>>

SendBack(i) ==
  /\ Movable(i)
  /\ phase[i] = "in_review"
  /\ phase' = [phase EXCEPT ![i] = "open"]
  /\ UNCHANGED <<home, sealed>>

Settle(i) ==
  /\ Movable(i)
  /\ phase' = [phase EXCEPT ![i] = "resolved"]
  /\ UNCHANGED <<home, sealed>>

Seal(s) ==
  /\ \A i \in Items : home[i] = s => phase[i] # "in_review"
  /\ sealed' = sealed \cup {s}
  /\ UNCHANGED <<phase, home>>

Unseal(s) ==
  /\ sealed' = sealed \ {s}
  /\ UNCHANGED <<phase, home>>

Discard(s) ==
  /\ phase' = [i \in Items |-> IF home[i] = s THEN "absent" ELSE phase[i]]
  /\ home' = [i \in Items |-> IF home[i] = s THEN None ELSE home[i]]
  /\ sealed' = sealed \ {s}

LifecycleNext ==
  \/ \E s \in Sessions :
       \/ \E R \in SUBSET Items : Register(s, R)
       \/ Seal(s) \/ Unseal(s) \/ Discard(s)
  \/ \E i \in Items : Propose(i) \/ SendBack(i) \/ Settle(i)

LifecycleSpec == LifecycleInit /\ [][LifecycleNext]_lifecycleVars
=============================================================================
