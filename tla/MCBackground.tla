---------------------------- MODULE MCBackground ----------------------------
(***************************************************************************)
(* What goes on behind a request: the registry of uploaded media and the   *)
(* job that cleans it (Media), the mailing of newsletter issues            *)
(* (Newsletter), and the session that a browser renews (SessionToken).     *)
(* The three are checked side by side in one run: an initial state chooses *)
(* one, and only that one takes steps.                                     *)
(***************************************************************************)
EXTENDS Media, Newsletter, SessionToken

VARIABLE part

\* Two requests list the same two photos in opposite orders.
BothWays == [t \in {"proof", "other"} |-> IF t = "proof" THEN <<1, 2>> ELSE <<2, 1>>]

backgroundVars == <<part, mediaVars, newsletterVars, vars>>

BackgroundInit ==
  /\ part \in {"media", "newsletter", "session"}
  /\ MediaInit /\ NewsletterInit /\ Init
  /\ part # "newsletter" => configured

BackgroundNext ==
  \/ part = "media" /\ MediaNext /\ UNCHANGED <<part, newsletterVars, vars>>
  \/ part = "newsletter" /\ NewsletterNext /\ UNCHANGED <<part, mediaVars, vars>>
  \/ part = "session" /\ Next /\ UNCHANGED <<part, mediaVars, newsletterVars>>

\* Nothing that progress is asked of is enabled in the parts that rest.
BackgroundSpec ==
  /\ BackgroundInit /\ [][BackgroundNext]_backgroundVars
  /\ MediaProgress /\ NewsletterProgress /\ TokenProgress
=============================================================================
