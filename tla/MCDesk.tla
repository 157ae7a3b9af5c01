------------------------------- MODULE MCDesk -------------------------------
(***************************************************************************)
(* The newsletter page (NewsletterDesk) without SMTP settings: every mail  *)
(* is skipped.  What becomes of the mails is a question of its own         *)
(* (MCBackground); the page only sees how the mailing ends.                *)
(***************************************************************************)
EXTENDS NewsletterDesk

UnconfiguredInit == DeskInit /\ ~configured
UnconfiguredSpec == UnconfiguredInit /\ [][DeskNext]_allVars /\ DeskProgress
=============================================================================
