--------------------------- MODULE MCProvisioning ---------------------------
EXTENDS Provisioning, TLC

\* No definition tells one job or one worker from another.
Ids == Permutations(Jobs) \cup Permutations(Workers)
=============================================================================
