-------------------------- MODULE MCSubmitPermits --------------------------
EXTENDS SubmitPermits
=============================================================================
