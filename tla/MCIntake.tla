------------------------------ MODULE MCIntake ------------------------------
EXTENDS Intake

\* Enough to fill the queue and have one more refused.
Pdus == <<2, 1>>
=============================================================================
