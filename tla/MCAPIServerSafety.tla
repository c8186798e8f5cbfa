-------------------------- MODULE MCAPIServerSafety --------------------------
\* Instances of APIServerSafety for TLC.
EXTENDS APIServerSafety

AllFaults == {"outage", "deletion", "call"}

=============================================================================
