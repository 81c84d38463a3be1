---------------------------- MODULE MCIngestionJobs ----------------------------
\* Small instances of IngestionJobs.
EXTENDS IngestionJobs

CONSTANTS s1, c1
=============================================================================
