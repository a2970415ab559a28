----------------------------- MODULE MCWorkload -----------------------------
EXTENDS Workload
=============================================================================
