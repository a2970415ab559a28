------------------------------ MODULE MCCanary ------------------------------
EXTENDS Canary
=============================================================================
