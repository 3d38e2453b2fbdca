----------------------------- MODULE MCRateClient -----------------------------
EXTENDS RateClient
=============================================================================
