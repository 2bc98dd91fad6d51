---------------------------- MODULE MCHmiClient -----------------------------
EXTENDS HmiClient
=============================================================================
