---------------------------- MODULE MCOsSignals ----------------------------
EXTENDS OsSignals
=============================================================================
