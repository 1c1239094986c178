----------------------------- MODULE MCControl -----------------------------
EXTENDS Control
=============================================================================
