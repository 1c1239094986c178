------------------------------- MODULE MCCilk -------------------------------
EXTENDS Cilk
=============================================================================
