------------------------------- MODULE MCSmp -------------------------------
EXTENDS Smp
=============================================================================
