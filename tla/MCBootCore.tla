----------------------------- MODULE MCBootCore -----------------------------
EXTENDS BootCore
=============================================================================
