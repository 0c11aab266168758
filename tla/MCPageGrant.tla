---------------------------- MODULE MCPageGrant ----------------------------
EXTENDS PageGrant

CONSTANTS c1, c2, b1, b2

MCFramebuffer == <<b1, b2>>

\* Two calls by one core and one by the other: enough for one to use up the
\* memory, the other to panic, and the first to map the framebuffer after that.
MCSyscalls == [c \in Cores |-> IF c = c1 THEN 2 ELSE 1]
=============================================================================
