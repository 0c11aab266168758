-------------------------- MODULE MCFrameAllocator --------------------------
EXTENDS FrameAllocator

\* A map that starts at address 0, with an unaligned region too small for a
\* frame, reserved entries before, between and after, and a last region whose
\* final frame ends exactly at the region's end.  Page size 4.
MCEntries ==
  << [type |-> "RESERVED", base |-> 40, length |-> 8],
     [type |-> "USABLE",   base |-> 0,  length |-> 9],
     [type |-> "USABLE",   base |-> 10, length |-> 3],
     [type |-> "RESERVED", base |-> 13, length |-> 4],
     [type |-> "USABLE",   base |-> 17, length |-> 11],
     [type |-> "RESERVED", base |-> 28, length |-> 4] >>
=============================================================================
