---------------------------- MODULE FrameSource ----------------------------
(***************************************************************************)
(* What the physical frame allocator promises its callers: every call      *)
(* returns a frame that nobody was given before, and a call is refused     *)
(* only when every frame of usable memory has been given out.  There is no *)
(* operation that returns a frame.  FrameAllocator implements this         *)
(* specification; PageGrant takes its frames from it.                      *)
(***************************************************************************)
EXTENDS Naturals, Sequences

CONSTANT Frames         \* the frames of usable memory

VARIABLES granted,      \* the frames given out, in order
          refused       \* has a call returned None?

sourceVars == <<granted, refused>>

Given == {granted[i] : i \in DOMAIN granted}

SourceInit ==
  /\ granted = <<>>
  /\ refused = FALSE

\* allocate_frame_raw returns Some(f).
GrantAgain(f) ==
  /\ f \in Frames
  /\ granted' = IF f \in Given THEN granted ELSE Append(granted, f)
  /\ refused' = refused

Grant(f) ==
  /\ f \in Frames \ Given
  /\ granted' = Append(granted, f)
  /\ refused' = refused

\* allocate_frame_raw returns None.
Refuse ==
  /\ Frames \subseteq Given
  /\ refused' = TRUE
  /\ granted' = granted

SourceNext == Refuse \/ \E f \in Frames : Grant(f)

SourceSpec == SourceInit /\ [][SourceNext]_sourceVars
============================================================================
