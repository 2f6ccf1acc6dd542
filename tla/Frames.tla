------------------------------- MODULE Frames -------------------------------
(***************************************************************************)
(* The clock frames both time reels order (protobufs/clock.go and the      *)
(* ClockFrame message).  A frame is an opaque value.  Its selector is the  *)
(* Poseidon hash of its output, so two different frames have different     *)
(* selectors and a frame stands for its own selector: ParentSelector[f] is *)
(* the frame whose selector f names as its parent.                         *)
(***************************************************************************)
EXTENDS Naturals

CONSTANTS
    Frame,            \* every clock frame that can exist
    Genesis,          \* the frame createGenesisFrame builds
    NoFrame,          \* "not found": a nil frame
    MaxFrame,         \* bound: the largest frame number
    FrameNumber,      \* ClockFrame.FrameNumber
    ParentSelector    \* ClockFrame.ParentSelector

ASSUME MaxFrameAssumption == MaxFrame \in Nat

ASSUME FrameAssumption ==
    /\ NoFrame \notin Frame \cup Nat
    /\ FrameNumber \in [Frame -> 0..MaxFrame]
    /\ ParentSelector \in [Frame -> Frame \cup {NoFrame}]

ASSUME GenesisAssumption ==
    /\ Genesis \in Frame
    /\ FrameNumber[Genesis] = 0

\* Frame numbers a store or a buffer can be asked for: one past the last.
Number == 0..(MaxFrame + 1)

\* GetSelector: the hash of a frame's output identifies the frame.
GetSelector(f) == f

\* The comparison of a frame's parent selector with the selector of p.
IsChild(p, f) == ParentSelector[f] = GetSelector(p)
=============================================================================
