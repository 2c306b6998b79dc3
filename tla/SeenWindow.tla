------------------------------ MODULE SeenWindow ------------------------------
(***************************************************************************)
(* What ChainTracker promises: a window of the last Size distinct block    *)
(* hashes, in the order in which they were first seen, and the highest     *)
(* block number among all blocks accepted since the last reset.            *)
(***************************************************************************)
EXTENDS Integers, Sequences

CONSTANTS
    Hash256,      \* block hashes
    Numbers,      \* block numbers
    Size          \* how many hashes the window remembers

VARIABLES
    window,       \* the hashes remembered, oldest first
    highest       \* the highest number accepted

Remembered == {window[i] : i \in 1 .. Len(window)}

Init == window = <<>> /\ highest = 0

\* A hash in the window is refused; any other enters it, and pushes out the
\* oldest one when the window is full.
Accept(h, n) ==
    /\ h \notin Remembered
    /\ window' = Append(IF Len(window) < Size THEN window ELSE Tail(window), h)
    /\ highest' = IF n > highest THEN n ELSE highest

Clear == window' = <<>> /\ highest' = 0

Next == Clear \/ \E h \in Hash256, n \in Numbers : Accept(h, n)

Spec == Init /\ [][Next]_<<window, highest>>
=============================================================================
