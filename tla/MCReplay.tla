------------------------------ MODULE MCReplay ------------------------------
(***************************************************************************)
(* Small instances of Replay: two tasks, the second of which builds on the *)
(* first, and processes that are interchangeable.                          *)
(***************************************************************************)
EXTENDS Replay, TLC

CONSTANTS p, q
\* Two changes under one command, or two commands and no change.
MCBounds == {[processes |-> 1, edits |-> 2], [processes |-> 2, edits |-> 0]}
MCTwo == {[processes |-> 2, edits |-> 0]}
Symmetric == Permutations(Procs)
=============================================================================
