----------------------------- MODULE MCIqWriter -----------------------------
(***************************************************************************)
(* An instance of IqWriter for TLC.  A block is named by the number of     *)
(* complex samples in it, 0 being the empty block of a callback without    *)
(* samples; blocks of different sizes make a change of order visible.      *)
(***************************************************************************)
EXTENDS IqWriter

MCSamples == [b \in Blocks |-> b]
=============================================================================
