------------------------------- MODULE MCReplay -------------------------------
(***************************************************************************)
(* Instances of Replay for TLC: a window of two seconds, raises of two and *)
(* one second ahead, and timestamps around the clock and the window's ends.*)
(***************************************************************************)
EXTENDS Replay

ItsOwn == [o \in Openings |-> o]
=============================================================================
