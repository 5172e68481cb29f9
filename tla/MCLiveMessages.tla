---------------------------- MODULE MCLiveMessages ----------------------------
(***************************************************************************)
(* Instances of LiveMessages for TLC.  No action and no property tells the *)
(* rooms or the alerts apart: every alert asks for a chart, which may be   *)
(* sent or not, and the room of a row before its insert is never looked    *)
(* at.                                                                     *)
(***************************************************************************)
EXTENDS LiveMessages, TLC

CONSTANTS r1, r2, a, c

LiveSymmetry == Permutations({r1, r2} \cap Rooms) \cup Permutations({a, c} \cap Fps)
===============================================================================
