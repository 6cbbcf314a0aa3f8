---------------------------- MODULE MCStreamClock ----------------------------
(* TLC instance of StreamClock: the unit is a second. *)
EXTENDS StreamClock

MCLags == {-1, 2}
MCSkews == {-8, 2, 9}
=============================================================================
