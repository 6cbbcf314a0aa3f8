--------------------------- MODULE MCAudioRetimer ---------------------------
(* TLC instance of AudioRetimer: the unit is 10 ms. *)
EXTENDS AudioRetimer

MCPlayOffsets == {-30, -12, -4, 3, 10, 17, 24, 31, 38}
=============================================================================
