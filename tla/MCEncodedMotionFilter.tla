----------------------- MODULE MCEncodedMotionFilter -----------------------
(* Durations of a few frames, so that events start, end, cool down and     *)
(* start again within the bound.                                           *)
EXTENDS EncodedMotionFilter
=============================================================================
