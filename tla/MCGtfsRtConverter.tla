-------------------------- MODULE MCGtfsRtConverter --------------------------
(***************************************************************************)
(* A small feed for TLC.  Files 1 and 3 belong to day 1, so day 1 is begun *)
(* first, is yielded in the middle once both are read (two rows exceed     *)
(* YieldRows) and may also get a late file after day 2 is written; file 2  *)
(* belongs to day 2.  With DaysToKeep = 1 the copy of day 1 is removed     *)
(* when day 2 has one, and a late file 3 needs the object again.           *)
(***************************************************************************)
EXTENDS GtfsRtConverter

MCDayOf == [f \in Files |-> IF f \in {2, 4} THEN 2 ELSE 1]
=============================================================================
