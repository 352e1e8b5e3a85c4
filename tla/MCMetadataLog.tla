---------------------------- MODULE MCMetadataLog ----------------------------
(***************************************************************************)
(* Two days: day 1 with vehicle positions and trip updates, day 2 with     *)
(* vehicle positions.  PathCount = 1 leaves day 2 for a later round as     *)
(* long as day 1 has an unprocessed path.                                  *)
(***************************************************************************)
EXTENDS MetadataLog

CONSTANTS vp1, tu1, vp2

MCTimeOf == [p \in Paths |-> IF p = vp2 THEN 2 ELSE 1]
=============================================================================
