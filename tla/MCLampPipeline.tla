---------------------------- MODULE MCLampPipeline ----------------------------
(***************************************************************************)
(* One day and two raw files.  With YieldRows = 1 the files make two       *)
(* uploads when they arrive far apart and one when they arrive together;   *)
(* a restart in between leaves the second one without a local copy.        *)
(***************************************************************************)
EXTENDS LampPipeline

MCDayOf == [f \in Files |-> 1]
=============================================================================
