--------------------------- MODULE MCVehicleEvents ---------------------------
(***************************************************************************)
(* Two events.  The vehicle positions of the first are spread over the     *)
(* objects of two days, as happens around midnight; each day reports a     *)
(* move and a stop, and the stop of day 1 may come late.  The second event *)
(* shares an object with the first and has predictions, the later of which *)
(* is the earlier time.                                                    *)
(***************************************************************************)
EXTENDS VehicleEvents, Sequences

CONSTANTS e1, e2, vp1, vp2, tu1

Report(e, t, p) == [event |-> e, time |-> t, path |-> p]

MCReports == << Report(e1, 1, vp1),    \* on its way
                Report(e1, 3, vp2),    \* on its way
                Report(e1, 2, vp1),    \* at the station
                Report(e1, 4, vp2),    \* at the station
                Report(e2, 2, vp2),    \* at the station
                Report(e2, 3, tu1),
                Report(e2, 2, tu1) >>

MCRecordCount == Len(MCReports)
MCEventOf == [r \in DOMAIN MCReports |-> MCReports[r].event]
MCTimeOf == [r \in DOMAIN MCReports |-> MCReports[r].time]
MCPathOf == [r \in DOMAIN MCReports |-> MCReports[r].path]
MCDayOf == [p \in Paths |-> IF p = vp2 THEN 2 ELSE 1]
=============================================================================
