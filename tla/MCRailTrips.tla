----------------------------- MODULE MCRailTrips -----------------------------
(***************************************************************************)
(* A scheduled trip from Ashmont and an added one from Braintree, which    *)
(* share the trunk from JFK to Park, in three objects, and two versions of  *)
(* the schedule.                                                           *)
(***************************************************************************)
EXTENDS RailTrips

MCTrips == {"a1", "x"}
MCStations == {"ash", "bra", "quincy", "jfk", "park"}
MCRouteOf == [t \in MCTrips |-> "Red"]
MCDirectionOf == [t \in MCTrips |-> 1]
MCFeedStartOf == [t \in MCTrips |-> IF t = "a1" THEN 10 ELSE 99]
MCSequenceOf ==
    [k \in MCTrips \X MCStations |->
        CASE k[2] \in {"ash", "bra"} -> 1 [] k[2] = "quincy" -> 2
          [] k[2] = "jfk" -> 3 [] k[2] = "park" -> 4]

Report(o, t, s, m, a, p) ==
    [object |-> o, trip |-> t, station |-> s, move |-> m, stop |-> a, tu |-> p]
MCReports ==
    {Report("o1", "a1", "ash", 99, 10, 99), Report("o1", "a1", "jfk", 12, 16, 99),
     Report("o1", "x", "jfk", 14, 15, 99), Report("o1", "x", "park", 99, 99, 19),
     Report("o2", "x", "bra", 99, 8, 99), Report("o2", "x", "park", 17, 18, 99),
     Report("o3", "a1", "park", 19, 22, 99)}

Static(t, d, m, ty, st) ==
    [trip |-> t, route |-> "Red", direction |-> d, start |-> m,
     typicality |-> ty, stops |-> st]
MCSchedule ==
    LET ashmont == <<"ash", "jfk", "park">>
        braintree == <<"bra", "quincy", "jfk", "park">>
        out == {Static("a0", 0, 30, 1, <<"park", "jfk", "ash">>),
                Static("b0", 0, 35, 1, <<"park", "jfk", "quincy", "bra">>)}
    IN <<out \cup {Static("a1", 1, 10, 1, ashmont), Static("b1", 1, 11, 1, braintree),
                   Static("b2", 1, 18, 5, braintree)},
         out \cup {Static("a3", 1, 12, 1, ashmont), Static("b3", 1, 9, 1, braintree),
                   Static("b4", 1, 16, 1, <<"quincy", "jfk", "park">>)}>>
MCFeed == <<[first |-> 1, last |-> 9], [first |-> 5, last |-> 12]>>

ASSUME NumbersAreUnique
=============================================================================
