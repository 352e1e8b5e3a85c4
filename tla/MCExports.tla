------------------------------- MODULE MCExports -------------------------------
(* Exports with the bounds of the runs. *)
EXTENDS Exports

MCTables == <<"trips", "feed_info">>
MCTroubles == [archive |-> 2, glides |-> 1, alerts |-> 2, manager |-> 1]
=============================================================================
