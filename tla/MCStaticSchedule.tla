--------------------------- MODULE MCStaticSchedule ---------------------------
(***************************************************************************)
(* Two schedules and two dates; the second schedule starts on the second   *)
(* date.  The first one has an empty calendar_dates, and feed_info is not  *)
(* the last file of a zip.                                                 *)
(***************************************************************************)
EXTENDS StaticSchedule

MCFeedStart == <<1, 2>>
MCFeedEnd == <<2, 2>>
MCPublished == <<1, 2>>
MCEmpty == <<{"CALENDAR_DATES"}, {}>>
MCZipOrder == <<"CALENDAR_DATES", "FEED_INFO", "STOP_TIMES", "TRIPS">>
===============================================================================
