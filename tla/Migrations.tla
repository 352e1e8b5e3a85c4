------------------------------ MODULE Migrations ------------------------------
(***************************************************************************)
(* The Alembic migrations of the two databases.                            *)
(*                                                                         *)
(* When the performance manager and ingestion start, each upgrades its     *)
(* own database to the head of the chain of revisions of its environment,  *)
(* all missing revisions in one transaction (migrations/env.py).  Some     *)
(* revisions reach out of their transaction: they read or write the other  *)
(* database over a connection of their own, or objects on S3.              *)
(*                                                                         *)
(* A schema gives each object its shape; a revision is a sequence of       *)
(* statements.  A table stands for its indices, except for the one that a  *)
(* revision adds.  A derived column of vehicle_events has as its shape the *)
(* rule its values were computed by.                                       *)
(***************************************************************************)
EXTENDS Integers, FiniteSets, SequencesExt

CONSTANTS
    Paths,      \* realtime paths in metadata_log
    Recent,     \* those of March 5th 2024 and later
    Rerun,      \* those created in the night of April 3rd 2024
    MaxFaults   \* bound: crashes and failed uploads

ASSUME PathAssumption == Rerun \subseteq Recent /\ Recent \subseteq Paths

VARIABLES
    env,        \* the environment
    rpm, md,    \* what is committed in the two databases
    rpmTx, mdTx,\* what their migrations have done so far
    rpmPc, mdPc,\* step of the two containers
    admin,      \* step of seed_metadata --clear-static
    glides,     \* column names of the Glides object: none, old, new
    longIds,    \* trip ids of more than 128 characters are stored
    faults, unrenamed, cleared  \* observers

vars == <<env, rpm, md, rpmTx, mdTx, rpmPc, mdPc, admin, glides, longIds,
          faults, unrenamed, cleared>>

----------------------------------------------------------------------------
(* Schemas and statements *)

IdTables == {"static_stop_times", "static_trips", "static_route_patterns",
             "temp_event_compare", "vehicle_trips"}
PlainTables == {"static_calendar", "static_calendar_dates",
                "static_directions", "static_feed_info", "static_routes",
                "static_stops", "vehicle_events"}
Columns == {"canonical_stop_sequence", "sync_stop_sequence",
            "dwell_time_seconds"}
Routines == {"update_modified_columns", "insert_feed_info",
             "red_is_ashmont_branch", "red_is_braintree_branch",
             "insert_static_trips_branch_trunk", "rt_red_is_braintree_branch",
             "rt_red_is_ashmont_branch", "update_rt_branch_trunk_id"}
Triggers == {"update_vehicle_events_modified", "update_vehicle_trips_modified",
             "insert_into_feed_info", "static_trips_create_branch_trunk",
             "rt_trips_update_branch_trunk"}
ServiceViews == {"service_id_by_date_and_route", "static_service_id_lookup"}
EventView == "opmi_all_rt_fields_joined"
Index4 == "ix_static_trips_composite_4"

Objects == IdTables \cup PlainTables \cup Columns \cup Routines \cup Triggers
           \cup ServiceViews \cup {EventView, Index4, "metadata_log"}

Empty == [o \in Objects |-> "absent"]
Has(db, o) == db[o] # "absent"

\* What an object refers to.
Needs == [o \in Objects |->
    CASE o = "vehicle_trips" -> {"static_feed_info"}
      [] o = Index4 -> {"static_trips"}
      [] o \in Columns -> {"vehicle_events"}
      [] o = "update_vehicle_events_modified" ->
           {"vehicle_events", "update_modified_columns"}
      [] o = "update_vehicle_trips_modified" ->
           {"vehicle_trips", "update_modified_columns"}
      [] o = "insert_into_feed_info" -> {"static_feed_info", "insert_feed_info"}
      [] o = "static_trips_create_branch_trunk" ->
           {"static_trips", "insert_static_trips_branch_trunk"}
      [] o = "rt_trips_update_branch_trunk" ->
           {"vehicle_trips", "update_rt_branch_trunk_id"}
      [] o \in ServiceViews ->
           {"static_calendar", "static_calendar_dates", "static_feed_info",
            "static_trips"}
      [] o = EventView -> {"vehicle_events", "vehicle_trips"}
      [] OTHER -> {}]

\* What goes when a table goes.
Owned == [o \in Objects |->
    IF o \in Routines THEN {}
    ELSE {p \in Triggers \cup Columns \cup {Index4} : o \in Needs[p]}]

\* What is in the way of a drop.
Users == [o \in Objects |-> {p \in Objects \ Owned[o] : o \in Needs[p]}]

Create(o, shape) == [do |-> "create", of |-> o, as |-> shape]
Replace(o, shape) == [do |-> "replace", of |-> o, as |-> shape]
Alter(o, shape) == [do |-> "alter", of |-> o, as |-> shape]
Drop(o) == [do |-> "drop", of |-> o, as |-> "absent"]
DropIfExists(o) == [do |-> "dropIfExists", of |-> o, as |-> "absent"]
ForEach(op(_), names) == [i \in DOMAIN names |-> op(names[i])]

\* PostgreSQL refuses a statement that would leave a dangling reference, a
\* change of a column that a view reads, or a value too long for its column.
Possible(db, s, long) ==
    /\ s.do = "create" => ~Has(db, s.of)
    /\ s.do \in {"create", "replace"} => \A o \in Needs[s.of] : Has(db, o)
    /\ s.do \in {"alter", "drop"} => Has(db, s.of)
    /\ s.do \in {"drop", "dropIfExists"} =>
         \A o \in Users[s.of] : ~Has(db, o)
    /\ s.do = "alter" =>
         /\ s.of \in Needs[EventView] => ~Has(db, EventView)
         /\ s.as = "narrow" => ~long

After(db, s) ==
    LET changed == IF s.as = "absent" THEN {s.of} \cup Owned[s.of] ELSE {s.of}
    IN [o \in Objects |-> IF o \in changed THEN s.as ELSE db[o]]

Broken == <<>>

\* The statements one after the other; the first failure ends them.
Run(db, statements, long) ==
    LET run[i \in 0..Len(statements)] ==
            IF i = 0 THEN db
            ELSE LET before == run[i - 1]
                 IN IF before = Broken \/ ~Possible(before, statements[i], long)
                    THEN Broken ELSE After(before, statements[i])
    IN run[Len(statements)]

----------------------------------------------------------------------------
(* The revisions of the rail database: what they do inside and, for three  *)
(* of them, what they do outside of the transaction                        *)

Revision(up, down, also) == [up |-> up, down |-> down, also |-> also]

PlainTable(t) == Create(t, "plain")

FeedTables ==
    ForEach(PlainTable, <<"static_calendar", "static_calendar_dates",
                          "static_directions", "static_feed_info",
                          "static_routes">>)

TripTables(width) ==
    <<Create("static_stop_times", width), PlainTable("static_stops"),
      Create("static_trips", width), Create("static_route_patterns", width)>>

\* The values of the derived columns are those of the release of that time.
EventTables(width, canonical, sync) ==
    <<Create("temp_event_compare", width), PlainTable("vehicle_events"),
      Create("canonical_stop_sequence", canonical),
      Create("sync_stop_sequence", sync), Create("dwell_time_seconds", "full"),
      Create("vehicle_trips", width)>>

Routine(f) == Replace(f, "function")
Trigger(t) == Create(t, "trigger")

RoutinesAndTriggers ==
    <<Routine("update_modified_columns"),
      Trigger("update_vehicle_events_modified"),
      Trigger("update_vehicle_trips_modified"),
      Routine("insert_feed_info"), Trigger("insert_into_feed_info"),
      Routine("red_is_ashmont_branch"), Routine("red_is_braintree_branch"),
      Routine("insert_static_trips_branch_trunk"),
      Trigger("static_trips_create_branch_trunk"),
      Routine("rt_red_is_braintree_branch"),
      Routine("rt_red_is_ashmont_branch"),
      Routine("update_rt_branch_trunk_id"),
      Trigger("rt_trips_update_branch_trunk")>>

\* past: dates up to today; future: dates up to the end of the feed.
Views(span) ==
    <<Replace("service_id_by_date_and_route", span),
      Replace("static_service_id_lookup", "view"), Replace(EventView, "view")>>

\* The functions with a branch in their name are dropped without their
\* arguments: nothing matches, they stay.
ObjectDrops ==
    ForEach(DropIfExists,
            <<EventView, "static_service_id_lookup",
              "service_id_by_date_and_route", "rt_trips_update_branch_trunk",
              "update_rt_branch_trunk_id", "static_trips_create_branch_trunk",
              "insert_static_trips_branch_trunk", "insert_into_feed_info",
              "insert_feed_info", "update_vehicle_events_modified",
              "update_vehicle_trips_modified", "update_modified_columns">>)

TableDrops ==
    ForEach(Drop,
            <<"vehicle_trips", "vehicle_events", "temp_event_compare",
              "static_route_patterns", "static_trips", "static_stops",
              "static_stop_times", "static_routes", "static_feed_info",
              "static_directions", "static_calendar_dates",
              "static_calendar">>)

LegacyTable == <<Create("metadata_log", "legacy")>>
LegacyDrop == <<Drop("metadata_log")>>

(* 5d9a7ee21ae5, once per environment *)
ProdFeedTables == FeedTables
ProdTripTables == TripTables("wide") \o <<Create(Index4, "index")>>
ProdEventTables == EventTables("wide", "typicality", "none")
ProdObjects == RoutinesAndTriggers \o Views("future")
ProdDrops == ObjectDrops \o <<Drop(Index4)>> \o TableDrops
ProdInitial ==
    Revision(ProdFeedTables \o ProdTripTables \o ProdEventTables
             \o ProdObjects, ProdDrops, "")

StagingFeedTables == LegacyTable \o FeedTables
StagingTripTables == TripTables("narrow")
StagingEventTables == EventTables("narrow", "schedule", "branch")
StagingObjects == RoutinesAndTriggers \o Views("past")
StagingDrops == ObjectDrops \o TableDrops \o LegacyDrop
StagingInitial ==
    Revision(StagingFeedTables \o StagingTripTables \o StagingEventTables
             \o StagingObjects, StagingDrops, "")

DevFeedTables == StagingFeedTables
DevTripTables == StagingTripTables
DevEventTables == StagingEventTables
DevObjects == StagingObjects
DevDrops == StagingDrops
DevInitial ==
    Revision(DevFeedTables \o DevTripTables \o DevEventTables \o DevObjects,
             DevDrops, "")

(* 1b53fd278b10: the view is in the way of its columns. *)
SetWidth(width) ==
    LET Resize(t) == Alter(t, width)
    IN <<DropIfExists(EventView)>> \o ForEach(Resize,
           <<"static_route_patterns", "static_stop_times", "static_trips",
             "temp_event_compare", "vehicle_trips">>)
       \o <<Replace(EventView, "view")>>

FixTripIdLength == Revision(SetWidth("wide"), SetWidth("narrow"), "")
DevFixTripIdLength == FixTripIdLength

(* ae6c6e4b2df5: the downgrade keeps the view. *)
ExtendServiceIdView ==
    Revision(<<DropIfExists("service_id_by_date_and_route"),
               Replace("service_id_by_date_and_route", "future"),
               Create(Index4, "index"),
               Alter("canonical_stop_sequence", "rownumber")>>,
             <<Drop(Index4)>>, "")
DevExtendServiceIdView == ExtendServiceIdView

(* 45dedc21086e *)
CanonStopSeq ==
    Revision(<<Alter("canonical_stop_sequence", "typicality")>>, <<>>, "")
DevCanonStopSeq == CanonStopSeq

(* 96187da84955: waits until the rows have been copied. *)
RemoveMetadata == Revision(LegacyDrop, LegacyTable, "copied")
DevRemoveMetadata == RemoveMetadata

(* e20a4f3f8c03: recent events are deleted, their paths reset. *)
FixNullConsist == Revision(<<>>, <<>>, "reprocess")

(* f09e853d5672 *)
UpdateProdStopSync ==
    Revision(<<Alter("sync_stop_sequence", "branch")>>, <<>>, "")

(* 2dfbde5ec151 *)
ProdSyncStopTrunk ==
    Revision(<<Alter("sync_stop_sequence", "trunk")>>, <<>>, "")
StagingSyncStopTrunk == ProdSyncStopTrunk
DevSyncStopTrunk == ProdSyncStopTrunk

(* 896dedd8a4db *)
ProdDwellTime == Revision(<<Alter("dwell_time_seconds", "simple")>>, <<>>, "")
StagingDwellTime == ProdDwellTime
DevDwellTime == ProdDwellTime

Revisions ==
    [prod |-> <<ProdInitial, UpdateProdStopSync, ProdSyncStopTrunk,
                ProdDwellTime>>,
     staging |-> <<StagingInitial, FixTripIdLength, ExtendServiceIdView,
                   CanonStopSeq, RemoveMetadata, FixNullConsist,
                   StagingSyncStopTrunk, StagingDwellTime>>,
     dev |-> <<DevInitial, DevFixTripIdLength, DevExtendServiceIdView,
               DevCanonStopSeq, DevRemoveMetadata, DevSyncStopTrunk,
               DevDwellTime>>]

(* The revisions of the metadata database: 07903947aabe, cce8dfee767a, *)
(* 26db393ea854                                                        *)
ProdMetadata == <<"copy", "rerun", "rename">>
StagingMetadata == <<"copy", "rename">>
DevMetadata == <<"copy", "rename">>
MetadataRevisions ==
    [prod |-> ProdMetadata, staging |-> StagingMetadata, dev |-> DevMetadata]

Envs == DOMAIN Revisions
RpmHead == Len(Revisions[env])
MdHead == Len(MetadataRevisions[env])

\* What rail_performance_manager_schema.py and the queries count on.
HeadSchema ==
    [o \in Objects |->
        CASE o \in IdTables -> "wide"
          [] o \in PlainTables -> "plain"
          [] o = "canonical_stop_sequence" -> "typicality"
          [] o = "sync_stop_sequence" -> "trunk"
          [] o = "dwell_time_seconds" -> "simple"
          [] o \in Routines -> "function"
          [] o \in Triggers -> "trigger"
          [] o = "service_id_by_date_and_route" -> "future"
          [] o \in {"static_service_id_lookup", EventView} -> "view"
          [] o = Index4 -> "index"
          [] o = "metadata_log" -> "absent"]

Ups(e, r) == FlattenSeq([v \in 1..r |-> Revisions[e][v].up])
Downs(e, r) == FlattenSeq([v \in 1..r |-> Revisions[e][r + 1 - v].down])

\* What a downgrade from the head to the base leaves behind.
Leftovers(e) ==
    LET head == Run(Empty, Ups(e, Len(Revisions[e])), FALSE)
        base == Run(head, Downs(e, Len(Revisions[e])), FALSE)
    IN {o \in Objects : Has(base, o)}

\* The schema after r revisions from an empty database or from leftovers.
SchemaAfter ==
    [e \in Envs |-> [left \in {{}, Leftovers(e)} |->
        [r \in 0..Len(Revisions[e]) |->
            Run([o \in Objects |-> IF o \in left THEN "function" ELSE "absent"],
                Ups(e, r), FALSE)]]]

\* The schema after all downgrades from there.
BaseAfter ==
    [e \in Envs |-> [left \in {{}, Leftovers(e)} |->
        [r \in 0..Len(Revisions[e]) |-> [long \in BOOLEAN |->
            Run(SchemaAfter[e][left][r], Downs(e, r), long)]]]]

\* What the proofs need of these sequences of statements: a formula without
\* parameters, whose value TLC computes.  Every chain ends in the schema of
\* the application, from an empty database and from leftovers; these are
\* routines, and the same after each downgrade; and the legacy table is there
\* from the first revision to the one that waits for the copy.
ASSUME SchemaAssumption ==
    \A e \in Envs : \A left \in {{}, Leftovers(e)} :
        /\ left \subseteq Routines
        /\ SchemaAfter[e][left][Len(Revisions[e])] = HeadSchema
        /\ \A r \in 0..Len(Revisions[e]) :
             /\ Has(SchemaAfter[e][left][r], "metadata_log") <=>
                  r > 0 /\ \E v \in (r + 1)..Len(Revisions[e]) :
                              Revisions[e][v].also = "copied"
             /\ \A long \in BOOLEAN :
                  LET base == BaseAfter[e][left][r][long]
                  IN base # Broken =>
                       {o \in Objects : Has(base, o)} \in {{}, Leftovers(e)}

----------------------------------------------------------------------------
Statuses == {"absent", "new", "done"}
NoRows == [p \in Paths |-> "absent"]
NoTx == [rev |-> -1]

Schema(db) == SchemaAfter[env][db.left][db.rev]
Legacy(db) == Has(Schema(db), "metadata_log")
PathsIn(log) == {p \in Paths : log[p] # "absent"}

\* The databases as an earlier release left them; a path is processed in
\* the log that this release used, and then its events are there.
Init ==
    /\ env \in Envs
    /\ \E r \in 0..Len(Revisions[env]), v \in 0..Len(MetadataRevisions[env]),
          log \in [Paths -> Statuses] :
         LET legacy == Has(SchemaAfter[env][{}][r], "metadata_log")
         IN /\ v = 0 => (r = 0 \/ legacy \/ env = "prod")
            /\ r = 0 \/ (v = 0 /\ ~legacy) =>
                 \A p \in Paths : log[p] # "done"
            /\ v = 0 /\ ~legacy => log = NoRows
            /\ rpm = [rev |-> r, left |-> {},
                      log |-> IF legacy THEN log ELSE NoRows,
                      events |-> {p \in Paths : log[p] = "done"}]
            /\ md = [rev |-> v, log |-> IF v > 0 THEN log ELSE NoRows]
            /\ longIds \in IF Schema(rpm)["static_trips"] = "wide"
                          THEN BOOLEAN ELSE {FALSE}
            /\ glides \in {"none", IF v = Len(MetadataRevisions[env])
                                   THEN "new" ELSE "old"}
    /\ rpmTx = NoTx /\ mdTx = NoTx
    /\ rpmPc = "down" /\ mdPc = "down" /\ admin = "no"
    /\ faults = 0 /\ unrenamed = FALSE /\ cleared = FALSE

Fault ==
    /\ faults < MaxFaults
    /\ faults' = faults + 1

unchangedRpm == UNCHANGED <<rpm, rpmTx, rpmPc>>
unchangedMd == UNCHANGED <<md, mdTx, mdPc, glides, unrenamed>>

----------------------------------------------------------------------------
(* The rail database *)

\* Mutant: a database with a revision is taken for a current one.
StartUpgraded ==
    /\ rpmPc = "down" /\ admin = "no"
    /\ rpmPc' = IF rpm.rev = 0 THEN "upgrade" ELSE "running"
    /\ rpmTx' = IF rpm.rev = 0 THEN rpm ELSE NoTx
    /\ UNCHANGED <<env, rpm, admin, longIds, faults, cleared>>
    /\ unchangedMd

\* alembic_upgrade_to_head at the start of the container.
StartRpm ==
    /\ rpmPc = "down" /\ admin = "no"
    /\ rpmPc' = "upgrade" /\ rpmTx' = rpm
    /\ UNCHANGED <<env, rpm, admin, longIds, faults, cleared>>
    /\ unchangedMd

\* Mutant: the rows are compared the other way round.
CopiedBackwards == PathsIn(md.log) \subseteq PathsIn(rpm.log)

\* The table is read over another connection: it must be committed there,
\* and every path of it in the other database, else the loop goes on.
Copied ==
    /\ Legacy(rpm) /\ md.rev > 0
    /\ PathsIn(rpm.log) \subseteq PathsIn(md.log)

\* Mutant: the rows that are not reset are lost.
ResetOnly(log, S) == [p \in S |-> IF log[p] = "done" THEN "new" ELSE log[p]]

\* Processed rows become unprocessed.
Reset(log, S) == [p \in Paths |-> IF p \in S /\ log[p] = "done" THEN "new"
                                  ELSE log[p]]

\* Mutant: the paths are left as they are.
ForgetRecent(log) == log

\* The paths whose events the revision deletes; the connection to the other
\* database commits at once.
ResetRecent(log) == Reset(log, Recent)

UpgradeRpm ==
    /\ rpmPc = "upgrade" /\ rpmTx.rev < RpmHead
    /\ LET revision == Revisions[env][rpmTx.rev + 1]
           upgraded == [rpmTx EXCEPT !.rev = @ + 1]
       IN /\ revision.also = "copied" => Copied
          /\ Schema(upgraded) # Broken
          /\ rpmTx' = [upgraded EXCEPT
                !.log = IF Legacy(upgraded) THEN @ ELSE NoRows,
                !.events = IF revision.also = "reprocess"
                           THEN @ \ Recent ELSE @]
          /\ md' = IF revision.also = "reprocess"
                   THEN [md EXCEPT !.log = ResetRecent(@)] ELSE md
    /\ UNCHANGED <<env, rpm, mdTx, rpmPc, mdPc, admin, glides, longIds, faults,
                   unrenamed, cleared>>

CommitRpm ==
    /\ rpmPc = "upgrade" /\ rpmTx.rev = RpmHead
    /\ rpm' = rpmTx /\ rpmTx' = NoTx
    /\ \/ admin = "no" /\ rpmPc' = "running" /\ admin' = admin
       \/ admin = "rpm" /\ rpmPc' = "down" /\ admin' = "md"
    /\ UNCHANGED <<env, longIds, faults, cleared>>
    /\ unchangedMd

\* PostgreSQL rolls the transaction back.
CrashRpm ==
    /\ rpmPc # "down" /\ admin = "no"
    /\ Fault
    /\ rpmPc' = "down" /\ rpmTx' = NoTx
    /\ UNCHANGED <<env, rpm, admin, longIds, cleared>>
    /\ unchangedMd

\* A round of the running manager processes a path; long ids may come in.
Process(p) ==
    /\ rpmPc = "running" /\ mdPc = "running"
    /\ md.log[p] = "new"
    /\ md' = [md EXCEPT !.log[p] = "done"]
    /\ rpm' = [rpm EXCEPT !.events = @ \cup {p}]
    /\ longIds' \in {longIds, TRUE}
    /\ UNCHANGED <<env, rpmTx, mdTx, rpmPc, mdPc, admin, glides, faults,
                   unrenamed, cleared>>

----------------------------------------------------------------------------
(* The metadata database *)

StartMd ==
    /\ mdPc = "down" /\ admin = "no"
    /\ mdPc' = "upgrade" /\ mdTx' = [rev |-> md.rev, log |-> md.log]
    /\ UNCHANGED <<env, md, admin, glides, longIds, faults, unrenamed, cleared>>
    /\ unchangedRpm

\* Mutant: only processed paths are copied.
CopyProcessed ==
    [p \in Paths |-> IF rpm.log[p] = "done" THEN "done" ELSE "absent"]

\* The rows of the legacy table; without one the new table starts empty.
CopyLegacy == rpm.log

NextMd(tag) == /\ mdPc = "upgrade" /\ mdTx.rev < MdHead
               /\ MetadataRevisions[env][mdTx.rev + 1] = tag

UpgradeMd ==
    /\ \/ /\ NextMd("copy")
          /\ mdTx' = [rev |-> mdTx.rev + 1, log |-> CopyLegacy]
       \/ /\ NextMd("rerun")
          /\ mdTx' = [rev |-> mdTx.rev + 1, log |-> Reset(mdTx.log, Rerun)]
    /\ UNCHANGED <<env, md, mdPc, admin, glides, longIds, faults, unrenamed,
                   cleared>>
    /\ unchangedRpm

\* The object is fetched, renamed and uploaded; a failed download counts as
\* a missing object and the result of the upload is ignored.
RenameGlides ==
    /\ NextMd("rename")
    /\ mdTx' = [mdTx EXCEPT !.rev = @ + 1]
    /\ \/ /\ glides' = IF glides = "old" THEN "new" ELSE glides
          /\ UNCHANGED <<faults, unrenamed>>
       \/ glides = "old" /\ Fault /\ unrenamed' = TRUE /\ UNCHANGED glides
    /\ UNCHANGED <<env, md, mdPc, admin, longIds, cleared>>
    /\ unchangedRpm

\* Rows that the other side reset meanwhile were not part of the update.
CommitMd ==
    /\ mdPc = "upgrade" /\ mdTx.rev = MdHead
    /\ md' = [rev |-> mdTx.rev,
              log |-> IF md.rev = 0 \/ admin = "md" THEN mdTx.log
                      ELSE [p \in Paths |-> IF mdTx.log[p] = "new"
                                            THEN "new" ELSE md.log[p]]]
    /\ mdTx' = NoTx
    /\ \/ admin = "no" /\ mdPc' = "running" /\ admin' = admin
       \/ admin = "md" /\ mdPc' = "down" /\ admin' = "no"
    /\ UNCHANGED <<env, glides, longIds, faults, unrenamed, cleared>>
    /\ unchangedRpm

CrashMd ==
    /\ mdPc # "down" /\ admin = "no"
    /\ Fault
    /\ mdPc' = "down" /\ mdTx' = NoTx
    /\ UNCHANGED <<env, md, admin, glides, longIds, unrenamed, cleared>>
    /\ unchangedRpm

\* Ingestion announces an object.
Announce(p) ==
    /\ mdPc = "running" /\ md.log[p] = "absent"
    /\ md' = [md EXCEPT !.log[p] = "new"]
    /\ UNCHANGED <<env, mdTx, mdPc, admin, glides, longIds, faults, unrenamed,
                   cleared>>
    /\ unchangedRpm

----------------------------------------------------------------------------
(* seed_metadata --clear-static, while the containers are down *)

\* All downgrades, newest first, in a transaction of their own; an error is
\* logged and the rail database left as it was.
ClearRpm ==
    /\ admin = "no" /\ rpmPc = "down" /\ mdPc = "down"
    /\ ~cleared
    /\ LET base == BaseAfter[env][rpm.left][rpm.rev][longIds]
       IN IF base = Broken
          THEN admin' = "md" /\ UNCHANGED <<rpm, rpmTx, rpmPc, longIds>>
          ELSE /\ rpm' = [rev |-> 0, left |-> {o \in Objects : Has(base, o)},
                          log |-> NoRows, events |-> {}]
               /\ rpmTx' = rpm' /\ rpmPc' = "upgrade" /\ admin' = "rpm"
               /\ longIds' = FALSE
    /\ cleared' = TRUE
    /\ UNCHANGED <<env, faults>>
    /\ unchangedMd

ClearMd ==
    /\ admin = "md" /\ mdPc = "down"
    /\ md' = [rev |-> 0, log |-> NoRows]
    /\ mdTx' = md' /\ mdPc' = "upgrade"
    /\ UNCHANGED <<env, admin, glides, longIds, faults, unrenamed, cleared>>
    /\ unchangedRpm

----------------------------------------------------------------------------
RpmSteps == StartRpm \/ UpgradeRpm \/ CommitRpm
MdSteps == StartMd \/ UpgradeMd \/ RenameGlides \/ CommitMd

Next ==
    \/ RpmSteps \/ CrashRpm \/ MdSteps \/ CrashMd \/ ClearRpm \/ ClearMd
    \/ \E p \in Paths : Process(p) \/ Announce(p)

Spec == Init /\ [][Next]_vars

\* ECS starts a container that ended; a migration runs until it ends.
FairSpec == Spec /\ WF_vars(RpmSteps) /\ WF_vars(MdSteps) /\ WF_vars(ClearMd)

(***************************************************************************)
(* Properties                                                              *)
(***************************************************************************)

\* Type invariant of the databases.
TypeOK ==
    /\ env \in Envs
    /\ rpm.rev \in 0..RpmHead /\ rpm.left \subseteq Routines
    /\ rpm.log \in [Paths -> Statuses] /\ rpm.events \subseteq Paths
    /\ PathsIn(rpm.log) # {} => Legacy(rpm)
    /\ md.rev \in 0..MdHead /\ md.log \in [Paths -> Statuses]
    /\ rpmTx.rev \in -1..RpmHead /\ mdTx.rev \in -1..MdHead
    /\ glides \in {"none", "old", "new"}
    /\ {rpmPc, mdPc} \subseteq {"down", "upgrade", "running"}

\* In every environment, from every revision, after crashes and after a
\* clean slate, the application runs over the schema and the column rules it
\* was written for, and over Glides objects with the new column names unless
\* the upload of one was lost.
HeadIsCurrent ==
    /\ rpmPc = "running" => Schema(rpm) = HeadSchema
    /\ mdPc = "running" /\ ~unrenamed => glides # "old"

\* The legacy log is dropped for good only when each of its paths is in the
\* metadata database, in whatever order the containers start and crash
\* (96187da84955): no path becomes unknown to both databases.
LegacyPathsAreKept ==
    [][~cleared' => PathsIn(rpm.log) \cup PathsIn(md.log)
                      \subseteq PathsIn(rpm'.log) \cup PathsIn(md'.log)]_vars

\* While the manager runs, a path that counts as processed has its events in
\* the rail database, although e20a4f3f8c03 deletes events in one
\* transaction and resets paths in another, and cce8dfee767a resets them
\* while the manager may be running.
ProcessedHasEvents ==
    rpmPc = "running" /\ admin = "no" =>
        \A p \in Paths : md.log[p] = "done" => p \in rpm.events

\* A new database with a legacy table: the revision that drops it looks for
\* it over another connection, where the table does not exist before the
\* transaction that waits is committed.
Blind == env # "prod" /\ rpm.rev = 0

\* The upgrade of the rail database ends, the wait for the copy by the other
\* container included, unless the table it waits for was created in the
\* same transaction (96187da84955:45).
UpgradeEnds ==
    rpmPc = "upgrade" /\ ~Blind ~> rpmPc = "running" \/ Blind
=============================================================================
