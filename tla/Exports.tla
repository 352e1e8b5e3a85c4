-------------------------------- MODULE Exports --------------------------------
(***************************************************************************)
(* The four components that publish files and share no state: the archive  *)
(* of schedules and the Glides files of the ingestion, the alerts and the  *)
(* vehicle events of the performance manager.  Init chooses one of them,   *)
(* and its steps alone are taken: the behaviours are those of the four     *)
(* specifications, one after the other.                                    *)
(***************************************************************************)
EXTENDS Integers, Sequences, FiniteSets

CONSTANTS
    Records, Tables, DaysPerYear, LastDay, MaxSchedules, Missing,  \* CompressGtfs
    Kinds, MaxRecords,                                        \* GlidesIngestion
    Objects, Alerts, ChunkSize, MaxVersion, NoFile,           \* AlertsExport
    LastDate, MaxRows, MaxRounds, MaxReleases, None,          \* ManagerExports
    MaxTroubles                    \* bounds: failures and crashes of each of them

VARIABLES job,
    \* CompressGtfs
    feed, compressStep, todo, table, folders, disk, bucket, sending,
    compressed, archived, spoiled,
    \* GlidesIngestion
    stream, horizon, iterator, last, glidesStep, records, kind, local, remote,
    unread, passed, lost,
    \* AlertsExport
    content, status, export, expected, alertsStep, match, unreadObjects, chunk,
    fresh, known, copy, newData, marked, blind, raced, cut,
    \* ManagerExports
    events, schedule, temp, rpmVersion, lampVersion, files, index, fast,
    parquet, source, newer, hyper, rounds, releases, behind, pending, late, overtaken,
    \* of the chosen component
    trouble

Archive == INSTANCE CompressGtfs WITH
    MaxTrouble <- MaxTroubles.archive, step <- compressStep

Glides == INSTANCE GlidesIngestion WITH
    MaxTrouble <- MaxTroubles.glides, step <- glidesStep

AlertFile == INSTANCE AlertsExport WITH
    MaxTrouble <- MaxTroubles.alerts, step <- alertsStep, todo <- unreadObjects

Manager == INSTANCE ManagerExports WITH MaxTrouble <- MaxTroubles.manager

\* The table of versions is the last one, there is a converter of Glides, and
\* the values for a missing file are none of the values a file can have.
ASSUME ExportsAssumption ==
    /\ IsFiniteSet(Records)
    /\ Tables \in Seq(STRING) /\ Tables # <<>> /\ Tables[Len(Tables)] = "feed_info"
    /\ \A i, j \in DOMAIN Tables : Tables[i] = Tables[j] => i = j
    /\ DaysPerYear \in Nat \ {0, 1} /\ LastDay \in Nat
    /\ Kinds \in Nat \ {0}
    /\ \A alerts \in SUBSET Alerts : NoFile # alerts
    /\ LastDate \in Nat /\ MaxRows \in Nat /\ MaxRounds \in Nat
    /\ None \notin [version : Nat, table : Manager!Table]
    /\ None \notin [version : Nat, days : Manager!Days]
    /\ None \notin Manager!Days

archiveVars == <<feed, compressStep, todo, table, folders, disk, bucket, sending,
                 compressed, archived, spoiled>>
glidesVars == <<stream, horizon, iterator, last, glidesStep, records, kind,
                local, remote, unread, passed, lost>>
alertVars == <<content, status, export, expected, alertsStep, match,
               unreadObjects, chunk, fresh, known, copy, newData, marked,
               blind, raced, cut>>
managerVars == <<events, schedule, temp, rpmVersion, lampVersion, files, index,
                 fast, parquet, source, newer, hyper, rounds, releases,
                 behind, pending, late, overtaken>>
vars == <<job, archiveVars, glidesVars, alertVars, managerVars, trouble>>

Init ==
    /\ job \in {"archive", "glides", "alerts", "manager"}
    /\ Archive!Init /\ Glides!Init /\ AlertFile!Init /\ Manager!Init

ArchiveStep ==
    /\ job = "archive" /\ Archive!Next
    /\ UNCHANGED <<job, glidesVars, alertVars, managerVars>>

GlidesStep ==
    /\ job = "glides" /\ Glides!Next
    /\ UNCHANGED <<job, archiveVars, alertVars, managerVars>>

AlertsStep ==
    /\ job = "alerts" /\ AlertFile!Next
    /\ UNCHANGED <<job, archiveVars, glidesVars, managerVars>>

ManagerStep ==
    /\ job = "manager" /\ Manager!Next
    /\ UNCHANGED <<job, archiveVars, glidesVars, alertVars>>

Next == ArchiveStep \/ GlidesStep \/ AlertsStep \/ ManagerStep

Spec == Init /\ [][Next]_vars

\* The type invariants of the four components.
TypeOK ==
    /\ job = "archive" => Archive!TypeOK
    /\ job = "glides" => Glides!TypeOK
    /\ job = "alerts" => AlertFile!TypeOK
    /\ job = "manager" => Manager!TypeOK

\* The archive has the schedule in force on each day (CompressGtfs).
ArchiveIsTimetable == job = "archive" => Archive!ArchiveIsTimetable

\* The files of Glides have the records that were read (GlidesIngestion).
GlidesAreKept == job = "glides" => Glides!GlidesAreKept

\* The export has the alerts of the processed objects (AlertsExport).
AlertsAreExported == job = "alerts" => AlertFile!AlertsAreExported

\* Each date has a flat file of its events (ManagerExports).
FlatFilesFollowEvents == job = "manager" => Manager!FlatFilesFollowEvents

\* Parquet and datasource have the rows of the database (ManagerExports).
TableauFollowsEvents == job = "manager" => Manager!TableauFollowsEvents
=============================================================================
