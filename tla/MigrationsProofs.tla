--------------------------- MODULE MigrationsProofs ---------------------------
(***************************************************************************)
(* Proofs about Migrations, for all paths and any number of crashes and    *)
(* failed uploads: in whatever order the containers start, crash and       *)
(* commit, the application runs over the schema it was written for, no     *)
(* legacy path is lost, and a processed path has its events.               *)
(***************************************************************************)
EXTENDS Migrations, TLAPS

(***************************************************************************)
(* The chains of revisions                                                 *)
(***************************************************************************)

\* A database with r revisions has the legacy table.
LegacyAt(e, r) ==
    r > 0 /\ \E v \in (r + 1)..Len(Revisions[e]) : Revisions[e][v].also = "copied"

\* The legacy table comes with the first revision, except in production, and
\* goes with the one that waits for the copy; events are deleted after that.
LEMMA ChainFacts ==
    ASSUME NEW e \in Envs
    PROVE  /\ Len(Revisions[e]) \in Nat /\ Len(Revisions[e]) > 0
           /\ e # "prod" => LegacyAt(e, 1)
           /\ \A r \in 1..Len(Revisions[e]) :
                /\ Revisions[e][r].also = "copied" => ~LegacyAt(e, r)
                /\ Revisions[e][r].also = "reprocess" =>
                      e # "prod" /\ r > 1 /\ ~LegacyAt(e, r - 1)
<1>1. CASE e = "prod"
  <2>1. Revisions[e] = <<ProdInitial, UpdateProdStopSync, ProdSyncStopTrunk,
                         ProdDwellTime>>
    BY <1>1 DEF Revisions
  <2>2. /\ Len(Revisions[e]) = 4
        /\ Revisions[e][1] = ProdInitial
        /\ Revisions[e][2] = UpdateProdStopSync
        /\ Revisions[e][3] = ProdSyncStopTrunk
        /\ Revisions[e][4] = ProdDwellTime
    BY <2>1
  <2>3. /\ ProdInitial.also = ""
        /\ UpdateProdStopSync.also = ""
        /\ ProdSyncStopTrunk.also = ""
        /\ ProdDwellTime.also = ""
    BY DEF Revision, ProdDwellTime, ProdInitial, ProdSyncStopTrunk,
        UpdateProdStopSync
  <2>4. \A r \in 1..4 : /\ Revisions[e][r].also # "copied"
                         /\ Revisions[e][r].also # "reprocess"
    <3> SUFFICES ASSUME NEW r \in 1..4
                 PROVE  /\ Revisions[e][r].also # "copied"
                        /\ Revisions[e][r].also # "reprocess"
      OBVIOUS
    <3>1. r = 1 \/ r = 2 \/ r = 3 \/ r = 4
      OBVIOUS
    <3> QED BY <2>2, <2>3, <3>1
  <2>5. Len(Revisions[e]) = 4 BY <2>2
  <2> QED BY <1>1, <2>4, <2>5
<1>2. CASE e = "staging"
  <2>1. Revisions[e] = <<StagingInitial, FixTripIdLength,
                         ExtendServiceIdView, CanonStopSeq, RemoveMetadata,
                         FixNullConsist, StagingSyncStopTrunk,
                         StagingDwellTime>>
    BY <1>2 DEF Revisions
  <2>2. /\ Len(Revisions[e]) = 8
        /\ Revisions[e][1] = StagingInitial
        /\ Revisions[e][2] = FixTripIdLength
        /\ Revisions[e][3] = ExtendServiceIdView
        /\ Revisions[e][4] = CanonStopSeq
        /\ Revisions[e][5] = RemoveMetadata
        /\ Revisions[e][6] = FixNullConsist
        /\ Revisions[e][7] = StagingSyncStopTrunk
        /\ Revisions[e][8] = StagingDwellTime
    BY <2>1
  <2>3. /\ StagingInitial.also = ""
        /\ FixTripIdLength.also = ""
        /\ ExtendServiceIdView.also = ""
        /\ CanonStopSeq.also = ""
        /\ RemoveMetadata.also = "copied"
        /\ FixNullConsist.also = "reprocess"
        /\ StagingSyncStopTrunk.also = ""
        /\ StagingDwellTime.also = ""
    BY DEF Revision, CanonStopSeq, ExtendServiceIdView, FixNullConsist,
           FixTripIdLength, ProdDwellTime, ProdSyncStopTrunk, RemoveMetadata,
           StagingDwellTime, StagingInitial, StagingSyncStopTrunk
  <2>4. \A r \in 1..8 : /\ (Revisions[e][r].also = "copied" <=> r = 5)
                         /\ (Revisions[e][r].also = "reprocess" <=> r = 6)
    <3> SUFFICES ASSUME NEW r \in 1..8
                 PROVE  /\ (Revisions[e][r].also = "copied" <=> r = 5)
                        /\ (Revisions[e][r].also = "reprocess" <=> r = 6)
      OBVIOUS
    <3>1. r = 1 \/ r = 2 \/ r = 3 \/ r = 4 \/ r = 5 \/ r = 6 \/ r = 7 \/ r = 8
      OBVIOUS
    <3> QED BY <2>2, <2>3, <3>1
  <2>5. Len(Revisions[e]) = 8 BY <2>2
  <2>6. \A r \in Nat : LegacyAt(e, r) <=> r > 0 /\ r < 5
    BY <2>4, <2>5 DEF LegacyAt
  <2> QED BY <1>2, <2>4, <2>5, <2>6
<1>3. CASE e = "dev"
  <2>1. Revisions[e] = <<DevInitial, DevFixTripIdLength,
                         DevExtendServiceIdView, DevCanonStopSeq,
                         DevRemoveMetadata, DevSyncStopTrunk, DevDwellTime>>
    BY <1>3 DEF Revisions
  <2>2. /\ Len(Revisions[e]) = 7
        /\ Revisions[e][1] = DevInitial
        /\ Revisions[e][2] = DevFixTripIdLength
        /\ Revisions[e][3] = DevExtendServiceIdView
        /\ Revisions[e][4] = DevCanonStopSeq
        /\ Revisions[e][5] = DevRemoveMetadata
        /\ Revisions[e][6] = DevSyncStopTrunk
        /\ Revisions[e][7] = DevDwellTime
    BY <2>1
  <2>3. /\ DevInitial.also = ""
        /\ DevFixTripIdLength.also = ""
        /\ DevExtendServiceIdView.also = ""
        /\ DevCanonStopSeq.also = ""
        /\ DevRemoveMetadata.also = "copied"
        /\ DevSyncStopTrunk.also = ""
        /\ DevDwellTime.also = ""
    BY DEF Revision, CanonStopSeq, DevCanonStopSeq, DevDwellTime,
           DevExtendServiceIdView, DevFixTripIdLength, DevInitial,
           DevRemoveMetadata, DevSyncStopTrunk, ExtendServiceIdView,
           FixTripIdLength, ProdDwellTime, ProdSyncStopTrunk, RemoveMetadata
  <2>4. \A r \in 1..7 : /\ (Revisions[e][r].also = "copied" <=> r = 5)
                         /\ Revisions[e][r].also # "reprocess"
    <3> SUFFICES ASSUME NEW r \in 1..7
                 PROVE  /\ (Revisions[e][r].also = "copied" <=> r = 5)
                        /\ Revisions[e][r].also # "reprocess"
      OBVIOUS
    <3>1. r = 1 \/ r = 2 \/ r = 3 \/ r = 4 \/ r = 5 \/ r = 6 \/ r = 7
      OBVIOUS
    <3> QED BY <2>2, <2>3, <3>1
  <2>5. Len(Revisions[e]) = 7 BY <2>2
  <2>6. \A r \in Nat : LegacyAt(e, r) <=> r > 0 /\ r < 5
    BY <2>4, <2>5 DEF LegacyAt
  <2> QED BY <1>3, <2>4, <2>5, <2>6
<1> QED BY <1>1, <1>2, <1>3 DEF Envs, Revisions

\* The metadata database: the table is created first, Glides are renamed last.
LEMMA MetadataChain ==
    ASSUME NEW e \in Envs
    PROVE  /\ Len(MetadataRevisions[e]) \in Nat /\ Len(MetadataRevisions[e]) > 1
           /\ \A v \in 1..Len(MetadataRevisions[e]) :
                /\ MetadataRevisions[e][v] = "copy" <=> v = 1
                /\ MetadataRevisions[e][v] = "rename"
                      <=> v = Len(MetadataRevisions[e])
<1>1. CASE e = "prod"
  <2>1. MetadataRevisions[e] = <<"copy", "rerun", "rename">>
    BY <1>1 DEF MetadataRevisions, ProdMetadata
  <2>2. \A v \in 1..3 : v = 1 \/ v = 2 \/ v = 3 OBVIOUS
  <2> QED BY <2>1, <2>2
<1>2. CASE e \in {"staging", "dev"}
  <2>1. MetadataRevisions[e] = <<"copy", "rename">>
    BY <1>2 DEF MetadataRevisions, StagingMetadata, DevMetadata
  <2>2. \A v \in 1..2 : v = 1 \/ v = 2 OBVIOUS
  <2> QED BY <2>1, <2>2
<1> QED BY <1>1, <1>2 DEF Envs, Revisions

(***************************************************************************)
(* The inductive invariant                                                 *)
(***************************************************************************)

RailStates == [rev : 0..RpmHead, left : {{}, Leftovers(env)},
               log : [Paths -> Statuses], events : SUBSET Paths]

MdStates == [rev : 0..MdHead, log : [Paths -> Statuses]]

\* A transaction is open exactly while its container upgrades, and a running
\* container is at the head.  One after the other, seed_metadata takes the
\* place of both.
MigrationShape ==
    /\ env \in Envs /\ longIds \in BOOLEAN /\ glides \in {"none", "old", "new"}
    /\ rpm \in RailStates /\ md \in MdStates
    /\ rpmPc \in {"down", "upgrade", "running"}
    /\ mdPc \in {"down", "upgrade", "running"}
    /\ admin \in {"no", "rpm", "md"}
    /\ IF rpmPc = "upgrade" THEN rpmTx \in RailStates ELSE rpmTx = NoTx
    /\ IF mdPc = "upgrade" THEN mdTx \in MdStates ELSE mdTx = NoTx
    /\ rpmPc = "running" => rpm.rev = RpmHead
    /\ mdPc = "running" => md.rev = MdHead
    /\ admin = "rpm" => rpmPc = "upgrade" /\ mdPc = "down"
    /\ admin = "md" => rpmPc = "down" /\ mdPc # "running"
    /\ admin # "no" => cleared

\* Without the legacy table there is no legacy log, and no log without the
\* metadata database; the first revision of this is taken before the copy.
LogInv ==
    /\ PathsIn(rpm.log) # {} => LegacyAt(env, rpm.rev)
    /\ rpmPc = "upgrade" /\ PathsIn(rpmTx.log) # {} => LegacyAt(env, rpmTx.rev)
    /\ md.rev = 0 => md.log = NoRows
    /\ admin = "no" /\ md.rev = 0 =>
          /\ rpm.rev = 0 \/ LegacyAt(env, rpm.rev) \/ env = "prod"
          /\ rpmPc = "upgrade" =>
                rpmTx.rev = 0 \/ LegacyAt(env, rpmTx.rev) \/ env = "prod"

\* At the head the Glides object is renamed.
GlidesInv ==
    ~unrenamed =>
        /\ md.rev = MdHead => glides # "old"
        /\ mdPc = "upgrade" /\ mdTx.rev = MdHead => glides # "old"

\* What is processed, in a log that is in use or that a transaction will
\* bring into use, has its events, also in the transaction that deletes some.
EventsInv ==
    /\ admin = "no" \/ (admin = "md" /\ mdPc = "upgrade") =>
          \A p \in Paths : md.log[p] = "done" => p \in rpm.events
    /\ \A p \in Paths : rpm.log[p] = "done" => p \in rpm.events
    /\ rpmPc = "upgrade" =>
          \A p \in Paths : rpmTx.log[p] = "done" => p \in rpmTx.events
    /\ rpmPc = "upgrade" /\ admin = "no" =>
          /\ \A p \in Paths : md.log[p] = "done" => p \in rpmTx.events
          /\ md.rev = 0 => rpmTx.events = rpm.events
    /\ mdPc = "upgrade" /\ (md.rev = 0 \/ admin = "md") =>
          \A p \in Paths : mdTx.log[p] = "done" =>
             /\ p \in rpm.events
             /\ rpmPc = "upgrade" => p \in rpmTx.events

\* What a transaction is going to forget is known to the other database, and
\* what it copied is all there was.
CopyInv ==
    ~cleared =>
        /\ rpmPc = "upgrade" =>
             /\ PathsIn(rpmTx.log) \subseteq PathsIn(rpm.log)
             /\ PathsIn(rpm.log) \subseteq PathsIn(rpmTx.log) \cup PathsIn(md.log)
        /\ mdPc = "upgrade" /\ md.rev = 0 /\ mdTx.rev > 0 =>
             PathsIn(rpm.log) \subseteq PathsIn(mdTx.log)

MigrationInv == MigrationShape /\ LogInv /\ GlidesInv /\ EventsInv /\ CopyInv

(***************************************************************************)
(* The steps                                                               *)
(***************************************************************************)

LEMMA LegacyMeaning ==
    ASSUME env \in Envs, NEW db \in RailStates
    PROVE  Legacy(db) <=> LegacyAt(env, db.rev)
BY SchemaAssumption DEF Legacy, Schema, LegacyAt, RailStates, RpmHead

LEMMA SameStates ==
    ASSUME UNCHANGED env
    PROVE  /\ RailStates' = RailStates /\ MdStates' = MdStates
           /\ RpmHead' = RpmHead /\ MdHead' = MdHead
BY DEF RailStates, MdStates, RpmHead, MdHead

LEMMA Heads ==
    ASSUME env \in Envs
    PROVE  /\ RpmHead \in Nat /\ RpmHead > 0 /\ ~LegacyAt(env, RpmHead)
           /\ MdHead \in Nat /\ MdHead > 1
<1>1. RpmHead \in Nat /\ RpmHead > 0 /\ MdHead \in Nat /\ MdHead > 1
  BY ChainFacts, MetadataChain DEF RpmHead, MdHead
<1>2. (RpmHead + 1)..RpmHead = {} BY <1>1
<1> QED BY <1>1, <1>2 DEF LegacyAt, RpmHead

LEMMA NoPaths == PathsIn(NoRows) = {} /\ NoRows \in [Paths -> Statuses]
BY DEF PathsIn, NoRows, Statuses

LEMMA ResetFacts ==
    ASSUME NEW log \in [Paths -> Statuses], NEW S
    PROVE  /\ Reset(log, S) \in [Paths -> Statuses]
           /\ PathsIn(Reset(log, S)) = PathsIn(log)
           /\ \A p \in Paths :
                 Reset(log, S)[p] = "done" => p \notin S /\ log[p] = "done"
           /\ log = NoRows => Reset(log, S) = NoRows
BY DEF Reset, PathsIn, Statuses, NoRows

LEMMA MigrationInit == Init => MigrationInv
<1> SUFFICES ASSUME Init PROVE MigrationInv
  OBVIOUS
<1>1. env \in Envs BY DEF Init
<1>2. PICK r \in 0..Len(Revisions[env]), v \in 0..Len(MetadataRevisions[env]),
          log \in [Paths -> Statuses] :
         LET legacy == Has(SchemaAfter[env][{}][r], "metadata_log")
         IN /\ v = 0 => (r = 0 \/ legacy \/ env = "prod")
            /\ v = 0 /\ ~legacy => log = NoRows
            /\ rpm = [rev |-> r, left |-> {},
                      log |-> IF legacy THEN log ELSE NoRows,
                      events |-> {p \in Paths : log[p] = "done"}]
            /\ md = [rev |-> v, log |-> IF v > 0 THEN log ELSE NoRows]
            /\ longIds \in BOOLEAN
            /\ glides \in {"none", IF v = Len(MetadataRevisions[env])
                                   THEN "new" ELSE "old"}
  BY DEF Init
<1>3. Has(SchemaAfter[env][{}][r], "metadata_log") <=> LegacyAt(env, r)
  BY <1>1, SchemaAssumption DEF LegacyAt
<1>4. /\ v = 0 => (r = 0 \/ LegacyAt(env, r) \/ env = "prod")
      /\ rpm = [rev |-> r, left |-> {},
                log |-> IF LegacyAt(env, r) THEN log ELSE NoRows,
                events |-> {p \in Paths : log[p] = "done"}]
      /\ md = [rev |-> v, log |-> IF v > 0 THEN log ELSE NoRows]
      /\ longIds \in BOOLEAN
      /\ glides \in {"none", "new", "old"}
      /\ v = MdHead => glides # "old"
  BY <1>2, <1>3 DEF MdHead
<1>5. /\ rpmTx = NoTx /\ mdTx = NoTx /\ rpmPc = "down" /\ mdPc = "down"
      /\ admin = "no"
  BY DEF Init
<1>6. rpm \in RailStates
  BY <1>4, NoPaths DEF RailStates, RpmHead
<1>7. md \in MdStates BY <1>4, NoPaths DEF MdStates, MdHead
<1>8. MigrationShape BY <1>1, <1>4, <1>5, <1>6, <1>7 DEF MigrationShape
<1>9. LogInv BY <1>4, <1>5, NoPaths DEF LogInv
<1>10. GlidesInv BY <1>4, <1>5 DEF GlidesInv
<1>11. EventsInv
  BY <1>4, <1>5 DEF EventsInv, NoRows
<1>12. CopyInv BY <1>5 DEF CopyInv
<1> QED BY <1>8, <1>9, <1>10, <1>11, <1>12 DEF MigrationInv

LEMMA StartRpmKeeps == MigrationInv /\ StartRpm => MigrationInv'
<1> SUFFICES ASSUME MigrationInv, StartRpm PROVE MigrationInv'
  OBVIOUS
<1> USE DEF MigrationInv
<1>1. /\ rpmPc = "down" /\ admin = "no" /\ rpmPc' = "upgrade" /\ rpmTx' = rpm
      /\ UNCHANGED <<env, rpm, admin, longIds, faults, cleared, md, mdTx, mdPc,
                     glides, unrenamed>>
  BY DEF StartRpm, unchangedMd
<1>2. MigrationShape' BY <1>1, SameStates DEF MigrationShape
<1>3. LogInv' BY <1>1 DEF LogInv
<1>4. GlidesInv' BY <1>1, SameStates DEF GlidesInv
<1>5. EventsInv' BY <1>1 DEF EventsInv
<1>6. CopyInv' BY <1>1 DEF CopyInv
<1> QED BY <1>2, <1>3, <1>4, <1>5, <1>6

\* The revision that deletes events comes after the legacy table is gone, so
\* the metadata database is in use, and its paths are reset before it can be
\* seen that they have no events.
LEMMA UpgradeRpmKeeps == MigrationInv /\ UpgradeRpm => MigrationInv'
<1> SUFFICES ASSUME MigrationInv, UpgradeRpm PROVE MigrationInv'
  OBVIOUS
<1> USE DEF MigrationInv
<1> DEFINE n == rpmTx.rev + 1
           also == Revisions[env][n].also
           upgraded == [rpmTx EXCEPT !.rev = @ + 1]
<1>1. /\ rpmPc = "upgrade" /\ rpmTx.rev < RpmHead
      /\ also = "copied" => Copied
      /\ rpmTx' = [upgraded EXCEPT
                      !.log = IF Legacy(upgraded) THEN @ ELSE NoRows,
                      !.events = IF also = "reprocess" THEN @ \ Recent ELSE @]
      /\ md' = IF also = "reprocess"
               THEN [md EXCEPT !.log = ResetRecent(@)] ELSE md
      /\ UNCHANGED <<env, rpm, mdTx, rpmPc, mdPc, admin, glides, longIds, faults,
                     unrenamed, cleared>>
  BY DEF UpgradeRpm
<1>2. /\ env \in Envs /\ rpmTx \in RailStates /\ md \in MdStates
      /\ rpm \in RailStates
  BY <1>1 DEF MigrationShape
<1>3. /\ rpmTx.rev \in Nat /\ n \in 1..RpmHead /\ RpmHead \in Nat
      /\ rpmTx.log \in [Paths -> Statuses] /\ rpmTx.events \subseteq Paths
      /\ md.log \in [Paths -> Statuses]
  BY <1>1, <1>2, Heads DEF RailStates, MdStates
<1>4. upgraded \in RailStates /\ upgraded.rev = n
  BY <1>2, <1>3 DEF RailStates
<1>5. Legacy(upgraded) <=> LegacyAt(env, n) BY <1>2, <1>4, LegacyMeaning
<1>6. /\ rpmTx' \in RailStates /\ rpmTx'.rev = n
      /\ rpmTx'.log = (IF LegacyAt(env, n) THEN rpmTx.log ELSE NoRows)
      /\ rpmTx'.events = (IF also = "reprocess" THEN rpmTx.events \ Recent
                          ELSE rpmTx.events)
  <2> HIDE DEF n, also
  <2> QED BY <1>1, <1>2, <1>3, <1>4, <1>5, NoPaths DEF RailStates
<1>7. /\ md' \in MdStates /\ md'.rev = md.rev
      /\ md'.log \in {md.log, Reset(md.log, Recent)}
      /\ also = "reprocess" => md'.log = Reset(md.log, Recent)
      /\ PathsIn(md'.log) = PathsIn(md.log)
      /\ \A p \in Paths : md'.log[p] = "done" => md.log[p] = "done"
      /\ md.log = NoRows => md'.log = NoRows
  <2> HIDE DEF also
  <2> QED BY <1>1, <1>2, <1>3, ResetFacts DEF MdStates, ResetRecent
<1>8. LegacyAt(env, rpmTx.rev) /\ ~LegacyAt(env, n) => also = "copied"
  BY <1>3 DEF LegacyAt, RpmHead
<1>9. /\ also = "reprocess" => /\ env # "prod" /\ rpmTx.rev > 0
                              /\ ~LegacyAt(env, rpmTx.rev)
      /\ env # "prod" => LegacyAt(env, 1)
  <2>1. n \in 1..Len(Revisions[env]) /\ n - 1 = rpmTx.rev
    BY <1>3 DEF RpmHead
  <2> HIDE DEF n
  <2> QED BY <1>2, <1>3, <2>1, ChainFacts
<1>10. /\ also = "reprocess" /\ admin = "no" => md.rev # 0
       /\ also = "copied"
              => md.rev > 0 /\ PathsIn(rpm.log) \subseteq PathsIn(md.log)
  <2> HIDE DEF also, n
  <2> QED BY <1>1, <1>9 DEF LogInv, Copied
<1> HIDE DEF n, also, upgraded
<1>11. MigrationShape' BY <1>1, <1>6, <1>7, SameStates DEF MigrationShape
<1>12. LogInv'
  <2>1. rpmPc' = "upgrade" /\ PathsIn(rpmTx'.log) # {} => LegacyAt(env, rpmTx'.rev)
    BY <1>6, NoPaths
  <2>2. ASSUME admin = "no", md.rev = 0
        PROVE  n = 0 \/ LegacyAt(env, n) \/ env = "prod"
    <3>1. rpmTx.rev = 0 \/ LegacyAt(env, rpmTx.rev) \/ env = "prod"
      BY <1>1, <2>2 DEF LogInv
    <3>2. n = rpmTx.rev + 1 BY DEF n
    <3> QED BY <1>3, <1>8, <1>9, <1>10, <2>2, <3>1, <3>2
  <2> QED BY <1>1, <1>6, <1>7, <2>1, <2>2 DEF LogInv
<1>13. GlidesInv' BY <1>1, <1>7, SameStates DEF GlidesInv
<1>14. EventsInv'
  <2>1. \A p \in Paths : rpmTx'.log[p] = "done" => p \in rpmTx'.events
    <3>1. ASSUME NEW p \in Paths, rpmTx'.log[p] = "done" PROVE p \in rpmTx'.events
      <4>1. LegacyAt(env, n) /\ rpmTx.log[p] = "done"
        BY <1>6, <3>1 DEF NoRows
      <4>2. also # "reprocess"
        <5>1. PathsIn(rpmTx.log) # {} BY <4>1 DEF PathsIn
        <5>2. LegacyAt(env, rpmTx.rev) BY <1>1, <5>1 DEF LogInv
        <5> QED BY <1>9, <5>2
      <4> QED BY <1>1, <1>6, <4>1, <4>2 DEF EventsInv
    <3> QED BY <3>1
  <2>2. ASSUME admin = "no"
        PROVE  /\ \A p \in Paths : md'.log[p] = "done" => p \in rpmTx'.events
               /\ md.rev = 0 => rpmTx'.events = rpm.events
    <3>1. \A p \in Paths : md.log[p] = "done" => p \in rpmTx.events
      BY <1>1, <2>2 DEF EventsInv
    <3>2. md.rev = 0 => rpmTx.events = rpm.events BY <1>1, <2>2 DEF EventsInv
    <3> QED BY <1>3, <1>6, <1>7, <1>10, <2>2, <3>1, <3>2, ResetFacts
  <2>3. ASSUME mdPc = "upgrade", md.rev = 0 \/ admin = "md"
        PROVE  \A p \in Paths : mdTx.log[p] = "done" =>
                  p \in rpm.events /\ p \in rpmTx'.events
    <3>1. admin = "no" BY <1>1, <2>3 DEF MigrationShape
    <3>2. also # "reprocess" BY <1>10, <2>3, <3>1
    <3> QED BY <1>1, <1>6, <2>3, <3>2 DEF EventsInv
  <2> QED BY <1>1, <1>7, <2>1, <2>2, <2>3 DEF EventsInv
<1>15. CopyInv'
  <2>1. ASSUME ~cleared
        PROVE  PathsIn(rpm.log) \subseteq PathsIn(rpmTx'.log) \cup PathsIn(md.log)
    <3>1. PathsIn(rpm.log) \subseteq PathsIn(rpmTx.log) \cup PathsIn(md.log)
      BY <1>1, <2>1 DEF CopyInv
    <3>2. CASE PathsIn(rpmTx.log) = {} BY <3>1, <3>2
    <3>3. CASE PathsIn(rpmTx.log) # {} /\ ~LegacyAt(env, n)
      BY <1>1, <1>8, <1>10, <3>3 DEF LogInv
    <3>4. CASE LegacyAt(env, n) BY <1>6, <3>1, <3>4
    <3> QED BY <3>2, <3>3, <3>4
  <2>2. PathsIn(rpmTx'.log) \subseteq PathsIn(rpmTx.log) BY <1>6, NoPaths
  <2> QED BY <1>1, <1>7, <2>1, <2>2 DEF CopyInv
<1> QED BY <1>11, <1>12, <1>13, <1>14, <1>15

LEMMA CommitRpmKeeps == MigrationInv /\ CommitRpm => MigrationInv'
<1> SUFFICES ASSUME MigrationInv, CommitRpm PROVE MigrationInv'
  OBVIOUS
<1> USE DEF MigrationInv
<1>1. /\ rpmPc = "upgrade" /\ rpmTx.rev = RpmHead /\ rpm' = rpmTx /\ rpmTx' = NoTx
      /\ \/ admin = "no" /\ rpmPc' = "running" /\ admin' = "no"
         \/ admin = "rpm" /\ rpmPc' = "down" /\ admin' = "md"
      /\ UNCHANGED <<env, longIds, faults, cleared, md, mdTx, mdPc, glides,
                     unrenamed>>
  BY DEF CommitRpm, unchangedMd
<1>2. env \in Envs /\ rpmTx \in RailStates /\ rpm \in RailStates
  BY <1>1 DEF MigrationShape
<1>3. /\ rpm'.rev = RpmHead /\ RpmHead > 0 /\ ~LegacyAt(env, RpmHead)
      /\ RpmHead \in Nat
  BY <1>1, <1>2, Heads
<1>4. PathsIn(rpm'.log) = {} BY <1>1, <1>3 DEF LogInv
<1>5. MigrationShape' BY <1>1, <1>2, <1>3, SameStates DEF MigrationShape
<1>6. LogInv' BY <1>1, <1>3, <1>4 DEF LogInv
<1>7. GlidesInv' BY <1>1, SameStates DEF GlidesInv
<1>8. EventsInv'
  <2>1. ASSUME admin' = "no" \/ (admin' = "md" /\ mdPc = "upgrade")
        PROVE  \A p \in Paths : md.log[p] = "done" => p \in rpm'.events
    <3>1. admin = "no" BY <1>1, <2>1 DEF MigrationShape
    <3> QED BY <1>1, <3>1 DEF EventsInv
  <2>2. ASSUME mdPc = "upgrade", md.rev = 0 \/ admin' = "md"
        PROVE  \A p \in Paths : mdTx.log[p] = "done" => p \in rpm'.events
    <3>1. admin = "no" /\ md.rev = 0 BY <1>1, <2>2 DEF MigrationShape
    <3> QED BY <1>1, <2>2, <3>1 DEF EventsInv
  <2>3. \A p \in Paths : rpm'.log[p] = "done" => p \in rpm'.events
    BY <1>1 DEF EventsInv
  <2> QED BY <1>1, <2>1, <2>2, <2>3 DEF EventsInv
<1>9. CopyInv' BY <1>1, <1>4 DEF CopyInv
<1> QED BY <1>5, <1>6, <1>7, <1>8, <1>9

LEMMA CrashKeeps == MigrationInv /\ (CrashRpm \/ CrashMd) => MigrationInv'
<1> SUFFICES ASSUME MigrationInv, CrashRpm \/ CrashMd PROVE MigrationInv'
  OBVIOUS
<1> USE DEF MigrationInv
<1>1. /\ admin = "no"
      /\ \/ rpmPc' = "down" /\ rpmTx' = NoTx /\ UNCHANGED <<mdTx, mdPc>>
         \/ mdPc' = "down" /\ mdTx' = NoTx /\ UNCHANGED <<rpmTx, rpmPc>>
      /\ UNCHANGED <<env, rpm, admin, longIds, cleared, md, glides, unrenamed>>
  BY DEF CrashRpm, CrashMd, unchangedMd, unchangedRpm
<1>2. MigrationShape' BY <1>1, SameStates DEF MigrationShape
<1>3. LogInv' BY <1>1 DEF LogInv
<1>4. GlidesInv' BY <1>1, SameStates DEF GlidesInv
<1>5. EventsInv' BY <1>1 DEF EventsInv
<1>6. CopyInv' BY <1>1 DEF CopyInv
<1> QED BY <1>2, <1>3, <1>4, <1>5, <1>6

\* A path is processed together with its events, and announced with none.
LEMMA TrafficKeeps ==
    ASSUME MigrationInv, NEW p \in Paths, Process(p) \/ Announce(p)
    PROVE  MigrationInv'
<1> USE DEF MigrationInv
<1>1. /\ mdPc = "running" /\ longIds' \in {longIds, TRUE}
      /\ UNCHANGED <<env, rpmTx, mdTx, rpmPc, mdPc, admin, glides, faults,
                     unrenamed, cleared>>
      /\ \/ /\ rpmPc = "running" /\ md.log[p] = "new"
            /\ md' = [md EXCEPT !.log[p] = "done"]
            /\ rpm' = [rpm EXCEPT !.events = @ \cup {p}]
         \/ /\ md.log[p] = "absent" /\ md' = [md EXCEPT !.log[p] = "new"]
            /\ rpm' = rpm
  BY DEF Process, Announce, unchangedRpm
<1>2. /\ rpm \in RailStates /\ md \in MdStates /\ env \in Envs /\ admin = "no"
      /\ md.rev = MdHead
  BY <1>1 DEF MigrationShape
<1>3. md.rev # 0 BY <1>2, Heads
<1>4. /\ rpm' \in RailStates /\ rpm'.rev = rpm.rev /\ rpm'.log = rpm.log
      /\ rpm.events \subseteq rpm'.events
  BY <1>1, <1>2 DEF RailStates
<1>5. /\ md' \in MdStates /\ md'.rev = md.rev
      /\ PathsIn(md.log) \subseteq PathsIn(md'.log)
      /\ \A q \in Paths : md'.log[q] = "done" =>
            md.log[q] = "done" \/ (q = p /\ rpmPc = "running" /\ p \in rpm'.events)
  BY <1>1, <1>2 DEF MdStates, RailStates, Statuses, PathsIn
<1>6. MigrationShape'
  BY <1>1, <1>4, <1>5, SameStates DEF MigrationShape
<1>7. LogInv' BY <1>1, <1>3, <1>4, <1>5 DEF LogInv
<1>8. GlidesInv' BY <1>1, <1>5, SameStates DEF GlidesInv
<1>9. EventsInv' BY <1>1, <1>2, <1>3, <1>4, <1>5 DEF EventsInv
<1>10. CopyInv' BY <1>1, <1>4, <1>5 DEF CopyInv
<1> QED BY <1>6, <1>7, <1>8, <1>9, <1>10

LEMMA StartMdKeeps == MigrationInv /\ StartMd => MigrationInv'
<1> SUFFICES ASSUME MigrationInv, StartMd PROVE MigrationInv'
  OBVIOUS
<1> USE DEF MigrationInv
<1>1. /\ mdPc = "down" /\ admin = "no" /\ mdPc' = "upgrade"
      /\ mdTx' = [rev |-> md.rev, log |-> md.log]
      /\ UNCHANGED <<env, md, admin, glides, longIds, faults, unrenamed, cleared,
                     rpm, rpmTx, rpmPc>>
  BY DEF StartMd, unchangedRpm
<1>2. md \in MdStates BY DEF MigrationShape
<1>3. mdTx' \in MdStates /\ mdTx'.rev = md.rev /\ mdTx'.log = md.log
  BY <1>1, <1>2 DEF MdStates
<1>4. MigrationShape' BY <1>1, <1>3, SameStates DEF MigrationShape
<1>5. LogInv' BY <1>1 DEF LogInv
<1>6. GlidesInv' BY <1>1, <1>3, SameStates DEF GlidesInv
<1>7. EventsInv' BY <1>1, <1>3 DEF EventsInv, LogInv, NoRows
<1>8. CopyInv' BY <1>1, <1>2, <1>3 DEF CopyInv, MdStates
<1> QED BY <1>4, <1>5, <1>6, <1>7, <1>8

LEMMA UpgradeMdKeeps == MigrationInv /\ (UpgradeMd \/ RenameGlides) => MigrationInv'
<1> SUFFICES ASSUME MigrationInv, UpgradeMd \/ RenameGlides PROVE MigrationInv'
  OBVIOUS
<1> USE DEF MigrationInv
<1> DEFINE n == mdTx.rev + 1
           tag == MetadataRevisions[env][n]
<1>1. /\ mdPc = "upgrade" /\ mdTx.rev < MdHead
      /\ \/ /\ tag = "copy" /\ mdTx' = [rev |-> n, log |-> rpm.log]
            /\ UNCHANGED <<glides, unrenamed>>
         \/ /\ tag = "rerun" /\ mdTx' = [rev |-> n, log |-> Reset(mdTx.log, Rerun)]
            /\ UNCHANGED <<glides, unrenamed>>
         \/ /\ tag = "rename" /\ mdTx' = [mdTx EXCEPT !.rev = @ + 1]
            /\ glides' \in {"none", "old", "new"}
            /\ \/ glides' # "old" /\ UNCHANGED unrenamed
               \/ unrenamed'
      /\ UNCHANGED <<env, md, mdPc, admin, longIds, cleared, rpm, rpmTx, rpmPc>>
  BY DEF UpgradeMd, RenameGlides, NextMd, CopyLegacy, unchangedRpm, MigrationShape
<1>2. /\ env \in Envs /\ mdTx \in MdStates /\ rpm \in RailStates
      /\ rpm.log \in [Paths -> Statuses] /\ mdTx.log \in [Paths -> Statuses]
  BY <1>1 DEF MigrationShape, MdStates, RailStates
<1>3. n \in 1..MdHead /\ MdHead \in Nat /\ MdHead > 1
  BY <1>1, <1>2, Heads DEF MdStates
<1>4. (tag = "copy" <=> n = 1) /\ (tag = "rename" <=> n = MdHead)
  BY <1>2, <1>3, MetadataChain DEF MdHead
<1>5. /\ mdTx' \in MdStates /\ mdTx'.rev = n
      /\ mdTx'.log = (IF tag = "copy" THEN rpm.log
                      ELSE IF tag = "rerun" THEN Reset(mdTx.log, Rerun)
                      ELSE mdTx.log)
  <2> HIDE DEF n, tag
  <2>1. CASE tag \in {"copy", "rerun"}
    BY <1>1, <1>2, <1>3, <2>1, ResetFacts DEF MdStates
  <2>2. CASE tag = "rename"
    <3>1. mdTx'.rev = n BY <1>1, <1>2, <2>2 DEF MdStates, n
    <3> QED BY <1>1, <1>2, <1>3, <2>2, <3>1 DEF MdStates
  <2> QED BY <1>1, <2>1, <2>2
<1>6. \A p \in Paths : mdTx'.log[p] = "done" =>
         rpm.log[p] = "done" \/ mdTx.log[p] = "done"
  <2> HIDE DEF n, tag
  <2> QED BY <1>2, <1>5, ResetFacts
<1>7. tag # "copy" => mdTx.rev > 0 /\ PathsIn(mdTx'.log) = PathsIn(mdTx.log)
  <2>1. n # 1 => mdTx.rev > 0 BY <1>2, <1>3 DEF MdStates
  <2> HIDE DEF n, tag
  <2> QED BY <1>2, <1>4, <1>5, <2>1, ResetFacts
<1>8. n = MdHead => tag = "rename" BY <1>4
<1>9. tag = "copy" => mdTx'.log = rpm.log BY <1>5
<1> HIDE DEF n, tag
<1>10. MigrationShape'
  BY <1>1, <1>5, SameStates DEF MigrationShape
<1>11. LogInv' BY <1>1 DEF LogInv
<1>12. GlidesInv' BY <1>1, <1>5, <1>8, SameStates DEF GlidesInv
<1>13. EventsInv'
  <2>1. ASSUME md.rev = 0 \/ admin = "md"
        PROVE  \A p \in Paths : mdTx'.log[p] = "done" =>
                 /\ p \in rpm.events
                 /\ rpmPc = "upgrade" => p \in rpmTx.events
    <3>1. \A p \in Paths : rpm.log[p] = "done" =>
            /\ p \in rpm.events
            /\ rpmPc = "upgrade" => p \in rpmTx.events
      <4>1. rpmPc = "upgrade" => admin = "no" /\ md.rev = 0
        BY <1>1, <2>1 DEF MigrationShape
      <4> QED BY <4>1 DEF EventsInv
    <3> QED BY <1>1, <1>6, <2>1, <3>1 DEF EventsInv
  <2> QED BY <1>1, <2>1 DEF EventsInv
<1>14. CopyInv' BY <1>1, <1>7, <1>9 DEF CopyInv
<1> QED BY <1>10, <1>11, <1>12, <1>13, <1>14

\* The committed log has every path that was in it before.
LEMMA CommitMdKeeps == MigrationInv /\ CommitMd => MigrationInv'
<1> SUFFICES ASSUME MigrationInv, CommitMd PROVE MigrationInv'
  OBVIOUS
<1> USE DEF MigrationInv
<1> DEFINE fresh == md.rev = 0 \/ admin = "md"
           log == IF fresh THEN mdTx.log
                  ELSE [p \in Paths |-> IF mdTx.log[p] = "new"
                                        THEN "new" ELSE md.log[p]]
<1>1. /\ mdPc = "upgrade" /\ mdTx.rev = MdHead /\ mdTx' = NoTx
      /\ md' = [rev |-> mdTx.rev, log |-> log]
      /\ \/ admin = "no" /\ mdPc' = "running" /\ admin' = "no"
         \/ admin = "md" /\ mdPc' = "down" /\ admin' = "no"
      /\ UNCHANGED <<env, glides, longIds, faults, unrenamed, cleared, rpm, rpmTx,
                     rpmPc>>
  BY DEF CommitMd, unchangedRpm
<1>2. /\ env \in Envs /\ mdTx \in MdStates /\ md \in MdStates
      /\ mdTx.log \in [Paths -> Statuses] /\ md.log \in [Paths -> Statuses]
      /\ MdHead \in Nat /\ MdHead > 1
  BY <1>1, Heads DEF MigrationShape, MdStates
<1>3. log \in [Paths -> Statuses]
  BY <1>2 DEF Statuses
<1>4. ~fresh => /\ PathsIn(md.log) \subseteq PathsIn(log)
                /\ \A p \in Paths : log[p] = "done" => md.log[p] = "done"
  BY <1>2 DEF PathsIn, Statuses
<1>5. fresh => log = mdTx.log OBVIOUS
<1>6. \A p \in Paths : log[p] = "done" =>
         /\ p \in rpm.events
         /\ rpmPc = "upgrade" => p \in rpmTx.events
  <2>1. rpmPc = "upgrade" => admin = "no"
    BY <1>1 DEF MigrationShape
  <2>2. CASE fresh
    BY <1>1, <1>5, <2>2 DEF EventsInv
  <2>3. CASE ~fresh
    <3>1. admin = "no" BY <1>1, <2>3
    <3> HIDE DEF log, fresh
    <3> QED BY <1>4, <2>3, <3>1 DEF EventsInv
  <2> QED BY <2>2, <2>3
<1>7. ~cleared => PathsIn(md.log) \subseteq PathsIn(log)
  <2>1. CASE fresh /\ ~cleared
    <3>1. md.rev = 0 BY <1>1, <2>1 DEF MigrationShape
    <3> QED BY <3>1, NoPaths DEF LogInv
  <2> QED BY <1>4, <2>1
<1> HIDE DEF log, fresh
<1>8. md' \in MdStates /\ md'.rev = MdHead /\ md'.log = log
  BY <1>1, <1>2, <1>3 DEF MdStates
<1>9. MigrationShape' BY <1>1, <1>8, SameStates DEF MigrationShape
<1>10. LogInv' BY <1>1, <1>2, <1>8 DEF LogInv
<1>11. GlidesInv' BY <1>1, <1>8, SameStates DEF GlidesInv
<1>12. EventsInv'
  <2>1. rpmPc = "upgrade" => admin = "no" BY <1>1 DEF MigrationShape
  <2> QED BY <1>1, <1>2, <1>6, <1>8, <2>1 DEF EventsInv
<1>13. CopyInv' BY <1>1, <1>7, <1>8 DEF CopyInv
<1> QED BY <1>9, <1>10, <1>11, <1>12, <1>13

LEMMA ClearRpmKeeps == MigrationInv /\ ClearRpm => MigrationInv'
<1> SUFFICES ASSUME MigrationInv, ClearRpm PROVE MigrationInv'
  OBVIOUS
<1> USE DEF MigrationInv
<1> DEFINE base == BaseAfter[env][rpm.left][rpm.rev][longIds]
           left == {o \in Objects : Has(base, o)}
<1>1. /\ admin = "no" /\ rpmPc = "down" /\ mdPc = "down"
      /\ cleared' = TRUE
      /\ UNCHANGED <<env, faults, md, mdTx, mdPc, glides, unrenamed>>
      /\ \/ admin' = "md" /\ UNCHANGED <<rpm, rpmTx, rpmPc, longIds>>
         \/ /\ base # Broken
            /\ rpm' = [rev |-> 0, left |-> left, log |-> NoRows, events |-> {}]
            /\ rpmTx' = rpm' /\ rpmPc' = "upgrade" /\ admin' = "rpm"
            /\ longIds' = FALSE
  BY DEF ClearRpm, unchangedMd
<1>2. CASE admin' = "md" /\ UNCHANGED <<rpm, rpmTx, rpmPc, longIds>>
  <2>1. MigrationShape' BY <1>1, <1>2, SameStates DEF MigrationShape
  <2> QED BY <1>1, <1>2, <2>1, SameStates DEF LogInv, GlidesInv, EventsInv, CopyInv
<1>3. CASE /\ base # Broken
           /\ rpm' = [rev |-> 0, left |-> left, log |-> NoRows, events |-> {}]
           /\ rpmTx' = rpm' /\ rpmPc' = "upgrade" /\ admin' = "rpm"
           /\ longIds' = FALSE
  <2>1. left \in {{}, Leftovers(env)}
    <3>1. /\ env \in Envs /\ longIds \in BOOLEAN
          /\ rpm.rev \in 0..Len(Revisions[env]) /\ rpm.left \in {{}, Leftovers(env)}
      BY DEF MigrationShape, RailStates, RpmHead
    <3>2. \A r \in 0..Len(Revisions[env]), long \in BOOLEAN :
             BaseAfter[env][rpm.left][r][long] # Broken =>
                {o \in Objects : Has(BaseAfter[env][rpm.left][r][long], o)}
                    \in {{}, Leftovers(env)}
      BY <3>1, SchemaAssumption, Zenon
    <3> QED BY <1>3, <3>1, <3>2, Zenon
  <2> HIDE DEF left, base
  <2>2. rpm' \in RailStates /\ rpm'.log = NoRows /\ rpm'.rev = 0
    BY <1>3, <2>1, Heads, NoPaths DEF RailStates, MigrationShape
  <2>3. MigrationShape' BY <1>1, <1>3, <2>2, SameStates DEF MigrationShape
  <2>4. LogInv' BY <1>1, <1>3, <2>2, NoPaths DEF LogInv
  <2>5. GlidesInv' BY <1>1, <1>3, SameStates DEF GlidesInv
  <2>6. EventsInv' BY <1>1, <1>3, <2>2 DEF EventsInv, NoRows
  <2> QED BY <1>1, <2>3, <2>4, <2>5, <2>6 DEF CopyInv
<1> QED BY <1>1, <1>2, <1>3

LEMMA ClearMdKeeps == MigrationInv /\ ClearMd => MigrationInv'
<1> SUFFICES ASSUME MigrationInv, ClearMd PROVE MigrationInv'
  OBVIOUS
<1> USE DEF MigrationInv
<1>1. /\ admin = "md" /\ mdPc = "down" /\ md' = [rev |-> 0, log |-> NoRows]
      /\ mdTx' = md' /\ mdPc' = "upgrade"
      /\ UNCHANGED <<env, admin, glides, longIds, faults, unrenamed, cleared,
                     rpm, rpmTx, rpmPc>>
  BY DEF ClearMd, unchangedRpm
<1>2. env \in Envs /\ rpmPc = "down" /\ cleared
  BY <1>1 DEF MigrationShape
<1>3. md' \in MdStates /\ md'.rev = 0 /\ md'.log = NoRows
  BY <1>1, <1>2, Heads, NoPaths DEF MdStates
<1>4. MigrationShape' BY <1>1, <1>3, SameStates DEF MigrationShape
<1>5. LogInv' BY <1>1, <1>3 DEF LogInv
<1>6. GlidesInv' BY <1>1, <1>2, <1>3, Heads, SameStates DEF GlidesInv
<1>7. EventsInv' BY <1>1, <1>2, <1>3 DEF EventsInv, NoRows
<1>8. CopyInv' BY <1>1, <1>2 DEF CopyInv
<1> QED BY <1>4, <1>5, <1>6, <1>7, <1>8

LEMMA MigrationNext == MigrationInv /\ [Next]_vars => MigrationInv'
<1> SUFFICES ASSUME MigrationInv, [Next]_vars PROVE MigrationInv'
  OBVIOUS
<1>1. CASE Next
  BY <1>1, StartRpmKeeps, UpgradeRpmKeeps, CommitRpmKeeps, CrashKeeps, StartMdKeeps,
     UpgradeMdKeeps, CommitMdKeeps, ClearRpmKeeps, ClearMdKeeps, TrafficKeeps
  DEF Next, RpmSteps, MdSteps
<1>2. CASE UNCHANGED vars
  BY <1>2, SameStates
  DEF vars, MigrationInv, MigrationShape, LogInv, GlidesInv, EventsInv, CopyInv
<1> QED BY <1>1, <1>2

(***************************************************************************)
(* The theorems                                                            *)
(***************************************************************************)

\* Both databases, and the transactions that upgrade them, keep their types:
\* a clean slate leaves routines only, and there is a legacy log only where
\* there is a legacy table.
THEOREM TypeCorrect == Spec => []TypeOK
<1>1. MigrationInv => TypeOK
  <2> SUFFICES ASSUME MigrationInv PROVE TypeOK
    OBVIOUS
  <2> USE DEF MigrationInv, MigrationShape
  <2>1. /\ rpm.rev \in 0..RpmHead /\ rpm.left \in {{}, Leftovers(env)}
        /\ rpm.log \in [Paths -> Statuses] /\ rpm.events \subseteq Paths
        /\ md.rev \in 0..MdHead /\ md.log \in [Paths -> Statuses]
    BY DEF RailStates, MdStates
  <2>2. rpm.left \subseteq Routines BY <2>1, SchemaAssumption
  <2>3. PathsIn(rpm.log) # {} => Legacy(rpm) BY LegacyMeaning DEF LogInv
  <2>4. rpmTx.rev \in -1..RpmHead /\ mdTx.rev \in -1..MdHead
    BY Heads DEF RailStates, MdStates, NoTx
  <2> QED BY <2>1, <2>2, <2>3, <2>4 DEF TypeOK
<1> QED BY <1>1, MigrationInit, MigrationNext, PTL DEF Spec

\* A running application has the schema and the rules of columns it was
\* written for, and Glides with the new names unless an upload was lost.
THEOREM ApplicationMeetsItsSchema == Spec => []HeadIsCurrent
<1>1. MigrationInv => HeadIsCurrent
  <2> SUFFICES ASSUME MigrationInv PROVE HeadIsCurrent
    OBVIOUS
  <2>1. ASSUME rpmPc = "running" PROVE Schema(rpm) = HeadSchema
    <3>1. /\ env \in Envs /\ rpm.rev = Len(Revisions[env])
          /\ rpm.left \in {{}, Leftovers(env)}
      BY <2>1 DEF MigrationInv, MigrationShape, RailStates, RpmHead
    <3> QED BY <3>1, SchemaAssumption DEF Schema
  <2>2. mdPc = "running" /\ ~unrenamed => glides # "old"
    BY DEF MigrationInv, MigrationShape, GlidesInv
  <2> QED BY <2>1, <2>2 DEF HeadIsCurrent
<1> QED BY <1>1, MigrationInit, MigrationNext, PTL DEF Spec

\* While the manager runs every processed path has its events, although they
\* are deleted in one transaction and their paths reset in another.
THEOREM EventsAreKept == Spec => []ProcessedHasEvents
<1>1. MigrationInv => ProcessedHasEvents
  BY DEF MigrationInv, EventsInv, ProcessedHasEvents
<1> QED BY <1>1, MigrationInit, MigrationNext, PTL DEF Spec

\* Without a clean slate no step makes a path unknown to both databases: what
\* the legacy table forgets was copied, and what was copied is committed.
THEOREM PathsAreKept == Spec => LegacyPathsAreKept
<1> DEFINE Kept == ~cleared' => PathsIn(rpm.log) \cup PathsIn(md.log)
                                 \subseteq PathsIn(rpm'.log) \cup PathsIn(md'.log)
<1>1. MigrationInv /\ [Next]_vars => [Kept]_vars
  <2> SUFFICES ASSUME MigrationInv, Next, ~cleared'
               PROVE  PathsIn(rpm.log) \cup PathsIn(md.log)
                        \subseteq PathsIn(rpm'.log) \cup PathsIn(md'.log)
    OBVIOUS
  <2> USE DEF MigrationInv
  <2>1. CASE UNCHANGED <<rpm, md>> BY <2>1
  <2>2. CASE UpgradeRpm
    <3>1. /\ md.log \in [Paths -> Statuses] /\ rpm' = rpm
          /\ md' \in {md, [md EXCEPT !.log = Reset(@, Recent)]}
      BY <2>2 DEF UpgradeRpm, ResetRecent, MigrationShape, MdStates
    <3>2. md \in MdStates BY DEF MigrationShape
    <3>3. PathsIn(md'.log) = PathsIn(md.log)
      BY <3>1, <3>2, ResetFacts DEF MdStates
    <3> QED BY <3>1, <3>3
  <2>3. CASE CommitRpm
    <3>1. /\ rpmPc = "upgrade" /\ ~cleared /\ rpm' = rpmTx /\ md' = md
      BY <2>3 DEF CommitRpm, unchangedMd
    <3> QED BY <3>1 DEF CopyInv
  <2>4. CASE CommitMd
    <3>1. /\ mdPc = "upgrade" /\ mdTx.rev = MdHead /\ rpm' = rpm /\ ~cleared
          /\ md'.log = (IF md.rev = 0 \/ admin = "md" THEN mdTx.log
                        ELSE [p \in Paths |-> IF mdTx.log[p] = "new"
                                              THEN "new" ELSE md.log[p]])
      BY <2>4 DEF CommitMd, unchangedRpm
    <3>2. admin = "no" /\ mdTx \in MdStates /\ md \in MdStates /\ env \in Envs
      BY <3>1 DEF MigrationShape
    <3>3. CASE md.rev = 0
      <4>1. PathsIn(md.log) = {} BY <3>3, NoPaths DEF LogInv
      <4>2. mdTx.rev > 0 BY <3>1, <3>2, Heads
      <4> QED BY <3>1, <3>3, <4>1, <4>2 DEF CopyInv
    <3>4. CASE md.rev # 0
      <4>1. PathsIn(md.log) \subseteq PathsIn(md'.log)
        BY <3>1, <3>2, <3>4 DEF PathsIn, MdStates, Statuses
      <4> QED BY <3>1, <4>1
    <3> QED BY <3>3, <3>4
  <2>5. ASSUME NEW p \in Paths, Process(p) \/ Announce(p)
        PROVE  PathsIn(rpm.log) \cup PathsIn(md.log)
                 \subseteq PathsIn(rpm'.log) \cup PathsIn(md'.log)
    <3>1. rpm \in RailStates /\ md \in MdStates BY DEF MigrationShape
    <3>2. rpm'.log = rpm.log
      BY <2>5, <3>1 DEF Process, Announce, unchangedRpm, RailStates
    <3>3. md' \in {[md EXCEPT !.log[p] = "new"], [md EXCEPT !.log[p] = "done"]}
      BY <2>5 DEF Process, Announce
    <3>4. PathsIn(md.log) \subseteq PathsIn(md'.log)
      BY <3>1, <3>3 DEF PathsIn, MdStates
    <3> QED BY <3>2, <3>4
  <2>6. ~ClearRpm /\ ~ClearMd
    BY DEF ClearRpm, ClearMd, MigrationShape
  <2> QED
    BY <2>1, <2>2, <2>3, <2>4, <2>5, <2>6
    DEF Next, RpmSteps, MdSteps, StartRpm, CrashRpm, StartMd, UpgradeMd,
        RenameGlides, CrashMd, unchangedRpm, unchangedMd
<1>2. Spec => [][Kept]_vars
  BY <1>1, MigrationInit, MigrationNext, PTL DEF Spec
<1> QED BY <1>2 DEF LegacyPathsAreKept
=============================================================================
