----------------------------- MODULE AlertsExport -----------------------------
(***************************************************************************)
(* The public export of alerts (performance_manager/alerts.py).  A round   *)
(* takes the unprocessed objects of the alerts feed, or all of them when   *)
(* the export has another version, in chunks; it appends the alerts that   *)
(* the export does not have to a local copy, marks the objects of each     *)
(* chunk and uploads the copy at the end.                                  *)
(*                                                                         *)
(* An alert is a pair of id and last_modified_timestamp: its rows are      *)
(* written and recognised together.                                        *)
(***************************************************************************)
EXTENDS Integers, FiniteSets

CONSTANTS
    Objects,      \* day objects of the feed
    Alerts,
    ChunkSize,    \* files of a chunk
    MaxVersion,   \* bound: versions of the export's schema
    NoFile,       \* the local copy does not exist
    MaxTrouble    \* bound: failures and crashes

VARIABLES
    content,  \* alerts of an object in the springboard
    status,   \* its row in metadata_log
    export,   \* alerts and version of the public file; version 0: none
    expected, \* file_version of the running code
    step,     \* "idle", "read", "append", "mark" or "upload"
    match,    \* version_check of the round
    todo,     \* objects not read yet
    chunk,    \* objects of the chunk
    fresh,    \* its new alerts
    known,    \* existing_id_timestamp_pairs
    copy,     \* /tmp/alerts.parquet
    newData,  \* the copy has something to upload
    marked,   \* observer: objects marked as processed in this round
    blind,    \* observer: the download of this round failed
    raced,    \* observer: objects announced between their read and their mark
    cut,      \* observer: objects whose alerts were marked, then lost
    trouble

roundVars == <<step, match, todo, chunk, fresh, known, copy, newData, marked, blind>>
alertVars == <<content, status, export, expected, roundVars, raced, cut, trouble>>

Init ==
    /\ content = [f \in Objects |-> {}] /\ status = [f \in Objects |-> "none"]
    /\ export = [version |-> 0, alerts |-> {}] /\ expected = 1
    /\ step = "idle" /\ match = FALSE /\ todo = {} /\ chunk = {} /\ fresh = {}
    /\ known = {} /\ copy = NoFile /\ newData = FALSE
    /\ marked = {} /\ blind = FALSE /\ raced = {} /\ cut = {} /\ trouble = 0

\* Ingestion writes an object with more alerts, or a first one, and its path
\* is upserted as unprocessed: the object will be read in full again.
Announce(f, more) ==
    /\ more # {} /\ more \cap content[f] = {}
    /\ content' = [content EXCEPT ![f] = @ \cup more]
    /\ status' = [status EXCEPT ![f] = "new"]
    /\ raced' = IF f \in chunk /\ step \in {"append", "mark"}
                THEN raced \cup {f} ELSE raced \ {f}
    /\ cut' = cut \ {f}
    /\ UNCHANGED <<export, expected, roundVars, trouble>>

\* Alerts of objects that were marked without an upload are lost, unless the
\* next round takes all objects.
Unsaved == IF match THEN cut \cup marked ELSE cut

StopRound ==
    /\ step' = "idle" /\ match' = FALSE /\ todo' = {} /\ chunk' = {}
    /\ fresh' = {} /\ known' = {} /\ newData' = FALSE
    /\ marked' = {} /\ blind' = FALSE

\* A new container, of the same version or the next one.
Restart(version) ==
    /\ StopRound /\ copy' = NoFile /\ expected' = version
    /\ cut' = Unsaved
    /\ UNCHANGED <<content, status, export, raced>>

Deploy ==
    /\ expected < MaxVersion /\ Restart(expected + 1) /\ UNCHANGED trouble

Crash ==
    /\ trouble < MaxTrouble /\ trouble' = trouble + 1 /\ Restart(expected)

\* get_alert_files
Selected(all) == {f \in Objects : IF all THEN status[f] # "none" ELSE status[f] = "new"}

\* process_alerts, up to the chunks.  A copy is downloaded only to be
\* updated; the download may fail, after it has removed the old copy.
Begin ==
    /\ step = "idle"
    /\ LET matches == export.version = expected
           files == Selected(~matches)
       IN /\ files # {}
          /\ match' = matches /\ todo' = files
          /\ \/ /\ copy' = IF matches THEN export.alerts ELSE copy
                /\ UNCHANGED <<blind, trouble>>
             \/ /\ matches /\ trouble < MaxTrouble
                /\ copy' = NoFile /\ blind' = TRUE /\ trouble' = trouble + 1
    /\ known' = IF copy' = NoFile THEN {} ELSE copy'
    /\ step' = "read"
    /\ UNCHANGED <<content, status, export, expected, chunk, fresh, newData,
                   marked, raced, cut>>

\* extract_alerts
AlertsOf(files) == UNION {content[f] : f \in files}

\* A chunk, in no particular order.
ReadChunk ==
    /\ step = "read" /\ todo # {}
    /\ \E files \in SUBSET todo :
         /\ Cardinality(files) = IF Cardinality(todo) < ChunkSize
                                 THEN Cardinality(todo) ELSE ChunkSize
         /\ chunk' = files /\ todo' = todo \ files
         /\ fresh' = AlertsOf(files) \ known
         /\ raced' = raced \ files
    /\ step' = "append"
    /\ UNCHANGED <<content, status, export, expected, match, known, copy,
                   newData, marked, blind, cut, trouble>>

\* A chunk without new alerts is not marked.
SkipChunk ==
    /\ step = "append" /\ fresh = {} /\ step' = "read"
    /\ UNCHANGED <<content, status, export, expected, match, todo, chunk, fresh,
                   known, copy, newData, marked, blind, raced, cut, trouble>>

\* Mutant: the pairs of this chunk are forgotten.
AppendOnly ==
    /\ step = "append" /\ fresh # {} /\ step' = "mark"
    /\ copy' = fresh \cup IF copy = NoFile THEN {} ELSE copy
    /\ newData' = TRUE
    /\ UNCHANGED <<content, status, export, expected, match, todo, chunk, known,
                   fresh, marked, blind, raced, cut, trouble>>

\* append_new_records
Append ==
    /\ step = "append" /\ fresh # {} /\ step' = "mark"
    /\ copy' = fresh \cup IF copy = NoFile THEN {} ELSE copy
    /\ newData' = TRUE /\ known' = known \cup fresh
    /\ UNCHANGED <<content, status, export, expected, match, todo, chunk,
                   fresh, marked, blind, raced, cut, trouble>>

SetStatus(s) ==
    status' = [f \in Objects |-> IF f \in chunk THEN s ELSE status[f]]

\* The fail flag of an earlier round stays.
Mark ==
    /\ step = "mark" /\ step' = "read"
    /\ status' = [f \in Objects |->
                    IF f \in chunk /\ status[f] # "failed" THEN "processed"
                    ELSE status[f]]
    /\ marked' = marked \cup chunk
    /\ UNCHANGED <<content, export, expected, match, todo, chunk, fresh, known,
                   copy, newData, blind, raced, cut, trouble>>

\* Any step of a chunk raises, and the chunk is marked as failed.
ChunkFails ==
    /\ step \in {"append", "mark"} /\ trouble < MaxTrouble
    /\ SetStatus("failed") /\ step' = "read" /\ trouble' = trouble + 1
    /\ UNCHANGED <<content, export, expected, match, todo, chunk, fresh, known,
                   copy, newData, marked, blind, raced, cut>>

\* That mark raises too: the round ends without an upload.
RoundFails ==
    /\ step \in {"append", "mark"} /\ trouble < MaxTrouble
    /\ StopRound /\ cut' = Unsaved /\ trouble' = trouble + 1
    /\ UNCHANGED <<content, status, export, expected, copy, raced>>

\* upload_data.  After a round over all objects none is missing; after one
\* that began without the export the others are.
Upload ==
    /\ step = "read" /\ todo = {}
    /\ export' = IF newData THEN [version |-> expected, alerts |-> copy] ELSE export
    /\ cut' = IF ~newData THEN cut
              ELSE IF blind THEN cut \cup (Objects \ marked)
              ELSE IF match THEN cut ELSE {}
    /\ StopRound
    /\ UNCHANGED <<content, status, expected, copy, raced, trouble>>

\* Its result is ignored.
UploadFails ==
    /\ step = "read" /\ todo = {} /\ newData /\ trouble < MaxTrouble
    /\ StopRound /\ cut' = Unsaved /\ trouble' = trouble + 1
    /\ UNCHANGED <<content, status, export, expected, copy, raced>>

Next ==
    \/ \E f \in Objects, more \in SUBSET Alerts : Announce(f, more)
    \/ Deploy \/ Crash \/ Begin \/ ReadChunk \/ SkipChunk \/ Append \/ Mark
    \/ ChunkFails \/ RoundFails \/ Upload \/ UploadFails

Spec == Init /\ [][Next]_alertVars

(***************************************************************************)
(* Properties                                                              *)
(***************************************************************************)

\* Type invariant.
TypeOK ==
    /\ content \in [Objects -> SUBSET Alerts]
    /\ status \in [Objects -> {"none", "new", "processed", "failed"}]
    /\ export.version <= expected /\ export.alerts \subseteq Alerts
    /\ step \in {"idle", "read", "append", "mark"}
    /\ todo \cup chunk \cup marked \cup raced \cup cut \subseteq Objects
    /\ todo \cap chunk = {}
    /\ copy # NoFile => copy \subseteq Alerts

\* While the export has the version of the code, the alerts of every
\* processed object are in it between rounds, unless a round lost them by its
\* end between mark and upload, or took an unread export for none, or the
\* object was announced between its read and its mark; a round over all
\* objects, after a new version, repairs these losses.  No alert is appended
\* to a copy that has it: its rows are there once.
AlertsAreExported ==
    /\ step = "idle" /\ export.version = expected =>
          \A f \in Objects \ (raced \cup cut) :
             status[f] = "processed" => content[f] \subseteq export.alerts
    /\ step = "append" /\ copy # NoFile => fresh \cap copy = {}
=============================================================================
