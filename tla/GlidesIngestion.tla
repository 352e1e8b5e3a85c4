---------------------------- MODULE GlidesIngestion ----------------------------
(***************************************************************************)
(* The archive of Glides events (ingestion/glides.py, aws/kinesis.py).  A  *)
(* round downloads the file of each kind of event, reads the records of    *)
(* the stream since the last round, and for one kind after the other joins *)
(* the new records with the file, uploads it and queues its path.          *)
(*                                                                         *)
(* The place in the stream is only in memory: a new container reads again  *)
(* all that the stream still has.  A record is its sequence number; an     *)
(* absent file is one without records.                                     *)
(***************************************************************************)
EXTENDS Integers, Sequences

CONSTANTS
    Kinds,       \* number of converters, in their order
    MaxRecords,  \* bound: length of the stream
    MaxTrouble   \* bound: failures, crashes and expired iterators

VARIABLES
    stream,    \* records as put into the stream: kind and fitness
    horizon,   \* number of records the stream has dropped
    iterator,  \* shard_iterator: next sequence number, 0 for None
    last,      \* last_sequence_number, 0 for None
    step,      \* "idle", "read" or "append"
    records,   \* readable records of the round
    kind,      \* next converter to append
    local,     \* local file of each kind
    remote,    \* file of each kind in the springboard
    unread,    \* observer: kinds whose download failed in this round
    passed,    \* observer: records behind the iterator of some container
    lost,      \* observer: those of them that a named fault keeps from the files
    trouble

readerVars == <<iterator, last>>
fileVars == <<local, remote, unread>>
glidesVars == <<stream, horizon, readerVars, step, records, kind, fileVars,
                passed, lost, trouble>>

\* "garbled" is no JSON, "unknown" has no key of a converter, and "misfit"
\* has one but not the types of its schema.
Fitness == {"good", "misfit", "unknown", "garbled"}

OfKind(set, k) == {p \in set : stream[p].kind = k /\ stream[p].fitness # "unknown"}
Good == {p \in DOMAIN stream : stream[p].fitness = "good"}
Absent == {p \in Good : p \notin remote[stream[p].kind]}
Fail == trouble < MaxTrouble /\ trouble' = trouble + 1

Init ==
    /\ stream = <<>> /\ horizon = 0 /\ iterator = 0 /\ last = 0
    /\ step = "idle" /\ records = {} /\ kind = 1
    /\ local = [k \in 1..Kinds |-> {}] /\ remote = [k \in 1..Kinds |-> {}]
    /\ unread = {} /\ passed = {} /\ lost = {} /\ trouble = 0

Put(k, fitness) ==
    /\ Len(stream) < MaxRecords /\ (fitness \in {"unknown", "garbled"} => k = 1)
    /\ stream' = Append(stream, [kind |-> k, fitness |-> fitness])
    /\ UNCHANGED <<horizon, readerVars, step, records, kind, fileVars, passed,
                   lost, trouble>>

\* The oldest record is older than the retention of the stream.
Expire ==
    /\ horizon < Len(stream) /\ horizon' = horizon + 1
    /\ UNCHANGED <<stream, readerVars, step, records, kind, fileVars, passed,
                   lost, trouble>>

\* The converters download their files; a download that fails leaves none.
Begin ==
    /\ step = "idle" /\ step' = "read"
    /\ \E failed \in SUBSET (1..Kinds) :
         /\ failed # {} => Fail
         /\ failed = {} => UNCHANGED trouble
         /\ unread' = failed
         /\ local' = [k \in 1..Kinds |-> IF k \in failed THEN {} ELSE remote[k]]
    /\ records' = {} /\ kind' = 1
    /\ UNCHANGED <<stream, horizon, readerVars, remote, passed, lost>>

\* update_shard_iterator: at first, or for an iterator that has expired.
UpdateIterator ==
    /\ step = "read"
    /\ IF iterator = 0 THEN UNCHANGED trouble ELSE Fail
    /\ iterator' = IF last = 0 THEN horizon + 1 ELSE last + 1
    /\ UNCHANGED <<stream, horizon, last, step, records, kind, fileVars, passed, lost>>

\* A response of the stream.  The iterator moves on before the records are
\* parsed; the first that is not JSON ends the reading, and those behind it
\* are not returned.
GetRecords ==
    /\ step = "read" /\ iterator # 0
    /\ LET first == IF iterator > horizon THEN iterator ELSE horizon + 1
       IN \E end \in (first - 1)..Len(stream) :
            LET batch == first..end
                garbled == {p \in batch : stream[p].fitness = "garbled"}
                read == {p \in batch : \A q \in garbled : p < q}
            IN /\ first <= Len(stream) => batch # {}
               /\ iterator' = end + 1
               /\ last' = IF batch = {} THEN last
                          ELSE IF garbled = {} THEN end
                          ELSE CHOOSE q \in garbled : \A p \in garbled : q <= p
               /\ records' = records \cup read
               /\ passed' = passed \cup batch
               /\ lost' = (lost \ read) \cup ((batch \ read) \cap Absent)
               /\ step' = IF garbled # {} \/ end = Len(stream) THEN "append" ELSE "read"
    /\ UNCHANGED <<stream, horizon, kind, fileVars, trouble>>

\* Another error of the client: the round goes on with what it has.
ReadFails ==
    /\ step = "read" /\ step' = "append" /\ Fail
    /\ UNCHANGED <<stream, horizon, readerVars, records, kind, fileVars, passed, lost>>

\* Mutant: the file has the new records only.
NewOnly(k) == OfKind(records, k)

\* Mutant: the converters share one list of records.
SharedRecords(k) == records \cup local[k]

\* append_records: the rows are unique.
Joined(k) == OfKind(records, k) \cup local[k]

\* The upload may fail, and its result is ignored.  A file that was not
\* downloaded is overwritten.
AppendRecords ==
    /\ step = "append" /\ OfKind(records, kind) \subseteq Good
    /\ local' = [local EXCEPT ![kind] = Joined(kind)]
    /\ \/ /\ remote' = [remote EXCEPT ![kind] = local'[kind]]
          /\ lost' = (lost \cup IF kind \in unread THEN remote[kind] ELSE {})
                       \ local'[kind]
          /\ UNCHANGED trouble
       \/ /\ Fail
          /\ lost' = lost \cup (OfKind(records, kind) \ remote[kind])
          /\ UNCHANGED remote
    /\ IF kind < Kinds THEN kind' = kind + 1 /\ UNCHANGED step
                       ELSE kind' = 1 /\ step' = "idle"
    /\ UNCHANGED <<stream, horizon, readerVars, records, unread, passed>>

\* The records of this and the later converters that their files lack.
Unsaved == {p \in records \cap Absent : stream[p].kind >= kind}

\* convert_records raises: the round ends, for the later converters too.
ConvertFails ==
    /\ step = "append" /\ ~(OfKind(records, kind) \subseteq Good)
    /\ step' = "idle" /\ kind' = 1 /\ lost' = lost \cup Unsaved
    /\ UNCHANGED <<stream, horizon, readerVars, records, fileVars, passed, trouble>>

\* The next container starts at the horizon: it will pass again what the
\* stream still has.
Crash ==
    /\ Fail
    /\ step' = "idle" /\ kind' = 1 /\ records' = {} /\ iterator' = 0 /\ last' = 0
    /\ local' = [k \in 1..Kinds |-> {}] /\ unread' = {}
    /\ LET gone == IF step = "idle" THEN lost ELSE lost \cup Unsaved
       IN /\ passed' = passed \ {p \in gone : p > horizon}
          /\ lost' = {p \in gone : p <= horizon}
    /\ UNCHANGED <<stream, horizon, remote>>

Next ==
    \/ \E k \in 1..Kinds, fitness \in Fitness : Put(k, fitness)
    \/ Expire \/ Begin \/ UpdateIterator \/ GetRecords \/ ReadFails
    \/ AppendRecords \/ ConvertFails \/ Crash

Spec == Init /\ [][Next]_glidesVars

(***************************************************************************)
(* Properties                                                              *)
(***************************************************************************)

\* Type invariant.
TypeOK ==
    /\ stream \in Seq([kind : 1..Kinds, fitness : Fitness])
    /\ horizon <= Len(stream) /\ iterator <= Len(stream) + 1 /\ last <= Len(stream)
    /\ step \in {"idle", "read", "append"} /\ kind \in 1..Kinds
    /\ records \subseteq passed /\ passed \subseteq DOMAIN stream
    /\ lost \subseteq Good \cap passed /\ unread \subseteq 1..Kinds
    /\ \A k \in 1..Kinds : local[k] \cup remote[k] \subseteq OfKind(Good, k)

\* Between rounds every good record that the reader has passed is in the file
\* of its kind, unless a named fault has lost it: a garbled
\* record before it in the same response, a misfit of its or an earlier
\* kind in the same round, a failed upload, a file overwritten after a failed
\* download.  A new container repairs these losses as far as the stream still
\* has the records, and so does an iterator that expires right after a garbled
\* record.
GlidesAreKept ==
    step = "idle" =>
        \A k \in 1..Kinds : OfKind((passed \cap Good) \ lost, k) \subseteq remote[k]
=============================================================================
