--------------------------- MODULE IngestionLedger ---------------------------
(***************************************************************************)
(* What the ingestion application promises about one feed, without its     *)
(* buckets, caches and retries (ingestion/README.md, "Event Loop           *)
(* Summary"): a raw file that was handed over waits until its rows are in  *)
(* the springboard and is then accepted (archive bucket), or is rejected   *)
(* (error bucket).  Published rows are never taken back.                   *)
(***************************************************************************)
EXTENDS Naturals

CONSTANTS Files,      \* the raw feed files
          Rowless     \* the files whose feed has no entity, thus no rows

VARIABLES waiting,    \* files handed over and not settled yet
          published,  \* files whose rows consumers can read
          accepted,   \* files settled successfully
          rejected    \* files settled as faulty

ledger == <<waiting, published, accepted, rejected>>

LedgerInit ==
    /\ waiting = {}
    /\ published = {}
    /\ accepted = {}
    /\ rejected = {}

\* A new file is handed over.
Submit(f) ==
    /\ f \notin waiting \cup accepted \cup rejected
    /\ waiting' = waiting \cup {f}
    /\ UNCHANGED <<published, accepted, rejected>>

\* The rows of some files that are not accepted yet appear at once.
Publish(S) ==
    /\ S \cap accepted = {}
    /\ published' = published \cup S
    /\ UNCHANGED <<waiting, accepted, rejected>>

\* A file is accepted only when all its rows are out.
Accept(f) ==
    /\ f \in (waiting \cup rejected) \cap (published \cup Rowless)
    /\ accepted' = accepted \cup {f}
    /\ waiting' = waiting \ {f}
    /\ UNCHANGED <<published, rejected>>

Reject(f) ==
    /\ f \in waiting \cup accepted
    /\ rejected' = rejected \cup {f}
    /\ waiting' = waiting \ {f}
    /\ UNCHANGED <<published, accepted>>

LedgerNext ==
    \/ \E f \in Files : Submit(f) \/ Accept(f) \/ Reject(f)
    \/ \E S \in SUBSET Files : Publish(S)

LedgerSpec == LedgerInit /\ [][LedgerNext]_ledger
=============================================================================
