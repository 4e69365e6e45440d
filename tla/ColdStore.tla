----------------------------- MODULE ColdStore -----------------------------
(***************************************************************************)
(* The cold-store uploader of internal/infrastructure/persistence/minio:  *)
(* ColdStore.Upload (bucket ensure with retries, put with retries, spool   *)
(* on exhaustion), the disk spool and the spool-metadata ledger, and the   *)
(* background uploader that runs FlushSpool on every tick.                 *)
(*                                                                         *)
(* Every goroutine that calls Upload is a process with a program counter:  *)
(* the direct callers (event/detection export, rules snapshot) and the     *)
(* flusher goroutines (one per process that called                         *)
(* StartBackgroundUploader).  Each retry attempt is one step, so uploads   *)
(* and flushes interleave.  The object store answers each attempt with     *)
(* success, failure, or failure reported after the object was committed    *)
(* (a request timeout racing a late answer).  A crash restarts every       *)
(* goroutine; the spool directory, the ledger table and the bucket         *)
(* survive it.                                                             *)
(*                                                                         *)
(* Bytes are abstracted to a record: the caller's payload d and whether    *)
(* the bytes are gzip-framed.  A caller's object key embeds the time of   *)
(* the call (events-<host>-<unix>.ndjson.gz, <rfc3339>-rules.yml), so each *)
(* call has its own key, CallKey(d); a spool file's key is                 *)
(* <<"spooled", id>> for its random suffix id.                             *)
(***************************************************************************)
EXTENDS Naturals, FiniteSets, Functions, TLC

CONSTANTS
    Callers,     \* goroutines calling Upload directly (exports, snapshot)
    Flushers,    \* goroutines running the ticker loop of StartBackgroundUploader
    Payloads,    \* distinct payloads handed to Upload (model values)
    SpoolIds,    \* random hex suffixes of spool file names (model values)
    MaxRetries,  \* const maxRetries = 3 in Upload
    MaxCrashes,  \* bound on process crashes
    NoJob,       \* model value: the process has no Upload in progress
    NoFile       \* model value: the flusher has no current spool file

ASSUME Callers \cap Flushers = {}
ASSUME MaxRetries \in Nat \ {0} /\ MaxCrashes \in Nat

Procs == Callers \cup Flushers

Bytes == [d : Payloads, gz : BOOLEAN]

SpooledKey(id) == <<"spooled", id>>

CallKey(d) == <<"call", d>>

Keys == {CallKey(d) : d \in Payloads} \cup {SpooledKey(id) : id \in SpoolIds}

Job == [key : Keys, gzipped : BOOLEAN, data : Bytes]

VARIABLES
    spool,      \* spool directory: spool file id -> bytes in the .part file
    ledger,     \* spool_items table: id -> [orig |-> intended object path]
    store,      \* the bucket: object key -> stored bytes
    pc,         \* program counter of each goroutine
    job,        \* arguments of the Upload call in progress
    attempt,    \* loop index i of the retry loop in progress
    spoolId,    \* id returned by Spool.Enqueue, used by saveSpoolMeta
    fqueue,     \* files of the current FlushSpool iteration not yet handled
    fcur,       \* the spool file the flusher is handling
    sent,       \* payloads callers have handed to Upload (history)
    acked,      \* payloads for which Upload returned nil to a caller (history)
    usedIds,    \* spool ids ever created (history: names are never reused)
    crashes

vars == <<spool, ledger, store, pc, job, attempt, spoolId, fqueue, fcur,
          sent, acked, usedIds, crashes>>

PCs == {"idle", "ensure", "put", "spool", "meta",    \* Upload
        "next", "remove", "delete"}                   \* FlushSpool

TypeOK ==
    /\ DOMAIN spool \subseteq SpoolIds /\ \A i \in DOMAIN spool : spool[i] \in Bytes
    /\ DOMAIN ledger \subseteq SpoolIds /\ \A i \in DOMAIN ledger : ledger[i] \in [orig : Keys]
    /\ DOMAIN store \subseteq Keys /\ \A k \in DOMAIN store : store[k] \in Bytes
    /\ pc \in [Procs -> PCs]
    /\ \A p \in Callers : pc[p] \in {"idle", "ensure", "put", "spool", "meta"}
    /\ job \in [Procs -> Job \cup {NoJob}]
    /\ attempt \in [Procs -> 0..(MaxRetries - 1)]
    /\ spoolId \in [Procs -> SpoolIds \cup {NoFile}]
    /\ fqueue \in [Flushers -> SUBSET SpoolIds]
    /\ fcur \in [Flushers -> SpoolIds \cup {NoFile}]
    /\ acked \subseteq sent /\ sent \subseteq Payloads
    /\ DOMAIN spool \cup DOMAIN ledger \subseteq usedIds /\ usedIds \subseteq SpoolIds
    /\ crashes \in 0..MaxCrashes

Init ==
    /\ spool = << >>
    /\ ledger = << >>
    /\ store = << >>
    /\ pc = [p \in Procs |-> "idle"]
    /\ job = [p \in Procs |-> NoJob]
    /\ attempt = [p \in Procs |-> 0]
    /\ spoolId = [p \in Procs |-> NoFile]
    /\ fqueue = [f \in Flushers |-> {}]
    /\ fcur = [f \in Flushers |-> NoFile]
    /\ sent = {}
    /\ acked = {}
    /\ usedIds = {}
    /\ crashes = 0

-----------------------------------------------------------------------------
(* Helpers.                                                                *)

\* f without the entry for x (os.Remove / DELETE of a missing entry is a no-op)
Without(f, x) == Restrict(f, DOMAIN f \ {x})

\* The body PutObject sends: the bytes as given when gzipped, else the
\* in-memory gzip of them.
Body(j) == IF j.gzipped THEN j.data ELSE [d |-> j.data.d, gz |-> TRUE]

\* Mutant of Return: FlushSpool ignores Upload's error (_ = cs.Upload(...))
\* and removes the spool file anyway.
ReturnIgnoringFlushError(p, ok) ==
    /\ job' = [job EXCEPT ![p] = NoJob]
    /\ attempt' = [attempt EXCEPT ![p] = 0]
    /\ spoolId' = [spoolId EXCEPT ![p] = NoFile]
    /\ IF p \in Flushers
          THEN /\ pc' = [pc EXCEPT ![p] = "remove"]
               /\ UNCHANGED <<fqueue, acked>>
          ELSE /\ pc' = [pc EXCEPT ![p] = "idle"]
               /\ fqueue' = fqueue
               /\ acked' = IF ok THEN acked \cup {job[p].data.d} ELSE acked

\* Upload returns to its caller: nil (ok) or an error.  A direct caller is
\* done; the flusher goes on to Spool.Remove on nil and aborts the
\* iteration (FlushSpool returns err) otherwise.
Return(p, ok) ==
    /\ job' = [job EXCEPT ![p] = NoJob]
    /\ attempt' = [attempt EXCEPT ![p] = 0]
    /\ spoolId' = [spoolId EXCEPT ![p] = NoFile]
    /\ IF p \in Flushers
          THEN /\ pc' = [pc EXCEPT ![p] = IF ok THEN "remove" ELSE "idle"]
               /\ fqueue' = IF ok THEN fqueue ELSE [fqueue EXCEPT ![p] = {}]
               /\ acked' = acked
          ELSE /\ pc' = [pc EXCEPT ![p] = "idle"]
               /\ fqueue' = fqueue
               /\ acked' = IF ok THEN acked \cup {job[p].data.d} ELSE acked

\* Mutant of Retry: off-by-one loop bound (i <= maxRetries).
RetryOffByOne(p) ==
    IF attempt[p] + 1 <= MaxRetries
       THEN /\ attempt' = [attempt EXCEPT ![p] = attempt[p] + 1]
            /\ UNCHANGED pc
       ELSE /\ attempt' = [attempt EXCEPT ![p] = 0]
            /\ pc' = [pc EXCEPT ![p] = "spool"]

\* A failed attempt of a retry loop: retry, or spool after the last one.
Retry(p) ==
    IF attempt[p] + 1 < MaxRetries
       THEN /\ attempt' = [attempt EXCEPT ![p] = attempt[p] + 1]
            /\ UNCHANGED pc
       ELSE /\ attempt' = [attempt EXCEPT ![p] = 0]
            /\ pc' = [pc EXCEPT ![p] = "spool"]

-----------------------------------------------------------------------------
(* ColdStore.Upload.                                                       *)

\* A direct caller starts Upload(ctx, objectPath, contentType, gzipped,
\* data) with a payload it has not sent before.
UploadCall(p, gzipped) ==
    /\ pc[p] = "idle"
    /\ \E d \in Payloads \ sent :
          /\ job' = [job EXCEPT ![p] = [key |-> CallKey(d), gzipped |-> gzipped,
                                        data |-> [d |-> d, gz |-> gzipped]]]
          /\ sent' = sent \cup {d}
    /\ pc' = [pc EXCEPT ![p] = "ensure"]
    /\ UNCHANGED <<spool, ledger, store, attempt, spoolId, fqueue, fcur, acked, usedIds, crashes>>

\* ExportEventsUsecase.ExportDaily: a failed List returns before Upload (no
\* state changes); otherwise the NDJSON bundle is gzip-framed and uploaded
\* with gzipped=true.
ExportEvents(p) == UploadCall(p, TRUE)

\* ExportDetectionsUsecase.ExportDaily: the same for the detections table.
ExportDetections(p) == UploadCall(p, TRUE)

\* ColdStore.SnapshotRules uploads the raw rules YAML with gzipped=false
\* (its path normalisation is the ObjectPath module).
SnapshotRules(p) == UploadCall(p, FALSE)

\* One iteration of the ensure-bucket loop: Client.EnsureBucket succeeds
\* (break) or fails (sleep, next attempt; spool after maxRetries).
EnsureBucketOk(p) ==
    /\ pc[p] = "ensure"
    /\ pc' = [pc EXCEPT ![p] = "put"]
    /\ attempt' = [attempt EXCEPT ![p] = 0]
    /\ UNCHANGED <<spool, ledger, store, job, spoolId, fqueue, fcur, sent, acked, usedIds, crashes>>

EnsureBucketFail(p) ==
    /\ pc[p] = "ensure"
    /\ Retry(p)
    /\ UNCHANGED <<spool, ledger, store, job, spoolId, fqueue, fcur, sent, acked, usedIds, crashes>>

\* One iteration of the put loop that succeeds: the object is stored under
\* filepath.Join(cs.Prefix, objectPath) and Upload returns nil.
PutObjectOk(p) ==
    /\ pc[p] = "put"
    /\ store' = (job[p].key :> Body(job[p])) @@ store
    /\ Return(p, TRUE)
    /\ UNCHANGED <<spool, ledger, fcur, sent, usedIds, crashes>>

\* One iteration that returns an error.  committed: the request timed out
\* after the store had already written the object.
PutObjectFail(p) ==
    /\ pc[p] = "put"
    /\ \E committed \in BOOLEAN :
          store' = IF committed THEN (job[p].key :> Body(job[p])) @@ store
                                ELSE store
    /\ Retry(p)
    /\ UNCHANGED <<spool, ledger, job, spoolId, fqueue, fcur, sent, acked, usedIds, crashes>>

\* Retries exhausted: cs.Spool.Enqueue("", data) writes the input bytes as
\* given (not the gzipped body) to a new .part file.  Its name
\* YYYYMMDD-HHMMSS-<hex>.part is never reused: a fresh id.
SpoolEnqueue(p) ==
    /\ pc[p] = "spool"
    /\ \E id \in SpoolIds \ usedIds :
          /\ spool' = (id :> job[p].data) @@ spool
          /\ spoolId' = [spoolId EXCEPT ![p] = id]
          /\ usedIds' = usedIds \cup {id}
    /\ pc' = [pc EXCEPT ![p] = "meta"]
    /\ UNCHANGED <<ledger, store, job, attempt, fqueue, fcur, sent, acked, crashes>>

\* Enqueue fails (disk error): Upload returns e2.
SpoolEnqueueFail(p) ==
    /\ pc[p] = "spool"
    /\ Return(p, FALSE)
    /\ UNCHANGED <<spool, ledger, store, fcur, sent, usedIds, crashes>>

\* saveSpoolMeta: SpoolMeta.Save of {id, kind=upload, original_path}; an
\* error is only logged.  Upload then returns nil.
SaveSpoolMeta(p) ==
    /\ pc[p] = "meta"
    /\ \E saved \in BOOLEAN :
          ledger' = IF saved THEN (spoolId[p] :> [orig |-> job[p].key]) @@ ledger
                             ELSE ledger
    /\ Return(p, TRUE)
    /\ UNCHANGED <<spool, store, fcur, sent, usedIds, crashes>>

-----------------------------------------------------------------------------
(* ColdStore.FlushSpool, run by the ticker loop of StartBackgroundUploader. *)

\* Mutant of FlushTick: the flush iterates the ledger rows instead of the
\* spool directory, so a file whose row was never saved is never listed.
FlushTickFromLedger(f) ==
    /\ pc[f] = "idle"
    /\ fqueue' = [fqueue EXCEPT ![f] = DOMAIN ledger]
    /\ pc' = [pc EXCEPT ![f] = "next"]
    /\ UNCHANGED <<spool, ledger, store, job, attempt, spoolId, fcur, sent, acked, usedIds, crashes>>

\* A tick: Spool.List() snapshots the .part files present now.
FlushTick(f) ==
    /\ pc[f] = "idle"
    /\ fqueue' = [fqueue EXCEPT ![f] = DOMAIN spool]
    /\ pc' = [pc EXCEPT ![f] = "next"]
    /\ UNCHANGED <<spool, ledger, store, job, attempt, spoolId, fcur, sent, acked, usedIds, crashes>>

\* The loop body: ReadFile of the next listed file (an error, e.g. the file
\* is gone, aborts the iteration), then Upload("spooled/"+name,
\* "application/octet-stream", gzipped=true, data).  An exhausted list ends
\* the iteration.
FlushNext(f) ==
    /\ pc[f] = "next"
    /\ \/ /\ fqueue[f] = {}
          /\ pc' = [pc EXCEPT ![f] = "idle"]
          /\ UNCHANGED <<job, fqueue, fcur>>
       \/ \E id \in fqueue[f] :
            IF id \in DOMAIN spool
               THEN /\ job' = [job EXCEPT ![f] = [key |-> SpooledKey(id),
                                gzipped |-> TRUE, data |-> spool[id]]]
                    /\ fcur' = [fcur EXCEPT ![f] = id]
                    /\ fqueue' = [fqueue EXCEPT ![f] = fqueue[f] \ {id}]
                    /\ pc' = [pc EXCEPT ![f] = "ensure"]
               ELSE /\ fqueue' = [fqueue EXCEPT ![f] = {}]
                    /\ pc' = [pc EXCEPT ![f] = "idle"]
                    /\ UNCHANGED <<job, fcur>>
    /\ UNCHANGED <<spool, ledger, store, attempt, spoolId, sent, acked, usedIds, crashes>>

\* Upload returned nil: _ = cs.Spool.Remove(f).
FlushRemove(f) ==
    /\ pc[f] = "remove"
    /\ spool' = Without(spool, fcur[f])
    /\ pc' = [pc EXCEPT ![f] = "delete"]
    /\ UNCHANGED <<ledger, store, job, attempt, spoolId, fqueue, fcur, sent, acked, usedIds, crashes>>

\* _ = cs.SpoolMeta.DeleteByID(ctx, extractSpoolID(name)); the error is
\* ignored.  Then the next listed file.
FlushDeleteMeta(f) ==
    /\ pc[f] = "delete"
    /\ \E deleted \in BOOLEAN :
          ledger' = IF deleted THEN Without(ledger, fcur[f]) ELSE ledger
    /\ fcur' = [fcur EXCEPT ![f] = NoFile]
    /\ pc' = [pc EXCEPT ![f] = "next"]
    /\ UNCHANGED <<spool, store, job, attempt, spoolId, fqueue, sent, acked, usedIds, crashes>>

\* The process dies and restarts: every goroutine starts over; the spool
\* directory, the ledger table and the bucket survive.
Crash ==
    /\ crashes < MaxCrashes
    /\ crashes' = crashes + 1
    /\ pc' = [p \in Procs |-> "idle"]
    /\ job' = [p \in Procs |-> NoJob]
    /\ attempt' = [p \in Procs |-> 0]
    /\ spoolId' = [p \in Procs |-> NoFile]
    /\ fqueue' = [f \in Flushers |-> {}]
    /\ fcur' = [f \in Flushers |-> NoFile]
    /\ UNCHANGED <<spool, ledger, store, sent, acked, usedIds>>

-----------------------------------------------------------------------------
UploadStep(p) ==
    \/ EnsureBucketOk(p) \/ EnsureBucketFail(p)
    \/ PutObjectOk(p) \/ PutObjectFail(p)
    \/ SpoolEnqueue(p) \/ SpoolEnqueueFail(p)
    \/ SaveSpoolMeta(p)

FlushStep(f) ==
    FlushTick(f) \/ FlushNext(f) \/ FlushRemove(f) \/ FlushDeleteMeta(f)

Next ==
    \/ \E p \in Callers : ExportEvents(p) \/ ExportDetections(p) \/ SnapshotRules(p)
    \/ \E p \in Procs : UploadStep(p)
    \/ \E f \in Flushers : FlushStep(f)
    \/ Crash

Spec == Init /\ [][Next]_vars

(***************************************************************************)
(* Fairness.  A running goroutine keeps taking steps (nothing in Upload or *)
(* FlushSpool blocks for ever: every request has a transport timeout) and  *)
(* the ticker keeps firing, so every goroutine is weakly fair.  The object *)
(* store is assumed to come back: a flusher that keeps retrying is         *)
(* eventually answered with success (strong fairness of the success        *)
(* outcomes of the flusher's attempts).  Callers get no such assumption.   *)
(***************************************************************************)
Fairness ==
    /\ \A p \in Procs : WF_vars(UploadStep(p))
    /\ \A f \in Flushers : WF_vars(FlushStep(f))
    /\ \A f \in Flushers : SF_vars(EnsureBucketOk(f)) /\ SF_vars(PutObjectOk(f))

FairSpec == Spec /\ Fairness

-----------------------------------------------------------------------------
(* Properties.                                                             *)

ArchivedIn(s, d) == \E k \in DOMAIN s : s[k].d = d
Archived(d) == ArchivedIn(store, d)
Spooled(d) == \E i \in DOMAIN spool : spool[i].d = d

\* At-least-once: once Upload has returned nil to a caller, the payload is
\* in the bucket or in a spool file, across retries, re-spooling by the
\* flusher, concurrent flushers and crashes.
NoAcknowledgedLoss == \A d \in acked : Archived(d) \/ Spooled(d)

\* Every payload Upload acknowledged eventually reaches the bucket, through
\* the flusher's retries, once the store answers (orphan spool files with
\* no ledger row included).
EventuallyArchived == \A d \in Payloads : d \in acked ~> Archived(d)

\* FlushSpool deletes a spool file only after its bytes are in the bucket
\* (spec 4.H: "On success delete both the file and the ledger row. Any
\* upload failure aborts the current flush iteration and leaves remaining
\* files for the next tick").
FlushRemovesOnlyArchived ==
    [][\A i \in DOMAIN spool \ DOMAIN spool' : ArchivedIn(store', spool[i].d)]_vars

\* A ledger row whose spool file is gone is eventually deleted (spec 3:
\* "an orphan ledger row (no file) is deleted on next flush").
OrphanRowsReconciled ==
    \A i \in SpoolIds :
        (i \in DOMAIN ledger /\ i \notin DOMAIN spool) ~> i \notin DOMAIN ledger
=============================================================================
