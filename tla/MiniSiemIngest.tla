--------------------------- MODULE MiniSiemIngest ---------------------------
(***************************************************************************)
(* Event ingest and decisions of mini-siem-api, beside rule management     *)
(* (MiniSiemRules): the handlers PostEvents (api/handlers/ingest.go) and   *)
(* PostDecisions (decisions.go), MarshalEvents and the ToDomain mappers    *)
(* (dto.go), EventService.Ingest, IngestBatch and persistDetections,       *)
(* RuleEngine.Evaluate, DecisionService.Create, the event, detection and  *)
(* decision repositories, and the best-effort archiver.                   *)
(*                                                                         *)
(* An ingest request is a goroutine of its own and runs in steps: the      *)
(* decode and the SaveBatch transaction (Ingest's single Save behaves the  *)
(* same), one step per event (ArchiveEvent, then Evaluate under the        *)
(* engine's read lock, so rule reloads interleave inside a batch), and     *)
(* persistDetections with its BatchCreate transaction and the answer.      *)
(* Tables are sequences whose indices are the ids the database assigns.   *)
(* A message is a model value; Match gives the patterns it matches.       *)
(* Archive puts are best effort and their errors ignored; archived holds  *)
(* the puts that succeed, and as a failed put only leaves an object out,  *)
(* the model lets every put succeed.                                       *)
(***************************************************************************)
EXTENDS MiniSiemRules, Integers, Sequences, SequencesExt

CONSTANTS
    Ingesters,    \* concurrent POST /events and POST /decisions goroutines
    Msgs,         \* event messages
    Match,        \* message -> the patterns whose regex matches it
    BadItem,      \* an event item ToDomain refuses (no message, bad severity)
    NoBody,       \* a body that cannot be read or is not an event or array
    BadDecision,  \* a decision payload Decode or ToDomain refuses
    MaxBatch,     \* bound on the events of one request
    MaxIngests    \* bound on the requests of the ingesters

ASSUME Match \in [Msgs -> SUBSET Patterns]

Det == [event : Nat, rule : Ids, pattern : Patterns]

VARIABLES
    events,       \* the events table: id -> message
    detections,   \* the detections table: id -> Det
    decisions,    \* the decisions table: id -> DetectionID
    archived,     \* objects the archiver put: [kind, id]
    ipc,          \* per ingester: "idle", "evaluate" or "persist"
    batch,        \* the events of the request being served
    ids,          \* the ids SaveBatch gave them
    next,         \* the loop index of IngestBatch
    found,        \* allDetections
    evaluated,    \* history: event id -> the engine it was evaluated under
    iresp,        \* the status of the ingester's request (0: none yet)
    page,         \* the row ids the ingester's last GET answered with
    ingests

ivars == <<events, detections, decisions, archived, ipc, batch, ids, next,
           found, evaluated, iresp, page, ingests>>
allVars == <<vars, ivars>>

Payloads == {NoBody} \cup UNION {[1..n -> Msgs \cup {BadItem}] : n \in 0..MaxBatch}

ITypeOK ==
    /\ TypeOK
    /\ events \in Seq(Msgs)
    /\ \A j \in DOMAIN detections : detections[j] \in Det
    /\ \A j \in DOMAIN decisions : decisions[j] \in Nat
    /\ archived \subseteq [kind : {"events", "detections"}, id : Nat]
    /\ ipc \in [Ingesters -> {"idle", "evaluate", "persist"}]
    /\ \A i \in Ingesters : batch[i] \in Seq(Msgs) /\ Len(batch[i]) <= MaxBatch
    /\ next \in [Ingesters -> 1..(MaxBatch + 1)]
    /\ \A i \in Ingesters : found[i] \subseteq Det
    /\ iresp \in [Ingesters -> {0, 200, 201, 202, 400, 404, 500}]
    /\ page \in [Ingesters -> Seq(Nat)]
    /\ ingests \in 0..MaxIngests

IInit ==
    /\ Init
    /\ events = <<>> /\ detections = <<>> /\ decisions = <<>>
    /\ archived = {}
    /\ ipc = [i \in Ingesters |-> "idle"]
    /\ batch = [i \in Ingesters |-> <<>>]
    /\ ids = [i \in Ingesters |-> <<>>]
    /\ next = [i \in Ingesters |-> 1]
    /\ found = [i \in Ingesters |-> {}]
    /\ evaluated = [j \in {} |-> engine]
    /\ iresp = [i \in Ingesters |-> 0]
    /\ page = [i \in Ingesters |-> <<>>]
    /\ ingests = 0

-----------------------------------------------------------------------------
(* RuleEngine.Evaluate and the detection accumulator.                     *)

\* The detections an engine yields for event id with message msg.
Matches(eng, id, msg) ==
    {[event |-> id, rule |-> r, pattern |-> eng[r]] : r \in {q \in DOMAIN eng : eng[q] \in Match[msg]}}

\* Mutant of Evaluate: the event is evaluated before Save gave it its id.
EvaluateUnsaved(id, msg) == Matches(engine, 0, msg)

\* for _, cr := range e.rules { if cr.regex.MatchString(event.Message) ... }
Evaluate(id, msg) == Matches(engine, id, msg)

\* Mutant of Accumulated: allDetections = detections.
AccumulatedOverwrite(acc, dets) == dets

\* allDetections = append(allDetections, detections...)
Accumulated(acc, dets) == acc \cup dets

-----------------------------------------------------------------------------
(* Repositories and archiver.                                              *)

\* EventRepository.SaveBatch: one transaction, the rows get the next ids.
SaveBatch(p) == events \o p

\* evt.ID = model.ID: the ids the batch's rows got after n stored rows.
BatchIds(n, p) == [j \in 1..Len(p) |-> n + j]

\* DetectionRepository.BatchCreate: one transaction, in slice order.
BatchCreate(f) == detections \o SetToSeq(f)

\* ArchiveEvent, ArchiveDetection: the object <prefix><ID>.json.
EventKey(id) == [kind |-> "events", id |-> id]
DetectionKey(id) == [kind |-> "detections", id |-> id]

\* DecisionService.Create: a non-zero DetectionID must be found by Get.
DetectionExists(d) == d = 0 \/ d \in DOMAIN detections

\* DecisionRequest.ToDomain: ParseDecisionAction refuses an unknown action.
DecisionRefused(d) == d = BadDecision

-----------------------------------------------------------------------------
(* Ingest requests.                                                        *)

BeginIngest(i) ==
    /\ up /\ ipc[i] = "idle" /\ ingests < MaxIngests
    /\ ingests' = ingests + 1

\* MarshalEvents and EventBatchRequest.ToDomain: 400 on a bad body or item.
Refused(p) == IF p = NoBody THEN TRUE ELSE BadItem \in Range(p)

\* PostEvents up to the SaveBatch transaction.  An empty array answers 202
\* (IngestBatch returns nil, nil); a failing SaveBatch stores nothing and
\* answers 500; otherwise the events get consecutive ids.
PostEvents(i, p) ==
    /\ BeginIngest(i)
    /\ \/ /\ Refused(p)
          /\ iresp' = [iresp EXCEPT ![i] = 400]
          /\ UNCHANGED <<events, ipc, batch, ids>>
       \/ /\ ~Refused(p) /\ p = <<>>
          /\ iresp' = [iresp EXCEPT ![i] = 202]
          /\ ids' = [ids EXCEPT ![i] = <<>>]
          /\ UNCHANGED <<events, ipc, batch>>
       \/ /\ ~Refused(p) /\ p # <<>>
          /\ iresp' = [iresp EXCEPT ![i] = 500]
          /\ UNCHANGED <<events, ipc, batch, ids>>
       \/ /\ ~Refused(p) /\ p # <<>>
          /\ events' = SaveBatch(p)
          /\ batch' = [batch EXCEPT ![i] = p]
          /\ ids' = [ids EXCEPT ![i] = BatchIds(Len(events), p)]
          /\ ipc' = [ipc EXCEPT ![i] = "evaluate"]
          /\ iresp' = [iresp EXCEPT ![i] = 0]
    /\ next' = [next EXCEPT ![i] = 1]
    /\ found' = [found EXCEPT ![i] = {}]
    /\ page' = [page EXCEPT ![i] = <<>>]
    /\ UNCHANGED <<detections, decisions, archived, evaluated>>

\* One iteration of the loop: ArchiveEvent (its error ignored), then
\* Evaluate under the engine's read lock.
EvaluateEvent(i) ==
    /\ up /\ ipc[i] = "evaluate"
    /\ LET k == next[i]
           id == ids[i][k]
       IN /\ archived' = archived \cup {EventKey(id)}
          /\ found' = [found EXCEPT ![i] = Accumulated(@, Evaluate(id, batch[i][k]))]
          /\ evaluated' = (id :> engine) @@ evaluated
          /\ next' = [next EXCEPT ![i] = k + 1]
          /\ ipc' = [ipc EXCEPT ![i] = IF k = Len(batch[i]) THEN "persist" ELSE "evaluate"]
    /\ UNCHANGED <<events, detections, decisions, batch, ids, iresp, page, ingests>>

\* persistDetections: nothing to store, or the BatchCreate transaction
\* (all or nothing), then ArchiveDetection of each (errors ignored), and
\* the answer: 500 when BatchCreate failed (the events stay stored), 202.
PersistDetections(i) ==
    /\ up /\ ipc[i] = "persist"
    /\ \/ /\ found[i] = {}
          /\ iresp' = [iresp EXCEPT ![i] = 202]
          /\ UNCHANGED <<detections, archived>>
       \/ /\ found[i] # {}
          /\ iresp' = [iresp EXCEPT ![i] = 500]
          /\ UNCHANGED <<detections, archived>>
       \/ /\ found[i] # {}
          /\ detections' = BatchCreate(found[i])
          /\ archived' = archived \cup
                {DetectionKey(j) : j \in (Len(detections) + 1)..Len(detections')}
          /\ iresp' = [iresp EXCEPT ![i] = 202]
    /\ ipc' = [ipc EXCEPT ![i] = "idle"]
    /\ UNCHANGED <<events, decisions, batch, ids, next, found, evaluated, page, ingests>>

\* PostDecisions: 400 on a bad payload; DecisionService.Create checks a
\* non-zero DetectionID with Get (500 when absent or on error), then
\* repo.Create (500 on error), and the handler answers 201.
PostDecision(i, d) ==
    /\ BeginIngest(i)
    /\ \/ /\ DecisionRefused(d)
          /\ iresp' = [iresp EXCEPT ![i] = 400]
          /\ UNCHANGED decisions
       \/ /\ ~DecisionRefused(d)
          /\ iresp' = [iresp EXCEPT ![i] = 500]
          /\ UNCHANGED decisions
       \/ /\ ~DecisionRefused(d)
          /\ DetectionExists(d)
          /\ decisions' = Append(decisions, d)
          /\ iresp' = [iresp EXCEPT ![i] = 201]
    /\ page' = [page EXCEPT ![i] = <<>>]
    /\ UNCHANGED <<events, detections, archived, ipc, batch, ids, next, found, evaluated>>

-----------------------------------------------------------------------------
(* Read requests.  The filters on source, IP, severity, rule and time    *)
(* narrow the rows and are left out: a request is its limit and offset.   *)
(* Rows are listed newest first; created_at and matched_at grow with the *)
(* id as long as no two transactions overlap (one ingester in the MC).    *)

\* The limit and offset buildEventFilter and buildDetectionFilter parse
\* with strconv.Atoi: inside 1..500, zero or negative, above 500.
Queries == [limit : {0, 1, 501}, offset : {-1, 0, 1}]

\* DecisionRepository.List (EventRepository.List is the same): a limit
\* outside 1..500 becomes the default.
Clamped(limit, dflt) == IF limit <= 0 \/ limit > 500 THEN dflt ELSE limit

\* A negative offset counts as 0: EventRepository.List and
\* DecisionRepository.List reset it, DetectionRepository.List passes it to
\* GORM, which writes OFFSET only when it is positive.
NonNeg(offset) == IF offset < 0 THEN 0 ELSE offset

\* Order("created_at DESC").Limit(limit).Offset(offset) over n rows.
PageOf(n, limit, offset) ==
    SubSeq([k \in 1..n |-> n + 1 - k], offset + 1, Min({n, offset + limit}))

\* A GET list handler: 400 when a parameter does not parse, 500 when the
\* query fails, else 200 with the page.
ListAnswer(i, n, dflt) ==
    /\ BeginIngest(i)
    /\ \/ /\ iresp' = [iresp EXCEPT ![i] = 400] /\ page' = [page EXCEPT ![i] = <<>>]
       \/ /\ iresp' = [iresp EXCEPT ![i] = 500] /\ page' = [page EXCEPT ![i] = <<>>]
       \/ \E q \in Queries :
             /\ iresp' = [iresp EXCEPT ![i] = 200]
             /\ page' = [page EXCEPT ![i] = PageOf(n, Clamped(q.limit, dflt), NonNeg(q.offset))]
    /\ UNCHANGED <<events, detections, decisions, archived, ipc, batch, ids, next, found, evaluated>>

\* A GET by-id handler: 400 when the id is not an unsigned integer, then
\* First(&model, id): 404 on ErrRecordNotFound, 500 on another error.
FindAnswer(i, n) ==
    /\ BeginIngest(i)
    /\ \/ /\ iresp' = [iresp EXCEPT ![i] = 400] /\ page' = [page EXCEPT ![i] = <<>>]
       \/ /\ iresp' = [iresp EXCEPT ![i] = 500] /\ page' = [page EXCEPT ![i] = <<>>]
       \/ \E id \in 1..(n + 1) :
             /\ iresp' = [iresp EXCEPT ![i] = IF id <= n THEN 200 ELSE 404]
             /\ page' = [page EXCEPT ![i] = IF id <= n THEN <<id>> ELSE <<>>]
    /\ UNCHANGED <<events, detections, decisions, archived, ipc, batch, ids, next, found, evaluated>>

GetEvents(i) == ListAnswer(i, Len(events), 50)
GetDetections(i) == ListAnswer(i, Len(detections), 100)
GetDecisions(i) == ListAnswer(i, Len(decisions), 100)
GetEventByID(i) == FindAnswer(i, Len(events))
GetDetectionByID(i) == FindAnswer(i, Len(detections))

\* A restart also loses the in-flight ingests; the tables stay.
IRestart ==
    /\ Restart
    /\ ipc' = [i \in Ingesters |-> "idle"]
    /\ UNCHANGED <<events, detections, decisions, archived, batch, ids, next,
                   found, evaluated, iresp, page, ingests>>

\* The request steps of rule management leave ingest alone.
RuleStep ==
    /\ \E c \in Clients :
          \/ \E p \in Patterns, a \in BOOLEAN : PostRules(c, p, a)
          \/ \E id \in Ids, a \in BOOLEAN : PatchRuleActivation(c, id, a)
          \/ WriteFails(c)
          \/ ListRules(c)
          \/ ListFails(c)
          \/ LoadRules(c)
    /\ UNCHANGED ivars

INext ==
    \/ RuleStep
    \/ IRestart
    \/ /\ \E i \in Ingesters :
             \/ \E p \in Payloads : PostEvents(i, p)
             \/ EvaluateEvent(i)
             \/ PersistDetections(i)
             \/ \E d \in {BadDecision} \cup 0..(Len(detections) + 1) : PostDecision(i, d)
             \/ GetEvents(i) \/ GetDetections(i) \/ GetDecisions(i)
             \/ GetEventByID(i) \/ GetDetectionByID(i)
       /\ UNCHANGED vars

ISpec == IInit /\ [][INext]_allVars

-----------------------------------------------------------------------------
(* Properties.                                                             *)

\* The stored detections of event id.
StoredFor(id) == {d \in Range(detections) : d.event = id}

\* POST /events answering 202 means every event of the request is stored
\* under its id, and the detections stored for it are exactly the rules
\* of the engine it was evaluated under that match it (IngestBatch's
\* allDetections, persistDetections' transaction, a reload mid-batch and a
\* restart included).
AcceptedDetectionsComplete ==
    \A i \in Ingesters : iresp[i] = 202 =>
        \A k \in DOMAIN ids[i] :
            LET id == ids[i][k] IN
            /\ id \in DOMAIN events /\ events[id] = batch[i][k]
            /\ id \in DOMAIN evaluated
            /\ StoredFor(id) = Matches(evaluated[id], id, events[id])

\* Referential integrity of what the service stores: a detection names a
\* stored event whose message its pattern matches, for a rule that pattern
\* belonged to in some state of the rules table; a decision names no
\* detection (0) or a stored one; an archived object is a stored row.
StoredRowsConsistent ==
    /\ \A d \in Range(detections) :
          /\ d.event \in DOMAIN events
          /\ d.pattern \in Match[events[d.event]]
          /\ \E s \in past : d.rule \in DOMAIN s /\ s[d.rule] = d.pattern
    /\ \A j \in DOMAIN decisions : decisions[j] = 0 \/ decisions[j] \in DOMAIN detections
    /\ \A a \in archived :
          a.id \in DOMAIN (IF a.kind = "events" THEN events ELSE detections)
=============================================================================
