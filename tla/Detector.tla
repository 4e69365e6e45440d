------------------------------ MODULE Detector ------------------------------
(***************************************************************************)
(* The temporal heuristics of DetectorService.Detect                       *)
(* (internal/domain/services/detector_service.go) and the decision policy *)
(* DecisionService.Decide that DetectThreatsUsecase.Process applies to     *)
(* their output.                                                           *)
(*                                                                         *)
(* Per IP, three sliding windows of timestamps: failuresSSH and http401    *)
(* over bruteWindow, rpsByIP over floodWindow.  Each observation appends   *)
(* time.Now() and trims, under d.mu, the leading entries that are not      *)
(* After(now - window); the detection fires when the length reaches the    *)
(* threshold.  Detect runs for one event at a time (CLI replay feeds       *)
(* Process sequentially) and time.Now() is Go's monotonic clock, so the    *)
(* clock only moves forward (Tick).                                        *)
(*                                                                         *)
(* An event is abstracted to what Detect reads of it: its IP (NoIP for    *)
(* ""), whether it is an sshd "failed password" line, whether its status   *)
(* is 401, whether it has a method, which of the rule patterns match its   *)
(* text, whether a JUDOL keyword matches, and which payload signatures     *)
(* match.  Regular-expression matching itself is not modelled: the event   *)
(* says which expressions match it.                                        *)
(***************************************************************************)
EXTENDS Integers, Sequences, FiniteSets

CONSTANTS
    IPs,           \* client IPs (model values)
    NoIP,          \* the empty IP string
    BruteWindow,   \* conf.Detect.Windows.BruteForce
    FloodWindow,   \* conf.Detect.Windows.Flood
    ThrSSH,        \* conf.Detect.Thresholds.SSHFailed
    Thr401,        \* conf.Detect.Thresholds.HTTP401
    ThrRPS,        \* conf.Detect.Thresholds.RPSPerIP
    Rules,         \* re.Rules(): sequence of [name, category, enabled]
    Shapes,        \* the [sshFailed, status401, method] combinations events take
    EventSigs,     \* the payload signatures events may match
    MaxTime,       \* bound on the clock
    MaxEvents      \* bound on the number of events

ASSUME NoIP \notin IPs
ASSUME BruteWindow \in Nat /\ FloodWindow \in Nat
ASSUME {ThrSSH, Thr401, ThrRPS} \subseteq Int

\* The three counter maps, in the order Detect consults them.
Families == <<"failuresSSH", "http401", "rpsByIP">>
Family == {Families[i] : i \in 1..3}

Window(fam) == IF fam = "rpsByIP" THEN FloodWindow ELSE BruteWindow
Threshold(fam) == CASE fam = "failuresSSH" -> ThrSSH
                    [] fam = "http401"     -> Thr401
                    [] fam = "rpsByIP"     -> ThrRPS

\* The detection each family emits.
Emitted(fam) == CASE fam = "failuresSSH" -> [category |-> "brute", rule |-> "ssh_failed"]
                  [] fam = "http401"     -> [category |-> "brute", rule |-> "http_401"]
                  [] fam = "rpsByIP"     -> [category |-> "flood", rule |-> "rps_per_ip"]

\* The payload signatures, in the order Detect tests them.
Signatures == <<"sqli", "xss", "traversal", "scanner">>
SigRule == [c \in {"sqli", "xss", "traversal", "scanner"} |->
              CASE c = "sqli" -> "sqli_regex" [] c = "xss" -> "xss_regex"
                [] c = "traversal" -> "path_traversal" [] c = "scanner" -> "scanner_signature"]

Event == {[ip |-> i, sshFailed |-> sh.sshFailed, status401 |-> sh.status401, method |-> sh.method,
           matches |-> m, keyword |-> k, sigs |-> g] :
             i \in IPs \cup {NoIP}, sh \in Shapes, m \in SUBSET DOMAIN Rules,
             k \in BOOLEAN, g \in SUBSET EventSigs}

NoDecision == [action |-> "none"]

VARIABLES
    now,        \* time.Now()
    counters,   \* counters[fam][ip]: the timestamps kept in d.<fam>[ip]
    history,    \* history[fam][ip]: every observation ever appended (history)
    lastEvent,  \* the last event Detect ran on
    lastOut,    \* the detections Detect returned for it
    lastDecision, \* what Decide returned for them
    lastAt,     \* the time.Now() of that Detect
    events,
    lastSaved,  \* the detections SaveDetection stored for the last event
    lastStored, \* the decision Decisions.Save stored for it, or NoDecision
    stopped,    \* the replay returned after a failed event Save
    saving      \* Process is storing the last event's detections

vars == <<now, counters, history, lastEvent, lastOut, lastDecision, lastAt, events,
          lastSaved, lastStored, stopped, saving>>

Times == 0..MaxTime
Detection == [category : STRING, rule : STRING]

TypeOK ==
    /\ now \in Times
    /\ counters \in [Family -> [IPs -> Seq(Times)]]
    /\ history \in [Family -> [IPs -> Seq(Times)]]
    /\ lastEvent \in Event \cup {NoDecision}
    /\ lastOut \in Seq(Detection)
    /\ lastDecision \in {NoDecision} \cup [action : {"block"}, ip : IPs, reason : {"brute", "flood"}, until : Int]
    /\ lastAt \in Times
    /\ events \in 0..MaxEvents
    /\ lastSaved \in Seq(Detection)
    /\ lastStored \in {NoDecision} \cup [action : {"block"}, ip : IPs, reason : {"brute", "flood"}, until : Int]
    /\ stopped \in BOOLEAN
    /\ saving \in BOOLEAN

Init ==
    /\ now = 0
    /\ counters = [f \in Family |-> [i \in IPs |-> << >>]]
    /\ history = [f \in Family |-> [i \in IPs |-> << >>]]
    /\ lastEvent = NoDecision
    /\ lastOut = << >>
    /\ lastDecision = NoDecision
    /\ lastAt = 0
    /\ events = 0
    /\ lastSaved = << >>
    /\ lastStored = NoDecision
    /\ stopped = FALSE
    /\ saving = FALSE

-----------------------------------------------------------------------------
(* The sliding window.                                                     *)

\* Index of the first entry After(cutoff), Len(ts) + 1 when there is none.
FirstAfter(ts, cutoff) ==
    LET after == {i \in 1..Len(ts) : ts[i] > cutoff}
    IN IF after = {} THEN Len(ts) + 1
       ELSE CHOOSE i \in after : \A j \in after : i <= j

\* Mutant of appendAndTrim: entries equal to the cutoff are kept.
AppendAndTrimKeepCutoff(ts, t, window) ==
    LET s == Append(ts, t)
        keep == {i \in 1..Len(s) : s[i] >= t - window}
        first == IF keep = {} THEN Len(s) + 1 ELSE CHOOSE i \in keep : \A j \in keep : i <= j
    IN SubSeq(s, first, Len(s))

\* appendAndTrim: append now, drop the prefix that is not After(now - window).
AppendAndTrim(ts, t, window) ==
    LET s == Append(ts, t) IN SubSeq(s, FirstAfter(s, t - window), Len(s))

\* Whether the event feeds the family's counter (the if-conditions of Detect).
Observes(fam, e) ==
    /\ e.ip # NoIP
    /\ CASE fam = "failuresSSH" -> e.sshFailed      \* Source == "sshd" && "failed password"
         [] fam = "http401"     -> e.status401      \* Status == 401
         [] fam = "rpsByIP"     -> e.method         \* Method != ""

\* Mutant of Fires: the threshold comparison is > instead of >=.
FiresStrict(fam, e, c) == Observes(fam, e) /\ Len(c[fam][e.ip]) > Threshold(fam)

\* The family emits when, after the append, len(d.<fam>[ip]) >= threshold.
Fires(fam, e, c) == Observes(fam, e) /\ Len(c[fam][e.ip]) >= Threshold(fam)

\* Mutant of RuleHits: the Enabled flag is not consulted.
RuleHitsIgnoreEnabled(e) ==
    LET hit == SelectSeq([k \in DOMAIN Rules |-> k], LAMBDA k : k \in e.matches)
    IN [j \in 1..Len(hit) |-> [category |-> Rules[hit[j]].category, rule |-> Rules[hit[j]].name]]

\* The enabled rules whose pattern matches, in snapshot order.
RuleHits(e) ==
    LET hit == SelectSeq([k \in DOMAIN Rules |-> k],
                         LAMBDA k : Rules[k].enabled /\ k \in e.matches)
    IN [j \in 1..Len(hit) |-> [category |-> Rules[hit[j]].category, rule |-> Rules[hit[j]].name]]

\* At most one JUDOL detection, whichever keyword matches first.
KeywordHit(e) ==
    IF e.keyword THEN << [category |-> "judol", rule |-> "keyword_match"] >> ELSE << >>

\* The payload signatures that match, in the order they are tested.
SigHits(e) ==
    LET hit == SelectSeq(Signatures, LAMBDA c : c \in e.sigs)
    IN [j \in 1..Len(hit) |-> [category |-> hit[j], rule |-> SigRule[hit[j]]]]

\* Mutant of Decide: the empty-IP guard is dropped.
DecideNoIPGuard(dets, ip, t) ==
    LET hits == {i \in 1..Len(dets) : dets[i].category \in {"brute", "flood"}}
    IN IF Len(dets) = 0 \/ hits = {} THEN NoDecision
       ELSE [action |-> "block", ip |-> ip,
             reason |-> dets[CHOOSE i \in hits : \A j \in hits : i <= j].category,
             until |-> t + 3600]

\* DecisionService.Decide: no decision for an empty IP or no detections;
\* otherwise block, with the category of the first brute or flood
\* detection as reason, until now + 1h.
Decide(dets, ip, t) ==
    LET hits == {i \in 1..Len(dets) : dets[i].category \in {"brute", "flood"}}
    IN IF ip = NoIP \/ Len(dets) = 0 \/ hits = {} THEN NoDecision
       ELSE [action |-> "block", ip |-> ip,
             reason |-> dets[CHOOSE i \in hits : \A j \in hits : i <= j].category,
             until |-> t + 3600]

-----------------------------------------------------------------------------
(* Actions.                                                                *)

\* The clock moves forward (the saves of Process take no clock time, so
\* that Decide sees the time Detect saw).
Tick ==
    /\ now < MaxTime /\ ~saving
    /\ now' = now + 1
    /\ UNCHANGED <<counters, history, lastEvent, lastOut, lastDecision, lastAt, events,
                   lastSaved, lastStored, stopped, saving>>

\* IngestLogsUsecase.Ingest: Events.Save fails, and replayCmd returns 1.
IngestFails ==
    /\ ~stopped /\ ~saving /\ events < MaxEvents
    /\ stopped' = TRUE
    /\ UNCHANGED <<now, counters, history, lastEvent, lastOut, lastDecision, lastAt, events,
                   lastSaved, lastStored, saving>>

\* Process reaches Decide only when every SaveDetection succeeded (it
\* returns on the first error); failAt is the index of the first failing
\* save, Len(out) + 1 when none fails.
Completed(out, failAt) == failAt > Len(out)

\* One line of replayCmd: Ingest saves the event, then Process runs Detect
\* under d.mu.  lastDecision is what the policy yields for the detections
\* (Decide is pure, so it is computed here even when Process returns
\* before calling it).
Detect(e) ==
    /\ ~stopped /\ ~saving
    /\ events < MaxEvents
    /\ LET c == [f \in Family |-> [i \in IPs |->
                    IF i = e.ip /\ Observes(f, e)
                       THEN AppendAndTrim(counters[f][i], now, Window(f))
                       ELSE counters[f][i]]]
           fired == SelectSeq(Families, LAMBDA f : Fires(f, e, c))
           out == RuleHits(e) \o KeywordHit(e)
                    \o [k \in 1..Len(fired) |-> Emitted(fired[k])] \o SigHits(e)
           dec == Decide(out, e.ip, now)
       IN /\ counters' = c
          /\ lastOut' = out
          /\ lastDecision' = dec
          /\ lastSaved' = << >>
          /\ lastStored' = NoDecision
          /\ saving' = TRUE
    /\ history' = [f \in Family |-> [i \in IPs |->
                    IF i = e.ip /\ Observes(f, e) THEN Append(history[f][i], now)
                    ELSE history[f][i]]]
    /\ lastEvent' = e
    /\ lastAt' = now
    /\ events' = events + 1
    /\ UNCHANGED <<now, stopped>>

\* DetectionSaver.Save is one INSERT that commits or errors; Process stops
\* at the first error, so the rows stored are the prefix before it.
SavedPrefix(out, failAt) == SubSeq(out, 1, failAt - 1)

\* DecisionRepo.Save: one INSERT of the decision, which commits or errors.
SaveDecision(decision, ok) == IF ok THEN decision ELSE NoDecision

\* The rest of Process: SaveDetection of each detection in order up to the
\* first error (Process returns it, and replayCmd ignores it), then, when
\* all were saved, Decide and Decisions.Save, which may fail too.  The
\* notifier is best effort and changes no state.
Persist ==
    /\ saving
    /\ \E failAt \in 1..(Len(lastOut) + 1), saveOk \in BOOLEAN :
          /\ lastSaved' = SavedPrefix(lastOut, failAt)
          /\ lastStored' = IF Completed(lastOut, failAt)
                              THEN SaveDecision(lastDecision, saveOk) ELSE NoDecision
    /\ saving' = FALSE
    /\ UNCHANGED <<now, counters, history, lastEvent, lastOut, lastDecision, lastAt, events, stopped>>

Next == Tick \/ IngestFails \/ Persist \/ \E e \in Event : Detect(e)

Spec == Init /\ [][Next]_vars

-----------------------------------------------------------------------------
(* Properties.                                                             *)

\* The observations of ip for fam within the window ending at t.
InWindow(fam, ip, t) ==
    {k \in 1..Len(history[fam][ip]) : history[fam][ip][k] > t - Window(fam)}

\* Spec 8.2: after any sequence of appends, the counter holds exactly the
\* observations that are within the window of the latest one, in order.
WindowMatchesHistory ==
    \A f \in Family, i \in IPs :
        Len(history[f][i]) > 0 =>
            LET last == history[f][i][Len(history[f][i])]
                kept == InWindow(f, i, last)
            IN /\ Len(counters[f][i]) = Cardinality(kept)
               /\ \A k \in 1..Len(counters[f][i]) :
                     counters[f][i][k] = history[f][i][Len(history[f][i]) - Len(counters[f][i]) + k]

\* Spec 4.D, scenarios 2 and 3: the event whose observation makes the
\* number of observations of its IP within the window reach the threshold
\* gets the family's detection, and only such an event does.
EmitsAtThreshold ==
    lastEvent # NoDecision =>
        \A f \in Family :
            (\E k \in 1..Len(lastOut) : lastOut[k] = Emitted(f))
                <=> /\ Observes(f, lastEvent)
                    /\ Cardinality(InWindow(f, lastEvent.ip, lastAt)) >= Threshold(f)

\* Whether the event's observation brought fam to its threshold at time t.
Reached(fam, e, t) ==
    Observes(fam, e) /\ Cardinality(InWindow(fam, e.ip, t)) >= Threshold(fam)

\* The reason a block should carry for event e at time t, "" for none:
\* the category of the first enabled matching rule that is brute or flood,
\* else brute when an SSH or 401 window reached its threshold, else flood
\* when the request-rate window did.
ExpectedReason(e, t) ==
    LET bf == {k \in DOMAIN Rules : Rules[k].enabled /\ k \in e.matches
                                    /\ Rules[k].category \in {"brute", "flood"}}
    IN IF bf # {} THEN Rules[CHOOSE k \in bf : \A j \in bf : k <= j].category
       ELSE IF Reached("failuresSSH", e, t) \/ Reached("http401", e, t) THEN "brute"
       ELSE IF Reached("rpsByIP", e, t) THEN "flood"
       ELSE ""

\* Spec 4.E and 8.3: Process blocks the event's IP for one hour exactly
\* when the event has an IP and triggered a brute or flood detection, and
\* the reason is the first such category in Detect's emission order
\* (pattern rules, then the windows); detections of other categories and
\* disabled rules never block.
BlockOnBruteOrFlood ==
    lastEvent # NoDecision =>
        lastDecision = IF lastEvent.ip = NoIP \/ ExpectedReason(lastEvent, lastAt) = ""
                       THEN NoDecision
                       ELSE [action |-> "block", ip |-> lastEvent.ip,
                             reason |-> ExpectedReason(lastEvent, lastAt),
                             until |-> lastAt + 3600]
=============================================================================
