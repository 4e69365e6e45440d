---------------------------- MODULE MiniSiemRules ----------------------------
(***************************************************************************)
(* Rule management of mini-siem-api: the handlers PostRules and           *)
(* PatchRuleActivation (api/handlers/rules.go), RuleService.Create and     *)
(* SetActivation, EventService.ReloadRules and NewEventService, the rule   *)
(* repository, and RuleEngine.Load.                                        *)
(*                                                                         *)
(* Each HTTP request runs on its own goroutine (net/http), so requests    *)
(* are processes.  A mutation is three steps: the repository write, the   *)
(* repository List of ReloadRules, and engine.Load of that list; other     *)
(* requests interleave between them.  The database is one row per rule id *)
(* (ids are assigned in order by the database); a row holds a pattern and  *)
(* the active flag.  A pattern either compiles or not (regexp.Compile).   *)
(* A restart runs NewEventService, which logs Fatal when Load fails.      *)
(***************************************************************************)
EXTENDS Naturals, FiniteSets, Functions, TLC

CONSTANTS
    Clients,      \* concurrent request goroutines
    Patterns,     \* rule patterns (model values)
    Compilable,   \* the patterns regexp.Compile accepts
    MaxRules,     \* bound on the rows the database assigns
    MaxRequests,  \* bound on the number of requests
    MaxRestarts,  \* bound on process restarts
    NoList        \* a request that has not listed the rules yet

ASSUME Compilable \subseteq Patterns

Ids == 1..MaxRules
Row == [pattern : Patterns, active : BOOLEAN]

VARIABLES
    repo,      \* the rules table: id -> row
    engine,    \* e.rules: id -> the pattern compiled for it
    pc,        \* per request goroutine: "idle", "list" or "load"
    listed,    \* the rules List returned to the goroutine
    resp,      \* the status the goroutine's last request answered
    up,        \* the process is serving (not exited by logger.Fatal)
    past,      \* every rule set the table has held (history)
    requests,
    restarts

vars == <<repo, engine, pc, listed, resp, up, past, requests, restarts>>

\* The table as a rule set: the active rows.
ActiveRules(r) == [i \in {j \in DOMAIN r : r[j].active} |-> r[i].pattern]

TypeOK ==
    /\ \E D \in SUBSET Ids : repo \in [D -> Row]
    /\ \E D \in SUBSET Ids : engine \in [D -> Compilable]
    /\ pc \in [Clients -> {"idle", "list", "load"}]
    /\ \A c \in Clients : listed[c] = NoList \/ \E D \in SUBSET Ids : listed[c] \in [D -> Row]
    /\ resp \in [Clients -> {"none", "ok", "error"}]
    /\ up \in BOOLEAN
    /\ requests \in 0..MaxRequests
    /\ restarts \in 0..MaxRestarts

-----------------------------------------------------------------------------
(* RuleEngine.Load(rules).                                                 *)

\* The active rules of a list whose pattern does not compile.
Failing(rules) == {i \in DOMAIN rules : rules[i].active /\ rules[i].pattern \notin Compilable}

\* Mutant of Load: a compile error is skipped instead of returned.
LoadNoErrCheck(rules) == [ok |-> TRUE, compiled |-> ActiveRules(rules)]

\* Load builds a fresh map of the active rules and returns the first
\* compile error without swapping; otherwise e.rules = compiled.
Load(rules) ==
    IF Failing(rules) # {}
       THEN [ok |-> FALSE, compiled |-> engine]
       ELSE [ok |-> TRUE, compiled |-> ActiveRules(rules)]

\* Mutant of Swap: Load writes into the existing map instead of replacing it.
SwapMerge(res) == IF res.ok THEN res.compiled @@ engine ELSE engine

\* e.mu.Lock(); e.rules = compiled; e.mu.Unlock()
Swap(res) == IF res.ok THEN res.compiled ELSE engine

-----------------------------------------------------------------------------
(* Initial state: a table some earlier run left, loaded by                *)
(* NewEventService.  A table whose Load fails never reaches a serving     *)
(* process.                                                                *)

Init ==
    /\ repo \in UNION {[D -> Row] : D \in {1..k : k \in 0..1}}
    /\ Failing(repo) = {}
    /\ engine = ActiveRules(repo)
    /\ pc = [c \in Clients |-> "idle"]
    /\ listed = [c \in Clients |-> NoList]
    /\ resp = [c \in Clients |-> "none"]
    /\ up = TRUE
    /\ past = {ActiveRules(repo)}
    /\ requests = 0
    /\ restarts = 0

-----------------------------------------------------------------------------
(* Requests.                                                               *)

Begin(c) ==
    /\ up /\ pc[c] = "idle" /\ requests < MaxRequests
    /\ requests' = requests + 1

\* PostRules: ToDomain accepts any non-empty pattern (it is not compiled),
\* then RuleService.Create: repo.Create assigns the next id; on success
\* the goroutine goes on to ReloadRules.
PostRules(c, p, active) ==
    /\ Begin(c)
    /\ LET id == Cardinality(DOMAIN repo) + 1 IN
       /\ id \in Ids
       /\ repo' = (id :> [pattern |-> p, active |-> active]) @@ repo
       /\ past' = past \cup {ActiveRules(repo')}
    /\ pc' = [pc EXCEPT ![c] = "list"]
    /\ UNCHANGED <<engine, listed, resp, up, restarts>>

\* PatchRuleActivation: repo.UpdateActivation sets the flag (an unknown id
\* updates no row and is no error), then ReloadRules.
PatchRuleActivation(c, id, active) ==
    /\ Begin(c)
    /\ repo' = IF id \in DOMAIN repo THEN [repo EXCEPT ![id].active = active] ELSE repo
    /\ past' = past \cup {ActiveRules(repo')}
    /\ pc' = [pc EXCEPT ![c] = "list"]
    /\ UNCHANGED <<engine, listed, resp, up, restarts>>

\* A failing repository write: the handler answers 500 with no effect.
WriteFails(c) ==
    /\ Begin(c)
    /\ resp' = [resp EXCEPT ![c] = "error"]
    /\ UNCHANGED <<repo, engine, pc, listed, up, past, restarts>>

\* ReloadRules: s.rulesRepo.List(ctx).
ListRules(c) ==
    /\ up /\ pc[c] = "list"
    /\ listed' = [listed EXCEPT ![c] = repo]
    /\ pc' = [pc EXCEPT ![c] = "load"]
    /\ UNCHANGED <<repo, engine, resp, up, past, requests, restarts>>

\* ReloadRules: List fails and is returned; the handler answers 500 with
\* the row written and the engine left as it was.
ListFails(c) ==
    /\ up /\ pc[c] = "list"
    /\ resp' = [resp EXCEPT ![c] = "error"]
    /\ pc' = [pc EXCEPT ![c] = "idle"]
    /\ UNCHANGED <<repo, engine, listed, up, past, requests, restarts>>

\* ReloadRules: s.engine.Load(rules); the handler answers 500 on its error
\* (the row stays written) and 201/204 otherwise.
LoadRules(c) ==
    /\ up /\ pc[c] = "load"
    /\ LET res == Load(listed[c]) IN
       /\ engine' = Swap(res)
       /\ resp' = [resp EXCEPT ![c] = IF res.ok THEN "ok" ELSE "error"]
    /\ pc' = [pc EXCEPT ![c] = "idle"]
    /\ listed' = [listed EXCEPT ![c] = NoList]
    /\ UNCHANGED <<repo, up, past, requests, restarts>>

\* The process exits (signal or crash) and starts again: in-flight
\* requests are lost; NewEventService lists and loads the table and
\* logger.Fatal ends the process when List or Load fails.
Restart ==
    /\ restarts < MaxRestarts
    /\ restarts' = restarts + 1
    /\ \/ LET res == Load(repo) IN
             /\ up' = res.ok
             /\ engine' = Swap(res)
       \/ up' = FALSE /\ UNCHANGED engine
    /\ pc' = [c \in Clients |-> "idle"]
    /\ listed' = [c \in Clients |-> NoList]
    /\ UNCHANGED <<repo, resp, past, requests>>

Next ==
    \/ \E c \in Clients :
          \/ \E p \in Patterns, a \in BOOLEAN : PostRules(c, p, a)
          \/ \E id \in Ids, a \in BOOLEAN : PatchRuleActivation(c, id, a)
          \/ WriteFails(c)
          \/ ListRules(c)
          \/ ListFails(c)
          \/ LoadRules(c)
    \/ Restart

Spec == Init /\ [][Next]_vars

-----------------------------------------------------------------------------
(* Properties.                                                             *)

Idle == \A c \in Clients : pc[c] = "idle"

\* Spec 4.A (the rule set is swapped as a whole): while serving, the engine
\* holds exactly the active rules of some state the table has been in,
\* never a mix of two reloads.  That state may be stale (see
\* IdleEngineMatchesTable).
EngineIsSomeTableState == up => engine \in past

=============================================================================
