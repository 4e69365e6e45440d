----------------------------- MODULE RuleWatcher -----------------------------
(***************************************************************************)
(* The rules/keywords hot-reload loop of cmd/server-analyst/main.go: the  *)
(* startup load (lines 67-70) and the watcher goroutine (lines 72-91)     *)
(* with rules.Cache.LoadIfChanged, rules.LoadRules, rules.Compile,        *)
(* rules.CompileKeywords, RuleEngine.SetRules and                         *)
(* SnapshotRulesUsecase.Snapshot.                                          *)
(*                                                                         *)
(* A file is a version (a model value) and an mtime.  A version either     *)
(* parses and compiles (Valid), parses but has a pattern that              *)
(* regexp.MustCompile rejects (BadRegex), or fails to parse.  Writers may  *)
(* replace a file at any time, and its mtime is the current second: two    *)
(* writes within one second carry the same mtime.  The goroutine runs one  *)
(* tick as the steps Watch (LoadIfChanged on the rules file), Load         *)
(* (LoadRules reads the file a second time, Compile, SetRules), Snap       *)
(* (Snapshot of the bytes read by Watch) and Keywords (LoadIfChanged and   *)
(* CompileKeywords on the keywords file); writers interleave between them. *)
(* A panic in the goroutine ends the whole process.                        *)
(***************************************************************************)
EXTENDS Integers, Sequences

CONSTANTS
    Versions,     \* contents of the rules file
    Valid,        \* versions that parse and compile
    BadRegex,     \* versions that parse but hold a pattern MustCompile rejects
    KwVersions,   \* contents of the keywords file
    KwValid,      \* keyword versions that parse
    Defaults,     \* defaultJudolKeywords()
    NoRules,      \* the empty rule engine
    MaxTime,      \* bound on the clock (seconds)
    MaxWrites     \* bound on the number of file writes

ASSUME Valid \subseteq Versions /\ BadRegex \subseteq Versions /\ Valid \cap BadRegex = {}
ASSUME KwValid \subseteq KwVersions /\ Defaults \notin KwVersions
ASSUME NoRules \notin Versions

\* The zero time.Time the caches start with: before every mtime.
ZeroTime == -1
Times == 0..MaxTime

VARIABLES
    now,        \* the current second
    rulesFile,  \* [v, mtime] of conf.Rules.File
    kwFile,     \* [v, mtime] of conf.Rules.JUDOLKeywords
    rc,         \* rc.mtime, the rules cache
    kc,         \* kc.mtime, the keywords cache
    engine,     \* re.rules: the version whose compiled rules are active
    snapshots,  \* the rules bytes uploaded by Snapshot, in order
    data,       \* the bytes LoadIfChanged returned this tick
    judolKws,   \* main's judolKws variable
    detKws,     \* the keyword slice the DetectorService holds
    wpc,        \* where the watcher goroutine is
    writes

vars == <<now, rulesFile, kwFile, rc, kc, engine, snapshots, data, judolKws, detKws, wpc, writes>>

TypeOK ==
    /\ now \in Times
    /\ rulesFile \in [v : Versions, mtime : Times]
    /\ kwFile \in [v : KwVersions, mtime : Times]
    /\ rc \in Times \cup {ZeroTime} /\ kc \in Times \cup {ZeroTime}
    /\ engine \in Valid \cup {NoRules}
    /\ snapshots \in Seq(Versions)
    /\ data \in Versions
    /\ judolKws \in KwValid \cup {Defaults}
    /\ detKws \in KwValid \cup {Defaults}
    /\ wpc \in {"watch", "load", "snap", "keywords", "panicked"}
    /\ writes \in 0..MaxWrites

\* Startup: NewRuleEngine, then SetRules(Compile(LoadRules(path))) when the
\* file parses; a BadRegex file panics main before the watcher starts, so
\* it is not a state the watcher runs in.  The detector is built with the
\* default keywords.
Init ==
    /\ now = 0
    /\ rulesFile \in [v : Versions \ BadRegex, mtime : {0}]
    /\ kwFile \in [v : KwVersions, mtime : {0}]
    /\ rc = ZeroTime /\ kc = ZeroTime
    /\ engine = IF rulesFile.v \in Valid THEN rulesFile.v ELSE NoRules
    /\ snapshots = << >>
    /\ data = rulesFile.v
    /\ judolKws = Defaults
    /\ detKws = judolKws
    /\ wpc = "watch"
    /\ writes = 0

-----------------------------------------------------------------------------
(* The environment.                                                        *)

Tick ==
    /\ now < MaxTime
    /\ now' = now + 1
    /\ UNCHANGED <<rulesFile, kwFile, rc, kc, engine, snapshots, data, judolKws, detKws, wpc, writes>>

\* An operator saves the rules file; its mtime is the current second.
WriteRules(v) ==
    /\ writes < MaxWrites
    /\ rulesFile' = [v |-> v, mtime |-> now]
    /\ writes' = writes + 1
    /\ UNCHANGED <<now, kwFile, rc, kc, engine, snapshots, data, judolKws, detKws, wpc>>

WriteKeywords(k) ==
    /\ writes < MaxWrites
    /\ kwFile' = [v |-> k, mtime |-> now]
    /\ writes' = writes + 1
    /\ UNCHANGED <<now, rulesFile, rc, kc, engine, snapshots, data, judolKws, detKws, wpc>>

-----------------------------------------------------------------------------
(* The watcher goroutine.                                                  *)

\* Mutant of Changed: the mtime comparison is inverted.
ChangedInverted(file, cached) == ~(file.mtime > cached)

\* LoadIfChanged: same := !fi.ModTime().After(c.mtime).
Changed(file, cached) == file.mtime > cached

\* rc.LoadIfChanged(rulesPath): on a change, cache the mtime and return the
\* bytes; then the reload runs, otherwise the tick goes on to the keywords.
Watch ==
    /\ wpc = "watch"
    /\ IF Changed(rulesFile, rc)
          THEN /\ rc' = rulesFile.mtime
               /\ data' = rulesFile.v
               /\ wpc' = "load"
          ELSE /\ wpc' = "keywords"
               /\ UNCHANGED <<rc, data>>
    /\ UNCHANGED <<now, rulesFile, kwFile, kc, engine, snapshots, judolKws, detKws, writes>>

\* RuleEngine.SetRules: the rule slice is replaced whole under the write
\* lock, so a reader's Rules() copy sees the old set or the new one.
SetRules(rules) == engine' = rules

\* rloader.LoadRules(rulesPath) reads the file again; when it parses,
\* re.SetRules(rloader.Compile(fr)), where MustCompile panics on a bad
\* pattern and takes the process down.
Load ==
    /\ wpc = "load"
    /\ CASE rulesFile.v \in Valid ->
               SetRules(rulesFile.v) /\ wpc' = "snap"
         [] rulesFile.v \in BadRegex ->
               UNCHANGED engine /\ wpc' = "panicked"
         [] OTHER ->
               UNCHANGED engine /\ wpc' = "snap"
    /\ UNCHANGED <<now, rulesFile, kwFile, rc, kc, snapshots, data, judolKws, detKws, writes>>

\* _ = snapUC.Snapshot(ctx, data), whatever LoadRules returned.
Snap ==
    /\ wpc = "snap"
    /\ snapshots' = Append(snapshots, data)
    /\ wpc' = "keywords"
    /\ UNCHANGED <<now, rulesFile, kwFile, rc, kc, engine, data, judolKws, detKws, writes>>

\* Mutant of Keywords: the CompileKeywords error is not checked.
KeywordsIgnoreError ==
    /\ wpc = "keywords"
    /\ IF Changed(kwFile, kc)
          THEN /\ kc' = kwFile.mtime
               /\ judolKws' = kwFile.v
          ELSE UNCHANGED <<kc, judolKws>>
    /\ wpc' = "watch"
    /\ UNCHANGED <<now, rulesFile, kwFile, rc, engine, snapshots, data, detKws, writes>>

\* kc.LoadIfChanged(keywords file); on a change CompileKeywords and, when
\* it parses, judolKws = kws.  The detector keeps the slice it was built
\* with.
Keywords ==
    /\ wpc = "keywords"
    /\ IF Changed(kwFile, kc)
          THEN /\ kc' = kwFile.mtime
               /\ judolKws' = IF kwFile.v \in KwValid THEN kwFile.v ELSE judolKws
          ELSE UNCHANGED <<kc, judolKws>>
    /\ wpc' = "watch"
    /\ UNCHANGED <<now, rulesFile, kwFile, rc, engine, snapshots, data, detKws, writes>>

Watcher == Watch \/ Load \/ Snap \/ Keywords

Next ==
    \/ Tick
    \/ \E v \in Versions : WriteRules(v)
    \/ \E k \in KwVersions : WriteKeywords(k)
    \/ Watcher

Spec == Init /\ [][Next]_vars

\* The ticker fires every 15 s for as long as the process runs.
FairSpec == Spec /\ WF_vars(Watcher)

-----------------------------------------------------------------------------
(* Properties.                                                             *)

Panicked == wpc = "panicked"

\* Spec 4.B: a rules file whose change the cache sees is eventually the
\* active rule set, unless it is replaced first or the process died.
ChangeEventuallyApplied ==
    \A v \in Valid :
        (rulesFile.v = v /\ rulesFile.mtime > rc)
            ~> (engine = v \/ rulesFile.v # v \/ Panicked)

\* Spec 8 (glossary) and 4.B: the last uploaded snapshot holds the bytes of
\* the rules that were activated with it.
SnapshotMatchesEngine ==
    (wpc \in {"keywords", "watch"} /\ Len(snapshots) > 0 /\ snapshots[Len(snapshots)] \in Valid)
        => snapshots[Len(snapshots)] = engine

\* Spec 4.B: a keywords file that parses is eventually what the detector
\* matches, unless it is replaced first.
KeywordReloadReachesDetector ==
    \A k \in KwValid :
        (kwFile.v = k /\ wpc # "panicked") ~> (detKws = k \/ kwFile.v # k \/ Panicked)
=============================================================================
