----------------------------- MODULE ArchiveKeys -----------------------------
(***************************************************************************)
(* Object keys of mini-siem-api's MinIO archiver (infra/storage/           *)
(* archiver.go).  Config.MinIOArchiver calls NewMinIOArchiver, which falls *)
(* back to the NoopArchiver unless the endpoint, both keys and the bucket  *)
(* are set and minio.New succeeds; the two prefixes go through             *)
(* withTrailingSlash.  ArchiveEvent and ArchiveDetection put              *)
(* "<prefix><ID>.json".                                                    *)
(*                                                                         *)
(* A prefix is a sequence of characters; the IDs are formatted in decimal *)
(* by %d.  ".json" is one symbol Json: the argument below only needs that  *)
(* it holds no "/" and no digit.  MiniSiemIngest names an archived object  *)
(* by the record [kind, id]; this module checks when that is sound.  The   *)
(* variable holds the configuration and never changes.                     *)
(***************************************************************************)
EXTENDS Naturals, Sequences

CONSTANTS
    Chars,              \* characters a configured prefix is made of
    Slash,              \* "/"
    Space,              \* a whitespace character (strings.TrimSpace)
    Json,               \* ".json"
    EventsFallback,     \* "events/"
    DetectionsFallback, \* "detections/"
    MaxPrefixLen,       \* longest configured prefix checked
    MaxID               \* largest ID checked

ASSUME {Slash, Space} \subseteq Chars /\ Json \notin Chars
ASSUME MaxPrefixLen \in Nat /\ MaxID \in Nat

VARIABLE cfg

\* the characters of %d
DigitChar == <<"0", "1", "2", "3", "4", "5", "6", "7", "8", "9">>

\* fmt's %d of an unsigned ID
RECURSIVE Decimal(_)
Decimal(n) == IF n < 10 THEN <<DigitChar[n + 1]>>
                        ELSE Decimal(n \div 10) \o <<DigitChar[(n % 10) + 1]>>

\* the values MINI_SIEM_MINIO_*_PREFIX can take, up to MaxPrefixLen characters
PrefixValues == UNION {[1..n -> Chars] : n \in 0..MaxPrefixLen}

\* Config.Load's MinIOConfig: `complete` is the endpoint, access key,
\* secret key and bucket all being non-empty; `clientOk` is minio.New
\* returning no error.
Configs == [complete : BOOLEAN, clientOk : BOOLEAN,
            eventsPrefix : PrefixValues, detectionsPrefix : PrefixValues]

\* strings.TrimSpace(value) == ""
Blank(s) == \A k \in 1..Len(s) : s[k] = Space

\* Mutant of withTrailingSlash: the prefix is used as configured.
WithTrailingSlashKept(value, fallback) == IF Blank(value) THEN fallback ELSE value

\* withTrailingSlash: the fallback for a blank value, else the value with
\* a "/" appended unless it already ends with one.
withTrailingSlash(value, fallback) ==
    IF Blank(value) THEN fallback
    ELSE IF value[Len(value)] = Slash THEN value ELSE Append(value, Slash)

\* NewMinIOArchiver: the NoopArchiver and an error when a setting is
\* missing, nil and minio.New's error when the client cannot be built, else
\* a MinIOArchiver with the normalised prefixes.
NewMinIOArchiver(c) ==
    CASE ~c.complete -> [kind |-> "noop", err |-> TRUE]
      [] ~c.clientOk -> [kind |-> "nil", err |-> TRUE]
      [] OTHER -> [kind |-> "minio", err |-> FALSE,
                   eventsPrefix |-> withTrailingSlash(c.eventsPrefix, EventsFallback),
                   detectionsPrefix |-> withTrailingSlash(c.detectionsPrefix, DetectionsFallback)]

\* Config.MinIOArchiver: the NoopArchiver whenever NewMinIOArchiver fails.
MinIOArchiver(c) ==
    LET r == NewMinIOArchiver(c) IN IF r.err THEN [kind |-> "noop"] ELSE r

\* ArchiveEvent / ArchiveDetection: fmt.Sprintf("%s%d.json", prefix, ID)
ObjectKey(a, kind, id) ==
    (IF kind = "events" THEN a.eventsPrefix ELSE a.detectionsPrefix) \o Decimal(id) \o <<Json>>

ArchiverInit == cfg \in Configs

\* An archived object's key names one artefact: two puts of the
\* MinIOArchiver write the same object only for the same ID and kind, or
\* for the same ID of an event and a detection when the two normalised
\* prefixes are equal.  So MiniSiemIngest's [kind, id] names are sound
\* exactly when the normalised prefixes differ.
ArchiveKeysUnambiguous ==
    LET a == MinIOArchiver(cfg) IN
    a.kind = "minio" =>
      \A k1, k2 \in {"events", "detections"}, i, j \in 0..MaxID :
         ObjectKey(a, k1, i) = ObjectKey(a, k2, j) =>
            /\ i = j
            /\ k1 = k2 \/ a.eventsPrefix = a.detectionsPrefix
=============================================================================
