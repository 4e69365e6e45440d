----------------------------- MODULE ObjectPath -----------------------------
(***************************************************************************)
(* Object-path normalisation of ColdStore.Upload and ColdStore.           *)
(* SnapshotRules (and of the spool file name in FlushSpool): truncate the  *)
(* path to maxObjectPathLen bytes, then strip "spooled_" while the path    *)
(* starts with "spooled_spooled_".                                         *)
(*                                                                         *)
(* A path is a sequence of bytes over a small alphabet; Spooled is the     *)
(* byte string standing for "spooled_" (like it, it has no proper prefix   *)
(* that is also a suffix).  MaxLen stands for 255.  The module is a pure   *)
(* algorithm: the one variable holds an input and never changes, so TLC   *)
(* checks the properties for every input up to MaxInputLen bytes.          *)
(***************************************************************************)
EXTENDS Naturals, Sequences, SequencesExt

CONSTANTS
    Alphabet,     \* bytes paths are made of
    Spooled,      \* the byte string "spooled_"
    MaxLen,       \* maxObjectPathLen = 255
    MaxInputLen   \* longest input checked

ASSUME Spooled \in Seq(Alphabet) /\ Len(Spooled) > 0
ASSUME MaxLen \in Nat /\ MaxInputLen \in Nat

VARIABLE path

SpooledSpooled == Spooled \o Spooled

\* if len(objectPath) > maxObjectPathLen { objectPath = objectPath[:maxObjectPathLen] }
TruncatePath(s) == IF Len(s) > MaxLen THEN SubSeq(s, 1, MaxLen) ELSE s

\* for strings.HasPrefix(p, "spooled_spooled_") { p = strings.TrimPrefix(p, "spooled_") }
RECURSIVE CollapseSpooled(_)
CollapseSpooled(s) ==
    IF IsPrefix(SpooledSpooled, s)
       THEN CollapseSpooled(SubSeq(s, Len(Spooled) + 1, Len(s)))
       ELSE s

\* Mutant of NormalizeObjectPath: the length check is dropped.
NormalizeNoTruncate(s) == CollapseSpooled(s)

\* Truncation first, then the collapse, in the order of the code.
NormalizeObjectPath(s) == CollapseSpooled(TruncatePath(s))

\* k copies of s, one after the other
RECURSIVE Repeat(_, _)
Repeat(s, k) == IF k = 0 THEN << >> ELSE s \o Repeat(s, k - 1)

Init == path \in SeqOf(Alphabet, MaxInputLen)
Next == UNCHANGED path
Spec == Init /\ [][Next]_path

\* A normalised path fits maxObjectPathLen bytes, does not start with
\* "spooled_spooled_", and differs from the input only by the truncation
\* and whole leading copies of "spooled_".
NormalizedIsCanonical ==
    LET n == NormalizeObjectPath(path) IN
    /\ Len(n) <= MaxLen
    /\ ~IsPrefix(SpooledSpooled, n)
    /\ \E k \in 0..MaxInputLen :
          TruncatePath(path) = Repeat(Spooled, k) \o n
=============================================================================
