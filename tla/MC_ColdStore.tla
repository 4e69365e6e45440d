---------------------------- MODULE MC_ColdStore ----------------------------
(* Model-checking instance of ColdStore: small sets of model values.       *)
EXTENDS ColdStore

CONSTANTS c1, f1, f2, p1, p2, s1, s2, s3

MC_Callers == {c1}
MC_OneFlusher == {f1}
MC_TwoFlushers == {f1, f2}
MC_Payloads == {p1, p2}
MC_OnePayload == {p1}
MC_SpoolIds == {s1, s2, s3}
=============================================================================
