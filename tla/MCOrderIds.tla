----------------------------- MODULE MCOrderIds -----------------------------
(* The sessions of two clients in one process: they share the file, and the  *)
(* name of the file beside it.                                               *)
EXTENDS OrderIds

CONSTANTS s1, s2, c1, c2, p1

TwoSessions == {s1, s2}
TwoClients == {c1, c2}
OneProcess == {p1}
ClientOfEach == [s \in Sessions |-> IF s = s1 THEN c1 ELSE c2]
ProcessOfEach == [s \in Sessions |-> p1]
=============================================================================
