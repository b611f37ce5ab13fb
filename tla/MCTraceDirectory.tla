-------------------------- MODULE MCTraceDirectory --------------------------
(* Three processes, two of them with a thread of the same id.              *)
EXTENDS TraceDirectory

CONSTANTS p1, p2, p3, i1, i2

Sharing == {<<i1, p1>>, <<i2, p1>>, <<i1, p2>>}
=============================================================================
