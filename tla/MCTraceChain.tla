---------------------------- MODULE MCTraceChain ----------------------------
(* Instances of TraceChain: the trace ids are interchangeable, and so are the keys. *)
EXTENDS TraceChain, TLC

Symmetric == Permutations(TraceId) \cup Permutations(Key)
=============================================================================
