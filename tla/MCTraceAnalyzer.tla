-------------------------- MODULE MCTraceAnalyzer --------------------------
(* Any trace over a few addresses. *)
EXTENDS TraceAnalyzer

MCPageOf == [ptr \in Ptr |-> CHOOSE page \in Page : TRUE]
=============================================================================
