----------------------------- MODULE MCTraceStore -----------------------------
(* The instance of TraceStore for TLC is given by its configuration.        *)
EXTENDS TraceStore
===============================================================================
