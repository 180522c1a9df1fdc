------------------------- MODULE MCRequestPipeline -------------------------
EXTENDS RequestPipeline

\* Which configurations have log channels and metrics; "raw" and "site" differ
\* where a location of the host has its own.
Logs == {{}, {"raw"}, {"site", "error"}, {"global", "site"}, Confs}
Metrics == {{}, {"error"}, {"raw", "site", "error"}}

AllSettings == [timeout: BOOLEAN, metrics: Metrics, log: Logs,
                handled: {{}, {"s1"}, Statuses}]
=============================================================================
