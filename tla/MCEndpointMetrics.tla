------------------------- MODULE MCEndpointMetrics -------------------------
(* Values for checking EndpointMetrics on small instances.                 *)
EXTENDS EndpointMetrics

MCEndpoints == {"auth", "telemetryConfig", "telemetryRuntime", "telemetryKeysServerSide"}
=============================================================================
