---------------------------- MODULE MCTelemetry ----------------------------
(* The publisher on a small instance, for TLC.                             *)
EXTENDS TelemetryPublisher

CONSTANTS p1, p2
=============================================================================
