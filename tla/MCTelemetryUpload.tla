-------------------------- MODULE MCTelemetryUpload --------------------------
(* TelemetryUpload for TLC: four batch ids, one larger than the whole byte   *)
(* budget, one the hub refuses, two that do not fit together.                *)
EXTENDS TelemetryUpload

CONSTANTS b1, b2, b3, b4

MCSize == [b \in {b1, b2, b3, b4} |->
              CASE b = b1 -> 4 [] b = b2 -> 1 [] OTHER -> 2]
=============================================================================
