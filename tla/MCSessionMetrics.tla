--------------------------- MODULE MCSessionMetrics ---------------------------
(* A ceiling of two on every counter and on a duration: two actions fit or  *)
(* clip the sum of the durations, or are too long (three is shortened to    *)
(* two) or no span of time; their outputs have a size or have none, and the *)
(* second restart clips the number of segments.                             *)
EXTENDS SessionMetrics
=============================================================================
