--------------------------- MODULE MCReviewedRuns ---------------------------
(* Two processes, one proposal from the first evidence and two that clash  *)
(* from the second.                                                        *)
EXTENDS ReviewedRuns

CONSTANTS a, b, c

MCBatches == <<{a}, {b, c}>>
MCClashes == {{b, c}}
=============================================================================
