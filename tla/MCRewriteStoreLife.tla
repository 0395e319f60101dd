------------------------- MODULE MCRewriteStoreLife -------------------------
(* Bounds: five keys, capacity three, so that keys are evicted,           *)
(* come back, and are put again while stored at either end of the queue;   *)
(* two rewrites, so that an overwrite is visible.                          *)
EXTENDS RewriteStoreLife

CONSTANTS k1, k2, k3, k4, k5, w1, w2

MCKeys     == {k1, k2, k3, k4, k5}
MCRewrites == {w1, w2}
=============================================================================
