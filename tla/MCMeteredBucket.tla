--------------------------- MODULE MCMeteredBucket ---------------------------
(* A bucket of two tokens, two grains each, at a slow and a fast rate.      *)
EXTENDS MeteredBucket

MCRates == {1, 3}
=============================================================================
