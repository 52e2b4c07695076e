---------------------------- MODULE MCTokenBucket ----------------------------
(* Three threads, a bucket of two tokens, a slow and a fast rate.           *)
EXTENDS TokenBucket

CONSTANTS t1, t2, t3

MCThreads == {t1, t2, t3}

MCRates == {1, 3}
=============================================================================
