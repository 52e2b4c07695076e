----------------------------- MODULE MCAdapters -----------------------------
(* One retry and two pages, slots that collide with the deadline; a file of *)
(* up to two records, one of them without a tag.                            *)
EXTENDS Adapters
CONSTANTS t1, t2
Tagged(r) == IF r % 2 = 1 THEN t1 ELSE None
=============================================================================
