------------------------- MODULE MCConcurrencyLimit -------------------------
(* Instance of ConcurrencyLimit for TLC: two keys in two shards, each with *)
(* two requests, so that two requests contend for each lock, two acquire() *)
(* calls run at once, and more requests come than the hard limit lets in.  *)
EXTENDS ConcurrencyLimit

CONSTANTS a, b, r1, r2, r3, r4

MCShardOf == (a :> 0) @@ (b :> 1)
MCKeyOf == (r1 :> a) @@ (r2 :> a) @@ (r3 :> b) @@ (r4 :> b)
=============================================================================
