-------------------------- MODULE MCKVCacheManager --------------------------
(* Instances of the KV-cache manager for TLC. *)
EXTENDS KVCacheManager

CONSTANTS r1, r2, r3

Of3(x, y, z) == [r \in Req |-> CASE r = r1 -> x [] r = r2 -> y [] r = r3 -> z]

\* Two that agree on four tokens, the fourth of which the second samples, and a
\* third that shares nothing with them.
Texts == Of3(<<1, 2, 3, 4, 5, 6>>, <<1, 2, 3, 4, 7>>, <<8, 9, 8, 9>>)
Prompts == Of3(5, 3, 3)
=============================================================================
