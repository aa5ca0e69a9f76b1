------------------------- MODULE MCCachePersistence -------------------------
(* CachePersistence with two shards, of which the keys share the first: a    *)
(* Save that has collected it is still collecting.  The workers, and the     *)
(* keys, are interchangeable.                                                *)
EXTENDS CachePersistence, TLC

CONSTANTS k1, k2

MCKeys == {k1, k2}
MCShardOf == [k \in MCKeys |-> 1]

MCSymmetry == Permutations(Workers) \cup Permutations(MCKeys)

=============================================================================
