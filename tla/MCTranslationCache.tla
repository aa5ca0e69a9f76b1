------------------------- MODULE MCTranslationCache -------------------------
(* TranslationCache with one shard and two keys, one of which the server     *)
(* translates now one way, now another.  The workers are interchangeable.    *)
EXTENDS TranslationCache, TLC

CONSTANTS k1, k2, v1, v2

MCKeys == {k1, k2}
MCShardOf == [k \in MCKeys |-> 1]
MCAnswers == [k \in MCKeys |-> IF k = k1 THEN {v1, v2} ELSE {v1}]

MCSymmetry == Permutations(Workers)

=============================================================================
