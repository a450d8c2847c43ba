------------------------------ MODULE MCHoldout ------------------------------
(* Small holdout missions for TLC: the waves of the runs on HoldoutMode.     *)
EXTENDS HoldoutMode, TLC

MCSymmetry == Permutations(Marines)

Entry(delay, quantity, duration) ==
    [delay |-> delay, quantity |-> quantity, duration |-> duration,
     group |-> TRUE, counted |-> TRUE, prunable |-> TRUE]

Wave(entries, resupply) == [entries |-> entries, resupply |-> resupply]

\* Waves every alien of which spawns and counts: one at once, one spread over
\* time, and one of two entries that overlap.
SoundWaves ==
    0 :> Wave(<<Entry(1, 2, 0)>>, FALSE)
    @@ 1 :> Wave(<<Entry(0, 3, 3)>>, TRUE)
    @@ 2 :> Wave(<<Entry(0, 1, 0), Entry(1, 2, 1)>>, FALSE)

\* Two small waves.
ShortWaves ==
    0 :> Wave(<<Entry(1, 2, 0)>>, FALSE)
    @@ 1 :> Wave(<<Entry(0, 1, 0)>>, FALSE)

\* Waves with everything that can be wrong with an entry: a spawn group the map
\* does not have, a class whose kills do not count, a wave without entries, and
\* an entry of no aliens.
FaultyWaves ==
    0 :> Wave(<<Entry(0, 1, 0), Entry(1, 2, 1)>>, TRUE)
    @@ 1 :> Wave(<<[Entry(0, 1, 0) EXCEPT !.prunable = FALSE],
                   [Entry(0, 1, 0) EXCEPT !.group = FALSE],
                   [Entry(0, 1, 0) EXCEPT !.counted = FALSE],
                   Entry(0, 0, 0)>>, FALSE)

\* One wave of an uber drone, which asw_drone_uber.h classifies as a class that
\* IsAlienClass does not list.
UberWaves == 0 :> Wave(<<[Entry(0, 1, 0) EXCEPT !.counted = FALSE]>>, FALSE)
=============================================================================
