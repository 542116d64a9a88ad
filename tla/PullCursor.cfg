\* Two ticks to a second and a clock that passes it twice: transactions and
\* pulls that fit in the second, that exceed it and that miss a commit.
CONSTANTS
    Row = {r1, r2}
    Writer = {w1, w2}
    Second = 2
    Skew = 1
    MaxTime = 4

SYMMETRY Symmetry
SPECIFICATION PullSpec

INVARIANT OnlySlowMissed
