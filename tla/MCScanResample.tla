--------------------------- MODULE MCScanResample ---------------------------
(* A small instance of ScanResample for TLC: a circle of twelve units. *)
EXTENDS ScanResample

\* Every pair of ends up to more than a turn away, and lists of odd length and
\* of two sectors.
AnyEnd == -14 .. 14
AllSectors ==
    {<<lo, hi>> : lo \in AnyEnd, hi \in AnyEnd} \union {<<>>, <<3>>, <<4, -5, 1>>, <<5, 7, -2, -1>>}

RayScan(min, increment, ranges) ==
    [angleMin |-> min, angleIncrement |-> increment,
     rangeMin |-> 2, rangeMax |-> 6, ranges |-> ranges]
\* Scans all round and short ones, rays in either direction, the near return
\* before or after the far one, and returns of every kind: none, too near, too far.
AllScans ==
    {RayScan(-6, 1, <<3, 0, 4, NotFinite, 5, 1, 2, 7, 6, 3, 2, 4>>), RayScan(0, 1, <<>>)}
        \union {RayScan(m, d, r) : m \in {-6, -1, 5}, d \in {-2, 1, 3},
                                   r \in {<<2, 3, 2>>, <<3, 2, NotFinite>>, <<1, 6, 3>>}}
=============================================================================
